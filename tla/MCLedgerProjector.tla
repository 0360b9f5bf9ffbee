-------------------------- MODULE MCLedgerProjector --------------------------
(***************************************************************************)
(* A ledger of one contract with an opening and a closing order.  Every    *)
(* kind of event is present, with a repeated fill under a second event id, *)
(* a fill that would overfill, one that would close more than is open, and *)
(* the three kinds of correction; the run applies them in every order in   *)
(* which the request of an order precedes its other events.                *)
(***************************************************************************)
EXTENDS LedgerProjector

CONSTANTS o1, o2, c1, b1, b2

Blank(n, type, o) ==
    [key |-> n, id |-> n, type |-> type, order |-> o,
     broker |-> IF o = o1 THEN b1 ELSE b2, contract |-> c1,
     side |-> IF o = o1 THEN "buy" ELSE "sell", qty |-> 2, priced |-> TRUE, fees |-> 0,
     overfill |-> FALSE, kind |-> "none", status |-> "none", absolute |-> FALSE, target |-> 0]

MCKeys == 1 .. 20

Opening ==
    { [Blank(1, "order_submission_requested", o1) EXCEPT !.broker = NoBroker],
      Blank(2, "broker_order_accepted", o1),
      [Blank(3, "partial_fill", o1) EXCEPT !.qty = 1, !.fees = 1],
      [Blank(3, "partial_fill", o1) EXCEPT !.qty = 1, !.fees = 1, !.id = 4],
      Blank(5, "final_fill", o1),
      [Blank(6, "partial_fill", o1) EXCEPT !.priced = FALSE],
      Blank(7, "cancellation", o1) }

Closing ==
    { [Blank(8, "order_submission_requested", o2) EXCEPT !.broker = NoBroker],
      [Blank(9, "partial_fill", o2) EXCEPT !.qty = 1],
      Blank(10, "final_fill", o2),
      Blank(11, "rejection", o2) }

Bookkeeping ==
    { [Blank(12, "fee_recorded", o1) EXCEPT !.fees = 1],
      [Blank(13, "position_opened", o1) EXCEPT !.fees = 1] }

Overrides ==
    { [Blank(14, "reconciliation_correction", o1) EXCEPT
            !.kind = "order_fill_qty", !.qty = 3],
      [Blank(15, "reconciliation_correction", o2) EXCEPT
            !.kind = "order_status", !.status = "cancelled"],
      [Blank(16, "reconciliation_correction", o2) EXCEPT
            !.kind = "position_quantity", !.absolute = TRUE, !.target = 1, !.priced = FALSE],
      [Blank(18, "reconciliation_correction", o1) EXCEPT
            !.kind = "order_status", !.status = "open"],
      [Blank(17, "final_fill", o1) EXCEPT !.overfill = TRUE] }

MCStream == Opening \cup Closing \cup Bookkeeping \cup Overrides
=============================================================================
