---------------------------- MODULE MCLedgerStore ----------------------------
(***************************************************************************)
(* Calls of append: w1 and w2 carry the same event (a fill that several    *)
(* pollers have seen), w3 another one, and w4 an event that claims the key *)
(* of w3 with different business fields.                                   *)
(***************************************************************************)
EXTENDS LedgerStore

CONSTANTS w1, w2, w3, w4

MCKey == [w \in Writers |-> IF w \in {w3, w4} THEN "k2" ELSE "k1"]
MCPayload == [w \in Writers |-> IF w = w3 THEN "p2" ELSE IF w = w4 THEN "p3" ELSE "p1"]
=============================================================================
