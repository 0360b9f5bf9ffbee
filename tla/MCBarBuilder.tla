---------------------------- MODULE MCBarBuilder ----------------------------
(***************************************************************************)
(* A 1m interval is two ticks of the clock, a 5m interval two of them; the *)
(* tolerance is one tick.  An observation arrives at once, at the end of   *)
(* the tolerance, too late or with a source time ahead of the clock, and   *)
(* is a trade, a trade with a cumulative volume, or a quote with a         *)
(* cumulative volume and without a usable price.                           *)
(***************************************************************************)
EXTENDS BarBuilder

MCWidth == [tf \in Timeframes |-> IF tf = "1m" THEN 2 ELSE 4]

Payload(price, size, cum) == [price |-> price, size |-> size, cum |-> cum]

MCPayloads == {Payload(TRUE, 1, NoCumVol), Payload(TRUE, 1, 1), Payload(FALSE, 0, 2)}

MCLags == {-1, 0, 2, 4}
=============================================================================
