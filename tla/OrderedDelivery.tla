--------------------------- MODULE OrderedDelivery ---------------------------
(***************************************************************************)
(* What InProcessAsyncEventBus promises (joker/events/bus.py, class and    *)
(* publish docstrings): an event is accepted at most once, the events of a *)
(* correlation id are handed out in the order they were accepted, none is  *)
(* skipped and every one is handed out in the end.                         *)
(***************************************************************************)
EXTENDS Naturals, Sequences

CONSTANTS Events, Correlations, CorrelationOf

VARIABLES accepted,   \* per correlation id, the events accepted so far
          delivered   \* per correlation id, the events the subscribers have handled

vars == <<accepted, delivered>>

Accepted(e) == \E i \in DOMAIN accepted[CorrelationOf[e]] : accepted[CorrelationOf[e]][i] = e

Accept(e) ==
    /\ ~Accepted(e)
    /\ accepted' = [accepted EXCEPT ![CorrelationOf[e]] = Append(@, e)]
    /\ UNCHANGED delivered

Deliver(c) ==
    /\ Len(delivered[c]) < Len(accepted[c])
    /\ delivered' = [delivered EXCEPT ![c] = Append(@, accepted[c][Len(@) + 1])]
    /\ UNCHANGED accepted

Init ==
    /\ accepted = [c \in Correlations |-> <<>>]
    /\ delivered = [c \in Correlations |-> <<>>]

Next == (\E e \in Events : Accept(e)) \/ (\E c \in Correlations : Deliver(c))

\* What may happen, and with the fairness of Spec also what must.
Safety == Init /\ [][Next]_vars

Spec == Safety /\ \A c \in Correlations : WF_vars(Deliver(c))
=============================================================================
