-------------------------- MODULE OrderActionGateway --------------------------
(***************************************************************************)
(* joker/runtime/order_action_gateway.py between its two callers, the      *)
(* decision worker (entries) and the position worker (adds, reductions,    *)
(* exits, replacements) of the cognitive runtime, and ExecutionRuntime.    *)
(*                                                                         *)
(* submit reads the ledger projection, validates against it and then       *)
(* awaits the execution runtime, so the order it sends rests on a          *)
(* projection that may be old by then.  Market data is abstracted to       *)
(* whether it permits the action; quantities are contracts.                *)
(***************************************************************************)
EXTENDS Integers, Sequences, FiniteSets, FiniteSetsExt

CONSTANTS Contracts,   \* option contracts
          Workers,     \* subset of {"decision", "position"}
          MaxQty,      \* _max_quantity
          MaxOrders,   \* bound on orders
          MaxRequests  \* bound on calls of submit

ASSUME GatewayAssumption ==
    /\ Workers \subseteq {"decision", "position"}
    /\ {MaxQty, MaxOrders, MaxRequests} \subseteq Nat

VARIABLES orders,   \* by client order id: what ledger and broker hold of the order
          held,     \* the broker's position per contract
          worker,   \* the call of submit each worker is in
          requests  \* calls of submit so far

vars == <<orders, held, worker, requests>>

NoId == 0
Kinds == [decision |-> {"entry", "probe"}, position |-> {"add", "reduce", "exit", "replace"}]
Sells == {"reduce", "exit"}

\* filled and status are the ledger's, live and sent the broker's; rested is
\* history: the order did not fill or fail at once.  Nothing calls
\* record_verified_fill before an order is filled whole, so filled stays 0 until
\* then, however much the broker has filled.
NewOrder(req) ==
    [kind |-> req.kind, contract |-> req.contract, side |-> req.side, qty |-> req.qty, filled |-> 0,
     status |-> "submitted", live |-> "none", sent |-> 0,
     rested |-> FALSE, replaces |-> req.replaces]

Signed(ord, n) == IF ord.side = "buy" THEN n ELSE -n

-----------------------------------------------------------------------------
(* The projection (working_orders_from_projection, open_positions_...)     *)

Working == {o \in DOMAIN orders : orders[o].status \in {"submitted", "accepted", "partially_filled"}}
Remaining(o) == IF orders[o].qty > orders[o].filled THEN orders[o].qty - orders[o].filled ELSE 0

\* The projected position: the fills the ledger knows (LedgerProjector also
\* stops at zero a sell of more than is open).
Position(k) ==
    MapThenSumSet(LAMBDA o : Signed(orders[o], orders[o].filled),
                  {o \in DOMAIN orders : orders[o].contract = k})

HasWorkingEntry(S) == \E o \in S : orders[o].side = "buy" /\ Remaining(o) > 0

-----------------------------------------------------------------------------
(* _validate_and_compile                                                   *)

\* Mutant: working orders are not looked at.
ValidEntryAlways(req) == req.kind = "entry" => Position(req.contract) = 0

ValidEntry(req) ==
    /\ ~HasWorkingEntry(Working)
    /\ req.kind = "entry" => Position(req.contract) = 0

ValidAdd(req) ==
    /\ Position(req.contract) # 0
    /\ ~HasWorkingEntry({o \in Working : orders[o].contract = req.contract})

\* Mutant: the sell quantity is checked against the order cap only.
ValidCloseUncapped(req) == Position(req.contract) # 0

ValidClose(req) == Position(req.contract) # 0 /\ req.qty <= Position(req.contract)

ValidReplace(req) ==
    /\ req.replaces \in Working
    /\ Remaining(req.replaces) > 0
    /\ orders[req.replaces].contract = req.contract
    /\ orders[req.replaces].side = req.side
    /\ req.qty <= Remaining(req.replaces)

\* The checks of the market data, the cap and the action's own rule.  Every
\* request has a proposal and a client order id of its own.
Validate(req) ==
    /\ req.market = "good"
    /\ req.qty \in 1..MaxQty
    /\ CASE req.kind \in {"entry", "probe"} -> ValidEntry(req)
         [] req.kind = "add" -> ValidAdd(req)
         [] req.kind \in Sells -> ValidClose(req)
         [] OTHER -> ValidReplace(req)

\* _compile_degraded_close: without usable market data a close goes ahead
\* with what is open; neither the cap nor the duplicate check apply.
DegradedClose(req) ==
    req.market = "degraded" /\ req.kind \in Sells /\ Position(req.contract) > 0

-----------------------------------------------------------------------------
(* submit                                                                  *)

Idle == [pc |-> "idle", id |-> NoId,
         req |-> [kind |-> "none", contract |-> "none", side |-> "buy", qty |-> 0,
                  market |-> "good", replaces |-> NoId]]

\* What becomes of a request: the snapshot and the projection are loaded, and
\* validation does not await.
Decide(req) ==
    IF Validate(req)
    THEN [pc |-> IF req.kind = "replace" THEN "cancel" ELSE "request", id |-> NoId, req |-> req]
    ELSE IF DegradedClose(req)
    THEN [pc |-> "request", id |-> NoId,
          req |-> [req EXCEPT !.qty = Min({req.qty, Position(req.contract)})]]
    ELSE Idle

\* A call of submit up to its first effect.  position_graph and the order
\* manager take a replacement's side and contract from the order.
Submit(w, kind, k, n, market) ==
    /\ worker[w].pc = "idle"
    /\ requests < MaxRequests
    /\ kind \in Kinds[w]
    /\ \E o \in IF kind = "replace" THEN DOMAIN orders ELSE {NoId} :
        LET side == IF kind \in Sells THEN "sell" ELSE IF o = NoId THEN "buy" ELSE orders[o].side IN
        /\ o # NoId => k = orders[o].contract
        /\ worker' = [worker EXCEPT ![w] =
                Decide([kind |-> kind, contract |-> k, side |-> side, qty |-> n,
                        market |-> market, replaces |-> o])]
    /\ requests' = requests + 1
    /\ UNCHANGED <<orders, held>>

\* Mutant: the replacement is sent whether the cancellation succeeds or raises.
CancelFirstAnyway(w) ==
    LET o == worker[w].req.replaces IN
    /\ worker[w].pc = "cancel"
    /\ orders' = [orders EXCEPT ![o] =
            IF @.live = "open" THEN [@ EXCEPT !.live = "cancelled", !.status = "cancelled"] ELSE @]
    /\ worker' = [worker EXCEPT ![w].pc = "request"]
    /\ UNCHANGED <<held, requests>>

\* cancel_order raises when the replaced order does not rest any more, or when
\* the runtime has no broker order for it (its reply was lost); a cancellation
\* is recorded without what the order had filled.
CancelFirst(w) ==
    LET o == worker[w].req.replaces IN
    /\ worker[w].pc = "cancel"
    /\ IF orders[o].live = "open" /\ orders[o].status # "rejected"
       THEN /\ orders' = [orders EXCEPT ![o].live = "cancelled", ![o].status = "cancelled"]
            /\ worker' = [worker EXCEPT ![w].pc = "request"]
       ELSE /\ worker' = [worker EXCEPT ![w] = Idle]
            /\ UNCHANGED orders
    /\ UNCHANGED <<held, requests>>

\* submit_execution_command: ORDER_SUBMISSION_REQUESTED is appended ...
Request(w) ==
    /\ worker[w].pc = "request" /\ Len(orders) < MaxOrders
    /\ orders' = Append(orders, NewOrder(worker[w].req))
    /\ worker' = [worker EXCEPT ![w].pc = "send", ![w].id = Len(orders) + 1]
    /\ UNCHANGED <<held, requests>>

\* ... the broker takes the order, letting it rest or filling it at once, or
\* submit_order raises: the broker refused the order, or took it and the reply
\* was lost.  Either is recorded as a rejection, and under its own client id
\* nobody sends the order again ...
Send(w) ==
    LET o == worker[w].id
        ord == orders[o]
    IN  /\ worker[w].pc = "send"
        /\ \/ /\ orders' = [orders EXCEPT ![o].live = "open", ![o].status = "accepted",
                                          ![o].rested = TRUE]
              /\ worker' = [worker EXCEPT ![w] = Idle]
              /\ UNCHANGED held
           \/ /\ orders' = [orders EXCEPT ![o].live = "filled", ![o].sent = ord.qty, ![o].status = "accepted"]
              /\ held' = [held EXCEPT ![ord.contract] = @ + Signed(ord, ord.qty)]
              /\ worker' = [worker EXCEPT ![w].pc = "fill"]
           \/ /\ orders' = [orders EXCEPT ![o].status = "rejected"]
              /\ worker' = [worker EXCEPT ![w] = Idle]
              /\ UNCHANGED held
           \/ /\ orders' = [orders EXCEPT ![o].live = "open", ![o].status = "rejected",
                                          ![o].rested = TRUE]
              /\ worker' = [worker EXCEPT ![w] = Idle]
              /\ UNCHANGED held
        /\ UNCHANGED requests

\* ... and the verified fill is recorded before submit returns.
Fill(w) ==
    LET o == worker[w].id IN
    /\ worker[w].pc = "fill"
    /\ orders' = [orders EXCEPT ![o].status = "filled", ![o].filled = orders[o].sent]
    /\ worker' = [worker EXCEPT ![w] = Idle]
    /\ UNCHANGED <<held, requests>>

-----------------------------------------------------------------------------
(* The market, and the polls that tell the ledger                          *)

BrokerFills(o, n) ==
    LET ord == orders[o] IN
    /\ ord.live = "open" /\ ord.sent + n <= ord.qty
    /\ orders' = [orders EXCEPT ![o].sent = @ + n,
                                ![o].live = IF ord.sent + n = ord.qty THEN "filled" ELSE @]
    /\ held' = [held EXCEPT ![ord.contract] = @ + Signed(ord, n)]
    /\ UNCHANGED <<worker, requests>>

\* on_broker_update: a fill is recorded once the broker reports it whole.  An
\* order whose reply was lost has no broker order to poll.
Poll(o) ==
    /\ orders[o].live = "filled" /\ orders[o].status = "accepted"
    /\ \A w \in Workers : worker[w].id # o
    /\ orders' = [orders EXCEPT ![o].status = "filled", ![o].filled = orders[o].qty]
    /\ UNCHANGED <<held, worker, requests>>

Init ==
    /\ orders = <<>>
    /\ held = [k \in Contracts |-> 0]
    /\ worker = [w \in Workers |-> Idle]
    /\ requests = 0

Next ==
    \/ \E w \in Workers :
        \/ \E kind \in Kinds[w], k \in Contracts, n \in 1..MaxQty + 1, m \in {"good", "degraded"} :
                Submit(w, kind, k, n, m)
        \/ CancelFirst(w) \/ Request(w) \/ Send(w) \/ Fill(w)
    \/ \E o \in DOMAIN orders : Poll(o) \/ \E n \in 1..MaxQty : BrokerFills(o, n)

Spec == Init /\ [][Next]_vars

-----------------------------------------------------------------------------
(* Properties                                                              *)

TypeOK ==
    /\ \A o \in DOMAIN orders :
        /\ orders[o].contract \in Contracts /\ orders[o].side \in {"buy", "sell"}
        /\ orders[o].qty > 0 /\ (orders[o].side = "buy" => orders[o].qty <= MaxQty)
        /\ orders[o].filled <= orders[o].sent /\ orders[o].sent <= orders[o].qty
    /\ held \in [Contracts -> Int]

\* "sell quantity exceeds open quantity": while every order fills or fails at
\* once, as PaperBroker's marketable orders do, no sequence of validated closes
\* takes the broker's position in a contract below zero: the open quantity a
\* close was validated against may be old, but only one worker sells.  (A close
\* that rests is not deducted from the open quantity, so with resting orders
\* two closes do oversell.)
NotOversoldAtOnce ==
    (\A o \in DOMAIN orders : ~orders[o].rested) => \A k \in Contracts : held[k] >= 0

\* "original order is not cancellable / not working", "replacement quantity
\* exceeds remaining authoritative quantity": whatever fills, is cancelled or
\* loses its reply between the validation of a replacement, the cancellation it
\* begins with and its submission, an order and its replacements together fill
\* more than the order was for only if the order was cancelled, and by no more
\* than the broker had filled of it without the ledger knowing.  (The ledger
\* knows no partial fill, so such an excess does occur.)
Chain(o) == {o} \cup {p \in DOMAIN orders : orders[p].replaces = o}

OnlyUnknownFillsRepeat ==
    \A o \in DOMAIN orders :
        MapThenSumSet(LAMBDA p : orders[p].sent, Chain(o)) <=
            orders[o].qty + IF orders[o].live = "cancelled" THEN orders[o].sent - orders[o].filled ELSE 0

\* "conflicting working entry order exists; no additional entry": of the
\* orders the decision worker entered, whatever their contracts, at most one
\* is submitted or accepted by the ledger.  (One whose reply was lost counts as
\* rejected there, and may be at the broker besides.)
OneWorkingEntry ==
    \A o, p \in Working : {orders[o].kind, orders[p].kind} \subseteq Kinds.decision => o = p
=============================================================================
