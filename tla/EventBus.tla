------------------------------- MODULE EventBus -------------------------------
(***************************************************************************)
(* joker/events/bus.py: InProcessAsyncEventBus.                            *)
(*                                                                         *)
(* publish holds an asyncio lock but awaits nothing that suspends (the     *)
(* queues are unbounded), so it is one step.  Every correlation id has its *)
(* own queue and worker task (a stream).  A worker takes an event and      *)
(* counts it as dispatching in one step, then awaits the handlers one      *)
(* after the other; other tasks, and the handlers themselves, publish in   *)
(* between.  A handler that raises or exceeds its timeout only ends.       *)
(* drain and close poll the queues, with a suspension between two looks.   *)
(***************************************************************************)
EXTENDS Naturals, Sequences, FiniteSets

CONSTANTS Events,         \* event_id values
          Correlations,
          CorrelationOf,  \* correlation_id of each event
          Emits,          \* the events a handler of an event publishes
          Sources,        \* events published from outside the handlers
          Handlers,       \* how many handlers subscribe to every event
          MaxPublish      \* how often one event is published from outside

ASSUME BusAssumption ==
    /\ CorrelationOf \in [Events -> Correlations]
    /\ Handlers \in Nat /\ MaxPublish \in Nat
    /\ Sources \subseteq Events
    /\ Emits \in [Events -> SUBSET Events]

VARIABLES seen,       \* _seen
          streams,    \* every worker started: its queue, what it dispatches, its state
          current,    \* _queues/_workers: the stream of a correlation id, 0 if none
          closer,     \* where the caller of close is
          joining,    \* the workers close still awaits
          published,  \* how often each event was published from outside
          accepted,   \* history: per correlation id, events publish returned True for
          completed   \* history: per correlation id, events all handlers are done with

busVars == <<seen, streams, current, closer, joining, published, accepted, completed>>

Stop == "stop"      \* the None close puts into a queue
Idle == "idle"      \* a worker waits in queue.get()

\* An event is neither the None of close nor the absence of one.
ASSUME SentinelAssumption == Stop \notin Events /\ Idle \notin Events

NewStream(c) == [corr |-> c, queue |-> <<>>, event |-> Idle, left |-> 0, alive |-> TRUE]

\* _dispatching: the workers between queue.get() and the end of _dispatch.
Dispatching == {s \in DOMAIN streams : streams[s].alive /\ streams[s].event # Idle}

\* What drain looks at: registered queues and the dispatch counter.
LooksIdle ==
    /\ \A c \in Correlations : current[c] # 0 => streams[current[c]].queue = <<>>
    /\ Dispatching = {}

-----------------------------------------------------------------------------
\* Mutant: every event gets a worker of its own.
PublishUnordered(e) ==
    LET c == CorrelationOf[e] IN
    IF e \in seen THEN UNCHANGED <<seen, streams, current, accepted>>
    ELSE /\ seen' = seen \cup {e}
         /\ streams' = Append(streams, [NewStream(c) EXCEPT !.queue = <<e>>])
         /\ current' = [current EXCEPT ![c] = Len(streams) + 1]
         /\ accepted' = [accepted EXCEPT ![c] = Append(@, e)]

\* publish: True and queued, or False for an event_id seen before.
Publish(e) ==
    LET c == CorrelationOf[e]
        started == IF current[c] = 0 THEN Append(streams, NewStream(c)) ELSE streams
        s == IF current[c] = 0 THEN Len(started) ELSE current[c]
    IN  IF e \in seen THEN UNCHANGED <<seen, streams, current, accepted>>
        ELSE /\ seen' = seen \cup {e}
             /\ current' = [current EXCEPT ![c] = s]
             /\ streams' = [started EXCEPT ![s].queue = Append(@, e)]
             /\ accepted' = [accepted EXCEPT ![c] = Append(@, e)]

\* A task outside the handlers publishes, also while close still drains.  Once
\* the workers are told to stop no such task is left: shutdown has stopped the
\* agent, and its caller the market ticks, before.
PublishOutside(e) ==
    /\ e \in Sources
    /\ closer \notin {"joining", "closed"}
    /\ published[e] < MaxPublish
    /\ published' = [published EXCEPT ![e] = @ + 1]
    /\ Publish(e)
    /\ UNCHANGED <<closer, joining, completed>>

-----------------------------------------------------------------------------
(* _run_stream and _dispatch                                               *)

TakeEvent(s) ==
    LET e == Head(streams[s].queue) IN
    /\ streams[s].alive /\ streams[s].event = Idle
    /\ streams[s].queue # <<>> /\ e # Stop
    /\ streams' = [streams EXCEPT ![s].queue = Tail(@), ![s].event = e, ![s].left = Handlers]
    /\ UNCHANGED <<seen, current, closer, joining, published, accepted, completed>>

\* A handler publishes an event that follows from the one it handles.
HandlerPublishes(s) ==
    /\ s \in Dispatching /\ streams[s].left > 0
    /\ \E e \in Emits[streams[s].event] : Publish(e)
    /\ UNCHANGED <<closer, joining, published, completed>>

\* A handler returns, raises or is cancelled by its timeout: all are logged
\* and the next handler runs.
HandlerEnds(s) ==
    /\ s \in Dispatching /\ streams[s].left > 0
    /\ streams' = [streams EXCEPT ![s].left = @ - 1]
    /\ UNCHANGED <<seen, current, closer, joining, published, accepted, completed>>

DispatchEnds(s) ==
    /\ s \in Dispatching /\ streams[s].left = 0
    /\ streams' = [streams EXCEPT ![s].event = Idle]
    /\ completed' = [completed EXCEPT ![streams[s].corr] = Append(@, streams[s].event)]
    /\ UNCHANGED <<seen, current, closer, joining, published, accepted>>

WorkerStops(s) ==
    /\ streams[s].alive /\ streams[s].event = Idle
    /\ streams[s].queue # <<>> /\ Head(streams[s].queue) = Stop
    /\ streams' = [streams EXCEPT ![s].queue = Tail(@), ![s].alive = FALSE]
    /\ UNCHANGED <<seen, current, closer, joining, published, accepted, completed>>

-----------------------------------------------------------------------------
(* drain and close                                                         *)

bus == <<seen, streams, current, joining, published, accepted, completed>>

CloseCalled ==
    /\ closer = "open"
    /\ closer' = "draining"
    /\ UNCHANGED bus

\* The first look of drain finds the bus idle; sleep(0) follows.
DrainLooks ==
    /\ closer = "draining" /\ LooksIdle
    /\ closer' = "confirming"
    /\ UNCHANGED bus

\* The second look: not idle any more, so the loop sleeps and starts over.
DrainRetries ==
    /\ closer = "confirming" /\ ~LooksIdle
    /\ closer' = "draining"
    /\ UNCHANGED bus

\* TimeoutError leaves close without having stopped anything.
DrainTimesOut ==
    /\ closer = "draining" /\ ~LooksIdle
    /\ closer' = "failed"
    /\ UNCHANGED bus

Registered == {current[c] : c \in {d \in Correlations : current[d] # 0}}

\* Mutant: close does not wait for the bus to drain.
StopWorkersAtOnce ==
    /\ closer = "draining"
    /\ closer' = "joining"
    /\ streams' = [s \in DOMAIN streams |->
                    IF s \in Registered THEN [streams[s] EXCEPT !.queue = Append(@, Stop)]
                    ELSE streams[s]]
    /\ joining' = Registered
    /\ UNCHANGED <<seen, current, published, accepted, completed>>

\* Mutant: close awaits the workers without having told them to stop.
StopWorkersUntold ==
    /\ closer = "confirming" /\ LooksIdle
    /\ closer' = "joining"
    /\ joining' = Registered
    /\ UNCHANGED <<seen, streams, current, published, accepted, completed>>

\* The second look: idle, so drain returns; close puts None into every queue
\* and starts to await the workers.
StopWorkers ==
    /\ closer = "confirming" /\ LooksIdle
    /\ closer' = "joining"
    /\ streams' = [s \in DOMAIN streams |->
                    IF s \in Registered THEN [streams[s] EXCEPT !.queue = Append(@, Stop)]
                    ELSE streams[s]]
    /\ joining' = Registered
    /\ UNCHANGED <<seen, current, published, accepted, completed>>

CloseReturns ==
    /\ closer = "joining"
    /\ \A s \in joining : ~streams[s].alive
    /\ closer' = "closed"
    /\ current' = [c \in Correlations |-> 0]
    /\ joining' = {}
    /\ UNCHANGED <<seen, streams, published, accepted, completed>>

-----------------------------------------------------------------------------
BusInit ==
    /\ seen = {}
    /\ streams = <<>>
    /\ current = [c \in Correlations |-> 0]
    /\ closer = "open"
    /\ joining = {}
    /\ published = [e \in Events |-> 0]
    /\ accepted = [c \in Correlations |-> <<>>]
    /\ completed = [c \in Correlations |-> <<>>]

Worker(s) == TakeEvent(s) \/ HandlerEnds(s) \/ DispatchEnds(s) \/ WorkerStops(s)

Closer == CloseCalled \/ DrainLooks \/ DrainRetries \/ DrainTimesOut \/ StopWorkers \/ CloseReturns

BusNext ==
    \/ \E e \in Events : PublishOutside(e)
    \/ \E s \in DOMAIN streams : Worker(s) \/ HandlerPublishes(s)
    \/ Closer

\* The event loop runs every task that can run: workers (a handler ends, at
\* the latest by its timeout) and, once close is called, its caller.
BusFairness ==
    /\ \A s \in 1 .. Cardinality(Events) : WF_busVars(s \in DOMAIN streams /\ Worker(s))
    /\ WF_busVars(DrainLooks \/ DrainRetries \/ StopWorkers \/ CloseReturns)

BusSpec == BusInit /\ [][BusNext]_busVars /\ BusFairness

-----------------------------------------------------------------------------
(* Properties                                                              *)

BusTypeOK ==
    /\ seen \subseteq Events
    /\ \A s \in DOMAIN streams :
        /\ streams[s].corr \in Correlations
        /\ streams[s].left \in 0 .. Handlers
        /\ streams[s].event \in Events \cup {Idle}
    /\ \A c \in Correlations : current[c] \in 0 .. Len(streams)
    /\ closer \in {"open", "draining", "confirming", "joining", "closed", "failed"}
    /\ joining \subseteq DOMAIN streams

\* The bus implements ordered delivery: at most once per event id, in publish
\* order within a correlation id and one at a time, with nothing skipped or left behind, for
\* events handlers publish while they run, handlers that fail and a close
\* that races with the rest.
Delivery ==
    INSTANCE OrderedDelivery WITH accepted <- accepted, delivered <- completed

Ordered == Delivery!Spec

\* close's docstring: once it has returned, no worker is running and every
\* event publish returned True for has been handled.
ClosedIsQuiet ==
    closer = "closed" =>
        /\ \A s \in DOMAIN streams : ~streams[s].alive
        /\ completed = accepted

\* close comes to an end: it returns or drain's deadline passes.
CloseEnds == closer = "draining" ~> closer \in {"closed", "failed"}
=============================================================================
