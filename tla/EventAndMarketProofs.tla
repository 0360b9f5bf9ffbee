------------------------- MODULE EventAndMarketProofs -------------------------
(***************************************************************************)
(* Theorems about what brings events in: the two halves of the market data *)
(* runtime, the poll loop (MarketRuntime), for every number of faults, and *)
(* the builder of bars it feeds (BarBuilder), for every width, tolerance,  *)
(* lag and number of observations; and the bus the events go over          *)
(* (EventBus), for every set of events and correlation ids, any number of  *)
(* handlers and whatever they publish.                                     *)
(*                                                                         *)
(* UsableIsCurrent speaks of a snapshot that was stored; whether it may be *)
(* called usable is settled earlier, by what the fetch of the same poll    *)
(* brought.  IInv follows that evidence through the tick: rows that are    *)
(* current, or a finding that is enqueued; then a current surface or that  *)
(* finding; then a report that is not empty.                               *)
(*                                                                         *)
(* The bus has two phases.  Until close has told the workers to stop,      *)
(* every correlation id has one stream, and the accepted events are the    *)
(* completed ones, the one its worker dispatches and its queue, in that    *)
(* order (Flowing).  Afterwards all that was accepted is completed and     *)
(* only the stop signals are left (Stopping).                              *)
(***************************************************************************)
EXTENDS MarketRuntime, BarBuilder, EventBus, FiniteSums, TLAPS

\* A finding is enqueued, or the rows of this poll wait to become a surface.
Fetched == pending # {} \/ (rows # None /\ rows.current /\ rows.chain # "partial")

\* A finding is enqueued, or the surface is the one of this poll.
Built == pending # {} \/ (surface # None /\ surface.current /\ surface.chain # "partial")

\* The report objects, or the surface is current and complete.
Judged == report # {} \/ (surface # None /\ surface.current /\ surface.chain = "complete")

\* What each point of a poll with an options provider knows about the fetch.
Evidence ==
    provider =>
        /\ pc = "tick" => Fetched
        /\ pc \in {"save_surface", "evaluate"} => Built
        /\ pc \in {"save_report", "save_snapshot"} => Judged

\* Only between the building of a surface and its save is no save tried yet,
\* and a snapshot is saved after its report.
SavedInOrder ==
    /\ surface # None /\ surface.saved = "no" => pc = "save_surface"
    /\ pc = "save_surface" => surface # None
    /\ pc = "save_snapshot" => reportSaved

IInv ==
    /\ TypeOK
    /\ Evidence
    /\ SavedInOrder
    /\ UsableIsCurrent
    /\ FindingsKept
    /\ SnapshotGrounded

-----------------------------------------------------------------------------
\* The invariant holds when the runtime is constructed.
LEMMA InitIInv == Init => IInv
<1> SUFFICES ASSUME Init PROVE IInv
  OBVIOUS
<1>1. TypeOK
  <2>1. degraded \in BOOLEAN /\ reportSaved \in BOOLEAN
    BY DEF Init
  <2>2. faults \in 0 .. MaxFaults
    BY MaxFaultsAssumption DEF Init
  <2> QED BY <2>1, <2>2 DEF Init, TypeOK
<1>2. Evidence
  BY DEF Init, Evidence
<1>3. SavedInOrder
  BY DEF Init, SavedInOrder
<1>4. UsableIsCurrent /\ SnapshotGrounded
  BY DEF Init, UsableIsCurrent, SnapshotGrounded
<1>5. FindingsKept
  BY DEF Init, FindingsKept
<1> QED BY <1>1, <1>2, <1>3, <1>4, <1>5 DEF IInv

\* The types are kept by every step of the loop and by a crash.
LEMMA TypeStep == ASSUME TypeOK, SavedInOrder, [Next]_vars PROVE TypeOK'
<1> USE MaxFaultsAssumption DEF TypeOK, Chains, Codes, Rows, Surfaces
<1>1. CASE IngestFails
  BY <1>1 DEF IngestFails, Fail, memory, database
<1>2. ASSUME NEW u \in {"ok", "bad"}, NEW found \in {{}, {"regression"}},
             IngestUnderlying(u, found)
      PROVE TypeOK'
  <2>1. surface' \in Surfaces \cup {None}
    BY <1>2 DEF IngestUnderlying
  <2>2. rows' \in Rows \cup {None}
    BY <1>2 DEF IngestUnderlying
  <2> QED BY <1>2, <2>1, <2>2 DEF IngestUnderlying, database
<1>3. CASE NoOptions
  BY <1>3 DEF NoOptions, memory, database
<1>4. ASSUME NEW chain \in Chains, Fetch(chain) PROVE TypeOK'
  BY <1>4 DEF Fetch, database
<1>5. CASE FetchFails
  BY <1>5 DEF FetchFails, database
<1>6. CASE TickIdle \/ TickBarClosed \/ TickRaises
  BY <1>6 DEF TickIdle, TickBarClosed, TickRaises, memory, database
<1>7. CASE TickSurface
  BY <1>7 DEF TickSurface, FromProviderRows, database
<1>8. CASE SaveSurface \/ SaveSurfaceFails
  <2>1. degraded' \in BOOLEAN /\ reportSaved' \in BOOLEAN
    BY <1>8 DEF SaveSurface, SaveSurfaceFails, Fail, database
  <2>2. faults' \in 0 .. MaxFaults
    BY <1>8 DEF SaveSurface, SaveSurfaceFails, Fail, database
  <2>3. surface \in Surfaces
    BY <1>8 DEF SaveSurface, SaveSurfaceFails, SavedInOrder
  <2>4. surface' \in Surfaces
    BY <1>8, <2>3 DEF SaveSurface, SaveSurfaceFails
  <2> QED BY <1>8, <2>1, <2>2, <2>4 DEF SaveSurface, SaveSurfaceFails, Fail, database
<1>9. CASE Evaluate
  <2>1. Evaluated \subseteq Codes
    BY DEF Evaluated, CheckUnderlying, CheckOptionSurface
  <2> QED BY <1>9, <2>1 DEF Evaluate, database
<1>10. CASE SaveReport \/ SaveReportFails
  <2>1. degraded' \in BOOLEAN /\ reportSaved' \in BOOLEAN
    BY <1>10 DEF SaveReport, SaveReportFails, Fail, memory, database
  <2>2. faults' \in 0 .. MaxFaults
    BY <1>10 DEF SaveReport, SaveReportFails, Fail, memory, database
  <2> QED BY <1>10, <2>1, <2>2 DEF SaveReport, SaveReportFails, Fail, memory, database
<1>11. CASE SaveSnapshot \/ SaveSnapshotFails
  <2>1. degraded' \in BOOLEAN /\ reportSaved' \in BOOLEAN
    BY <1>11 DEF SaveSnapshot, SaveSnapshotFails, Fail, memory, database
  <2>2. faults' \in 0 .. MaxFaults
    BY <1>11 DEF SaveSnapshot, SaveSnapshotFails, Fail, memory, database
  <2> QED BY <1>11, <2>1, <2>2 DEF SaveSnapshot, SaveSnapshotFails, Fail, memory, database
<1>12. CASE Announce
  BY <1>12 DEF Announce, memory, database
<1>13. CASE Crash
  <2>1. degraded' \in BOOLEAN /\ reportSaved' \in BOOLEAN
    BY <1>13 DEF Crash, Fresh, database
  <2>2. faults' \in 0 .. MaxFaults
    BY <1>13 DEF Crash, Fresh, database
  <2> QED BY <1>13, <2>1, <2>2 DEF Crash, Fresh, database
<1>14. CASE UNCHANGED vars
  BY <1>14 DEF vars
<1> QED
  BY <1>1, <1>2, <1>3, <1>4, <1>5, <1>6, <1>7, <1>8, <1>9, <1>10, <1>11, <1>12, <1>13, <1>14
     DEF Next, Poll

\* The evidence of the fetch is handed on by every step, and lost by none
\* before the snapshot is stored.
LEMMA EvidenceStep == ASSUME IInv, [Next]_vars PROVE Evidence'
<1> USE NoneAssumption DEF IInv, TypeOK, Evidence, Fetched, Built, Judged, SavedInOrder
<1>1. CASE IngestFails
  BY <1>1 DEF IngestFails, Fail
<1>2. ASSUME NEW u, NEW found, IngestUnderlying(u, found) PROVE Evidence'
  BY <1>2 DEF IngestUnderlying
<1>3. CASE NoOptions
  BY <1>3 DEF NoOptions
<1>4. ASSUME NEW chain \in Chains, Fetch(chain) PROVE Evidence'
  <2>1. CASE chain = "partial"
    <3>1. pending' # {}
      BY <1>4, <2>1 DEF Fetch
    <3> QED BY <1>4, <3>1 DEF Fetch
  <2>2. CASE chain # "partial"
    <3>1. rows' \in Rows
      BY <1>4 DEF Fetch, Rows
    <3> QED BY <1>4, <2>2, <3>1, NoneAssumption DEF Fetch
  <2> QED BY <2>1, <2>2
<1>5. CASE FetchFails
  BY <1>5 DEF FetchFails
<1>6. CASE TickIdle \/ TickBarClosed \/ TickRaises
  BY <1>6 DEF TickIdle, TickBarClosed, TickRaises, memory
<1>7. CASE TickSurface
  <2>1. surface' \in Surfaces /\ surface'.chain = rows.chain /\ surface'.current = rows.current
    BY <1>7 DEF TickSurface, FromProviderRows, Rows, Surfaces, Chains
  <2> QED BY <1>7, <2>1 DEF TickSurface
<1>8. CASE SaveSurface \/ SaveSurfaceFails
  <2>1. surface \in Surfaces
    BY <1>8 DEF SaveSurface, SaveSurfaceFails
  <2>2. surface' \in Surfaces /\ surface'.chain = surface.chain
                             /\ surface'.current = surface.current
    BY <1>8, <2>1 DEF SaveSurface, SaveSurfaceFails, Surfaces
  <2> QED BY <1>8, <2>1, <2>2 DEF SaveSurface, SaveSurfaceFails, Fail
<1>9. CASE Evaluate
  <2>1. provider => Judged'
    <3>1. pending # {} => report' # {}
      BY <1>9 DEF Evaluate
    <3>2. surface # None /\ surface.chain = "thin" => report' # {}
      BY <1>9 DEF Evaluate, Evaluated, CheckUnderlying, CheckOptionSurface
    <3>3. surface # None => surface.chain \in {"complete", "partial", "thin"}
      BY DEF Chains, Surfaces
    <3> QED BY <1>9, <3>1, <3>2, <3>3 DEF Evaluate
  <2> QED BY <1>9, <2>1 DEF Evaluate
<1>10. CASE SaveReport \/ SaveReportFails
  BY <1>10 DEF SaveReport, SaveReportFails, Fail, memory
<1>11. CASE SaveSnapshot \/ SaveSnapshotFails
  BY <1>11 DEF SaveSnapshot, SaveSnapshotFails, Fail
<1>12. CASE Announce
  BY <1>12 DEF Announce
<1>13. CASE Crash
  BY <1>13 DEF Crash
<1>14. CASE UNCHANGED vars
  BY <1>14 DEF vars
<1> QED
  BY <1>1, <1>2, <1>3, <1>4, <1>5, <1>6, <1>7, <1>8, <1>9, <1>10, <1>11, <1>12, <1>13, <1>14
     DEF Next, Poll

\* A surface leaves "save_surface" with its save tried, and a report is saved
\* before the snapshot that refers to it.
LEMMA SavedStep == ASSUME IInv, [Next]_vars PROVE SavedInOrder'
<1> USE NoneAssumption DEF IInv, TypeOK, SavedInOrder
<1>1. CASE IngestFails
  BY <1>1 DEF IngestFails, Fail, memory
<1>2. ASSUME NEW u, NEW found, IngestUnderlying(u, found) PROVE SavedInOrder'
  <2>1. surface' # None => surface # None /\ surface'.saved = surface.saved
    BY <1>2 DEF IngestUnderlying, Surfaces
  <2> QED BY <1>2, <2>1 DEF IngestUnderlying
<1>3. CASE NoOptions
  BY <1>3 DEF NoOptions, memory
<1>4. ASSUME NEW chain, Fetch(chain) PROVE SavedInOrder'
  BY <1>4 DEF Fetch
<1>5. CASE FetchFails
  BY <1>5 DEF FetchFails
<1>6. CASE TickIdle \/ TickBarClosed \/ TickRaises
  BY <1>6 DEF TickIdle, TickBarClosed, TickRaises, memory
<1>7. CASE TickSurface
  <2>1. surface' \in Surfaces
    BY <1>7 DEF TickSurface, FromProviderRows, Rows, Surfaces, Chains
  <2> QED BY <1>7, <2>1 DEF TickSurface
<1>8. CASE SaveSurface \/ SaveSurfaceFails
  <2>1. surface \in Surfaces
    BY <1>8 DEF SaveSurface, SaveSurfaceFails
  <2>2. surface'.saved # "no"
    BY <1>8, <2>1 DEF SaveSurface, SaveSurfaceFails, Surfaces
  <2> QED BY <1>8, <2>2 DEF SaveSurface, SaveSurfaceFails, Fail
<1>9. CASE Evaluate
  BY <1>9 DEF Evaluate
<1>10. CASE SaveReport \/ SaveReportFails
  BY <1>10 DEF SaveReport, SaveReportFails, Fail, memory
<1>11. CASE SaveSnapshot \/ SaveSnapshotFails
  BY <1>11 DEF SaveSnapshot, SaveSnapshotFails, Fail, memory
<1>12. CASE Announce
  BY <1>12 DEF Announce, memory
<1>13. CASE Crash
  BY <1>13 DEF Crash, Fresh
<1>14. CASE UNCHANGED vars
  BY <1>14 DEF vars
<1> QED
  BY <1>1, <1>2, <1>3, <1>4, <1>5, <1>6, <1>7, <1>8, <1>9, <1>10, <1>11, <1>12, <1>13, <1>14
     DEF Next, Poll

\* Only SaveSnapshot changes what is stored.
LEMMA StoredChange == ASSUME [Next]_vars PROVE SaveSnapshot \/ stored' = stored
  BY DEF Next, Poll, IngestFails, IngestUnderlying, NoOptions, Fetch, FetchFails, TickIdle,
         TickBarClosed, TickSurface, TickRaises, SaveSurface, SaveSurfaceFails, Evaluate,
         SaveReport, SaveReportFails, SaveSnapshotFails, Announce, Crash, database, vars

\* What is stored as usable has a report without findings, hence the evidence
\* that the surface is current and complete; its report was saved before it.
LEMMA StoredStep ==
  ASSUME IInv, [Next]_vars, provider' = provider PROVE UsableIsCurrent' /\ SnapshotGrounded'
<1>1. CASE SaveSnapshot
  <2>1. /\ stored'.surface = surface
        /\ stored'.usable = UsableForExecution(report)
        /\ stored'.reportSaved = reportSaved
    BY <1>1 DEF SaveSnapshot
  <2>2. UsableIsCurrent'
    <3> SUFFICES ASSUME provider, stored'.usable
                 PROVE /\ stored'.surface # None /\ stored'.surface.current
                       /\ stored'.surface.chain = "complete"
      BY DEF UsableIsCurrent
    <3>1. report = {}
      BY <2>1 DEF UsableForExecution
    <3>2. Judged
      BY <1>1 DEF SaveSnapshot, IInv, Evidence
    <3> QED BY <2>1, <3>1, <3>2 DEF Judged
  <2>3. SnapshotGrounded'
    BY <1>1, <2>1 DEF SaveSnapshot, SnapshotGrounded, IInv, SavedInOrder
  <2> QED BY <2>2, <2>3
<1>2. CASE stored' = stored
  BY <1>2 DEF IInv, UsableIsCurrent, SnapshotGrounded
<1> QED BY <1>1, <1>2, StoredChange

\* The provider is configured once.
LEMMA ProviderConstant == ASSUME [Next]_vars PROVE provider' = provider
  BY DEF Next, Poll, IngestFails, IngestUnderlying, NoOptions, Fetch, FetchFails, TickIdle,
         TickBarClosed, TickSurface, TickRaises, SaveSurface, SaveSurfaceFails, Evaluate,
         SaveReport, SaveReportFails, SaveSnapshot, SaveSnapshotFails, Announce, Crash, vars

\* A finding stays enqueued until a report has it, and is owed until that
\* report was saved or could not be.
LEMMA FindingsStep == ASSUME IInv, [Next]_vars PROVE FindingsKept'
<1> USE DEF IInv, FindingsKept
<1>1. CASE IngestFails
  BY <1>1 DEF IngestFails, Fail, memory
<1>2. ASSUME NEW u, NEW found, IngestUnderlying(u, found) PROVE FindingsKept'
  BY <1>2 DEF IngestUnderlying
<1>3. CASE NoOptions
  BY <1>3 DEF NoOptions, memory
<1>4. ASSUME NEW chain, Fetch(chain) PROVE FindingsKept'
  BY <1>4 DEF Fetch
<1>5. CASE FetchFails
  BY <1>5 DEF FetchFails
<1>6. CASE TickIdle \/ TickBarClosed \/ TickRaises
  BY <1>6 DEF TickIdle, TickBarClosed, TickRaises, memory
<1>7. CASE TickSurface
  BY <1>7 DEF TickSurface
<1>8. CASE SaveSurface \/ SaveSurfaceFails
  BY <1>8 DEF SaveSurface, SaveSurfaceFails, Fail
<1>9. CASE Evaluate
  BY <1>9 DEF Evaluate
<1>10. CASE SaveReport \/ SaveReportFails
  BY <1>10 DEF SaveReport, SaveReportFails, Fail, memory
<1>11. CASE SaveSnapshot \/ SaveSnapshotFails
  BY <1>11 DEF SaveSnapshot, SaveSnapshotFails, Fail, memory
<1>12. CASE Announce
  BY <1>12 DEF Announce, memory
<1>13. CASE Crash
  BY <1>13 DEF Crash, Fresh
<1>14. CASE UNCHANGED vars
  BY <1>14 DEF vars
<1> QED
  BY <1>1, <1>2, <1>3, <1>4, <1>5, <1>6, <1>7, <1>8, <1>9, <1>10, <1>11, <1>12, <1>13, <1>14
     DEF Next, Poll

\* The invariant is kept by every step.
LEMMA IInvStep == IInv /\ [Next]_vars => IInv'
<1> SUFFICES ASSUME IInv, [Next]_vars PROVE IInv'
  OBVIOUS
<1>1. TypeOK'
  BY TypeStep DEF IInv
<1>2. Evidence'
  BY EvidenceStep
<1>3. SavedInOrder'
  BY SavedStep
<1>4. UsableIsCurrent' /\ SnapshotGrounded'
  BY StoredStep, ProviderConstant
<1>5. FindingsKept'
  BY FindingsStep
<1> QED BY <1>1, <1>2, <1>3, <1>4, <1>5 DEF IInv

-----------------------------------------------------------------------------
\* With any number of failed fetches, failed saves and crashes: a snapshot
\* stored as usable_for_execution shows the complete chain of its own poll.
THEOREM UsableAlwaysCurrent == Spec => []UsableIsCurrent
<1>1. IInv => UsableIsCurrent
  BY DEF IInv
<1> QED BY <1>1, InitIInv, IInvStep, PTL DEF Spec

\* With any number of faults: every finding is enqueued or in the report being
\* saved until a stored report has it, or the save of that report failed.
THEOREM FindingsAlwaysKept == Spec => []FindingsKept
<1>1. IInv => FindingsKept
  BY DEF IInv
<1> QED BY <1>1, InitIInv, IInvStep, PTL DEF Spec

\* With any number of faults: a stored snapshot refers to a stored report and
\* to no surface whose save was not tried.
THEOREM SnapshotsAlwaysGrounded == Spec => []SnapshotGrounded
<1>1. IInv => SnapshotGrounded
  BY DEF IInv
<1> QED BY <1>1, InitIInv, IInvStep, PTL DEF Spec
-----------------------------------------------------------------------------
(* BarBuilder                                                              *)

Received == [source : Int, received : Int, price : BOOLEAN,
             size : Nat, cum : Nat \cup {NoCumVol}]

\* What was delivered, and the clock.
Content == content \in Seq(Received) /\ now \in Int

OpenBars == \A k \in DOMAIN open : open[k].key = k

\* An interval is open or emitted, and every bar emitted is recorded once.
Recorded ==
    /\ \A b \in closed : b.key \in emitted
    /\ \A k \in DOMAIN open : k \notin emitted
    /\ \A a, b \in closed : a.key = b.key => a = b

\* No interval is emitted before its tolerance is over.
NotEarly == \A k \in emitted : End(k) + Tolerance <= now

KeysTyped == emitted \subseteq Timeframes \X Int /\ DOMAIN open \subseteq Timeframes \X Int

\* The inductive invariant.
BarInv == Content /\ OpenBars /\ Recorded /\ NotEarly /\ KeysTyped /\ InToleranceIsCounted

LEMMA StartInt ==
    ASSUME NEW tf \in Timeframes, NEW t \in Int
    PROVE  Start(tf, t) \in Int
  BY BarAssumption DEF Start

LEMMA KeyType ==
    ASSUME NEW tf \in Timeframes, NEW t \in Int
    PROVE  Key(tf, t) \in Timeframes \X Int
  BY StartInt DEF Key

LEMMA EndInt ==
    ASSUME NEW k \in Timeframes \X Int
    PROVE  End(k) \in Int
  BY BarAssumption DEF End

\* What one delivery does to the builder, whichever observation it is.
LEMMA IngestKeeps ==
    ASSUME BarInv, NEW o, NEW x, x.source \in Int, Ingest(o, x)
    PROVE  /\ OpenBars' /\ Recorded' /\ NotEarly' /\ KeysTyped'
           /\ assigned \subseteq assigned'
  <1>1. UNCHANGED <<now, emitted, closed>> /\ assigned \subseteq assigned'
    BY DEF Ingest
  <1>2. NotEarly'
    BY <1>1 DEF BarInv, NotEarly, End
  <1>3. CASE open' = open
    BY <1>1, <1>2, <1>3 DEF BarInv, OpenBars, Recorded, KeysTyped
  <1>4. CASE open' = Opened(o, x)
    <2> DEFINE keys == {Key(tf, x.source) : tf \in Timeframes}
               taken == {k \in keys : Accepts(k, x)}
    <2>1. DOMAIN open' = DOMAIN open \cup taken
      BY <1>4 DEF Opened
    <2>2. keys \subseteq Timeframes \X Int
      BY KeyType
    <2>3. \A k \in taken : k \notin emitted
      BY DEF Accepts
    <2>4. \A k \in DOMAIN open' : open'[k].key = k
      <3> SUFFICES ASSUME NEW k \in DOMAIN open'
                   PROVE  open'[k].key = k
        OBVIOUS
      <3>1. \A b : Applied(b, o, x).key = b.key
        BY DEF Applied
      <3>2. NewBar(k).key = k
        BY DEF NewBar
      <3>3. k \in DOMAIN open => open[k].key = k
        BY DEF BarInv, OpenBars
      <3>4. CASE k \in taken
        <4>1. open'[k] = Applied(IF k \in taken \ DOMAIN open THEN NewBar(k) ELSE open[k], o, x)
          BY <1>4, <3>4 DEF Opened
        <4> QED
          BY <4>1, <3>1, <3>2, <3>3, <3>4
      <3>5. CASE k \notin taken
        <4>1. k \in DOMAIN open
          BY <3>5, <2>1
        <4>2. \/ open'[k] = open[k]
              \/ open'[k] = [open[k] EXCEPT !.incomplete = TRUE]
          BY <1>4, <3>5, <4>1 DEF Opened
        <4>3. \A b : [b EXCEPT !.incomplete = TRUE].key = b.key
          OBVIOUS
        <4> QED
          BY <4>1, <4>2, <4>3, <3>3
      <3> QED
        BY <3>4, <3>5
    <2> QED
      BY <1>1, <1>2, <2>1, <2>2, <2>3, <2>4 DEF BarInv, OpenBars, Recorded, KeysTyped
  <1> QED
    BY <1>1, <1>3, <1>4 DEF Ingest

LEMMA InitBarInv == BarInit => BarInv
  BY DEF BarInit, BarInv, Content, OpenBars, Recorded, NotEarly, KeysTyped, InToleranceIsCounted

LEMMA BarInvStep == BarInv /\ [BarNext]_barVars => BarInv'
  <1> SUFFICES ASSUME BarInv, [BarNext]_barVars
               PROVE  BarInv'
    OBVIOUS
  <1> USE BarAssumption
  <1>1. ASSUME NEW o \in DOMAIN content, Redeliver(o)
        PROVE  BarInv'
    <2>a. content[o] \in Received
      BY DEF BarInv, Content
    <2>c. content[o].source \in Int
      BY <2>a DEF Received
    <2>b. Ingest(o, content[o]) /\ content' = content
      BY <1>1 DEF Redeliver
    <2>1. content[o].source \in Int /\ Ingest(o, content[o]) /\ content' = content
      BY <2>c, <2>b
    <2>2. /\ OpenBars' /\ Recorded' /\ NotEarly' /\ KeysTyped'
          /\ assigned \subseteq assigned'
      BY <2>1, IngestKeeps
    <2>3. Content'
      BY <2>1 DEF BarInv, Content, Ingest
    <2>4. InToleranceIsCounted'
      BY <2>1, <2>2 DEF BarInv, InToleranceIsCounted, End, Key, Start
    <2> QED
      BY <2>2, <2>3, <2>4 DEF BarInv
  <1>2. ASSUME NEW p \in Payloads, NEW lag \in Lags, Deliver(Observation(p, now - lag))
        PROVE  BarInv'
    <2> DEFINE x == Observation(p, now - lag)
               o == Len(content) + 1
    <2>1. /\ x.source \in Int /\ x.received = now /\ x.price = p.price
          /\ x \in Received
      BY DEF Observation, BarInv, Content, Received
    <2>2. Ingest(o, x) /\ content' = Append(content, x) /\ now' = now
      BY <1>2 DEF Deliver, Ingest
    <2> HIDE DEF x
    <2>3. /\ OpenBars' /\ Recorded' /\ NotEarly' /\ KeysTyped'
          /\ assigned \subseteq assigned'
      BY <2>1, <2>2, IngestKeeps
    <2>4. Content'
      BY <2>1, <2>2 DEF BarInv, Content
    <2>5. /\ DOMAIN content' = DOMAIN content \cup {o}
          /\ \A q \in DOMAIN content : content'[q] = content[q]
          /\ content'[o] = x
      BY <2>1, <2>2 DEF BarInv, Content
    <2>6. ASSUME NEW tf \in Timeframes, x.price,
                 x.received < End(Key(tf, x.source)) + Tolerance
          PROVE  <<o, tf>> \in assigned'
      <3>1. Key(tf, x.source) \in Timeframes \X Int
        BY <2>1, KeyType
      <3>2. End(Key(tf, x.source)) \in Int
        BY <3>1, EndInt
      <3>3. Key(tf, x.source) \notin emitted
        BY <2>1, <2>6, <3>2 DEF BarInv, NotEarly, Content
      <3>4. tf \in Timeframes \ Refused(x)
        BY <2>1, <2>6, <3>2, <3>3 DEF Refused, Accepts, BarInv, Content
      <3> QED
        BY <2>2, <2>6, <3>4 DEF Ingest, Empty
    <2>7. InToleranceIsCounted'
      <3> SUFFICES ASSUME NEW q \in DOMAIN content', NEW tf \in Timeframes,
                          content'[q].price,
                          content'[q].received < End(Key(tf, content'[q].source)) + Tolerance
                   PROVE  <<q, tf>> \in assigned'
        BY DEF InToleranceIsCounted, End, Key, Start
      <3>1. CASE q \in DOMAIN content
        BY <3>1, <2>3, <2>5 DEF BarInv, InToleranceIsCounted
      <3>2. CASE q = o
        BY <3>2, <2>5, <2>6
      <3> QED
        BY <3>1, <3>2, <2>5
    <2> QED
      BY <2>3, <2>4, <2>7 DEF BarInv
  <1>3. CASE CloseReadyBars
    <2>1. /\ UNCHANGED <<now, content, assigned>>
          /\ closed' = closed \cup {Bar(open[k]) : k \in Ready}
          /\ emitted' = emitted \cup Ready
          /\ open' = [k \in DOMAIN open \ Ready |-> open[k]]
      BY <1>3 DEF CloseReadyBars
    <2>2. \A k \in Ready : k \in DOMAIN open /\ End(k) + Tolerance <= now
      BY EndInt DEF Ready, BarInv, KeysTyped, Content
    <2>3. \A b : Bar(b).key = b.key
      BY DEF Bar
    <2>4. \A k \in Ready : Bar(open[k]).key = k
      BY <2>2, <2>3 DEF BarInv, OpenBars
    <2>5. Recorded'
      <3>1. \A b \in closed' : b.key \in emitted'
        BY <2>1, <2>4 DEF BarInv, Recorded
      <3>2. \A k \in DOMAIN open' : k \notin emitted'
        BY <2>1 DEF BarInv, Recorded
      <3>3. ASSUME NEW a \in closed', NEW b \in closed', a.key = b.key
            PROVE  a = b
        <4>1. ASSUME NEW c \in closed, NEW k \in Ready
              PROVE  c.key # Bar(open[k]).key
          BY <2>2, <2>4, <4>1 DEF BarInv, Recorded
        <4> QED
          BY <2>1, <2>4, <3>3, <4>1 DEF BarInv, Recorded
      <3> QED
        BY <3>1, <3>2, <3>3 DEF Recorded
    <2>6. OpenBars' /\ KeysTyped'
      BY <2>1, <2>2 DEF BarInv, OpenBars, KeysTyped
    <2>7. NotEarly'
      BY <2>1, <2>2 DEF BarInv, NotEarly, End
    <2>8. Content' /\ InToleranceIsCounted'
      BY <2>1 DEF BarInv, Content, InToleranceIsCounted, End, Key, Start
    <2> QED
      BY <2>5, <2>6, <2>7, <2>8 DEF BarInv
  <1>4. CASE Tick
    <2>1. now' = now + 1 /\ UNCHANGED <<open, emitted, closed, assigned, content>>
      BY <1>4 DEF Tick
    <2>2. NotEarly'
      <3> SUFFICES ASSUME NEW k \in emitted
                   PROVE  End(k) + Tolerance <= now'
        BY <2>1 DEF NotEarly, End
      <3>1. End(k) \in Int /\ End(k) + Tolerance <= now
        BY EndInt DEF BarInv, KeysTyped, NotEarly
      <3> QED
        BY <2>1, <3>1 DEF BarInv, Content
    <2> QED
      BY <2>1, <2>2 DEF BarInv, Content, OpenBars, Recorded, KeysTyped,
                        InToleranceIsCounted, End, Key, Start
  <1>5. CASE UNCHANGED barVars
    BY <1>5 DEF barVars, BarInv, Content, OpenBars, Recorded, NotEarly, KeysTyped,
                InToleranceIsCounted, End, Key, Start
  <1> QED
    BY <1>1, <1>2, <1>3, <1>4, <1>5 DEF BarNext

LEMMA BarInvHolds == BarSpec => []BarInv
  BY InitBarInv, BarInvStep, PTL DEF BarSpec

(***************************************************************************)
(* Completed bars are emitted exactly once: close_ready_bars never emits   *)
(* an interval twice, and _bar_for never opens one that was emitted.       *)
(***************************************************************************)
THEOREM BarsEmittedOnce == BarSpec => []EmittedOnce
  <1>1. BarInv => EmittedOnce
    BY DEF BarInv, Recorded, EmittedOnce
  <1> QED
    BY <1>1, BarInvHolds, PTL

(***************************************************************************)
(* What ingest receives before the end of the late tolerance is part of    *)
(* its 1m and its 5m bar, whatever close_ready_bars has emitted by then.   *)
(***************************************************************************)
THEOREM InToleranceCounted == BarSpec => []InToleranceIsCounted
  <1>1. BarInv => InToleranceIsCounted
    BY DEF BarInv
  <1> QED
    BY <1>1, BarInvHolds, PTL

-----------------------------------------------------------------------------
(* The types of the builder                                                *)

TypedBar == [key : Timeframes \X Nat, volume : Nat, obs : SUBSET Nat, ticks : Nat, incomplete : BOOLEAN]

\* Beside BarTypeOK: no observation is from before the clock began, so that no
\* interval starts before it, and a bar is a record of its key.
BarTyped ==
    /\ BarTypeOK
    /\ \A o \in DOMAIN content : content[o].source \in Nat
    /\ \A b \in Bars : b \in TypedBar

LEMMA StartNat ==
    ASSUME NEW tf \in Timeframes, NEW t \in Nat
    PROVE  Start(tf, t) \in Nat
<1>1. PICK w \in Nat \ {0} : w = Width[tf]
  BY BarAssumption
<1>2. t % w \in Nat /\ t % w <= t
  BY <1>1
<1> QED BY <1>1, <1>2 DEF Start

\* A cumulative volume that falls is not subtracted.
LEMMA VolumeNat ==
    ASSUME NEW x \in Received, lastCum \in Nat \cup {NoCumVol}
    PROVE  Volume(x) \in Nat
BY BarAssumption DEF Volume, Received

LEMMA AppliedTyped ==
    ASSUME NEW b \in TypedBar, NEW o \in Nat, NEW x \in Received, Volume(x) \in Nat
    PROVE  Applied(b, o, x) \in TypedBar /\ Applied(b, o, x).key = b.key
<1>1. PICK s, n, v : /\ s = (IF x.price THEN b.obs \cup {o} ELSE b.obs)
                     /\ n = (IF x.price THEN b.ticks + 1 ELSE b.ticks)
                     /\ v = b.volume + Volume(x)
  OBVIOUS
<1>2. s \in SUBSET Nat /\ n \in Nat /\ v \in Nat
  BY <1>1 DEF TypedBar
<1>3. PICK r : r = [b EXCEPT !.obs = s, !.ticks = n, !.volume = v]
  OBVIOUS
<1>4. r \in TypedBar /\ r.key = b.key
  BY <1>2, <1>3 DEF TypedBar
<1>5. Applied(b, o, x) = IF <<o, b.key[1]>> \in assigned THEN b ELSE r
  BY <1>1, <1>3 DEF Applied
<1> QED BY <1>4, <1>5

\* What one delivery does to the types.
LEMMA IngestTyped ==
    ASSUME BarTyped, NEW o \in Nat, NEW x \in Received, x.source \in Nat, Ingest(o, x)
    PROVE  /\ UNCHANGED <<now, emitted>> /\ lastCum' \in Nat \cup {NoCumVol}
           /\ \A k \in DOMAIN open' : k \in Keys /\ open'[k].key = k
           /\ \A b \in Bars' : b \in TypedBar
           /\ assigned' \subseteq assigned \cup ({o} \X Timeframes)
<1>1. UNCHANGED <<now, emitted, closed>> /\ lastCum' \in Nat \cup {NoCumVol}
  BY DEF Ingest, BarTyped, BarTypeOK, Received
<1>2. assigned' \subseteq assigned \cup ({o} \X Timeframes)
  BY DEF Ingest
<1>3. ASSUME NEW k \in DOMAIN open PROVE k \in Keys /\ open[k].key = k /\ open[k] \in TypedBar
  BY DEF BarTyped, BarTypeOK, Bars
<1>4. Volume(x) \in Nat
  BY VolumeNat DEF BarTyped, BarTypeOK
<1>5. ASSUME NEW k \in DOMAIN open' PROVE k \in Keys /\ open'[k].key = k /\ open'[k] \in TypedBar
  <2>1. CASE open' = open
    BY <1>3, <1>5, <2>1
  <2>2. CASE open' = Opened(o, x)
    <3>1. PICK taken : taken = {j \in {Key(tf, x.source) : tf \in Timeframes} : Accepts(j, x)}
      OBVIOUS
    <3>2. DOMAIN open' = DOMAIN open \cup taken
      BY <2>2, <3>1 DEF Opened
    <3>3. taken \subseteq Keys
      BY <3>1, StartNat DEF Key, Keys
    <3>4. CASE k \in taken
      <4>1. PICK b : b = IF k \in taken \ DOMAIN open THEN NewBar(k) ELSE open[k]
        OBVIOUS
      <4>2. open'[k] = Applied(b, o, x)
        BY <2>2, <3>1, <3>4, <4>1 DEF Opened
      <4>3. k \in Keys
        BY <3>3, <3>4
      <4>4. b \in TypedBar /\ b.key = k
        <5>1. CASE k \in DOMAIN open
          BY <1>3, <4>1, <5>1
        <5>2. CASE k \notin DOMAIN open
          BY <3>4, <4>1, <4>3, <5>2 DEF NewBar, TypedBar, Keys
        <5> QED BY <5>1, <5>2
      <4> QED BY <1>4, <4>2, <4>3, <4>4, AppliedTyped
    <3>5. CASE k \notin taken
      <4>1. k \in DOMAIN open
        BY <1>5, <3>2, <3>5
      <4>2. open'[k] = open[k] \/ open'[k] = [open[k] EXCEPT !.incomplete = TRUE]
        BY <2>2, <3>1, <3>5, <4>1 DEF Opened
      <4>3. PICK b \in TypedBar : b = open[k] /\ b.key = k /\ k \in Keys
        BY <1>3, <4>1
      <4>4. [b EXCEPT !.incomplete = TRUE] \in TypedBar /\ [b EXCEPT !.incomplete = TRUE].key = b.key
        BY DEF TypedBar
      <4> QED BY <4>2, <4>3, <4>4
    <3> QED BY <3>4, <3>5
  <2> QED BY <2>1, <2>2 DEF Ingest
<1>6. \A b \in closed : b \in TypedBar
  BY DEF BarTyped, Bars
<1> QED BY <1>1, <1>2, <1>5, <1>6 DEF Bars

LEMMA BarTypedStep == BarInv /\ BarTyped /\ [BarNext]_barVars => BarTyped'
<1> SUFFICES ASSUME BarInv, BarTyped, [BarNext]_barVars PROVE BarTyped'
  OBVIOUS
<1>1. ASSUME NEW o \in DOMAIN content, Redeliver(o) PROVE BarTyped'
  <2>1. PICK x : x = content[o]
    OBVIOUS
  <2>2. x \in Received /\ x.source \in Nat /\ o \in Nat
    BY <2>1 DEF BarInv, Content, BarTyped
  <2>3. Ingest(o, x) /\ content' = content
    BY <1>1, <2>1 DEF Redeliver
  <2>4. /\ UNCHANGED <<now, emitted>> /\ lastCum' \in Nat \cup {NoCumVol}
        /\ \A k \in DOMAIN open' : k \in Keys /\ open'[k].key = k
        /\ \A b \in Bars' : b \in TypedBar
        /\ assigned' \subseteq assigned \cup ({o} \X Timeframes)
    BY <2>2, <2>3, IngestTyped
  <2>5. \A b \in Bars' : b.volume \in Nat
    BY <2>4 DEF TypedBar
  <2> QED BY <2>3, <2>4, <2>5 DEF BarTyped, BarTypeOK
<1>2. ASSUME NEW p \in Payloads, NEW lag \in Lags, lag <= now, Deliver(Observation(p, now - lag))
      PROVE  BarTyped'
  <2>1. PICK x, o : x = Observation(p, now - lag) /\ o = Len(content) + 1
    OBVIOUS
  <2>2. x \in Received /\ x.source \in Nat /\ content \in Seq(Received) /\ now \in Int
    BY <1>2, <2>1, BarAssumption DEF Observation, BarInv, Content, Received
  <2>3. /\ Ingest(o, x) /\ content' = Append(content, x) /\ Len(content) < MaxObservations
        /\ MaxObservations \in Nat
    BY <1>2, <2>1, BarAssumption DEF Deliver
  <2>4. /\ o \in Nat /\ Len(content') <= MaxObservations /\ DOMAIN content' = DOMAIN content \cup {o}
        /\ \A q \in DOMAIN content' : content'[q] = IF q = o THEN x ELSE content[q]
    BY <2>1, <2>2, <2>3
  <2>5. /\ UNCHANGED <<now, emitted>> /\ lastCum' \in Nat \cup {NoCumVol}
        /\ \A k \in DOMAIN open' : k \in Keys /\ open'[k].key = k
        /\ \A b \in Bars' : b \in TypedBar
        /\ assigned' \subseteq assigned \cup ({o} \X Timeframes)
    BY <2>2, <2>3, <2>4, IngestTyped
  <2>6. \A b \in Bars' : b.volume \in Nat
    BY <2>5 DEF TypedBar
  <2> QED BY <2>2, <2>4, <2>5, <2>6 DEF BarTyped, BarTypeOK
<1>3. CASE CloseReadyBars
  <2>1. /\ UNCHANGED <<now, lastCum, content, assigned>>
        /\ closed' = closed \cup {Bar(open[k]) : k \in Ready}
        /\ emitted' = emitted \cup Ready /\ open' = [k \in DOMAIN open \ Ready |-> open[k]]
    BY <1>3 DEF CloseReadyBars
  <2>2. Ready \subseteq DOMAIN open /\ DOMAIN open \subseteq Keys
    BY DEF Ready, BarTyped, BarTypeOK
  <2>3. ASSUME NEW b \in TypedBar PROVE Bar(b) \in TypedBar
    BY DEF Bar, TypedBar
  <2>4. \A b \in Bars' : b \in TypedBar
    BY <2>1, <2>2, <2>3 DEF BarTyped, Bars
  <2>5. \A b \in Bars' : b.volume \in Nat
    BY <2>4 DEF TypedBar
  <2> QED BY <2>1, <2>2, <2>4, <2>5 DEF BarTyped, BarTypeOK
<1>4. CASE Tick
  BY <1>4, BarAssumption DEF Tick, BarTyped, BarTypeOK, Bars
<1>5. CASE UNCHANGED barVars
  BY <1>5 DEF barVars, BarTyped, BarTypeOK, Bars
<1> QED BY <1>1, <1>2, <1>3, <1>4, <1>5 DEF BarNext

(***************************************************************************)
(* The types of the builder: no bar starts before the clock or has a       *)
(* negative volume, though cumulative volumes fall and sizes are missing,  *)
(* and nothing is assigned that was not delivered.                         *)
(***************************************************************************)
THEOREM BarTypeCorrect == BarSpec => []BarTypeOK
<1>1. BarInit => BarTyped
  BY BarAssumption DEF BarInit, BarTyped, BarTypeOK, Bars
<1>2. BarTyped => BarTypeOK
  BY DEF BarTyped
<1> QED BY <1>1, <1>2, BarInvHolds, BarTypedStep, PTL DEF BarSpec

-----------------------------------------------------------------------------
(* The volume of the bars                                                  *)

BarRecord == [key: Timeframes \X Int, volume: Int, obs: SUBSET Int, ticks: Int, incomplete: BOOLEAN]

\* How far the cumulative volume has come.
Advance == IF lastCum = NoCumVol THEN 0 ELSE lastCum - base

\* The keys of a timeframe among the keys of vol.
KeysIn(vol, tf) == {k \in DOMAIN vol : k[1] = tf}

\* vol is the volume of every bar, open or closed, by its key.
Tracks(vol) ==
    /\ IsFiniteSet(DOMAIN vol) /\ \A k \in DOMAIN vol : vol[k] \in Int
    /\ \A b \in Bars : b \in BarRecord /\ b.key \in DOMAIN vol /\ vol[b.key] = b.volume
    /\ \A k \in DOMAIN vol : \E b \in Bars : b.key = k

Adds(vol) == \A tf \in Timeframes : SumOf(vol, KeysIn(vol, tf)) + dropped[tf] = Advance

\* While deliveries are clean: the cumulative volume is known from the first
\* delivery on, no observation to come is taken for one that was applied or
\* dropped before, and the bars account for the advance.
VolumeInv ==
    clean =>
        /\ lastCum \in Nat \cup {NoCumVol} /\ base \in Int /\ dropped \in [Timeframes -> Int]
        /\ lastCum = NoCumVol <=> content = <<>>
        /\ \A a \in assigned \cup findings : a[1] \in DOMAIN content
        /\ \E vol : Tracks(vol) /\ Adds(vol)

LEMMA InitVolumeInv == BarInit => VolumeInv
<1> SUFFICES ASSUME BarInit PROVE VolumeInv
  OBVIOUS
<1>1. /\ lastCum = NoCumVol /\ base = 0 /\ dropped = [tf \in Timeframes |-> 0] /\ content = <<>>
      /\ assigned = {} /\ findings = {} /\ Bars = {}
  BY DEF BarInit, Bars
<1>2. PICK vol : vol = [k \in {} |-> 0]
  OBVIOUS
<1>3. Tracks(vol)
  BY <1>1, <1>2, FS_EmptySet DEF Tracks
<1>4. ASSUME NEW tf \in Timeframes PROVE SumOf(vol, KeysIn(vol, tf)) + dropped[tf] = Advance
  <2>1. KeysIn(vol, tf) = {}
    BY <1>2 DEF KeysIn
  <2>2. SumOf(vol, KeysIn(vol, tf)) = 0
    BY <2>1, SumEmpty
  <2> QED BY <1>1, <2>2 DEF Advance
<1> QED BY <1>1, <1>3, <1>4 DEF VolumeInv, Adds

\* The sum over the bars is the sum over their keys.
LEMMA TotalIsSum ==
    ASSUME BarInv, NEW vol, Tracks(vol), NEW tf \in Timeframes
    PROVE  TotalVolume(tf) = SumOf(vol, KeysIn(vol, tf))
<1>1. \A a, b \in Bars : a.key = b.key => a = b
  BY DEF Bars, BarInv, OpenBars, Recorded
<1>2. PICK S, T : S = KeysIn(vol, tf) /\ T = {b \in Bars : b.key[1] = tf}
  OBVIOUS
<1>3. PICK h : h = [b \in T |-> b.volume]
  OBVIOUS
<1>4. TotalVolume(tf) = SumOf(h, T)
  <2>1. TotalVolume(tf) = MapThenSumSet(LAMBDA b : b.volume, T)
    BY <1>2, Zenon DEF TotalVolume
  <2>2. MapThenSumSet(LAMBDA b : b.volume, T) = SumOf([b \in T |-> b.volume], T)
    BY ZenonT(120) DEF SumOf, MapThenSumSet, MapThenFoldSet
  <2> QED BY <1>3, <2>1, <2>2
<1>5. PICK m : m = [k \in S |-> CHOOSE b \in Bars : b.key = k]
  OBVIOUS
<1>6. \A k \in S : m[k] \in T /\ m[k].key = k
  <2> SUFFICES ASSUME NEW k \in S PROVE m[k] \in T /\ m[k].key = k
    OBVIOUS
  <2>1. \E b \in Bars : b.key = k
    BY <1>2 DEF Tracks, KeysIn
  <2>2. m[k] \in Bars /\ m[k].key = k
    BY <1>5, <2>1
  <2> QED BY <1>2, <2>2 DEF KeysIn
<1>7. m \in [S -> T] /\ \A x, y \in S : m[x] = m[y] => x = y
  BY <1>5, <1>6
<1>8. ASSUME NEW b \in T PROVE b.key \in S /\ m[b.key] = b
  <2>1. b \in Bars /\ b.key \in S
    BY <1>2 DEF Tracks, KeysIn
  <2> QED BY <1>1, <1>2, <1>6, <2>1
<1>9. ASSUME NEW k \in S PROVE vol[k] \in Int /\ h[m[k]] = vol[k]
  <2>1. m[k] \in T /\ m[k] \in Bars /\ m[k].key = k /\ k \in DOMAIN vol
    BY <1>2, <1>6 DEF KeysIn
  <2> QED BY <1>3, <2>1 DEF Tracks
<1>10. IsFiniteSet(S)
  BY <1>2, FS_Subset DEF Tracks, KeysIn
<1>11. SumOf(h, T) = SumOf(vol, S)
  BY <1>7, <1>8, <1>9, <1>10, SumImage
<1> QED BY <1>2, <1>4, <1>11

\* Bars that are emitted keep their key and their volume.
LEMMA CloseKeepsVolume == ASSUME BarInv, VolumeInv, CloseReadyBars PROVE VolumeInv'
<1> SUFFICES ASSUME clean' PROVE VolumeInv'
  BY DEF VolumeInv
<1>1. UNCHANGED <<lastCum, base, dropped, content, clean, assigned, findings>>
  BY DEF CloseReadyBars
<1>2. PICK vol : Tracks(vol) /\ Adds(vol)
  BY <1>1 DEF VolumeInv
<1>3. \A k \in Ready : k \in DOMAIN open /\ open[k] \in Bars
  BY DEF Ready, Bars
<1>4. ASSUME NEW b \in BarRecord PROVE Bar(b) \in BarRecord /\ Bar(b).key = b.key /\ Bar(b).volume = b.volume
  BY DEF Bar, BarRecord
<1>5. Bars' = {open[k] : k \in DOMAIN open \ Ready} \cup closed \cup {Bar(open[k]) : k \in Ready}
  BY DEF Bars, CloseReadyBars
<1>6. ASSUME NEW b \in Bars' PROVE b \in BarRecord /\ b.key \in DOMAIN vol /\ vol[b.key] = b.volume
  <2>1. CASE b \in Bars
    BY <1>2, <2>1 DEF Tracks
  <2>2. CASE b \notin Bars
    <3>1. PICK k \in Ready : b = Bar(open[k])
      BY <1>5, <2>2 DEF Bars
    <3>2. PICK c \in Bars : c = open[k]
      BY <1>3, <3>1
    <3>3. c \in BarRecord /\ c.key \in DOMAIN vol /\ vol[c.key] = c.volume
      BY <1>2, <3>2 DEF Tracks
    <3> QED BY <1>4, <3>1, <3>2, <3>3
  <2> QED BY <2>1, <2>2
<1>7. ASSUME NEW k \in DOMAIN vol PROVE \E b \in Bars' : b.key = k
  <2>1. PICK b \in Bars : b.key = k
    BY <1>2 DEF Tracks
  <2>2. b \in BarRecord
    BY <1>2, <2>1 DEF Tracks
  <2>3. CASE b \in Bars'
    BY <2>1, <2>3
  <2>4. CASE b \notin Bars'
    <3>1. PICK j \in Ready : b = open[j]
      BY <1>5, <2>1, <2>4 DEF Bars
    <3>2. Bar(b) \in Bars'
      BY <1>5, <3>1
    <3> QED BY <1>4, <2>1, <2>2, <3>2
  <2> QED BY <2>3, <2>4
<1>8. Tracks(vol)'
  BY <1>2, <1>6, <1>7 DEF Tracks
<1>9. Adds(vol)'
  BY <1>1, <1>2 DEF Adds, Advance
<1> QED BY <1>1, <1>8, <1>9 DEF VolumeInv

\* A clean delivery advances the cumulative volume by the volume it resolves to.
LEMMA AdvanceIsVolume ==
    ASSUME BarInv, VolumeInv, NEW x \in Received, Deliver(x), clean'
    PROVE  /\ clean /\ Volume(x) \in Int /\ Advance \in Int /\ Advance' = Advance + Volume(x)
           /\ lastCum' \in Nat /\ base' \in Int
<1>1. /\ clean /\ x.cum # NoCumVol /\ ~Regressed(x)
      /\ base' = (IF content = <<>> /\ x.cum # NoCumVol THEN x.cum - x.size ELSE base)
      /\ lastCum' = (IF x.cum = NoCumVol THEN lastCum ELSE x.cum)
  BY DEF Deliver, Ingest
<1>2. x.cum \in Nat /\ x.size \in Nat
  BY <1>1 DEF Received
<1>3. NoCumVol \notin Int
  BY BarAssumption
<1>4. CASE lastCum = NoCumVol
  <2>1. content = <<>>
    BY <1>1, <1>4 DEF VolumeInv
  <2>2. base' = x.cum - x.size /\ lastCum' = x.cum /\ Volume(x) = x.size
    BY <1>1, <1>4, <2>1 DEF Volume
  <2>3. Advance = 0 /\ Advance' = x.cum - (x.cum - x.size)
    BY <1>2, <1>3, <1>4, <2>2 DEF Advance
  <2> QED BY <1>1, <1>2, <2>2, <2>3
<1>5. CASE lastCum # NoCumVol
  <2>1. content # <<>> /\ lastCum \in Nat /\ base \in Int
    BY <1>1, <1>5 DEF VolumeInv
  <2>2. base' = base /\ lastCum' = x.cum /\ x.cum >= lastCum
    BY <1>1, <1>2, <1>5, <2>1 DEF Regressed
  <2>3. Volume(x) = x.cum - lastCum
    BY <1>1, <1>5, <2>2 DEF Volume
  <2>4. Advance = lastCum - base /\ Advance' = x.cum - base
    BY <1>2, <1>3, <1>5, <2>2 DEF Advance
  <2> QED BY <1>1, <1>2, <2>1, <2>2, <2>3, <2>4
<1> QED BY <1>4, <1>5

\* The volume of the bar of key k after a new observation is applied.
LEMMA AppliedVolume ==
    ASSUME NEW b \in BarRecord, NEW o \in Int, NEW x \in Received, Volume(x) \in Int,
           <<o, b.key[1]>> \notin assigned
    PROVE  /\ Applied(b, o, x) \in BarRecord /\ Applied(b, o, x).key = b.key
           /\ Applied(b, o, x).volume = b.volume + Volume(x)
<1>1. PICK v \in Int : v = Volume(x)
  OBVIOUS
<1>2. x.price \in BOOLEAN
  BY DEF Received
<1>3. PICK s, n : s = (IF x.price THEN b.obs \cup {o} ELSE b.obs) /\ n = (IF x.price THEN b.ticks + 1 ELSE b.ticks)
  OBVIOUS
<1>4. s \in SUBSET Int /\ n \in Int
  BY <1>3 DEF BarRecord
<1>5. Applied(b, o, x) = [b EXCEPT !.obs = s, !.ticks = n, !.volume = b.volume + v]
  BY <1>1, <1>3 DEF Applied
<1>6. PICK w \in Int : w = b.volume + v
  BY <1>1 DEF BarRecord
<1>7. PICK r : r = [b EXCEPT !.obs = s, !.ticks = n, !.volume = w]
  OBVIOUS
<1>8. r \in BarRecord /\ r.key = b.key /\ r.volume = w
  BY <1>4, <1>6, <1>7 DEF BarRecord
<1> QED BY <1>1, <1>5, <1>6, <1>7, <1>8

\* What a delivery that changes bars does to each open bar: one bar of a
\* timeframe that accepts it gets its volume, the others keep theirs.
LEMMA OpenedVolumes ==
    ASSUME BarInv, NEW x \in Received, NEW o \in Int, Volume(x) \in Int,
           \A tf \in Timeframes : <<o, tf>> \notin assigned,
           \A k \in DOMAIN open : open[k] \in BarRecord,
           open' = Opened(o, x)
    PROVE  LET taken == {k \in {Key(tf, x.source) : tf \in Timeframes} : Accepts(k, x)}
           IN  /\ DOMAIN open' = DOMAIN open \cup taken
               /\ \A k \in DOMAIN open' :
                    /\ open'[k] \in BarRecord /\ open'[k].key = k
                    /\ k \in taken => open'[k].volume = (IF k \in DOMAIN open THEN open[k].volume ELSE 0) + Volume(x)
                    /\ k \notin taken => open'[k].volume = open[k].volume
<1>1. PICK taken : taken = {k \in {Key(tf, x.source) : tf \in Timeframes} : Accepts(k, x)}
  OBVIOUS
<1>2. DOMAIN open' = DOMAIN open \cup taken
  BY <1>1 DEF Opened
<1>3. taken \subseteq Timeframes \X Int
  BY <1>1, KeyType DEF Received
<1>4. ASSUME NEW k \in taken
      PROVE  /\ open'[k] \in BarRecord /\ open'[k].key = k
             /\ open'[k].volume = (IF k \in DOMAIN open THEN open[k].volume ELSE 0) + Volume(x)
  <2>1. PICK b : b = IF k \in taken \ DOMAIN open THEN NewBar(k) ELSE open[k]
    OBVIOUS
  <2>2. open'[k] = Applied(b, o, x)
    BY <1>1, <1>4, <2>1 DEF Opened
  <2>3. /\ b \in BarRecord /\ b.key = k
        /\ b.volume = IF k \in DOMAIN open THEN open[k].volume ELSE 0
    <3>1. CASE k \in DOMAIN open
      BY <2>1, <3>1 DEF BarInv, OpenBars
    <3>2. CASE k \notin DOMAIN open
      BY <1>3, <1>4, <2>1, <3>2 DEF NewBar, BarRecord
    <3> QED BY <3>1, <3>2
  <2>4. <<o, b.key[1]>> \notin assigned
    BY <1>3, <1>4, <2>3
  <2> QED BY <2>2, <2>3, <2>4, AppliedVolume
<1>5. ASSUME NEW k \in DOMAIN open, k \notin taken
      PROVE  /\ open'[k] \in BarRecord /\ open'[k].key = k
             /\ open'[k].volume = open[k].volume
  <2>1. \/ open'[k] = open[k]
        \/ open'[k] = [open[k] EXCEPT !.incomplete = TRUE]
    BY <1>1, <1>5 DEF Opened
  <2>2. PICK b \in BarRecord : b = open[k] /\ b.key = k
    BY <1>5 DEF BarInv, OpenBars
  <2>3. /\ [b EXCEPT !.incomplete = TRUE] \in BarRecord
        /\ [b EXCEPT !.incomplete = TRUE].key = b.key /\ [b EXCEPT !.incomplete = TRUE].volume = b.volume
    BY DEF BarRecord
  <2> QED BY <2>1, <2>2, <2>3
<1> QED BY <1>1, <1>2, <1>4, <1>5

LEMMA DeliverKeepsVolume ==
    ASSUME BarInv, VolumeInv, NEW x \in Received, Deliver(x) PROVE VolumeInv'
<1> SUFFICES ASSUME clean' PROVE VolumeInv'
  BY DEF VolumeInv
<1>1. PICK o, v : o = Len(content) + 1 /\ v = Volume(x)
  OBVIOUS
<1>2. /\ clean /\ v \in Int /\ Advance \in Int /\ Advance' = Advance + v
      /\ lastCum' \in Nat /\ base' \in Int
  BY <1>1, AdvanceIsVolume
<1>3. Ingest(o, x) /\ content' = Append(content, x) /\ content \in Seq(Received)
  BY <1>1 DEF Deliver, BarInv, Content
<1>4. /\ content' # <<>> /\ DOMAIN content' = DOMAIN content \cup {o} /\ o \notin DOMAIN content /\ o \in Int
  BY <1>1, <1>3
<1>5. ASSUME NEW z PROVE <<o, z>> \notin assigned \cup findings
  <2>1. SUFFICES ASSUME <<o, z>> \in assigned \cup findings PROVE FALSE
    OBVIOUS
  <2>2. <<o, z>>[1] \in DOMAIN content
    BY <1>2, <2>1 DEF VolumeInv
  <2> QED BY <1>4, <2>2
<1>6. PICK vol : Tracks(vol) /\ Adds(vol)
  BY <1>2 DEF VolumeInv
<1>7. dropped' \in [Timeframes -> Int] /\ \A tf \in Timeframes :
        dropped[tf] \in Int /\ dropped'[tf] = dropped[tf] + (IF tf \in Refused(x) THEN v ELSE 0)
  <2>1. dropped \in [Timeframes -> Int]
    BY <1>2 DEF VolumeInv
  <2>2. dropped' = [tf \in Timeframes |-> dropped[tf] + (IF tf \in Refused(x) THEN v ELSE 0)]
    BY <1>1, <1>3, <1>5 DEF Ingest
  <2> QED BY <1>2, <2>1, <2>2
<1>8. \A a \in (assigned \cup findings)' : a[1] \in DOMAIN content'
  <2>1. \A a \in assigned \cup findings : a[1] \in DOMAIN content
    BY <1>2 DEF VolumeInv
  <2>2. ASSUME NEW a \in (assigned \cup findings)'
        PROVE  a \in assigned \cup findings \/ \E z : a = <<o, z>>
    BY <1>3 DEF Ingest
  <2> QED BY <1>4, <2>1, <2>2
<1>9. ASSUME NEW tf \in Timeframes PROVE SumOf(vol, KeysIn(vol, tf)) \in Int
  BY <1>6, SumInt, FS_Subset DEF Tracks, KeysIn
<1>10. closed' = closed
  BY <1>3 DEF Ingest
<1>11. CASE Empty(x)
  <2>1. v = 0 /\ open' = open
    BY <1>1, <1>3, <1>11 DEF Empty, Ingest
  <2>2. Bars' = Bars
    BY <1>10, <2>1 DEF Bars
  <2>3. Tracks(vol)'
    BY <1>6, <2>2 DEF Tracks
  <2>4. Adds(vol)'
    <3>1. \A tf \in Timeframes : SumOf(vol, KeysIn(vol, tf)) + dropped'[tf] = Advance'
      BY <1>2, <1>6, <1>7, <1>9, <2>1 DEF Adds
    <3> QED BY <3>1 DEF Adds
  <2> QED BY <1>2, <1>4, <1>7, <1>8, <2>3, <2>4, BarAssumption DEF VolumeInv
<1>12. CASE ~Empty(x)
  <2>1. open' = Opened(o, x) /\ \A k \in DOMAIN open : open[k] \in BarRecord
    BY <1>3, <1>6, <1>12 DEF Ingest, Tracks, Bars
  <2>2. PICK taken : taken = {k \in {Key(tf, x.source) : tf \in Timeframes} : Accepts(k, x)}
    OBVIOUS
  <2>3. /\ DOMAIN open' = DOMAIN open \cup taken
        /\ \A k \in DOMAIN open' :
            /\ open'[k] \in BarRecord /\ open'[k].key = k
            /\ k \in taken => open'[k].volume = (IF k \in DOMAIN open THEN open[k].volume ELSE 0) + v
            /\ k \notin taken => open'[k].volume = open[k].volume
    BY <1>1, <1>2, <1>4, <1>5, <2>1, <2>2, OpenedVolumes
  <2>4. \A k \in taken : k \notin emitted
    BY <2>2 DEF Accepts
  <2>5. ASSUME NEW k \in DOMAIN vol
        PROVE  k \in DOMAIN open \/ (k \in emitted /\ \E b \in closed : b.key = k)
    <3>1. PICK b \in Bars : b.key = k
      BY <1>6, <2>5 DEF Tracks
    <3> QED BY <3>1 DEF Bars, BarInv, OpenBars, Recorded
  <2>6. \A k \in DOMAIN open : k \in DOMAIN vol /\ vol[k] = open[k].volume
    BY <1>6 DEF Tracks, Bars, BarInv, OpenBars
  <2>7. PICK w : w = [k \in DOMAIN vol \cup taken |->
                        IF k \in taken THEN (IF k \in DOMAIN vol THEN vol[k] ELSE 0) + v ELSE vol[k]]
    OBVIOUS
  <2>8. \A k \in taken : k \in DOMAIN vol <=> k \in DOMAIN open
    BY <2>4, <2>5, <2>6
  <2>9. IsFiniteSet(DOMAIN w)
    <3>1. taken \subseteq {Key("1m", x.source)} \cup {Key("5m", x.source)}
      BY <2>2 DEF Timeframes
    <3>2. IsFiniteSet({Key("1m", x.source)} \cup {Key("5m", x.source)})
      BY FS_Singleton, FS_Union
    <3>3. IsFiniteSet(taken) /\ IsFiniteSet(DOMAIN vol)
      BY <1>6, <3>1, <3>2, FS_Subset DEF Tracks
    <3> QED BY <2>7, <3>3, FS_Union
  <2>10. \A k \in DOMAIN w : w[k] \in Int
    BY <1>2, <1>6, <2>7 DEF Tracks
  <2>11. ASSUME NEW b \in Bars' PROVE b \in BarRecord /\ b.key \in DOMAIN w /\ w[b.key] = b.volume
    <3>1. CASE b \in closed
      <4>1. b \in BarRecord /\ b.key \in DOMAIN vol /\ vol[b.key] = b.volume /\ b.key \in emitted
        BY <1>6, <3>1 DEF Tracks, Bars, BarInv, Recorded
      <4> QED BY <2>4, <2>7, <4>1
    <3>2. CASE b \notin closed
      <4>1. PICK k \in DOMAIN open' : b = open'[k]
        BY <1>10, <3>2 DEF Bars
      <4>2. CASE k \in taken
        BY <2>3, <2>6, <2>7, <2>8, <4>1, <4>2
      <4>3. CASE k \notin taken
        BY <2>3, <2>6, <2>7, <4>1, <4>3
      <4> QED BY <4>2, <4>3
    <3> QED BY <3>1, <3>2
  <2>12. ASSUME NEW k \in DOMAIN w PROVE \E b \in Bars' : b.key = k
    <3>1. CASE k \in DOMAIN open'
      BY <2>3, <3>1 DEF Bars
    <3>2. CASE k \notin DOMAIN open'
      <4>1. k \in DOMAIN vol /\ k \notin DOMAIN open
        BY <2>3, <2>7, <3>2
      <4>2. PICK b \in closed : b.key = k
        BY <2>5, <4>1
      <4> QED BY <1>10, <4>2 DEF Bars
    <3> QED BY <3>1, <3>2
  <2>13. Tracks(w)'
    BY <2>9, <2>10, <2>11, <2>12 DEF Tracks
  <2>14. ASSUME NEW tf \in Timeframes PROVE SumOf(w, KeysIn(w, tf)) + dropped'[tf] = Advance'
    <3>1. PICK S, kk : S = KeysIn(vol, tf) /\ kk = Key(tf, x.source)
      OBVIOUS
    <3>2. kk[1] = tf /\ \A k \in taken : k[1] = tf => k = kk
      BY <2>2, <3>1 DEF Key
    <3>3. PICK a \in Int : a = SumOf(vol, S) /\ a + dropped[tf] = Advance
      BY <1>6, <1>9, <3>1 DEF Adds
    <3>4. IsFiniteSet(S) /\ \A k \in S : k \in DOMAIN vol /\ vol[k] \in Int
      BY <1>6, <3>1, FS_Subset DEF Tracks, KeysIn
    <3>5. CASE tf \in Refused(x)
      <4>1. kk \notin taken
        BY <2>2, <3>1, <3>5 DEF Refused
      <4>2. KeysIn(w, tf) = S /\ \A k \in S : w[k] = vol[k]
        BY <2>7, <3>1, <3>2, <4>1 DEF KeysIn
      <4>3. SumOf(w, S) = a
        BY <3>3, <3>4, <4>2, SumSame
      <4> QED BY <1>2, <1>7, <3>3, <3>5, <4>2, <4>3
    <3>6. CASE tf \notin Refused(x)
      <4>1. kk \in taken
        BY <2>2, <3>1, <3>6 DEF Refused
      <4>2. KeysIn(w, tf) = S \cup {kk}
        BY <2>7, <3>1, <3>2, <4>1 DEF KeysIn
      <4>3. /\ \A k \in S \ {kk} : w[k] = vol[k]
            /\ kk \in S => w[kk] = vol[kk] + v
            /\ kk \notin S => w[kk] = v
        BY <1>2, <2>7, <3>1, <3>2, <4>1 DEF KeysIn
      <4>4. SumOf(w, S \cup {kk}) = SumOf(vol, S) + v
        BY <1>2, <3>4, <4>3, SumGrows
      <4> QED BY <1>2, <1>7, <3>3, <3>6, <4>2, <4>4
    <3> QED BY <3>5, <3>6
  <2>15. Adds(w)'
    BY <2>14 DEF Adds
  <2> QED BY <1>2, <1>4, <1>7, <1>8, <2>13, <2>15, BarAssumption DEF VolumeInv
<1> QED BY <1>11, <1>12

\* Nothing VolumeInv speaks of changes.
LEMMA SameVolume ==
    ASSUME VolumeInv,
           UNCHANGED <<open, closed, lastCum, assigned, findings, content, clean, base, dropped>>
    PROVE  VolumeInv'
<1>1. SUFFICES ASSUME clean' PROVE VolumeInv'
  BY DEF VolumeInv
<1>2. PICK vol : Tracks(vol) /\ Adds(vol)
  BY <1>1 DEF VolumeInv
<1>3. Bars' = Bars /\ Advance' = Advance
  BY DEF Bars, Advance
<1>4. Tracks(vol)' /\ Adds(vol)'
  BY <1>2, <1>3 DEF Tracks, Adds, KeysIn
<1> QED BY <1>1, <1>4 DEF VolumeInv

LEMMA VolumeInvStep == BarInv /\ VolumeInv /\ [BarNext]_barVars => VolumeInv'
<1> SUFFICES ASSUME BarInv, VolumeInv, [BarNext]_barVars PROVE VolumeInv'
  OBVIOUS
<1>1. ASSUME NEW o \in DOMAIN content, Redeliver(o) PROVE VolumeInv'
  BY <1>1 DEF Redeliver, VolumeInv
<1>2. ASSUME NEW p \in Payloads, NEW lag \in Lags, Deliver(Observation(p, now - lag))
      PROVE  VolumeInv'
  <2>1. Observation(p, now - lag) \in Received
    BY BarAssumption DEF Observation, BarInv, Content, Received
  <2> QED BY <1>2, <2>1, DeliverKeepsVolume
<1>3. CASE CloseReadyBars
  BY <1>3, CloseKeepsVolume
<1>4. CASE Tick
  BY <1>4, SameVolume DEF Tick
<1>5. CASE UNCHANGED barVars
  BY <1>5, SameVolume DEF barVars
<1> QED
  BY <1>1, <1>2, <1>3, <1>4, <1>5 DEF BarNext

(***************************************************************************)
(* The volume policy of _resolve_volume and _apply_observation: while the  *)
(* cumulative volumes delivered do not fall and nothing is delivered       *)
(* twice, the bars of a timeframe, open and emitted, together with the     *)
(* volume of observations that came too late, add up to the advance of the *)
(* cumulative volume.                                                      *)
(***************************************************************************)
THEOREM VolumeAlwaysAdvances == BarSpec => []VolumeIsAdvance
<1>1. ASSUME BarInv, VolumeInv PROVE VolumeIsAdvance
  <2>1. SUFFICES ASSUME clean, lastCum # NoCumVol, NEW tf \in Timeframes
                 PROVE  TotalVolume(tf) + dropped[tf] = lastCum - base
    BY DEF VolumeIsAdvance
  <2>2. PICK vol : Tracks(vol) /\ Adds(vol)
    BY <1>1, <2>1 DEF VolumeInv
  <2>3. TotalVolume(tf) = SumOf(vol, KeysIn(vol, tf))
    BY <1>1, <2>2, TotalIsSum
  <2> QED BY <2>1, <2>2, <2>3 DEF Adds, Advance
<1>2. BarSpec => []VolumeInv
  BY InitVolumeInv, VolumeInvStep, BarInvHolds, PTL DEF BarSpec
<1> QED
  BY <1>1, <1>2, BarInvHolds, PTL

-----------------------------------------------------------------------------
(* The event bus                                                           *)

Stream == [corr: Correlations, queue: Seq(Events \cup {Stop}), event: Events \cup {Idle},
           left: 0 .. Handlers, alive: BOOLEAN]

Types ==
    /\ seen \subseteq Events
    /\ streams \in Seq(Stream)
    /\ current \in [Correlations -> Nat]
    /\ \A c \in Correlations : current[c] \in 0 .. Len(streams)
    /\ closer \in {"open", "draining", "confirming", "joining", "closed", "failed"}
    /\ joining \subseteq DOMAIN streams
    /\ published \in [Events -> Nat]
    /\ accepted \in [Correlations -> Seq(Events)]
    /\ completed \in [Correlations -> Seq(Events)]

Busy(e) == IF e = Idle THEN 0 ELSE 1

\* The accepted events a are the completed ones d, the event e the worker
\* dispatches and its queue q, in this order.
Aligned(q, e, a, d) ==
    /\ Len(a) = Len(d) + Busy(e) + Len(q)
    /\ \A i \in 1 .. Len(d) : d[i] = a[i]
    /\ e # Idle => e = a[Len(d) + 1]
    /\ \A i \in 1 .. Len(q) : q[i] = a[Len(d) + Busy(e) + i]

\* Publish remembers every event it has accepted.
AcceptedSeen == \A c \in Correlations : \A i \in DOMAIN accepted[c] : accepted[c][i] \in seen

Stopped == closer \in {"joining", "closed"}

\* The stream t is alive, the one of its correlation id, and has lost nothing.
Flows(t) ==
    /\ streams[t].alive
    /\ current[streams[t].corr] = t
    /\ Aligned(streams[t].queue, streams[t].event,
               accepted[streams[t].corr], completed[streams[t].corr])

Flowing ==
    /\ \A t \in DOMAIN streams : Flows(t)
    /\ \A c \in Correlations :
        IF current[c] = 0 THEN accepted[c] = <<>> /\ completed[c] = <<>>
        ELSE streams[current[c]].corr = c

Stopping ==
    /\ completed = accepted
    /\ closer = "joining" => joining = DOMAIN streams
    /\ \A t \in DOMAIN streams :
        /\ streams[t].event = Idle
        /\ streams[t].queue = IF streams[t].alive THEN <<Stop>> ELSE <<>>
        /\ closer = "closed" => ~streams[t].alive

BusIInv ==
    /\ Types
    /\ AcceptedSeen
    /\ ~Stopped => Flowing
    /\ Stopped => Stopping

-----------------------------------------------------------------------------
(* Sequences                                                               *)

LEMMA Appended ==
    ASSUME NEW S, NEW q \in Seq(S), NEW x \in S
    PROVE  /\ Append(q, x) \in Seq(S) /\ Len(q) \in Nat
           /\ Len(Append(q, x)) = Len(q) + 1
           /\ DOMAIN q = 1 .. Len(q) /\ DOMAIN Append(q, x) = 1 .. Len(q) + 1
           /\ Append(q, x)[Len(q) + 1] = x
           /\ \A i \in 1 .. Len(q) : Append(q, x)[i] = q[i]
OBVIOUS

LEMMA Shortened ==
    ASSUME NEW S, NEW q \in Seq(S), q # <<>>
    PROVE  /\ Tail(q) \in Seq(S) /\ Len(q) \in Nat \ {0} /\ Head(q) \in S
           /\ Len(Tail(q)) = Len(q) - 1
           /\ DOMAIN q = 1 .. Len(q) /\ DOMAIN Tail(q) = 1 .. Len(q) - 1
           /\ Head(q) = q[1]
           /\ \A i \in 1 .. Len(q) - 1 : Tail(q)[i] = q[i + 1]
OBVIOUS

\* Two sequences of one length that agree everywhere are the same.
LEMMA Agreeing ==
    ASSUME NEW S, NEW p \in Seq(S), NEW q \in Seq(S), Len(p) = Len(q),
           \A i \in 1 .. Len(p) : p[i] = q[i]
    PROVE  p = q
OBVIOUS

-----------------------------------------------------------------------------
(* Aligned sequences: what the steps of a stream do to them                *)

LEMMA AlignedNew ==
    ASSUME NEW e \in Events
    PROVE  Aligned(<<e>>, Idle, Append(<<>>, e), <<>>)
<1>1. Append(<<>>, e) = <<e>> /\ Len(<<e>>) = 1 /\ <<e>>[1] = e
  OBVIOUS
<1> QED BY <1>1 DEF Aligned, Busy

LEMMA AlignedPublished ==
    ASSUME NEW q \in Seq(Events \cup {Stop}), NEW b \in Events \cup {Idle},
           NEW a \in Seq(Events), NEW d \in Seq(Events), Aligned(q, b, a, d), NEW e \in Events
    PROVE  Aligned(Append(q, e), b, Append(a, e), d)
<1> PICK n \in {0, 1} : n = Busy(b) /\ (b # Idle => n = 1)
  BY DEF Busy
<1>1. Len(a) = Len(d) + n + Len(q) /\ Len(q) \in Nat /\ Len(d) \in Nat
  BY DEF Aligned
<1>2. /\ Len(Append(q, e)) = Len(q) + 1 /\ Append(q, e)[Len(q) + 1] = e
      /\ \A i \in 1 .. Len(q) : Append(q, e)[i] = q[i]
      /\ Len(Append(a, e)) = Len(a) + 1 /\ Append(a, e)[Len(a) + 1] = e
      /\ \A i \in 1 .. Len(a) : Append(a, e)[i] = a[i]
  BY Appended
<1>3. \A i \in 1 .. Len(d) : d[i] = Append(a, e)[i]
  BY <1>1, <1>2 DEF Aligned
<1>4. b # Idle => b = Append(a, e)[Len(d) + 1]
  BY <1>1, <1>2 DEF Aligned
<1>5. ASSUME NEW i \in 1 .. Len(q) + 1
      PROVE  Append(q, e)[i] = Append(a, e)[Len(d) + n + i]
  <2>1. CASE i = Len(q) + 1
    <3>1. Len(d) + n + i = Len(a) + 1
      BY <2>1, <1>1
    <3> QED BY <2>1, <3>1, <1>2
  <2>2. CASE i \in 1 .. Len(q)
    <3>1. Len(d) + n + i \in 1 .. Len(a)
      BY <2>2, <1>1
    <3>2. q[i] = a[Len(d) + n + i]
      BY <2>2 DEF Aligned
    <3> QED BY <2>2, <3>1, <3>2, <1>2
  <2> QED BY <2>1, <2>2, <1>1
<1>6. Len(Append(a, e)) = Len(d) + n + Len(Append(q, e))
  BY <1>1, <1>2
<1> QED BY <1>2, <1>3, <1>4, <1>5, <1>6 DEF Aligned

LEMMA AlignedTaken ==
    ASSUME NEW q \in Seq(Events \cup {Stop}), q # <<>>, Head(q) # Idle,
           NEW a \in Seq(Events), NEW d \in Seq(Events), Aligned(q, Idle, a, d)
    PROVE  Aligned(Tail(q), Head(q), a, d)
<1>1. Len(a) = Len(d) + Len(q) /\ Len(q) \in Nat \ {0} /\ Len(d) \in Nat
  BY Shortened DEF Aligned, Busy
<1>2. Busy(Head(q)) = 1 /\ Busy(Idle) = 0
  BY DEF Busy
<1>3. /\ Len(Tail(q)) = Len(q) - 1 /\ Head(q) = q[1]
      /\ \A i \in 1 .. Len(q) - 1 : Tail(q)[i] = q[i + 1]
  BY Shortened
<1>4. \A i \in 1 .. Len(q) : q[i] = a[Len(d) + i]
  BY <1>1, <1>2 DEF Aligned
<1>5. Head(q) = a[Len(d) + 1]
  BY <1>1, <1>3, <1>4
<1>6. ASSUME NEW i \in 1 .. Len(q) - 1 PROVE Tail(q)[i] = a[Len(d) + 1 + i]
  <2>1. i + 1 \in 1 .. Len(q) /\ Len(d) + (i + 1) = Len(d) + 1 + i
    BY <1>1
  <2> QED BY <2>1, <1>3, <1>4
<1>7. Len(a) = Len(d) + 1 + Len(Tail(q))
  BY <1>1, <1>3
<1>8. \A i \in 1 .. Len(d) : d[i] = a[i]
  BY DEF Aligned
<1> QED BY <1>2, <1>3, <1>5, <1>6, <1>7, <1>8 DEF Aligned

LEMMA AlignedDone ==
    ASSUME NEW q \in Seq(Events \cup {Stop}), NEW e \in Events, e # Idle,
           NEW a \in Seq(Events), NEW d \in Seq(Events), Aligned(q, e, a, d)
    PROVE  /\ Len(d) < Len(a) /\ e = a[Len(d) + 1]
           /\ Aligned(q, Idle, a, Append(d, e))
<1>1. /\ Len(a) = Len(d) + 1 + Len(q) /\ Len(q) \in Nat /\ Len(d) \in Nat
      /\ e = a[Len(d) + 1]
      /\ \A i \in 1 .. Len(d) : d[i] = a[i]
      /\ \A i \in 1 .. Len(q) : q[i] = a[Len(d) + 1 + i]
  <2>1. Busy(e) = 1 /\ Len(q) \in Nat /\ Len(d) \in Nat
    BY DEF Busy
  <2> QED BY <2>1 DEF Aligned
<1>2. /\ Len(Append(d, e)) = Len(d) + 1 /\ Append(d, e)[Len(d) + 1] = e
      /\ \A i \in 1 .. Len(d) : Append(d, e)[i] = d[i]
  BY Appended
<1>3. ASSUME NEW i \in 1 .. Len(d) + 1 PROVE Append(d, e)[i] = a[i]
  <2>1. CASE i = Len(d) + 1
    BY <2>1, <1>1, <1>2
  <2>2. CASE i \in 1 .. Len(d)
    BY <2>2, <1>1, <1>2
  <2> QED BY <2>1, <2>2, <1>1
<1>4. Busy(Idle) = 0
  BY DEF Busy
<1>5. Len(a) = Len(Append(d, e)) + 0 + Len(q)
  BY <1>1, <1>2
<1>6. \A i \in 1 .. Len(q) : q[i] = a[Len(Append(d, e)) + 0 + i]
  BY <1>1, <1>2
<1>7. Aligned(q, Idle, a, Append(d, e))
  BY <1>2, <1>3, <1>4, <1>5, <1>6 DEF Aligned
<1>8. Len(d) < Len(a)
  BY <1>1
<1> QED BY <1>1, <1>7, <1>8

LEMMA AlignedIdle ==
    ASSUME NEW a \in Seq(Events), NEW d \in Seq(Events), Aligned(<<>>, Idle, a, d)
    PROVE  d = a
<1>1. Len(a) = Len(d) /\ \A i \in 1 .. Len(d) : d[i] = a[i]
  BY DEF Aligned, Busy
<1> QED BY <1>1, Agreeing, Zenon

-----------------------------------------------------------------------------
(* A step of one stream                                                    *)

\* Replacing one element of a sequence.
LEMMA Replaced ==
    ASSUME NEW S, NEW q \in Seq(S), NEW s \in DOMAIN q, NEW r \in S
    PROVE  /\ [q EXCEPT ![s] = r] \in Seq(S)
           /\ Len([q EXCEPT ![s] = r]) = Len(q)
           /\ [q EXCEPT ![s] = r][s] = r
           /\ \A t \in DOMAIN q : t # s => [q EXCEPT ![s] = r][t] = q[t]
OBVIOUS

LEMMA Fields ==
    ASSUME NEW r \in Stream
    PROVE  /\ r.corr \in Correlations /\ r.queue \in Seq(Events \cup {Stop})
           /\ r.event \in Events \cup {Idle} /\ r.left \in 0 .. Handlers /\ r.alive \in BOOLEAN
BY DEF Stream

LEMMA StreamsAreStreams ==
    ASSUME Types, NEW t \in DOMAIN streams
    PROVE  streams[t] \in Stream
BY DEF Types

\* Until the workers are told to stop, a step that replaces the stream s and
\* keeps it aligned with what was accepted and completed keeps the invariant.
LEMMA StreamStep ==
    ASSUME BusIInv, ~Stopped, NEW s \in DOMAIN streams, NEW r \in Stream,
           r.corr = streams[s].corr, r.alive,
           streams' \in Seq(Stream), Len(streams') = Len(streams), streams'[s] = r,
           \A t \in DOMAIN streams : t # s => streams'[t] = streams[t],
           seen' \subseteq Events, AcceptedSeen', published' \in [Events -> Nat],
           current' = current, closer' = closer, joining' = joining,
           accepted' \in [Correlations -> Seq(Events)], completed' \in [Correlations -> Seq(Events)],
           \A c \in Correlations : c # r.corr => accepted'[c] = accepted[c] /\ completed'[c] = completed[c],
           Aligned(r.queue, r.event, accepted'[r.corr], completed'[r.corr])
    PROVE  BusIInv'
<1>1. Types /\ Flowing /\ DOMAIN streams' = DOMAIN streams /\ streams \in Seq(Stream)
  BY DEF BusIInv, Types
<1>2. Types'
  BY <1>1 DEF Types
<1>3. ~Stopped'
  BY DEF Stopped
<1>4. r.corr \in Correlations /\ current[r.corr] = s
  BY <1>1 DEF Stream, Flowing, Flows
<1>5. ASSUME NEW t \in DOMAIN streams PROVE Flows(t)'
  <2>1. CASE t = s
    BY <2>1, <1>4 DEF Flows
  <2>2. CASE t # s
    <3>1. streams'[t] = streams[t] /\ Flows(t) /\ streams[t].corr \in Correlations
      BY <2>2, <1>1, StreamsAreStreams, Fields DEF Flowing
    <3>2. streams[t].corr # r.corr
      BY <3>1, <1>4, <2>2 DEF Flows
    <3> QED BY <3>1, <3>2 DEF Flows
  <2> QED BY <2>1, <2>2
<1>6. ASSUME NEW c \in Correlations
      PROVE  IF current'[c] = 0 THEN accepted'[c] = <<>> /\ completed'[c] = <<>>
             ELSE streams'[current'[c]].corr = c
  <2>1. CASE current[c] = 0
    <3>1. c # r.corr
      <4>1. s # 0
        BY <1>1
      <4> QED BY <4>1, <2>1, <1>4
    <3> QED BY <3>1, <2>1, <1>1 DEF Flowing
  <2>2. CASE current[c] # 0
    <3>1. current[c] \in DOMAIN streams /\ streams[current[c]].corr = c
      BY <2>2, <1>1 DEF Types, Flowing
    <3> QED BY <3>1, <2>2
  <2> QED BY <2>1, <2>2
<1>7. Flowing'
  BY <1>1, <1>5, <1>6 DEF Flowing
<1> QED BY <1>2, <1>3, <1>7 DEF BusIInv

\* The same for a step that starts the stream of a correlation id.
LEMMA NewStreamStep ==
    ASSUME BusIInv, ~Stopped, NEW r \in Stream, current[r.corr] = 0, r.alive,
           NEW n \in Nat, n = Len(streams) + 1,
           streams' \in Seq(Stream), Len(streams') = n, streams'[n] = r,
           \A t \in DOMAIN streams : streams'[t] = streams[t],
           seen' \subseteq Events, AcceptedSeen', published' \in [Events -> Nat],
           current' = [current EXCEPT ![r.corr] = n], closer' = closer, joining' = joining,
           accepted' \in [Correlations -> Seq(Events)], completed' = completed,
           \A c \in Correlations : c # r.corr => accepted'[c] = accepted[c],
           Aligned(r.queue, r.event, accepted'[r.corr], completed[r.corr])
    PROVE  BusIInv'
<1>1. /\ Types /\ Flowing /\ streams \in Seq(Stream) /\ Len(streams) \in Nat
      /\ DOMAIN streams = 1 .. Len(streams) /\ DOMAIN streams' = 1 .. n
      /\ current \in [Correlations -> Nat] /\ r.corr \in Correlations
  BY Fields DEF BusIInv, Types
<1>2. /\ \A c \in Correlations : c # r.corr => current'[c] = current[c]
      /\ current'[r.corr] = n /\ current' \in [Correlations -> Nat]
  BY <1>1
<1>3. Types'
  <2>1. \A c \in Correlations : current[c] \in 0 .. Len(streams)
    BY <1>1 DEF Types
  <2>2. ASSUME NEW c \in Correlations PROVE current'[c] \in 0 .. Len(streams')
    <3>1. CASE c = r.corr
      BY <3>1, <1>2
    <3>2. CASE c # r.corr
      BY <3>2, <1>1, <1>2, <2>1
    <3> QED BY <3>1, <3>2
  <2>3. joining' \subseteq DOMAIN streams'
    BY <1>1 DEF Types
  <2> QED BY <1>1, <1>2, <2>2, <2>3 DEF Types
<1>4. ~Stopped'
  BY DEF Stopped
<1>5. ASSUME NEW t \in 1 .. n PROVE Flows(t)'
  <2>1. CASE t = n
    BY <2>1, <1>2 DEF Flows
  <2>2. CASE t \in DOMAIN streams
    <3>1. streams'[t] = streams[t] /\ Flows(t) /\ streams[t] \in Stream
      BY <2>2, <1>1, StreamsAreStreams DEF Flowing
    <3>2. streams[t].corr \in Correlations
      BY <3>1, Fields
    <3>3. streams[t].corr # r.corr
      BY <3>1 DEF Flows
    <3> QED BY <3>1, <3>2, <3>3, <1>2 DEF Flows
  <2> QED BY <2>1, <2>2, <1>1
<1>6. ASSUME NEW c \in Correlations
      PROVE  IF current'[c] = 0 THEN accepted'[c] = <<>> /\ completed'[c] = <<>>
             ELSE streams'[current'[c]].corr = c
  <2>1. CASE c = r.corr
    BY <2>1, <1>1, <1>2
  <2>2. CASE c # r.corr /\ current[c] = 0
    BY <2>2, <1>1, <1>2 DEF Flowing
  <2>3. CASE c # r.corr /\ current[c] # 0
    <3>1. current[c] \in DOMAIN streams /\ streams[current[c]].corr = c
      BY <2>3, <1>1 DEF Types, Flowing
    <3> QED BY <3>1, <2>3, <1>2
  <2> QED BY <2>1, <2>2, <2>3
<1>7. Flowing'
  BY <1>1, <1>5, <1>6 DEF Flowing
<1> QED BY <1>3, <1>4, <1>7 DEF BusIInv

\* A step that leaves the bus alone.
LEMMA QuietStep ==
    ASSUME BusIInv, UNCHANGED <<seen, streams, current, joining, accepted, completed>>,
           published' \in [Events -> Nat], Stopped' <=> Stopped,
           closer = closer' \/ (closer # "closed" /\ closer' # "closed" /\ ~Stopped),
           closer' \in {"open", "draining", "confirming", "joining", "closed", "failed"}
    PROVE  BusIInv'
<1>1. Types'
  BY DEF BusIInv, Types
<1>2. AcceptedSeen'
  BY DEF BusIInv, AcceptedSeen
<1>3. ~Stopped' => Flowing'
  BY DEF BusIInv, Flowing, Flows
<1>4. Stopped' => Stopping'
  BY DEF BusIInv, Stopping, Stopped
<1> QED BY <1>1, <1>2, <1>3, <1>4 DEF BusIInv

-----------------------------------------------------------------------------
(* publish                                                                 *)

\* publish of an event not seen before, in the fields of the stream it uses.
LEMMA PublishKeeps ==
    ASSUME BusIInv, ~Stopped, NEW e \in Events, Publish(e), published' \in [Events -> Nat],
           UNCHANGED <<closer, joining, completed>>
    PROVE  BusIInv'
<1>1. CASE e \in seen
  <2>1. UNCHANGED <<seen, streams, current, accepted>>
    BY <1>1 DEF Publish
  <2> QED BY <2>1, QuietStep DEF BusIInv, Types, Stopped
<1>2. CASE e \notin seen
  <2> PICK c \in Correlations : c = CorrelationOf[e]
    BY BusAssumption
  <2>1. seen' = seen \cup {e} /\ accepted' = [accepted EXCEPT ![c] = Append(@, e)]
    BY <1>2 DEF Publish
  <2>2. /\ Types /\ Flowing /\ AcceptedSeen /\ streams \in Seq(Stream) /\ seen' \subseteq Events
        /\ accepted \in [Correlations -> Seq(Events)] /\ completed \in [Correlations -> Seq(Events)]
        /\ current \in [Correlations -> Nat] /\ current[c] \in 0 .. Len(streams)
    BY <2>1 DEF BusIInv, Types
  <2>3. /\ accepted'[c] = Append(accepted[c], e)
        /\ \A d \in Correlations : d # c => accepted'[d] = accepted[d]
    BY <2>1, <2>2
  <2>4. Append(accepted[c], e) \in Seq(Events) /\ accepted[c] \in Seq(Events)
    BY <2>2, Appended
  <2>5. accepted' \in [Correlations -> Seq(Events)]
    BY <2>1, <2>2, <2>4
  <2>6. AcceptedSeen'
    <3> SUFFICES ASSUME NEW d \in Correlations, NEW i \in DOMAIN accepted'[d]
                 PROVE  accepted'[d][i] \in seen'
      BY DEF AcceptedSeen
    <3>1. CASE d # c
      BY <3>1, <2>1, <2>2, <2>3 DEF AcceptedSeen
    <3>2. CASE d = c
      <4>1. i \in 1 .. Len(accepted[c]) + 1 /\ Len(accepted[c]) \in Nat /\ DOMAIN accepted[c] = 1 .. Len(accepted[c])
        BY <3>2, <2>3, <2>4, Appended
      <4>2. CASE i = Len(accepted[c]) + 1
        BY <4>2, <3>2, <2>1, <2>3, <2>4, Appended
      <4>3. CASE i \in 1 .. Len(accepted[c])
        <5>1. accepted'[d][i] = accepted[c][i]
          BY <4>3, <3>2, <2>3, <2>4, Appended
        <5>2. accepted[c][i] \in seen
          BY <4>1, <4>3, <2>2 DEF AcceptedSeen
        <5> QED BY <5>1, <5>2, <2>1
      <4> QED BY <4>1, <4>2, <4>3
    <3> QED BY <3>1, <3>2
  <2>7. CASE current[c] = 0
    <3> PICK n \in Nat : n = Len(streams) + 1
      BY <2>2
    <3> PICK z : z = NewStream(c)
      OBVIOUS
    <3> PICK r : r = [z EXCEPT !.queue = <<e>>]
      OBVIOUS
    <3>1. /\ current' = [current EXCEPT ![c] = n]
          /\ streams' = [Append(streams, z) EXCEPT ![n].queue = Append(@, e)]
      <4>1. <<>> \in Seq(Events \cup {Stop})
        OBVIOUS
      <4>2. z \in Stream
        BY <4>1, BusAssumption DEF NewStream, Stream
      <4>3. Len(Append(streams, z)) = n
        BY <2>2, <4>2, Appended
      <4> QED BY <1>2, <2>7, <4>3 DEF Publish
    <3>2. z \in Stream /\ z.queue = <<>> /\ z.corr = c /\ z.event = Idle /\ z.alive
      <4>1. <<>> \in Seq(Events \cup {Stop})
        OBVIOUS
      <4> QED BY <4>1, BusAssumption DEF NewStream, Stream
    <3>3. /\ Append(streams, z) \in Seq(Stream) /\ DOMAIN Append(streams, z) = 1 .. n
          /\ DOMAIN streams = 1 .. Len(streams) /\ Len(streams) \in Nat
          /\ Append(streams, z)[n] = z /\ Len(Append(streams, z)) = n
          /\ \A t \in DOMAIN streams : Append(streams, z)[t] = streams[t]
      BY <2>2, <3>2, Appended
    <3>4. r \in Stream /\ r.queue = <<e>> /\ r.corr = c /\ r.event = Idle /\ r.alive
      <4>1. <<e>> \in Seq(Events \cup {Stop})
        OBVIOUS
      <4> QED BY <4>1, <3>2 DEF Stream
    <3>5. streams' = [Append(streams, z) EXCEPT ![n] = r]
      <4>1. Append(z.queue, e) = <<e>>
        BY <3>2
      <4> QED BY <4>1, <3>1, <3>3
    <3>6. /\ streams' \in Seq(Stream) /\ Len(streams') = n /\ streams'[n] = r
          /\ \A t \in 1 .. n : t # n => streams'[t] = Append(streams, z)[t]
      <4>0. PICK y : y = Append(streams, z)
        OBVIOUS
      <4>1. y \in Seq(Stream) /\ DOMAIN y = 1 .. n /\ n \in DOMAIN y /\ Len(y) = n
        BY <3>3, <4>0
      <4>2. streams' = [y EXCEPT ![n] = r]
        BY <3>5, <4>0
      <4>3. /\ [y EXCEPT ![n] = r] \in Seq(Stream) /\ Len([y EXCEPT ![n] = r]) = n
            /\ [y EXCEPT ![n] = r][n] = r
            /\ \A t \in DOMAIN y : t # n => [y EXCEPT ![n] = r][t] = y[t]
        BY <4>1, <3>4, Replaced
      <4> QED BY <4>0, <4>1, <4>2, <4>3
    <3>7. \A t \in DOMAIN streams : streams'[t] = streams[t]
      BY <3>3, <3>6
    <3>8. accepted[c] = <<>> /\ completed[c] = <<>>
      BY <2>2, <2>7 DEF Flowing
    <3>9. Aligned(r.queue, r.event, accepted'[c], completed[c])
      BY <3>4, <3>8, <2>3, AlignedNew
    <3>11. closer' = closer /\ joining' = joining /\ completed' = completed
      OBVIOUS
    <3>12. /\ current[r.corr] = 0 /\ current' = [current EXCEPT ![r.corr] = n]
           /\ \A d \in Correlations : d # r.corr => accepted'[d] = accepted[d]
           /\ Aligned(r.queue, r.event, accepted'[r.corr], completed[r.corr])
      BY <3>1, <3>4, <3>9, <2>3, <2>7
    <3> QED BY <3>4, <3>6, <3>7, <3>11, <3>12, <2>2, <2>5, <2>6, NewStreamStep
  <2>8. CASE current[c] # 0
    <3> PICK s \in DOMAIN streams : s = current[c]
      BY <2>2, <2>8
    <3>1. streams' = [streams EXCEPT ![s].queue = Append(@, e)] /\ current' = [current EXCEPT ![c] = s]
      BY <1>2, <2>8 DEF Publish
    <3>2. current' = current
      BY <3>1, <2>2
    <3>3. streams[s] \in Stream /\ streams[s].corr = c /\ Flows(s)
      BY <2>2, <2>8, StreamsAreStreams DEF Flowing
    <3> PICK q \in Seq(Events \cup {Stop}) : q = streams[s].queue
      BY <3>3, Fields
    <3> PICK r : r = [streams[s] EXCEPT !.queue = Append(q, e)]
      OBVIOUS
    <3>4. Append(q, e) \in Seq(Events \cup {Stop})
      BY Appended
    <3>5. /\ r \in Stream /\ r.corr = c /\ r.alive /\ r.queue = Append(q, e)
          /\ r.event = streams[s].event
      BY <3>3, <3>4 DEF Stream, Flows
    <3>6. streams' = [streams EXCEPT ![s] = r]
      BY <3>1
    <3>7. /\ streams' \in Seq(Stream) /\ Len(streams') = Len(streams) /\ streams'[s] = r
          /\ \A t \in DOMAIN streams : t # s => streams'[t] = streams[t]
      BY <2>2, <3>5, <3>6, Replaced
    <3>8. Aligned(q, streams[s].event, accepted[c], completed[c])
      BY <3>3 DEF Flows
    <3>9. Aligned(r.queue, r.event, accepted'[c], completed'[c])
      <4>1. streams[s].event \in Events \cup {Idle} /\ completed[c] \in Seq(Events)
        BY <3>3, <2>2, Fields
      <4>2. Aligned(Append(q, e), streams[s].event, Append(accepted[c], e), completed[c])
        BY <3>8, <4>1, <2>4, AlignedPublished
      <4> QED BY <4>2, <3>5, <2>3
    <3>10. completed' \in [Correlations -> Seq(Events)]
      BY <2>2
    <3>11. \A d \in Correlations : d # r.corr => accepted'[d] = accepted[d] /\ completed'[d] = completed[d]
      BY <2>3, <3>5
    <3>12. closer' = closer /\ joining' = joining
      OBVIOUS
    <3>13. r.corr = streams[s].corr /\ Aligned(r.queue, r.event, accepted'[r.corr], completed'[r.corr])
      BY <3>3, <3>5, <3>9
    <3> QED BY <3>2, <3>5, <3>7, <3>10, <3>11, <3>12, <3>13, <2>2, <2>5, <2>6, StreamStep, ZenonT(30)
  <2> QED BY <2>7, <2>8
<1> QED BY <1>1, <1>2

-----------------------------------------------------------------------------
(* Workers                                                                 *)

\* Only a bus that is not stopping has an event to take or to dispatch.
LEMMA WorkingFlows ==
    ASSUME BusIInv, NEW s \in DOMAIN streams,
           \/ streams[s].event # Idle
           \/ streams[s].queue # <<>> /\ Head(streams[s].queue) # Stop
    PROVE  /\ ~Stopped /\ Flows(s) /\ streams[s] \in Stream
           /\ streams \in Seq(Stream) /\ published \in [Events -> Nat] /\ seen \subseteq Events
           /\ accepted \in [Correlations -> Seq(Events)] /\ completed \in [Correlations -> Seq(Events)]
<1>1. ~Stopped
  <2> SUFFICES ASSUME Stopped PROVE FALSE
    OBVIOUS
  <2>1. streams[s].event = Idle /\ streams[s].queue \in {<<Stop>>, <<>>}
    BY DEF BusIInv, Stopping
  <2>2. Head(<<Stop>>) = Stop
    OBVIOUS
  <2> QED BY <2>1, <2>2
<1>2. Flows(s)
  BY <1>1 DEF BusIInv, Flowing
<1>3. streams[s] \in Stream
  BY StreamsAreStreams DEF BusIInv
<1> QED BY <1>1, <1>2, <1>3 DEF BusIInv, Types

\* Taking an event moves it from the queue to the dispatcher.
LEMMA TakeEventKeeps == ASSUME BusIInv, NEW s \in DOMAIN streams, TakeEvent(s) PROVE BusIInv'
<1> PICK r : r = streams[s]
  OBVIOUS
<1> PICK e : e = Head(r.queue)
  OBVIOUS
<1>1. /\ r.event = Idle /\ r.queue # <<>> /\ e # Stop
      /\ streams' = [streams EXCEPT ![s].queue = Tail(@), ![s].event = e, ![s].left = Handlers]
      /\ UNCHANGED <<seen, current, closer, joining, published, accepted, completed>>
  BY DEF TakeEvent
<1>2. /\ ~Stopped /\ Flows(s) /\ r \in Stream
      /\ streams \in Seq(Stream) /\ published \in [Events -> Nat] /\ seen \subseteq Events
      /\ accepted \in [Correlations -> Seq(Events)] /\ completed \in [Correlations -> Seq(Events)]
  BY <1>1, WorkingFlows
<1>3. r.queue \in Seq(Events \cup {Stop}) /\ r.corr \in Correlations
  BY <1>2, Fields
<1>4. Tail(r.queue) \in Seq(Events \cup {Stop}) /\ e \in Events /\ e # Idle
  BY <1>1, <1>3, Shortened, SentinelAssumption
<1>5. PICK x : x = [r EXCEPT !.queue = Tail(r.queue), !.event = e, !.left = Handlers]
  OBVIOUS
<1>6. /\ x \in Stream /\ x.corr = r.corr /\ x.alive /\ x.queue = Tail(r.queue) /\ x.event = e
  <2>1. Handlers \in 0 .. Handlers
    BY BusAssumption
  <2>2. r.alive
    BY <1>2 DEF Flows
  <2> QED BY <1>2, <1>4, <1>5, <2>1, <2>2 DEF Stream
<1>7. streams' = [streams EXCEPT ![s] = x]
  BY <1>1, <1>5
<1>8. /\ streams' \in Seq(Stream) /\ Len(streams') = Len(streams) /\ streams'[s] = x
      /\ \A t \in DOMAIN streams : t # s => streams'[t] = streams[t]
  BY <1>2, <1>6, <1>7, Replaced
<1>9. accepted[r.corr] \in Seq(Events) /\ completed[r.corr] \in Seq(Events)
      /\ Aligned(r.queue, Idle, accepted[r.corr], completed[r.corr])
  BY <1>1, <1>2, <1>3 DEF Flows
<1>10. Aligned(x.queue, x.event, accepted'[x.corr], completed'[x.corr])
  BY <1>1, <1>3, <1>4, <1>6, <1>9, AlignedTaken
<1>11. AcceptedSeen'
  BY <1>1 DEF BusIInv, AcceptedSeen
<1>12. /\ current' = current /\ closer' = closer /\ joining' = joining /\ x.corr = streams[s].corr
       /\ accepted' \in [Correlations -> Seq(Events)] /\ completed' \in [Correlations -> Seq(Events)]
       /\ \A c \in Correlations : c # x.corr => accepted'[c] = accepted[c] /\ completed'[c] = completed[c]
       /\ seen' \subseteq Events /\ published' \in [Events -> Nat]
  BY <1>1, <1>2, <1>6
<1> QED BY <1>2, <1>6, <1>8, <1>10, <1>11, <1>12, StreamStep

\* The end of a handler changes neither the queue nor what is dispatched.
LEMMA HandlerEndsKeeps == ASSUME BusIInv, NEW s \in DOMAIN streams, HandlerEnds(s) PROVE BusIInv'
<1> PICK r : r = streams[s]
  OBVIOUS
<1>1. /\ r.event # Idle /\ r.left > 0
      /\ streams' = [streams EXCEPT ![s].left = @ - 1]
      /\ UNCHANGED <<seen, current, closer, joining, published, accepted, completed>>
  BY DEF HandlerEnds, Dispatching
<1>2. /\ ~Stopped /\ Flows(s) /\ r \in Stream
      /\ streams \in Seq(Stream) /\ published \in [Events -> Nat] /\ seen \subseteq Events
      /\ accepted \in [Correlations -> Seq(Events)] /\ completed \in [Correlations -> Seq(Events)]
  BY <1>1, WorkingFlows
<1>3. PICK x : x = [r EXCEPT !.left = r.left - 1]
  OBVIOUS
<1>4. /\ x \in Stream /\ x.corr = r.corr /\ x.alive /\ x.queue = r.queue /\ x.event = r.event
  <2>1. r.left - 1 \in 0 .. Handlers
    BY <1>1, <1>2, Fields, BusAssumption
  <2>2. r.alive
    BY <1>2 DEF Flows
  <2> QED BY <1>2, <1>3, <2>1, <2>2 DEF Stream
<1>5. streams' = [streams EXCEPT ![s] = x]
  BY <1>1, <1>3
<1>6. /\ streams' \in Seq(Stream) /\ Len(streams') = Len(streams) /\ streams'[s] = x
      /\ \A t \in DOMAIN streams : t # s => streams'[t] = streams[t]
  BY <1>2, <1>4, <1>5, Replaced
<1>7. Aligned(x.queue, x.event, accepted'[x.corr], completed'[x.corr])
  BY <1>1, <1>2, <1>4 DEF Flows
<1>8. AcceptedSeen'
  BY <1>1 DEF BusIInv, AcceptedSeen
<1>9. /\ current' = current /\ closer' = closer /\ joining' = joining /\ x.corr = streams[s].corr
      /\ accepted' \in [Correlations -> Seq(Events)] /\ completed' \in [Correlations -> Seq(Events)]
      /\ \A c \in Correlations : c # x.corr => accepted'[c] = accepted[c] /\ completed'[c] = completed[c]
      /\ seen' \subseteq Events /\ published' \in [Events -> Nat]
  BY <1>1, <1>2, <1>4
<1> QED BY <1>2, <1>4, <1>6, <1>7, <1>8, <1>9, StreamStep

\* The event a worker is done with is the next accepted one.
LEMMA DispatchEndsKeeps ==
    ASSUME BusIInv, NEW s \in DOMAIN streams, DispatchEnds(s)
    PROVE  /\ BusIInv'
           /\ Delivery!Deliver(streams[s].corr)
<1> PICK r : r = streams[s]
  OBVIOUS
<1>1. /\ r.event # Idle
      /\ streams' = [streams EXCEPT ![s].event = Idle]
      /\ completed' = [completed EXCEPT ![r.corr] = Append(@, r.event)]
      /\ UNCHANGED <<seen, current, closer, joining, published, accepted>>
  BY DEF DispatchEnds, Dispatching
<1>2. /\ ~Stopped /\ Flows(s) /\ r \in Stream
      /\ streams \in Seq(Stream) /\ published \in [Events -> Nat] /\ seen \subseteq Events
      /\ accepted \in [Correlations -> Seq(Events)] /\ completed \in [Correlations -> Seq(Events)]
  BY <1>1, WorkingFlows
<1>3. /\ r.corr \in Correlations /\ r.queue \in Seq(Events \cup {Stop}) /\ r.event \in Events
      /\ accepted[r.corr] \in Seq(Events) /\ completed[r.corr] \in Seq(Events)
  BY <1>1, <1>2, Fields
<1>4. PICK x : x = [r EXCEPT !.event = Idle]
  OBVIOUS
<1>5. /\ x \in Stream /\ x.corr = r.corr /\ x.alive /\ x.queue = r.queue /\ x.event = Idle
  <2>1. r.alive
    BY <1>2 DEF Flows
  <2> QED BY <1>2, <1>4, <2>1 DEF Stream
<1>6. streams' = [streams EXCEPT ![s] = x]
  BY <1>1, <1>4
<1>7. /\ streams' \in Seq(Stream) /\ Len(streams') = Len(streams) /\ streams'[s] = x
      /\ \A t \in DOMAIN streams : t # s => streams'[t] = streams[t]
  BY <1>2, <1>5, <1>6, Replaced
<1>8. Aligned(r.queue, r.event, accepted[r.corr], completed[r.corr]) /\ r.event # Idle
  BY <1>1, <1>2 DEF Flows
<1>9. /\ Len(completed[r.corr]) < Len(accepted[r.corr])
      /\ r.event = accepted[r.corr][Len(completed[r.corr]) + 1]
      /\ Aligned(r.queue, Idle, accepted[r.corr], Append(completed[r.corr], r.event))
  <2>1. PICK a \in Seq(Events) : a = accepted[r.corr]
    BY <1>3
  <2>2. PICK d \in Seq(Events) : d = completed[r.corr]
    BY <1>3
  <2>3. PICK q \in Seq(Events \cup {Stop}) : q = r.queue
    BY <1>3
  <2>4. PICK e \in Events : e = r.event
    BY <1>3
  <2>5. Aligned(q, e, a, d) /\ e # Idle
    BY <2>1, <2>2, <2>3, <2>4, <1>8
  <2>6. Len(d) < Len(a) /\ e = a[Len(d) + 1] /\ Aligned(q, Idle, a, Append(d, e))
    BY <2>5, AlignedDone
  <2> QED BY <2>1, <2>2, <2>3, <2>4, <2>6
<1>10. /\ completed'[r.corr] = Append(completed[r.corr], r.event)
       /\ \A c \in Correlations : c # r.corr => completed'[c] = completed[c]
  BY <1>1, <1>2, <1>3
<1>11. completed' \in [Correlations -> Seq(Events)]
  <2>1. Append(completed[r.corr], r.event) \in Seq(Events)
    BY <1>3, Appended
  <2> QED BY <1>1, <1>2, <2>1
<1>12. AcceptedSeen'
  BY <1>1 DEF BusIInv, AcceptedSeen
<1>13. /\ current' = current /\ closer' = closer /\ joining' = joining /\ x.corr = streams[s].corr
       /\ accepted' \in [Correlations -> Seq(Events)]
       /\ \A c \in Correlations : c # x.corr => accepted'[c] = accepted[c] /\ completed'[c] = completed[c]
       /\ seen' \subseteq Events /\ published' \in [Events -> Nat]
       /\ Aligned(x.queue, x.event, accepted'[x.corr], completed'[x.corr])
  BY <1>1, <1>2, <1>5, <1>9, <1>10
<1>14. BusIInv'
  BY <1>2, <1>5, <1>7, <1>11, <1>12, <1>13, StreamStep
<1>15. Delivery!Deliver(r.corr)
  BY <1>1, <1>3, <1>9 DEF Delivery!Deliver
<1> QED BY <1>14, <1>15

\* A worker finds the stop signal only after close has told it to stop.
LEMMA WorkerStopsKeeps == ASSUME BusIInv, NEW s \in DOMAIN streams, WorkerStops(s) PROVE BusIInv'
<1> PICK r : r = streams[s]
  OBVIOUS
<1>1. /\ r.alive /\ r.event = Idle /\ r.queue # <<>> /\ Head(r.queue) = Stop
      /\ streams' = [streams EXCEPT ![s].queue = Tail(@), ![s].alive = FALSE]
      /\ UNCHANGED <<seen, current, closer, joining, published, accepted, completed>>
  BY DEF WorkerStops
<1>2. Types /\ streams \in Seq(Stream) /\ r \in Stream
      /\ accepted \in [Correlations -> Seq(Events)] /\ completed \in [Correlations -> Seq(Events)]
  BY StreamsAreStreams DEF BusIInv, Types
<1>3. r.queue \in Seq(Events \cup {Stop}) /\ r.corr \in Correlations
  BY <1>2, Fields
<1>4. Stopped
  <2> SUFFICES ASSUME ~Stopped PROVE FALSE
    OBVIOUS
  <2>1. Aligned(r.queue, Idle, accepted[r.corr], completed[r.corr])
    BY <1>1 DEF BusIInv, Flowing, Flows
  <2>2. /\ Len(r.queue) \in Nat \ {0} /\ r.queue[1] = Stop
        /\ accepted[r.corr] \in Seq(Events) /\ Len(completed[r.corr]) \in Nat
    BY <1>1, <1>2, <1>3, Shortened
  <2>3. /\ r.queue[1] = accepted[r.corr][Len(completed[r.corr]) + 1]
        /\ Len(accepted[r.corr]) = Len(completed[r.corr]) + Len(r.queue)
    BY <2>1, <2>2 DEF Aligned, Busy
  <2>4. Len(completed[r.corr]) + 1 \in 1 .. Len(accepted[r.corr])
    <3>1. PICK n \in Nat : n = Len(completed[r.corr])
      BY <2>2
    <3>2. PICK m \in Nat \ {0} : m = Len(r.queue)
      BY <2>2
    <3>3. Len(accepted[r.corr]) = n + m
      BY <3>1, <3>2, <2>3
    <3>4. n + 1 \in 1 .. n + m
      OBVIOUS
    <3> QED BY <3>1, <3>3, <3>4
  <2>5. accepted[r.corr][Len(completed[r.corr]) + 1] \in Events
    BY <2>2, <2>4
  <2> QED BY <2>2, <2>3, <2>5, SentinelAssumption
<1>5. PICK x : x = [r EXCEPT !.queue = Tail(r.queue), !.alive = FALSE]
  OBVIOUS
<1>6. Tail(r.queue) \in Seq(Events \cup {Stop})
  BY <1>1, <1>3, Shortened
<1>7. x \in Stream /\ x.event = Idle /\ x.queue = Tail(r.queue) /\ x.alive = FALSE
  BY <1>1, <1>2, <1>5, <1>6 DEF Stream
<1>8. streams' = [streams EXCEPT ![s] = x]
  BY <1>1, <1>5
<1>9. /\ streams' \in Seq(Stream) /\ Len(streams') = Len(streams) /\ streams'[s] = x
      /\ \A t \in DOMAIN streams : t # s => streams'[t] = streams[t]
  BY <1>2, <1>7, <1>8, Replaced
<1>10. DOMAIN streams' = DOMAIN streams
  BY <1>2, <1>9
<1>11. Types'
  BY <1>1, <1>2, <1>9, <1>10 DEF Types
<1>12. x.queue = <<>>
  <2>1. r.queue = <<Stop>> /\ Tail(<<Stop>>) = <<>>
    BY <1>1, <1>4 DEF BusIInv, Stopping
  <2> QED BY <2>1, <1>7
<1>13. Stopping'
  BY <1>1, <1>4, <1>7, <1>9, <1>10, <1>12 DEF BusIInv, Stopping
<1>14. AcceptedSeen' /\ Stopped'
  BY <1>1, <1>4 DEF BusIInv, AcceptedSeen, Stopped
<1> QED BY <1>11, <1>13, <1>14 DEF BusIInv

\* A handler publishes while its event is dispatched, so before the stop.
LEMMA HandlerPublishesKeeps ==
    ASSUME BusIInv, NEW s \in DOMAIN streams, HandlerPublishes(s)
    PROVE  BusIInv' /\ \E e \in Events : Publish(e) /\ UNCHANGED completed
<1>1. /\ streams[s].event # Idle
      /\ \E e \in Emits[streams[s].event] : Publish(e)
      /\ UNCHANGED <<closer, joining, published, completed>>
  BY DEF HandlerPublishes, Dispatching
<1>2. ~Stopped /\ streams[s] \in Stream /\ published \in [Events -> Nat]
  BY <1>1, WorkingFlows
<1>3. streams[s].event \in Events
  BY <1>1, <1>2, Fields
<1>4. PICK e \in Events : Publish(e)
  BY <1>1, <1>3, BusAssumption
<1>5. published' \in [Events -> Nat]
  BY <1>1, <1>2
<1>6. UNCHANGED <<closer, joining, completed>>
  BY <1>1
<1>7. BusIInv'
  BY <1>2, <1>4, <1>5, <1>6, PublishKeeps
<1> QED BY <1>4, <1>6, <1>7

LEMMA PublishOutsideKeeps == ASSUME BusIInv, NEW e \in Events, PublishOutside(e) PROVE BusIInv'
<1>1. /\ ~Stopped /\ Publish(e) /\ UNCHANGED <<closer, joining, completed>>
      /\ published' = [published EXCEPT ![e] = @ + 1]
  BY DEF PublishOutside, Stopped
<1>2. published' \in [Events -> Nat]
  BY <1>1 DEF BusIInv, Types
<1> QED BY <1>1, <1>2, PublishKeeps

-----------------------------------------------------------------------------
(* drain and close                                                         *)

\* A bus that looks idle to drain has completed what it accepted, and every
\* stream is registered.
LEMMA IdleIsComplete ==
    ASSUME BusIInv, ~Stopped, LooksIdle
    PROVE  /\ completed = accepted /\ Registered = DOMAIN streams
           /\ \A t \in DOMAIN streams : streams[t].event = Idle /\ streams[t].queue = <<>> /\ streams[t].alive
<1>1. /\ Types /\ Flowing
      /\ accepted \in [Correlations -> Seq(Events)] /\ completed \in [Correlations -> Seq(Events)]
  BY DEF BusIInv, Types
<1>2. ASSUME NEW t \in DOMAIN streams
      PROVE  /\ streams[t].event = Idle /\ streams[t].queue = <<>> /\ streams[t].alive
             /\ t \in Registered
  <2>1. Flows(t) /\ streams[t].corr \in Correlations /\ t # 0
    <3>1. streams[t] \in Stream
      BY <1>1, StreamsAreStreams
    <3>2. streams[t].corr \in Correlations
      BY <3>1, Fields
    <3>3. t # 0
      BY <1>1 DEF Types
    <3> QED BY <3>2, <3>3, <1>1 DEF Flowing
  <2>2. current[streams[t].corr] = t /\ streams[t].alive
    BY <2>1 DEF Flows
  <2>3. streams[t].queue = <<>>
    BY <2>1, <2>2 DEF LooksIdle
  <2>4. streams[t].event = Idle
    BY <2>2 DEF LooksIdle, Dispatching
  <2> QED BY <2>1, <2>2, <2>3, <2>4 DEF Registered
<1>3. Registered \subseteq DOMAIN streams
  BY <1>1 DEF Registered, Types
<1>4. ASSUME NEW c \in Correlations PROVE completed[c] = accepted[c]
  <2>1. CASE current[c] = 0
    BY <2>1, <1>1 DEF Flowing
  <2>2. CASE current[c] # 0
    <3>1. current[c] \in DOMAIN streams /\ streams[current[c]].corr = c
      BY <2>2, <1>1 DEF Types, Flowing
    <3>2. Aligned(<<>>, Idle, accepted[c], completed[c])
      BY <3>1, <1>1, <1>2 DEF Flowing, Flows
    <3> QED BY <3>2, <1>1, AlignedIdle
  <2> QED BY <2>1, <2>2
<1>5. completed = accepted
  BY <1>1, <1>4
<1> QED BY <1>2, <1>3, <1>5

LEMMA StopWorkersKeeps == ASSUME BusIInv, StopWorkers PROVE BusIInv'
<1>1. /\ closer' = "joining" /\ joining' = Registered
      /\ streams' = [s \in DOMAIN streams |->
                       IF s \in Registered THEN [streams[s] EXCEPT !.queue = Append(@, Stop)]
                       ELSE streams[s]]
      /\ UNCHANGED <<seen, current, published, accepted, completed>>
      /\ ~Stopped /\ LooksIdle
  BY DEF StopWorkers, Stopped
<1>2. /\ completed = accepted /\ Registered = DOMAIN streams
      /\ \A t \in DOMAIN streams : streams[t].event = Idle /\ streams[t].queue = <<>> /\ streams[t].alive
  BY <1>1, IdleIsComplete
<1>3. Types /\ streams \in Seq(Stream)
  BY DEF BusIInv, Types
<1>4. streams' = [t \in DOMAIN streams |-> [streams[t] EXCEPT !.queue = Append(@, Stop)]]
  BY <1>1, <1>2
<1>5. ASSUME NEW t \in DOMAIN streams
      PROVE  /\ streams'[t] \in Stream /\ streams'[t].event = Idle
             /\ streams'[t].queue = <<Stop>> /\ streams'[t].alive
  <2>1. streams[t] \in Stream
    BY <1>3, StreamsAreStreams
  <2>2. Append(streams[t].queue, Stop) = <<Stop>> /\ <<Stop>> \in Seq(Events \cup {Stop})
    <3>1. streams[t].queue = <<>>
      BY <1>2
    <3>2. Append(<<>>, Stop) = <<Stop>> /\ <<Stop>> \in Seq(Events \cup {Stop})
      OBVIOUS
    <3> QED BY <3>1, <3>2
  <2>3. streams'[t] = [streams[t] EXCEPT !.queue = <<Stop>>]
    BY <1>4, <2>2
  <2> QED BY <1>2, <2>1, <2>2, <2>3 DEF Stream
<1>6. streams' \in Seq(Stream) /\ DOMAIN streams' = DOMAIN streams /\ Len(streams') = Len(streams)
  <2>1. PICK n \in Nat : n = Len(streams) /\ DOMAIN streams = 1 .. n
    BY <1>3
  <2>2. streams' \in [1 .. n -> Stream]
    BY <1>4, <1>5, <2>1
  <2> QED BY <2>1, <2>2
<1>7. Types'
  BY <1>1, <1>2, <1>3, <1>6 DEF Types
<1>8. Stopping'
  BY <1>1, <1>2, <1>5, <1>6 DEF Stopping
<1>9. AcceptedSeen' /\ Stopped'
  BY <1>1 DEF BusIInv, AcceptedSeen, Stopped
<1> QED BY <1>7, <1>8, <1>9 DEF BusIInv

LEMMA CloseReturnsKeeps == ASSUME BusIInv, CloseReturns PROVE BusIInv'
<1>1. /\ closer = "joining" /\ closer' = "closed" /\ joining' = {}
      /\ \A s \in joining : ~streams[s].alive
      /\ current' = [c \in Correlations |-> 0]
      /\ UNCHANGED <<seen, streams, published, accepted, completed>>
  BY DEF CloseReturns
<1>2. Stopping /\ Types
  BY <1>1 DEF BusIInv, Stopped
<1>3. Types'
  BY <1>1, <1>2 DEF Types
<1>4. Stopping'
  BY <1>1, <1>2 DEF Stopping
<1>5. AcceptedSeen' /\ Stopped'
  BY <1>1 DEF BusIInv, AcceptedSeen, Stopped
<1> QED BY <1>3, <1>4, <1>5 DEF BusIInv

LEMMA DrainKeeps ==
    ASSUME BusIInv, CloseCalled \/ DrainLooks \/ DrainRetries \/ DrainTimesOut
    PROVE  BusIInv'
<1>1. /\ closer \in {"open", "draining", "confirming"}
      /\ closer' \in {"draining", "confirming", "failed"}
      /\ UNCHANGED <<seen, streams, current, joining, accepted, completed>> /\ published' = published
  BY DEF CloseCalled, DrainLooks, DrainRetries, DrainTimesOut, bus
<1>2. published' \in [Events -> Nat]
  BY <1>1 DEF BusIInv, Types
<1>3. ~Stopped /\ ~Stopped' /\ closer # "closed" /\ closer' # "closed"
      /\ closer' \in {"open", "draining", "confirming", "joining", "closed", "failed"}
  BY <1>1 DEF Stopped
<1> QED BY <1>1, <1>2, <1>3, QuietStep

-----------------------------------------------------------------------------
(* The theorems                                                            *)

LEMMA InitBusIInv == BusInit => BusIInv
<1> SUFFICES ASSUME BusInit PROVE BusIInv
  OBVIOUS
<1>1. streams \in Seq(Stream) /\ DOMAIN streams = {} /\ Len(streams) = 0
  BY DEF BusInit
<1>2. <<>> \in Seq(Events) /\ DOMAIN <<>> = {}
  OBVIOUS
<1>3. Types
  BY <1>1, <1>2 DEF BusInit, Types
<1>4. AcceptedSeen
  BY <1>2 DEF BusInit, AcceptedSeen
<1>5. Flowing /\ ~Stopped
  BY <1>1 DEF BusInit, Flowing, Stopped
<1> QED BY <1>3, <1>4, <1>5 DEF BusIInv

\* publish accepts an event once: what was accepted has been seen.
LEMMA PublishAccepts ==
    ASSUME BusIInv, NEW e \in Events, Publish(e), completed' = completed
    PROVE  Delivery!Accept(e) \/ UNCHANGED <<accepted, completed>>
<1>1. CASE e \in seen
  BY <1>1 DEF Publish
<1>2. CASE e \notin seen
  <2>1. accepted' = [accepted EXCEPT ![CorrelationOf[e]] = Append(@, e)]
    BY <1>2 DEF Publish
  <2>2. CorrelationOf[e] \in Correlations
    BY BusAssumption
  <2>3. ~Delivery!Accepted(e)
    BY <1>2, <2>2 DEF BusIInv, AcceptedSeen, Delivery!Accepted
  <2> QED BY <2>1, <2>3 DEF Delivery!Accept
<1> QED BY <1>1, <1>2

\* Every step keeps the invariant and is a step of ordered delivery.
LEMMA BusStep ==
    ASSUME BusIInv, [BusNext]_busVars
    PROVE  BusIInv' /\ [Delivery!Next]_(Delivery!vars)
<1> USE DEF Delivery!Next, Delivery!vars
<1>1. ASSUME NEW e \in Events, PublishOutside(e) PROVE BusIInv' /\ [Delivery!Next]_(Delivery!vars)
  <2>1. Publish(e) /\ completed' = completed
    BY <1>1 DEF PublishOutside
  <2> QED BY <1>1, <2>1, PublishOutsideKeeps, PublishAccepts
<1>2. ASSUME NEW s \in DOMAIN streams, TakeEvent(s) PROVE BusIInv' /\ [Delivery!Next]_(Delivery!vars)
  BY <1>2, TakeEventKeeps DEF TakeEvent
<1>3. ASSUME NEW s \in DOMAIN streams, HandlerEnds(s) PROVE BusIInv' /\ [Delivery!Next]_(Delivery!vars)
  BY <1>3, HandlerEndsKeeps DEF HandlerEnds
<1>4. ASSUME NEW s \in DOMAIN streams, DispatchEnds(s) PROVE BusIInv' /\ [Delivery!Next]_(Delivery!vars)
  <2>1. streams[s].corr \in Correlations
    <3>1. streams[s] \in Stream
      BY StreamsAreStreams DEF BusIInv
    <3> QED BY <3>1, Fields
  <2> QED BY <1>4, <2>1, DispatchEndsKeeps
<1>5. ASSUME NEW s \in DOMAIN streams, WorkerStops(s) PROVE BusIInv' /\ [Delivery!Next]_(Delivery!vars)
  BY <1>5, WorkerStopsKeeps DEF WorkerStops
<1>6. ASSUME NEW s \in DOMAIN streams, HandlerPublishes(s) PROVE BusIInv' /\ [Delivery!Next]_(Delivery!vars)
  BY <1>6, HandlerPublishesKeeps, PublishAccepts
<1>7. CASE CloseCalled \/ DrainLooks \/ DrainRetries \/ DrainTimesOut
  <2>1. UNCHANGED <<accepted, completed>>
    BY <1>7 DEF CloseCalled, DrainLooks, DrainRetries, DrainTimesOut, bus
  <2> QED BY <1>7, <2>1, DrainKeeps
<1>8. CASE StopWorkers
  BY <1>8, StopWorkersKeeps DEF StopWorkers
<1>9. CASE CloseReturns
  BY <1>9, CloseReturnsKeeps DEF CloseReturns
<1>10. CASE UNCHANGED busVars
  <2>1. UNCHANGED <<seen, streams, current, joining, accepted, completed>> /\ closer' = closer
        /\ published' = published
    BY <1>10 DEF busVars
  <2>2. published' \in [Events -> Nat] /\ (Stopped' <=> Stopped)
        /\ closer' \in {"open", "draining", "confirming", "joining", "closed", "failed"}
    BY <2>1 DEF BusIInv, Types, Stopped
  <2> QED BY <2>1, <2>2, QuietStep
<1> QED BY <1>1, <1>2, <1>3, <1>4, <1>5, <1>6, <1>7, <1>8, <1>9, <1>10 DEF BusNext, Worker, Closer

LEMMA BusInvariantHolds == BusSpec => []BusIInv
<1>1. BusInit => BusIInv
  BY InitBusIInv
<1>2. BusIInv /\ [BusNext]_busVars => BusIInv'
  BY BusStep
<1> QED BY <1>1, <1>2, PTL DEF BusSpec

\* Type correctness of the bus, for any events, correlation ids and handlers.
THEOREM BusTypeCorrect == BusSpec => []BusTypeOK
<1>1. ASSUME BusIInv PROVE BusTypeOK
  <2>1. Types
    BY <1>1 DEF BusIInv
  <2>2. ASSUME NEW s \in DOMAIN streams
        PROVE  /\ streams[s].corr \in Correlations
               /\ streams[s].left \in 0 .. Handlers
               /\ streams[s].event \in Events \cup {Idle}
    <3>1. streams[s] \in Stream
      BY <2>1, StreamsAreStreams
    <3> QED BY <3>1, Fields
  <2> QED BY <2>1, <2>2 DEF Types, BusTypeOK
<1> QED BY <1>1, BusInvariantHolds, PTL

\* close keeps its docstring's promise for any number of streams, handlers and
\* publishers: once it has returned no worker runs, and every event publish
\* returned True for has been handled.
THEOREM ClosedAlwaysQuiet == BusSpec => []ClosedIsQuiet
<1>1. BusIInv => ClosedIsQuiet
  BY DEF BusIInv, Stopped, Stopping, ClosedIsQuiet
<1> QED BY <1>1, BusInvariantHolds, PTL

\* The bus delivers in order: an event is accepted at most once, and the
\* handlers are done with the events of a correlation id in the order in which
\* they were accepted, with none skipped (the safety part of Ordered).
THEOREM DeliveryIsOrdered == BusSpec => Delivery!Safety
<1>1. BusInit => Delivery!Init
  BY DEF BusInit, Delivery!Init
<1>2. BusIInv /\ [BusNext]_busVars => [Delivery!Next]_(Delivery!vars)
  BY BusStep
<1> QED BY <1>1, <1>2, BusInvariantHolds, PTL DEF BusSpec, Delivery!Safety
===============================================================================
