----------------------------- MODULE MarketRuntime -----------------------------
(***************************************************************************)
(* joker/runtime/market_runtime.py: MarketRuntime, driven by the poll loop *)
(* of joker/runtime/live_paper_runner.py through the bridge of             *)
(* joker/runtime/compatibility.py, which keeps the health of the truth     *)
(* layer.                                                                  *)
(*                                                                         *)
(* A poll ingests an underlying quote, fetches the option chain and ticks. *)
(* A tick closes bars, saves a surface, a quality report and a snapshot,   *)
(* each with an await that may raise, and announces the snapshot.  Nothing *)
(* but the poll loop touches the runtime.  The process may die anywhere;   *)
(* the database survives.  What the bar builder does is left to chance:    *)
(* which findings it adds and whether a tick closes a bar (BarBuilder).    *)
(***************************************************************************)
EXTENDS Naturals

CONSTANTS None,
          MaxFaults   \* bound on failed saves, failed fetches, bad rows and crashes

ASSUME MaxFaultsAssumption == MaxFaults \in Nat

VARIABLES pc,          \* where the poll loop is
          provider,    \* options_provider is configured
          underlying,  \* _latest_underlying: whether evaluate_data_quality objects to it
          rows,        \* _pending_option_rows
          surface,     \* _latest_surface
          pending,     \* _pending_quality_findings
          barFindings, \* BarBuilder._findings
          report,      \* the codes in the quality report of this tick
          reportSaved, \* it is in the database
          stored,      \* the latest row of market_snapshots
          degraded,    \* Task1RuntimeHealth.degraded, failure_threshold = 1
          faults,
          owed         \* history: findings raised that no stored report has

vars == <<pc, provider, underlying, rows, surface, pending, barFindings,
          report, reportSaved, stored, degraded, faults, owed>>

\* A chain is complete, lacks contracts, is smaller than min_option_contracts
\* or has a row that from_provider_rows raises on.
Chains == {"complete", "partial", "thin", "malformed"}

Rows == [chain : Chains, current : BOOLEAN]
Surfaces == [chain : Chains \ {"malformed"}, current : BOOLEAN, saved : {"no", "yes", "failed"}]

ASSUME NoneAssumption == None \notin Rows \cup Surfaces

\* Findings of severity ERROR or worse, the only ones modelled: warnings go
\* the same way and change nothing.
Codes == {"partial", "unavailable", "thin", "underlying", "regression"}

UsableForExecution(codes) == codes = {}

memory == <<rows, surface, pending, barFindings, underlying>>
database == <<stored>>

\* The bridge records a failure and raises; the loop logs it and goes on.
Fail ==
    /\ faults < MaxFaults
    /\ faults' = faults + 1
    /\ degraded' = TRUE
    /\ pc' = "poll"

-----------------------------------------------------------------------------
(* One round of the poll loop                                              *)

IngestFails ==
    /\ pc = "poll"
    /\ Fail
    /\ UNCHANGED <<provider, memory, report, reportSaved, database, owed>>

\* ingest_underlying_quote: what earlier polls left is not current any more.
IngestUnderlying(u, found) ==
    /\ pc = "poll"
    /\ pc' = "options"
    /\ underlying' = u
    /\ barFindings' = barFindings \cup found
    /\ owed' = owed \cup found
    /\ surface' = IF surface = None THEN None ELSE [surface EXCEPT !.current = FALSE]
    /\ rows' = IF rows = None THEN None ELSE [rows EXCEPT !.current = FALSE]
    /\ UNCHANGED <<provider, pending, report, reportSaved, database, degraded, faults>>

NoOptions ==
    /\ pc = "options" /\ ~provider
    /\ pc' = "tick"
    /\ UNCHANGED <<provider, memory, report, reportSaved, database, degraded, faults, owed>>

\* Mutant: a partial chain is ingested without a finding.
FetchSilently(chain) ==
    /\ pc = "options" /\ provider
    /\ pc' = "tick"
    /\ rows' = [chain |-> chain, current |-> TRUE]
    /\ faults' = IF chain = "malformed" THEN faults + 1 ELSE faults
    /\ faults' <= MaxFaults
    /\ UNCHANGED <<provider, underlying, surface, pending, barFindings, report,
                   reportSaved, database, degraded, owed>>

\* fetch_surface_snapshots gave rows: ingest_option_quotes replaces the
\* buffer, and what is missing is enqueued as a finding.
Fetch(chain) ==
    LET found == IF chain = "partial" THEN {"partial"} ELSE {} IN
    /\ pc = "options" /\ provider
    /\ pc' = "tick"
    /\ rows' = [chain |-> chain, current |-> TRUE]
    /\ pending' = pending \cup found
    /\ owed' = owed \cup found
    /\ faults' = IF chain = "malformed" THEN faults + 1 ELSE faults
    /\ faults' <= MaxFaults
    /\ UNCHANGED <<provider, underlying, surface, barFindings, report, reportSaved,
                   database, degraded>>

\* The fetch raised or gave no row: the buffer stays, a finding is enqueued.
FetchFails ==
    /\ pc = "options" /\ provider
    /\ faults < MaxFaults
    /\ faults' = faults + 1
    /\ pc' = "tick"
    /\ pending' = pending \cup {"unavailable"}
    /\ owed' = owed \cup {"unavailable"}
    /\ UNCHANGED <<provider, underlying, rows, surface, barFindings, report,
                   reportSaved, database, degraded>>

-----------------------------------------------------------------------------
(* tick                                                                    *)

\* No rows and no bar to close: tick returns early, without a snapshot.
TickIdle ==
    /\ pc = "tick" /\ rows = None
    /\ pc' = "poll"
    /\ UNCHANGED <<provider, memory, report, reportSaved, database, degraded, faults, owed>>

\* A bar is closed: there will be a snapshot, with the surface there is.
TickBarClosed ==
    /\ pc = "tick" /\ rows = None
    /\ pc' = "evaluate"
    /\ UNCHANGED <<provider, memory, report, reportSaved, database, degraded, faults, owed>>

\* from_provider_rows builds the surface and the buffer is emptied.
FromProviderRows == [chain |-> rows.chain, current |-> rows.current, saved |-> "no"]

TickSurface ==
    /\ pc = "tick" /\ rows # None /\ rows.chain # "malformed"
    /\ surface' = FromProviderRows
    /\ rows' = None
    /\ pc' = "save_surface"
    /\ UNCHANGED <<provider, underlying, pending, barFindings, report, reportSaved,
                   database, degraded, faults, owed>>

\* from_provider_rows raises: the buffer stays, so the next tick raises again
\* unless a fetch replaces it.  No fault of its own: the rows were one.
TickRaises ==
    /\ pc = "tick" /\ rows # None /\ rows.chain = "malformed"
    /\ degraded' = TRUE
    /\ pc' = "poll"
    /\ UNCHANGED <<provider, memory, report, reportSaved, database, faults, owed>>

SaveSurface ==
    /\ pc = "save_surface"
    /\ pc' = "evaluate"
    /\ surface' = [surface EXCEPT !.saved = "yes"]
    /\ UNCHANGED <<provider, underlying, rows, pending, barFindings, report,
                   reportSaved, database, degraded, faults, owed>>

SaveSurfaceFails ==
    /\ pc = "save_surface"
    /\ Fail
    /\ surface' = [surface EXCEPT !.saved = "failed"]
    /\ UNCHANGED <<provider, underlying, rows, pending, barFindings, report,
                   reportSaved, database, owed>>

\* evaluate_data_quality on the latest underlying quote and surface.
CheckUnderlying == IF underlying = "bad" THEN {"underlying"} ELSE {}
CheckOptionSurface == IF surface # None /\ surface.chain = "thin" THEN {"thin"} ELSE {}
Evaluated == CheckUnderlying \cup CheckOptionSurface

\* Mutant: the findings of the bar builder replace the ones enqueued.
EvaluateOver ==
    /\ pc = "evaluate"
    /\ pc' = "save_report"
    /\ report' = Evaluated \cup (IF barFindings # {} THEN barFindings ELSE pending)
    /\ reportSaved' = FALSE
    /\ barFindings' = {} /\ pending' = {}
    /\ UNCHANGED <<provider, underlying, rows, surface, database, degraded, faults, owed>>

\* The findings of the bar builder and the enqueued ones are merged into the
\* report, which decides anew whether the snapshot is usable, and forgotten.
Evaluate ==
    /\ pc = "evaluate"
    /\ pc' = "save_report"
    /\ report' = Evaluated \cup barFindings \cup pending
    /\ reportSaved' = FALSE
    /\ barFindings' = {} /\ pending' = {}
    /\ UNCHANGED <<provider, underlying, rows, surface, database, degraded, faults, owed>>

SaveReport ==
    /\ pc = "save_report"
    /\ pc' = "save_snapshot"
    /\ reportSaved' = TRUE
    /\ owed' = owed \ report
    /\ UNCHANGED <<provider, memory, report, database, degraded, faults>>

\* The findings merged into the report are gone with it.
SaveReportFails ==
    /\ pc = "save_report"
    /\ Fail
    /\ owed' = owed \ report
    /\ report' = {} /\ reportSaved' = FALSE
    /\ UNCHANGED <<provider, memory, database>>

SaveSnapshot ==
    /\ pc = "save_snapshot"
    /\ pc' = "announce"
    /\ stored' = [surface |-> surface, usable |-> UsableForExecution(report),
                reportSaved |-> reportSaved]
    /\ report' = {} /\ reportSaved' = FALSE
    /\ UNCHANGED <<provider, memory, degraded, faults, owed>>

SaveSnapshotFails ==
    /\ pc = "save_snapshot"
    /\ Fail
    /\ report' = {} /\ reportSaved' = FALSE
    /\ UNCHANGED <<provider, memory, database, owed>>

\* Mutant: a snapshot does not restore the health.
AnnounceDegraded ==
    /\ pc = "announce"
    /\ pc' = "poll"
    /\ UNCHANGED <<provider, memory, report, reportSaved, database, degraded, faults, owed>>

\* MARKET_SNAPSHOT_CREATED is published, tick returns the snapshot and the
\* bridge records a success.
Announce ==
    /\ pc = "announce"
    /\ pc' = "poll"
    /\ degraded' = FALSE
    /\ UNCHANGED <<provider, memory, report, reportSaved, database, faults, owed>>

-----------------------------------------------------------------------------
Fresh ==
    /\ underlying' = None /\ rows' = None /\ surface' = None
    /\ pending' = {} /\ barFindings' = {}
    /\ report' = {} /\ reportSaved' = FALSE /\ owed' = {}

\* The process dies and a new one is started.
Crash ==
    /\ faults < MaxFaults
    /\ faults' = faults + 1
    /\ pc' = "poll"
    /\ degraded' = FALSE
    /\ Fresh
    /\ UNCHANGED <<provider, database>>

Init ==
    /\ pc = "poll"
    /\ provider \in BOOLEAN
    /\ underlying = None /\ rows = None /\ surface = None
    /\ pending = {} /\ barFindings = {}
    /\ report = {} /\ reportSaved = FALSE /\ owed = {}
    /\ stored = None
    /\ degraded = FALSE
    /\ faults = 0

Poll ==
    \/ IngestFails
    \/ \E u \in {"ok", "bad"}, found \in {{}, {"regression"}} : IngestUnderlying(u, found)
    \/ NoOptions
    \/ \E chain \in Chains : Fetch(chain)
    \/ FetchFails
    \/ TickIdle \/ TickBarClosed \/ TickSurface \/ TickRaises
    \/ SaveSurface \/ SaveSurfaceFails
    \/ Evaluate
    \/ SaveReport \/ SaveReportFails
    \/ SaveSnapshot \/ SaveSnapshotFails
    \/ Announce

Next == Poll \/ Crash

\* The loop goes on, and a bar is closed again and again: time passes and
\* every poll ingests a quote, on which BarBuilder closes what is ready.
Fairness == WF_vars(Poll) /\ SF_vars(TickBarClosed)

Spec == Init /\ [][Next]_vars /\ Fairness

-----------------------------------------------------------------------------
(* Properties                                                              *)

TypeOK ==
    /\ pc \in {"poll", "options", "tick", "save_surface", "evaluate", "save_report",
               "save_snapshot", "announce"}
    /\ underlying \in {None, "ok", "bad"}
    /\ rows \in Rows \cup {None}
    /\ surface \in Surfaces \cup {None}
    /\ pending \subseteq {"partial", "unavailable"}
    /\ barFindings \subseteq {"regression"}
    /\ report \subseteq Codes /\ owed \subseteq Codes
    /\ degraded \in BOOLEAN /\ reportSaved \in BOOLEAN
    /\ faults \in 0 .. MaxFaults

\* A snapshot that says usable_for_execution shows the complete chain of the
\* poll it was made in: never a partial one, never the surface of an earlier
\* poll, whichever saves and fetches failed in between.
UsableIsCurrent ==
    (provider /\ stored # None /\ stored.usable) =>
        stored.surface # None /\ stored.surface.current /\ stored.surface.chain = "complete"

\* No finding is forgotten: one that no stored report has is still waiting
\* for a report, across ticks that return early or raise, unless the report
\* that had it could not be saved.
FindingsKept ==
    owed \subseteq pending \cup barFindings \cup (IF pc = "save_report" THEN report ELSE {})

\* A stored snapshot refers to a stored quality report, and to a surface whose
\* save was at least tried.
SnapshotGrounded ==
    stored # None =>
        /\ stored.reportSaved
        /\ stored.surface # None => stored.surface.saved # "no"

\* A failure blocks entries only until the database and the providers work
\* again: then a snapshot restores the health.
Recovers == degraded ~> ~degraded
=============================================================================
