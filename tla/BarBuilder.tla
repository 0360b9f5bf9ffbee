------------------------------ MODULE BarBuilder ------------------------------
(***************************************************************************)
(* joker/market/bars.py: BarBuilder, for one symbol.                       *)
(*                                                                         *)
(* An observation is assigned to the 1m and the 5m interval of its source  *)
(* time.  It may arrive late: an interval stays open until its end plus    *)
(* the tolerance, and is emitted once by the first close_ready_bars after  *)
(* that.  The source clock may run ahead of ours, an observation may be    *)
(* delivered again, and cumulative volumes may fall.                       *)
(*                                                                         *)
(* A price is abstracted to whether there is one.  _closed_bars is the set *)
(* of emitted bars.                                                        *)
(***************************************************************************)
EXTENDS Integers, Sequences, FiniteSets, FiniteSetsExt

CONSTANTS MaxObservations,  \* bound on the observations delivered
          NoCumVol,
          Width,        \* BarTimeframe.minutes, in ticks of the model's clock
          Tolerance,    \* late_tolerance_seconds, in ticks
          Lags,         \* receive time minus source time; negative if clocks differ
          MaxTime,      \* bound on the clock
          Payloads      \* what observations carry: price, size (0 for a quote), cum-vol

Timeframes == {"1m", "5m"}

ASSUME BarAssumption ==
    /\ Width \in [Timeframes -> Nat \ {0}]
    /\ Tolerance \in Nat /\ MaxTime \in Nat /\ MaxObservations \in Nat
    /\ Lags \subseteq Int
    /\ NoCumVol \notin Int
    /\ \A p \in Payloads : /\ p.price \in BOOLEAN /\ p.size \in Nat
                           /\ p.cum \in Nat \cup {NoCumVol}

VARIABLES now,        \* the exchange clock
          open,       \* _open: the bars by key, a key is <<timeframe, start>>
          emitted,    \* _emitted
          closed,     \* _closed_bars
          lastCum,    \* _last_cum_vol of the symbol
          assigned,   \* _assigned_obs
          findings,   \* _findings: drops as <<observation_id, timeframe>>, and regressions
          content,    \* the observations delivered; the index stands for observation_id
          clean,      \* history: every delivery was new and carried a cum-vol that did not fall
          base,       \* history: the cumulative volume before the first delivery, if it has one
          dropped     \* history: volume dropped, per timeframe

barVars == <<now, open, emitted, closed, lastCum, assigned, findings, content,
             clean, base, dropped>>

\* A trade, quote or underlying observation as the builder sees it.
Observation(p, source) ==
    [source |-> source, received |-> now, price |-> p.price, size |-> p.size, cum |-> p.cum]

Start(tf, t) == t - (t % Width[tf])
Key(tf, t) == <<tf, Start(tf, t)>>
End(k) == k[2] + Width[k[1]]

NewBar(k) == [key |-> k, volume |-> 0, obs |-> {}, ticks |-> 0,
              incomplete |-> FALSE]

-----------------------------------------------------------------------------
(* _resolve_volume                                                         *)

Regressed(x) == x.cum # NoCumVol /\ lastCum # NoCumVol /\ x.cum < lastCum

\* Mutant: the trade size is added to a valid delta.
VolumeTwice(x) ==
    IF x.cum # NoCumVol /\ lastCum # NoCumVol /\ x.cum >= lastCum THEN x.cum - lastCum + x.size
    ELSE x.size

\* A valid delta of the cumulative volume wins over the trade size.
Volume(x) ==
    IF x.cum # NoCumVol /\ lastCum # NoCumVol /\ x.cum >= lastCum THEN x.cum - lastCum
    ELSE x.size

-----------------------------------------------------------------------------
(* _bar_for and _apply_observation                                         *)

\* Mutant: an interval that was emitted is opened again.
AcceptsEmitted(k, x) == x.received <= End(k) + Tolerance

\* _bar_for gives a bar: the interval was not emitted and x is not too late.
Accepts(k, x) == k \notin emitted /\ x.received <= End(k) + Tolerance

\* apply_price and add_volume, once for an observation and timeframe.
Applied(b, o, x) ==
    IF <<o, b.key[1]>> \in assigned THEN b
    ELSE [b EXCEPT !.obs = IF x.price THEN @ \cup {o} ELSE @,
                   !.ticks = IF x.price THEN @ + 1 ELSE @,
                   !.volume = @ + Volume(x)]

\* The open bars after x: the bars of x exist, older ones of a timeframe that
\* got a new bar are incomplete.
Opened(o, x) ==
    LET keys == {Key(tf, x.source) : tf \in Timeframes}
        taken == {k \in keys : Accepts(k, x)}
        created == taken \ DOMAIN open
    IN  [k \in DOMAIN open \cup taken |->
            IF k \in taken THEN Applied(IF k \in created THEN NewBar(k) ELSE open[k], o, x)
            ELSE IF \E c \in created : c[1] = k[1] /\ k[2] < c[2]
                 THEN [open[k] EXCEPT !.incomplete = TRUE]
                 ELSE open[k]]

\* An observation with neither a price nor a volume changes no bar.
Empty(x) == ~x.price /\ Volume(x) = 0

Refused(x) == {tf \in Timeframes : ~Accepts(Key(tf, x.source), x)}

\* ingest_quote, ingest_trade, ingest_underlying.
Ingest(o, x) ==
    /\ lastCum' = IF x.cum = NoCumVol THEN lastCum ELSE x.cum
    /\ open' = IF Empty(x) THEN open ELSE Opened(o, x)
    /\ assigned' = IF Empty(x) THEN assigned
                   ELSE assigned \cup {<<o, tf>> : tf \in Timeframes \ Refused(x)}
    /\ findings' = findings
                   \cup (IF Regressed(x) THEN {<<o, "regression">>} ELSE {})
                   \cup (IF Empty(x) THEN {} ELSE {<<o, tf>> : tf \in Refused(x)})
    /\ dropped' = [tf \in Timeframes |->
                    dropped[tf] + (IF tf \in Refused(x) /\ <<o, tf>> \notin assigned \cup findings
                                   THEN Volume(x) ELSE 0)]
    /\ UNCHANGED <<now, emitted, closed>>

\* A new observation, received now; the source clock may be ahead of ours.
Deliver(x) ==
    /\ Len(content) < MaxObservations
    /\ Ingest(Len(content) + 1, x)
    /\ content' = Append(content, x)
    /\ clean' = (clean /\ x.cum # NoCumVol /\ ~Regressed(x))
    /\ base' = IF content = <<>> /\ x.cum # NoCumVol THEN x.cum - x.size ELSE base

\* The same observation is delivered a second time, with the receive time it
\* had.  (Bound: only observations that have a price are.)
Redeliver(o) ==
    /\ content[o].price
    /\ Ingest(o, content[o])
    /\ clean' = FALSE
    /\ UNCHANGED <<content, base>>

-----------------------------------------------------------------------------
(* close_ready_bars                                                        *)

\* Mutant: the tolerance is not waited for.
ReadyAtEnd == {k \in DOMAIN open : now >= End(k)}

Ready == {k \in DOMAIN open : now >= End(k) + Tolerance}

\* A bar without a price is incomplete.
Bar(b) == [b EXCEPT !.incomplete = @ \/ b.ticks = 0]

CloseReadyBars ==
    /\ Ready # {}
    /\ closed' = closed \cup {Bar(open[k]) : k \in Ready}
    /\ emitted' = emitted \cup Ready
    /\ open' = [k \in DOMAIN open \ Ready |-> open[k]]
    /\ UNCHANGED <<now, lastCum, assigned, findings, content, clean, base, dropped>>

Tick ==
    /\ now < MaxTime
    /\ now' = now + 1
    /\ UNCHANGED <<open, emitted, closed, lastCum, assigned, findings, content,
                   clean, base, dropped>>

-----------------------------------------------------------------------------
BarInit ==
    /\ now = 0
    /\ open = <<>>
    /\ emitted = {}
    /\ closed = {}
    /\ lastCum = NoCumVol
    /\ assigned = {}
    /\ findings = {}
    /\ content = <<>>
    /\ clean = TRUE
    /\ base = 0
    /\ dropped = [tf \in Timeframes |-> 0]

BarNext ==
    \/ \E o \in DOMAIN content : Redeliver(o)
    \/ \E p \in Payloads, lag \in Lags : lag <= now /\ Deliver(Observation(p, now - lag))
    \/ CloseReadyBars
    \/ Tick

\* Time passes and the runtime ticks.
BarSpec == BarInit /\ [][BarNext]_barVars

-----------------------------------------------------------------------------
(* Properties                                                              *)

Keys == Timeframes \X Nat

Bars == {open[k] : k \in DOMAIN open} \cup closed

BarTypeOK ==
    /\ now \in 0 .. MaxTime
    /\ DOMAIN open \subseteq Keys
    /\ emitted \subseteq Keys
    /\ \A k \in DOMAIN open : open[k].key = k
    /\ \A b \in Bars : b.volume \in Nat
    /\ lastCum \in Nat \cup {NoCumVol}
    /\ assigned \subseteq (DOMAIN content) \X Timeframes
    /\ Len(content) <= MaxObservations

\* "Completed bars emit exactly once": no interval is emitted twice or opened
\* again after it was emitted, whatever arrives late.
EmittedOnce ==
    /\ \A a, b \in closed : a.key = b.key => a = b
    /\ \A b \in closed : b.key \notin DOMAIN open

\* "Intervals stay open until interval_end + late_tolerance so in-tolerance
\* late ticks can still apply": whatever was received before that moment is
\* in its 1m and in its 5m bar.
InToleranceIsCounted ==
    \A o \in DOMAIN content, tf \in Timeframes :
        /\ content[o].price
        /\ content[o].received < End(Key(tf, content[o].source)) + Tolerance
        => <<o, tf>> \in assigned

TotalVolume(tf) == MapThenSumSet(LAMBDA b : b.volume, {b \in Bars : b.key[1] = tf})

\* The volume policy: while cumulative volumes do not fall, the bars of each
\* timeframe, with what was dropped, add up to the advance of the cumulative
\* volume: nothing is counted twice, lost or moved to the next observation.
VolumeIsAdvance ==
    clean /\ lastCum # NoCumVol =>
        \A tf \in Timeframes : TotalVolume(tf) + dropped[tf] = lastCum - base

=============================================================================
