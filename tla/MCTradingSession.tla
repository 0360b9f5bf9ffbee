-------------------------- MODULE MCTradingSession --------------------------
(***************************************************************************)
(* Small instances of LivePaperRunner: a call and a put, one or two        *)
(* setups, every kind of broker and of session.                            *)
(***************************************************************************)
EXTENDS LivePaperRunner

MCContractSeq == <<"call", "put">>
MCDirOf == [s \in Setups |-> "call"]
MCTimeStop == {2}

MCPlan == [authorized |-> 6, targetPct |-> 50, maxPositions |-> 1, maxContracts |-> 2,
           minContracts |-> 1, adaptive |-> TRUE, kelly |-> 50, boost |-> 20, dampen |-> 20,
           minWin |-> 45]
MCLimits == [kill |-> FALSE, maxLoss |-> 3, maxTrades |-> 3]

\* A chain has a fresh quote, a wide one or one that goes stale before the
\* governor looks at it.
Quote(c, quoted, wide) ==
    [contract |-> c, mid |-> 2, ask |-> 2, wide |-> wide, delayed |-> FALSE,
     quoted |-> quoted, received |-> 0, dist |-> 1]
MCChains == {{}, {Quote("call", 0, FALSE), Quote("put", 0, FALSE)}, {Quote("call", -1, FALSE)},
             {Quote("call", 0, TRUE)}}

Session(live, broker, agentLed, cognitive) ==
    [live |-> live, broker |-> broker, armed |-> FALSE, agentLed |-> agentLed,
     cognitive |-> cognitive, rules |-> ~agentLed /\ ~cognitive, shadow |-> FALSE, propose |-> TRUE]
MCConfigs ==
    {Session(TRUE, "paper", FALSE, FALSE), Session(TRUE, "async", TRUE, FALSE),
     Session(TRUE, "webull", FALSE, FALSE), Session(TRUE, "slip", TRUE, FALSE),
     Session(TRUE, "paper", TRUE, TRUE), Session(FALSE, "paper", FALSE, FALSE),
     [Session(TRUE, "paper", TRUE, FALSE) EXCEPT !.propose = FALSE],
     [Session(FALSE, "paper", FALSE, FALSE) EXCEPT !.shadow = TRUE]}

MCCognitive == {Session(TRUE, "paper", TRUE, TRUE)}

Hints(conf, target, edge) == [NoHints EXCEPT !.confidence = conf, !.target = target, !.ev = edge]
Decision(action, dir, setup, hints, patch) ==
    [action |-> action, dir |-> dir, setup |-> setup, hints |-> hints, patch |-> patch]
MCDecisions ==
    {Decision("hold", "call", {}, NoHints, {{}}),
     Decision("abandon", "call", {}, NoHints, {}),
     Decision("propose", "call", {}, Hints(60, {2}, {}), {}),
     Decision("enter", "put", {"s1"}, Hints(60, {}, {}), {}),
     Decision("confirm", "call", {}, Hints(0, {}, {}), {}),
     Decision("confirm", "call", {}, Hints(60, {}, {0}), {})}
MCProposals == {[setup |-> "s1", dir |-> "call", confidence |-> 60],
                [setup |-> "s2", dir |-> "put", confidence |-> 60]}
==============================================================================
