SPECIFICATION Spec
INVARIANT CapitalFollowsTrades
INVARIANT NoUnmanagedPosition
INVARIANT NeverShort
INVARIANT BudgetPnlIsRealized
INVARIANT EngineAgrees
INVARIANT OneEntryPerProposal
CONSTANTS
    Plan <- MCPlan
    MaxPremium = 3
    MaxAge = 1
    MaxDelayedAge = 3
    AllowDelayed = TRUE
    MaxSilence = 1
    EodTick = 4
    LateTick = 3
    ConfirmTtl = 2
    Contracts = {"call", "put"}
    ContractSeq <- MCContractSeq
    Setups = {"s1"}
    DirOf <- MCDirOf
    StopPct = 50
    TargetPct = 100
    TimeStop <- MCTimeStop
    Limits <- MCLimits
    Configs <- MCConfigs
    Chains <- MCChains
    Lags = {0, 1}
    PartialSides = {"sell"}
    MaxFaults = 1
    Premiums = {1, 3, 4}
    Decisions <- MCDecisions
    Proposals <- MCProposals
    Patches = {{}}
    MinConfidence = 45
    MaxCalls = 3
    MaxProposals = 2
    Deadline = 4
