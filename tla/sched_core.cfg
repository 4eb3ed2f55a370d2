SPECIFICATION FairSpec
CONSTANTS
    N = 4
    CpuTokens <- MCCpuTokens
    IoTokens <- MCIoTokens
    CpuBudget = 2
    IoSlots = 3
    MaxProcesses = 2
    Priority <- MCPriority
    ProfileRank <- MCProfileRank
    Weight <- MCWeight
    PlanIndex <- MCPlanIndex
    WorkerValues = {"success", "failed"}
    FailFast = TRUE
    CallbackMayRaise = TRUE
    ExternalStop = TRUE
    MaxInterrupts = 2
INVARIANTS
    TypeOK
    BudgetsRespected
    LedgerMatchesRunning
    ImpossibleOnlyIfOversized
    NoSmallerOvertaken
    ResultsFaithful
    ReturnReportsAll
PROPERTIES
    NoStartOnceStopping
    AgedHeadReserved
    Termination
    ImplementsLifecycle
