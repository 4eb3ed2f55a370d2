SPECIFICATION FairSpec
CONSTANTS
    N = 4
    CpuTokens <- MCCpuTokens
    IoTokens <- MCIoTokens
    CpuBudget = 2
    IoSlots = 3
    MaxProcesses = 2
    Priority <- MCPriority
    ProfileRank <- MCProfileRank
    Weight <- MCWeight
    PlanIndex <- MCPlanIndex
    WorkerValues = {"success", "failed"}
    FailFast = FALSE
    CallbackMayRaise = FALSE
    ExternalStop = FALSE
    MaxInterrupts = 1
PROPERTIES
    InterruptStopsStarts
