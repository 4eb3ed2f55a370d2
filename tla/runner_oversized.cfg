SPECIFICATION Spec
CONSTANTS
    N = 3
    CpuTokens <- MCCpuTokens
    IoTokens <- SmallBatchIoTokens
    CpuBudget = 3
    ConfigIoSlots = 2
    ConfigMaxProcesses = 2
    Priority <- MCPriority
    ProfileRank <- MCProfileRank
    Weight <- MCWeight
    PlanIndex <- MCPlanIndex
    WorkerValues = {"success", "warning", "failed"}
    FailFast = FALSE
    CallbackMayRaise = FALSE
    ExternalStop = FALSE
    MaxInterrupts = 0
    SequentialBelow = 6
    SourceSize <- MCSourceSize
    Schema <- MCSchema
    Warned = {2}
INVARIANTS
    ExitHasReport
