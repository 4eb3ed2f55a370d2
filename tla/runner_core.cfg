SPECIFICATION Spec
CONSTANTS
    N = 3
    CpuTokens <- MCCpuTokens
    IoTokens <- MCIoTokens
    CpuBudget = 3
    ConfigIoSlots = 2
    ConfigMaxProcesses = 2
    Priority <- MCPriority
    ProfileRank <- MCProfileRank
    Weight <- MCWeight
    PlanIndex <- MCPlanIndex
    WorkerValues = {"success", "successWarned", "warning", "failed", "exception"}
    FailFast = TRUE
    CallbackMayRaise = TRUE
    ExternalStop = FALSE
    MaxInterrupts = 1
    SequentialBelow = 0
    SourceSize <- MCSourceSize
    Schema <- MCSchema
    Warned = {2}
INVARIANTS
    TypeOK
    ReportComplete
    ExitCodeTruthful
    SkippedNeverRan
    PlanOrder
