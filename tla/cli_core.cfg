SPECIFICATION Spec
CONSTANTS
    CpuCount = 6
    DefaultLogDir <- MCDefaultLogDir
    Scenarios <- MCScenarios
    EditsOf <- MCEditsOf
    Replacements <- MCReplacements
INVARIANTS
    TypeOK
    HandedOverFits
    DistinctJobs
    OnlyAllowlistEdited
    ValidatedOnce
    PlannedIsAccepted
    SlotsConservative
    ExplicitIoKept
    EveryInputAccounted
    OneJobPerArchive
PROPERTIES
    StartsFromInventoriedTree
