SPECIFICATION FairSpec
CONSTANTS
    create = create
    extract = extract
    Workers = {create, extract}
    Calls <- MCCalls
    LogsMayFail = TRUE
    Stubborn = {extract}
INVARIANTS
    TypeOK
    NoSurvivor
    KilledIsInterrupted
    ReturnedLeavesNothing
PROPERTIES
    InterruptedCallReturns
