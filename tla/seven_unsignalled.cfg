SPECIFICATION Spec
CONSTANTS
    create = create
    extract = extract
    Workers = {create, extract}
    Calls <- MCCalls
    LogsMayFail = FALSE
    Stubborn = {extract}
INVARIANTS
    EveryChildSignalled
