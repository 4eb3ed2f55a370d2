SPECIFICATION Spec
CONSTANTS
    j1 = j1
    j2 = j2
    o = o
    o2 = o2
    o3 = o3
    o22 = o22
    o23 = o23
    Foreign = Foreign
    Job = {j1, j2}
    Path = {o, o2, o3, o22, o23}
    Candidates <- MCCandidates
    Desired <- MCDesired
    Empty = {}
    Operations <- MCMixed
    Policies = {"fail"}
    AllowChanged = FALSE
    Codes <- MCCodesKilled
    CallMayRaise = FALSE
    FinishMayRaise = FALSE
    MoveMayFail = FALSE
    ForeignKinds = {}
    MaxForeign = 0
INVARIANTS
    PublishedIsWhole
