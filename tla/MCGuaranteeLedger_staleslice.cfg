SPECIFICATION Spec
CONSTANTS
    Effect = {"e1", "e2"}
    Contract = {"c1", "c2"}
    Absent = "none"
    Revision = {"plain", "moved"}
    IR <- MCIR
    Verdict <- MCVerdict
    Policy = {"full"}
    Runtime = {"image"}
    NoRuntime = "unset"
    NoPrior = NoPrior
    Job = {"j1"}
    MaxAge = 1
    MaxClock = 2
    Manifest <- MCManifest
    MaxEntries = 0
INVARIANTS
    ReusedMatchesFresh
CHECK_DEADLOCK FALSE
