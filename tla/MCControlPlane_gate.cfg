SPECIFICATION FairSpec
CONSTANTS
    Obligation = {"pr", "auth", "raw"}
    Changes = {{"pr", "auth"}, {"auth", "raw"}, {}}
    Backend <- MCBackend
    KindOf <- MCKindOf
    GuaranteeOf <- MCGuaranteeOf
    Acceptable <- MCAcceptable
    Covered = {"pr", "auth"}
    SelfProtection = {"pr"}
    Environment = {"env1"}
    Policies <- GatePolicies
    PoolSize = 2
    MaxRuns = 1
INVARIANTS
    TypeOK
    AllowIsEarned
    FailureBlocks
    NotMorePermissive
PROPERTIES
    ImplementsMergeGate
    RunTerminates
CHECK_DEADLOCK FALSE
