SPECIFICATION Spec
CONSTANTS
    Obligation = {"pr"}
    Changes = {{"pr"}}
    Backend <- MCBackend
    KindOf <- MCKindOf
    GuaranteeOf <- MCGuaranteeOf
    Acceptable <- MCAcceptable
    Covered = {"pr"}
    SelfProtection = {"pr"}
    Environment = {"env1"}
    Policies <- LeanPolicy
    PoolSize = 1
    MaxRuns = 1
INVARIANT
    UntrustedNeverAllows
CHECK_DEADLOCK FALSE
