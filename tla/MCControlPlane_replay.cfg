SPECIFICATION Spec
CONSTANTS
    Obligation = {"auth"}
    Changes = {{"auth"}}
    Backend <- MCBackend
    KindOf <- MCKindOf
    GuaranteeOf <- MCGuaranteeOf
    Acceptable <- MCAcceptable
    Covered = {"auth"}
    SelfProtection = {}
    Environment = {"env1", "env2"}
    Policies <- ReplayPolicies
    PoolSize = 1
    MaxRuns = 2
INVARIANTS
    ReplayIsGenuine
    RequiredFailureNeverAllowed
CHECK_DEADLOCK FALSE
