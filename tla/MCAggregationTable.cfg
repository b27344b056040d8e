SPECIFICATION TableSpec
CONSTANTS
    Backend <- MCBackend
    KindOf <- MCKindOf
    GuaranteeOf <- MCGuaranteeOf
    Selections <- MCSelections
    Fallbacks <- MCFallbacks
INVARIANTS
    AllowIsSupported
    OptionalNeverHelps
CHECK_DEADLOCK FALSE
