SPECIFICATION Spec
CONSTANTS
    Handlers <- BorrowedHandlers
    Lines = 60
    Size = 5
INVARIANT
    PassIsAuthorized
CHECK_DEADLOCK FALSE
