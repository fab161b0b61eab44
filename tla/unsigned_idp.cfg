SPECIFICATION Spec
CONSTANTS
    MayFail = TRUE
    MayRotate = FALSE
INVARIANT CreatedIdpSigned
CHECK_DEADLOCK FALSE
