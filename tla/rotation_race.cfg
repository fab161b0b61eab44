SPECIFICATION Spec
CONSTANTS
    MayFail = FALSE
    MayRotate = TRUE
INVARIANT IdpSignedWithCurrentKey
CHECK_DEADLOCK FALSE
