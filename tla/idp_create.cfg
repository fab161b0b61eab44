\* Opening the tide IdP page under failing calls and a concurrent rotation.
SPECIFICATION Spec
CONSTANTS
    MayFail = TRUE
    MayRotate = TRUE
INVARIANTS TypeOK SignatureIndexContract
\* The page stops once the IdP is created or the handler rejected.
CHECK_DEADLOCK FALSE
