\* The page may be left between two awaits and activation resumed on reload.
CONSTANTS
    MaxCand = 3
    MaxVVK = 2
    Retries = 10
    MayFail = FALSE
    MayAbandon = TRUE
    MayNon303 = FALSE
    IdpExists = TRUE
    MaxCheckouts = 1
    AuthRace = TRUE
    MayManage = FALSE
SPECIFICATION Spec
INVARIANT
    SingleVVK
