\* The user may start a second checkout while a candidate is pending.
CONSTANTS
    MaxCand = 3
    MaxVVK = 2
    Retries = 10
    MayFail = FALSE
    MayAbandon = FALSE
    MayNon303 = FALSE
    IdpExists = TRUE
    MaxCheckouts = 2
    AuthRace = TRUE
    MayManage = FALSE
SPECIFICATION Spec
INVARIANT
    PromotionSound
