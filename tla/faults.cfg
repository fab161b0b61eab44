\* Every call may fail, the page may be left at any await, checkout may answer non-303.
CONSTANTS
    MaxCand = 4
    MaxVVK = 3
    Retries = 10
    MayFail = TRUE
    MayAbandon = TRUE
    MayNon303 = TRUE
    IdpExists = TRUE
    MaxCheckouts = 1
    AuthRace = TRUE
    MayManage = FALSE
SPECIFICATION Spec
PROPERTIES
    LicenseLifecycleRefined
    CommitAfterAllSigned
    ActivationTerminates
INVARIANTS
    PromotionSound
    OrphanShardNeverAdopted
