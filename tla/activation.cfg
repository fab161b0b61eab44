\* Checkout, initial activation and renewal with every call succeeding.
CONSTANTS
    MaxCand = 3
    MaxVVK = 2
    Retries = 10
    MayFail = FALSE
    MayAbandon = FALSE
    MayNon303 = FALSE
    IdpExists = TRUE
    MaxCheckouts = 1
    AuthRace = FALSE
    MayManage = TRUE
SPECIFICATION Spec
INVARIANTS
    TypeOK
    ActivePairConsistent
    CommittedVVKPersisted
    SingleVVK
    RenewalRegistered
    IdpSignedWithActiveKey
    PromotionSound
    PaidLicenseKept
PROPERTIES
    LoadingEventuallyClears
