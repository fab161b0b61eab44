\* Every call succeeds; the signing flow may submit before the forEach's proof arrives.
CONSTANTS
    MaxCand = 3
    MaxVVK = 2
    Retries = 10
    MayFail = FALSE
    MayAbandon = FALSE
    MayNon303 = FALSE
    IdpExists = TRUE
    MaxCheckouts = 1
    AuthRace = TRUE
    MayManage = FALSE
SPECIFICATION Spec
INVARIANT
    AuthorizedBeforeSubmit
