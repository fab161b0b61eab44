\* Two handlers created in the same render bump the key to the same value.
CONSTANTS
    r1 = r1
    r2 = r2
    Requests <- MCRequests
    MaxInflight = 2
    MayFail = FALSE
    MayOthers = FALSE
SPECIFICATION Spec
CHECK_DEADLOCK FALSE
PROPERTY
    StaleTableEventuallyReloaded
