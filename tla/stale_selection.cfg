\* After this page's own refresh, the selected row is an outdated copy.
CONSTANTS
    r1 = r1
    r2 = r2
    Requests <- MCRequests
    MaxInflight = 1
    MayFail = FALSE
    MayOthers = FALSE
SPECIFICATION Spec
CHECK_DEADLOCK FALSE
PROPERTY
    ClickTargetsCurrentRecord
