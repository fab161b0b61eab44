\* Selections, approvals, commits, failures and other administrators, one call at a time.
CONSTANTS
    r1 = r1
    r2 = r2
    Requests <- MCRequests
    MaxInflight = 1
    MayFail = TRUE
    MayOthers = TRUE
SPECIFICATION Spec
CHECK_DEADLOCK FALSE
INVARIANT
    TypeOK
PROPERTIES
    ApproveSentOnlyForApprovable
