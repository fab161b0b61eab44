------------------------ MODULE ChangeRequestButtons ------------------------
(***************************************************************************)
(* The approve/commit toolbar of the role change-request list              *)
(* (RolesChangeRequestsList.tsx): the table loads the requests, the admin  *)
(* selects a row, an effect on [selectedRow] enables "Approve Draft" or    *)
(* "Commit Draft", and a click sends the selected request to the server    *)
(* and refreshes the table by bumping its React key.                       *)
(*                                                                         *)
(* A request's record is its status and deleteStatus.  The server's        *)
(* treatment of approve and commit is not in this repository: approving a *)
(* draft moves it towards APPROVED (PENDING while more approvals are       *)
(* needed), committing an approved request removes it from the list, and  *)
(* any other call is rejected.                                             *)
(***************************************************************************)
EXTENDS Naturals, FiniteSets

CONSTANTS
    Requests,     \* the change requests (model values)
    MaxInflight,  \* bound on click handlers awaiting the server at once
    MayFail,      \* calls to the server may fail
    MayOthers     \* other administrators approve and commit meanwhile

ASSUME MaxInflight \in Nat \ {0} /\ {MayFail, MayOthers} \subseteq BOOLEAN

\* status and deleteStatus of a listed request; "null" is JavaScript null.
Rec == [status: {"DRAFT", "PENDING", "APPROVED", "ACTIVE"},
        deleteStatus: {"null", "DRAFT", "PENDING", "APPROVED"}]

\* A request committed away on the server, and an empty table slot.
Done == [status |-> "done", deleteStatus |-> "null"]
None == [status |-> "none", deleteStatus |-> "null"]

VARIABLES
    server,          \* the server's change requests
    rows,            \* the table's rows: the loader's result
    loadDue,         \* the table is (re)mounted and its loader pending
    key,             \* the table's React key
    selectedRow,     \* the selected row object, as the table passed it
    effectDue,       \* selectedRow changed: the effect is pending
    approveRecord, commitRecord,
    inflight,        \* click handlers awaiting the server
    stale            \* one of this page's calls changed the server since
                     \* the table last loaded

vars == <<server, rows, loadDue, key, selectedRow, effectDue, approveRecord,
          commitRecord, inflight, stale>>

\* Largest key: one bump per successful call, and a request changes at
\* most three times.
MaxKey == 3 * Cardinality(Requests)

Call == [kind: {"approve", "commit"}, req: Requests, key: 0..MaxKey]

TypeOK ==
    /\ server \in [Requests -> Rec \cup {Done}]
    /\ rows \in [Requests -> Rec \cup {None}]
    /\ loadDue \in BOOLEAN /\ key \in 0..MaxKey
    /\ selectedRow \in [req: Requests, rec: Rec] \cup {None}
    /\ {effectDue, approveRecord, commitRecord, stale} \subseteq BOOLEAN
    /\ inflight \subseteq Call /\ Cardinality(inflight) <= MaxInflight

\* The first branch of the selection effect.
Approvable(r) ==
    \/ r.status \in {"DRAFT", "PENDING"}
    \/ r.status = "ACTIVE" /\ r.deleteStatus \notin {"null", "APPROVED"}

\* The second branch.
Committable(r) == r.status = "APPROVED" \/ r.deleteStatus = "APPROVED"

\* approveDraftChangeSet on the server: the records an approval may lead
\* to (empty: rejected).
ApproveResult(r) ==
    CASE r.status = "DRAFT" -> {[r EXCEPT !.status = s] : s \in {"PENDING", "APPROVED"}}
      [] r.status = "PENDING" -> {[r EXCEPT !.status = "APPROVED"]}
      [] r.status = "ACTIVE" /\ r.deleteStatus = "DRAFT" ->
            {[r EXCEPT !.deleteStatus = s] : s \in {"PENDING", "APPROVED"}}
      [] r.status = "ACTIVE" /\ r.deleteStatus = "PENDING" ->
            {[r EXCEPT !.deleteStatus = "APPROVED"]}
      [] OTHER -> {}

\* commitDraftChangeSet on the server.
CommitResult(r) == IF r # Done /\ Committable(r) THEN {Done} ELSE {}

\* The requests a record may start in: drafts, and delete drafts on an
\* active role (ACTIVE with no delete request reaches the effect's else).
InitRecs == {[status |-> "DRAFT", deleteStatus |-> "null"],
             [status |-> "APPROVED", deleteStatus |-> "null"],
             [status |-> "ACTIVE", deleteStatus |-> "DRAFT"],
             [status |-> "ACTIVE", deleteStatus |-> "null"]}

Init ==
    /\ server \in [Requests -> InitRecs]
    /\ rows = [r \in Requests |-> None] /\ loadDue = TRUE /\ key = 0
    /\ selectedRow = None /\ effectDue = FALSE
    /\ approveRecord = FALSE /\ commitRecord = FALSE
    /\ inflight = {} /\ stale = FALSE

\* Mutant: the loader's catch returns the error object as its rows.
Loader_returnsError(ok) == IF ok THEN [r \in Requests |-> IF server[r] = Done
                                                        THEN None ELSE server[r]]
                                 ELSE [r \in Requests |-> [message |-> "error"]]

\* loader: getRequestedChangesForRoles, or [] when it fails.
Loader(ok) == IF ok THEN [r \in Requests |-> IF server[r] = Done THEN None
                                               ELSE server[r]]
                    ELSE [r \in Requests |-> None]

\* The (re)mounted table runs its loader.
LoadTable ==
    /\ loadDue
    /\ \E ok \in IF MayFail THEN BOOLEAN ELSE {TRUE} : rows' = Loader(ok)
    /\ loadDue' = FALSE /\ stale' = FALSE
    /\ UNCHANGED <<server, key, selectedRow, effectDue, approveRecord,
                   commitRecord, inflight>>

\* onSelect: setSelectedRow([...value]) with the clicked row object.
Select(q) ==
    /\ ~loadDue /\ rows[q] # None
    /\ selectedRow' = [req |-> q, rec |-> rows[q]] /\ effectDue' = TRUE
    /\ UNCHANGED <<server, rows, loadDue, key, approveRecord, commitRecord,
                   inflight, stale>>

\* Mutant: the else branch forgets to disable "Approve Draft".
SelectionEffect_elseKeepsApprove ==
    /\ effectDue /\ effectDue' = FALSE
    /\ LET r == selectedRow.rec IN
       IF Approvable(r) THEN approveRecord' = TRUE /\ UNCHANGED commitRecord
       ELSE IF Committable(r) THEN commitRecord' = TRUE /\ approveRecord' = FALSE
       ELSE commitRecord' = FALSE /\ UNCHANGED approveRecord
    /\ UNCHANGED <<server, rows, loadDue, key, selectedRow, inflight, stale>>

\* The effect on [selectedRow].
SelectionEffect ==
    /\ effectDue /\ effectDue' = FALSE
    /\ LET r == selectedRow.rec IN
       IF Approvable(r) THEN approveRecord' = TRUE /\ UNCHANGED commitRecord
       ELSE IF Committable(r) THEN commitRecord' = TRUE /\ approveRecord' = FALSE
       ELSE commitRecord' = FALSE /\ approveRecord' = FALSE
    /\ UNCHANGED <<server, rows, loadDue, key, selectedRow, inflight, stale>>

\* A click on an enabled button runs its handler with the selected row and
\* the refresh() of that render, which holds that render's key.
Click(kind) ==
    /\ ~loadDue /\ ~effectDue /\ selectedRow # None
    /\ IF kind = "approve" THEN approveRecord ELSE commitRecord
    /\ Cardinality(inflight) < MaxInflight
    /\ inflight' = inflight \cup {[kind |-> kind, req |-> selectedRow.req,
                                   key |-> key]}
    /\ UNCHANGED <<server, rows, loadDue, key, selectedRow, effectDue,
                   approveRecord, commitRecord, stale>>

\* The server answers a handler; on success the handler calls refresh(),
\* setKey(key + 1) with the key it was created with: the table remounts
\* only if that changes the key.  Errors are returned, not shown.
Answer(c) ==
    /\ c \in inflight
    /\ inflight' = inflight \ {c}
    /\ LET results == IF c.kind = "approve" THEN ApproveResult(server[c.req])
                                            ELSE CommitResult(server[c.req])
       IN \/ \E s \in results :
                /\ server' = [server EXCEPT ![c.req] = s]
                /\ key' = c.key + 1 /\ stale' = TRUE
                /\ loadDue' = (loadDue \/ key' # key)
          \/ /\ results = {} \/ MayFail
             /\ UNCHANGED <<server, key, stale, loadDue>>
    /\ UNCHANGED <<rows, selectedRow, effectDue, approveRecord, commitRecord>>

\* Another administrator approves or commits a request.
OtherAdmin ==
    /\ MayOthers
    /\ \E q \in Requests :
         \E s \in ApproveResult(server[q]) \cup CommitResult(server[q]) :
            server' = [server EXCEPT ![q] = s]
    /\ UNCHANGED <<rows, loadDue, key, selectedRow, effectDue, approveRecord,
                   commitRecord, inflight, stale>>

Next ==
    \/ LoadTable \/ SelectionEffect \/ \E c \in inflight : Answer(c)
    \/ \E q \in Requests : Select(q)
    \/ Click("approve") \/ Click("commit") \/ OtherAdmin

\* The server answers every call and React runs the effect and remounts
\* the table; the administrators are under no obligation.
Spec == Init /\ [][Next]_vars
        /\ WF_vars(LoadTable) /\ WF_vars(SelectionEffect)
        /\ WF_vars(\E c \in inflight : Answer(c))

(***************************************************************************)
(* Properties.                                                             *)
(***************************************************************************)

\* "Approve Draft" sends only a request the table showed as approvable.
ApproveSentOnlyForApprovable ==
    [][Click("approve") => Approvable(selectedRow.rec)]_vars

\* A click acts on the request as the server holds it now: the selected
\* row is not an outdated copy after this page's own refresh.
ClickTargetsCurrentRecord ==
    [][\A k \in {"approve", "commit"} :
         Click(k) => selectedRow.rec = server[selectedRow.req]]_vars

\* After this page's own approve or commit succeeds, the table is
\* eventually reloaded (refresh() bumps the table's key).
StaleTableEventuallyReloaded == stale ~> ~stale

====
