-------------------------- MODULE LicenseLifecycle --------------------------
(***************************************************************************)
(* What the License State Controller promises of the persisted vendor-key  *)
(* record (spec section 4.1): a license goes NoLicense -> CheckoutPending  *)
(* -> ActivationPending -> Active, and renewals repeat the last two; an    *)
(* error leaves the record as it was.  The record's part of it is the      *)
(* active vendor id, the pending candidate and the verifying-key id; the   *)
(* backend issues candidates, the payer pays for them and the key nodes    *)
(* commit verifying keys, each on its own.                                 *)
(***************************************************************************)
CONSTANTS Cand, VVKIds, NoValue

VARIABLES
    vendorId,      \* the active vendor id
    tempVendorId,  \* the candidate awaiting its license
    vvkId,         \* the verifying key the record names
    issued,        \* candidates the backend has issued
    paid,          \* candidates whose license the payer reports active
    committed      \* verifying keys committed on the key nodes

vars == <<vendorId, tempVendorId, vvkId, issued, paid, committed>>

Init ==
    /\ vendorId = NoValue /\ tempVendorId = NoValue /\ vvkId = NoValue
    /\ issued = {} /\ paid = {} /\ committed = {}

\* The other parties.
Issue == \E c \in Cand \ issued : issued' = issued \cup {c}
           /\ UNCHANGED <<vendorId, tempVendorId, vvkId, paid, committed>>
Pay == \E c \in issued \ paid : paid' = paid \cup {c}
         /\ UNCHANGED <<vendorId, tempVendorId, vvkId, issued, committed>>
Commit == \E k \in VVKIds \ committed : committed' = committed \cup {k}
            /\ UNCHANGED <<vendorId, tempVendorId, vvkId, issued, paid>>

\* A checkout or a renewal records a fresh candidate as pending.
RecordCandidate ==
    /\ \E c \in issued \ paid : tempVendorId' = c
    /\ UNCHANGED <<vendorId, vvkId, issued, paid, committed>>

\* Activation: the paid pending candidate becomes the active vendor id
\* once a verifying key is committed, and the record names that key from
\* then on; the next candidate may be recorded in the same write.
Promote ==
    /\ tempVendorId \in paid /\ committed # {}
    /\ vendorId' = tempVendorId
    /\ tempVendorId' \in {NoValue} \cup (issued \ paid)
    /\ vvkId' \in IF vvkId = NoValue THEN committed ELSE {vvkId}
    /\ UNCHANGED <<issued, paid, committed>>

Next == Issue \/ Pay \/ Commit \/ RecordCandidate \/ Promote

Spec == Init /\ [][Next]_vars

====
