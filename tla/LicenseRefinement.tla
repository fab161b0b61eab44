------------------------- MODULE LicenseRefinement -------------------------
(***************************************************************************)
(* TideLicensing implements LicenseLifecycle: the persisted record's       *)
(* vendorId, tempVendorId and vvkId, the candidates the backend issued,    *)
(* the payer's active licenses and the committed verifying keys move only  *)
(* as the abstract lifecycle allows, whatever fails or is abandoned.       *)
(***************************************************************************)
EXTENDS TideLicensing

Lifecycle == INSTANCE LicenseLifecycle
    WITH vendorId     <- store.vendorId,
         tempVendorId <- store.tempVendorId,
         vvkId        <- store.vvkId,
         issued       <- {c \in Cand : c < nextCand},
         paid         <- paid,
         committed    <- CommittedVVKs

\* Every step of the licensing tab, the backend, the payer and the key
\* nodes is a step of the license lifecycle or leaves the record's license
\* fields alone: no activation, checkout or save promotes an unpaid or
\* keyless candidate, rewrites the verifying-key id, or records a
\* candidate that was never issued.
LicenseLifecycleRefined == Lifecycle!Spec

====
