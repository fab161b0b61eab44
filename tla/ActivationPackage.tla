------------------------- MODULE ActivationPackage -------------------------
(***************************************************************************)
(* saveActivationPackage and validateActivationPackage                     *)
(* (TideLicensingTab.tsx): the activation package the payer returns from   *)
(* CreateCheckoutSession is checked for its required fields and against    *)
(* the form's pending candidate before it is copied into the form.         *)
(*                                                                         *)
(* A JavaScript value is one of a few names: "undefined", "null", the      *)
(* empty string, the number 0, or a non-empty string or number standing    *)
(* for itself ("k1", "k2", "s", "n5").  A form field holds an array, as    *)
(* reset(updatedProvider) and setValue(name, [v]) leave it.                *)
(***************************************************************************)
EXTENDS Sequences

\* The values falsy in JavaScript, among those modelled.
Falsy == {"undefined", "null", "emptyString", "number0"}

\* The package's fields and the values each may take in a JSON body.
Keys    == {"undefined", "null", "emptyString", "k1", "k2"}
Counts  == {"undefined", "number0", "n5"}
Strings == {"undefined", "s"}
Packages == [gVRK: Keys, licenseId: Keys, maxUserAcc: Counts,
             payerPublic: Strings, sessionId: Strings, customerId: Strings]
Required == {"gVRK", "payerPublic", "licenseId", "maxUserAcc", "sessionId",
             "customerId"}

\* config.tempgVRK / config.tempVendorId: absent ([]) or a one-element array.
FormValues == {<<>>} \cup {<<v>> : v \in {"emptyString", "k1", "k2"}}

\* getSingleValue: the first element of an array.
GetSingleValue(x) == IF x = <<>> THEN "undefined" ELSE x[1]

\* hasValue: neither undefined, null nor "".
HasValue(v) == v \notin {"undefined", "null", "emptyString"}

\* validateActivationPackage: throws unless every required field is
\* truthy and the package's gVRK and licenseId equal the pending tempgVRK
\* and tempVendorId wherever those have a value.
ValidateActivationPackage(p, formTempgVRK, formTempVendorId) ==
    LET tempgVRK     == GetSingleValue(formTempgVRK)
        tempVendorId == GetSingleValue(formTempVendorId)
    IN /\ \A f \in Required : p[f] \notin Falsy
       /\ ~ \/ HasValue(tempgVRK) /\ p.gVRK # tempgVRK
            \/ HasValue(tempVendorId) /\ p.licenseId # tempVendorId

VARIABLES
    pkg,            \* the parsed body.activationPackage
    formTempgVRK,   \* the form's config.tempgVRK
    formTempVendorId,
    verdict         \* "pending", "accepted" (fields copied) or "rejected"

vars == <<pkg, formTempgVRK, formTempVendorId, verdict>>

Init ==
    /\ pkg \in Packages /\ formTempgVRK \in FormValues
    /\ formTempVendorId \in FormValues /\ verdict = "pending"

\* saveActivationPackage: validate, then setValue of initialSessionId,
\* customerId, payerPublic and maxUserAcc (accepted), or throw into
\* handleCheckout's catch (rejected).
SaveActivationPackage ==
    /\ verdict = "pending"
    /\ verdict' = IF ValidateActivationPackage(pkg, formTempgVRK, formTempVendorId)
                  THEN "accepted" ELSE "rejected"
    /\ UNCHANGED <<pkg, formTempgVRK, formTempVendorId>>

Spec == Init /\ [][SaveActivationPackage]_vars

(***************************************************************************)
(* The contract of spec section 8, as a reference definition.              *)
(***************************************************************************)

\* A field is present unless it is undefined, null or empty.
Present(v) == v \notin {"undefined", "null", "emptyString"}

\* validateActivationPackage accepts P iff every required field is
\* present and, where a pending key or vendor id exists, P's equals it.
ContractAccepts(p, pendingKey, pendingVendorId) ==
    /\ \A f \in Required : Present(p[f])
    /\ pendingKey # "undefined" /\ pendingKey # "emptyString" => p.gVRK = pendingKey
    /\ pendingVendorId # "undefined" /\ pendingVendorId # "emptyString"
         => p.licenseId = pendingVendorId

\* saveActivationPackage accepts exactly the packages the contract accepts
\* for the form's pending candidate.
ValidationMatchesContract ==
    verdict # "pending" =>
      ((verdict = "accepted")
         = ContractAccepts(pkg, GetSingleValue(formTempgVRK),
                           GetSingleValue(formTempVendorId)))

====
