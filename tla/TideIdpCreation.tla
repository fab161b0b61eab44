-------------------------- MODULE TideIdpCreation --------------------------
(***************************************************************************)
(* Creating the "tide" identity provider (AddIdentityProvider.tsx): on     *)
(* opening the page an effect sets the image URLs, looks up the            *)
(* tide-vendor-key component and, if there is one, has resignSettings      *)
(* (SignSettingsUtil.tsx) sign the settings with the vendor key; then it   *)
(* creates the IdP from the form, signatures or not.  Meanwhile the        *)
(* licensing tab may rotate the component's key (confirmVrk) and re-sign   *)
(* an existing tide IdP.                                                   *)
(***************************************************************************)
EXTENDS Naturals, Sequences

CONSTANTS
    MayFail,    \* calls to the server, the key nodes and the signing flow fail
    MayRotate   \* the licensing tab rotates the vendor key meanwhile

ASSUME {MayFail, MayRotate} \subseteq BOOLEAN

\* Rotating keys, and the empty gVRK of an unlicensed component.
Keys  == {"k1", "k2"}
NoKey == "none"

\* The tide-vendor-key component: absent, unlicensed (no gVRK, no vvkId)
\* or holding a rotating key with its committed verifying key.
Absent == [exists |-> FALSE, gVRK |-> NoKey]
Components == {Absent, [exists |-> TRUE, gVRK |-> NoKey],
               [exists |-> TRUE, gVRK |-> "k1"]}

\* The IdP not created yet.
NoIdp == [created |-> FALSE, sigs |-> NoKey]

VARIABLES
    pc,         \* where the effect's handleSubmit is suspended
    comp,       \* the stored tide-vendor-key component
    formSigs,   \* the key the form's loginURLSig..gVRKSig are over
    idp,        \* the created IdP and the key its signatures are over
    authEvents, \* triggerAuthorizeEvent calls recorded (TRUE: error)
    readKey,    \* the gVRK resignSettings read from the component
    rot         \* the licensing tab: "idle", "resign" after confirmVrk, "done"

vars == <<pc, comp, formSigs, idp, authEvents, readKey, rot>>

PCs == {"find", "rsFind", "rsKeyInfo", "rsSignMsg", "rsSign", "rsOkEvt",
        "rsUndef", "rsErrEvt", "submit", "done", "rejected"}

TypeOK ==
    /\ pc \in PCs /\ comp \in Components \cup {[exists |-> TRUE, gVRK |-> "k2"]}
    /\ formSigs \in Keys \cup {NoKey}
    /\ idp \in {NoIdp} \cup [created: {TRUE}, sigs: Keys \cup {NoKey}]
    /\ authEvents \in Seq(BOOLEAN)
    /\ readKey \in Keys \cup {NoKey}
    /\ rot \in {"idle", "resign", "done"}

Init ==
    /\ pc = "find" /\ comp \in Components /\ formSigs = NoKey /\ idp = NoIdp
    /\ authEvents = <<>> /\ readKey = NoKey
    /\ rot = "idle"

Outcomes == IF MayFail THEN BOOLEAN ELSE {TRUE}

\* A call inside doStuff threw: the catch calls addError, and handleSubmit
\* goes on to onSubmit.
Caught == pc' = "submit"

Frame(v) == UNCHANGED <<comp, rot, readKey>> /\ UNCHANGED v

\* setValue of the image URLs, then findTideComponent (components.find).
\* Its rejection escapes doStuff and handleSubmit: nothing is created and
\* nothing is shown.
FindTideComponent ==
    /\ pc = "find"
    /\ \E ok \in Outcomes :
         pc' = CASE ~ok -> "rejected" [] comp.exists -> "rsFind" [] OTHER -> "submit"
    /\ Frame(<<formSigs, idp, authEvents>>)

\* resignSettings: components.find again (throws "No Tide EDDSA Keys"
\* when absent), then Point.decompress of the stored gVRK (throws on an
\* empty key).
RsFind ==
    /\ pc = "rsFind"
    /\ \E ok \in Outcomes :
         IF ok /\ comp.exists /\ comp.gVRK # NoKey
         THEN pc' = "rsKeyInfo" ELSE Caught
    /\ readKey' = comp.gVRK
    /\ UNCHANGED <<comp, rot, formSigs, idp, authEvents>>

\* GetKeyInfo(vvkId) on the home ORK; then signMessage authorizes the
\* draft.
RsCall(at, next) ==
    /\ pc = at
    /\ \E ok \in Outcomes : IF ok THEN pc' = next ELSE Caught
    /\ Frame(<<formSigs, idp, authEvents>>)

\* signFlow.start over the draft, which holds readKey: it resolves to the
\* signatures, to undefined, or rejects.
RsSign ==
    /\ pc = "rsSign"
    /\ \/ pc' = "rsOkEvt"
       \/ MayFail /\ pc' \in {"rsUndef", "rsErrEvt"}
    /\ Frame(<<formSigs, idp, authEvents>>)

\* The signatures in the order of the draft: one per URL, then the
\* settings and the gVRK.  The flow is not in this repository.
FlowSignatures(urls) == urls \o <<"settings", "gVRK">>

\* Mutant: the page origin pushed last instead of unshifted.
DraftUrls_originPushed == Append(Append(Append(<<>>, "login"), "link"), "origin")

\* urls: push the login and link endpoints, then unshift the page origin.
DraftUrls == <<"origin">> \o Append(Append(<<>>, "login"), "link")

\* The form fields doStuff fills from sigs (JavaScript indexes from 0).
SigFields(sigs) ==
    [loginURLSig |-> sigs[2], linkTideURLSig |-> sigs[3],
     settingsSig |-> sigs[Len(sigs) - 1], gVRKSig |-> sigs[Len(sigs)]]

\* triggerAuthorizeEvent({error: false}) after the flow; resignSettings
\* returns sigs and doStuff puts them in the form.  If the event fails,
\* the catch sends the error event instead.
RsOkEvt ==
    /\ pc = "rsOkEvt"
    /\ \E ok \in Outcomes :
         IF ok THEN /\ authEvents' = Append(authEvents, FALSE)
                    /\ formSigs' = readKey /\ pc' = "submit"
               ELSE pc' = "rsErrEvt" /\ UNCHANGED <<authEvents, formSigs>>
    /\ UNCHANGED <<comp, rot, readKey, idp>>

\* sigs === undefined: the success event is sent, doStuff alerts "Signing
\* settings failed" and returns, and handleSubmit goes on to onSubmit.
RsUndef ==
    /\ pc = "rsUndef"
    /\ \E ok \in Outcomes :
         IF ok THEN authEvents' = Append(authEvents, FALSE) /\ Caught
               ELSE pc' = "rsErrEvt" /\ UNCHANGED authEvents
    /\ Frame(<<formSigs, idp>>)

\* The catch: triggerAuthorizeEvent({error: true}), then rethrow (its own
\* failure is thrown instead); doStuff's catch calls addError.
RsErrEvt ==
    /\ pc = "rsErrEvt"
    /\ \E ok \in Outcomes :
         authEvents' = IF ok THEN Append(authEvents, TRUE) ELSE authEvents
    /\ Caught
    /\ Frame(<<formSigs, idp>>)

\* onSubmit(form.getValues()): identityProviders.create with the form's
\* signatures, whatever doStuff left there; navigate, or addError.
OnSubmit ==
    /\ pc = "submit" /\ pc' = "done"
    /\ \E ok \in Outcomes :
         idp' = IF ok THEN [created |-> TRUE, sigs |-> formSigs] ELSE idp
    /\ Frame(<<formSigs, authEvents>>)

\* The licensing tab's confirmVrk replaces the component's gVRK ...
RotateKey ==
    /\ MayRotate /\ rot = "idle" /\ comp.gVRK = "k1"
    /\ comp' = [comp EXCEPT !.gVRK = "k2"] /\ rot' = "resign"
    /\ UNCHANGED <<pc, formSigs, idp, authEvents, readKey>>

\* Mutant: the IdP is re-signed without checking that findOne found one.
ActivationResignIdp_noGuard ==
    /\ rot = "resign" /\ rot' = "done"
    /\ idp' = [idp EXCEPT !.sigs = comp.gVRK]
    /\ UNCHANGED <<pc, comp, formSigs, authEvents, readKey>>

\* ... and later re-signs the tide IdP if identityProviders.findOne finds
\* one.
ActivationResignIdp ==
    /\ rot = "resign" /\ rot' = "done"
    /\ idp' = IF idp.created THEN [idp EXCEPT !.sigs = comp.gVRK] ELSE idp
    /\ UNCHANGED <<pc, comp, formSigs, authEvents, readKey>>

Handler ==
    \/ FindTideComponent \/ RsFind \/ RsCall("rsKeyInfo", "rsSignMsg")
    \/ RsCall("rsSignMsg", "rsSign") \/ RsSign \/ RsOkEvt \/ RsUndef
    \/ RsErrEvt \/ OnSubmit

Next == Handler \/ RotateKey \/ ActivationResignIdp

\* Every awaited call settles, so the handler and the licensing tab's
\* activation run on; the page stops at "done" or "rejected".
Spec == Init /\ [][Next]_vars /\ WF_vars(Handler) /\ WF_vars(ActivationResignIdp)

(***************************************************************************)
(* Properties.                                                             *)
(***************************************************************************)

\* Once doStuff has put signatures in the form, each field holds its
\* item's: with the draft's URL order, sigs[1] signs the login endpoint,
\* sigs[2] the link endpoint, and the last two the settings and the gVRK.
SignatureIndexContract ==
    formSigs # NoKey =>
      SigFields(FlowSignatures(DraftUrls)) =
          [loginURLSig |-> "login", linkTideURLSig |-> "link",
           settingsSig |-> "settings", gVRKSig |-> "gVRK"]

\* Where the realm holds a licensed vendor key, the tide IdP is never
\* created without the settings signatures (spec: partial or failed
\* signing must not reach persisted IdP configuration).
CreatedIdpSigned ==
    (idp.created /\ comp.gVRK # NoKey) => idp.sigs # NoKey

\* Once the page and the licensing tab are done, a signed tide IdP is
\* signed with the component's current gVRK.
IdpSignedWithCurrentKey ==
    (pc = "done" /\ rot # "resign" /\ idp.sigs # NoKey) => idp.sigs = comp.gVRK

====
