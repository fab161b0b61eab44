--------------------------- MODULE TideLicensing ---------------------------
(***************************************************************************)
(* The License State Controller of the Tide licensing tab                  *)
(* (TideLicensingTab.tsx): license checkout (handleCheckout), the          *)
(* activation effect (activateLicense) with its retry loop, the vendor     *)
(* sign-up that creates the vendor verifying key (submitVendorSignUp), and *)
(* the re-signing of the Tide identity provider, against the external      *)
(* parties it drives: the persisted key-provider record (store), the       *)
(* payer service and the key-node network.                                 *)
(*                                                                         *)
(* Data abstraction: a rotating key (VRK) candidate and the vendor id      *)
(* issued with it are both named by the candidate's number in Cand; a      *)
(* verifying key (VVK) id by a number in VVKIds; NoValue (0) is the empty  *)
(* string.  Each step below is the code between two awaits: JavaScript     *)
(* runs one such segment at a time, and the page may be left between any  *)
(* two of them.                                                            *)
(***************************************************************************)
EXTENDS Integers, Sequences, FiniteSets

CONSTANTS
    MaxCand,      \* bound on rotating-key candidates the backend issues
    MaxVVK,       \* bound on verifying-key ids RandomBigInt draws
    Retries,      \* attempts of retry() when resuming from the payer (10)
    MayFail,      \* backend, payer and key-node calls may fail
    MayAbandon,   \* the page may be reloaded or closed mid-operation
    MayNon303,    \* CreateCheckoutSession may answer other than 303
    IdpExists,    \* the realm has a "tide" identity provider
    MaxCheckouts, \* bound on the checkouts the user starts
    AuthRace,     \* a signing flow may submit before its proof is attached
    MayManage     \* the user may click "Manage Subscription"

ASSUME MaxCand \in Nat /\ MaxVVK \in Nat /\ Retries \in Nat \ {0}
ASSUME MaxCheckouts \in Nat
ASSUME {MayFail, MayAbandon, MayNon303, IdpExists, AuthRace, MayManage}
           \subseteq BOOLEAN

NoValue == 0

\* The sub-requests an initial setup authorizes and signs.
SubReqs == {"TidecloakInit", "AccessTokenInit"}
Cand    == 1..MaxCand
VVKIds  == 1..MaxVVK

\* The fields of the key-provider config this controller reads and writes;
\* pkg stands for initialSessionId, customerId, payerPublic and maxUserAcc,
\* which saveActivationPackage copies together from one activation package.
Config == [gVRK: {NoValue} \cup Cand, tempgVRK: {NoValue} \cup Cand,
           vendorId: {NoValue} \cup Cand, tempVendorId: {NoValue} \cup Cand,
           vvkId: {NoValue} \cup VVKIds, pkg: {NoValue} \cup Cand]

EmptyConfig == [gVRK |-> NoValue, tempgVRK |-> NoValue, vendorId |-> NoValue,
                tempVendorId |-> NoValue, vvkId |-> NoValue, pkg |-> NoValue]

\* Results a call to another party may have.
Outcomes == IF MayFail THEN BOOLEAN ELSE {TRUE}

VARIABLES
    store,            \* the persisted key-provider record (server side)
    form,             \* the react-hook-form copy of it on the page
    page,             \* "loaded", or "away" at the payer's checkout page
    hash,             \* the URL carries ?licensePending=true
    tideClient,       \* the payer NodeClient has been created
    clientInit,       \* initializeTideClient has run (resolved or rejected)
    effectDue,        \* a watched value changed: the activation effect re-runs
    isPendingResign, isLoading, isInitialCheckout,  \* React state
    act,              \* where activateLicense is suspended
    attempts,         \* attempts retry() has made
    useRetry,         \* activateLicense chose the 10-attempt retry
    vid,              \* watchConfigTempVendorId captured by the effect
    isInitial,        \* submitVendorSignUp's isInitialSetup
    vvkLocal,         \* submitVendorSignUp's VVKid
    newTemp,          \* generateNewVrk's result (vendor id of the candidate)
    tempVid,          \* activateLicense's tempVendorId, read before promotion
    effIC,            \* isInitialCheckout as the effect's closure saw it
    co,               \* where handleCheckout is suspended
    coCand,           \* handleCheckout's vendorData (its candidate)
    coClient,         \* the tideClient of the render handleCheckout ran in
    checkouts,        \* checkouts the user has started
    nextCand,         \* the next candidate the backend will issue
    vvkState,         \* key-node network: state of each verifying key
    paid,             \* payer: vendor ids whose license IsLicenseActive
    redirected,       \* payer: candidates a checkout session was paid from
    renewals,         \* payer: <<vendorId, next vendorId>> UpdateSubscription
    idpSig,           \* the candidate the tide IdP's gVRKSig signs
    task,             \* each sub-request's async arrow in requestArray.map
    flow,             \* each sub-request's dVVKSigningFlow.start
    auth,             \* each sub-request's proof from the forEach's signMessage
    ms,               \* where handleManageSubscription is suspended
    msVid,            \* the watchConfigVendorId its click captured
    posts             \* customer-portal form posts made: vendor id, host

page_vars  == <<page, hash, tideClient, clientInit, effectDue, isPendingResign,
                isLoading, isInitialCheckout>>
act_vars   == <<act, attempts, useRetry, vid, isInitial, vvkLocal, newTemp,
                tempVid, effIC>>
env_vars   == <<nextCand, vvkState, paid, redirected, renewals>>
sub_vars   == <<task, flow, auth>>
ms_vars    == <<ms, msVid, posts>>
vars == <<store, form, page_vars, act_vars, co, coCand, coClient, checkouts, env_vars,
         idpSig, sub_vars, ms_vars>>

TypeOK ==
    /\ store \in Config /\ form \in Config
    /\ page \in {"loaded", "away"}
    /\ {hash, tideClient, clientInit, effIC, coClient, effectDue, isPendingResign, isLoading,
        isInitialCheckout, useRetry, isInitial} \subseteq BOOLEAN
    /\ act \in {"idle", "check", "renewedEvt", "prepare", "genShard",
                "signSubRequests", "commit", "signUpCatch", "promote",
                "confirm", "refresh1", "genVrk", "save2", "updateSub",
                "refresh2", "resign", "catch"}
    /\ attempts \in 0..Retries
    /\ vid \in {NoValue} \cup Cand /\ newTemp \in {NoValue} \cup Cand
    /\ tempVid \in {NoValue} \cup Cand
    /\ vvkLocal \in {NoValue} \cup VVKIds
    /\ co \in {"idle", "gen", "session", "save", "catch"}
    /\ coCand \in {NoValue} \cup Cand /\ checkouts \in 0..MaxCheckouts
    /\ nextCand \in 1..(MaxCand + 1)
    /\ vvkState \in [VVKIds -> {"none", "generated", "committed"}]
    /\ paid \subseteq Cand /\ redirected \subseteq Cand
    /\ renewals \subseteq (Cand \X Cand)
    /\ idpSig \in {NoValue} \cup Cand
    /\ task \in [SubReqs -> {"none", "events", "adopt", "catch", "resolved",
                             "rejected"}]
    /\ flow \in [SubReqs -> {"none", "running", "ok", "fail"}]
    /\ auth \in [SubReqs -> {"none", "pending", "added", "failed"}]
    /\ ms \in {"idle", "auth"} /\ msVid \in {NoValue} \cup Cand
    /\ posts \subseteq [vendorId: {NoValue} \cup Cand, payer: BOOLEAN]

\* A fresh provider record, the page loaded on it, nothing issued yet.
Init ==
    /\ store = EmptyConfig /\ form = EmptyConfig
    /\ page = "loaded" /\ hash = FALSE /\ tideClient = FALSE /\ clientInit = FALSE
    /\ effectDue = FALSE /\ isPendingResign = FALSE /\ isLoading = FALSE
    /\ isInitialCheckout = FALSE
    /\ act = "idle" /\ attempts = 0 /\ useRetry = FALSE /\ vid = NoValue
    /\ isInitial = FALSE /\ vvkLocal = NoValue /\ newTemp = NoValue
    /\ tempVid = NoValue /\ effIC = FALSE
    /\ co = "idle" /\ coCand = NoValue /\ coClient = FALSE /\ checkouts = 0
    /\ nextCand = 1 /\ vvkState = [i \in VVKIds |-> "none"]
    /\ paid = {} /\ redirected = {} /\ renewals = {}
    /\ idpSig = NoValue
    /\ task = [r \in SubReqs |-> "none"] /\ flow = [r \in SubReqs |-> "none"]
    /\ auth = [r \in SubReqs |-> "none"]
    /\ ms = "idle" /\ msVid = NoValue /\ posts = {}

(***************************************************************************)
(* Helpers shared by the handlers.                                         *)
(***************************************************************************)

\* setValue/reset on the form: the activation effect watches
\* config.tempVendorId, so changing it schedules the effect.
SetForm(f) ==
    /\ form' = f
    /\ effectDue' = (f.tempVendorId # form.tempVendorId)

\* A JavaScript continuation runs only after React has flushed the effects
\* of the previous one (a network reply is a later macrotask).
Resumable == page = "loaded" /\ ~effectDue

\* No handler is suspended: the record is at rest.
AtRest == act = "idle" /\ co = "idle"

\* The first verifying-key id not used on the network (RandomBigInt).
FreshVVK == CHOOSE i \in VVKIds : vvkState[i] = "none"

\* Results of save(): the record is written; components.update failed, which
\* save() catches and only alerts; or findOne failed and save() throws.
SaveResults == IF MayFail THEN {"ok", "updateFail", "fetchFail"} ELSE {"ok"}

\* save(): the whole form config is written over the fetched record.
SaveForm(f, r) == store' = IF r = "ok" THEN f ELSE store

\* How far generateNewVrk got: 0 generateVrk failed, 1 it issued a
\* candidate but findOne failed, 2 generateVendorId failed after the form
\* was reset, 3 it returned {GVRK, VendorId}.
GenVrkStages == IF MayFail THEN 0..3 ELSE {3}

\* generateNewVrk: the backend issues the next candidate into tempgVRK, the
\* form is reset to the record, and the vendor id issued for the candidate
\* is put into the form's tempVendorId.
GenerateNewVrk(stage) ==
    /\ nextCand <= MaxCand
    /\ LET s == IF stage >= 1 THEN [store EXCEPT !.tempgVRK = nextCand]
                              ELSE store
       IN /\ store' = s
          /\ nextCand' = IF stage >= 1 THEN nextCand + 1 ELSE nextCand
          /\ SetForm(CASE stage <= 1 -> form
                       [] stage = 2  -> s
                       [] OTHER      -> [s EXCEPT !.tempVendorId = s.tempgVRK])

(***************************************************************************)
(* Page life cycle, the activation effect, and the payer.                  *)
(***************************************************************************)

\* The page is (re)loaded: on return from the payer, by the user, or, when
\* MayAbandon, in the middle of an operation, which drops it.  useFetch
\* resets the form to the record; all React state starts afresh.
Reload ==
    /\ \/ page = "away"
       \/ page = "loaded" /\ (AtRest \/ MayAbandon)
    /\ \E h \in IF page = "away" THEN BOOLEAN ELSE {hash} :
         hash' = h
    /\ page' = "loaded" /\ form' = store
    /\ tideClient' = FALSE /\ clientInit' = FALSE /\ effectDue' = FALSE
    /\ isPendingResign' = FALSE /\ isLoading' = FALSE
    /\ isInitialCheckout' = FALSE
    /\ act' = "idle" /\ attempts' = 0 /\ useRetry' = FALSE /\ vid' = NoValue
    /\ isInitial' = FALSE /\ vvkLocal' = NoValue /\ newTemp' = NoValue
    /\ tempVid' = NoValue /\ effIC' = FALSE
    /\ co' = "idle" /\ coCand' = NoValue /\ coClient' = FALSE
    /\ task' = [r \in SubReqs |-> "none"] /\ flow' = [r \in SubReqs |-> "none"]
    /\ auth' = [r \in SubReqs |-> "none"]
    /\ ms' = "idle" /\ msVid' = NoValue
    /\ UNCHANGED <<checkouts, store, env_vars, idpSig, posts>>

\* initializeTideClient, run once on mount: getPayerUrl resolves and the
\* NodeClient is set, which re-runs the activation effect; its rejection
\* is not handled and leaves the page without a client until a reload.
InitTideClient ==
    /\ Resumable /\ ~clientInit
    /\ clientInit' = TRUE
    /\ \E ok \in Outcomes : tideClient' = ok /\ effectDue' = ok
    /\ UNCHANGED <<checkouts, store, form, page, hash, isPendingResign, isLoading,
                   isInitialCheckout, act_vars, co, coCand, coClient, env_vars,
                   idpSig, sub_vars>>

\* The effect on [watchConfigTempVendorId, tideClient]: with the in-flight
\* guard clear and a candidate vendor id present, it starts activateLicense,
\* which at once decides whether to retry (isLicensePending strips the
\* query from the hash).
ActivationEffect ==
    /\ page = "loaded" /\ effectDue
    /\ effectDue' = FALSE
    /\ IF ~isPendingResign /\ form.tempVendorId # NoValue /\ tideClient
       THEN /\ isPendingResign' = TRUE /\ isLoading' = TRUE
            /\ act' = "check" /\ attempts' = 0 /\ vid' = form.tempVendorId
            /\ useRetry' = (form.vvkId = NoValue /\ hash)
            /\ hash' = IF form.vvkId = NoValue THEN FALSE ELSE hash
            /\ effIC' = isInitialCheckout
            /\ UNCHANGED <<isInitial, vvkLocal, newTemp, tempVid>>
       ELSE UNCHANGED <<hash, isPendingResign, isLoading, act_vars>>
    /\ UNCHANGED <<checkouts, store, form, page, tideClient, clientInit, isInitialCheckout, co,
                   coCand, coClient, env_vars, idpSig, sub_vars>>

\* The payer activates a license: one the user checked out, or the
\* renewal registered by UpdateSubscription.  MaxCand bounds license cycles:
\* one is left for the candidate the activation will issue.
PayerActivate ==
    /\ nextCand <= MaxCand
    /\ \E k \in (redirected \cup {r[2] : r \in renewals}) \ paid :
         paid' = paid \cup {k}
    /\ UNCHANGED <<checkouts, store, form, page_vars, act_vars, co, coCand, coClient, nextCand,
                   vvkState, redirected, renewals, idpSig, sub_vars>>

(***************************************************************************)
(* activateLicense and the submitVendorSignUp it calls, one action per     *)
(* segment between awaits.  A throw goes to "catch" (activateLicense's     *)
(* catch) or "signUpCatch" (submitVendorSignUp's).                         *)
(***************************************************************************)

\* Frame for an activation step that touches none of the page state.
ActFrame == UNCHANGED <<checkouts, page, hash, tideClient, clientInit, isPendingResign, isLoading,
                        isInitialCheckout, co, coCand, coClient, sub_vars>>

\* Mutant: IsLicenseActive not awaited, so the Promise reads as true.
LicenseActive_notAwaited(ok) == TRUE

\* checkLicenseActive: IsLicenseActive for the vendor id; a failed call is
\* caught and reads as false.
LicenseActive(ok) == ok /\ vid \in paid

\* Mutant: retry()'s loop lost its bound and never throws.
RetryAttempt_unbounded(active, n) ==
    \/ active /\ act' = "renewedEvt"
    \/ ~active /\ UNCHANGED act

\* One iteration of retry(fn, Retries, delay): a positive answer returns,
\* a negative one is tried again after the delay, and after the last
\* attempt retry() throws.
RetryAttempt(active, n) ==
    \/ active /\ act' = "renewedEvt"
    \/ ~active /\ n < Retries /\ UNCHANGED act
    \/ ~active /\ n = Retries /\ act' = "catch"

\* activateLicense's first await: retry(checkLicenseActive) when resuming
\* from the payer, otherwise a single check; without an active license it
\* stops, clearing the spinner unless a checkout was under way when the
\* effect ran (isInitialCheckout is its closure's value).  The in-flight
\* guard stays set.
CheckLicenseActive ==
    /\ act = "check" /\ Resumable
    /\ \E ok \in Outcomes :
       LET active == LicenseActive(ok)
           n      == attempts + 1
       IN /\ attempts' = n
          /\ IF useRetry
             THEN RetryAttempt(active, n) /\ UNCHANGED isLoading
             ELSE IF active
             THEN act' = "renewedEvt" /\ UNCHANGED isLoading
             ELSE act' = "idle" /\ isLoading' = (isLoading /\ effIC)
    /\ UNCHANGED <<checkouts, store, form, page, hash, tideClient, clientInit, effectDue,
                   isPendingResign, isInitialCheckout, useRetry, vid,
                   isInitial, vvkLocal, newTemp, tempVid, effIC, co, coCand, coClient, env_vars,
                   idpSig, sub_vars>>

\* triggerLicenseRenewedEvent({error: false}), awaited twice in a row;
\* a failure of either throws.
TriggerLicenseRenewed ==
    /\ act = "renewedEvt" /\ Resumable
    /\ \E ok \in Outcomes : act' = IF ok THEN "prepare" ELSE "catch"
    /\ ActFrame
    /\ UNCHANGED <<store, form, effectDue, attempts, useRetry, vid, isInitial,
                   vvkLocal, newTemp, tempVid, effIC, env_vars, idpSig>>

\* Mutant: isInitialSetup's test never sees the stored vvkId.
IsInitialSetup_always(provider) == TRUE

\* isInitialSetup: the fetched record has no vvkId.
IsInitialSetup(provider) == provider.vvkId = NoValue

\* findOne, then submitVendorSignUp up to the key-node lookup: initial setup
\* iff the fetched record has no vvkId; the VVK id is fresh or the stored
\* one; the form's tempgVRK is decompressed (empty fails); signMessage
\* authorizes; GetKeyInfo (not found unless committed) or GetMaxORKs.
\* Without initial setup there is no key generation and no sub-request, so
\* submitVendorSignUp returns.
SignUpPrepare ==
    /\ act = "prepare" /\ Resumable
    /\ LET initial == IsInitialSetup(store)
           id      == IF initial THEN FreshVVK ELSE store.vvkId
       IN /\ initial => \E i \in VVKIds : vvkState[i] = "none"
          /\ isInitial' = initial /\ vvkLocal' = id
          /\ \E r \in IF MayFail THEN {"ok", "findFail", "signUpFail"}
                                  ELSE {"ok"} :
               act' = CASE r = "findFail" -> "catch"
                        [] r = "signUpFail"
                           \/ form.tempgVRK = NoValue
                           \/ (~initial /\ vvkState[id] # "committed")
                           -> "signUpCatch"
                        [] initial -> "genShard"
                        [] OTHER   -> "promote"
    /\ ActFrame
    /\ UNCHANGED <<store, form, effectDue, attempts, useRetry, vid, newTemp, tempVid, effIC,
                   env_vars, idpSig>>

\* The code after SetShard, before its next await: the forEach issues
\* every sub-request's signMessage authorization without awaiting it, and
\* the map starts every signing flow (signFlow.start, not awaited) and
\* goes on to the audit events.
LaunchSubRequests ==
    /\ task' = [r \in SubReqs |-> "events"]
    /\ flow' = [r \in SubReqs |-> "running"]
    /\ auth' = [r \in SubReqs |-> "pending"]

\* Mutant: the fresh VVKid is written to the record before the shard is
\* generated, so that a resumed activation reuses it.
GenVVKShard_persistIdFirst ==
    /\ act = "genShard" /\ Resumable
    /\ store' = [store EXCEPT !.vvkId = vvkLocal]
    /\ \E gen, set \in Outcomes :
         /\ vvkState' = IF gen THEN [vvkState EXCEPT ![vvkLocal] = "generated"]
                               ELSE vvkState
         /\ IF gen /\ set THEN act' = "signSubRequests" /\ LaunchSubRequests
                          ELSE act' = "signUpCatch" /\ UNCHANGED sub_vars
    /\ UNCHANGED <<checkouts, page, hash, tideClient, clientInit, isPendingResign, isLoading,
                   isInitialCheckout, co, coCand, coClient>>
    /\ UNCHANGED <<form, effectDue, attempts, useRetry, vid, isInitial,
                   vvkLocal, newTemp, tempVid, effIC, nextCand, paid, redirected, renewals,
                   idpSig>>

\* dKeyGenerationFlow.GenVVKShard creates the VVK on the key nodes, bound to
\* the form's tempgVRK; SetShard follows.  Either call may fail.
GenVVKShard ==
    /\ act = "genShard" /\ Resumable
    /\ \E gen, set \in Outcomes :
         /\ vvkState' = IF gen THEN [vvkState EXCEPT ![vvkLocal] = "generated"]
                               ELSE vvkState
         /\ IF gen /\ set THEN act' = "signSubRequests" /\ LaunchSubRequests
                          ELSE act' = "signUpCatch" /\ UNCHANGED sub_vars
    /\ UNCHANGED <<checkouts, page, hash, tideClient, clientInit, isPendingResign, isLoading,
                   isInitialCheckout, co, coCand, coClient>>
    /\ UNCHANGED <<store, form, effectDue, attempts, useRetry, vid, isInitial,
                   vvkLocal, newTemp, tempVid, effIC, nextCand, paid, redirected, renewals,
                   idpSig>>

\* Frame for a step of one sub-request.
SubFrame == UNCHANGED <<store, form, page_vars, act_vars, co, coCand, coClient,
                        checkouts, env_vars, idpSig>>

\* The arrow awaits triggerAuthorizerUpdateEvent and triggerAuthorizeEvent
\* ({error: false}) while its flow still runs; a failure goes to its catch.
SubEvents(r) ==
    /\ task[r] = "events" /\ Resumable
    /\ \E ok \in Outcomes :
         task' = [task EXCEPT ![r] = IF ok THEN "adopt" ELSE "catch"]
    /\ UNCHANGED <<flow, auth>> /\ SubFrame

\* The arrow's catch awaits the two error events and rethrows (a failing
\* event call throws instead): its promise rejects.
SubCatch(r) ==
    /\ task[r] = "catch" /\ Resumable
    /\ task' = [task EXCEPT ![r] = "rejected"]
    /\ UNCHANGED <<flow, auth>> /\ SubFrame

\* Mutant: the arrow does not return the flow's promise, so it resolves
\* after the events whatever the signing does.
Adopt_notReturned(r) ==
    /\ task[r] = "adopt" /\ Resumable
    /\ task' = [task EXCEPT ![r] = "resolved"]
    /\ UNCHANGED <<flow, auth>> /\ SubFrame

\* return result: the arrow's promise adopts the flow's, settling when the
\* signing does.
Adopt(r) ==
    /\ task[r] = "adopt" /\ flow[r] \in {"ok", "fail"} /\ Resumable
    /\ task' = [task EXCEPT ![r] = IF flow[r] = "ok" THEN "resolved" ELSE "rejected"]
    /\ UNCHANGED <<flow, auth>> /\ SubFrame

\* The forEach arrow's awaited signMessage answers: req.addAuthorization
\* attaches the proof, or the arrow rejects and nobody awaits it.
AuthorizeSubRequest(r) ==
    /\ auth[r] = "pending" /\ Resumable
    /\ \E ok \in Outcomes :
         auth' = [auth EXCEPT ![r] = IF ok THEN "added" ELSE "failed"]
    /\ UNCHANGED <<task, flow>> /\ SubFrame

\* The key nodes finish a signing flow (the page must still be open).  The
\* request is submitted with whatever authorization it holds then, and a
\* request without its proof fails (spec section 3, SignRequest).  When
\* the flow happens to submit only after the forEach arrow has settled,
\* AuthRace is FALSE.
FlowStep(r) ==
    /\ flow[r] = "running" /\ page = "loaded"
    /\ AuthRace \/ auth[r] # "pending"
    /\ \E ok \in Outcomes :
         flow' = [flow EXCEPT ![r] = IF ok /\ auth[r] = "added" THEN "ok"
                                                              ELSE "fail"]
    /\ UNCHANGED <<task, auth>> /\ SubFrame

SubStep ==
    \E r \in SubReqs : \/ AuthorizeSubRequest(r) \/ SubEvents(r) \/ SubCatch(r)
                      \/ Adopt(r) \/ FlowStep(r)

\* Mutant: the sign-up waits for every arrow to resolve, even after one
\* rejected.
SignSubRequests_waitsForAll ==
    /\ act = "signSubRequests" /\ Resumable
    /\ \A r \in SubReqs : task[r] = "resolved" /\ act' = "commit"
    /\ ActFrame
    /\ UNCHANGED <<store, form, effectDue, attempts, useRetry, vid, isInitial,
                   vvkLocal, newTemp, tempVid, effIC, env_vars, idpSig>>

\* await Promise.all(preSigs): resumes once every arrow has resolved, or
\* throws at the first rejection, the other arrows running on.
SignSubRequests ==
    /\ act = "signSubRequests" /\ Resumable
    /\ \/ \A r \in SubReqs : task[r] = "resolved" /\ act' = "commit"
       \/ \E r \in SubReqs : task[r] = "rejected" /\ act' = "signUpCatch"
    /\ ActFrame
    /\ UNCHANGED <<store, form, effectDue, attempts, useRetry, vid, isInitial,
                   vvkLocal, newTemp, tempVid, effIC, env_vars, idpSig>>

\* Mutant: the commit is not followed by setValue("config.vvkId").
CommitVVK_vvkIdNotSet ==
    /\ act = "commit" /\ Resumable
    /\ \E c, e \in Outcomes :
         /\ vvkState' = IF c THEN [vvkState EXCEPT ![vvkLocal] = "committed"]
                             ELSE vvkState
         /\ act' = IF c /\ e THEN "promote" ELSE "signUpCatch"
    /\ ActFrame
    /\ UNCHANGED <<store, form, effectDue, attempts, useRetry, vid, isInitial,
                   vvkLocal, newTemp, tempVid, effIC, nextCand, paid, redirected, renewals,
                   idpSig>>

\* genFlow.Commit; the form (only) gets vvkId; the vendor-key-created event
\* is awaited, and its failure throws after the commit.
CommitVVK ==
    /\ act = "commit" /\ Resumable
    /\ \E c, e \in Outcomes :
         /\ vvkState' = IF c THEN [vvkState EXCEPT ![vvkLocal] = "committed"]
                             ELSE vvkState
         /\ SetForm(IF c THEN [form EXCEPT !.vvkId = vvkLocal] ELSE form)
         /\ act' = IF c /\ e THEN "promote" ELSE "signUpCatch"
    /\ ActFrame
    /\ UNCHANGED <<store, attempts, useRetry, vid, isInitial, vvkLocal,
                   newTemp, tempVid, effIC, nextCand, paid, redirected, renewals, idpSig>>

\* submitVendorSignUp's catch: spinner off, vendor-key-created error event
\* (its own failure rethrows instead), rethrow.
SignUpCatch ==
    /\ act = "signUpCatch" /\ Resumable
    /\ isLoading' = FALSE
    /\ act' = "catch"
    /\ UNCHANGED <<checkouts, store, form, page, hash, tideClient, clientInit, effectDue,
                   isPendingResign, isInitialCheckout, attempts, useRetry,
                   vid, isInitial, vvkLocal, newTemp, tempVid, effIC, co, coCand, coClient, env_vars,
                   idpSig, sub_vars>>

\* Mutant: tempVendorId is cleared before it is read.
Promote_clearedFirst(c) == [c EXCEPT !.tempVendorId = NoValue,
                                     !.vendorId = NoValue]

\* The candidate becomes the vendor id, tempVendorId is cleared.
Promote(c) == [c EXCEPT !.vendorId = c.tempVendorId, !.tempVendorId = NoValue]

\* tempVendorId is read from the form (203), the promotion is made in the
\* form, then save() writes the form.
PromoteVendorId ==
    /\ act = "promote" /\ Resumable
    /\ tempVid' = form.tempVendorId
    /\ LET f == Promote(form)
       IN /\ SetForm(f)
          /\ \E r \in SaveResults :
               /\ SaveForm(f, r)
               /\ act' = IF r = "fetchFail" THEN "catch" ELSE "confirm"
    /\ ActFrame
    /\ UNCHANGED <<attempts, useRetry, vid, isInitial, vvkLocal, newTemp, effIC,
                   env_vars, idpSig>>

\* confirmVrk: the backend promotes the record's tempgVRK to gVRK.
ConfirmVrk ==
    /\ act = "confirm" /\ Resumable
    /\ \E ok \in Outcomes :
         /\ store' = IF ok THEN [store EXCEPT !.gVRK = store.tempgVRK,
                                              !.tempgVRK = NoValue]
                           ELSE store
         /\ act' = IF ok THEN "refresh1" ELSE "catch"
    /\ ActFrame
    /\ UNCHANGED <<form, effectDue, attempts, useRetry, vid, isInitial,
                   vvkLocal, newTemp, tempVid, effIC, env_vars, idpSig>>

\* refresh(): findOne and reset the form to the record.
Refresh(next) ==
    /\ \E ok \in Outcomes :
         /\ SetForm(IF ok THEN store ELSE form)
         /\ act' = IF ok THEN next ELSE "catch"
    /\ ActFrame
    /\ UNCHANGED <<store, attempts, useRetry, vid, isInitial, vvkLocal,
                   newTemp, tempVid, effIC, env_vars, idpSig>>

RefreshAfterConfirm == act = "refresh1" /\ Resumable /\ Refresh("genVrk")

\* generateNewVrk issues the candidate for the next renewal.
ActivationNewVrk ==
    /\ act = "genVrk" /\ Resumable
    /\ \E st \in GenVrkStages :
         /\ GenerateNewVrk(st)
         /\ newTemp' = IF st = 3 THEN nextCand ELSE newTemp
         /\ act' = IF st = 3 THEN "save2" ELSE "catch"
    /\ ActFrame
    /\ UNCHANGED <<attempts, useRetry, vid, isInitial, vvkLocal, tempVid,
                   effIC, vvkState, paid, redirected, renewals, idpSig>>

\* Mutant: the save() after setValue of the new vendor id is left out.
SaveNewTemp_skipped ==
    /\ act = "save2" /\ Resumable
    /\ act' = "updateSub"
    /\ ActFrame
    /\ UNCHANGED <<store, form, effectDue, attempts, useRetry, vid, isInitial,
                   vvkLocal, newTemp, tempVid, effIC, env_vars, idpSig>>

\* save() of the form holding the new candidate vendor id.
SaveNewTemp ==
    /\ act = "save2" /\ Resumable
    /\ \E r \in SaveResults :
         /\ SaveForm(form, r)
         /\ act' = IF r = "fetchFail" THEN "catch" ELSE "updateSub"
    /\ ActFrame
    /\ UNCHANGED <<form, effectDue, attempts, useRetry, vid, isInitial,
                   vvkLocal, newTemp, tempVid, effIC, env_vars, idpSig>>

\* authorizeStripeRequest, then UpdateSubscription registers the new
\* candidate with the payer as the renewal of the tempVendorId read at
\* the promotion.
UpdateSubscription ==
    /\ act = "updateSub" /\ Resumable
    /\ \E ok \in Outcomes :
         /\ renewals' = IF ok THEN renewals \cup {<<tempVid, newTemp>>}
                              ELSE renewals
         /\ act' = IF ok THEN "refresh2" ELSE "catch"
    /\ ActFrame
    /\ UNCHANGED <<store, form, effectDue, attempts, useRetry, vid, isInitial,
                   vvkLocal, newTemp, tempVid, effIC, nextCand, vvkState, paid, redirected,
                   idpSig>>

RefreshAfterUpdate == act = "refresh2" /\ Resumable /\ Refresh("resign")

\* Mutant: resignSettings reads the candidate key, as submitVendorSignUp does.
SettingsKey_temp(component) == component.tempgVRK

\* resignSettings: the rotating key read from the stored tide-vendor-key
\* component.
SettingsKey(component) == component.gVRK

\* findOne of the "tide" IdP; if it exists, resignSettings signs with the
\* record's gVRK (empty fails to decompress) under its vvkId (GetKeyInfo
\* fails unless committed), and the IdP is updated with the signatures.
\* Then the spinner and the in-flight guard are cleared.
ResignIdp ==
    /\ act = "resign" /\ Resumable
    /\ LET canSign == /\ SettingsKey(store) # NoValue /\ store.vvkId # NoValue
                      /\ vvkState[store.vvkId] = "committed"
       IN \E ok \in Outcomes :
            IF ok /\ (IdpExists => canSign)
            THEN /\ idpSig' = IF IdpExists THEN SettingsKey(store) ELSE idpSig
                 /\ isLoading' = FALSE /\ isPendingResign' = FALSE
                 /\ act' = "idle"
            ELSE /\ act' = "catch"
                 /\ UNCHANGED <<idpSig, isLoading, isPendingResign>>
    /\ UNCHANGED <<checkouts, store, form, page, hash, tideClient, clientInit, effectDue,
                   isInitialCheckout, attempts, useRetry, vid, isInitial,
                   vvkLocal, newTemp, tempVid, effIC, co, coCand, coClient, env_vars, sub_vars>>

\* Mutant: the catch does not turn the spinner off.
ActivationCatch_keepsSpinner ==
    /\ act = "catch" /\ Resumable
    /\ act' = "idle"
    /\ \E e \in Outcomes :
         IF e THEN isInitialCheckout' = FALSE
              ELSE UNCHANGED isInitialCheckout
    /\ UNCHANGED <<checkouts, store, form, page, hash, tideClient, clientInit, effectDue,
                   isLoading, isPendingResign, attempts, useRetry, vid,
                   isInitial, vvkLocal, newTemp, tempVid, effIC, co, coCand, coClient, env_vars, idpSig, sub_vars>>

\* activateLicense's catch: the license-renewed error event is awaited; if
\* that call fails too, the rejection escapes before the spinner and the
\* checkout flag are cleared.
ActivationCatch ==
    /\ act = "catch" /\ Resumable
    /\ act' = "idle"
    /\ \E e \in Outcomes :
         IF e THEN isLoading' = FALSE /\ isInitialCheckout' = FALSE
              ELSE UNCHANGED <<isLoading, isInitialCheckout>>
    /\ UNCHANGED <<checkouts, store, form, page, hash, tideClient, clientInit, effectDue,
                   isPendingResign, attempts, useRetry, vid, isInitial,
                   vvkLocal, newTemp, tempVid, effIC, co, coCand, coClient, env_vars, idpSig, sub_vars>>

(***************************************************************************)
(* handleCheckout.                                                         *)
(***************************************************************************)

\* Frame for a checkout step.
CoFrame == UNCHANGED <<act_vars, idpSig, vvkState, paid, renewals, sub_vars>>

\* "Request License", shown when nothing loads and there is no vvkId.
\* MaxCand bounds license cycles: the checkout's candidate and the one its
\* activation issues must both be available.
HandleCheckout ==
    /\ Resumable /\ co = "idle" /\ ~isLoading /\ form.vvkId = NoValue
    /\ nextCand + 1 <= MaxCand /\ checkouts < MaxCheckouts
    /\ checkouts' = checkouts + 1
    /\ co' = "gen" /\ isInitialCheckout' = TRUE /\ isLoading' = TRUE
    /\ coClient' = tideClient
    /\ UNCHANGED <<store, form, page, hash, tideClient, clientInit, effectDue,
                   isPendingResign, coCand, env_vars>> /\ CoFrame

\* generateNewVrk issues the candidate to buy a license for.
CheckoutNewVrk ==
    /\ co = "gen" /\ Resumable
    /\ \E st \in GenVrkStages :
         /\ GenerateNewVrk(st)
         /\ coCand' = IF st = 3 THEN nextCand ELSE coCand
         /\ co' = IF st = 3 THEN "session" ELSE "catch"
    /\ UNCHANGED <<checkouts, page, hash, tideClient, clientInit, isPendingResign, isLoading,
                   isInitialCheckout, coClient, redirected>> /\ CoFrame

\* What validateActivationPackage checks of a package issued for candidate
\* p (gVRK and licenseId name p, every field present) against the form.
PackageMatchesForm(p) ==
    ~ \/ form.tempgVRK # NoValue /\ p # form.tempgVRK
      \/ form.tempVendorId # NoValue /\ p # form.tempVendorId

\* CreateCheckoutSession on the NodeClient of the click's render (a
\* TypeError if there was none then); on 303 the
\* activation package is validated and copied into the form.  A failed
\* call may also hand back a package for another candidate.  Any other
\* status ends handleCheckout with nothing cleared.
CreateCheckoutSession ==
    /\ co = "session" /\ Resumable
    /\ \E ok \in Outcomes, s303 \in IF MayNon303 THEN BOOLEAN ELSE {TRUE},
          p \in IF MayFail THEN Cand ELSE {coCand} :
         IF ~coClient \/ ~ok
         THEN co' = "catch" /\ UNCHANGED <<form, effectDue>>
         ELSE IF ~s303
         THEN co' = "idle" /\ UNCHANGED <<form, effectDue>>
         ELSE IF ~PackageMatchesForm(p)
         THEN co' = "catch" /\ UNCHANGED <<form, effectDue>>
         ELSE co' = "save" /\ SetForm([form EXCEPT !.pkg = p])
    /\ UNCHANGED <<checkouts, store, page, hash, tideClient, clientInit, isPendingResign, isLoading,
                   isInitialCheckout, coCand, coClient, env_vars>> /\ CoFrame

\* Mutant: save() is not awaited, so the page leaves before the write.
SaveAndRedirect_saveNotAwaited ==
    /\ co = "save" /\ Resumable
    /\ \E r \in SaveResults :
         /\ UNCHANGED store
         /\ IF r = "fetchFail"
            THEN co' = "catch" /\ UNCHANGED <<page, redirected>>
            ELSE /\ co' = "idle" /\ page' = "away"
                 /\ redirected' = redirected \cup {coCand}
    /\ act' = IF co' = "idle" THEN "idle" ELSE act
    /\ UNCHANGED <<checkouts, form, hash, tideClient, clientInit, effectDue, isPendingResign,
                   isLoading, isInitialCheckout, attempts, useRetry, vid,
                   isInitial, vvkLocal, newTemp, tempVid, effIC, coCand, coClient, nextCand, vvkState,
                   paid, renewals, idpSig, sub_vars>>

\* save(), then window.location.href = body.redirectUrl: the page goes to
\* the payer and whatever else was running is dropped.
SaveAndRedirect ==
    /\ co = "save" /\ Resumable
    /\ \E r \in SaveResults :
         /\ SaveForm(form, r)
         /\ IF r = "fetchFail"
            THEN co' = "catch" /\ UNCHANGED <<page, redirected>>
            ELSE /\ co' = "idle" /\ page' = "away"
                 /\ redirected' = redirected \cup {coCand}
    /\ act' = IF co' = "idle" THEN "idle" ELSE act
    /\ UNCHANGED <<checkouts, form, hash, tideClient, clientInit, effectDue, isPendingResign,
                   isLoading, isInitialCheckout, attempts, useRetry, vid,
                   isInitial, vvkLocal, newTemp, tempVid, effIC, coCand, coClient, nextCand, vvkState,
                   paid, renewals, idpSig, sub_vars>>

\* handleCheckout's catch: spinner and checkout flag off, rethrow.
CheckoutCatch ==
    /\ co = "catch" /\ Resumable
    /\ co' = "idle" /\ isLoading' = FALSE /\ isInitialCheckout' = FALSE
    /\ UNCHANGED <<checkouts, store, form, page, hash, tideClient, clientInit, effectDue,
                   isPendingResign, coCand, coClient, env_vars>> /\ CoFrame

(***************************************************************************)
(* handleManageSubscription.                                               *)
(***************************************************************************)

\* The Active License panel, with the portal form and its refs, is
\* rendered when nothing loads and the form has a vvkId.
PanelShown == ~isLoading /\ form.vvkId # NoValue

\* "Manage Subscription": the refs are checked, and authorizeStripeRequest
\* is awaited.  (A second click while one is pending would only repeat the
\* post; the model lets one be pending.)
ManageSubscription ==
    /\ MayManage /\ Resumable /\ PanelShown /\ ms = "idle"
    /\ ms' = "auth" /\ msVid' = form.vendorId
    /\ UNCHANGED <<store, form, page_vars, act_vars, co, coCand, coClient, checkouts,
                   env_vars, idpSig, sub_vars, posts>>

\* After the await, the click's watchConfigVendorId is written into the
\* refs and the form is posted to payerUrl + CreateCustomerPortalSession:
\* the page leaves, for the payer, or for the admin origin itself while
\* payerUrl is still "" (it is set with the NodeClient).  If the spinner
\* replaced the panel meanwhile the refs are null and the write throws; a
\* rejected authorizeStripeRequest is not caught either.
PortalSubmit ==
    /\ ms = "auth" /\ Resumable
    /\ ms' = "idle"
    /\ \E ok \in Outcomes :
         IF ok /\ PanelShown
         THEN /\ page' = "away" /\ act' = "idle"
              /\ posts' = posts \cup {[vendorId |-> msVid, payer |-> tideClient]}
         ELSE UNCHANGED <<page, act, posts>>
    /\ UNCHANGED <<store, form, hash, tideClient, clientInit, effectDue, isPendingResign,
                   isLoading, isInitialCheckout, attempts, useRetry, vid,
                   isInitial, vvkLocal, newTemp, tempVid, effIC, co, coCand, coClient, checkouts,
                   env_vars, idpSig, sub_vars, msVid>>

(***************************************************************************)
(* The specification.                                                      *)
(***************************************************************************)

\* The steps the handlers take once the awaited call returns; none of
\* them touches handleManageSubscription's state.
ActivationStep ==
    /\ \/ CheckLicenseActive \/ TriggerLicenseRenewed \/ SignUpPrepare
       \/ GenVVKShard \/ SignSubRequests \/ CommitVVK \/ SignUpCatch
       \/ PromoteVendorId \/ ConfirmVrk \/ RefreshAfterConfirm
       \/ ActivationNewVrk \/ SaveNewTemp \/ UpdateSubscription
       \/ RefreshAfterUpdate \/ ResignIdp \/ ActivationCatch \/ SubStep
    /\ UNCHANGED ms_vars

CheckoutStep ==
    /\ \/ CheckoutNewVrk \/ CreateCheckoutSession \/ SaveAndRedirect
       \/ CheckoutCatch
    /\ UNCHANGED ms_vars

PageStep == (InitTideClient \/ ActivationEffect) /\ UNCHANGED ms_vars

\* The user's checkout click and the payer, which leave the portal alone.
UserOrPayer == (HandleCheckout \/ PayerActivate) /\ UNCHANGED ms_vars

Next ==
    \/ ActivationStep \/ CheckoutStep \/ PageStep \/ PortalSubmit
    \/ UserOrPayer \/ ManageSubscription \/ Reload

\* Every awaited call returns (with a result or an error) and React runs
\* its effects: weak fairness on the page's own steps.  The user (checkout,
\* manage subscription, reload) and the payer (activation) are under no
\* obligation.
Fairness ==
    /\ WF_vars(ActivationStep) /\ WF_vars(CheckoutStep) /\ WF_vars(PageStep)
    /\ WF_vars(PortalSubmit)

Spec == Init /\ [][Next]_vars /\ Fairness

(***************************************************************************)
(* Properties.                                                             *)
(***************************************************************************)

\* Verifying keys the key-node network has committed (a generated shard
\* that is never committed is not a usable key).
CommittedVVKs == {i \in VVKIds : vvkState[i] = "committed"}

\* Promotion of a candidate (PromoteVendorId's save of vendorId, then
\* ConfirmVrk's promotion of gVRK by the backend) is all-or-nothing as seen
\* at rest: the active vendor id and the active rotating key are always the
\* same candidate's.
ActivePairConsistent == AtRest => store.vendorId = store.gVRK

\* At rest, the verifying key committed on the key nodes (CommitVVK) is the
\* one the record names, so the license the vendor paid for is reachable
\* from the record.
CommittedVVKPersisted ==
    AtRest => CommittedVVKs = IF store.vvkId = NoValue THEN {}
                              ELSE {store.vvkId}

\* submitVendorSignUp's isInitialSetup commits a verifying key at most once
\* over the whole life of the record: renewals and resumed activations
\* reuse it.
SingleVVK == Cardinality(CommittedVVKs) <= 1

\* After an activation, the payer knows the next candidate as the renewal
\* of the active vendor id, and the record keeps that candidate, so the
\* next renewal is detected by the activation effect.
RenewalRegistered ==
    (AtRest /\ store.vvkId # NoValue)
        => <<store.vendorId, store.tempVendorId>> \in renewals

\* At rest, the tide identity provider's settings are signed over the
\* active rotating key (resignSettings runs after confirmVrk).
IdpSignedWithActiveKey ==
    (AtRest /\ IdpExists /\ store.vvkId # NoValue) => idpSig = store.gVRK

\* Every operation that shows the spinner (handleCheckout, activateLicense)
\* eventually clears it or leaves the page.
LoadingEventuallyClears ==
    (page = "loaded" /\ isLoading) ~> (page = "away" \/ ~isLoading)

\* A vendor id is promoted into the record only for a license the payer
\* reports active, and only once a verifying key is committed for it: no
\* failure, retry or reload of activateLicense promotes an unpaid or
\* keyless candidate.
PromotionSound ==
    store.vendorId # NoValue
        => /\ store.vendorId \in paid
           /\ CommittedVVKs # {}

\* submitVendorSignUp commits the generated verifying key (genFlow.Commit)
\* only after every sub-request's signing flow has succeeded, although no
\* flow is awaited where it is started: the commit waits for all of them.
CommitAfterAllSigned ==
    [][\A i \in VVKIds :
         vvkState[i] # "committed" /\ vvkState'[i] = "committed"
           => \A r \in SubReqs : flow[r] = "ok"]_vars

\* A shard that GenVVKShard created but that was never committed (SetShard,
\* a sub-request, Commit or a reload failed after it) is never the key the
\* persisted record names: the next activation still sees an initial
\* setup and starts over, rather than re-keying with a dead VVK id.
OrphanShardNeverAdopted ==
    store.vvkId # NoValue => vvkState[store.vvkId] = "committed"

\* submitVendorSignUp authorizes every sub-request before its signing
\* flow submits it (spec section 4.2: authorize every one, then drive the
\* signing; section 3: the proof is attached before submission): a flow
\* has settled only for a request whose proof was attached.
AuthorizedBeforeSubmit ==
    \A r \in SubReqs : flow[r] \in {"ok", "fail"} => auth[r] = "added"

\* Every activateLicense that starts comes to an end (returns or throws)
\* or is dropped with the page: retry() is bounded, and Promise.all over
\* the sub-request signings settles at the first rejection.  A key
\* generation that needs a fresh VVK id once the model's MaxVVK ids are
\* spent, or a generateNewVrk once its MaxCand candidates are issued,
\* cannot take its step; those bounds are the only other way out.
BoundsSpent == (\A i \in VVKIds : vvkState[i] # "none") \/ nextCand > MaxCand
ActivationTerminates == act # "idle" ~> (act = "idle" \/ BoundsSpent)

\* A license the payer activates late, after retry() has given up or the
\* single check found none, is not lost: at rest every paid candidate is
\* the record's vendor id, one that vendor id replaced, or the record's
\* tempVendorId, which the next load's activation effect checks again.
\* It rests on handleCheckout saving the candidate before the redirect.
PaidLicenseKept ==
    AtRest => \A k \in paid : k <= store.vendorId \/ k = store.tempVendorId

====
