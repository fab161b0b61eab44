# TLA+ models of the TideCloak admin UI licensing and signing flows

This directory holds TLA+ models of the stateful parts of the
`tidecloak-admin-ui` TypeScript sources. The central part is the license
controller in `TideLicensingTab.tsx`. It drives four external parties:
- the Keycloak key-provider record;
- the payer (Stripe via the Tide node);
- the key-node network holding the vendor verifying key (VVK);
- the tide identity provider, whose settings it re-signs.

The models are checked with TLC. `PROJECT.json` lists:
- the components;
- the runs;
- the mutants that show each property can fail;
- the map from every TLA+ definition to the source lines it translates;
- the findings;
- the hazards.

## The system

| Part | Source | State | Operations |
|---|---|---|---|
| License checkout | `TideLicensingTab.tsx` 404-486, 381-402, 429-442 | form copy of the key-provider config, `isLoading`, `isInitialCheckout` | `handleCheckout`: `generateNewVrk` → `CreateCheckoutSession` → `saveActivationPackage` (`validateActivationPackage`) → `save` → redirect |
| License activation | `TideLicensingTab.tsx` 151-274, 365-379 | `isPendingResign`, `tideClient`, the URL hash, the form | activation effect, `retry(checkLicenseActive)`, license-renewed events, `submitVendorSignUp`, promotion and `save`, `confirmVrk`, `refresh`, `generateNewVrk`, `save`, `UpdateSubscription`, `refresh`, IdP re-signing |
| Vendor sign-up | `TideLicensingTab.tsx` 488-596 | `VVKid`, key-node VVK state, the sub-request signing tasks | `signMessage`, `GetKeyInfo`/`GetMaxORKs`, `GenVVKShard`, `SetShard`, the unawaited sub-request authorizations and signing flows, `Promise.all`, `Commit`, vendor-key event |
| Settings signing | `SignSettingsUtil.tsx` 23-144 | stored `tide-vendor-key` component | `resignSettings` (and `signIdpSettings`) signs URLs, settings and gVRK with the VVK; `createTideComponent` is never called in this repository |
| Tide IdP creation | `AddIdentityProvider.tsx` 69-136 | the draft form of the new IdP | effect: `findTideComponent` → `signIdpSettings` → `setValue`s; `onSubmit`: `identityProviders.create` |
| Change-request approval | `RolesChangeRequestsList.tsx` 23-247 | `selectedRow`, `approveRecord`, `commitRecord`, table key | select row, approve draft, commit draft, refresh |
| REST resources | `tideProvider.ts`, `TideUserExt.ts` | none (endpoint declarations) | their server effects are modelled where they are called |
| License display and subscription | `TideLicensingTab.tsx` 276-354, 598-634, 641-733 | license details, subscription status, the portal form's refs | `fetchSubscriptionStatus`, `fetchLicenseDetails` (display only), `generateJWK` (download), `handleManageSubscription`: `authorizeStripeRequest` → post the portal form |
| Presentation | `TideLicenseHistory.tsx`, `DynamicComponents.tsx`, `ClientIdSecret.tsx` | none | rendering only |

### How the parts interact

The licensing tab and the activation effect share one react-hook-form copy
of the key-provider record:
- The effect re-runs whenever `config.tempVendorId` changes.
- `generateNewVrk` changes it both when a checkout starts and when an
  activation ends.
- The backend changes the record itself (`generateVrk`, `confirmVrk`).
- `save()` writes the whole form config over the record it has just fetched.

Checkout sends the browser to the payer. Coming back reloads the page, and
`?licensePending=true` tells the activation to retry `checkLicenseActive`
ten times.

`resignSettings` reads the stored component, not the form. It is used by
the activation, and through `signIdpSettings` by the IdP creation page. A
key rotation between the creation page's signing and its submit therefore
matters.

### What makes it hard

Every `await` is a point where the other handler, a React effect or a page
reload can run, and where a call can fail:
- State is copied between the form and the record in several separate calls.
- The VVK commit on the key nodes is irreversible.
- The sub-request signings run unawaited, and only `Promise.all` joins them.
- The audit events are sent at points that do not match the outcome they
  report.

## Modules

| Module | Models | MC module |
|---|---|---|
| `TideLicensing` | checkout, activation, vendor sign-up, IdP re-signing, Manage Subscription and their parties | `MC_TideLicensing` |
| `LicenseLifecycle` | the abstract license lifecycle of spec §4.1 | (instantiated by `LicenseRefinement`) |
| `LicenseRefinement` | `TideLicensing` with the refinement mapping onto `LicenseLifecycle` | itself |
| `ActivationPackage` | `saveActivationPackage` / `validateActivationPackage` over JavaScript values | itself |
| `TideIdpCreation` | `AddIdentityProvider`'s signing effect and submit, over `resignSettings` | `MC_TideIdpCreation` |
| `ChangeRequestButtons` | the approve/commit toolbar | `MC_ChangeRequestButtons` |

### `TideLicensing.tla`

**State:**
- `store` is the persisted record; `form` is the page's copy.
- `page`, `hash`, `tideClient`, `effectDue`, `isPendingResign`, `isLoading` and
  `isInitialCheckout` are the React and page state.
- `act` and `co` are where `activateLicense` and `handleCheckout` are
  suspended.
- Their locals are `attempts`, `useRetry`, `vid`, `isInitial`, `vvkLocal`,
  `newTemp` and `coCand`.
- Some values are read where the code reads them, not from the current
  state:
  - `tempVid` is the `tempVendorId` read at 203, which `UpdateSubscription`
    registers (224);
  - `effIC` is the effect closure's `isInitialCheckout` (255);
  - `coClient` is the `tideClient` of the render the checkout was clicked
    in (410);
  - `clientInit` records that `initializeTideClient` ran, resolved or
    rejected (the rejection is not handled).
- `task[r]` and `flow[r]` are the sub-requests' state, for each of
  `TidecloakInit` and `AccessTokenInit`:
  - `task[r]` is the map callback's progress (`events`, `adopt`, `catch`,
    then `resolved`/`rejected`);
  - `flow[r]` is its unawaited `signFlow.start()`;
  - `auth[r]` is the proof the unawaited `forEach` arrow attaches
    (`pending`, `added`, or `failed` when its `signMessage` rejects).
- The environment is:
  - `nextCand`: the backend's next VRK candidate;
  - `vvkState`: the key nodes;
  - `paid`, `redirected`, `renewals`: the payer;
  - `idpSig`: the key the IdP's gVRK signature is over.
- `ms` and `msVid` are where `handleManageSubscription` is suspended and the
  `watchConfigVendorId` its click captured; `posts` is the set of
  customer-portal form posts made (vendor id, and whether `payerUrl` was
  set so that the post went to the payer).

**Data abstraction:**
- A VRK candidate and the vendor id generated for it are one number in
  `Cand`, because `generateVendorId` returns the id bound to the current
  `tempgVRK`.
- A VVK id is a number in `VVKIds`.
- `0` is the empty string.
- The activation package is one field naming the candidate it was issued
  for. Its field-by-field check is `ActivationPackage`'s.
- Audit events are not state: whether one is sent or fails changes only
  which branch runs next, and that choice is kept.

**Actions:** one per code segment between two awaits, named after the call
that ends it.
- Activation: `CheckLicenseActive`, `TriggerLicenseRenewed`,
  `SignUpPrepare`, `GenVVKShard`, `SignSubRequests`, `CommitVVK`,
  `SignUpCatch`, `PromoteVendorId`, `ConfirmVrk`, `RefreshAfterConfirm`,
  `ActivationNewVrk`, `SaveNewTemp`, `UpdateSubscription`,
  `RefreshAfterUpdate`, `ResignIdp`, `ActivationCatch`.
- Sub-requests: `GenVVKShard` also runs the code up to the next await.
  That code issues every sub-request's authorization and starts its flow
  (`LaunchSubRequests`). Each sub-request then moves on its own:
  - `AuthorizeSubRequest` is the `forEach` arrow's `signMessage` answering;
    `addAuthorization` then attaches the proof;
  - `SubEvents` sends the two success events;
  - `SubCatch` handles the callback's catch;
  - `Adopt` returns the flow's promise;
  - `FlowStep` is the flow settling, modelled from the spec because the
    flow is external. The request is submitted with whatever proof it
    holds then. A request without its proof fails (spec §3, SignRequest).

  `SignSubRequests` is `await Promise.all`. It goes on when every task has
  resolved and throws at the first rejection.
- Checkout: `HandleCheckout`, `CheckoutNewVrk`, `CreateCheckoutSession`,
  `SaveAndRedirect`, `CheckoutCatch`.
- Page: `InitTideClient` (whose `getPayerUrl` may reject under `MayFail`),
  `ActivationEffect`, and `Reload`, a page load
  after which `useFetch` resets the form.
- Manage subscription: `ManageSubscription` (the click, shown when
  `PanelShown`: nothing loads and the form has a vvkId) and `PortalSubmit`
  (after `authorizeStripeRequest`: write the click's vendor id into the
  refs and post the form, or throw on null refs once the spinner has
  replaced the panel).
- `PayerActivate` is the payer confirming a payment. It is modelled from the
  spec.
- Every call that can fail takes its result from `Outcomes`. `save()` takes
  its result from `SaveResults`: an update failure is swallowed, while a
  fetch failure throws.

**Fault switches (CONSTANTS):**
- `MayFail`: calls may fail.
- `MayAbandon`: the page may be reloaded while a handler is suspended.
- `MayNon303`: the checkout may get another status.
- `IdpExists`
- `AuthRace`: a signing flow may submit before the `forEach` has attached
  its proof. When it is FALSE, the flow submits only after that arrow has
  settled. `dVVKSigningFlow` is outside this repository, so when it
  submits is unknown and is a switch.
- `MayManage`: the user may click "Manage Subscription" (TRUE in
  `activation` only; a user action, kept out of the fault runs to keep
  them within minutes).

**Bounds (CONSTANTS):**
- `MaxCand` bounds the candidates the backend issues.
- `MaxVVK` bounds the VVK ids.
- `Retries` is 10, as in the code.
- `MaxCheckouts` bounds the checkouts the user starts.

### `LicenseLifecycle.tla` and `LicenseRefinement.tla`

`LicenseLifecycle` is what the persisted record promises: the active
`vendorId`, the pending `tempVendorId` and the `vvkId`. Its other parties
each act on their own:
- the backend issues candidates (`Issue`);
- the payer pays for them (`Pay`);
- the key nodes commit VVKs (`Commit`).

The record changes in only two ways:
- `RecordCandidate` makes an issued, unpaid candidate pending.
- `Promote` makes the paid pending candidate active once a VVK is
  committed. The record names that VVK from then on, and the same write may
  record the next candidate.

`LicenseRefinement` extends `TideLicensing` and instantiates the lifecycle
with this mapping:
- `vendorId`, `tempVendorId`, `vvkId` ← the `store` fields;
- `issued` ← the candidates below `nextCand`;
- `paid` ← `paid`;
- `committed` ← the committed VVK ids.

The property `LicenseLifecycleRefined == Lifecycle!Spec` is checked in the
`faults` run. Every step of the tab, of a reload and of the parties is a
lifecycle step or a stutter of the record's license fields.

### `ActivationPackage.tla`

This module models `saveActivationPackage` and `validateActivationPackage`
over JavaScript values. A value is one of these names:
- `"undefined"`, `"null"`, `"emptyString"`, `"number0"`;
- a non-empty value standing for itself.

A form field is absent (`<<>>`) or a one-element array, as `setValue(name,
[v])` leaves it.

`Init` enumerates every package over these values together with every
pending `tempgVRK` and `tempVendorId` (9600 states). The one action,
`SaveActivationPackage`, validates the package and accepts or rejects it.
`ContractAccepts` is the reference definition of the spec's contract (§8):
a required field must be present, and a pending key or vendor id must match.

### `TideIdpCreation.tla` (with `MC_TideIdpCreation.tla`)

This module models `AddIdentityProvider`'s effect on the `tide` provider
page and its submit.

**State:**
- `pc` is where the effect or `onSubmit` is suspended. The effect runs
  `findTideComponent`, then `signIdpSettings`. That calls `resignSettings`,
  whose steps are `RsFind`, `RsCall` (GetKeyInfo, signMessage), `RsSign`,
  and the event sends `RsOkEvt` / `RsErrEvt`.
- `comp` is the stored `tide-vendor-key` component.
- `readKey` is the gVRK `resignSettings` read.
- `formSigs` is the key the form's signatures are over.
- `idp` is the created provider.
- `authEvents` lists the success flags of the authorization events sent.
- `rot` is the licensing tab's key rotation and its re-signing of an
  existing IdP (`RotateKey`, `ActivationResignIdp`).

The pure part of the module:
- `FlowSignatures` is the array of signatures the signing flow returns.
  It is modelled from the spec, because the flow is external.
- `DraftUrls` is the draft's URL list. `signIdpSettings` indexes into it.
- `SigFields` is the indexes `signIdpSettings` reads.

**Switches:**
- `MayFail`: calls fail.
- `MayRotate`: the key rotates while the page is open.

### `ChangeRequestButtons.tla` (with `MC_ChangeRequestButtons.tla`)

It models the approve/commit toolbar of `RolesChangeRequestsList.tsx`.

**State:**
- `server` is the server's change requests, each a `status` and
  `deleteStatus`, or `Done` once committed.
- `rows` is the table's copy from the loader; `loadDue` marks the table as
  (re)mounted, and `key` is its React key.
- `selectedRow` is the row object `onSelect` passed. `effectDue`,
  `approveRecord` and `commitRecord` are the effect and the two enable flags.
- `inflight` holds the click handlers awaiting the server, each with the
  key of the render it was created in.
- `stale` records that one of this page's calls changed the server after
  the table last loaded.

**Actions:**
- `LoadTable` is the loader; a failure returns `[]`.
- `Select(q)` is `onSelect`.
- `SelectionEffect` is the effect on `[selectedRow]`.
- `Click(kind)` is a click on an enabled button, when the table is loaded.
- `Answer(c)` is the server's answer to a handler. On success the handler
  calls `refresh()`, which sets the key to the handler's key + 1.
- `OtherAdmin` is another administrator approving or committing.

The server's rules are not in this repository, so they are an environment
assumption:
- approving a draft leads to PENDING or APPROVED;
- a delete request on an active role does the same with `deleteStatus`;
- committing an approved request removes it;
- anything else is rejected.

`MaxInflight` bounds the handlers awaiting the server.

## Runs

The licensing runs use `Retries = 10` and `IdpExists = TRUE`. `faults`
uses `MaxCand = 4` and `MaxVVK = 3`; the others use `MaxCand = 3` and
`MaxVVK = 2`.

| Run | Module | Expect | What it shows |
|---|---|---|---|
| `activation` | `MC_TideLicensing` | pass (1640 states) | With no faults and one checkout, the following hold: a checkout, its activation (first VVK and renewal set-up, including the sub-request signing) and the retry path after a payer redirect, with Manage Subscription clicked at any point, keep the record, the key nodes, the payer and the IdP signature consistent; a license the payer confirms after `retry()` gave up is still in the record for the next load; the spinner always clears. |
| `faults` | `LicenseRefinement` | pass (138654 states) | With every call able to fail, reloads at every await, non-303 answers, and flows submitting before their proof, the following hold: a shard generated but never committed never becomes the record's VVK; no vendor id is promoted without a paid license and a committed VVK; the VVK is committed only after every sub-request was signed; the record follows `LicenseLifecycle`; every activation ends. |
| `resume_rekey` | `MC_TideLicensing` | violation | A reload or failure between `Commit` and `save` loses the VVK id, and the next activation commits a second VVK. |
| `checkout_race` | `MC_TideLicensing` | violation | An activation promotes an unpaid candidate that a concurrent checkout put in the form. |
| `auth_race` | `MC_TideLicensing` | violation | With every call succeeding, a sub-request's signing flow submits it before the unawaited `forEach` has attached its proof. A fault-free first activation can therefore fail and strand a generated shard. |
| `package_zero` | `ActivationPackage` | violation | A package with `maxUserAcc = 0` is rejected, though the contract accepts it. |
| `idp_create` | `MC_TideIdpCreation` | pass (117 states) | The signatures `signIdpSettings` copies are the ones for the login URL, the link URL, the settings and the gVRK. |
| `unsigned_idp` | `MC_TideIdpCreation` | violation | After a signing failure, submit creates a tide IdP without signatures. |
| `rotation_race` | `MC_TideIdpCreation` | violation | A key rotation between signing and submit creates an IdP signed with the old gVRK. Nothing re-signs it. |
| `buttons` | `MC_ChangeRequestButtons` | pass (44893 states) | Approve is sent only for a row shown as approvable. |
| `stale_selection` | `MC_ChangeRequestButtons` | violation | After the page's own refresh, `selectedRow` is the old copy, and the buttons act on a status the server no longer has. |
| `lost_refresh` | `MC_ChangeRequestButtons` | violation | `setKey(key + 1)` is computed from a render's stale `key`. Two handlers of one render set the same key, and the later success is never shown. |

### Properties of the passing runs

- `ActivePairConsistent`: at rest, `vendorId` and `gVRK` are the same
  candidate's.
- `CommittedVVKPersisted`: at rest, the committed VVK is exactly the one the
  record names.
- `SingleVVK`: at most one VVK is ever committed for the record.
- `RenewalRegistered`: after an activation, the payer knows the stored next
  candidate as the renewal of the active vendor id.
- `IdpSignedWithActiveKey`: the IdP signature is over the active `gVRK`.
- `PromotionSound`: a promoted vendor id is paid and has a committed VVK.
- `OrphanShardNeverAdopted`: the record never names a VVK that was
  generated but not committed, so the next activation still starts a new
  set-up. Its mutant persists the fresh VVK id before the shard is
  generated. That is the obvious fix for `resume_rekey`, and it would turn
  every stranded shard into a dead key the record re-keys with.
- `PaidLicenseKept`: at rest, every candidate the payer activated is the
  record's vendor id, one it replaced, or its `tempVendorId`. A payment the
  payer confirms after `retry()` has thrown (or after the single check found
  none) is not lost: the next load's effect checks it again. Its mutant
  leaves the page before `handleCheckout`'s `save()` has written the
  candidate. Under `faults` it does not hold, because `save()` swallows an
  update failure (399) and the checkout still redirects; see the defects.
- `LoadingEventuallyClears`: the spinner clears or the page is left.
- `CommitAfterAllSigned` (action property): no step commits a VVK unless
  every sub-request's signing flow succeeded.
- `LicenseLifecycleRefined`: the refinement described above.
- `ActivationTerminates` (liveness): an `activateLicense` that starts
  returns or throws, or is dropped with the page. The only exception is
  a run that exhausts the model's VVK or candidate bound (`BoundsSpent`).
- `SignatureIndexContract`: the indexes `signIdpSettings` reads from the
  flow's signature array are the login URL's, the link URL's, the
  settings' and the gVRK's.
- `ApproveSentOnlyForApprovable`: Approve is only sent for a row the table
  shows as approvable.

`StaleTableEventuallyReloaded` (after an own successful call, the table is
eventually reloaded) is checked only by `lost_refresh`, with two handlers
in flight. With one handler it would only restate that `refresh()`
follows a success.

Each property of a passing run has a mutant in `PROJECT.json`: a plausible
bug in the code it is about. TLC finds the property violated under that
mutant. Examples:
- `IsLicenseActive` not awaited;
- `save()` not awaited before the checkout redirect;
- a sub-request task that never returns its flow;
- `Promise.all` replaced by waiting for every task to resolve;
- the draft's origin URL pushed to the front of the URL list.

### Why the bounds are enough

- **`MaxCand = 3`:** room for one checkout candidate, the candidate issued
  at the end of its activation, and one more. That covers first
  activation, renewal set-up, and the second-checkout race (with
  `MaxCheckouts = 2`).
- **`MaxVVK = 2`:** the smallest number with which a second VVK commit can
  be seen.
- **`MaxCand = 4`, `MaxVVK = 3` in `faults`:** a second renewal, and two
  orphaned shards before a key is committed. Every shard a failed sign-up
  strands uses up a VVK id. `ActivationTerminates` therefore names the
  spent bounds (`BoundsSpent`) as the only other way out.
- **`Retries = 10`:** the code's own value. The retry path is reached
  through a reload with `licensePending`.
- **Two sub-requests:** the code's own `TidecloakInit` and
  `AccessTokenInit`. One can succeed while the other fails.
- **`MaxCheckouts = 1`** in the passing runs: the concurrent second
  checkout is the known race, kept as the `checkout_race` violation run.
- **Two change requests** (`r1`, `r2`): enough to select one request after
  another and to make calls on different rows from one render. Each
  request changes status at most three times.
- **Two keys** for `TideIdpCreation`: one rotation.

## Fairness

The page's own steps are weakly fair:
- in `TideLicensing`: `ActivationStep` (the sub-request steps included),
  `CheckoutStep`, `PageStep` and `PortalSubmit`;
- in `TideIdpCreation`: the handler and the tab's re-signing.

Every awaited network call eventually returns or fails, every started
signing flow settles, and React eventually runs a scheduled effect.
Continuations require `~effectDue`, because React flushes the effects of a
render before a network reply (a later macrotask) is handled.

Some actors get no fairness:
- The user (`HandleCheckout`, `ManageSubscription`, `Reload`): a user may never click.
- The payer (`PayerActivate`): a payer may never confirm.
- The other administrators.

In `ChangeRequestButtons`, the server's answer to every call, the effect
and the remounted table's load are weakly fair.

`CHECK_DEADLOCK` is on in `activation` and `faults`: the page can always be
reloaded or a checkout started, within the bounds. It is off in these runs:
- `buttons`: an idle page with nothing to select really stops.
- `idp_create`: a created or rejected submit really stops.

## Defects read from the code

These defects are not kept as violation runs. Most show in a single code
path, and the run budget goes to the findings that change persisted
state:
- **Two license-renewed events** (`TideLicensingTab.tsx` 196-197): both
  events are sent before the renewal happens.
- **A spinner that never clears** (413): a non-303 checkout answer leaves
  `isLoading` set.
- **Commit Draft enabled for a draft** (`RolesChangeRequestsList.tsx` 35):
  the approved-row branch never clears `commitRecord`.
- **An unhandled rejection** (`AddIdentityProvider.tsx` 77/107): a
  rejected `findTideComponent` is never handled.
- **Success events sent too early** (`TideLicensingTab.tsx` 568): the
  sub-request success events are sent before the signing flow has an
  outcome.
- **A vendor id and key that briefly disagree** (`TideLicensingTab.tsx`
  206-207): `save()` writes the new `vendorId` before `confirmVrk` promotes
  `gVRK`. A reload between the two leaves the pair split until the next
  activation. Spec §7 allows partial progress that stays resumable, so
  `ActivePairConsistent` is checked at rest only.
- **License display out of order** (`TideLicensingTab.tsx` 305, 346): the
  status and details fetches are never cancelled. An older response that
  arrives last is shown for a vendor id the record no longer has.
- **A paid license dropped from the record** (`TideLicensingTab.tsx` 399,
  417-418): `save()` only alerts when `components.update` fails, and
  `handleCheckout` then redirects to the payer anyway. The candidate the
  user pays for is never in the record, so no later load activates it.
  `PaidLicenseKept` is violated this way under the `faults` constants.
- **Audit failure discards signatures** (`SignSettingsUtil.tsx` 90): a
  failed success event sends the flow's signatures to the catch. Spec §6
  says audit is best-effort and non-fatal.
- **No client after a rejected `getPayerUrl`** (135): the rejection is not
  handled, so no activation starts and checkout throws until a reload.
- **Customer portal for a superseded vendor id** (`TideLicensingTab.tsx`
  623): `handleManageSubscription` posts the vendor id of the clicked
  render after awaiting `authorizeStripeRequest`. A renewal the effect
  started meanwhile may have promoted the next vendor id. The model
  reaches that post in the `activation` state space.
- **Portal click dropped** (612, 623): the refs are checked before that
  await and written after it. If the spinner replaced the panel meanwhile,
  the write throws and nothing is shown.
- **Portal form posted to the admin origin** (709, 137): `payerUrl` is ""
  until `initializeTideClient` resolves, but the panel is rendered from the
  record at once. The model reaches such a post (`payer` FALSE).

## Not modelled

- **Cryptography.** Session keys, points and signatures are not modelled.
  Only who signs over which key matters to the properties.
- **Read-only and presentation code.** `fetchSubscriptionStatus`,
  `fetchLicenseDetails`, `generateJWK` and the rendering are left out:
  they set display state that no operation reads, or download a file.
  `handleManageSubscription` is modelled. Its three defects above are
  reachable but not kept as violation runs, because the twelve runs are
  spent on the findings that change persisted state.
- **Server side.** The server side of the REST endpoints is left out,
  except the effects the spec gives to `generateVrk`, `confirmVrk` and
  `generateVendorId`.
- **Signing flows.** The key nodes' signing flows are modelled from the
  spec: they succeed or fail.
- **`createTideComponent`.** It is exported but never called in this
  repository.
- **Client start-up.** `initializeTideClient` is assumed to run, which
  needs `systemHomeOrk` set.
- **Output.** The alerts and the console output are left out.
