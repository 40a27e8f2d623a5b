# A formal model of Ajar

Ajar is a parental-control system. Parents keep a policy for each child on a
backend; the child's devices hold a signed snapshot of that policy and enforce
it themselves, online or not. This directory holds TLA+ modules translated from
the code, the TLC configurations that check them, and theorems that TLAPS proves
about them for every value of their constants. Paths below are relative to the
repository's root.

The first part is the inventory: what the system consists of and what could go
wrong in it. Then come the plan, the modules, the runs, the findings and the
proofs, and last what is left out.

## 1. Inventory

| Component | State it keeps | Operations | Who it talks to | Module |
|---|---|---|---|---|
| Policy feed (`backend/src/domain/services.ts` PolicyService, policy routes of `http/api.ts`) | per child: default policy, rules, temporary rules (grants), policy version; per device: last synced version | setDefaults, addRule, removeRule, revokeGrant; buildSnapshot, syncSince, clampSyncedVersion; heartbeat | stores; event hub; devices | `PolicyServer` |
| Approvals (ApprovalService) | access requests, decisions, the rules and grants they produce | createRequest, decide, expireStaleRequests, consumeGrant | policy feed; event hub; notifier | `Approvals`, `Asks` |
| Event hub and long polls (`push/hub.ts`) | waiters per channel | notify, wait | device and parent long polls | `PolicyServer`, `ParentConsole` |
| Stores (`store/memory.ts`, `store/sql/*`) | every row | one call per read or write; no transactions | all services | each service's module |
| Families, enrolment, devices (FamilyService, EnrollmentService, DeviceService) | families, memberships, children, codes, devices | create, addParent, addChild, setChildTimezone, removeChild, createToken, redeem, heartbeat, remove, the cascades | policy feed; accounts | `Families` |
| Accounts and sessions (AuthService) | users, sessions, token versions, mailed links | register, verify, login, refresh, revoke, reset, change, deleteAccount | stores; mail | `Accounts` |
| Passkeys (`domain/passkeys.ts`) | challenges, credentials and their counters | begin and finish of enrolment and of the second factor, remove | stores | `Accounts` |
| Parent console (`web/parent/app.js`) | the session in localStorage; lists, live feed, toast on the page | every form, card and button; api() with its renewal | backend | `ParentConsole` |
| Evaluator (`shared/policy/policy-model.ts` and its mirrors in `apple/`) | none | evaluate | every client | `Evaluator` |
| Apple content filter and app (`apple/AjarFilter`) | snapshot, high-water mark, spent grants, queue of asks in an App Group; keychain | enroll, sync, install, post the queue, ask and wait, verdict, spend | backend; Safari extension | `AppleDevice` |
| Safari extension (`apple/SafariExtension`) | policy and spent grants in a worker that Safari unloads; storage; block page | adopt, restore, navigation, ask, native messages | App Group handler | `SafariExtension` |
| Browser extension (`windows/extension/*`) | config, policy, filters, pin, word and asks in `chrome.storage`; policy, clock anchor, spent grants in a worker the browser may end; the block page's state | policy and filter loops, token renewal, restore, navigation, recheck of tabs, ask and answer, link and disconnect | backend; native host | `PolicySync`, `WindowsExtension` |
| Categories (`categories/*`) | dataset and its version; filter assets on devices | replace, buildFilterAsset | policy feed; extension | |
| Trust anchor, safety floor, rate limiter, notifier, router, adapters, Windows agent | see "Not modelled" | | | |

What is hard here:

* **Concurrency depends on the build.** With `MemoryStore` or `node:sqlite`
  every repository call resolves in a microtask, so a handler runs alone until
  it really waits (signing, hashing, the hub, the network). With Cloudflare D1
  (`createD1`) every repository call is a round trip and handlers interleave at
  each one. No build has transactions: an operation of several calls may stop,
  or be overtaken, between any two.
* **One number carries the news.** A device learns of a change only because the
  version of its child is larger than the one it holds. If the version is bumped
  for the wrong child, too early, or not at all, the device is told that it is up
  to date, and nothing corrects that until the next edit.
* **Whole-row writes.** Devices, sessions, users and requests are read, changed
  and written back whole: a slow writer undoes a fast one, or, where the write is
  an upsert, brings a deleted row back.
* **Programs, not steps, must be all-or-nothing.** Leaving families, erasing
  children, resetting a password and answering an ask are sequences of calls with
  checks at the start; what was checked may be false by the end.
* **Clients that vanish.** A request may be given up while its handler still
  runs; a browser may end a worker between two writes to storage; an iPhone app
  may be ended at any await; messages between processes may be lost.
* **Several processes, one App Group.** The filter, the app, Safari's handler and
  the extension read, change and write shared state under locks of their own.
* **Waiting.** Long polls compare first and park afterwards; a nudge in between
  is lost, so delivery may not depend on nudges.

`PROJECT.json` lists the hazards of the code at their lines, with the properties
that cover each, and says why where none does.

## 2. Plan

The order was: the policy feed and the devices that follow it; the life of an
ask; who belongs to a family and what an account is; the clients a parent and a
child use. All of it is written:

| # | Module | Models | Composes | Proofs |
|---|---|---|---|---|
| 1 | `PolicyServer` | policy feed on both builds | | `PolicySyncProofs` |
| 2 | `PolicySync` | the extension's sync loop, faults of network and worker | `PolicyServer` | `PolicySyncProofs` |
| 3 | `Asks` | abstract: what the approval flow promises | | |
| 4 | `Approvals` | create, enrich, decide, expire, consume | implements `Asks` | `ApprovalsProofs` |
| 5 | `Handlers` | request handlers on one event loop and one store | | `HandlersProofs` |
| 6 | `Accounts` | accounts, sessions, links, passkeys | `Handlers` | `AccountsProofs` |
| 7 | `Families` | families, children, codes, devices, the cascades | `Handlers` | `FamiliesProofs` |
| 8 | `ParentConsole` | the console and the routes it calls | | `ConsoleProofs` |
| 9 | `Evaluator` | the decision as a pure function, and its two mirrors | | `DeviceProofs` |
| 10 | `AppleDevice` | App Group, app and content filter | `Evaluator` | `DeviceProofs` |
| 11 | `SafariExtension` | the worker, its storage, messages and block page | `AppleDevice` | `DeviceProofs` |
| 12 | `WindowsExtension` | the worker, its loops, the tabs, the options and block pages | `Evaluator` | `WindowsProofs` |

What would come next: the category dataset (its asset is versioned by the
dataset alone, see "Not modelled").

## 3. The modules

Everywhere the state is what the code keeps, an action is one step between two
points where something else can happen (a repository call, an await, a message),
and variables marked "Auxiliary" record history that no action decides by.

### PolicyServer

State: the rows the feed uses (`policyVersion`, `defaults`, `rules`,
`tempRules`, `consumed`, `lastSyncedVersion`), time as far as it matters
(`expired`, the grants whose `expiresAt` has passed), the edits under way
(`found`, `todo`) and the policy requests under way (`pc`, `call`).

* An **edit** (`setDefaults`, `addRule`, `removeRule`, `decide`, `revokeGrant`,
  `consumeGrant`) writes its row in one step and then owes a bump to the children
  in `todo[e]`; `bumpPolicyVersion` pays one of them. `bumpForScope` says whom an
  edit owes, except that `decide` and `consumeGrant` bump one child only, as the
  code does. `EditFails` is a thrown repository call or a dead process: what was
  written stays, and the bumps still owed go to `lost`.
* A **policy request** runs through the steps of its route, one per repository
  call: the clamp, heartbeat's read and its write, the version, the comparison,
  the park on the hub, the three reads of `buildSnapshot`, the version once more
  (`Stamp`), the signature (`Signed`), the heartbeat that records the snapshot.
  `call[h]` holds the handler's local variables. `HandlerFails` makes it answer
  an error from any of these steps.
* **The build** is the constant `SyncStore`. When it is TRUE, `turn` names the
  actor that is between two steps which the code runs without really waiting;
  nobody else may step meanwhile. When it is FALSE `turn` stays `None` and every
  interleaving of repository calls is allowed.
* `Wake` may happen at any time to a parked handler: it stands for a nudge, a
  stale nudge and the timer alike. Hence nothing checked here depends on nudges.

Contents are sets of ids. Whether a rule blocks or allows does not matter to the
feed, so an item has a scope and nothing else; the default policy is a value
because it is replaced in place. Category lists inside a snapshot are left out:
they are derived from the rules by `buildSnapshot` and read a dataset no edit of
the feed writes. `Request` can be called by anyone with any claim, which is how
`ServerSpec` uses it.

### PolicySync

`PolicyServer` with its devices. Each runs `startPolicySync`: `Poll` sends
`/policy/wait` with the version in its config, `Receive` takes the answer,
`SaveVersion` is the awaited `setConfig`, `applySnapshot` replaces SNAPSHOT and
starts a write of the snapshot that nobody awaits, which ends with `Stored`.
`Lose` gives a request up in either direction; its handler goes on and its answer
goes nowhere (`Unheard`). `Kill` ends the worker at any point and starts it
again; the stored snapshot is then being verified (`cached`) while the loop
already runs, and `restoreCachedPolicy` adopts it. Verification succeeds for
what the server signed and fails otherwise; cryptography is not modelled.

### Approvals and Asks

`Approvals` has the tables `requests` and `rules` (standing and temporary rules
that answers make), the clock in milliseconds and, per handler, where it is and
its local variables. One action per repository call of `createRequest` (the
duplicate, the enrichment written back as a whole row, the insert), `decide` (the
check, the rule or the grant, the row of the decision, the status),
`expireStaleRequests` (the list, then row by row) and `consumeGrant` (the
conditional UPDATE and the read that recognises its own time). `setting` fixes
the build and bounds of a behaviour at its start, so one run explores both
builds. `Asks` says what the flow promises without rows, handlers or stores: an
ask has one open row; an answer takes effect before it is announced and says what
was last put into effect; a closed ask stays closed. `ImplementsAsks` maps a row
of `requests` to an ask and `made` (the actions of the rules made for it) to its
effect, for the synchronous store.

### Handlers, Accounts and Families

`Handlers` is the discipline both share: a request runs a **program**, a sequence
of named steps, one per repository call and one per real wait. With a synchronous
store the handler keeps the event loop (`turn`) from one wait to the next; on D1
any handler may step. A step whose check fails ends the program as a throw does;
`Break` is a call that fails or a process that dies. The programs are definitions
named for the functions they translate (`redeem`, `deleteChildCascade`,
`resetPassword`, ...); a loop puts the steps of its body in front of itself. The
steps are actions that read or write the tables. A **mix** says which requests
meet and what is there before; it is chosen at the start of a behaviour.

* `Accounts`: rows of users (with `tv`, the token version, and the number of the
  password), sessions, mailed links, passkeys and challenges, and what clients
  hold (`tokens`, `mfa`). A whole-row write is the row read earlier with the
  changed fields. The constant `Overlap` says whether two changes of the
  credentials of one account may overlap; see the findings. The auxiliary `resting` is
  the counter of a passkey when last no sign-in with it was under way.
* `Families`: accounts, families, memberships, children, policy versions, codes
  and devices, with the cascades of `removeChild` and `deleteAccount` call by
  call. The auxiliary `gone` are the erased devices and children, `late` devices
  enrolled with a code older than the erasure of their child, `ghosts` families
  founded while their founder's account was being deleted.

### ParentConsole

The page's asynchronous functions are jobs: what is left to await, and the state
of the call it awaits (`api`: sent, carried out or not, back with a status,
renewal of the tokens, one resend). `panel`, `shown`, `picked`, `undo`, `busy` and
`lastCount` are what the page shows; `token`, `refresh` and `family` are in
localStorage. Of the server it has the rows the API lists, the sessions that are
live, and the feed (`requests/wait`), which compares counts and parks. A setting
says what the parent taps and how often, whether each tap waits for the one
before (`patient`), what others do meanwhile, how many requests meet a mishap and
how often tokens run out (`eras`).

### Evaluator, AppleDevice and SafariExtension

`Evaluator` is `evaluate()` on what the normalisers make of an address: the tiers
in order, scopes, priorities, ties, the playlist exception, and the two mirrors,
`evaluateInFilter` (PolicyStore.swift) and `evaluateInSafari` (policy.js).

`AppleDevice` has the App Group (`group`), the app's calls, each a record that
moves from await to await (`enroll`, `sync` with its install and its reports,
the posting of queued asks, ask-and-wait with its rounds, token renewal), the
content filter's verdicts (`let` counts the flows it let through by each
grant), and the backend as far as the app sees it (external: a policy per
enrolment that a parent edits). What is read and written back under
`PolicyStore`'s lock is a *write*; the lock is a process's own, so writes of two
processes overlap when the setting is `racing`. `install` reads the high-water
mark before it takes the lock, and `spendGrant` the policy whose grants it keeps: the
auxiliary `overlapped` records that an install fell between such a look and its write
(`"install"`, `"spend"`).

`SafariExtension` adds the background worker: memory that is lost when Safari
unloads it, storage that answers in order, tasks (the polls that adopt a policy,
the restoring of the cached one, a navigation, an ask), one-shot messages to the
native handler that may be lost, and the block page of each page.

Simplifications of the two: every snapshot is signed by the one key (tampering is
not modelled); the memoised state of the filter is left out; `install`'s writes
under the lock are one step, and so is `recordAsk`; a page is the names it has per
kind of target, so categories and CNAMEs are names like others; Safari spends
grants for top frames only, as the code does; there are at most two slots for
tasks and for messages.

### WindowsExtension

`PolicySync` follows the policy loop of this extension against the server's handlers,
call by call. `WindowsExtension` is the whole extension against a backend whose every
request is one step: what the other loops, the pages and the tabs do to the same storage
and the same memory.

* `worker` is the service worker's memory: SNAPSHOT, the clock anchor, SPENT, the
  filters, the source it chose for its life (`mode`), the restoring of the cache under
  way (`cache`), the recheck of the tabs under way (`recheck`, `listed`). `Kill` ends it
  between any two steps, `Start` is the event that wakes it.
* `task` has the three async functions that write the config (the policy loop with the
  token's renewal, the filter loop, the options page). Each is a record that moves from
  await to await; `Saving`, `ReadConfig` and `WriteConfig` are `setConfig`, which reads
  the config whole and writes it back whole, with whatever happened in between.
* `storage` is `chrome.storage.local`: config, snapshot, anchor, filters, asks, the pin
  and the parent's word. The pin names the server and its key at once; a signature
  verifies when the keys are equal.
* A tab shows something and may be on its way (`next`: sent, let through, or sent to the
  block page, and whether what that was decided by still `stands`). The block page's state is `mode`;
  its message to the worker is `asking`, with what `recordAsk` has read.
* `decide` and `evaluateInWorker` are the code's, on `Evaluator`; time is what the
  anchor makes of it, and a category is known once the filters are there.
* `reports` are the calls of `consumeGrant` under way. The backend has a policy per
  enrolment that a parent edits, consumed grants and asks; a parent may remove the device.

A *setting* says what is on screen, what policies there are and what may happen how often
(`left`). Auxiliary: `opened` counts the loads a grant let through in this life of the
worker, `excused` collects what the code does not guard against (see the findings),
`server.unsent` the pages whose ask was answered ok and sent nowhere, `stands`, `slipped` and
`checked` say whether what a load was judged by, and what the tabs were last looked at
by, has changed since (`Unsettled`). Simplified: the CNAME resolver
has answered when a page is judged, so a page has the names of its chain; storage is
read by `restoreCachedPolicy` together with the key; the week after which an ask is
forgotten does not pass; the word is given or not.

## 4. Properties

| Property | Says | Why it could fail |
|---|---|---|
| `NeverMoreThanSent` | the record of a device is at most a version signed for it, which is at most the current one | claims from devices, overlapping heartbeats |
| `VersionNamesPolicy` | a built snapshot of the current version carries the current policy | several reads, edits of several scopes, grants that run out |
| `UpToDateIsTrue` | a device whose config holds the current version enforces the current policy | all of the above, lost answers, the order of the client's writes |
| `RecordNeverRegresses` | the recorded version never goes back | a retry claims an older version than the record |
| `HeldNeverRegresses` | no answer puts an older policy in force | late answers of given-up requests, a regressed record |
| `VersionArrives`, `PolicyArrives` | in the end a device holds the current version, enforces the current policy, for good | parked handlers, lost requests, killed workers; grants that run out or are spent |
| `AnswersAreBacked` | no ask reads as answered before a rule that says so was made (any build) | decide's order, failures between its calls |
| `AnswersAgree` (`OneAnswer` and `RulesMatchTheAnswer`) | one decision per ask; what is in force says what the answer says | two parents, re-files, tidying |
| `SpendsAgree` (`SpentOnce` and `SpendsShareTheirTime`) | a single-use grant is spent once; on D1, spends that both succeed share a millisecond | the conditional UPDATE recognised by its time |
| `ContextKept` | a re-file never takes the context of an ask away | whole-row enrichment |
| `ImplementsAsks` | the flow implements `Asks` | all of these |
| `OldPasswordIsOut` | no session opened with an older password signs in | logins that straddle a reset |
| `SignedOutStaysOut` | a session that was signed out stays out | refresh and reset write whole rows back |
| `DeletedIsGone` (`ErasedStaysErased` and `ErasedIsNotRecreated` of Accounts) | a deleted account stays deleted, and no older link creates it again | late writes, links mailed before |
| `ChallengeSettlesOnce`, `AlwaysAPasskey` | a challenge settles one ceremony; the last passkey stays | two answers to one challenge across waits; removals, enrolments and deletion together |
| `CounterHoldsItsGround` | a passkey's counter is never below what it was before the sign-ins under way, and none of them gets through with that or less | sign-ins that overlap and write what they read before, in either order |
| `EveryFamilyHasAnOwner` | a family with members, children or devices has an owner with an account | two owners who leave, codes redeemed meanwhile, failures in a cascade |
| `CodeEnrolsOneDevice` | a code enrols one device, plus one per failed redemption | the device is created before the code is marked |
| `ErasedStaysErased` (Families) | erased devices and children do not come back | heartbeat's upsert, setChildTimezone's insert |
| `NothingNamesTheGone` | nothing is left that names a child that is gone | assignments, codes and versions written during a cascade |
| `OneTapOneChange` | one tap changes at most one row | api() resends after a renewal |
| `SessionKept` | losing the connection signs nobody out | several renewals at once |
| `ShownIsTrue` | idle cards show what the server has of the selected family | answers of an earlier family |
| `CountArrives` | the number of asks on screen comes to be right for good | the feed's comparison, backoff |
| `NeverBackwards` | the enforced policy is never older than before, nor lost | late answers, enrolling again |
| `OnceMeansOnce` | the filter lets one page through by a single-use grant; no life of the Windows worker lets more than one load through | spends by Safari, installs, reports; snapshots, tabs that are sent on, a worker that ends |
| `AsksKept` | an ask the block page remembers is queued, posted or refused | full queue, failed post, app ended |
| `SafariFollows` | a running worker comes to judge as the filter and the reference do | restoring, adopting twice, unloading |
| `AskedIsFiled` | an ask the Windows block page remembers as asked is with a backend or the host; two kinds that the code sends nowhere are named in it (`server.unsent`) | lost calls and lost answers, timeouts, a worker that ends, an answer to a page that has gone |
| `TabsFollow` | after a recheck a tab at rest shows what the policy does not close or the block page of what it does | tabs that move while they are listed, grants spent, filters that arrive |
| `FollowsItsChild` | a worker that polls comes to enforce the current policy of the child it is linked to, for good | config written back whole, restoring, a token renewed, linking again |

A module has at most one type invariant (`TypeOK`, `ClientTypeOK`; the latter is
proved, no run lists it), which also relates
parts of the state (a device waits for a handler exactly when its loop is waiting;
a turn belongs to a handler that has steps; only a running worker has tasks).

Those that say "with a synchronous store" in their comments do not hold on D1; the
findings name the lines. `OldPasswordIsOut`, `CounterHoldsItsGround`, `AnswersAreBacked`,
`SpendsShareTheirTime`, `ErasedStaysErased` of Accounts, `HeldNeverRegresses`,
`VersionArrives` and `NeverMoreThanSent` hold on both builds.

## 5. Runs

| Run | Module | Distinct states | Shows |
|---|---|---|---|
| `server_d1` | PolicyServer, D1 | 0.4 M | `NeverMoreThanSent` against arbitrary clients on all three routes |
| `policy_arrives` | PolicySync, synchronous, fair | 0.6 M | `UpToDateIsTrue`, `VersionNamesPolicy`, `RecordNeverRegresses` and `PolicyArrives` for two siblings, one of whom has a device, and a family-wide single-use grant, with a lost request and a failing call |
| `version_arrives_d1` | PolicySync, D1, fair | 0.5 M | `VersionArrives`, `HeldNeverRegresses` with a lost request and a killed worker |
| `approvals` | Approvals, both builds | 1.9 M | the approval flow, and that it implements `Asks` |
| `accounts` | Accounts, both builds | 1.3 M | passwords, sessions, erasure, passkeys |
| `families` | Families, both builds | 0.2 M | owners, codes, erasure, dangling names |
| `console` | ParentConsole, fair | 0.4 M | taps, sessions, cards and the live feed |
| `iphone` | SafariExtension, fair | 0.3 M | installs, single-use grants, asks, Safari's policy |
| `windows` | WindowsExtension, fair | 0.7 M | the extension on Windows: single-use grants, asks, tabs, linking again |
| `family_grant` | PolicySync, synchronous | | violation of `UpToDateIsTrue`: see findings |
| `asks_arrive` | ParentConsole, fair | | violation of `AsksArrive`: see findings |
| `asks_reach_parent` | SafariExtension, fair | | violation of `AsksReachParent`: see findings |

**Bounds.** Every bound is a constant, a field of a mix or a setting, or the size of a
set of ids, and stands in the guards.

* *Policy feed.* Two handlers are one request and the one that overtakes it; more
  only repeat that pair, since a device has at most one request it listens to. One
  editor suffices with a synchronous store, because edits cannot overlap there; on
  D1 the edit still interleaves with both requests at every call. `MaxEdits` = 2
  gives a change and one that follows it (add and remove, grant and revoke or
  spend). `MaxFailures`, `MaxLosses` and `MaxKills` = 1 put one fault anywhere. `server_d1`
  has a family rule `r1` and a single-use grant `g1` for one child, the scopes that
  concern several children and one; `policy_arrives` has the family-wide single-use
  grant `gAll`, made for an ask of the child that has the device. `MCClaim` = {9} is a version that never exists;
  every version that exists, and -1 (what the routes make of a missing or malformed
  number), is claimed too.
* *Approvals.* Two handlers, two rows and two rules: an ask filed twice, answered by
  two parents, one of whom may answer for one child only. On D1 one ask and one row
  at a time, with a failing call or with a second tick of the clock, since the D1
  properties are about one grant or one row.
* *Accounts, Families.* Two requests at a time, in groups that meet: each mix has
  the requests that touch common rows, and together they hold every request. Both
  builds, with one failing call where the program has several writes; `families`
  makes at most two or three requests in a behaviour (`limit`), `accounts` is bound
  by its ids: three sessions, two links, two passkeys, two challenges,
  `MaxPasswords` = 2. A passkey is a synced one, whose counter stays 0, or one that
  counts: from 1, with reports of 2 and 3, so that a copy may be level or behind; sign-ins
  may overlap.
* *Console.* Fifteen settings: watching, managing, hurrying, entering; one to three
  taps, one mishap, one era, one late ask. Two is what a race takes: a tap and a
  change, a renewal and another call.
* *iPhone.* Sixteen situations, each with a budget (`left`) of what may happen; two
  calls of the app, two slots of tasks and messages.
* *Windows.* Eighteen situations, each with a budget (`left`) for what may happen:
  linking and linking again, a single-use grant, what is on screen, asks, the native
  host. One or two tabs and pages, two enrolments, at most one mishap and one end of the
  worker: a lost call matters by what it leaves half done, which one shows; two loads,
  asks or edits are what it takes for a second to meet the first, and a third load, where
  the worker may end, for a second in one life.

The safety proofs below need none of these bounds. Deadlock is checked in the runs of
`PolicyServer` and `PolicySync`, where devices poll for ever; the other runs say
CHECK_DEADLOCK FALSE, because requests, taps and budgets run out there and a finished
behaviour stops rightly. Handlers, rows and ids that are interchangeable are
symmetric in the runs of safety properties only.

**Fairness.** `PolicySync!FairSpec`: `SF` for the steps of a handler and of an edit
that has begun: the event loop is a queue, so what is ready again and again is run;
with a synchronous store readiness comes and goes with `turn`, hence strong. A parked
handler always wakes: the hub's timer is set at every park. `WF` for answers to
nobody: a response is written as soon as it is ready. `SF` for a device's loop:
`startPolicySync` loops until it is stopped, with a pause after an error, and a
handler is not always free. No fairness is assumed of edits, expiry, faults, `Stored`
or `restoreCachedPolicy`; `MaxEdits` makes edits stop, which is what "in the end"
means here. `ParentConsole!FairSpec`: `WF` for opening the page and for the steps of
each function that has begun, because promises settle and `requests/wait` answers at
its timeout; nothing is assumed of the parent, of others, of mishaps or of tokens
running out. `SafariExtension!FairSpec`: `WF` for tasks and calls that have begun,
the delivery of messages and storage, the handler's answers, the alarm that wakes the
worker and the poll it makes, and the app being opened; none of edits, loads,
unloading, ending the app or losing a message, all of which the budget bounds.
`WindowsExtension!FairSpec`: `WF` for what the worker and the options page have begun
and for the policy loop, which `startPolicySync` runs until the worker ends: promises
settle, storage answers, a call returns or fails; nothing is assumed of parents, the
child, the filter loop, mishaps or the worker's being ended or woken.
## 6. Findings

With a run:

* **A family-wide grant bumps one child** (`family_grant`). `decide` bumps
  `req.childId` whatever the scope (`backend/src/domain/services.ts:1425`); siblings'
  devices are told they are up to date. `consumeGrant` (`:1358`) has the same shape.
* **An ask that never appears** (`asks_arrive`). `requests/wait` answers at once only
  when the number of pending asks differs from the console's
  (`backend/src/http/api.ts:1109`). A decision and an ask that land between two polls
  leave the number as it was, and the console never shows the new one. The comment at
  `:1100` says this case is delivered; it is only while the request is parked.
* **A queue nobody posts** (`asks_reach_parent`). The release build's app posts queued
  asks only when a device enrols (`apple/AjarFilter/App/FilterController.swift:334`);
  the block page says they reach the parent when the app next opens
  (`apple/SafariExtension/Extension/blocked.js:258`).

Met while modelling, and excluded from the properties by an explicit condition:

* *D1 (the condition `sync =>`).* `buildSnapshot` reads the version last (`services.ts:914`), so
  an edit after its other reads leaves a device current by number without the edit.
  `heartbeat` writes back a row it read earlier (`:756`): the record goes back, and a
  removed device is inserted again (`:748`). Two parents both decide (`:1400`),
  `expireStaleRequests` overwrites an answer (`:1384`), two redemptions both enrol
  (`:700`), `refreshSession` revives a revoked session (`:479`), a challenge is taken
  twice (`store/sql/sql-store.ts:127`), two removals take the last two passkeys
  (`domain/passkeys.ts:238`), `markTemporaryRuleConsumed` takes another's
  write of the same millisecond for its own (`:438`).
* *A worker that ends between two writes (`MaxKills = 0` in `UpToDateIsTrue`).* The new version is
  stored before the snapshot (`windows/extension/backend-client.js:187`,
  `background.js:102`); the restarted worker is up to date by number and enforces the
  old snapshot.
* *Changes of credentials that overlap (`Overlap = FALSE`).* A reset reads the account
  and hashes while a sign-out-everywhere lands, then writes the older token version
  plus one back (`services.ts:363`, although the comment at `:347` says that
  stolen tokens die); a login with the old password that straddles both stays
  signed in.
* *Sign-ins that overlap (nothing is excluded).* Two sign-ins with one passkey write their
  counters in either order (`domain/passkeys.ts:223`), so that the lower may stay and a
  copy of the passkey may report a number between the two; `CounterHoldsItsGround` says
  what holds all the same.
* *A child's time zone in SQL.* `setChildTimezone` writes through `createChild`, which
  is a plain INSERT in SQL and throws on the row that is there; the comment at
  `services.ts:614` says "id-keyed upsert in both stores".
* *Links and codes older than an erasure (`late`, `ghosts`).* `redeem` does not look
  the child up (`services.ts:703`), and a family may be founded while its founder's
  account is being deleted.

Of the console, without a run: `isAuthError` never matches the backend's messages, so
a revoked session makes the live loop back off for ever; "Not now" makes a temporary
rule while Undo deletes a standing one, answers ok and says the rule is gone
(`web/parent/app.js:1088`); `lastCount` is kept when the family changes; a 429 or a
5xx on a renewal clears the tokens although the comment near `:1190` says that only
a rejection does (`SessionKept` allows it); the busy mark is lost when the list is
drawn again; a token renewed in flight is stored after the account was closed. Two
sign-ins with a passkey may overlap (the button is only `aria-disabled`), and a renewal
that the server refuses for the first then clears the tokens of the second (`SessionKept`
allows it). Founding a second family loads the first one's cards on the way and does not
wait for them (`web/parent/app.js:631` to `:660`), so they may come in over the new
family's (excluded from `ShownIsTrue`), and tokens that run out a second time within one
request leave a card that "couldn't load" (likewise).

Of the iPhone, without a run: `spendGrant` keeps of the spent grants those of a policy
it looked up before it took the lock. The comment at `PolicyStore.swift:300` calls this
harmless, "at worst one stale id that the next spend removes"; but an install between
the look and the write may bring a grant that is spent before the write, which then
forgets it, and the grant opens a second page (the condition `overlapped = {}`). An
answer to an earlier enrolment that is installed after a second one does the same (the
condition `server.enrolled <= 1`). Locks are a
process's own, so a queued ask or a spend can be lost between two processes (`:416`;
the condition `~racing`); two installs that overlap leave an older snapshot and a
lowered high-water mark, and may bring back a grant whose spending was forgotten (the
same condition), and Safari then refuses the policy as rolled back until the
next sync; what the filter has spent Safari does not know, and after Safari's own spend
the filter blocks the very navigation it was spent for; the first event of a route
change spends a single-use grant and the second is blocked (`content.js:109` calls both
firing harmless); restoring a cached policy can set Safari back for one poll; Safari
without a snapshot blocks even the hosts of the safety floor, which the filter lets
through; "Not now" shadows a later "Open" of lower scope for its five minutes; a
report of a consumed grant that is refused with 403, 404 or 410 holds up all later
ones; enrolling again for a child with a lower version is refused for good as a
rollback; `lastError` is never cleared, so later asks wait one round only; a token
renewal that saves after a sign-out brings the credentials back; `docs/SECURITY.md:164` says
single-use grants are not enforced on iOS, though the filter spends them.

Of the extension on Windows, without a run: a clock anchor restored from an earlier life
is used with the new life's `performance.now()`, so after a restart the trusted time is
behind (the comment at `windows/extension/background.js:148` says it only moves
forward); a load let through before a policy or the restored one comes into force and
shown after the recheck is not looked at again (`:168`; the condition `~slipped`), nor are
the tabs when new filters arrive or a grant runs out (the condition on `checked`); a page opened by a
single-use grant is closed when the snapshot that follows its own report arrives; an ask
that comes before the worker knows its source, or with no host to pass it to, is answered
ok and sent nowhere (`background.js:751` to `:755`; their pages are in `server.unsent`),
although `blocked.js:23` says that "asked" stands for an acknowledged request; after Disconnect the worker keeps its
SNAPSHOT, and a browser linked while its worker is in native mode starts to follow its
child in the worker's next life only; in native mode nothing that was spent is forgotten,
no tab is rechecked, and without a pin the cached snapshot is dropped at every start; an
ask made again shows the first answer; two tabs that record asks at once keep one of them
(`recordAsk`); enrolment writes the config before the pin and the word (the condition
`"torn"`); `setConfig` writes one link's config over another's, which after Disconnect
links the browser again, and while it lasts an older link's policy is asked for, grants
and all (the condition `"mixed"`); restoring puts the cached snapshot over a newer one
(the condition `"late"`); SPENT forgets the grants of a child when the browser is linked
to another, so a browser that comes back to the first opens its grant again in the same
life (the condition `server.links <= 2`). The comment at
`windows/extension/blocked.js:20` says that nothing in `background.js` sends a parked tab
on; `reevaluateOpenTabs` does.

On a tie between temporary rules of opposite action the mirrors differ: the reference
and Safari keep the order of insertion (`shared/policy/policy-model.ts:251`), the
filter lets the "no" win. `FilterMirrorsReference` excludes exactly that.

## 7. Proofs

No bound, number of children, devices, handlers, rows or settings is fixed in a
theorem; the assumptions are those named in the modules and what the theorem itself
assumes.

| Theorem | Property | Assumes |
|---|---|---|
| PolicyServer: `TypeCorrect`, `RecordIsNeverAhead` | `TypeOK`, `NeverMoreThanSent` | |
| PolicySync: `SystemTypeCorrect`, `SystemRecordIsNeverAhead`, `HeldPolicyNeverRegresses` | `ClientTypeOK`, `NeverMoreThanSent`, `HeldNeverRegresses` | |
| PolicyServer: `RecordNeverMovesBack` | `RecordNeverRegresses` | a synchronous store |
| PolicyServer: `SnapshotsNamePolicies` | `VersionNamesPolicy` | a synchronous store; grants stay with the child that asked |
| PolicySync: `UpToDateIsTrueOfDevices` | `UpToDateIsTrue` | the same, and no killed worker |
| Approvals: `TypeCorrect`, `AnswersAlwaysBacked`, `SpendsAlwaysShareTheirTime` | `TypeOK`, `AnswersAreBacked`, `SpendsShareTheirTime` | |
| Approvals: `AnsweredOnce`, `OneRowPerAsk`, `GrantSpentOnce`, `RulesAlwaysMatch`, `ClosedIsFinal`, `ContextAlwaysKept` | `OneAnswer`, `OneOpenRowPerAsk`, `SpentOnce`, `RulesMatchTheAnswer`, `StatusIsFinal`, `ContextKept` | in the properties: a synchronous store |
| Approvals: `AnswersAlwaysAgree`, `SpendsAlwaysAgree` | `AnswersAgree`, `SpendsAgree` | in their parts: a synchronous store |
| Approvals: `ApprovalsImplementAsks` | `ImplementsAsks` | in the property: a synchronous store |
| Evaluator: `FilterMirrorsReference` | | no spent grant in force, no mixed tie of temporary rules |
| Evaluator: `SafariMirrorsReference` | | a page has no application |
| SafariExtension: `SafariTypes`, `NoAskIsLost` | `TypeOK`, `AsksKept` | in the second: writes of two processes do not overlap |
| SafariExtension: `EnforcedNeverBackwards` | `NeverBackwards` | in the property: no overlapped install |
| SafariExtension: `OnceIsOnce` | `OnceMeansOnce` | in the property: no overlapped writes, installs or spends, one enrolment |
| WindowsExtension: `WindowsTypes` | (no run lists it) | |
| WindowsExtension: `AskedMeansFiled` | `AskedIsFiled` | in the property: the page is not among those whose ask a worker without a source, or a native one without a host, took (`server.unsent`) |
| WindowsExtension: `OnceIsOncePerLife` | `OnceMeansOnce` | in the property: no older policy or config over a newer one, at most two links; of what a child may be given: `GrantAssumption` |
| WindowsExtension: `TabsAlwaysFollow` | `TabsFollow` | in the property: what was decided before a change and shown after it is left out; of a child's policy: `GrantAssumption` |
| ParentConsole: `ConsoleTypes`, `SessionIsKept`, `OneChangePerTap` | `TypeOK`, `SessionKept`, `OneTapOneChange` | |
| ParentConsole: `WhatIsShownIsTrue` | `ShownIsTrue` | in the property: one parent who waits for each change, no mishap, no second family |
| Families: `TypeCorrect`, `CodesOnce`, `ErasedStays` | `TypeOK`, `CodeEnrolsOneDevice`, `ErasedStaysErased` | in the last two properties: a synchronous store |
| Families: `FamiliesAreOwned`, `NothingDangles` | `EveryFamilyHasAnOwner`, `NothingNamesTheGone` | in the properties: a synchronous store, and for the second no failed call; of the store at the start: `StartAssumption` |
| Accounts: `AccountsTypes`, `DeletedStaysDeleted` | `TypeOK`, `ErasedStaysErased` | |
| Accounts: `AnOldPasswordOpensNothing` | `OldPasswordIsOut` | changes of one account do not overlap |
| Accounts: `ACounterHoldsItsGround` | `CounterHoldsItsGround` | |
| Accounts: `NoAccountFromAnOldLink`, `AChallengeSettlesOnce`, `AccountsKeepAPasskey` | `ErasedIsNotRecreated`, `ChallengeSettlesOnce`, `AlwaysAPasskey` | in the properties: a synchronous store |
| Accounts: `ASignedOutSessionStaysOut` | `SignedOutStaysOut` | both |
| Accounts: `WhatIsDeletedIsGone` | `DeletedIsGone` | in its second half: a synchronous store |

The assumptions of the policy theorems are what the findings show to be needed:
without each of them the property fails.

**PolicyServer and PolicySync.** `RecordInv` strengthens `NeverMoreThanSent`: every
number on its way into the record (the note a handler is about to write, the row it has
read, the version of the snapshot it has signed) is at most what was signed for that
device. The clamp makes it so for claims, `Stamp` for snapshots. `OrderInv` strengthens
`HeldNeverRegresses`: the version in config is at least that of every snapshot a device
has anywhere, and at most that of an answer under way to it, because every answer is
stamped with the version of its moment. `TurnDiscipline` says that whoever is inside a
synchronous stretch owns the event loop. From it `DraftInv` follows: a snapshot under
construction agrees with the rows it has read so far, and a heartbeat with the row it
read (`BeatInv`; this alone is what `RecordNeverMovesBack` needs, wherever grants reach). `SyncInv` adds that a finished snapshot *names* its policy: unless a bump is owed,
either its version is no longer current or it says what the policy is. Every edit that
changes what a device should see owes a bump to that device's child (here
`GrantsStayWithTheChild` is used) and a bump makes old snapshots old. `WaitInv` and
`HeldInv` carry this to the devices: an awaited handler works for the device that waits,
and config, inbox and the policy in force name the policy together.

**Approvals.** `Inv` is the type invariant, `Locals` (what a handler's local variables
say about the tables at each of its steps), `AnswersAreBacked`, and `SpendsMatch` (a
recorded time of a grant is the time of all its successful spends). `SyncInv` is two
facts about a synchronous store: `OneAtATime` (a handler that is past its first call is
the one whose turn it is) and `Fresh` (what that handler has read is what the tables
say). From these each property of the synchronous store is one step, and each step of
the flow is a step of `Asks` or leaves its variables alone.

**Evaluator.** The first of a set under a total order does not depend on how ties are
broken when no tie has two actions, and a tier nobody has a rule in may be left out of
the order.

**AppleDevice and SafariExtension.** `DeviceInv` has the shape of the settings, of the
backend, keys, App Group and calls, and `MarksOK`: while no installs have overlapped,
the version in force is the high-water mark, and at most one call is at `install`, with
a body at or above the mark. So an install cannot lower what is in force, and nothing
else writes it. `SafariInv` adds what the queue, the writes under way, the filter's flow,
the worker, its tasks, its messages, its storage and the block pages hold, each a record
of a named set (`TaskRecord`, `MailRecord`, `Read`). `AsksInv` follows an ask from the
page to the backend: what the page was told or remembers is kept (`Kept`: in the queue,
posted, or refused), and a write that takes a target out of the queue is of one the
backend has or has refused.

`OnceMeansOnce` needs to know that a grant whose spending was forgotten does not come
back. Three invariants carry this. `NamedOK`: no call names a device that was not yet
enrolled. `HistoryInv`, until the phone is enrolled again: every policy in force or on
its way is of a stage of the backend's policy and, at the current version, what the
backend would send now (`SignedOK`); a grant that a later version lacks is dead, and
nobody carries it in a version later still unless it has run out (`NoReturn`;
`GrantAssumption` says of the parent's edits that a grant which leaves does not return).
`SpendInv`: a grant that has opened a page has run out, is in no policy that can still
come into force, or is spent, or being spent, as long as the policy in force carries it
(`LetOK`, `UsedUp`); and what a spend has looked up is still the policy in force
(`LooksOK`), which is what an install in between would break.

**WindowsExtension.** `TypeInv` gives the shape of everything the extension keeps and of
the records its async functions hold between two awaits (`TaskOK`, `MessageOK`,
`Cached`). Grants, policies and servers are whatever the settings say. `AsksInv` follows
a message: one on its way back is of an ask that was filed, and what `recordAsk` has
read and will write back with its own was filed too, so the copy that wins when two tabs
write at once is true as well. Filed here means with a backend, with the host, or in
`server.unsent`. A backend and the host never forget that an ask came.

`OnceMeansOnce` counts the loads that a grant let through in this life of the worker
(`Kill` starts the count anew), and `CountOK` says why the count is at most one: such a grant is noted in SPENT,
or it is `Gone`: it is in neither the policy in force nor the one on its way, nothing
cached is about to bring it back, and it is `Dead`, in no answer that the loop may yet
get. SPENT forgets a grant only when a snapshot lacks it, so what has to be shown is that
a grant which a snapshot lacks is dead (`HistoryOK`). It was in the child's policy
before (`Born`), so it has left it, was consumed or has run out, and does not return
(`GrantAssumption`, which is what `Approvals` makes of grants: an id is given once, and
what is revoked or consumed stays so). All of this is about the links that the loop may
still ask for (`Polls`): the one in the config, the one `setConfig` is writing, the one
the loop has read and those that will come. `LinksOK` puts them in order, the loop's no
later than the config's. Each condition of the property breaks one part: `"mixed"` the
order of the links, `"late"` what is on its way, a third link `Polls` itself.

`TabsFollow` is `FollowInv` of a worker with a backend, whatever else has happened. A
load that was decided and still `stands` would be decided so again (`LoadStands`), and
what a tab shows is `Right`, is on the list the recheck has, or is yet to be looked at
(`Looked`): a snapshot and a restored policy set `recheck`, and once time has moved
`checked` is in the past (`CheckedBefore`). Between the decision and the screen grants
are spent, by any tab. This changes what a load is judged by, but no answer that counts:
whatever was spent opened pages (`SpentOpened`), and of an ordered set the first stays
first, or a grant that opens comes before it, when such grants are put back
(`FirstOfMore`). So a page that is open without the spent grants is open with them
(`MoreGrants`, `LetThrough`), and a page that is closed stays closed when another is
spent (`StaysDecided`).

**ParentConsole.** `TypeInv` says of every function under way that what it has left to
do is a rest of one of the page's functions, that it has the names and tokens its call
needs (`ArgOK`, `TokensOK`), and that an answer is one the server gives to that call
(`ItemsOK`). It has what `SessionKept` needs: a token the page holds is of a session that
began, and a renewal is refused only for a session that has ended (`RefusedOK`); a session that has ended does not come back (`Forward`).
`OneChangePerTap` weighs what was changed and what is owed: the rows made and removed,
and the functions that may yet change one (`Owes`: a change left to do, or one
that was sent and is not answered, or was refused for its token), are together at most the taps.
A tap adds one function; the server's carrying out a change turns what is owed into what
is made; a refusal for the token leaves the change undone, which is why `api` may send
it again.

`ShownIsTrue` is about a console at rest, and everything that leads there is in
`ShownInv`, which is of settings where one parent waits for each change and nothing goes
wrong (`Calm`). `Patient`: besides the live loop and loads that nobody waits for, one
function at most is under way, and it has left to do what its name allows. `Outside`:
until the console is on screen, only functions of the sign-in cards run, nothing is shown of the
defaults and no toast offers to take anything back; from then on none of these functions
runs. `SteadyOK` holds while the console is on screen and the answer to a sign-out is not
about to close it: the session lives and no request is refused for its token (`Alive`);
a card that is loaded is loaded for the selected family, and an answer that has come back
says what the server has now (`LoadOK`, because whoever makes a change is `Alone` with
the live loop); defaults under way are what the controls show (`PutOK`); and, once a
family is selected, each card either tells the truth (`Tells`) or there is a function
under way that mends it (`Mends`: it loads the card, selects the family, or has just
changed the card's rows and loads them next). When only the live loop is left nothing mends, so all cards tell the truth.

**Families.** `HandlersProofs` has what any programs on `Handlers` share: facts about
the order of steps (a step precedes, follows or excludes another) that stay true while
a program runs and when a cascade is put in front of it, and `LoopOK`: on a synchronous
store whoever does not wait next has the turn. `FamiliesInv` is the types of the tables,
and for each handler `Facts` (the order of the steps it has left), `Needs` (a step that
is left finds the names it uses: given with the request or found by an earlier step that
must have come before) and `CodeKnown`. `SyncInv` adds, for a synchronous store, what
the step right after a check relies on (`SafeHead`), which nobody disturbs because
everybody else waits; that a cascade erases its family's own children or such as are gone
(`ErasesItsOwn`), which every step leaves true because a child's id is not used again;
and that a live code nobody is about to mark has enrolled at most one device for every
call that failed (`CodesOK`). A code's fifteen minutes may end between a redemption's
check and its device, even in a turn: `SafeHead` does not say that the code is live.

`EveryFamilyHasAnOwner` is about a loop between requests and is not inductive within a
turn, where an account goes step by step. `OwnersInv` says what holds at every step: a
family with a member or a child has an owner with an account, and so has every
membership (`Owned`, `HaveAccounts`), except in families founded under a deletion; and of
whoever has the turn, `Claim`: what the check just passed showed is still so (`AtHead`);
once the families to leave are listed, each family that only this user owns is still in
the list or is the one being erased, until the memberships go (`Leaves`); a family's
children go before its members (`Erases`). Whoever waits claims nothing, because of the
order of the steps (`Order`: no wait comes between the list and the erasures), so nobody
can break another's claim. `StartAssumption` says of the store at the start only what
requests leave: owners, no second membership, names of children there are.

Devices and codes have an invariant of their own, `HomesInv`: a family that has a device or
a live code has a member (`Homed`). A code is made by somebody who is a member, a device
enrols with a code found live in the same turn (`Housed`), and the steps that take a
family's last members away come after those that swept its devices and its codes
(`Swept`), or leave another owner (`dropMemberships`, by `Claim`). With `Owned` this gives the property for devices,
whichever code they came from.

`NothingNamesTheGone` is about a loop between requests as well. Its invariant `NamesInv`
has `Store`, which holds at every step: memberships are of families there are and one per
user (`Founded`, `OneRowEach`), a code names a child its family has or had, a device a
child there is unless it came from an older code. `Names` is of whoever has the turn: what
the check found still is so (no row yet of the person about to be added, the assigned
children there), and what the cascade has passed is gone (`dropChild` finds no device of
the child and no version, `dropFamily` no membership). `Guardians` allows the one
exception on the way, `Assigned`: a guardian may keep an erased child while the cascade
that erased it has yet to list the guardians or has this one on its list. A failed call
stops a cascade there, so `Guardians` is of runs without one; this is what `failures = 0`
in the property is for. Most steps only take rows away or leave them alone (`Fewer`), and
one lemma, `FewerStore`, does for all of them.

**Accounts.** `Did` says once, for every step of every program, what it does to the
handler's variables (`Same`, `Learns`) and to each table (`UserEffect` and its likes);
one lemma per action shows that the action does that, and all the rest is proved about
`Did`. `AccountsInv` is the types with `Facts` and `Needs` as above. `Rows` is for
changes that do not overlap: every token clients hold and every row a request has read
*fits* the account it names (`Fits`: the account is erased, or the row there is newer, or
it is as new and has the same password), a request about to mint tokens holds the
password of the row it holds, and one about to write a row back holds the
row there is. A row goes forward or is erased (`RowsGrow`), so what fits
once fits for ever. Counters need no such condition: `CounterInv` says that a sign-in under way has read a
counter not below the one at rest, and once its assertion is verified has reported one
beyond it, zero apart; so whichever of several writes last writes no less, and the counter
at rest is raised only when none is under way. `SyncInv` is for a synchronous store: what
the step right after a check relies on (`SafeHead`: the session is live, the challenge there, the passkey not
the last, no registration pending), a taken challenge has one holder and has settled
nothing yet (`ChallengesOK`), and every pending registration is younger than the last
deletion (`LinksNew`). That a signed-out session stays out needs both: the synchronous
store for the row of the session, the rows for the version in the token.

Only model-checked: the liveness properties, which the prover does not treat under
fairness. Every safety property and every refinement that a run checks is a theorem.

## 8. Not modelled

* **Cryptography**: signing, hashing, TLS, passwords and WebAuthn are assumed to work;
  what every device accepts is signed by the one key, and the signature is
  its key (`WindowsExtension` has two servers, of different keys). The Windows
  extension's trust anchor (which server may be linked, the pin, the parent's word) is
  in that module; canonical form, fingerprints and the word's hash (`shared/trust`) are not.
* **The category dataset.** `replace` writes it with many calls and no transaction, and
  a device downloads an asset that carries the categories its own rules name but is
  versioned by the dataset (`services.ts:980`): a new category rule does not change
  the version, and the device keeps an asset without it until the dataset changes.
  Membership is a Bloom filter over hashes; the models take a page's categories as
  names it has.
* **Of the browser extension**: the CNAME resolver, whose answer a page has from the
  start; what the options page says and offers beside linking and Disconnect; tampering
  with storage.
* **The audit log, listings, notification endpoints, mail and push delivery**: written
  or read in one call, and nothing decides by them.
* **Rate limiter**: a fixed window per key; its refusal is a mishap of `ParentConsole`.
* **Router, validation, worker and node adapters**: stateless, except that a thrown
  error becomes an answer, which is what a failing step is.
* **Safety floor and YouTube normalisation**: string processing with conformance vectors
  of its own; a page is what they make of an address.
* **Windows agent**: rewrites the same registry values on a timer.
* **The parent app for iPhone, the onboarding pages, every screen's layout
  and wording.**
* **Larger mixtures**: several edits at once on D1 (`Editor` with two members) and three
  requests at once are allowed by the modules and, where there are proofs, by the proofs,
  but are not part of a run, for size.
