----------------------------- MODULE PolicyServer -----------------------------
(***************************************************************************)
(* The policy feed of the backend: PolicyService, the part of              *)
(* ApprovalService that writes grants, DeviceService.heartbeat and the     *)
(* three policy routes of http/api.ts, for the children of one family.     *)
(*                                                                         *)
(* A child's policy has a version.  Every edit writes its data first and   *)
(* then bumps the version of the children it concerns; a device asks with  *)
(* the version it holds and is answered with a whole snapshot, or with     *)
(* "up to date".  The version number is the only thing that tells a device *)
(* that its policy changed, so it must name the content it stands for.     *)
(*                                                                         *)
(* Concurrency.  With MemoryStore or node:sqlite every repository call     *)
(* resolves in a microtask: a handler runs alone until it really waits     *)
(* (signing, the event hub, the network).  With Cloudflare D1 every        *)
(* repository call is a network round trip, there are no transactions, and *)
(* handlers interleave at each one.  SyncStore selects the build; "turn"   *)
(* names the actor that owns the event loop (always None with D1).         *)
(***************************************************************************)
EXTENDS Integers, FiniteSets

CONSTANTS
    Child, Device, ChildOf,  \* one family: its children, their devices
    Rule, Grant,             \* ids of standing rules and of temporary rules
    Once,                    \* the grants of grantKind "ONCE"
    ScopeOf,                 \* rule or grant |-> [child, device], None = any
    Asker,                   \* grant |-> the device whose request it answers
    Posture, FirstPosture,   \* default policies; the one addChild writes
    None,
    Handler, Editor,         \* concurrent policy requests; concurrent edits
    SyncStore,               \* TRUE: memory or node:sqlite; FALSE: D1
    Claim,                   \* values of ?since= that are not a held version
    MaxEdits, MaxFailures    \* bounds on edits, and on calls that fail

Item == Rule \cup Grant
Scope == [child : Child \cup {None}, device : Device \cup {None}]

\* mapScope: the rule scopes a parent's answer to a request of d can have.
mapScope(d) == { [child |-> None, device |-> None],         \* WHOLE_FAMILY
                 [child |-> ChildOf[d], device |-> None],   \* THIS_CHILD, ...
                 [child |-> ChildOf[d], device |-> d] }     \* THIS_DEVICE, ...

ASSUME FamilyAssumption ==
    /\ ChildOf \in [Device -> Child]
    /\ None \notin Child \cup Device \cup Rule \cup Grant \cup Handler \cup Editor
    /\ Rule \cap Grant = {}
    /\ Handler \cap Editor = {}

ASSUME ScopeAssumption ==
    /\ Once \subseteq Grant
    /\ Asker \in [Grant -> Device]
    /\ ScopeOf \in [Item -> Scope]
    /\ \A g \in Grant : ScopeOf[g] \in mapScope(Asker[g])

ASSUME ParameterAssumption ==
    /\ FirstPosture \in Posture
    /\ SyncStore \in BOOLEAN
    /\ Claim \subseteq Int
    /\ MaxEdits \in Nat
    /\ MaxFailures \in Nat

VARIABLES
    policyVersion,      \* policy_versions, per child
    defaults,           \* default_policy, per child
    rules, tempRules,   \* rows of rules and of temp_rules
    consumed,           \* temp_rules.consumed_at is set
    expired,            \* grants whose expiresAt has passed
    lastSyncedVersion,  \* devices.last_synced_version
    used,               \* ids given out so far (uid() never repeats one)
    found,              \* per editor: the grant revokeGrant has looked up
    todo,               \* per editor: children it still has to bump
    pc, call,           \* per handler: where it is, and its local variables
    turn,               \* the actor inside a synchronous turn of the loop
    \* Auxiliary: no action reads them for a decision of the code.
    built,              \* per device: newest version signed for it
    lost,               \* children whose bump was lost with a failed edit
    edits, failures     \* how many of each have happened

rows       == <<policyVersion, defaults, rules, tempRules, consumed>>
editorVars == <<used, found, todo, lost, edits>>
serverVars == <<rows, expired, lastSyncedVersion, editorVars, pc, call, turn,
                built, failures>>

-----------------------------------------------------------------------------
(* Scopes. *)

appliesToChildDevice(s, d) ==
    /\ s.child \in {None, ChildOf[d]}
    /\ s.device \in {None, d}

\* Mutant: an edit for the whole family bumps nobody.
bumpForScopeChildOnly(s) == {s.child} \ {None}

\* bumpForScope: the children whose version an edit of this scope bumps.
bumpForScope(s) == IF s.child = None THEN Child ELSE {s.child}

\* What the policy of d is now: what a snapshot of the current version means.
CurrentRules(d)  == {r \in rules : appliesToChildDevice(ScopeOf[r], d)}
CurrentGrants(d) == {g \in tempRules \ (consumed \cup expired) :
                        appliesToChildDevice(ScopeOf[g], d)}

Snapshot == [version : Nat, defaults : Posture, rules : SUBSET Rule,
             temporaryRules : SUBSET Grant]

NoSnapshot == [version |-> 0, defaults |-> FirstPosture, rules |-> {},
               temporaryRules |-> {}]

\* Snapshot s says what the policy of d is.  A device drops the grants whose
\* time is over by its own clock, so they do not count.
SaysCurrent(s, d) ==
    /\ s.defaults = defaults[ChildOf[d]]
    /\ s.rules = CurrentRules(d)
    /\ s.temporaryRules \ expired = CurrentGrants(d)

-----------------------------------------------------------------------------
(* The event loop. *)

\* Mutant: buildSnapshot really waits for something before it reads the version.
WaitingBeforeStamp ==
    {"free", "parked", "stamp", "signing", "upToDate", "snapshot", "failed"}

\* The pcs at which a handler really waits, for I/O or for its next call.
Waiting == {"free", "parked", "signing", "upToDate", "snapshot", "failed"}

MayRun(a) == turn \in {None, a}

\* After a step of a: it keeps the loop unless it now waits.
Run(a, waits) == turn' = IF SyncStore /\ ~waits THEN a ELSE None

-----------------------------------------------------------------------------
(* Edits.  Each writes its rows, then owes a bump to each child in todo.   *)

EditorIdle(e) == todo[e] = {} /\ found[e] = None

StartEdit(e) ==
    /\ MayRun(e)
    /\ EditorIdle(e)
    /\ edits < MaxEdits
    /\ edits' = edits + 1

Owe(e, children) ==
    /\ todo' = [todo EXCEPT ![e] = children]
    /\ Run(e, children = {})

setDefaults(e, c, p) ==
    /\ StartEdit(e)
    /\ defaults' = [defaults EXCEPT ![c] = p]
    /\ Owe(e, {c})
    /\ UNCHANGED <<policyVersion, rules, tempRules, consumed, expired,
                   lastSyncedVersion, used, found, lost, pc, call, built, failures>>

addRule(e, r) ==
    /\ StartEdit(e)
    /\ r \notin used
    /\ used' = used \cup {r}
    /\ rules' = rules \cup {r}
    /\ Owe(e, bumpForScope(ScopeOf[r]))
    /\ UNCHANGED <<policyVersion, defaults, tempRules, consumed, expired,
                   lastSyncedVersion, found, lost, pc, call, built, failures>>

\* deleteRule does not look whether the row exists; every child is bumped.
removeRule(e, r) ==
    /\ StartEdit(e)
    /\ rules' = rules \ {r}
    /\ Owe(e, Child)
    /\ UNCHANGED <<policyVersion, defaults, tempRules, consumed, expired,
                   lastSyncedVersion, used, found, lost, pc, call, built, failures>>

\* decide with a duration: the grant is written and only the version of the
\* child that asked is bumped, whatever the scope of the grant.
decide(e, g) ==
    /\ StartEdit(e)
    /\ g \notin used
    /\ used' = used \cup {g}
    /\ tempRules' = tempRules \cup {g}
    /\ Owe(e, {ChildOf[Asker[g]]})
    /\ UNCHANGED <<policyVersion, defaults, rules, consumed, expired,
                   lastSyncedVersion, found, lost, pc, call, built, failures>>

\* revokeGrant looks the grant up, then deletes it and bumps for its scope.
revokeGrant(e, g) ==
    /\ StartEdit(e)
    /\ g \in tempRules
    /\ found' = [found EXCEPT ![e] = g]
    /\ Run(e, FALSE)
    /\ UNCHANGED <<rows, expired, lastSyncedVersion, used, todo, lost, pc,
                   call, built, failures>>

deleteTemporaryRule(e) ==
    /\ MayRun(e)
    /\ found[e] # None
    /\ tempRules' = tempRules \ {found[e]}
    /\ found' = [found EXCEPT ![e] = None]
    /\ Owe(e, bumpForScope(ScopeOf[found[e]]))
    /\ UNCHANGED <<policyVersion, defaults, rules, consumed, expired,
                   lastSyncedVersion, used, lost, edits, pc, call, built, failures>>

\* consumeGrant: device d spends a single-use grant that applies to it, and
\* the version of d's own child is bumped.
consumeGrant(e, g, d) ==
    /\ StartEdit(e)
    /\ g \in (tempRules \cap Once) \ consumed
    /\ appliesToChildDevice(ScopeOf[g], d)
    /\ consumed' = consumed \cup {g}
    /\ Owe(e, {ChildOf[d]})
    /\ UNCHANGED <<policyVersion, defaults, rules, tempRules, expired,
                   lastSyncedVersion, used, found, lost, pc, call, built, failures>>

bumpPolicyVersion(e, c) ==
    /\ MayRun(e)
    /\ c \in todo[e]
    /\ policyVersion' = [policyVersion EXCEPT ![c] = @ + 1]
    /\ lost' = lost \ {c}
    /\ Owe(e, todo[e] \ {c})
    /\ UNCHANGED <<defaults, rules, tempRules, consumed, expired,
                   lastSyncedVersion, used, found, edits, pc, call, built, failures>>

\* The process dies, or a repository call throws, between the write and the
\* last bump: nothing rolls the write back and nothing retries the bump.
EditFails(e) ==
    /\ MayRun(e)
    /\ ~EditorIdle(e)
    /\ failures < MaxFailures
    /\ failures' = failures + 1
    /\ lost' = lost \cup todo[e]
    /\ found' = [found EXCEPT ![e] = None]
    /\ Owe(e, {})
    /\ UNCHANGED <<rows, expired, lastSyncedVersion, used, edits, pc, call, built>>

Edit(e) ==
    \/ \E c \in Child, p \in Posture : setDefaults(e, c, p)
    \/ \E r \in Rule : addRule(e, r) \/ removeRule(e, r)
    \/ \E g \in Grant : decide(e, g) \/ revokeGrant(e, g)
    \/ \E g \in Grant, d \in Device : consumeGrant(e, g, d)

FinishEdit(e) == deleteTemporaryRule(e) \/ \E c \in Child : bumpPolicyVersion(e, c)

\* expiresAt of a grant passes: time, which no actor controls.
Expire(g) ==
    /\ g \in tempRules \ expired
    /\ expired' = expired \cup {g}
    /\ UNCHANGED <<rows, lastSyncedVersion, editorVars, pc, call, turn, built,
                   failures>>

-----------------------------------------------------------------------------
(* Policy requests.  call[h] holds the local variables of the handler:     *)
(* read is what its last repository read returned, note the version it is  *)
(* about to pass to heartbeat, and snap the snapshot under construction.   *)

Route == {"wait", "since", "full"}

Call == [device : Device \cup {None}, route : Route, since : Int, read : Nat,
         note : Nat, snap : Snapshot]

NoCall == [device |-> None, route |-> "full", since |-> 0, read |-> 0,
           note |-> 0, snap |-> NoSnapshot]

HeartbeatReadPC  == {"greetRead", "touchRead", "noteRead"}
HeartbeatWritePC == {"greetWrite", "touchWrite", "noteWrite"}
PC == Waiting \cup HeartbeatReadPC \cup HeartbeatWritePC \cup
      {"greet", "version", "clamp", "touch", "defaults", "rules", "grants", "stamp"}

Larger(m, n)  == IF m > n THEN m ELSE n
Smaller(m, n) == IF m < n THEN m ELSE n

\* Mutants: a claim is believed; a claim is not made a natural number.
clampSyncedVersionBelieved(d, claimed) == Larger(claimed, 0)
clampSyncedVersionSigned(d, claimed) == Smaller(claimed, lastSyncedVersion[d])

\* clampSyncedVersion: never more than the server's own record.
clampSyncedVersion(d, claimed) == Smaller(Larger(claimed, 0), lastSyncedVersion[d])

\* A step of h from one pc to another that changes nothing but its locals.
Go(h, from, to) ==
    /\ MayRun(h)
    /\ pc[h] = from
    /\ pc' = [pc EXCEPT ![h] = to]
    /\ Run(h, to \in Waiting)

Quiet == UNCHANGED <<rows, expired, editorVars, failures>>
Locals == Quiet /\ UNCHANGED <<lastSyncedVersion, built>>

First(route) == CASE route = "wait"  -> "greet"
                  [] route = "since" -> "version"
                  [] route = "full"  -> "defaults"

\* A request of d reaches its route: /policy/wait, /policy?since=n, /policy.
Request(h, d, route, n) ==
    /\ route = "since" => n >= 0     \* /policy with no such n is a full fetch
    /\ route = "full" => n < 0
    /\ Go(h, "free", First(route))
    /\ call' = [call EXCEPT ![h] = [NoCall EXCEPT !.device = d, !.route = route,
                                                  !.since = n]]
    /\ Locals

\* /policy/wait records a heartbeat before it looks for a change ...
Greet(h) ==
    /\ Go(h, "greet", "greetRead")
    /\ call' = [call EXCEPT ![h].note =
                    clampSyncedVersion(call[h].device, call[h].since)]
    /\ Locals

\* ... and /policy?since= when it has found none.
Touch(h) ==
    /\ Go(h, "touch", "touchRead")
    /\ call' = [call EXCEPT ![h].note =
                    clampSyncedVersion(call[h].device, call[h].since)]
    /\ Locals

\* heartbeat reads the device's row ...
HeartbeatRead(h) ==
    /\ \/ Go(h, "greetRead", "greetWrite")
       \/ Go(h, "touchRead", "touchWrite")
       \/ Go(h, "noteRead", "noteWrite")
    /\ call' = [call EXCEPT ![h].read = lastSyncedVersion[call[h].device]]
    /\ Locals

\* Mutant: whatever the device holds now is recorded, older or newer.
RecordedLatest(last, held) == held

\* heartbeat: "Never move the recorded version backwards".
Recorded(last, held) == Larger(last, held)

\* ... and writes it back.
HeartbeatWrite(h) ==
    /\ \/ Go(h, "greetWrite", "version")
       \/ Go(h, "touchWrite", "upToDate")
       \/ Go(h, "noteWrite", "snapshot")
    /\ lastSyncedVersion' = [lastSyncedVersion EXCEPT
           ![call[h].device] = Recorded(call[h].read, call[h].note)]
    /\ call' = [call EXCEPT ![h].read = 0, ![h].note = 0]  \* out of scope
    /\ Quiet
    /\ UNCHANGED built

\* syncSince reads the version ...
ReadVersion(h) ==
    /\ Go(h, "version", "clamp")
    /\ call' = [call EXCEPT ![h].read = policyVersion[ChildOf[call[h].device]]]
    /\ Locals

\* Mutant: a device one version behind is taken to be current.
UpToDateOrNearly(h) ==
    call[h].read <= clampSyncedVersion(call[h].device, call[h].since) + 1

\* ... and compares it with the clamped claim.
UpToDate(h) ==
    call[h].read <= clampSyncedVersion(call[h].device, call[h].since)

\* Without a change /policy/wait parks on the hub, or answers when its
\* deadline has passed.
Compare(h) ==
    LET route == call[h].route
    IN  /\ \/ Go(h, "clamp", "defaults") /\ ~UpToDate(h)
           \/ Go(h, "clamp", "touch")    /\ UpToDate(h) /\ route = "since"
           \/ Go(h, "clamp", "parked")   /\ UpToDate(h) /\ route = "wait"
           \/ Go(h, "clamp", "upToDate") /\ UpToDate(h) /\ route = "wait"
        /\ call' = [call EXCEPT ![h].read = 0]
        /\ Locals

\* Mutant: the loop goes back to waiting without asking again.
WakeOnly(h) ==
    /\ Go(h, "parked", "parked")
    /\ Locals
    /\ UNCHANGED call

\* The hub wakes the handler for a nudge, or its timer does.
Wake(h) ==
    /\ Go(h, "parked", "version")
    /\ Locals
    /\ UNCHANGED call

\* buildSnapshot, one repository call at a time.  nowMs is taken after the
\* defaults are read: the grants still alive then are the candidates.
ReadDefaults(h) ==
    /\ Go(h, "defaults", "rules")
    /\ call' = [call EXCEPT ![h].snap.defaults = defaults[ChildOf[call[h].device]],
                            ![h].snap.temporaryRules = Grant \ expired]
    /\ Locals

ReadRules(h) ==
    /\ Go(h, "rules", "grants")
    /\ call' = [call EXCEPT ![h].snap.rules = CurrentRules(call[h].device)]
    /\ Locals

ReadGrants(h) ==
    /\ Go(h, "grants", "stamp")
    /\ call' = [call EXCEPT ![h].snap.temporaryRules =
                   {g \in @ : /\ g \in tempRules \ consumed
                              /\ appliesToChildDevice(ScopeOf[g], call[h].device)}]
    /\ Locals

\* The version is read last, then the snapshot is signed.
Stamp(h) ==
    /\ Go(h, "stamp", "signing")
    /\ call' = [call EXCEPT ![h].snap.version = policyVersion[ChildOf[call[h].device]]]
    /\ built' = [built EXCEPT ![call[h].device] =
                     Larger(@, policyVersion[ChildOf[call[h].device]])]
    /\ Quiet
    /\ UNCHANGED lastSyncedVersion

\* The snapshot is signed; its version is recorded as the device's.
Signed(h) ==
    /\ Go(h, "signing", "noteRead")
    /\ call' = [call EXCEPT ![h].note = call[h].snap.version]
    /\ Locals

\* The answer leaves: a snapshot, "up to date", or an error.
Reply(h) ==
    /\ pc[h] \in {"upToDate", "snapshot", "failed"}
    /\ pc' = [pc EXCEPT ![h] = "free"]
    /\ call' = [call EXCEPT ![h] = NoCall]
    /\ Locals
    /\ UNCHANGED turn

\* A repository call of the handler throws, or its process dies.
HandlerFails(h) ==
    /\ MayRun(h)
    /\ pc[h] \notin {"free", "upToDate", "snapshot", "failed"}
    /\ failures < MaxFailures
    /\ failures' = failures + 1
    /\ pc' = [pc EXCEPT ![h] = "failed"]
    /\ Run(h, TRUE)
    /\ UNCHANGED <<rows, expired, lastSyncedVersion, editorVars, call, built>>

Handle(h) ==
    \/ Greet(h) \/ Touch(h) \/ HeartbeatRead(h) \/ HeartbeatWrite(h)
    \/ ReadVersion(h) \/ Compare(h) \/ Wake(h)
    \/ ReadDefaults(h) \/ ReadRules(h) \/ ReadGrants(h) \/ Stamp(h) \/ Signed(h)

-----------------------------------------------------------------------------
ServerInit ==
    /\ policyVersion = [c \in Child |-> 1]   \* addChild wrote the posture and bumped
    /\ defaults = [c \in Child |-> FirstPosture]
    /\ rules = {} /\ tempRules = {} /\ consumed = {} /\ expired = {} /\ used = {}
    /\ lastSyncedVersion = [d \in Device |-> 0]
    /\ found = [e \in Editor |-> None]
    /\ todo = [e \in Editor |-> {}]
    /\ pc = [h \in Handler |-> "free"]
    /\ call = [h \in Handler |-> NoCall]
    /\ turn = None
    /\ built = [d \in Device |-> 0]
    /\ lost = {}
    /\ edits = 0 /\ failures = 0

\* What the server does by itself, whoever its clients are.
ServerStep ==
    \/ \E e \in Editor : Edit(e) \/ FinishEdit(e) \/ EditFails(e)
    \/ \E h \in Handler : Handle(h) \/ HandlerFails(h)
    \/ \E g \in Grant : Expire(g)

\* The values of ?since= a device may send here: any version that exists, -1
\* (what the routes make of a missing one), or a number never a version.
SinceValue(d) == -1 .. policyVersion[ChildOf[d]] \cup Claim

\* The server against arbitrary clients: any device may send any request.
ServerNext ==
    \/ ServerStep
    \/ \E h \in Handler, d \in Device, route \in Route :
           \E n \in SinceValue(d) : Request(h, d, route, n)
    \/ \E h \in Handler : Reply(h)

ServerSpec == ServerInit /\ [][ServerNext]_serverVars

-----------------------------------------------------------------------------
(* Properties. *)

TypeOK ==
    /\ policyVersion \in [Child -> Nat]
    /\ defaults \in [Child -> Posture]
    /\ rules \subseteq Rule
    /\ tempRules \subseteq Grant
    /\ consumed \subseteq Grant
    /\ expired \subseteq Grant
    /\ lastSyncedVersion \in [Device -> Nat]
    /\ used \subseteq Item
    /\ found \in [Editor -> Grant \cup {None}]
    /\ todo \in [Editor -> SUBSET Child]
    /\ pc \in [Handler -> PC]
    /\ call \in [Handler -> Call]
    /\ \A h \in Handler : pc[h] # "free" => call[h].device \in Device
    /\ turn \in {None} \cup Handler \cup Editor
    /\ built \in [Device -> Nat]
    /\ lost \subseteq Child
    /\ edits \in Nat
    /\ failures \in Nat

\* Whatever version a device claims to hold, and however its requests
\* interleave, the server's record of a device is never a version it has not
\* signed a snapshot of for that device, nor one that does not exist
\* (clampSyncedVersion: "Never MORE than the server has actually sent it").
NeverMoreThanSent ==
    \A d \in Device : /\ lastSyncedVersion[d] <= built[d]
                      /\ built[d] <= policyVersion[ChildOf[d]]

\* Some edit that concerns child c has not bumped its version (yet).
BumpOwed(c) == c \in lost \/ \E e \in Editor : c \in todo[e]

Built == {"signing", "noteRead", "noteWrite", "snapshot"}

\* A snapshot that carries its child's current version carries the child's
\* current policy, unless an edit still owes the bump that announces it
\* (buildSnapshot: "Build + sign the snapshot for one child+device at the
\* current version").
VersionNamesPolicy ==
    \A h \in Handler : 
        LET d == call[h].device IN
        (/\ pc[h] \in Built
         /\ call[h].snap.version = policyVersion[ChildOf[d]]
         /\ ~BumpOwed(ChildOf[d]))
        => SaysCurrent(call[h].snap, d)

\* The grants of decide reach no child but the one whose version it bumps.
GrantsStayWithTheChild ==
    \A g \in Grant : ScopeOf[g].child # None \/ Child = {ChildOf[Asker[g]]}

\* The version recorded for a device never moves backwards (heartbeat:
\* "Never move the recorded version backwards").
RecordNeverRegresses ==
    [][\A d \in Device : lastSyncedVersion'[d] >= lastSyncedVersion[d]]_serverVars

-----------------------------------------------------------------------------
(* What the properties rest on: inductive strengthenings.                  *)

\* Every version on its way into the record is one the server signed.
RecordInv ==
    /\ NeverMoreThanSent
    /\ \A h \in Handler :
        LET sent == built[call[h].device] IN
        /\ pc[h] \in HeartbeatReadPC \cup HeartbeatWritePC => call[h].note <= sent
        /\ pc[h] \in HeartbeatWritePC => call[h].read <= sent
        /\ pc[h] \in Built => call[h].snap.version <= sent

\* With a synchronous store whoever is between two steps of one synchronous
\* stretch of code owns the event loop.
TurnDiscipline ==
    SyncStore =>
        /\ \A h \in Handler : pc[h] \notin Waiting => turn = h
        /\ \A e \in Editor : ~EditorIdle(e) => turn = e
        /\ \A e \in Editor : found[e] = None \/ todo[e] = {}

\* With a synchronous store a snapshot under construction agrees with the rows
\* it has read so far, and so does a heartbeat with the device's row.
DraftAgrees(h) ==
    LET d == call[h].device
        s == call[h].snap
    IN  /\ pc[h] \in {"rules", "grants", "stamp"} => s.defaults = defaults[ChildOf[d]]
        /\ pc[h] \in {"grants", "stamp"} => s.rules = CurrentRules(d)
        /\ pc[h] \in {"rules", "grants"} => Grant \ expired \subseteq s.temporaryRules
        /\ pc[h] = "stamp" => s.temporaryRules \ expired = CurrentGrants(d)
        /\ pc[h] \in HeartbeatWritePC => call[h].read = lastSyncedVersion[d]

DraftInv == \A h \in Handler : DraftAgrees(h)

=============================================================================
