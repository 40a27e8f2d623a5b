----------------------------- MODULE AppleDevice -----------------------------
(***************************************************************************)
(* Ajar on an iPhone: the App Group its processes share (PolicyStore), the *)
(* app that talks to the backend (FilterController, BackendClient), and    *)
(* the content filter that judges every flow.  The backend is external: a  *)
(* policy per enrolment that a parent edits.  Every snapshot is signed by  *)
(* the one key the device trusts.                                          *)
(*                                                                         *)
(* A call of the app is a record that moves from await to await.  What is  *)
(* read and written back under PolicyStore's lock is a write: the lock is  *)
(* a process's own, so writes of two processes may overlap ("racing").     *)
(***************************************************************************)
EXTENDS Evaluator, SequencesExt

CONSTANTS
    Call,       \* slots for the app's calls
    Slot,       \* slots for the extension's tasks and messages
    Settings    \* the situations that are explored

\* What the backend can have in force, and what it can sign.
Contents(s) == UNION {Range(s.policies[d]) : d \in DOMAIN s.policies}

SnapshotsOf(s) ==
    [device : DOMAIN s.policies, child : DOMAIN s.policies, version : Nat,
     temps : UNION {SUBSET p.temps : p \in Contents(s)}, rules : {p.rules : p \in Contents(s)},
     webDefault : Action, youTubeDefault : Action]

\* What may happen a bounded number of times.
Things == {"edit", "tick", "mishap", "enroll", "sync", "link", "kill", "signOut", "due", "load",
           "unload", "ask"}

\* A page, a route inside the page that is open, a frame, or a bare connection.
Kind == {"page", "route", "frame", "socket"}

\* The first of a sorted list is one of it; a grant is never changed, and one that
\* leaves the policy does not come back to it (Approvals).
ASSUME GrantAssumption ==
    \A s \in Settings :
        /\ \A p \in Contents(s) : \A S \in SUBSET p.temps : \A denyWins \in BOOLEAN :
                /\ S # {} => First(S, denyWins) \in S
                /\ \A t \in S : t.until \in Int
        /\ \A d \in DOMAIN s.policies : \A i, k \in DOMAIN s.policies[d] :
            \A t \in s.policies[d][i].temps, u \in s.policies[d][k].temps :
                t.id = u.id => t = u /\ \A j \in i .. k : t \in s.policies[d][j].temps

ASSUME DeviceAssumption ==
    /\ None \notin Call \cup Slot /\ Call \cap Slot = {}
    /\ \A s \in Settings :
        /\ Len(s.policies) \in Nat \ {0} /\ DOMAIN s.policies = 1 .. Len(s.policies)
        /\ \A d \in DOMAIN s.policies :
            Len(s.policies[d]) \in Nat \ {0} /\ DOMAIN s.policies[d] = 1 .. Len(s.policies[d])
        /\ \A p \in Contents(s) : {p.webDefault, p.youTubeDefault} \subseteq Action
        /\ None \notin SnapshotsOf(s)
        /\ s.maxPending \in Nat /\ s.left \in [Things -> Nat] /\ s.kinds \subseteq Kind
        /\ \A p \in Contents(s) : \A a \in p.answers : a.answer \in {"opened", "closed"}

VARIABLES
    setting,    \* the situation
    left,       \* how much of each thing may still happen
    now,        \* the clock
    server,     \* the backend: stage of each policy, consumed grants, asks
    keychain,   \* the device's credentials
    group,      \* the App Group
    writes,     \* changes to the App Group on their way
    app,        \* what the app shows and remembers while it runs
    calls,      \* Call |-> record or None
    loads,      \* pages the child is opening
    \* Auxiliary: no action decides by them.
    let,        \* grant |-> flows the filter let through by it
    overlapped  \* what an install fell into: another install, or a spend

device == <<setting, left, now, server, keychain, group, writes, app, calls, loads, let, overlapped>>

Min2(a, b) == IF a <= b THEN a ELSE b

Use(thing) == left[thing] > 0 /\ left' = [left EXCEPT ![thing] = @ - 1]

-----------------------------------------------------------------------------
(* The backend. *)

Policy(d) == setting.policies[d][server.stage[d]]

Version(d) == server.stage[d] + Cardinality(server.consumed[d])

Snapshot(d) ==
    LET p == Policy(d)
    IN  [device |-> d, child |-> d, version |-> Version(d),
         temps |-> {t \in p.temps : isActiveTemp(t, now) /\ t.id \notin server.consumed[d]},
         rules |-> p.rules, webDefault |-> p.webDefault, youTubeDefault |-> p.youTubeDefault]

\* GET /v1/devices/:id/policy compares with the version held.
UpToDate(d, since) == since = Version(d)

Edit(d) == /\ Use("edit")
           /\ server.stage[d] < Len(setting.policies[d])
           /\ server' = [server EXCEPT !.stage[d] = @ + 1]
           /\ UNCHANGED <<setting, now, keychain, group, writes, app, calls, loads, let, overlapped>>

Tick == /\ Use("tick") /\ now' = now + 1
        /\ UNCHANGED <<setting, server, keychain, group, writes, app, calls, loads, let, overlapped>>

-----------------------------------------------------------------------------
(* PolicyStore: the snapshot. *)

Ids(items) == {t.id : t \in items}

\* state(): verified, untrusted or absent.
State == IF group.raw = None THEN IF group.provisioned THEN "untrusted" ELSE "absent"
         ELSE IF group.raw.version < group.high THEN "untrusted" ELSE "verified"

VersionHeld == IF State = "verified" THEN group.raw.version ELSE None

\* Mutant: any signed snapshot will do.
AnyVersion(version) == TRUE

NoRollback(version) == version >= group.high

\* install, under the lock, with the mark it read before it.
Installed(snap, high) ==
    [group EXCEPT !.raw = snap, !.high = IF snap.version > high THEN snap.version ELSE high,
                  !.provisioned = TRUE]

FilterVerdict(page) ==
    IF page.floor THEN Verdict("ALLOW", "safety-floor", None)
    ELSE CASE State = "untrusted" -> Verdict("BLOCK", "snapshot-untrusted", None)
           [] State = "absent"    -> Verdict("ALLOW", "no-snapshot", None)
           [] State = "verified"  ->
                playback(evaluateInFilter(group.raw, page, now, group.spent),
                         hasActiveVideoGrant(group.raw, now), page)

-----------------------------------------------------------------------------
(* PolicyStore: lists that are read, changed and written back. *)

\* by: a call, a message of the extension, or None for the filter.
Write(by, op, arg) ==
    [by |-> by, op |-> op, arg |-> arg, seen |-> None,
     live |-> IF op = "spend" /\ State = "verified" THEN Ids(group.raw.temps) ELSE None]

KeyOf(op) == CASE op = "spend" -> "spent" [] op = "mark" -> "reported" [] OTHER -> "queue"

\* spendGrant: ids the policy no longer carries are forgotten.
Spent(w, ids) ==
    IF w.arg \in ids THEN ids
    ELSE IF w.live = None THEN ids \cup {w.arg}
    ELSE (ids \cup {w.arg}) \cap (w.live \cup {w.arg})

\* Mutant: the queue may grow without limit.
EnqueuedAlways(w, queue) == Append(queue, w.arg)

\* enqueueAccessRequest: a target that waits already is asked already.
Enqueued(w, queue) ==
    IF w.arg \in Range(queue) \/ Len(queue) >= setting.maxPending THEN queue ELSE Append(queue, w.arg)

\* removeAccessRequest: a target waits at most once.
Removed(queue, t) ==
    IF t \in Range(queue) THEN RemoveAt(queue, CHOOSE i \in DOMAIN queue : queue[i] = t) ELSE queue

Changed(w, value) ==
    CASE w.op = "spend"   -> Spent(w, value)
      [] w.op = "mark"    -> (value \cup {w.arg}) \cap group.spent
      [] w.op = "enqueue" -> Enqueued(w, value)
      [] w.op = "remove"  -> Removed(value, w.arg)

SameProcess(a, b) == \E P \in {Call, Slot, {None}} : a.by \in P /\ b.by \in P

\* The read of a write that another process may overlap.
Take(w) == /\ setting.racing /\ w.seen = None
           /\ \A v \in writes : SameProcess(v, w) => v.seen = None
           /\ writes' = (writes \ {w}) \cup {[w EXCEPT !.seen = group[KeyOf(w.op)]]}
           /\ UNCHANGED <<setting, left, now, server, keychain, group, app, calls, loads, let, overlapped>>

\* The lists after the write.
Put(w) == LET key == KeyOf(w.op)
          IN  [group EXCEPT ![key] = Changed(w, IF setting.racing THEN w.seen ELSE @)]

MayPut(w) == setting.racing => w.seen # None

\* A write of the app or of the filter; one of the extension's answers a message.
Commit(w) == /\ w.by \notin Slot /\ MayPut(w)
             /\ group' = Put(w)
             /\ writes' = writes \ {w}
             /\ UNCHANGED <<setting, left, now, server, keychain, app, calls, loads, let, overlapped>>

Writing(by) == \E w \in writes : w.by = by

-----------------------------------------------------------------------------
(* BackendClient and FilterController: the app's calls. *)

Blank == [fn |-> "none", at |-> "none", device |-> None, since |-> None, body |-> None,
          high |-> 0, rest |-> <<>>, target |-> None, rounds |-> 0]

At(k, step) == calls[k] # None /\ calls[k].at = step

\* The call goes on at a step; the call is over.
Go(k, c, step) == calls' = [calls EXCEPT ![k] = [c EXCEPT !.at = step]]
Over(k) == calls' = [calls EXCEPT ![k] = None]

\* fail() remembers an error that nothing clears.
Fail(k) == Over(k) /\ app' = [app EXCEPT !.error = TRUE]

\* The request is lost, or the backend is in trouble.
Mishap == Use("mishap")

FreeCall(k) == /\ app.up /\ calls[k] = None
               /\ k = CHOOSE free \in Call : calls[free] = None

Begin(k, fn, step, target) ==
    /\ FreeCall(k)
    /\ calls' = [calls EXCEPT ![k] = [Blank EXCEPT !.fn = fn, !.at = step, !.target = target]]

\* One at a time; the code is used up by the first.
Enroll(k) == /\ Use("enroll")
             /\ \A other \in Call : calls[other] # None => calls[other].fn # "enroll"
             /\ Begin(k, "enroll", "redeem", None)
             /\ UNCHANGED <<setting, now, server, keychain, group, writes, app, loads, let, overlapped>>

\* The next enrolment: the next device.
Redeemed(k) ==
    /\ At(k, "redeem")
    /\ \/ /\ server.enrolled < Len(setting.policies)
          /\ server' = [server EXCEPT !.enrolled = @ + 1]
          /\ keychain' = [device |-> server.enrolled + 1, due |-> FALSE]
          /\ Go(k, [calls[k] EXCEPT !.fn = "sync"], "renew")
          /\ UNCHANGED <<left, app>>
       \/ /\ Mishap /\ Fail(k) /\ UNCHANGED <<server, keychain>>
    /\ UNCHANGED <<setting, now, group, writes, loads, let, overlapped>>

\* The button of the debug harness.
SyncTapped(k) == /\ setting.debug /\ Use("sync")
                 /\ Begin(k, "sync", "renew", None)
                 /\ UNCHANGED <<setting, now, server, keychain, group, writes, app, loads, let, overlapped>>

\* ajar://request?u=... : sent to the backend directly.
handleIncoming(k, t) ==
    /\ Use("link")
    /\ Begin(k, "ask", "file", t)
    /\ app' = [app EXCEPT !.screen = "sending", !.target = t, !.late = FALSE]
    /\ UNCHANGED <<setting, now, server, keychain, group, writes, loads, let, overlapped>>

Filed(k) ==
    /\ At(k, "file")
    /\ \/ /\ keychain.device # None
          /\ server' = [server EXCEPT !.posted = @ \cup {calls[k].target}]
          /\ app' = [app EXCEPT !.screen = "waiting"]
          /\ Go(k, calls[k], "renew")
          /\ UNCHANGED left
       \/ /\ IF keychain.device = None THEN UNCHANGED left ELSE Mishap
          /\ Over(k)
          /\ app' = [app EXCEPT !.screen = "failed", !.error = TRUE]
          /\ UNCHANGED server
    /\ UNCHANGED <<setting, now, keychain, group, writes, loads, let, overlapped>>

\* refreshTokenIfDue.
Renew(k) == /\ At(k, "renew")
            /\ IF keychain.device # None /\ keychain.due
               THEN Go(k, [calls[k] EXCEPT !.device = keychain.device], "renewing")
               ELSE Go(k, calls[k], "get")
            /\ UNCHANGED <<setting, left, now, server, keychain, group, writes, app, loads, let, overlapped>>

\* The answer is stored for the device that asked, enrolled still or not.
Renewed(k) ==
    /\ At(k, "renewing")
    /\ \/ keychain' = [device |-> calls[k].device, due |-> FALSE] /\ UNCHANGED left
       \/ Mishap /\ UNCHANGED keychain
    /\ Go(k, calls[k], "get")
    /\ UNCHANGED <<setting, now, server, group, writes, app, loads, let, overlapped>>

\* One round of handleIncoming that brought nothing, or failed.
NextRound(k, failed) ==
    LET c == [calls[k] EXCEPT !.rounds = @ + 1, !.body = None, !.since = None, !.device = None]
        error == app.error \/ failed
    IN  IF error \/ c.rounds >= setting.waitRounds
        THEN Over(k) /\ app' = [app EXCEPT !.error = error, !.late = TRUE]
        ELSE Go(k, c, "renew") /\ UNCHANGED app

Failed(k) == IF calls[k].fn = "ask" THEN NextRound(k, TRUE) ELSE Fail(k)

Get(k) ==
    /\ At(k, "get")
    /\ IF keychain.device = None THEN Failed(k)
       ELSE /\ Go(k, [calls[k] EXCEPT !.device = keychain.device, !.since = VersionHeld], "getting")
            /\ UNCHANGED app
    /\ UNCHANGED <<setting, left, now, server, keychain, group, writes, loads, let, overlapped>>

\* A parked request is answered when there is news, or when its time is up.
Got(k) ==
    LET c == calls[k]
    IN  /\ At(k, "getting")
        /\ \/ /\ ~UpToDate(c.device, c.since)
              /\ Go(k, [c EXCEPT !.body = Snapshot(c.device)], "check")
              /\ UNCHANGED <<left, app>>
           \/ /\ c.fn = "sync" /\ UpToDate(c.device, c.since)
              /\ Go(k, c, "report") /\ UNCHANGED <<left, app>>
           \/ c.fn = "ask" /\ UpToDate(c.device, c.since)
              /\ NextRound(k, FALSE) /\ UNCHANGED left
           \/ Mishap /\ Failed(k)
        /\ UNCHANGED <<setting, now, server, keychain, group, writes, loads, let, overlapped>>

\* install checks the version before it takes the lock.
CheckInstall(k) ==
    LET c == calls[k]
    IN  /\ At(k, "check")
        /\ IF NoRollback(c.body.version)
           THEN /\ Go(k, [c EXCEPT !.high = group.high], "install")
                /\ overlapped' = IF \E other \in Call : At(other, "install")
                                 THEN overlapped \cup {"install"} ELSE overlapped
                /\ UNCHANGED app
           ELSE Failed(k) /\ UNCHANGED overlapped
        /\ UNCHANGED <<setting, left, now, server, keychain, group, writes, loads, let>>

Install(k) ==
    LET c == calls[k]
    IN  /\ At(k, "install")
        /\ group' = Installed(c.body, c.high)
        /\ Go(k, [c EXCEPT !.body = None, !.high = 0], IF c.fn = "ask" THEN "answers" ELSE "report")
        /\ overlapped' = IF \E w \in writes : w.op = "spend" THEN overlapped \cup {"spend"} ELSE overlapped
        /\ UNCHANGED <<setting, left, now, server, keychain, writes, app, loads, let>>

Reports(k) ==
    /\ At(k, "report")
    /\ Go(k, [calls[k] EXCEPT !.rest = SetToSeq(group.spent \ group.reported)], "reporting")
    /\ UNCHANGED <<setting, left, now, server, keychain, group, writes, app, loads, let, overlapped>>

\* The backend takes a grant it still has from the device it is for.
Consumes(d, id) ==
    /\ keychain.device = d /\ id \notin server.consumed[d]
    /\ \E t \in Policy(d).temps : t.id = id /\ isActiveTemp(t, now)

Consumed(d, id) == [server EXCEPT !.consumed[d] = @ \cup {id}]

\* reportSpentGrants: any error ends it, a refusal too.
Reported(k) ==
    LET c == calls[k]  id == Head(c.rest)
    IN  /\ At(k, "reporting")
        /\ \/ /\ c.rest # <<>> /\ Consumes(c.device, id)
              /\ server' = Consumed(c.device, id)
              /\ writes' = writes \cup {Write(k, "mark", id)}
              /\ Go(k, c, "marking") /\ UNCHANGED left
           \/ /\ c.rest # <<>> => ~Consumes(c.device, id)
              /\ Go(k, [c EXCEPT !.rest = <<>>], "post")
              /\ UNCHANGED <<left, server, writes>>
           \/ /\ c.rest # <<>> /\ Consumes(c.device, id) /\ Mishap
              /\ server' \in {server, Consumed(c.device, id)}
              /\ Go(k, [c EXCEPT !.rest = <<>>], "post") /\ UNCHANGED writes
        /\ UNCHANGED <<setting, now, keychain, group, app, loads, let, overlapped>>

Posts(k) ==
    /\ At(k, "post")
    /\ Go(k, [calls[k] EXCEPT !.rest = group.queue], "posting")
    /\ UNCHANGED <<setting, left, now, server, keychain, group, writes, app, loads, let, overlapped>>

\* Mutant: an ask that did not get through is dropped too.
DropsAsk(t) == FALSE

\* A failure that does not speak of the ask itself leaves it queued.
Keeps(t) == TRUE

Posted(t) == [server EXCEPT !.posted = @ \cup {t}]

\* postQueuedAccessRequests: accepted or refused, the ask leaves the queue.
PostedNext(k) ==
    LET c == calls[k]  t == Head(c.rest)
    IN  /\ At(k, "posting")
        /\ \/ /\ c.rest # <<>> /\ keychain.device # None
              /\ server' = IF t \in setting.refused THEN [server EXCEPT !.refused = @ \cup {t}] ELSE Posted(t)
              /\ writes' = writes \cup {Write(k, "remove", t)}
              /\ Go(k, c, "removing") /\ UNCHANGED left
           \/ /\ c.rest # <<>> /\ keychain.device # None /\ Mishap
              /\ server' \in {server, Posted(t)}
              /\ writes' = IF Keeps(t) THEN writes ELSE writes \cup {Write(k, "remove", t)}
              /\ Over(k)
           \/ /\ c.rest # <<>> => keychain.device = None
              /\ Over(k) /\ UNCHANGED <<left, server, writes>>
        /\ UNCHANGED <<setting, now, keychain, group, app, loads, let, overlapped>>

\* The write is done: on to the next of the list.
WriteDone(k) ==
    /\ calls[k] # None /\ calls[k].at \in {"marking", "removing"} /\ ~Writing(k)
    /\ Go(k, [calls[k] EXCEPT !.rest = Tail(@)], IF calls[k].at = "marking" THEN "reporting" ELSE "posting")
    /\ UNCHANGED <<setting, left, now, server, keychain, group, writes, app, loads, let, overlapped>>

\* decision: what the backend says was answered, if it can be asked.
Decided(k) ==
    LET t == calls[k].target
        answers == {a \in Policy(keychain.device).answers : a.target = t}
    IN  /\ At(k, "answers")
        /\ \/ /\ keychain.device # None
              /\ app' = [app EXCEPT !.screen = IF answers = {} THEN "answered"
                                              ELSE (CHOOSE a \in answers : TRUE).answer]
              /\ UNCHANGED left
           \/ /\ IF keychain.device = None THEN UNCHANGED left ELSE Mishap
              /\ app' = [app EXCEPT !.screen = "answered"]
        /\ Over(k)
        /\ UNCHANGED <<setting, now, server, keychain, group, writes, loads, let, overlapped>>

CallStep(k) == \/ Redeemed(k) \/ Filed(k) \/ Renew(k) \/ Renewed(k) \/ Get(k) \/ Got(k)
               \/ CheckInstall(k) \/ Install(k) \/ Reports(k) \/ Reported(k)
               \/ Posts(k) \/ PostedNext(k) \/ WriteDone(k) \/ Decided(k)

-----------------------------------------------------------------------------
(* The app on the screen. *)

Launched == [up |-> TRUE, screen |-> "idle", target |-> None, late |-> FALSE, error |-> FALSE]
Closed   == [Launched EXCEPT !.up = FALSE]

OpenApp == /\ ~app.up /\ app' = Launched
           /\ UNCHANGED <<setting, left, now, server, keychain, group, writes, calls, loads, let, overlapped>>

\* The system ends the app: its calls are gone.
KillApp == /\ app.up /\ Use("kill") /\ app' = Closed
           /\ calls' = [k \in Call |-> None]
           /\ writes' = {w \in writes : w.by \notin Call}
           /\ UNCHANGED <<setting, now, server, keychain, group, loads, let, overlapped>>

CloseSheet == /\ app.up /\ app.screen # "idle"
              /\ app' = [app EXCEPT !.screen = "idle"]
              /\ UNCHANGED <<setting, left, now, server, keychain, group, writes, calls, loads, let, overlapped>>

signOutDevice == /\ app.up /\ Use("signOut")
                 /\ keychain' = [device |-> None, due |-> FALSE]
                 /\ UNCHANGED <<setting, now, server, group, writes, app, calls, loads, let, overlapped>>

\* A third of the token's time has passed.
TokenDue == /\ keychain.device # None /\ ~keychain.due /\ Use("due")
            /\ keychain' = [keychain EXCEPT !.due = TRUE]
            /\ UNCHANGED <<setting, now, server, group, writes, app, calls, loads, let, overlapped>>

-----------------------------------------------------------------------------
(* What the child opens, and the filter, which judges one flow at a time.  *)

\* What Safari tells its extension of each.
Events(kind) == CASE kind = "page"  -> {"onBeforeNavigate"}
                  [] kind = "route" -> {"onHistoryStateUpdated", "EVALUATE_URL"}
                  [] kind = "frame" -> {"EVALUATE_URL"}
                  [] OTHER          -> {}

Open(p, kind) ==
    /\ Use("load")
    /\ loads' = loads \cup {[n |-> left.load, page |-> p, kind |-> kind, flow |-> kind # "route",
                            events |-> IF setting.safari THEN Events(kind) ELSE {}]}
    /\ UNCHANGED <<setting, now, server, keychain, group, writes, app, calls, let, overlapped>>

\* A load is forgotten when everyone has judged it.
Judged(l, judged) == (loads \ {l}) \cup IF judged.flow \/ judged.events # {} THEN {judged} ELSE {}

\* Mutant: a single-use grant is a timed one with a short time.
NeverSpends(l, v) == FALSE

\* Only a page the child navigated to spends a single-use grant.
Spends(l, v) == v.action = "ALLOW" /\ v.reason = "temporary:ONCE" /\ l.kind # "socket"

\* A connection without a path is let through when only YouTube's default closes it.
FlowVerdict(l) ==
    LET v == FilterVerdict(setting.pages[l.page])
    IN  IF l.kind = "socket" /\ v.reason = "default:youtube" THEN [v EXCEPT !.action = "ALLOW"] ELSE v

handleNewFlow(l) ==
    LET v == FlowVerdict(l)
    IN  /\ l.flow /\ ~Writing(None)
        /\ writes' = IF Spends(l, v) THEN writes \cup {Write(None, "spend", v.id)} ELSE writes
        /\ let' = IF v.action = "ALLOW" /\ v.reason = "temporary:ONCE" /\ l.kind # "socket"
                  THEN [let EXCEPT ![v.id] = @ + 1] ELSE let
        /\ loads' = Judged(l, [l EXCEPT !.flow = FALSE])
        /\ UNCHANGED <<setting, left, now, server, keychain, group, app, calls, overlapped>>

-----------------------------------------------------------------------------
GrantIds(s) == UNION {UNION {Ids(s.policies[d][i].temps) : i \in DOMAIN s.policies[d]} : d \in DOMAIN s.policies}

\* New from the shop, or enrolled with the first policy installed.
NewServer(s) == [enrolled |-> IF s.fresh THEN 0 ELSE 1, stage |-> [d \in DOMAIN s.policies |-> 1],
                 consumed |-> [d \in DOMAIN s.policies |-> {}], posted |-> {}, refused |-> {}]

NewGroup == [raw |-> None, high |-> 0, provisioned |-> FALSE, spent |-> {}, reported |-> {}, queue |-> <<>>]

DeviceInit ==
    /\ setting \in Settings
    /\ left = setting.left /\ now = 0 /\ server = NewServer(setting)
    /\ keychain = [device |-> IF setting.fresh THEN None ELSE 1, due |-> FALSE]
    /\ group = IF setting.fresh THEN NewGroup
               ELSE [NewGroup EXCEPT !.raw = Snapshot(1), !.high = 1, !.provisioned = TRUE]
    /\ writes = {} /\ app = (IF setting.open THEN Launched ELSE Closed)
    /\ calls = [k \in Call |-> None] /\ loads = {}
    /\ let = [id \in GrantIds(setting) |-> 0] /\ overlapped = {}

DeviceStep ==
    \/ \E d \in 1..server.enrolled : Edit(d)
    \/ Tick \/ OpenApp \/ KillApp \/ CloseSheet \/ signOutDevice \/ TokenDue
    \/ \E k \in Call : Enroll(k) \/ SyncTapped(k) \/ CallStep(k)
    \/ \E k \in Call, t \in setting.links : handleIncoming(k, t)
    \/ \E w \in writes : Take(w) \/ Commit(w)
    \/ \E p \in DOMAIN setting.pages, kind \in setting.kinds : Open(p, kind)
    \/ \E l \in loads : handleNewFlow(l)
==============================================================================
