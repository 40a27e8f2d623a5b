--------------------------- MODULE SafariExtension ---------------------------
(***************************************************************************)
(* Ajar in Safari on the iPhone of AppleDevice: the background worker that *)
(* Safari unloads at will, its storage, the one-shot messages to the app's *)
(* handler, and the block page where a child asks.  The worker takes its   *)
(* policy from the App Group (native mode); the development mode with a    *)
(* backend of its own is PolicySync's.  Storage answers in order.          *)
(***************************************************************************)
EXTENDS AppleDevice

VARIABLES
    worker,     \* the background worker's memory
    store,      \* browser.storage.local
    tasks,      \* Slot |-> an async function of the worker, or None
    mails,      \* Slot |-> a message to the native handler, or None
    block       \* page |-> its block page

safari == <<worker, store, tasks, mails, block>>
vars   == <<device, safari>>

Pages == DOMAIN setting.pages

\* A policy that is held somewhere, and what one reads with it.
Held(s) == SnapshotsOf(s) \cup {None}
Read(s) == [raw : Held(s), provisioned : BOOLEAN]

EventName == {"onBeforeNavigate", "onHistoryStateUpdated", "EVALUATE_URL"}

\* The mark of an ask that the page waits for no more.
Late == [name |-> "late", kind |-> "page"]

TaskRecord(s) ==
    [kind : {"restore", "sync", "event", "ask"}, page : DOMAIN s.pages \cup {None},
     at : {"read", "restore", "decide", "send", "answer", "asked", "provisioned", "verified"},
     event : [name : EventName, kind : Kind] \cup {None, Late}, seen : Read(s) \cup {None}]

MailRecord(s, answers) ==
    [type : {"GET_POLICY", "SPEND_GRANT", "REQUEST_ACCESS"},
     arg : GrantIds(s) \cup DOMAIN s.pages \cup {None}, task : Slot \cup {None},
     at : {"sent", "handling", "answered"}, body : answers \cup {None}]

ASSUME SafariAssumption ==
    \A s \in Settings :
        /\ s.stored \in BOOLEAN /\ None \notin TaskRecord(s)
        /\ None \notin MailRecord(s, Read(s)) /\ None \notin MailRecord(s, BOOLEAN)

Asleep == [up |-> FALSE, ready |-> FALSE, snap |-> None, provisioned |-> FALSE,
           spent |-> {}, adopting |-> {}]

NoBlockPage == [mode |-> "none", ask |-> "none"]

Free(f) == CHOOSE s \in Slot : f[s] = None
HasFree(f) == \E s \in Slot : f[s] = None

Task(kind, at, page, event) ==
    [kind |-> kind, at |-> at, page |-> page, event |-> event, seen |-> None]

Step(t, task, at) == tasks' = [tasks EXCEPT ![t] = [task EXCEPT !.at = at]]
Done(t) == tasks' = [tasks EXCEPT ![t] = None]

Is(t, kind, at) == tasks[t] # None /\ tasks[t].kind = kind /\ tasks[t].at = at

\* Where an event begins: with the cached policy, if the worker has none.
Entry(ready) == IF worker.snap = None THEN "read" ELSE ready

-----------------------------------------------------------------------------
(* Messages to SafariWebExtensionHandler, and its answers. *)

Mail(type, arg, task) == [type |-> type, arg |-> arg, task |-> task, at |-> "sent", body |-> None]

Send(type, arg, task) == /\ HasFree(mails)
                         /\ mails' = [mails EXCEPT ![Free(mails)] = Mail(type, arg, task)]

\* The answer, for whoever still waits for it.
AnswerMail(m, body) ==
    mails' = [mails EXCEPT ![m] = IF @.task = None THEN None ELSE [@ EXCEPT !.at = "answered", !.body = body]]

beginRequest(m) ==
    /\ mails[m] # None /\ mails[m].at = "sent"
    /\ \/ /\ mails[m].type = "GET_POLICY"
          /\ AnswerMail(m, [raw |-> group.raw, provisioned |-> group.provisioned])
          /\ UNCHANGED <<writes, left>>
       \/ /\ mails[m].type = "SPEND_GRANT"
          /\ writes' = writes \cup {Write(m, "spend", mails[m].arg)}
          /\ mails' = [mails EXCEPT ![m].at = "handling"] /\ UNCHANGED left
       \/ /\ mails[m].type = "REQUEST_ACCESS"
          /\ writes' = writes \cup {Write(m, "enqueue", mails[m].arg)}
          /\ mails' = [mails EXCEPT ![m].at = "handling"] /\ UNCHANGED left
       \/ Mishap /\ AnswerMail(m, None) /\ UNCHANGED writes
    /\ UNCHANGED <<setting, now, server, keychain, group, app, calls, loads, let, overlapped>>
    /\ UNCHANGED <<worker, store, tasks, block>>

\* Queued, or the queue is full and the page is told.
CommitMail(w) ==
    /\ w.by \in Slot /\ MayPut(w)
    /\ group' = Put(w)
    /\ writes' = writes \ {w}
    /\ AnswerMail(w.by, w.op = "spend" \/ w.arg \in Range(group'.queue))
    /\ UNCHANGED <<setting, left, now, server, keychain, app, calls, loads, let, overlapped>>
    /\ UNCHANGED <<worker, store, tasks, block>>

\* Only what the worker, its storage or its messages do.
Inside == UNCHANGED device

-----------------------------------------------------------------------------
(* The worker's life: it wakes for an event and may be unloaded any time. *)

Pending == (\E l \in loads : l.events # {}) \/ (\E p \in Pages : block[p].ask = "clicked")

\* The script runs: the spent grants, the cached policy, then the native poll.
Wake == /\ setting.safari /\ ~worker.up /\ Pending
        /\ worker' = [Asleep EXCEPT !.up = TRUE]
        /\ tasks' = [tasks EXCEPT ![Free(tasks)] = Task("restore", "read", None, None)]
        /\ UNCHANGED <<store, mails, block>> /\ Inside

Unload == /\ worker.up /\ Use("unload")
          /\ worker' = Asleep
          /\ tasks' = [t \in Slot |-> None]
          /\ mails' = [m \in Slot |->
                 IF mails[m] # None /\ mails[m].at = "answered" THEN None
                 ELSE IF mails[m] # None THEN [mails[m] EXCEPT !.task = None] ELSE None]
          /\ UNCHANGED <<setting, now, server, keychain, group, writes, app, calls, loads, let, overlapped>>
          /\ UNCHANGED <<store, block>>

restoreSpent == /\ worker.up /\ ~worker.ready
                /\ worker' = [worker EXCEPT !.ready = TRUE, !.spent = @ \cup store.spent]
                /\ UNCHANGED <<store, tasks, mails, block>> /\ Inside

\* restoreCachedPolicy: what storage held, then, when it is verified, into memory.
ReadCache(t) == /\ tasks[t] # None /\ tasks[t].at = "read" /\ worker.ready
                /\ Step(t, [tasks[t] EXCEPT !.seen = [raw |-> store.snap, provisioned |-> store.provisioned]], "restore")
                /\ UNCHANGED <<worker, store, mails, block>> /\ Inside

restoreCachedPolicy(t) ==
    /\ tasks[t] # None /\ tasks[t].at = "restore"
    /\ worker' = [worker EXCEPT !.snap = tasks[t].seen.raw, !.provisioned = tasks[t].seen.provisioned]
    /\ IF tasks[t].kind = "restore" THEN Done(t)
       ELSE Step(t, [tasks[t] EXCEPT !.seen = None], IF tasks[t].kind = "event" THEN "decide" ELSE "send")
    /\ UNCHANGED <<store, mails, block>> /\ Inside

-----------------------------------------------------------------------------
(* The native poll: every few seconds, whether the last one is done or not. *)

\* Mutant: a worker that has a policy asks no more.
PollsOnce == worker.snap = None

Polls == TRUE

syncFromNative ==
    /\ setting.safari /\ worker.up /\ Polls
    /\ Cardinality({t \in Slot : tasks[t] # None /\ tasks[t].kind = "sync"}) < setting.polls
    /\ HasFree(tasks) /\ Send("GET_POLICY", None, Free(tasks))
    /\ tasks' = [tasks EXCEPT ![Free(tasks)] = Task("sync", "asked", None, None)]
    /\ UNCHANGED <<worker, store, block>> /\ Inside

Reply(t) == {m \in Slot : mails[m] # None /\ mails[m].task = t /\ mails[m].at = "answered"}

Synced(t) ==
    /\ Is(t, "sync", "asked")
    /\ \E m \in Reply(t) :
        /\ mails' = [mails EXCEPT ![m] = None]
        /\ IF mails[m].body = None THEN Done(t) /\ UNCHANGED store
           ELSE /\ store' = [store EXCEPT !.provisioned = mails[m].body.provisioned]
                /\ Step(t, [tasks[t] EXCEPT !.seen = mails[m].body], "provisioned")
    /\ UNCHANGED <<worker, block>> /\ Inside

Provisioned(t) ==
    /\ Is(t, "sync", "provisioned")
    /\ worker' = [worker EXCEPT !.provisioned = tasks[t].seen.provisioned]
    /\ IF tasks[t].seen.raw = None THEN Done(t) ELSE Step(t, tasks[t], "verified")
    /\ UNCHANGED <<store, mails, block>> /\ Inside

\* An older snapshot is ignored; a new one is kept, and storage tells of the change.
Adopt(t) ==
    LET next == tasks[t].seen.raw
    IN  /\ Is(t, "sync", "verified")
        /\ IF worker.snap # None /\ next.version < worker.snap.version THEN UNCHANGED <<worker, store>>
           ELSE /\ worker' = [worker EXCEPT !.snap = next,
                                            !.adopting = IF store.snap = next THEN @ ELSE @ \cup {next}]
                /\ store' = [store EXCEPT !.snap = next]
        /\ Done(t)
        /\ UNCHANGED <<mails, block>> /\ Inside

adoptSnapshotIfVerified(next) ==
    /\ worker' = [worker EXCEPT !.snap = next, !.adopting = @ \ {next}]
    /\ UNCHANGED <<store, tasks, mails, block>> /\ Inside

-----------------------------------------------------------------------------
(* A load: Safari's events, and what the worker says. *)

Deliver(l, e) ==
    /\ worker.up /\ HasFree(tasks)
    /\ tasks' = [tasks EXCEPT ![Free(tasks)] = Task("event", Entry("decide"), l.page, [name |-> e, kind |-> l.kind])]
    /\ loads' = Judged(l, [l EXCEPT !.events = @ \ {e}])
    /\ UNCHANGED <<setting, left, now, server, keychain, group, writes, app, calls, let, overlapped>>
    /\ UNCHANGED <<worker, store, mails, block>>

\* Grants that the policy no longer carries are forgotten.
Remembered == IF worker.snap = None THEN worker.spent ELSE worker.spent \cap Ids(worker.snap.temps)

SafariVerdict(page) ==
    LET view == View(worker.snap, Remembered)
    IN  IF worker.snap = None
        THEN IF worker.provisioned THEN Verdict("BLOCK", "no-policy", None) ELSE Verdict("ALLOW", "no-policy", None)
        ELSE playback(evaluateInSafari(view, page, now), hasActiveVideoGrant(view, now), page)

Top(task) == task.event.kind # "frame"

\* The tab is sent to the block page, which remembers an ask.
Redirected(p) == [block EXCEPT ![p].mode = IF store.asks[p] = None THEN "idle" ELSE "asked"]

SpentNow(v) == Remembered \cup {v.id}

\* decide, then spendOnce or the block page.
decide(t) ==
    LET task == tasks[t]
        v == SafariVerdict(setting.pages[task.page])
        spends == Top(task) /\ v.action = "ALLOW" /\ v.reason = "temporary:ONCE"
    IN  /\ Is(t, "event", "decide")
        /\ Done(t)
        /\ IF spends
           THEN /\ worker' = [worker EXCEPT !.spent = SpentNow(v)]
                /\ store' = [store EXCEPT !.spent = SpentNow(v)]
                /\ Send("SPEND_GRANT", v.id, None)
           ELSE worker' = [worker EXCEPT !.spent = Remembered] /\ UNCHANGED <<store, mails>>
        /\ block' = IF v.action = "BLOCK" /\ Top(task) THEN Redirected(task.page) ELSE block
        /\ UNCHANGED device

-----------------------------------------------------------------------------
(* The block page. *)

Ask(p) == /\ block[p].mode \in {"idle", "declined", "late"} /\ block[p].ask = "none" /\ Use("ask")
          /\ block' = [block EXCEPT ![p] = [mode |-> "asking", ask |-> "clicked"]]
          /\ UNCHANGED <<setting, now, server, keychain, group, writes, app, calls, loads, let, overlapped>>
          /\ UNCHANGED <<worker, store, tasks, mails>>

DeliverAsk(p) ==
    /\ block[p].ask = "clicked" /\ worker.up /\ HasFree(tasks)
    /\ block' = [block EXCEPT ![p].ask = "sent"]
    /\ tasks' = [tasks EXCEPT ![Free(tasks)] = Task("ask", Entry("send"), p, None)]
    /\ UNCHANGED <<worker, store, mails>> /\ Inside

sendAccessRequest(t) ==
    /\ Is(t, "ask", "send") /\ Send("REQUEST_ACCESS", tasks[t].page, t)
    /\ Step(t, tasks[t], "answer")
    /\ UNCHANGED <<worker, store, block>> /\ Inside

Delivered(body) == body # None /\ body

AskAnswered(t) ==
    /\ Is(t, "ask", "answer")
    /\ \E m \in Reply(t) :
        /\ mails' = [mails EXCEPT ![m] = None]
        /\ IF tasks[t].event = Late THEN UNCHANGED <<store, block>>
           ELSE IF Delivered(mails[m].body)
           THEN /\ store' = [store EXCEPT !.asks[tasks[t].page] = now]
                /\ block' = [block EXCEPT ![tasks[t].page] = [mode |-> "asked", ask |-> "none"]]
           ELSE /\ block' = [block EXCEPT ![tasks[t].page] = [mode |-> "idle", ask |-> "none"]]
                /\ UNCHANGED store
    /\ Done(t)
    /\ UNCHANGED worker /\ Inside

\* Twelve seconds: whatever comes now is not believed.
AskTimesOut(p) ==
    /\ block[p].ask # "none"
    /\ block' = [block EXCEPT ![p] = [mode |-> "idle", ask |-> "none"]]
    /\ tasks' = [t \in Slot |-> IF tasks[t] # None /\ tasks[t].kind = "ask" /\ tasks[t].page = p
                                THEN [tasks[t] EXCEPT !.event = Late] ELSE tasks[t]]
    /\ UNCHANGED <<worker, store, mails>> /\ Inside

\* The page stops claiming that nobody has answered.
renderAskedNote(p) == /\ block[p].mode = "asked"
                      /\ block' = [block EXCEPT ![p].mode = "late"]
                      /\ UNCHANGED <<worker, store, tasks, mails>> /\ Inside

ruleHitsThisPage(r, p) == /\ r.target \in {"URL", "YOUTUBE_VIDEO", "DOMAIN"}
                          /\ r.value \in setting.pages[p].names[r.target]

\* The first temporary rule of the page, then a standing one that answers the ask.
answerIn(snap, p) ==
    LET temps == {t \in snap.temps : isActiveTemp(t, now) /\ ruleHitsThisPage(t, p)}
        rules == {r \in snap.rules : /\ ruleHitsThisPage(r, p)
                                     /\ r.action = "BLOCK" => store.asks[p] # None /\ r.created >= store.asks[p]}
        first(S) == CHOOSE r \in S : \A s \in S : r.order <= s.order
        word(r)  == IF r.action = "ALLOW" THEN "approved" ELSE "declined"
    IN  IF snap = None THEN None
        ELSE IF temps # {} THEN word(first(temps))
        ELSE IF rules # {} THEN word(first(rules)) ELSE None

refreshFromSnapshot(p) ==
    LET answer == answerIn(store.snap, p)
    IN  /\ block[p].mode \notin {"none", "approved", "declined"}
        /\ answer = "approved" \/ (answer = "declined" /\ block[p].mode \in {"asked", "late"})
        /\ block' = [block EXCEPT ![p].mode = answer]
        /\ UNCHANGED <<worker, store, tasks, mails>> /\ Inside

-----------------------------------------------------------------------------
Init == /\ DeviceInit
        /\ worker = Asleep
        /\ store = [snap |-> IF setting.stored THEN group.raw ELSE None, provisioned |-> setting.stored,
                    spent |-> {}, asks |-> [p \in Pages |-> None]]
        /\ tasks = [t \in Slot |-> None] /\ mails = [m \in Slot |-> None]
        /\ block = [p \in Pages |-> NoBlockPage]

TaskStep(t) == \/ ReadCache(t) \/ restoreCachedPolicy(t) \/ Synced(t) \/ Provisioned(t) \/ Adopt(t)
               \/ decide(t) \/ sendAccessRequest(t) \/ AskAnswered(t)

Deliveries == (\E l \in loads : \E e \in l.events : Deliver(l, e)) \/ (\E p \in Pages : DeliverAsk(p))

AdoptStored == \E next \in worker.adopting : adoptSnapshotIfVerified(next)

Next == \/ DeviceStep /\ UNCHANGED safari
        \/ \E m \in Slot : beginRequest(m)
        \/ \E w \in writes : CommitMail(w)
        \/ Wake \/ Unload \/ restoreSpent \/ syncFromNative \/ AdoptStored \/ Deliveries
        \/ \E t \in Slot : TaskStep(t)
        \/ \E p \in Pages : Ask(p) \/ AskTimesOut(p) \/ renderAskedNote(p) \/ refreshFromSnapshot(p)

Spec == Init /\ [][Next]_vars

\* Safari runs what it has begun and delivers what it has; the system runs the
\* app's calls, its handler and the filter; a poll comes round again.
Fairness ==
    /\ \A t \in Slot : WF_vars(TaskStep(t)) /\ WF_vars(beginRequest(t))
    /\ \A k \in Call : WF_vars(CallStep(k) /\ UNCHANGED safari)
    /\ WF_vars(\E w \in writes : CommitMail(w) \/ ((Take(w) \/ Commit(w)) /\ UNCHANGED safari))
    /\ WF_vars(OpenApp /\ UNCHANGED safari)
    /\ WF_vars(Wake) /\ WF_vars(restoreSpent) /\ WF_vars(syncFromNative)
    /\ WF_vars(AdoptStored) /\ WF_vars(Deliveries)

FairSpec == Spec /\ Fairness

-----------------------------------------------------------------------------
\* The shape of the state: the queue holds each target once and never more than
\* it may (PolicyStore.swift, enqueueAccessRequest), only a running worker has
\* tasks, and an answered message has somebody who waits for it.
TypeOK ==
    /\ \A thing \in DOMAIN left : left[thing] \in Nat
    /\ Len(group.queue) <= setting.maxPending
    /\ Cardinality(Range(group.queue)) = Len(group.queue)
    /\ app.screen \in {"idle", "sending", "waiting", "answered", "opened", "closed", "failed"}
    /\ worker.up \/ (worker = Asleep /\ \A t \in Slot : tasks[t] = None)
    /\ \A m \in Slot : mails[m] # None /\ mails[m].at = "answered" =>
            mails[m].task # None /\ tasks[mails[m].task] # None
    /\ \A p \in Pages : block[p].mode \in {"none", "idle", "asking", "asked", "late", "approved", "declined"}

\* "Just once": the filter lets at most one page through by a single-use grant,
\* however Safari's spends and the reports fall between the look at the spent
\* grants and the write (FilterDataProvider verdict, spendGrant).  Three things may
\* bring back a grant whose spending was forgotten: an install that overlaps
\* another, one that falls between a spend's look at the policy and its write, and
\* an answer to an earlier enrolment.
OnceMeansOnce == ~setting.racing /\ server.enrolled <= 1 /\ overlapped = {} =>
    \A id \in DOMAIN let : let[id] <= 1

\* An ask that the block page remembers as asked is in the queue, or with the
\* backend, or the backend refused it: no lost request, no full queue, no failed
\* post and no end of the app loses it (postQueuedAccessRequests, requestAccess).
AsksKept == ~setting.racing =>
    \A p \in Pages : store.asks[p] # None =>
        p \in Range(group.queue) \cup server.posted \cup server.refused

Enforced(g) == IF g.raw = None THEN 0 ELSE g.raw.version

\* The policy that the filter enforces is never replaced by an older one, late
\* answers, signing out and enrolling again included, and a device that had one
\* is never without (PolicyStore install).  Two installs that overlap may.
NeverBackwards ==
    []["install" \notin overlapped' =>
           /\ Enforced(group') >= Enforced(group)
           /\ State = "verified" => group'.raw # None /\ group'.raw.version >= group'.high]_vars

\* Safari has the policy the filter has and, of what neither has spent, both say
\* what the reference says, of every page that is not a video's plumbing.
SafariAgrees ==
    /\ worker.snap = group.raw
    /\ \A p \in Pages : LET page == setting.pages[p] IN
        (worker.snap # None /\ ~page.support /\ worker.spent = {} /\ group.spent = {}) =>
            /\ SafariVerdict(page).action = evaluate(group.raw, page, now).action
            /\ FilterVerdict(page).action = evaluate(group.raw, page, now).action

\* Whatever is unloaded, restored late, adopted twice or lost on the way, a worker
\* that runs comes to judge as the filter does (syncFromNative, restoreCachedPolicy).
SafariFollows == <>[]("install" \in overlapped \/ ~worker.up \/ SafariAgrees)

\* "Saved. It reaches your parent when the Ajar app next opens" (blocked.js).
AsksReachParent == (app.up /\ group.queue # <<>>) ~> (group.queue = <<>>)
==============================================================================
