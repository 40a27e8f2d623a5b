--------------------------- MODULE WindowsExtension ---------------------------
(***************************************************************************)
(* The browser extension on Windows (windows/extension): the worker that   *)
(* judges every load from the policy in its memory, the loops that keep    *)
(* that policy and the category filters current, the options page that     *)
(* links the browser to a child, the tabs and their block pages.           *)
(*                                                                         *)
(* An async function moves from await to await; the browser may end the    *)
(* worker between any two.  chrome.storage answers in order, but what was  *)
(* read before an await is written back after it.  The backends are        *)
(* external: a policy per link that a parent edits, signed by the key of   *)
(* its server.                                                             *)
(***************************************************************************)
EXTENDS Evaluator

CONSTANTS
    Tab,        \* the browser's tabs
    Settings    \* the situations that are explored

VARIABLES
    setting,    \* the situation
    left,       \* how much of each thing may still happen
    now,        \* the time; a tick is longer than an answer takes
    server,     \* the backend: each link's policy, consumed grants and asks; asks nobody took
    storage,    \* chrome.storage.local
    worker,     \* the service worker's memory
    task,       \* the functions that change the config
    reports,    \* spent grants on their way to the backend
    tab,        \* Tab |-> what it shows and where it is going
    asking,     \* Tab |-> the message of its block page to the worker
    \* Auxiliary: no action decides by them.
    opened,     \* grant |-> loads it has opened in this life of the worker
    excused     \* what has happened that the code does not guard against

vars == <<setting, left, now, server, storage, worker, task, reports, tab, asking, opened, excused>>

Pages == DOMAIN setting.pages
Link  == DOMAIN setting.policies        \* the enrolments of this browser, in turn

\* What may happen a bounded number of times.
Things == {"edit", "tick", "mishap", "link", "unlink", "close", "kill", "due", "filters", "load", "route",
           "ask", "remove"}

Contents(s) == UNION {{s.policies[d][i] : i \in DOMAIN s.policies[d]} : d \in DOMAIN s.policies}

SnapshotsOf(s) ==
    [device : DOMAIN s.policies, child : DOMAIN s.policies, version : Nat,
     temps : UNION {SUBSET p.temps : p \in Contents(s)}, rules : {p.rules : p \in Contents(s)},
     webDefault : {p.webDefault : p \in Contents(s)}, youTubeDefault : {p.youTubeDefault : p \in Contents(s)}]

TripsOf(s) == [page : DOMAIN s.pages, at : {"sent", "loading", "blocking"}, stands : BOOLEAN]

ASSUME WindowsAssumption ==
    \A s \in Settings :
        /\ s.policies \in Seq(Seq(Contents(s)) \ {<<>>}) \ {<<>>} /\ DOMAIN s.policies \subseteq DOMAIN s.servers
        /\ None \notin Int /\ None \notin SnapshotsOf(s) /\ None \notin TripsOf(s)
        /\ s.dataset \in Nat /\ s.linked \in BOOLEAN /\ s.left \in [Things -> Nat]
        /\ \A p \in Contents(s) : \A page \in DOMAIN p.answers : p.answers[page] \in {"opened", "closed"}

\* A sorted list has a first; a grant is never changed, and one that leaves a
\* child's policy does not come back to it (Approvals).
ASSUME GrantAssumption ==
    \A s \in Settings :
        /\ \A p \in Contents(s) : \A S \in SUBSET p.temps :
                /\ S # {} => \E t \in S : \A u \in S \ {t} : Before(t, u, FALSE)
                /\ \A t \in S : {t.from, t.until, t.priority, t.order} \subseteq Int
        /\ \A d, e \in DOMAIN s.policies :
               d <= e => \A i \in DOMAIN s.policies[d], k \in DOMAIN s.policies[e] :
                   \A t \in s.policies[d][i].temps, u \in s.policies[e][k].temps :
                       t.id = u.id => t = u /\ \A c \in {d, e} : \A j \in DOMAIN s.policies[c] :
                                           (c = d => i <= j) /\ (c = e => j <= k) => t \in s.policies[c][j].temps

Use(thing) == left[thing] > 0 /\ left' = [left EXCEPT ![thing] = @ - 1]

\* A request is lost, or the backend is in trouble.
Mishap == Use("mishap")

-----------------------------------------------------------------------------
(* The backend. *)

Ids(items) == {t.id : t \in items}

Snapshot(d) ==
    LET p == setting.policies[d][server.edition[d]]
    IN  [device |-> d, child |-> d, version |-> server.version[d],
         temps |-> {t \in p.temps : now < t.until /\ t.id \notin server.consumed},
         rules |-> p.rules, webDefault |-> p.webDefault, youTubeDefault |-> p.youTubeDefault]

\* A parent's edit, which may answer asks that wait.
Answered(asks, answers) ==
    [p \in Pages |-> IF asks[p].pending /\ p \in DOMAIN answers
                     THEN [pending |-> FALSE, answer |-> answers[p]] ELSE asks[p]]

Edit(d) ==
    /\ Use("edit") /\ d <= server.links /\ server.edition[d] < Len(setting.policies[d])
    /\ LET answers == setting.policies[d][server.edition[d] + 1].answers
       IN  server' = [server EXCEPT !.edition[d] = @ + 1, !.version[d] = @ + 1,
                                    !.asks[d] = Answered(@, answers)]
    /\ UNCHANGED <<setting, now, storage, worker, task, reports, tab, asking, opened, excused>>

\* A parent takes the device away.
Remove(d) ==
    /\ Use("remove") /\ d <= server.links /\ server' = [server EXCEPT !.removed = @ \cup {d}]
    /\ UNCHANGED <<setting, now, storage, worker, task, reports, tab, asking, opened, excused>>

-----------------------------------------------------------------------------
(* The config. *)

Unlinked == [device |-> None, token |-> None, due |-> FALSE, version |-> 0, filter |-> 0]

\* An async function: where it is, the config and the answer it goes by, and the
\* change it makes to the config.
NoTask == [at |-> "idle", cfg |-> Unlinked, body |-> None, patch |-> <<>>, cur |-> Unlinked, next |-> "idle"]

Linked(cfg) == cfg.device # None /\ cfg.token # None

Authorized(cfg) == Linked(cfg) /\ cfg.token = cfg.device /\ cfg.device \notin server.removed

Is(k, at) == task[k].at = at

At(k, at) == task' = [task EXCEPT ![k].at = at]

Ended(k) == task' = [task EXCEPT ![k] = NoTask]

\* setConfig(patch), to go on at next.
Saving(k, patch, next) ==
    task' = [task EXCEPT ![k].at = "read", ![k].patch = patch, ![k].next = next]

\* The config is read whole, patched and written whole.
Patched(cfg, patch) == [f \in DOMAIN cfg |-> IF f \in DOMAIN patch THEN patch[f] ELSE cfg[f]]

ReadConfig(k) ==
    /\ Is(k, "read")
    /\ task' = [task EXCEPT ![k].at = "write", ![k].cur = storage.config]
    /\ UNCHANGED <<setting, left, now, server, storage, worker, reports, tab, asking, opened, excused>>

\* Excused: what one link read or answered is written over the config of another.
WriteConfig(k) ==
    LET mixed == \/ storage.config.device # task[k].cur.device
                 \/ k # "options" /\ storage.config.device # task[k].cfg.device
    IN  /\ Is(k, "write")
        /\ storage' = [storage EXCEPT !.config = Patched(task[k].cur, task[k].patch)]
        /\ excused' = IF mixed THEN excused \cup {"mixed"} ELSE excused
        /\ At(k, task[k].next)
        /\ UNCHANGED <<setting, left, now, server, worker, reports, tab, asking, opened>>

TokenDue ==
    /\ Use("due") /\ Linked(storage.config) /\ storage' = [storage EXCEPT !.config.due = TRUE]
    /\ UNCHANGED <<setting, now, server, worker, task, reports, tab, asking, opened, excused>>

\* getVerifyingKey: the pinned key, or else the one in the config.
Key == IF storage.pin # None THEN storage.pin
       ELSE IF Linked(storage.config) THEN setting.servers[storage.config.device] ELSE None

VerifiedBy(key, snap) == key # None /\ key = setting.servers[snap.device]

Verified(snap) == VerifiedBy(Key, snap)

-----------------------------------------------------------------------------
(* What a page is judged by. *)

\* The time of the backend when it was last heard, and what this life has
\* measured since.
nowMs == IF worker.anchor = None THEN now
         ELSE worker.anchor.server + (now - worker.born) - worker.anchor.perf

Anchor(at) == [server |-> at, perf |-> now - worker.born]

\* The filter set says which pages are of a category; without one, none is.
Seen(page) == IF worker.filters = None THEN [page EXCEPT !.names.CATEGORY = {}] ELSE page

Started(snap) == [snap EXCEPT !.temps = {t \in @ : t.from <= nowMs}]

\* The worker's copy of evaluate(), with the categories its filters know.
evaluateInWorker(policy, page) == evaluate(Started(policy), Seen(page), nowMs)

\* A page's load is judged without the grants this worker has spent; what a page
\* loads is judged by the whole policy, and a video's bytes follow the grants.
decide(p, top) ==
    LET page == setting.pages[p]
        snap == worker.snap
    IN  IF snap = None
        THEN IF page.youTube THEN Verdict("BLOCK", "failclosed:no-snapshot", None)
             ELSE Verdict("ALLOW", "failopen:no-snapshot", None)
        ELSE IF ~top /\ page.support /\ hasActiveVideoGrant(Started(snap), nowMs)
        THEN Verdict("ALLOW", "playback-support", None)
        ELSE evaluateInWorker(IF top THEN View(snap, worker.spent) ELSE snap, page)

Blocked(p) == decide(p, TRUE).action = "BLOCK"

\* What a decision went by has changed: the loads it was about have yet to be shown.
Doubted(x) == IF x.next # None /\ x.next.at # "sent" THEN [x EXCEPT !.next.stands = FALSE] ELSE x

Unsettled == tab' = [t \in Tab |-> Doubted(tab[t])]

Spends(v) == v.action = "ALLOW" /\ v.reason = "temporary:ONCE"

\* The grant is noted and, by a linked browser, reported.
spendOnce(v) ==
    IF Spends(v)
    THEN /\ worker' = [worker EXCEPT !.spent = @ \cup {v.id}]
         /\ reports' = IF worker.mode = "backend" /\ Linked(storage.config)
                       THEN reports \cup {[id |-> v.id, cfg |-> storage.config]} ELSE reports
         /\ opened' = [opened EXCEPT ![v.id] = @ + 1]
    ELSE UNCHANGED <<worker, reports, opened>>

\* The report arrives, or is lost for good.
consumeGrant(r) ==
    LET d == r.cfg.device
        found == Authorized(r.cfg) /\ r.id \in Ids(Snapshot(d).temps)
    IN  /\ reports' = reports \ {r}
        /\ \/ found /\ server' = [server EXCEPT !.consumed = @ \cup {r.id}, !.version[d] = @ + 1] /\ UNCHANGED left
           \/ ~found /\ UNCHANGED <<server, left>>
           \/ Mishap /\ UNCHANGED server
        /\ UNCHANGED <<setting, now, storage, worker, task, tab, asking, opened, excused>>

-----------------------------------------------------------------------------
(* The worker's life. *)

Asleep == [up |-> FALSE, born |-> 0, mode |-> "none", port |-> FALSE, snap |-> None, anchor |-> None,
           spent |-> {}, filters |-> None, cache |-> None, recheck |-> FALSE, listed |-> <<>>,
           checked |-> None]

\* An event wakes it: the script reads the stored policy and the config at once.
Start ==
    /\ ~worker.up
    /\ worker' = [Asleep EXCEPT !.up = TRUE, !.born = now, !.cache = [at |-> "read"]]
    /\ UNCHANGED <<setting, left, now, server, storage, task, reports, tab, asking, opened, excused>>

\* A message that the worker has taken fails; what it has spent is forgotten, and
\* the loads of the next life are counted anew.
\* Excused: its end between two writes, of the version and of the snapshot.
Kill ==
    /\ worker.up /\ Use("kill")
    /\ worker' = Asleep
    /\ task' = [task EXCEPT !["policy"] = NoTask, !["filters"] = NoTask]
    /\ asking' = [t \in Tab |-> IF asking[t].at \in {"posting", "filed"} THEN [asking[t] EXCEPT !.at = "failed"]
                                ELSE asking[t]]
    /\ reports' \in SUBSET reports
    /\ Unsettled
    /\ opened' = [id \in DOMAIN opened |-> 0]
    /\ excused' = IF Is("policy", "apply") THEN excused \cup {"torn"} ELSE excused
    /\ UNCHANGED <<setting, now, server, storage>>

\* Which source, once and for this life: the backend of a linked browser, or the host.
ChooseSource ==
    /\ worker.up /\ worker.mode = "none"
    /\ worker' = [worker EXCEPT !.mode = IF Linked(storage.config) THEN "backend" ELSE "native"]
    /\ UNCHANGED <<setting, left, now, server, storage, task, reports, tab, asking, opened, excused>>

Restoring(at) == worker.cache # None /\ worker.cache.at = at

ReadCache ==
    /\ Restoring("read")
    /\ worker' = [worker EXCEPT !.cache = [at |-> "snap", snap |-> storage.snap, anchor |-> storage.anchor,
                                           filters |-> storage.filters, key |-> Key]]
    /\ UNCHANGED <<setting, left, now, server, storage, task, reports, tab, asking, opened, excused>>

\* A stored snapshot is verified and adopted, or dropped.
\* Excused: it replaces what the loop has put in force meanwhile.
RestoreSnapshot ==
    LET snap == worker.cache.snap
    IN  /\ Restoring("snap")
        /\ IF snap = None
           THEN worker' = [worker EXCEPT !.cache.at = "filters", !.checked = None] /\ UNCHANGED storage
           ELSE IF VerifiedBy(worker.cache.key, snap)
           THEN worker' = [worker EXCEPT !.cache.at = "filters", !.checked = None, !.snap = snap] /\ UNCHANGED storage
           ELSE /\ worker' = [worker EXCEPT !.cache.at = "filters", !.checked = None, !.snap = None]
                /\ storage' = [storage EXCEPT !.snap = None]
        /\ Unsettled
        /\ excused' = IF snap # None /\ worker.snap \notin {None, snap} THEN excused \cup {"late"} ELSE excused
        /\ UNCHANGED <<setting, left, now, server, task, reports, asking, opened>>

\* Then the filters and the clock, and the open tabs are looked at.
restoreCachedPolicy ==
    LET cache == worker.cache
        ok == cache.filters # None /\ VerifiedBy(cache.key, cache.filters)
    IN  /\ Restoring("filters")
        /\ worker' = [worker EXCEPT !.cache = None, !.recheck = TRUE,
                          !.filters = IF ok THEN cache.filters ELSE @,
                          !.anchor = IF cache.anchor # None THEN cache.anchor ELSE @]
        /\ storage' = IF cache.filters = None \/ ok THEN storage ELSE [storage EXCEPT !.filters = None]
        /\ Unsettled
        /\ UNCHANGED <<setting, left, now, server, task, reports, asking, opened, excused>>

-----------------------------------------------------------------------------
(* startPolicySync. *)

Loops == worker.up /\ worker.mode = "backend"

StartPoll ==
    /\ Loops /\ Is("policy", "idle") /\ Linked(storage.config)
    /\ task' = [task EXCEPT !["policy"].cfg = storage.config,
                            !["policy"].at = IF storage.config.due THEN "renew" ELSE "poll"]
    /\ UNCHANGED <<setting, left, now, server, storage, worker, reports, tab, asking, opened, excused>>

\* A third of the way through its life the token is renewed, if that succeeds.
refreshDeviceTokenIfDue ==
    LET cfg == task["policy"].cfg
    IN  /\ Is("policy", "renew")
        /\ \/ Authorized(cfg) /\ Saving("policy", [token |-> cfg.device, due |-> FALSE], "reread") /\ UNCHANGED left
           \/ ~Authorized(cfg) /\ At("policy", "poll") /\ UNCHANGED left
           \/ Mishap /\ At("policy", "poll")
        /\ UNCHANGED <<setting, now, server, storage, worker, reports, tab, asking, opened, excused>>

Reread ==
    /\ Is("policy", "reread")
    /\ task' = [task EXCEPT !["policy"].cfg = storage.config, !["policy"].at = "poll"]
    /\ UNCHANGED <<setting, left, now, server, storage, worker, reports, tab, asking, opened, excused>>

Smaller(m, n) == IF m < n THEN m ELSE n

\* The backend believes no more than it has sent to the device.
HasNew(cfg) == Smaller(cfg.version, server.sent[cfg.device]) < server.version[cfg.device]

\* Mutant: a request that failed is the last one.
GivesUp(k) == At(k, "stopped")

\* After a pause, the loop goes round again.
Retries(k) == Ended(k)

\* The long poll: a snapshot, "up to date", a refusal, or no answer, be it the
\* request or a snapshot that was lost.
Polled ==
    LET cfg == task["policy"].cfg
        d   == cfg.device
        Sends == Authorized(cfg) /\ HasNew(cfg) /\ server' = [server EXCEPT !.sent[d] = server.version[d]]
    IN  /\ Is("policy", "poll")
        /\ \/ /\ Sends
              /\ task' = [task EXCEPT !["policy"].at = "verify",
                                      !["policy"].body = [snap |-> Snapshot(d), at |-> now]]
              /\ UNCHANGED left
           \/ Authorized(cfg) /\ ~HasNew(cfg) /\ Ended("policy") /\ UNCHANGED <<server, left>>
           \/ ~Authorized(cfg) /\ Retries("policy") /\ UNCHANGED <<server, left>>
           \/ Mishap /\ Retries("policy") /\ (Sends \/ UNCHANGED server)
        /\ UNCHANGED <<setting, now, storage, worker, reports, tab, asking, opened, excused>>

\* The version is stored before the snapshot is in force.
Verify ==
    LET snap == task["policy"].body.snap
    IN  /\ Is("policy", "verify")
        /\ IF Verified(snap) THEN Saving("policy", [version |-> snap.version], "apply") ELSE Retries("policy")
        /\ UNCHANGED <<setting, left, now, server, storage, worker, reports, tab, asking, opened, excused>>

\* Mutant: nothing that was spent is remembered.
Nothing(snap) == {}

\* Grants that the policy no longer has are forgotten.
Remembered(snap) == worker.spent \cap Ids(snap.temps)

\* In force, in storage, and the open tabs are looked at.
applySnapshot ==
    LET body == task["policy"].body
    IN  /\ Is("policy", "apply")
        /\ worker' = [worker EXCEPT !.snap = body.snap, !.spent = Remembered(body.snap),
                                    !.anchor = Anchor(body.at), !.recheck = TRUE]
        /\ storage' = [storage EXCEPT !.snap = body.snap, !.anchor = Anchor(body.at)]
        /\ Ended("policy")
        /\ Unsettled
        /\ UNCHANGED <<setting, left, now, server, reports, asking, opened, excused>>

-----------------------------------------------------------------------------
(* startCategoryFilterSync: a few times a day. *)

StartFilters ==
    /\ Loops /\ Is("filters", "idle") /\ Linked(storage.config) /\ Use("filters")
    /\ task' = [task EXCEPT !["filters"].cfg = storage.config, !["filters"].at = "poll",
                            !["filters"].body = Key]
    /\ UNCHANGED <<setting, now, server, storage, worker, reports, tab, asking, opened, excused>>

FiltersPolled ==
    LET cfg == task["filters"].cfg
        set == [device |-> cfg.device, version |-> setting.dataset]
        new == Authorized(cfg) /\ cfg.filter < setting.dataset /\ VerifiedBy(task["filters"].body, set)
    IN  /\ Is("filters", "poll")
        /\ \/ /\ new /\ UNCHANGED left
              /\ task' = [task EXCEPT !["filters"].at = "read", !["filters"].next = "apply", !["filters"].body = set,
                                      !["filters"].patch = [filter |-> set.version]]
           \/ ~new /\ Ended("filters") /\ UNCHANGED left
           \/ Mishap /\ Ended("filters")
        /\ UNCHANGED <<setting, now, server, storage, worker, reports, tab, asking, opened, excused>>

applyCategoryFilters ==
    /\ Is("filters", "apply")
    /\ worker' = [worker EXCEPT !.filters = task["filters"].body, !.checked = None]
    /\ storage' = [storage EXCEPT !.filters = task["filters"].body]
    /\ Ended("filters")
    /\ Unsettled
    /\ UNCHANGED <<setting, left, now, server, reports, asking, opened, excused>>

-----------------------------------------------------------------------------
(* The native host, where the browser is not linked: its service has verified *)
(* what it hands over.                                                     *)

connectNativeHost ==
    /\ worker.up /\ worker.mode = "native" /\ ~worker.port /\ setting.host
    /\ worker' = [worker EXCEPT !.port = TRUE]
    /\ UNCHANGED <<setting, left, now, server, storage, task, reports, tab, asking, opened, excused>>

HostGone ==
    /\ worker.port /\ Mishap /\ worker' = [worker EXCEPT !.port = FALSE]
    /\ UNCHANGED <<setting, now, server, storage, task, reports, tab, asking, opened, excused>>

\* No tab is looked at, and nothing that was spent is forgotten.
HostSnapshot ==
    /\ worker.port /\ worker.snap # Snapshot(1)
    /\ worker' = [worker EXCEPT !.snap = Snapshot(1), !.anchor = Anchor(now)]
    /\ storage' = [storage EXCEPT !.snap = Snapshot(1), !.anchor = Anchor(now)]
    /\ UNCHANGED <<setting, left, now, server, task, reports, tab, asking, opened, excused>>

HostFilters ==
    LET set == [device |-> 1, version |-> setting.dataset]
    IN  /\ worker.port /\ setting.dataset > 0 /\ worker.filters # set
        /\ worker' = [worker EXCEPT !.filters = set]
        /\ storage' = [storage EXCEPT !.filters = set]
        /\ UNCHANGED <<setting, left, now, server, task, reports, tab, asking, opened, excused>>

-----------------------------------------------------------------------------
(* The options page. *)

AllowedUrl(url) == url \in {storage.pin, "ajar"} \/ setting.devMode

\* The same server, or a parent's setup word.
decideEnrollment(url, unlocked) == storage.pin \in {None, url} \/ unlocked

\* The setup word, if one is set, was given.
Unlocks(given) == storage.word /\ given

\* The code is redeemed: the backend names the device, and the config follows.
enroll(given) ==
    LET d == server.links + 1
    IN  /\ Is("options", "idle") /\ ~Linked(storage.config) /\ d \in Link
        /\ AllowedUrl(setting.servers[d]) /\ decideEnrollment(setting.servers[d], Unlocks(given))
        /\ \/ /\ Use("link") /\ server' = [server EXCEPT !.links = d]
              /\ Saving("options", [device |-> d, token |-> d, due |-> FALSE, version |-> 0], "pin")
           \/ Mishap /\ UNCHANGED <<server, task>>
        /\ UNCHANGED <<setting, now, storage, worker, reports, tab, asking, opened, excused>>

\* The device it was given is the last one.
pinTrustAnchor ==
    /\ Is("options", "pin")
    /\ storage' = [storage EXCEPT !.pin = setting.servers[task["options"].patch.device]]
    /\ At("options", "word")
    /\ UNCHANGED <<setting, left, now, server, worker, reports, tab, asking, opened, excused>>

\* The first time, the word is set.
setParentWord ==
    /\ Is("options", "word")
    /\ storage' = [storage EXCEPT !.word = TRUE]
    /\ Ended("options")
    /\ UNCHANGED <<setting, left, now, server, worker, reports, tab, asking, opened, excused>>

\* decideUnenroll: a browser that has a word asks for it.
Disconnect(given) ==
    /\ Is("options", "idle") /\ Linked(storage.config) /\ (storage.word => Unlocks(given)) /\ Use("unlink")
    /\ storage' = [storage EXCEPT !.config = Unlinked]
    /\ At("options", "clear")
    /\ UNCHANGED <<setting, now, server, worker, reports, tab, asking, opened, excused>>

\* The pin and the word outlive it, but for a browser that never had a word.
clearLocalPolicy ==
    /\ Is("options", "clear")
    /\ storage' = [storage EXCEPT !.snap = None, !.anchor = None, !.filters = None,
                                  !.asks = [p \in Pages |-> 0],
                                  !.pin = IF storage.word THEN @ ELSE None]
    /\ Ended("options")
    /\ UNCHANGED <<setting, left, now, server, worker, reports, tab, asking, opened, excused>>

\* Excused: the page is closed between two writes.
CloseOptions ==
    /\ ~Is("options", "idle") /\ Use("close") /\ Ended("options")
    /\ excused' = excused \cup {"torn"}
    /\ UNCHANGED <<setting, now, server, storage, worker, reports, tab, asking, opened>>

-----------------------------------------------------------------------------
(* Tabs. *)

\* What a tab shows, where it is going and whether what that was decided by still
\* stands; and, for the block page, its state and the answer it has read from the
\* stored policy.
NoTab == [shown |-> None, at |-> "none", next |-> None, slipped |-> FALSE, mode |-> "none", askedAt |-> 0, local |-> "unread"]

Going(p) == [page |-> p, at |-> "sent", stands |-> TRUE]

ToBlockPage(p) == [page |-> p, at |-> "blocking", stands |-> TRUE]

Navigate(t, p) ==
    /\ t \in setting.tabs /\ Use("load")
    /\ tab' = [tab EXCEPT ![t].next = Going(p)]
    /\ UNCHANGED <<setting, now, server, storage, worker, task, reports, asking, opened, excused>>

\* The load is let through, or sent to the block page.
onBeforeRequestBlocking(t) ==
    LET next == tab[t].next
        v    == decide(next.page, TRUE)
    IN  /\ worker.up /\ next # None /\ next.at = "sent"
        /\ tab' = [tab EXCEPT ![t].next = IF v.action = "BLOCK" THEN ToBlockPage(next.page)
                                          ELSE [next EXCEPT !.at = "loading"]]
        /\ spendOnce(v)
        /\ UNCHANGED <<setting, left, now, server, storage, task, asking, excused>>

\* The tab shows what it was sent to; the block page remembers an ask.  What was
\* decided by another policy has slipped by.
Commit(t) ==
    LET next == tab[t].next
        parked == next.at = "blocking"
        asked == IF parked THEN storage.asks[next.page] ELSE 0
    IN  /\ next # None /\ next.at \in {"loading", "blocking"}
        /\ tab' = [tab EXCEPT ![t] = [NoTab EXCEPT !.shown = next.page, !.at = IF parked THEN "parked" ELSE "open",
                                          !.mode = IF ~parked THEN "none" ELSE IF asked > 0 THEN "asked" ELSE "idle",
                                          !.askedAt = asked, !.slipped = ~next.stands]]
        /\ asking' = [asking EXCEPT ![t].waits = FALSE]
        /\ UNCHANGED <<setting, left, now, server, storage, worker, task, reports, opened, excused>>

\* A video in the page that is open, without a request for it.
onHistoryStateUpdated(t, p) ==
    LET v == decide(p, TRUE)
    IN  /\ worker.up /\ tab[t].at = "open"
        /\ setting.pages[tab[t].shown].youTube /\ setting.pages[p].youTube /\ Use("route")
        /\ tab' = [tab EXCEPT ![t].shown = p, ![t].slipped = FALSE,
                              ![t].next = IF v.action = "BLOCK" THEN ToBlockPage(p) ELSE None]
        /\ spendOnce(v)
        /\ UNCHANGED <<setting, now, server, storage, task, asking, excused>>

\* reevaluateOpenTabs asks for the tabs ...
QueryTabs ==
    /\ worker.recheck /\ worker.listed = <<>>
    /\ worker' = [worker EXCEPT !.recheck = FALSE, !.listed = tab, !.checked = nowMs]
    /\ UNCHANGED <<setting, left, now, server, storage, task, reports, tab, asking, opened, excused>>

\* Mutant: a page that is open is left alone.
OnlyReopens(t) ==
    LET was == worker.listed[t]
    IN  IF was.at = "parked" /\ ~Blocked(was.shown) THEN [tab[t] EXCEPT !.next = Going(was.shown)]
        ELSE IF tab[t].shown = was.shown /\ tab[t].at = was.at THEN [tab[t] EXCEPT !.slipped = FALSE]
        ELSE tab[t]

\* ... and sends on each that showed what it should not; nothing is spent.
Rechecked(t) ==
    LET was == worker.listed[t]
    IN  IF was.at = "parked" /\ ~Blocked(was.shown) THEN [tab[t] EXCEPT !.next = Going(was.shown)]
        ELSE IF was.at = "open" /\ Blocked(was.shown) THEN [tab[t] EXCEPT !.next = ToBlockPage(was.shown)]
        ELSE IF tab[t].shown = was.shown /\ tab[t].at = was.at THEN [tab[t] EXCEPT !.slipped = FALSE]
        ELSE tab[t]

reevaluateOpenTabs ==
    /\ worker.listed # <<>>
    /\ tab' = [t \in Tab |-> Rechecked(t)]
    /\ worker' = [worker EXCEPT !.listed = <<>>]
    /\ UNCHANGED <<setting, left, now, server, storage, task, reports, asking, opened, excused>>

-----------------------------------------------------------------------------
(* The block page. *)

NoMessage == [at |-> "none", page |-> None, cfg |-> Unlinked, seen |-> <<>>, waits |-> FALSE]

Asking(t, at) == asking[t].at = at

Said(t, at) == asking' = [asking EXCEPT ![t].at = at]

Shows(t, mode) == tab' = [tab EXCEPT ![t].mode = mode]

\* The page that sent the message is still there, and has not given up.
Waits(t) == asking[t].waits

\* After some minutes a page no longer says that nobody has answered.
Stale(t) == tab[t].mode = "asked" /\ tab[t].askedAt < now

Ask(t) ==
    /\ tab[t].at = "parked" /\ (tab[t].mode \in {"idle", "declined"} \/ Stale(t))
    /\ Asking(t, "none") /\ Use("ask")
    /\ Shows(t, "asking")
    /\ asking' = [asking EXCEPT ![t] = [NoMessage EXCEPT !.at = "sent", !.page = tab[t].shown, !.waits = TRUE]]
    /\ UNCHANGED <<setting, now, server, storage, worker, task, reports, opened, excused>>

\* The worker posts the ask if it has a backend.  If not it passes it to the host
\* and says that all is well, even where there is no host to pass it to: then the
\* ask is nowhere, which is noted in server.unsent (auxiliary).
requestAccess(t) ==
    /\ worker.up /\ Asking(t, "sent")
    /\ IF worker.mode = "backend"
       THEN /\ asking' = [asking EXCEPT ![t].at = IF Linked(storage.config) THEN "posting" ELSE "failed",
                                        ![t].cfg = storage.config]
            /\ UNCHANGED server
       ELSE /\ Said(t, "ok")
            /\ server' = IF worker.port THEN [server EXCEPT !.host = @ \cup {asking[t].page}]
                         ELSE [server EXCEPT !.unsent = @ \cup {asking[t].page}]
    /\ UNCHANGED <<setting, left, now, storage, worker, task, reports, tab, opened, excused>>

\* An ask that waits already stays as it is.  A mishap loses the ask, or the
\* backend's word that it has it.
postAccessRequest(t) ==
    LET cfg == asking[t].cfg
        Filed == server' = [server EXCEPT !.asks[cfg.device][asking[t].page].pending = TRUE]
    IN  /\ Asking(t, "posting")
        /\ \/ Authorized(cfg) /\ Filed /\ Said(t, "filed") /\ UNCHANGED left
           \/ ~Authorized(cfg) /\ Said(t, "failed") /\ UNCHANGED <<server, left>>
           \/ Mishap /\ Said(t, "failed") /\ (UNCHANGED server \/ (Authorized(cfg) /\ Filed))
        /\ UNCHANGED <<setting, now, storage, worker, task, reports, tab, opened, excused>>

\* Mutant: the page says "asked" as soon as the worker has the message.
TellEarly(t) == Asking(t, "posting") /\ Said(t, "ok")

Tell(t) == Asking(t, "filed") /\ Said(t, "ok")

Told(t) == /\ Tell(t)
           /\ UNCHANGED <<setting, left, now, server, storage, worker, task, reports, tab, opened, excused>>

\* A page that has gone, or has given up, hears nothing.
NotSent(t) ==
    /\ \/ Asking(t, "failed")
       \/ asking[t].at \in {"ok", "recording"} /\ ~Waits(t)
    /\ IF Waits(t) THEN Shows(t, "idle") ELSE UNCHANGED tab
    /\ asking' = [asking EXCEPT ![t] = NoMessage]
    /\ UNCHANGED <<setting, left, now, server, storage, worker, task, reports, opened, excused>>

\* Twelve seconds without an answer.
TimesOut(t) ==
    /\ Waits(t) /\ asking[t].at \in {"sent", "posting", "filed"} /\ Shows(t, "idle")
    /\ asking' = [asking EXCEPT ![t].waits = FALSE]
    /\ UNCHANGED <<setting, left, now, server, storage, worker, task, reports, opened, excused>>

\* recordAsk reads the asks ...
ReadAsks(t) ==
    /\ Asking(t, "ok") /\ Waits(t)
    /\ asking' = [asking EXCEPT ![t].at = "recording", ![t].seen = storage.asks]
    /\ UNCHANGED <<setting, left, now, server, storage, worker, task, reports, tab, opened, excused>>

\* ... and writes them with its own; then the page says "asked".
recordAsk(t) ==
    /\ Asking(t, "recording") /\ Waits(t)
    /\ storage' = [storage EXCEPT !.asks = [asking[t].seen EXCEPT ![asking[t].page] = now]]
    /\ tab' = [tab EXCEPT ![t].mode = "asked", ![t].askedAt = now]
    /\ asking' = [asking EXCEPT ![t] = NoMessage]
    /\ UNCHANGED <<setting, left, now, server, worker, task, reports, opened, excused>>

NamesPage(r, p) == r.target \in {"URL", "YOUTUBE_VIDEO", "DOMAIN"} /\ r.value \in setting.pages[p].names[r.target]

Answer(action) == IF action = "ALLOW" THEN "approved" ELSE "declined"

\* What the stored policy says of the page by name: a temporary rule, a rule that
\* opens it, or one that closes it and is younger than the ask.
answerIn(snap, p, askedAt) ==
    LET temps == IF snap = None THEN {} ELSE {t \in snap.temps : now < t.until /\ NamesPage(t, p)}
        rules == IF snap = None THEN {} ELSE
                     {r \in snap.rules : NamesPage(r, p) /\ (r.action = "ALLOW" \/ r.created >= askedAt)}
        first == IF temps # {} THEN temps ELSE rules
    IN  IF first = {} THEN "none"
        ELSE Answer((CHOOSE t \in first : \A u \in first : t.order <= u.order).action)

\* It looks at the stored policy ...
ReadSnapshot(t) ==
    LET p     == tab[t].shown
        asked == IF tab[t].askedAt > 0 THEN tab[t].askedAt ELSE now
    IN  /\ tab[t].at = "parked" /\ tab[t].mode \in {"idle", "asking", "asked"} /\ tab[t].local = "unread"
        /\ setting.looks
        /\ tab' = [tab EXCEPT ![t].local = answerIn(storage.snap, p, asked)]
        /\ UNCHANGED <<setting, left, now, server, storage, worker, task, reports, asking, opened, excused>>

\* ... and asks the worker what was decided, which only a backend can tell.
serverAnswer(p) ==
    LET cfg == storage.config
        said == IF Authorized(cfg) THEN server.asks[cfg.device][p].answer ELSE "none"
    IN  IF worker.mode = "backend" /\ said # "none" THEN IF said = "opened" THEN {"approved"} ELSE {"declined"}
        ELSE {"none"}

refreshFromSnapshot(t) ==
    LET local == tab[t].local
    IN  /\ local # "unread" /\ worker.up
        /\ \E remote \in serverAnswer(tab[t].shown) :
             tab' = [tab EXCEPT ![t].local = "unread",
                         ![t].mode = IF local = "approved" THEN "approved"
                                     ELSE IF remote # "none" THEN remote
                                     ELSE IF local = "declined" /\ tab[t].askedAt > 0 THEN "declined"
                                     ELSE @]
        /\ UNCHANGED <<setting, left, now, server, storage, worker, task, reports, asking, opened, excused>>

OpenIt(t) ==
    /\ tab[t].at = "parked" /\ tab[t].mode = "approved" /\ tab[t].next = None
    /\ tab' = [tab EXCEPT ![t].next = Going(tab[t].shown)]
    /\ UNCHANGED <<setting, left, now, server, storage, worker, task, reports, asking, opened, excused>>

-----------------------------------------------------------------------------

Tick ==
    /\ Use("tick") /\ task["policy"].at \notin {"verify", "read", "write", "apply"}
    /\ now' = now + 1
    /\ Unsettled
    /\ UNCHANGED <<setting, server, storage, worker, task, reports, asking, opened, excused>>

NoAsk == [pending |-> FALSE, answer |-> "none"]

\* A browser that is linked already has been sent what it has stored.
Linked1 == [device |-> 1, token |-> 1, due |-> FALSE, version |-> 1, filter |-> 0]

OnceIds(s) == UNION {UNION {{t.id : t \in {u \in p.temps : u.grantKind = "ONCE"}} :
                            p \in {s.policies[d][i] : i \in DOMAIN s.policies[d]}} : d \in DOMAIN s.policies}

Init ==
    /\ setting \in Settings /\ left = setting.left /\ now = 1
    /\ server = [edition |-> [d \in Link |-> 1], version |-> [d \in Link |-> 1],
                 sent |-> [d \in Link |-> IF setting.linked /\ d = 1 THEN 1 ELSE 0],
                 links |-> IF setting.linked THEN 1 ELSE 0, consumed |-> {}, removed |-> {}, host |-> {}, unsent |-> {},
                 asks |-> [d \in Link |-> [p \in Pages |-> NoAsk]]]
    /\ storage = [config |-> IF setting.linked THEN Linked1 ELSE Unlinked,
                  snap |-> IF setting.linked THEN Snapshot(1) ELSE None,
                  anchor |-> IF setting.linked THEN [server |-> now, perf |-> 0] ELSE None,
                  filters |-> None, asks |-> [p \in Pages |-> 0],
                  pin |-> IF setting.linked THEN setting.servers[1] ELSE None, word |-> setting.linked]
    /\ worker = Asleep
    /\ task = [k \in {"policy", "filters", "options"} |-> NoTask]
    /\ reports = {}
    /\ tab = [t \in Tab |-> NoTab]
    /\ asking = [t \in Tab |-> NoMessage]
    /\ opened = [id \in OnceIds(setting) |-> 0]
    /\ excused = {}

ConfigStep(k) == ReadConfig(k) \/ WriteConfig(k)

WorkerStep == ChooseSource \/ ReadCache \/ RestoreSnapshot \/ restoreCachedPolicy \/ QueryTabs \/ reevaluateOpenTabs

PolicyStep == StartPoll \/ refreshDeviceTokenIfDue \/ Reread \/ ConfigStep("policy") \/ Polled \/ Verify \/ applySnapshot

FilterStep == FiltersPolled \/ ConfigStep("filters") \/ applyCategoryFilters

OptionsStep == ConfigStep("options") \/ pinTrustAnchor \/ setParentWord \/ clearLocalPolicy

HostStep == connectNativeHost \/ HostSnapshot \/ HostFilters

TabStep(t) == onBeforeRequestBlocking(t) \/ Commit(t)

MessageStep(t) ==
    requestAccess(t) \/ postAccessRequest(t) \/ Told(t) \/ NotSent(t) \/ ReadAsks(t) \/ recordAsk(t)

Next ==
    \/ Start \/ WorkerStep \/ PolicyStep \/ StartFilters \/ FilterStep \/ OptionsStep \/ HostStep
    \/ \E t \in Tab : TabStep(t) \/ MessageStep(t) \/ ReadSnapshot(t) \/ refreshFromSnapshot(t)
    \/ \E r \in reports : consumeGrant(r)
    \* What a parent, the child, the browser, time and luck may do.
    \/ \E d \in Link : Edit(d) \/ Remove(d)
    \/ \E given \in BOOLEAN : enroll(given) \/ Disconnect(given)
    \/ \E t \in Tab : Ask(t) \/ TimesOut(t) \/ OpenIt(t)
    \/ \E t \in Tab, p \in Pages : Navigate(t, p) \/ onHistoryStateUpdated(t, p)
    \/ Tick \/ TokenDue \/ Kill \/ CloseOptions \/ HostGone

Spec == Init /\ [][Next]_vars

\* The browser runs what it has begun, and answers arrive unless they are lost.
Fairness == WF_vars(WorkerStep \/ OptionsStep) /\ WF_vars(PolicyStep)

FairSpec == Spec /\ Fairness

-----------------------------------------------------------------------------
\* "Just once": each life of the worker lets at most one load through by a
\* single-use grant, however reports, snapshots and tabs that are sent on fall between
\* (background.js, spendOnce, decide, applySnapshot).  A policy may have the grant
\* again after it was forgotten when a stored one comes back over a newer one, when
\* one link's config is written over another's, and when the browser, linked to
\* another child, comes back to the first.
OnceMeansOnce == excused \cap {"late", "mixed"} = {} /\ server.links <= 2 =>
    \A id \in DOMAIN opened : opened[id] <= 1

\* An ask the block page remembers as asked is with a backend or the host, whatever
\* was lost, timed out or ended on the way (blocked.js, "ACKNOWLEDGED").  Two
\* workers say "asked" of an ask that nobody took, against that comment: one that
\* has not yet found out whether it has a backend or a host, and one that works
\* with a host that is gone or was never there.  Their pages are in server.unsent.
AskedIsFiled ==
    \A p \in Pages : storage.asks[p] > 0 =>
        p \in server.host \cup server.unsent \/ \E d \in Link : server.asks[d][p] # NoAsk

Settled == worker.up /\ worker.mode = "backend" /\ worker.cache = None /\ ~worker.recheck /\ worker.listed = <<>>

\* When the worker has looked at the tabs and neither time nor the filters have
\* moved since, a tab that goes nowhere shows a page the policy does not close or
\* the block page of one it does: approvals reopen, new rules close, a grant once
\* spent stays spent (reevaluateOpenTabs).  What was decided before a change and shown
\* after it is not looked at again.
TabsFollow == Settled /\ worker.checked = nowMs =>
    \A t \in Tab : tab[t].next = None /\ ~tab[t].slipped =>
        /\ tab[t].at = "open" => decide(tab[t].shown, FALSE).action # "BLOCK"
        /\ tab[t].at = "parked" => Blocked(tab[t].shown)

UpToDate == LET d == storage.config.device
            IN  worker.snap # None /\ worker.snap.device = d /\ worker.snap.version = server.version[d]

\* Whatever is lost on the way, renewed or linked again, a worker that polls comes
\* to enforce the current policy of the child its browser is linked to
\* (startPolicySync).
FollowsItsChild ==
    <>[](excused # {} \/ ~Loops \/ ~Linked(storage.config) \/ storage.config.device \in server.removed \/ UpToDate)
==============================================================================
