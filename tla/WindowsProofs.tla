---------------------------- MODULE WindowsProofs ----------------------------
(***************************************************************************)
(* Proofs about the extension on Windows, for any number of links, tabs,   *)
(* pages, grants, edits, mishaps and ends of the worker: its state is well *)
(* formed; an ask the block page remembers was filed, where there was      *)
(* somebody to file it with; a single-use grant lets at most one load      *)
(* through in each life of the worker; and the tabs follow the policy.     *)
(***************************************************************************)
EXTENDS WindowsExtension, FiniteSetTheorems, SequenceTheorems, TLAPS

-----------------------------------------------------------------------------
(* Types. *)

GrantIds == UNION {Ids(p.temps) : p \in Contents(setting)}

Snap == SnapshotsOf(setting)

Keys == {setting.servers[d] : d \in DOMAIN setting.servers} \cup {None}

MaybeLink == Link \cup {None}

Config == [device : MaybeLink, token : MaybeLink, due : BOOLEAN, version : Nat, filter : Nat]

FilterSet == [device : Link, version : Nat]

Clock == [server : Int, perf : Int]

MaybeSnap == Snap \cup {None}
MaybeFilters == FilterSet \cup {None}
MaybeClock == Clock \cup {None}

SettingOK == setting \in Settings

ServerOK ==
    /\ server \in [edition : [Link -> Nat], version : [Link -> Nat], sent : [Link -> Nat], links : Nat,
                   consumed : SUBSET GrantIds, removed : SUBSET Link, host : SUBSET Pages, unsent : SUBSET Pages,
                   asks : [Link -> [Pages -> [pending : BOOLEAN, answer : {"none", "opened", "closed"}]]]]
    /\ \A d \in Link : server.edition[d] \in DOMAIN setting.policies[d]

StorageOK ==
    storage \in [config : Config, snap : MaybeSnap, anchor : MaybeClock, filters : MaybeFilters,
                 asks : [Pages -> Nat], pin : Keys, word : BOOLEAN]

Cached == [at : {"snap", "filters"}, snap : MaybeSnap, anchor : MaybeClock, filters : MaybeFilters, key : Keys]

\* Where a tab may be going.
NextOK(x) == x # None => x \in TripsOf(setting)

TabOK(x) ==
    /\ DOMAIN x = {"shown", "at", "next", "slipped", "mode", "askedAt", "local"}
    /\ x.at \in {"none", "open", "parked"} /\ (x.at # "none" => x.shown \in Pages)
    /\ NextOK(x.next) /\ x.slipped \in BOOLEAN /\ x.askedAt \in Nat
    /\ x.mode \in {"none", "idle", "asking", "asked", "approved", "declined"}
    /\ x.local \in {"unread", "none", "approved", "declined"}

TabsIn(f) == DOMAIN f = Tab /\ \A t \in Tab : TabOK(f[t])

TabsOK == TabsIn(tab)

WorkerOK ==
    /\ DOMAIN worker = {"up", "born", "mode", "port", "snap", "anchor", "spent", "filters", "cache", "recheck",
                        "listed", "checked"}
    /\ worker.up \in BOOLEAN /\ worker.born \in Nat /\ worker.mode \in {"none", "backend", "native"}
    /\ worker.port \in BOOLEAN /\ worker.snap \in MaybeSnap /\ worker.anchor \in MaybeClock
    /\ worker.spent \subseteq GrantIds /\ worker.filters \in MaybeFilters /\ worker.recheck \in BOOLEAN
    /\ worker.cache # None => worker.cache.at \in {"read", "snap", "filters"}
    /\ worker.cache # None /\ worker.cache.at # "read" => worker.cache \in Cached
    /\ worker.listed # <<>> => TabsIn(worker.listed)
    /\ worker.mode # "native" => ~worker.port
    /\ worker.checked \in Int \cup {None}
    /\ worker.up \/ worker = Asleep

Fetched == [snap : Snap, at : Nat]

Renewal == [token : Link, due : BOOLEAN]
NewVersion == [version : Nat]
NewFilter == [filter : Nat]
NewLink == [device : Link, token : Link, due : BOOLEAN, version : Nat]

Saves(x) == x.at \in {"read", "write"}

\* What a function may be about to write, by where it goes on.
TaskOK(k, x) ==
    /\ DOMAIN x = {"at", "cfg", "body", "patch", "cur", "next"} /\ x.cfg \in Config /\ x.cur \in Config
    /\ k = "policy" =>
         /\ x.at \in {"idle", "renew", "read", "write", "reread", "poll", "verify", "apply"}
         /\ Saves(x) => \/ x.patch \in Renewal /\ x.next = "reread"
                        \/ x.patch \in NewVersion /\ x.next = "apply" /\ x.body \in Fetched
         /\ x.at \in {"verify", "apply"} => x.body \in Fetched
    /\ k = "filters" =>
         /\ x.at \in {"idle", "poll", "read", "write", "apply"}
         /\ Saves(x) => x.patch \in NewFilter /\ x.next = "apply" /\ x.body \in FilterSet
         /\ x.at = "apply" => x.body \in FilterSet
    /\ k = "options" =>
         /\ x.at \in {"idle", "read", "write", "pin", "word", "clear"}
         /\ Saves(x) => x.patch \in NewLink /\ x.next = "pin"
         /\ x.at = "pin" => x.patch \in NewLink

Jobs == {"policy", "filters", "options"}

TasksOK == /\ DOMAIN task = Jobs /\ \A k \in Jobs : TaskOK(k, task[k])
           /\ worker.mode # "backend" => Is("policy", "idle") /\ Is("filters", "idle")

ReportsOK == reports \subseteq [id : GrantIds, cfg : Config]

MessageOK(x) ==
    /\ DOMAIN x = {"at", "page", "cfg", "seen", "waits"}
    /\ x.at \in {"none", "sent", "posting", "filed", "failed", "ok", "recording"}
    /\ x.at # "none" => x.page \in Pages
    /\ x.cfg \in Config /\ x.waits \in BOOLEAN
    /\ x.at = "recording" => x.seen \in [Pages -> Nat]

AskingOK == DOMAIN asking = Tab /\ \A t \in Tab : MessageOK(asking[t])

OpenedOK == opened \in [OnceIds(setting) -> Nat]

CountsOK == left \in [Things -> Nat] /\ now \in Nat \ {0}

TypeInv == /\ SettingOK /\ CountsOK /\ ServerOK /\ StorageOK /\ WorkerOK /\ TasksOK /\ TabsOK /\ ReportsOK
           /\ AskingOK /\ OpenedOK

-----------------------------------------------------------------------------
(* Asks. *)

Filed(p) == p \in server.host \cup server.unsent \/ \E d \in Link : server.asks[d][p] # NoAsk

AsksInv ==
    /\ \A p \in Pages : storage.asks[p] > 0 => Filed(p)
    /\ \A t \in Tab : /\ asking[t].at \in {"filed", "ok", "recording"} => Filed(asking[t].page)
                      /\ asking[t].at = "recording" =>
                            \A p \in Pages : asking[t].seen[p] > 0 => Filed(p)

-----------------------------------------------------------------------------
(* Single-use grants, until the browser is linked a third time. *)

Grants(d, i) == setting.policies[d][i].temps

\* The policy that the loop has on its way.
Holding == \/ task["policy"].at \in {"verify", "apply"}
           \/ Saves(task["policy"]) /\ task["policy"].next = "apply"

Coming == task["policy"].body.snap

\* The links that the loop may yet ask for.
Polls == {d \in Link : \/ d = storage.config.device
                       \/ Saves(task["options"]) /\ d = task["options"].patch.device
                       \/ ~Is("policy", "idle") /\ d = task["policy"].cfg.device
                       \/ server.links < d /\ d <= 2}

\* The links follow each other.
LinksOK ==
    /\ storage.config.device \in Link => storage.config.device <= server.links
    /\ Saves(task["options"]) => task["options"].patch.device = server.links
    /\ ~Is("policy", "idle") /\ task["policy"].cfg.device \in Link =>
         /\ task["policy"].cfg.device <= server.links
         /\ storage.config.device \in Link => task["policy"].cfg.device <= storage.config.device

IdsOf(snap) == IF snap = None THEN {} ELSE Ids(snap.temps)

\* Every grant that the worker has, has had or may get back.
KnownIds == worker.spent \cup IdsOf(worker.snap) \cup IdsOf(storage.snap)
            \cup (IF worker.cache # None /\ worker.cache.at = "snap" THEN IdsOf(worker.cache.snap) ELSE {})
            \cup (IF Holding THEN Ids(Coming.temps) ELSE {})

\* It has been in the policy of the link, or of the one before.
Born(id) == \A d \in Polls : \E c \in Link : c <= d /\
                \E i \in DOMAIN setting.policies[c] : i <= server.edition[c] /\ id \in Ids(Grants(c, i))

\* No answer will have it again.
Dead(id) == \A d \in Polls : \A i \in DOMAIN setting.policies[d] : server.edition[d] <= i =>
                \A t \in Grants(d, i) : t.id = id => now >= t.until \/ id \in server.consumed

HistoryOK == /\ \A id \in KnownIds : Born(id)
             /\ Holding => \A id \in KnownIds \ Ids(Coming.temps) : Dead(id)

Gone(id) == /\ worker.mode = "backend" /\ Dead(id) /\ id \notin IdsOf(worker.snap)
            /\ Holding => id \notin Ids(Coming.temps)
            /\ worker.cache # None /\ worker.cache.at \in {"read", "snap"} => worker.snap # None

\* A grant that has opened a page in this life is noted, or will not be seen again.
CountOK == \A id \in DOMAIN opened :
              /\ opened[id] <= 1
              /\ opened[id] = 1 => id \in worker.spent \/ Gone(id)

OnceInv == excused \cap {"late", "mixed"} = {} /\ server.links <= 2 => LinksOK /\ HistoryOK /\ CountOK

-----------------------------------------------------------------------------
(* What a step leaves alone keeps its type. *)

LEMMA LinkFacts ==
    ASSUME SettingOK
    PROVE  /\ \A d \in Link : setting.policies[d] \in Seq(Contents(setting)) /\ setting.policies[d] # <<>>
           /\ \E n \in Nat : n > 0 /\ Link = 1 .. n
           /\ 1 \in Link /\ None \notin Link /\ Link \subseteq Nat \ {0}
           /\ None \notin Snap /\ Link \subseteq DOMAIN setting.servers
           /\ setting.dataset \in Nat /\ setting.linked \in BOOLEAN /\ setting.left \in [Things -> Nat]
  <1>1. PICK seqs : seqs = Seq(Contents(setting)) \ {<<>>}
    OBVIOUS
  <1>2. setting.policies \in Seq(seqs) /\ setting.policies # <<>>
    BY <1>1, WindowsAssumption DEF SettingOK
  <1>3. PICK n \in Nat : n = Len(setting.policies) /\ Link = 1 .. n
    BY <1>2 DEF Link
  <1>4. n > 0
    BY <1>2, <1>3, EmptySeq
  <1>5. ASSUME NEW d \in Link PROVE setting.policies[d] \in seqs
    BY <1>2, <1>3, <1>5
  <1>6. \A d \in Link : setting.policies[d] \in Seq(Contents(setting)) /\ setting.policies[d] # <<>>
    BY <1>1, <1>5
  <1>7. 1 \in Link /\ Link \subseteq Nat \ {0}
    BY <1>3, <1>4
  <1>8. /\ None \notin Int /\ None \notin Snap /\ Link \subseteq DOMAIN setting.servers
        /\ setting.dataset \in Nat /\ setting.linked \in BOOLEAN /\ setting.left \in [Things -> Nat]
    BY WindowsAssumption DEF SettingOK, Link, Snap
  <1>9. None \notin Link
    <2>1. \A d \in Link : d \in Int
      BY <1>7
    <2>2. QED
      BY <1>8, <2>1
  <1>10. QED
    BY <1>3, <1>4, <1>6, <1>7, <1>8, <1>9

LEMMA SameSetting ==
    ASSUME UNCHANGED setting
    PROVE  /\ Link' = Link /\ Pages' = Pages /\ GrantIds' = GrantIds /\ Snap' = Snap /\ Keys' = Keys
           /\ Config' = Config /\ FilterSet' = FilterSet /\ MaybeSnap' = MaybeSnap
           /\ MaybeFilters' = MaybeFilters /\ Cached' = Cached /\ Fetched' = Fetched
           /\ Renewal' = Renewal /\ NewLink' = NewLink
           /\ \A x : NextOK(x)' = NextOK(x)
           /\ \A x : TabOK(x)' = TabOK(x)
           /\ \A x : TabsIn(x)' = TabsIn(x)
           /\ \A x : MessageOK(x)' = MessageOK(x)
           /\ \A k, x : TaskOK(k, x)' = TaskOK(k, x)
  BY DEF Link, Pages, GrantIds, Snap, Keys, Config, MaybeLink, FilterSet, MaybeSnap, MaybeFilters, Cached, Fetched,
         Renewal, NewLink, NextOK, TabOK, TabsIn, MessageOK, TaskOK

LEMMA Kept ==
    ASSUME UNCHANGED setting
    PROVE  /\ SettingOK => SettingOK'
           /\ CountsOK /\ UNCHANGED <<left, now>> => CountsOK'
           /\ ServerOK /\ UNCHANGED server => ServerOK'
           /\ StorageOK /\ UNCHANGED storage => StorageOK'
           /\ WorkerOK /\ UNCHANGED worker => WorkerOK'
           /\ TasksOK /\ UNCHANGED <<task, worker>> => TasksOK'
           /\ TabsOK /\ UNCHANGED tab => TabsOK'
           /\ ReportsOK /\ UNCHANGED reports => ReportsOK'
           /\ AskingOK /\ UNCHANGED asking => AskingOK'
           /\ OpenedOK /\ UNCHANGED opened => OpenedOK'
  <1>1. SettingOK => SettingOK'
    BY DEF SettingOK
  <1>2. CountsOK /\ UNCHANGED <<left, now>> => CountsOK'
    BY DEF CountsOK
  <1>3. ServerOK /\ UNCHANGED server => ServerOK'
    BY SameSetting DEF ServerOK
  <1>4. StorageOK /\ UNCHANGED storage => StorageOK'
    BY SameSetting DEF StorageOK, MaybeClock
  <1>5. WorkerOK /\ UNCHANGED worker => WorkerOK'
    BY SameSetting DEF WorkerOK, MaybeClock
  <1>6. TasksOK /\ UNCHANGED <<task, worker>> => TasksOK'
    BY SameSetting DEF TasksOK, Is
  <1>7. TabsOK /\ UNCHANGED tab => TabsOK'
    BY SameSetting DEF TabsOK
  <1>8. ReportsOK /\ UNCHANGED reports => ReportsOK'
    BY SameSetting DEF ReportsOK
  <1>9. AskingOK /\ UNCHANGED asking => AskingOK'
    BY SameSetting DEF AskingOK
  <1>10. OpenedOK /\ UNCHANGED opened => OpenedOK'
    BY DEF OpenedOK, OnceIds
  <1>11. QED
    BY <1>1, <1>2, <1>3, <1>4, <1>5, <1>6, <1>7, <1>8, <1>9, <1>10

LEMMA UseKeeps ==
    ASSUME CountsOK, NEW thing, Use(thing)
    PROVE  left' \in [Things -> Nat]
  <1>1. left' = [left EXCEPT ![thing] = left[thing] - 1] /\ left[thing] > 0
    BY DEF Use
  <1>2. left \in [Things -> Nat]
    BY DEF CountsOK
  <1>3. left' = [x \in Things |-> IF x = thing THEN left[x] - 1 ELSE left[x]]
    BY <1>1, <1>2
  <1>4. ASSUME NEW x \in Things PROVE (IF x = thing THEN left[x] - 1 ELSE left[x]) \in Nat
    <2>1. left[x] \in Nat
      BY <1>2
    <2>2. QED
      BY <1>1, <2>1
  <1>5. QED
    BY <1>3, <1>4

-----------------------------------------------------------------------------
(* The types of what the backend has and says. *)

LEMMA EditionIn ==
    ASSUME SettingOK, ServerOK, NEW d \in Link
    PROVE  /\ server.edition[d] \in DOMAIN setting.policies[d]
           /\ DOMAIN setting.policies[d] = 1 .. Len(setting.policies[d]) /\ Len(setting.policies[d]) \in Nat
           /\ setting.policies[d][server.edition[d]] \in Contents(setting)
  <1>1. setting.policies[d] \in Seq(Contents(setting))
    BY LinkFacts
  <1>2. DOMAIN setting.policies[d] = 1 .. Len(setting.policies[d]) /\ Len(setting.policies[d]) \in Nat
    BY <1>1
  <1>3. server.edition[d] \in DOMAIN setting.policies[d]
    BY DEF ServerOK
  <1>4. QED
    BY <1>1, <1>2, <1>3

LEMMA SnapshotTyped ==
    ASSUME SettingOK, ServerOK, NEW d \in Link
    PROVE  Snapshot(d) \in Snap
  <1>1. PICK p : p = setting.policies[d][server.edition[d]]
    OBVIOUS
  <1>2. p \in Contents(setting)
    BY <1>1, EditionIn
  <1>3. PICK temps : temps = {t \in p.temps : now < t.until /\ t.id \notin server.consumed}
    OBVIOUS
  <1>4. temps \in UNION {SUBSET q.temps : q \in Contents(setting)}
    BY <1>2, <1>3
  <1>5. server.version[d] \in Nat
    BY DEF ServerOK
  <1>6. Snapshot(d) = [device |-> d, child |-> d, version |-> server.version[d], temps |-> temps,
                       rules |-> p.rules, webDefault |-> p.webDefault, youTubeDefault |-> p.youTubeDefault]
    BY <1>1, <1>3 DEF Snapshot
  <1>7. QED
    BY <1>2, <1>4, <1>5, <1>6 DEF Snap, SnapshotsOf, Link

LEMMA SnapIds ==
    ASSUME SettingOK, NEW x \in Snap
    PROVE  /\ Ids(x.temps) \subseteq GrantIds /\ x.device \in Link /\ x.version \in Nat
           /\ \E p \in Contents(setting) : x.temps \subseteq p.temps
  <1>1. PICK p \in Contents(setting) : x.temps \subseteq p.temps
    BY DEF Snap, SnapshotsOf
  <1>2. QED
    BY <1>1 DEF Snap, SnapshotsOf, GrantIds, Ids, Link

\* An answer that is kept is one of a parent.
LEMMA AnsweredTyped ==
    ASSUME SettingOK, NEW p \in Contents(setting),
           NEW asks \in [Pages -> [pending : BOOLEAN, answer : {"none", "opened", "closed"}]]
    PROVE  /\ Answered(asks, p.answers) \in [Pages -> [pending : BOOLEAN, answer : {"none", "opened", "closed"}]]
           /\ \A q \in Pages : asks[q] # NoAsk => Answered(asks, p.answers)[q] # NoAsk
  <1>1. ASSUME NEW q \in Pages, asks[q].pending, q \in DOMAIN p.answers
        PROVE  /\ [pending |-> FALSE, answer |-> p.answers[q]] \in [pending : BOOLEAN, answer : {"none", "opened", "closed"}]
               /\ [pending |-> FALSE, answer |-> p.answers[q]] # NoAsk
    <2>1. PICK a : a = p.answers[q]
      OBVIOUS
    <2>2. a \in {"opened", "closed"}
      BY <1>1, <2>1, WindowsAssumption DEF SettingOK
    <2>3. PICK r : r = [pending |-> FALSE, answer |-> a]
      OBVIOUS
    <2>4. r.answer # "none" /\ r \in [pending : BOOLEAN, answer : {"none", "opened", "closed"}]
      BY <2>2, <2>3
    <2>5. r # NoAsk
      BY <2>4 DEF NoAsk
    <2>6. QED
      BY <2>1, <2>3, <2>4, <2>5
  <1>2. PICK new : new = Answered(asks, p.answers)
    OBVIOUS
  <1>3. new = [q \in Pages |-> IF asks[q].pending /\ q \in DOMAIN p.answers
                               THEN [pending |-> FALSE, answer |-> p.answers[q]] ELSE asks[q]]
    BY <1>2 DEF Answered
  <1>4. ASSUME NEW q \in Pages
        PROVE  /\ new[q] \in [pending : BOOLEAN, answer : {"none", "opened", "closed"}]
               /\ asks[q] # NoAsk => new[q] # NoAsk
    <2>1. CASE asks[q].pending /\ q \in DOMAIN p.answers
      <3>1. new[q] = [pending |-> FALSE, answer |-> p.answers[q]]
        BY <1>3, <2>1
      <3>2. QED
        BY <1>1, <2>1, <3>1
    <2>2. CASE ~(asks[q].pending /\ q \in DOMAIN p.answers)
      <3>1. new[q] = asks[q]
        BY <1>3, <2>2
      <3>2. QED
        BY <3>1
    <2>3. QED
      BY <2>1, <2>2
  <1>5. new \in [Pages -> [pending : BOOLEAN, answer : {"none", "opened", "closed"}]]
    BY <1>3, <1>4
  <1>6. QED
    BY <1>2, <1>4, <1>5

\* What an ask has become stays with the backend.
AsksStay == /\ server.host \subseteq server'.host /\ server.unsent \subseteq server'.unsent
             /\ \A d \in Link, p \in Pages : server.asks[d][p] # NoAsk => server'.asks[d][p] # NoAsk

LEMMA EditTypes ==
    ASSUME TypeInv, NEW d \in Link, Edit(d)
    PROVE  TypeInv' /\ AsksStay
  <1>1. PICK e : e = server.edition[d]
    OBVIOUS
  <1>2. PICK p : p = setting.policies[d][e + 1]
    OBVIOUS
  <1>3. PICK asks : asks = Answered(server.asks[d], p.answers)
    OBVIOUS
  <1>4. SettingOK /\ ServerOK
    BY DEF TypeInv
  <1>5. /\ UNCHANGED <<setting, now, storage, worker, task, reports, tab, asking, opened, excused>>
        /\ Use("edit") /\ e < Len(setting.policies[d])
    BY <1>1 DEF Edit
  <1>6. e + 1 \in DOMAIN setting.policies[d] /\ p \in Contents(setting) /\ e \in Nat
    <2>1. /\ e \in DOMAIN setting.policies[d] /\ Len(setting.policies[d]) \in Nat
          /\ DOMAIN setting.policies[d] = 1 .. Len(setting.policies[d])
      BY <1>1, <1>4, EditionIn
    <2>2. e \in Nat /\ e + 1 \in DOMAIN setting.policies[d]
      BY <1>5, <2>1
    <2>3. setting.policies[d] \in Seq(Contents(setting))
      BY <1>4, LinkFacts
    <2>4. QED
      BY <1>2, <2>2, <2>3
  <1>7. server' = [server EXCEPT !.edition[d] = e + 1, !.version[d] = server.version[d] + 1, !.asks[d] = asks]
    BY <1>1, <1>2, <1>3 DEF Edit
  <1>8. /\ server.asks \in [Link -> [Pages -> [pending : BOOLEAN, answer : {"none", "opened", "closed"}]]]
        /\ server.edition \in [Link -> Nat] /\ server.version \in [Link -> Nat]
    BY <1>4 DEF ServerOK
  <1>9. /\ asks \in [Pages -> [pending : BOOLEAN, answer : {"none", "opened", "closed"}]]
        /\ \A q \in Pages : server.asks[d][q] # NoAsk => asks[q] # NoAsk
    BY <1>3, <1>4, <1>6, <1>8, AnsweredTyped
  <1>10. ServerOK'
    <2>1. /\ [server.edition EXCEPT ![d] = e + 1] \in [Link -> Nat]
          /\ [server.version EXCEPT ![d] = server.version[d] + 1] \in [Link -> Nat]
          /\ [server.asks EXCEPT ![d] = asks] \in [Link -> [Pages -> [pending : BOOLEAN, answer : {"none", "opened", "closed"}]]]
      BY <1>6, <1>8, <1>9
    <2>2. /\ server'.edition = [server.edition EXCEPT ![d] = e + 1]
          /\ server' \in [edition : [Link -> Nat], version : [Link -> Nat], sent : [Link -> Nat], links : Nat,
                   consumed : SUBSET GrantIds, removed : SUBSET Link, host : SUBSET Pages, unsent : SUBSET Pages,
                   asks : [Link -> [Pages -> [pending : BOOLEAN, answer : {"none", "opened", "closed"}]]]]
      BY <1>4, <1>7, <2>1 DEF ServerOK
    <2>3. \A c \in Link : server'.edition[c] \in DOMAIN setting.policies[c]
      BY <1>4, <1>6, <1>8, <2>2 DEF ServerOK
    <2>4. QED
      BY <1>5, <2>2, <2>3, SameSetting DEF ServerOK
  <1>11. AsksStay
    BY <1>4, <1>7, <1>8, <1>9 DEF AsksStay, ServerOK
  <1>12. CountsOK'
    BY <1>5, UseKeeps DEF TypeInv, CountsOK
  <1>13. QED
    BY <1>5, <1>10, <1>11, <1>12, Kept DEF TypeInv

LEMMA RemoveTypes ==
    ASSUME TypeInv, NEW d \in Link, Remove(d)
    PROVE  TypeInv' /\ AsksStay
  <1>1. /\ UNCHANGED <<setting, now, storage, worker, task, reports, tab, asking, opened, excused>>
        /\ Use("remove") /\ server' = [server EXCEPT !.removed = server.removed \cup {d}]
    BY DEF Remove
  <1>2. ServerOK
    BY DEF TypeInv
  <1>3. ServerOK' /\ AsksStay
    BY <1>1, <1>2, SameSetting DEF ServerOK, AsksStay
  <1>4. CountsOK'
    BY <1>1, UseKeeps DEF TypeInv, CountsOK
  <1>5. QED
    BY <1>1, <1>3, <1>4, Kept DEF TypeInv

LEMMA ConsumeTypes ==
    ASSUME TypeInv, NEW r \in reports, consumeGrant(r)
    PROVE  TypeInv' /\ AsksStay
  <1>1. PICK d : d = r.cfg.device
    OBVIOUS
  <1>2. /\ UNCHANGED <<setting, now, storage, worker, task, tab, asking, opened, excused>>
        /\ reports' = reports \ {r}
    BY DEF consumeGrant
  <1>3. ServerOK /\ ReportsOK /\ CountsOK
    BY DEF TypeInv
  <1>4. r.id \in GrantIds /\ r.cfg \in Config
    BY <1>3 DEF ReportsOK
  <1>5. ReportsOK'
    BY <1>2, <1>3, SameSetting DEF ReportsOK
  <1>6. CASE server' = server
    <2>1. CountsOK'
      BY <1>2, <1>3, <1>6, UseKeeps DEF consumeGrant, Mishap, CountsOK
    <2>2. AsksStay
      BY <1>6 DEF AsksStay
    <2>3. QED
      BY <1>2, <1>5, <1>6, <2>1, <2>2, Kept DEF TypeInv
  <1>7. CASE server' # server
    <2>1. /\ Authorized(r.cfg) /\ UNCHANGED left
          /\ server' = [server EXCEPT !.consumed = server.consumed \cup {r.id}, !.version[d] = server.version[d] + 1]
      BY <1>1, <1>7 DEF consumeGrant
    <2>2. d \in Link
      BY <1>1, <1>4, <2>1 DEF Authorized, Linked, Config, MaybeLink
    <2>3. /\ [server.version EXCEPT ![d] = server.version[d] + 1] \in [Link -> Nat]
          /\ server.consumed \cup {r.id} \in SUBSET GrantIds
      BY <1>3, <1>4, <2>2 DEF ServerOK
    <2>4. ServerOK' /\ AsksStay
      BY <1>2, <1>3, <2>1, <2>3, SameSetting DEF ServerOK, AsksStay
    <2>5. QED
      BY <1>2, <1>5, <2>1, <2>4, Kept DEF TypeInv
  <1>8. QED
    BY <1>6, <1>7

-----------------------------------------------------------------------------
(* The functions that change the config. *)

LEMMA IdleTyped ==
    ASSUME NEW k \in Jobs
    PROVE  /\ Unlinked \in Config /\ TaskOK(k, NoTask) /\ NoTask.at = "idle"
  <1>1. Unlinked \in Config
    BY DEF Unlinked, Config, MaybeLink
  <1>2. /\ NoTask.at = "idle" /\ NoTask.cfg = Unlinked /\ NoTask.cur = Unlinked
        /\ DOMAIN NoTask = {"at", "cfg", "body", "patch", "cur", "next"}
    BY DEF NoTask
  <1>3. QED
    BY <1>1, <1>2 DEF TaskOK, Saves, Jobs

\* One function takes a step.
LEMMA TaskMoves ==
    ASSUME TasksOK, NEW k \in Jobs, NEW x, TaskOK(k, x), task' = [task EXCEPT ![k] = x],
           UNCHANGED <<setting, worker>>, worker.mode = "backend" \/ k = "options" \/ x.at = "idle"
    PROVE  TasksOK'
  <1>1. DOMAIN task' = Jobs /\ task'[k] = x /\ \A j \in Jobs \ {k} : task'[j] = task[j]
    BY DEF TasksOK
  <1>2. \A j \in Jobs : TaskOK(j, task'[j])
    BY <1>1 DEF TasksOK
  <1>3. \A j \in Jobs : TaskOK(j, task[j])'
    BY <1>2, SameSetting
  <1>4. QED
    BY <1>1, <1>3 DEF TasksOK, Is, Jobs

\* A function that runs in the worker runs in one with a backend.
LEMMA RunsInBackend ==
    ASSUME TasksOK, NEW k \in Jobs, task[k].at # "idle"
    PROVE  k = "options" \/ worker.mode = "backend"
  BY DEF TasksOK, Is, Jobs

LEMMA PatchFields ==
    ASSUME NEW patch
    PROVE  /\ patch \in Renewal => DOMAIN patch = {"token", "due"} /\ patch.token \in Link /\ patch.due \in BOOLEAN
           /\ patch \in NewVersion => DOMAIN patch = {"version"} /\ patch.version \in Nat
           /\ patch \in NewFilter => DOMAIN patch = {"filter"} /\ patch.filter \in Nat
           /\ patch \in NewLink => /\ DOMAIN patch = {"device", "token", "due", "version"} /\ patch.device \in Link
                                  /\ patch.token \in Link /\ patch.due \in BOOLEAN /\ patch.version \in Nat
           /\ patch \in NewLink => patch \notin Renewal /\ patch \notin NewVersion /\ patch \notin NewFilter
  <1>1. patch \in Renewal => DOMAIN patch = {"token", "due"} /\ patch.token \in Link /\ patch.due \in BOOLEAN
    BY DEF Renewal
  <1>2. patch \in NewVersion => DOMAIN patch = {"version"} /\ patch.version \in Nat
    BY DEF NewVersion
  <1>3. patch \in NewFilter => DOMAIN patch = {"filter"} /\ patch.filter \in Nat
    BY DEF NewFilter
  <1>4. patch \in NewLink => /\ DOMAIN patch = {"device", "token", "due", "version"} /\ patch.device \in Link
                           /\ patch.token \in Link /\ patch.due \in BOOLEAN /\ patch.version \in Nat
    BY DEF NewLink
  <1>5. patch \in NewLink => "device" \in DOMAIN patch
    BY <1>4
  <1>6. patch \in Renewal \/ patch \in NewVersion \/ patch \in NewFilter => "device" \notin DOMAIN patch
    BY <1>1, <1>2, <1>3
  <1>7. QED
    BY <1>1, <1>2, <1>3, <1>4, <1>5, <1>6

LEMMA PatchedTyped ==
    ASSUME NEW cfg \in Config, NEW patch,
           patch \in Renewal \/ patch \in NewVersion \/ patch \in NewFilter \/ patch \in NewLink
    PROVE  /\ Patched(cfg, patch) \in Config
           /\ Patched(cfg, patch).device = IF patch \in NewLink THEN patch.device ELSE cfg.device
  <1> USE DEF Config, MaybeLink
  <1>1. DOMAIN cfg = {"device", "token", "due", "version", "filter"}
    OBVIOUS
  <1>2. PICK new : new = Patched(cfg, patch)
    OBVIOUS
  <1>3. new = [f \in {"device", "token", "due", "version", "filter"} |-> IF f \in DOMAIN patch THEN patch[f] ELSE cfg[f]]
    BY <1>1, <1>2 DEF Patched
  <1>4. new = [device |-> new.device, token |-> new.token, due |-> new.due, version |-> new.version, filter |-> new.filter]
    BY <1>3
  <1>5. \A f \in {"device", "token", "due", "version", "filter"} : new[f] = IF f \in DOMAIN patch THEN patch[f] ELSE cfg[f]
    BY <1>3
  <1>6. CASE patch \in Renewal
    <2>1. DOMAIN patch = {"token", "due"} /\ patch.token \in Link /\ patch.due \in BOOLEAN
      BY <1>6, PatchFields
    <2>2. patch \notin NewLink
      BY <1>6, PatchFields
    <2>3. new.device = cfg.device /\ new.token \in Link /\ new.due \in BOOLEAN /\ new.version = cfg.version /\ new.filter = cfg.filter
      BY <1>5, <2>1
    <2>4. QED
      BY <1>2, <1>4, <2>2, <2>3
  <1>7. CASE patch \in NewVersion
    <2>1. DOMAIN patch = {"version"} /\ patch.version \in Nat
      BY <1>7, PatchFields
    <2>2. patch \notin NewLink
      BY <1>7, PatchFields
    <2>3. new.device = cfg.device /\ new.token = cfg.token /\ new.due = cfg.due /\ new.version \in Nat /\ new.filter = cfg.filter
      BY <1>5, <2>1
    <2>4. QED
      BY <1>2, <1>4, <2>2, <2>3
  <1>8. CASE patch \in NewFilter
    <2>1. DOMAIN patch = {"filter"} /\ patch.filter \in Nat
      BY <1>8, PatchFields
    <2>2. patch \notin NewLink
      BY <1>8, PatchFields
    <2>3. new.device = cfg.device /\ new.token = cfg.token /\ new.due = cfg.due /\ new.version = cfg.version /\ new.filter \in Nat
      BY <1>5, <2>1
    <2>4. QED
      BY <1>2, <1>4, <2>2, <2>3
  <1>9. CASE patch \in NewLink
    <2>1. /\ DOMAIN patch = {"device", "token", "due", "version"} /\ patch.device \in Link /\ patch.token \in Link
          /\ patch.due \in BOOLEAN /\ patch.version \in Nat
      BY <1>9, PatchFields
    <2>2. new.device = patch.device /\ new.token \in Link /\ new.due \in BOOLEAN /\ new.version \in Nat /\ new.filter = cfg.filter
      BY <1>5, <2>1
    <2>3. QED
      BY <1>2, <1>4, <1>9, <2>1, <2>2
  <1>10. QED
    BY <1>6, <1>7, <1>8, <1>9

LEMMA SavingPatch ==
    ASSUME NEW k \in Jobs, NEW x, TaskOK(k, x), Saves(x)
    PROVE  /\ x.patch \in Renewal \/ x.patch \in NewVersion \/ x.patch \in NewFilter \/ x.patch \in NewLink
           /\ x.patch \in NewLink => k = "options"
           /\ x.cur \in Config /\ x.next # "idle"
  <1>1. CASE k = "policy"
    BY <1>1, PatchFields DEF TaskOK
  <1>2. CASE k = "filters"
    BY <1>2, PatchFields DEF TaskOK
  <1>3. CASE k = "options"
    BY <1>3 DEF TaskOK
  <1>4. QED
    BY <1>1, <1>2, <1>3 DEF Jobs

LEMMA ReadConfigTypes ==
    ASSUME TypeInv, NEW k \in Jobs, ReadConfig(k)
    PROVE  TypeInv'
  <1>1. PICK x : x = task[k]
    OBVIOUS
  <1>2. PICK new : new = [x EXCEPT !.at = "write", !.cur = storage.config]
    OBVIOUS
  <1>3. x.at = "read" /\ UNCHANGED <<setting, left, now, server, storage, worker, reports, tab, asking, opened, excused>>
    BY <1>1 DEF ReadConfig, Is
  <1>4. TasksOK /\ TaskOK(k, x) /\ storage.config \in Config
    BY <1>1 DEF TypeInv, TasksOK, StorageOK
  <1>5. task' = [task EXCEPT ![k] = new]
    BY <1>1, <1>2 DEF ReadConfig
  <1>6. /\ DOMAIN new = DOMAIN x /\ new.at = "write" /\ new.cur = storage.config
        /\ new.cfg = x.cfg /\ new.body = x.body /\ new.patch = x.patch /\ new.next = x.next
    BY <1>2, <1>4 DEF TaskOK
  <1>7. TaskOK(k, new)
    BY <1>3, <1>4, <1>6 DEF TaskOK, Saves, Jobs
  <1>8. worker.mode = "backend" \/ k = "options"
    BY <1>1, <1>3, <1>4, RunsInBackend
  <1>9. TasksOK'
    BY <1>3, <1>4, <1>5, <1>7, <1>8, TaskMoves
  <1>10. QED
    BY <1>3, <1>9, Kept DEF TypeInv

LEMMA WriteConfigTypes ==
    ASSUME TypeInv, NEW k \in Jobs, WriteConfig(k)
    PROVE  TypeInv'
  <1>1. PICK x : x = task[k]
    OBVIOUS
  <1>2. PICK new : new = [x EXCEPT !.at = x.next]
    OBVIOUS
  <1>3. x.at = "write" /\ UNCHANGED <<setting, left, now, server, worker, reports, tab, asking, opened>>
    BY <1>1 DEF WriteConfig, Is
  <1>4. TasksOK /\ TaskOK(k, x) /\ StorageOK
    BY <1>1 DEF TypeInv, TasksOK
  <1>5. task' = [task EXCEPT ![k] = new]
    BY <1>1, <1>2 DEF WriteConfig, At
  <1>6. /\ DOMAIN new = DOMAIN x /\ new.at = x.next /\ new.cur = x.cur
        /\ new.cfg = x.cfg /\ new.body = x.body /\ new.patch = x.patch /\ new.next = x.next
    BY <1>2, <1>4 DEF TaskOK
  <1>7. TaskOK(k, new)
    BY <1>3, <1>4, <1>6 DEF TaskOK, Saves, Jobs
  <1>8. worker.mode = "backend" \/ k = "options"
    BY <1>1, <1>3, <1>4, RunsInBackend
  <1>9. TasksOK'
    BY <1>3, <1>4, <1>5, <1>7, <1>8, TaskMoves
  <1>10. PICK cfg : cfg = Patched(x.cur, x.patch)
    OBVIOUS
  <1>11. cfg \in Config
    BY <1>3, <1>4, <1>10, SavingPatch, PatchedTyped DEF Saves
  <1>12. storage' = [storage EXCEPT !.config = cfg]
    BY <1>1, <1>10 DEF WriteConfig
  <1>13. StorageOK'
    BY <1>3, <1>4, <1>11, <1>12, SameSetting DEF StorageOK, MaybeClock
  <1>14. QED
    BY <1>3, <1>9, <1>13, Kept DEF TypeInv

LEMMA EndedTypes ==
    ASSUME TasksOK, NEW k \in Jobs, Ended(k), UNCHANGED <<setting, worker>>
    PROVE  TasksOK'
  BY IdleTyped, TaskMoves DEF Ended

LEMMA StartPollTypes ==
    ASSUME TypeInv, StartPoll
    PROVE  TypeInv'
  <1>1. PICK x : x = task["policy"]
    OBVIOUS
  <1>2. PICK at : at = IF storage.config.due THEN "renew" ELSE "poll"
    OBVIOUS
  <1>3. PICK new : new = [x EXCEPT !.cfg = storage.config, !.at = at]
    OBVIOUS
  <1>4. UNCHANGED <<setting, left, now, server, storage, worker, reports, tab, asking, opened, excused>>
    BY DEF StartPoll
  <1>5. TasksOK /\ TaskOK("policy", x) /\ storage.config \in Config /\ "policy" \in Jobs
    BY <1>1 DEF TypeInv, TasksOK, StorageOK, Jobs
  <1>6. task' = [task EXCEPT !["policy"] = new]
    BY <1>1, <1>2, <1>3 DEF StartPoll
  <1>7. /\ DOMAIN new = DOMAIN x /\ new.at = at /\ new.cur = x.cur
        /\ new.cfg = storage.config /\ new.body = x.body /\ new.patch = x.patch /\ new.next = x.next
    BY <1>3, <1>5 DEF TaskOK
  <1>8. at \in {"renew", "poll"}
    BY <1>2
  <1>9. TaskOK("policy", new)
    BY <1>5, <1>7, <1>8 DEF TaskOK, Saves
  <1>10. worker.mode = "backend"
    BY DEF StartPoll, Loops
  <1>11. TasksOK'
    BY <1>4, <1>5, <1>6, <1>9, <1>10, TaskMoves
  <1>12. QED
    BY <1>4, <1>11, Kept DEF TypeInv

\* A function that runs in the worker goes on to where it reads nothing back.
LEMMA AtTyped ==
    ASSUME TasksOK, NEW k \in Jobs, NEW at, At(k, at), UNCHANGED <<setting, worker>>, task[k].at # "idle",
           \/ k = "policy" /\ (at \in {"renew", "reread", "poll"} \/ (at \in {"verify", "apply"} /\ task[k].body \in Fetched))
           \/ k = "options" /\ at \in {"word", "clear"}
    PROVE  TasksOK'
  <1>1. PICK x : x = task[k]
    OBVIOUS
  <1>2. PICK new : new = [x EXCEPT !.at = at]
    OBVIOUS
  <1>3. task' = [task EXCEPT ![k] = new]
    BY <1>1, <1>2 DEF At
  <1>4. TaskOK(k, x)
    BY <1>1 DEF TasksOK
  <1>5. /\ DOMAIN new = DOMAIN x /\ new.at = at /\ new.cur = x.cur
        /\ new.cfg = x.cfg /\ new.body = x.body /\ new.patch = x.patch /\ new.next = x.next
    BY <1>2, <1>4 DEF TaskOK
  <1>6. TaskOK(k, new)
    BY <1>1, <1>4, <1>5 DEF TaskOK, Saves
  <1>7. worker.mode = "backend" \/ k = "options"
    BY RunsInBackend
  <1>8. QED
    BY <1>3, <1>6, <1>7, TaskMoves

LEMMA SavingTyped ==
    ASSUME TasksOK, NEW k \in Jobs, NEW patch, NEW next, Saving(k, patch, next), UNCHANGED <<setting, worker>>,
           worker.mode = "backend" \/ k = "options",
           \/ k = "policy" /\ \/ patch \in Renewal /\ next = "reread"
                              \/ patch \in NewVersion /\ next = "apply" /\ task[k].body \in Fetched
           \/ k = "options" /\ patch \in NewLink /\ next = "pin"
    PROVE  TasksOK'
  <1>1. PICK x : x = task[k]
    OBVIOUS
  <1>2. PICK new : new = [x EXCEPT !.at = "read", !.patch = patch, !.next = next]
    OBVIOUS
  <1>3. task' = [task EXCEPT ![k] = new]
    BY <1>1, <1>2 DEF Saving
  <1>4. TaskOK(k, x)
    BY <1>1 DEF TasksOK
  <1>5. /\ DOMAIN new = DOMAIN x /\ new.at = "read" /\ new.cur = x.cur
        /\ new.cfg = x.cfg /\ new.body = x.body /\ new.patch = patch /\ new.next = next
    BY <1>2, <1>4 DEF TaskOK
  <1>6. TaskOK(k, new)
    BY <1>1, <1>4, <1>5 DEF TaskOK, Saves
  <1>7. QED
    BY <1>3, <1>6, TaskMoves

LEMMA AuthorizedLink ==
    ASSUME NEW cfg \in Config, Authorized(cfg)
    PROVE  cfg.device \in Link
  BY DEF Authorized, Linked, Config, MaybeLink

LEMMA RenewTypes ==
    ASSUME TypeInv, refreshDeviceTokenIfDue
    PROVE  TypeInv'
  <1>1. PICK cfg : cfg = task["policy"].cfg
    OBVIOUS
  <1>2. UNCHANGED <<setting, now, server, storage, worker, reports, tab, asking, opened, excused>>
    BY DEF refreshDeviceTokenIfDue
  <1>3. TasksOK /\ cfg \in Config /\ "policy" \in Jobs /\ CountsOK
    BY <1>1 DEF TypeInv, TasksOK, Jobs, TaskOK
  <1>4. task["policy"].at = "renew" /\ worker.mode = "backend"
    BY <1>3, RunsInBackend DEF refreshDeviceTokenIfDue, Is
  <1>5. CountsOK'
    BY <1>2, <1>3, UseKeeps DEF refreshDeviceTokenIfDue, Mishap, CountsOK
  <1>6. TasksOK'
    <2>1. CASE At("policy", "poll")
      BY <1>2, <1>3, <1>4, <2>1, AtTyped
    <2>2. CASE Authorized(cfg) /\ Saving("policy", [token |-> cfg.device, due |-> FALSE], "reread")
      <3>1. [token |-> cfg.device, due |-> FALSE] \in Renewal
        BY <1>3, <2>2, AuthorizedLink DEF Renewal
      <3>2. QED
        BY <1>2, <1>3, <1>4, <2>2, <3>1, SavingTyped
    <2>3. QED
      BY <1>1, <2>1, <2>2 DEF refreshDeviceTokenIfDue
  <1>7. QED
    BY <1>2, <1>5, <1>6, Kept DEF TypeInv

LEMMA RereadTypes ==
    ASSUME TypeInv, Reread
    PROVE  TypeInv'
  <1>1. PICK x : x = task["policy"]
    OBVIOUS
  <1>2. PICK new : new = [x EXCEPT !.cfg = storage.config, !.at = "poll"]
    OBVIOUS
  <1>3. UNCHANGED <<setting, left, now, server, storage, worker, reports, tab, asking, opened, excused>>
    BY DEF Reread
  <1>4. TasksOK /\ TaskOK("policy", x) /\ storage.config \in Config /\ "policy" \in Jobs
    BY <1>1 DEF TypeInv, TasksOK, StorageOK, Jobs
  <1>5. task' = [task EXCEPT !["policy"] = new]
    BY <1>1, <1>2 DEF Reread
  <1>6. /\ DOMAIN new = DOMAIN x /\ new.at = "poll" /\ new.cur = x.cur
        /\ new.cfg = storage.config /\ new.body = x.body /\ new.patch = x.patch /\ new.next = x.next
    BY <1>2, <1>4 DEF TaskOK
  <1>7. TaskOK("policy", new)
    BY <1>4, <1>6 DEF TaskOK, Saves
  <1>8. worker.mode = "backend"
    BY <1>4, RunsInBackend DEF Reread, Is
  <1>9. TasksOK'
    BY <1>3, <1>4, <1>5, <1>7, <1>8, TaskMoves
  <1>10. QED
    BY <1>3, <1>9, Kept DEF TypeInv

LEMMA SentTypes ==
    ASSUME ServerOK, SettingOK, UNCHANGED setting, NEW d \in Link, server' = [server EXCEPT !.sent[d] = server.version[d]]
    PROVE  ServerOK' /\ AsksStay
  <1>1. [server.sent EXCEPT ![d] = server.version[d]] \in [Link -> Nat]
    BY DEF ServerOK
  <1>2. QED
    BY <1>1, SameSetting DEF ServerOK, AsksStay

LEMMA PolledTypes ==
    ASSUME TypeInv, Polled
    PROVE  TypeInv' /\ AsksStay
  <1>1. PICK cfg, d : cfg = task["policy"].cfg /\ d = cfg.device
    OBVIOUS
  <1>2. UNCHANGED <<setting, now, storage, worker, reports, tab, asking, opened, excused>>
    BY DEF Polled
  <1>3. TasksOK /\ cfg \in Config /\ "policy" \in Jobs /\ CountsOK /\ ServerOK /\ SettingOK
    BY <1>1 DEF TypeInv, TasksOK, Jobs, TaskOK
  <1>4. worker.mode = "backend"
    BY <1>3, RunsInBackend DEF Polled, Is
  <1>5. CASE Ended("policy") /\ server' = server
    <2>1. CountsOK'
      BY <1>2, <1>3, <1>5, UseKeeps DEF Polled, Mishap, CountsOK
    <2>2. TasksOK'
      BY <1>2, <1>3, <1>5, EndedTypes
    <2>3. AsksStay
      BY <1>5 DEF AsksStay
    <2>4. QED
      BY <1>2, <1>5, <2>1, <2>2, <2>3, Kept DEF TypeInv
  <1>6. CASE Ended("policy") /\ server' # server
    <2>1. Authorized(cfg) /\ (Mishap \/ UNCHANGED left) /\ server' = [server EXCEPT !.sent[d] = server.version[d]]
      BY <1>1, <1>6 DEF Polled
    <2>2. CountsOK'
      BY <1>2, <1>3, <2>1, UseKeeps DEF Mishap, CountsOK
    <2>3. TasksOK'
      BY <1>2, <1>3, <1>6, EndedTypes
    <2>4. d \in Link
      BY <1>1, <1>3, <2>1, AuthorizedLink
    <2>5. ServerOK' /\ AsksStay
      BY <1>2, <1>3, <2>1, <2>4, SentTypes
    <2>6. QED
      BY <1>2, <2>2, <2>3, <2>5, Kept DEF TypeInv
  <1>7. CASE ~Ended("policy")
    <2>1. PICK x, body : x = task["policy"] /\ body = [snap |-> Snapshot(d), at |-> now]
      OBVIOUS
    <2>2. PICK new : new = [x EXCEPT !.at = "verify", !.body = body]
      OBVIOUS
    <2>3. /\ Authorized(cfg) /\ UNCHANGED left
          /\ server' = [server EXCEPT !.sent[d] = server.version[d]]
          /\ task' = [task EXCEPT !["policy"] = new]
      BY <1>1, <1>7, <2>1, <2>2 DEF Polled, Retries
    <2>4. d \in Link
      BY <1>1, <1>3, <2>3, AuthorizedLink
    <2>5. body \in Fetched
      BY <1>3, <2>1, <2>4, SnapshotTyped DEF Fetched, CountsOK
    <2>6. TaskOK("policy", x)
      BY <1>3, <2>1 DEF TasksOK
    <2>7. /\ DOMAIN new = DOMAIN x /\ new.at = "verify" /\ new.cur = x.cur
          /\ new.cfg = x.cfg /\ new.body = body /\ new.patch = x.patch /\ new.next = x.next
      BY <2>2, <2>6 DEF TaskOK
    <2>8. TaskOK("policy", new)
      BY <2>5, <2>6, <2>7 DEF TaskOK, Saves
    <2>9. TasksOK'
      BY <1>2, <1>3, <1>4, <2>3, <2>8, TaskMoves
    <2>10. ServerOK' /\ AsksStay
      BY <1>2, <1>3, <2>3, <2>4, SentTypes
    <2>11. QED
      BY <1>2, <2>3, <2>9, <2>10, Kept DEF TypeInv
  <1>8. QED
    BY <1>5, <1>6, <1>7

LEMMA VerifyTypes ==
    ASSUME TypeInv, Verify
    PROVE  TypeInv'
  <1>1. PICK body : body = task["policy"].body
    OBVIOUS
  <1>2. UNCHANGED <<setting, left, now, server, storage, worker, reports, tab, asking, opened, excused>>
    BY DEF Verify
  <1>3. TasksOK /\ "policy" \in Jobs /\ SettingOK
    BY <1>1 DEF TypeInv, Jobs
  <1>4. task["policy"].at = "verify" /\ worker.mode = "backend" /\ body \in Fetched
    BY <1>1, <1>3, RunsInBackend DEF Verify, Is, TasksOK, TaskOK
  <1>5. body.snap.version \in Nat
    BY <1>3, <1>4, SnapIds DEF Fetched
  <1>6. CASE Saving("policy", [version |-> body.snap.version], "apply")
    <2>1. [version |-> body.snap.version] \in NewVersion
      BY <1>5 DEF NewVersion
    <2>2. TasksOK'
      BY <1>1, <1>2, <1>3, <1>4, <1>6, <2>1, SavingTyped
    <2>3. QED
      BY <1>2, <2>2, Kept DEF TypeInv
  <1>7. CASE Ended("policy")
    <2>1. TasksOK'
      BY <1>2, <1>3, <1>7, EndedTypes
    <2>2. QED
      BY <1>2, <2>1, Kept DEF TypeInv
  <1>8. QED
    BY <1>1, <1>6, <1>7 DEF Verify, Retries

-----------------------------------------------------------------------------
(* The worker. *)

LEMMA ClockTyped ==
    ASSUME CountsOK, WorkerOK, NEW at \in Nat
    PROVE  Anchor(at) \in Clock
  <1>1. now - worker.born \in Int
    BY DEF CountsOK, WorkerOK
  <1>2. QED
    BY <1>1 DEF Anchor, Clock

LEMMA TimeTyped ==
    ASSUME CountsOK, WorkerOK
    PROVE  nowMs \in Int
  <1>1. now \in Int /\ worker.born \in Int
    BY DEF CountsOK, WorkerOK
  <1>2. worker.anchor = None \/ (worker.anchor.server \in Int /\ worker.anchor.perf \in Int)
    BY DEF WorkerOK, MaybeClock, Clock
  <1>3. QED
    BY <1>1, <1>2 DEF nowMs

\* A load whose decision no longer stands is where it was.
LEMMA DoubtedTab ==
    ASSUME SettingOK, NEW x, TabOK(x), NEW y, y = Doubted(x)
    PROVE  /\ DOMAIN y = DOMAIN x /\ y.shown = x.shown /\ y.at = x.at /\ y.slipped = x.slipped
           /\ y.mode = x.mode /\ y.askedAt = x.askedAt /\ y.local = x.local
           /\ y.next = None <=> x.next = None
           /\ NextOK(y.next)
           /\ y.next # None => y.next.at = "sent" \/ ~y.next.stands
  <1>1. CASE x.next # None /\ x.next.at # "sent"
    <2>1. PICK next : next = [x.next EXCEPT !.stands = FALSE]
      OBVIOUS
    <2>2. y = [x EXCEPT !.next = next]
      BY <1>1, <2>1 DEF Doubted
    <2>3. next \in TripsOf(setting) /\ ~next.stands
      BY <1>1, <2>1 DEF TabOK, NextOK, TripsOf
    <2>4. /\ DOMAIN y = DOMAIN x /\ y.next = next /\ y.shown = x.shown /\ y.at = x.at /\ y.slipped = x.slipped
          /\ y.mode = x.mode /\ y.askedAt = x.askedAt /\ y.local = x.local
      BY <2>2 DEF TabOK
    <2>5. next # None
      BY <2>3, WindowsAssumption DEF SettingOK
    <2>6. QED
      BY <1>1, <2>3, <2>4, <2>5 DEF TabOK, NextOK
  <1>2. CASE ~(x.next # None /\ x.next.at # "sent")
    BY <1>2 DEF Doubted, TabOK
  <1>3. QED
    BY <1>1, <1>2

LEMMA DoubtedTypes ==
    ASSUME SettingOK, TabsOK, Unsettled, UNCHANGED setting
    PROVE  TabsOK'
  <1>1. ASSUME NEW t \in Tab PROVE TabOK(tab'[t])
    <2>1. PICK x, y : x = tab[t] /\ y = tab'[t]
      OBVIOUS
    <2>2. TabOK(x) /\ y = Doubted(x)
      BY <2>1 DEF TabsOK, TabsIn, Unsettled
    <2>3. TabOK(y)
      BY <2>2, DoubtedTab DEF TabOK
    <2>4. QED
      BY <2>1, <2>3
  <1>2. DOMAIN tab' = Tab
    BY DEF Unsettled
  <1>3. QED
    BY <1>1, <1>2, SameSetting DEF TabsOK, TabsIn

\* What of the tasks depends on the worker.
LEMMA TasksOfWorker ==
    ASSUME TasksOK, UNCHANGED <<setting, task>>, worker'.mode = worker.mode \/ worker.mode = "none"
    PROVE  TasksOK'
  BY SameSetting DEF TasksOK, Is

LEMMA ApplyTypes ==
    ASSUME TypeInv, applySnapshot
    PROVE  TypeInv'
  <1>1. PICK body : body = task["policy"].body
    OBVIOUS
  <1>2. PICK spent, anchor : spent = Remembered(body.snap) /\ anchor = Anchor(body.at)
    OBVIOUS
  <1>3. /\ UNCHANGED <<setting, left, now, server, reports, asking, opened, excused>> /\ Unsettled
        /\ worker' = [worker EXCEPT !.snap = body.snap, !.spent = spent, !.anchor = anchor, !.recheck = TRUE]
        /\ storage' = [storage EXCEPT !.snap = body.snap, !.anchor = anchor]
        /\ Ended("policy") /\ Is("policy", "apply")
    BY <1>1, <1>2 DEF applySnapshot
  <1>4. TasksOK /\ "policy" \in Jobs /\ WorkerOK /\ StorageOK /\ CountsOK
    BY DEF TypeInv, Jobs
  <1>5. body \in Fetched /\ worker.mode = "backend"
    BY <1>1, <1>3, <1>4, RunsInBackend DEF TasksOK, TaskOK, Is
  <1>6. body.snap \in Snap /\ anchor \in Clock
    BY <1>2, <1>4, <1>5, ClockTyped DEF Fetched
  <1>7. spent \subseteq worker.spent
    BY <1>2 DEF Remembered
  <1>8. worker.up
    BY <1>4, <1>5 DEF WorkerOK, Asleep
  <1>9. WorkerOK'
    BY <1>3, <1>4, <1>6, <1>7, <1>8, SameSetting DEF WorkerOK, MaybeSnap, MaybeClock
  <1>10. StorageOK'
    BY <1>3, <1>4, <1>6, SameSetting DEF StorageOK, MaybeSnap, MaybeClock
  <1>11. TasksOK'
    <2>1. worker'.mode = "backend"
      BY <1>3, <1>4, <1>5 DEF WorkerOK, TasksOK
    <2>2. DOMAIN task' = Jobs /\ \A k \in Jobs : TaskOK(k, task'[k])
      BY <1>3, <1>4, IdleTyped DEF TasksOK, Ended
    <2>3. QED
      BY <1>3, <2>1, <2>2, SameSetting DEF TasksOK
  <1>12. TabsOK'
    BY <1>3, DoubtedTypes DEF TypeInv
  <1>13. QED
    BY <1>3, <1>9, <1>10, <1>11, <1>12, Kept DEF TypeInv

LEMMA StartTypes ==
    ASSUME TypeInv, Start
    PROVE  TypeInv'
  <1>1. PICK cache : cache = [at |-> "read"]
    OBVIOUS
  <1>2. /\ UNCHANGED <<setting, left, now, server, storage, task, reports, tab, asking, opened, excused>>
        /\ worker' = [Asleep EXCEPT !.up = TRUE, !.born = now, !.cache = cache] /\ ~worker.up
    BY <1>1 DEF Start
  <1>3. WorkerOK /\ now \in Nat /\ TasksOK
    BY DEF TypeInv, CountsOK
  <1>4. worker = Asleep
    BY <1>2, <1>3 DEF WorkerOK
  <1>5. WorkerOK'
    BY <1>1, <1>2, <1>3, <1>4, SameSetting DEF WorkerOK, Asleep, MaybeSnap, MaybeClock, MaybeFilters
  <1>6. TasksOK'
    BY <1>2, <1>3, <1>4, TasksOfWorker DEF Asleep
  <1>7. QED
    BY <1>2, <1>5, <1>6, Kept DEF TypeInv

LEMMA KillTypes ==
    ASSUME TypeInv, Kill
    PROVE  TypeInv'
  <1>1. /\ UNCHANGED <<setting, now, server, storage>> /\ Unsettled
        /\ worker' = Asleep /\ Use("kill") /\ reports' \in SUBSET reports
    BY DEF Kill
  <1>2. task' = [task EXCEPT !["policy"] = NoTask, !["filters"] = NoTask]
    BY DEF Kill
  <1>3. asking' = [t \in Tab |-> IF asking[t].at \in {"posting", "filed"} THEN [asking[t] EXCEPT !.at = "failed"]
                                ELSE asking[t]]
    BY DEF Kill
  <1>4. WorkerOK /\ TasksOK /\ AskingOK /\ ReportsOK /\ CountsOK
    BY DEF TypeInv
  <1>5. WorkerOK'
    BY <1>1, SameSetting DEF WorkerOK, Asleep, MaybeSnap, MaybeClock, MaybeFilters
  <1>6. TasksOK'
    <2>1. DOMAIN task' = Jobs /\ task'["policy"] = NoTask /\ task'["filters"] = NoTask /\ task'["options"] = task["options"]
      BY <1>2, <1>4 DEF TasksOK, Jobs
    <2>2. \A k \in Jobs : TaskOK(k, task'[k])
      BY <1>4, <2>1, IdleTyped DEF TasksOK, Jobs
    <2>3. worker'.mode = "none"
      BY <1>1 DEF Asleep
    <2>4. NoTask.at = "idle"
      BY DEF NoTask
    <2>5. QED
      BY <1>1, <2>1, <2>2, <2>3, <2>4, SameSetting DEF TasksOK, Is
  <1>7. AskingOK'
    <2>1. ASSUME NEW t \in Tab PROVE MessageOK(asking'[t])
      <3>1. CASE asking[t].at \in {"posting", "filed"}
        <4>1. PICK new : new = [asking[t] EXCEPT !.at = "failed"]
          OBVIOUS
        <4>2. asking'[t] = new /\ MessageOK(asking[t])
          BY <1>3, <1>4, <3>1, <4>1 DEF AskingOK
        <4>3. MessageOK(new)
          BY <3>1, <4>1, <4>2 DEF MessageOK
        <4>4. QED
          BY <4>2, <4>3
      <3>2. CASE asking[t].at \notin {"posting", "filed"}
        BY <1>3, <1>4, <3>2 DEF AskingOK
      <3>3. QED
        BY <3>1, <3>2
    <2>2. DOMAIN asking' = Tab
      BY <1>3
    <2>3. QED
      BY <1>1, <2>1, <2>2, SameSetting DEF AskingOK
  <1>8. ReportsOK'
    BY <1>1, <1>4, SameSetting DEF ReportsOK
  <1>9. CountsOK'
    BY <1>1, <1>4, UseKeeps DEF CountsOK
  <1>10. TabsOK'
    BY <1>1, DoubtedTypes DEF TypeInv
  <1>11. OpenedOK'
    <2>1. OpenedOK /\ opened' = [id \in DOMAIN opened |-> 0]
      BY DEF Kill, TypeInv
    <2>2. opened' \in [OnceIds(setting) -> Nat]
      BY <2>1 DEF OpenedOK
    <2>3. QED
      BY <1>1, <2>2, SameSetting DEF OpenedOK
  <1>12. QED
    BY <1>1, <1>5, <1>6, <1>7, <1>8, <1>9, <1>10, <1>11, Kept DEF TypeInv

LEMMA SourceTypes ==
    ASSUME TypeInv, ChooseSource
    PROVE  TypeInv'
  <1>1. PICK mode : mode = IF Linked(storage.config) THEN "backend" ELSE "native"
    OBVIOUS
  <1>2. /\ UNCHANGED <<setting, left, now, server, storage, task, reports, tab, asking, opened, excused>>
        /\ worker' = [worker EXCEPT !.mode = mode] /\ worker.up /\ worker.mode = "none"
    BY <1>1 DEF ChooseSource
  <1>3. mode \in {"backend", "native"}
    BY <1>1
  <1>4. WorkerOK /\ TasksOK
    BY DEF TypeInv
  <1>5. WorkerOK'
    BY <1>2, <1>3, <1>4, SameSetting DEF WorkerOK, MaybeClock
  <1>6. TasksOK'
    BY <1>2, <1>4, TasksOfWorker
  <1>7. QED
    BY <1>2, <1>5, <1>6, Kept DEF TypeInv

\* The worker changes but for its mode, and so may what is stored.
LEMMA WorkerMoves ==
    ASSUME TypeInv, worker'.mode = worker.mode, WorkerOK', StorageOK', Unsettled \/ UNCHANGED tab,
           UNCHANGED <<setting, left, now, server, task, reports, asking, opened>>
    PROVE  TypeInv'
  <1>1. TasksOK'
    BY TasksOfWorker DEF TypeInv
  <1>2. TabsOK'
    BY DoubtedTypes, Kept DEF TypeInv
  <1>3. QED
    BY <1>1, <1>2, Kept DEF TypeInv

LEMMA ReadCacheTypes ==
    ASSUME TypeInv, ReadCache
    PROVE  TypeInv'
  <1>1. PICK cache : cache = [at |-> "snap", snap |-> storage.snap, anchor |-> storage.anchor,
                              filters |-> storage.filters, key |-> Key]
    OBVIOUS
  <1>2. /\ UNCHANGED <<setting, left, now, server, storage, task, reports, tab, asking, opened, excused>>
        /\ worker' = [worker EXCEPT !.cache = cache] /\ worker.cache # None
    BY <1>1 DEF ReadCache, Restoring
  <1>3. WorkerOK /\ StorageOK /\ SettingOK
    BY DEF TypeInv
  <1>4. Key \in Keys
    <2>1. storage.pin \in Keys /\ None \in Keys
      BY <1>3 DEF StorageOK, Keys
    <2>2. CASE storage.pin = None /\ Linked(storage.config)
      <3>1. storage.config.device \in Link
        BY <1>3, <2>2 DEF Linked, StorageOK, Config, MaybeLink
      <3>2. setting.servers[storage.config.device] \in Keys
        BY <1>3, <3>1, LinkFacts DEF Keys
      <3>3. QED
        BY <2>2, <3>2 DEF Key
    <2>3. CASE storage.pin # None
      BY <2>1, <2>3 DEF Key
    <2>4. CASE storage.pin = None /\ ~Linked(storage.config)
      BY <2>1, <2>4 DEF Key
    <2>5. QED
      BY <2>2, <2>3, <2>4
  <1>5. cache \in Cached
    BY <1>1, <1>3, <1>4 DEF Cached, StorageOK
  <1>6. worker.up
    BY <1>2, <1>3 DEF WorkerOK, Asleep
  <1>7. WorkerOK'
    BY <1>1, <1>2, <1>3, <1>5, <1>6, SameSetting DEF WorkerOK, MaybeClock
  <1>8. worker'.mode = worker.mode
    BY <1>2, <1>3 DEF WorkerOK
  <1>9. QED
    BY <1>2, <1>3, <1>7, <1>8, Kept, WorkerMoves

LEMMA RestoreTypes ==
    ASSUME TypeInv, RestoreSnapshot
    PROVE  TypeInv'
  <1>1. PICK old : old = worker.cache
    OBVIOUS
  <1>2. PICK cache : cache = [old EXCEPT !.at = "filters"]
    OBVIOUS
  <1>3. /\ UNCHANGED <<setting, left, now, server, task, reports, asking, opened>> /\ Unsettled
        /\ old # None /\ old.at = "snap"
    BY <1>1 DEF RestoreSnapshot, Restoring
  <1>4. WorkerOK /\ StorageOK
    BY DEF TypeInv
  <1>5. old \in Cached
    BY <1>1, <1>3, <1>4 DEF WorkerOK
  <1>6. cache \in Cached /\ cache.at = "filters"
    BY <1>2, <1>5 DEF Cached
  <1>7. PICK snap : snap = worker'.snap
    OBVIOUS
  <1>8. /\ \/ worker' = [worker EXCEPT !.cache = cache, !.checked = None]
           \/ worker' = [worker EXCEPT !.cache = cache, !.checked = None, !.snap = old.snap]
           \/ worker' = [worker EXCEPT !.cache = cache, !.checked = None, !.snap = None]
        /\ storage' = storage \/ storage' = [storage EXCEPT !.snap = None]
    BY <1>1, <1>2 DEF RestoreSnapshot
  <1>9. worker.up
    BY <1>1, <1>3, <1>4 DEF WorkerOK, Asleep
  <1>10. old.snap \in MaybeSnap /\ None \in MaybeSnap
    BY <1>5 DEF Cached, MaybeSnap
  <1>11. WorkerOK' /\ worker'.mode = worker.mode
    <2>1. /\ DOMAIN worker' = DOMAIN worker /\ worker'.cache = cache /\ worker'.checked = None /\ worker'.snap \in MaybeSnap
          /\ worker'.up = worker.up /\ worker'.born = worker.born /\ worker'.mode = worker.mode
          /\ worker'.port = worker.port /\ worker'.anchor = worker.anchor /\ worker'.spent = worker.spent
          /\ worker'.filters = worker.filters /\ worker'.recheck = worker.recheck /\ worker'.listed = worker.listed
      <3>1. CASE worker' = [worker EXCEPT !.cache = cache, !.checked = None]
        BY <1>4, <3>1 DEF WorkerOK
      <3>2. CASE worker' = [worker EXCEPT !.cache = cache, !.checked = None, !.snap = old.snap]
        BY <1>4, <1>10, <3>2 DEF WorkerOK
      <3>3. CASE worker' = [worker EXCEPT !.cache = cache, !.checked = None, !.snap = None]
        BY <1>4, <1>10, <3>3 DEF WorkerOK
      <3>4. QED
        BY <1>8, <3>1, <3>2, <3>3
    <2>2. QED
      BY <1>3, <1>4, <1>6, <1>9, <2>1, SameSetting DEF WorkerOK, MaybeClock
  <1>12. StorageOK'
    BY <1>3, <1>4, <1>8, <1>10, SameSetting DEF StorageOK, MaybeClock
  <1>13. QED
    BY <1>3, <1>11, <1>12, WorkerMoves

LEMMA RestoredTypes ==
    ASSUME TypeInv, restoreCachedPolicy
    PROVE  TypeInv'
  <1>1. PICK cache : cache = worker.cache
    OBVIOUS
  <1>2. PICK filters : filters = IF cache.filters # None /\ VerifiedBy(cache.key, cache.filters) THEN cache.filters ELSE worker.filters
    OBVIOUS
  <1>3. PICK anchor : anchor = IF cache.anchor # None THEN cache.anchor ELSE worker.anchor
    OBVIOUS
  <1>4. /\ UNCHANGED <<setting, left, now, server, task, reports, asking, opened>> /\ Unsettled
        /\ cache # None /\ cache.at = "filters"
        /\ worker' = [worker EXCEPT !.cache = None, !.recheck = TRUE, !.filters = filters, !.anchor = anchor]
        /\ storage' = storage \/ storage' = [storage EXCEPT !.filters = None]
    BY <1>1, <1>2, <1>3 DEF restoreCachedPolicy, Restoring
  <1>5. WorkerOK /\ StorageOK
    BY DEF TypeInv
  <1>6. cache \in Cached
    BY <1>1, <1>4, <1>5 DEF WorkerOK
  <1>7. filters \in MaybeFilters /\ anchor \in MaybeClock
    BY <1>2, <1>3, <1>5, <1>6 DEF Cached, WorkerOK
  <1>8. worker.up
    BY <1>1, <1>4, <1>5 DEF WorkerOK, Asleep
  <1>9. WorkerOK' /\ worker'.mode = worker.mode
    BY <1>4, <1>5, <1>7, <1>8, SameSetting DEF WorkerOK, MaybeClock
  <1>10. StorageOK'
    BY <1>4, <1>5, SameSetting DEF StorageOK, MaybeClock, MaybeFilters
  <1>11. QED
    BY <1>4, <1>9, <1>10, WorkerMoves

LEMMA NativeTypes ==
    ASSUME TypeInv, connectNativeHost \/ HostGone \/ HostSnapshot \/ HostFilters
    PROVE  TypeInv'
  <1>1. WorkerOK /\ StorageOK /\ ServerOK /\ SettingOK /\ CountsOK
    BY DEF TypeInv
  <1>2. CASE connectNativeHost
    <2>1. WorkerOK' /\ worker'.mode = worker.mode /\ UNCHANGED <<setting, left, now, server, storage, task, reports, tab, asking, opened>>
      BY <1>1, <1>2, SameSetting DEF connectNativeHost, WorkerOK, MaybeClock
    <2>2. QED
      BY <1>1, <2>1, Kept, WorkerMoves
  <1>3. CASE HostGone
    <2>1. /\ worker' = [worker EXCEPT !.port = FALSE] /\ worker.port
          /\ Use("mishap") /\ UNCHANGED <<setting, now, server, storage, task, reports, tab, asking, opened>>
      BY <1>3 DEF HostGone, Mishap
    <2>2. worker.up
      BY <1>1, <2>1 DEF WorkerOK, Asleep
    <2>3. WorkerOK' /\ worker'.mode = worker.mode
      BY <1>1, <2>1, <2>2, SameSetting DEF WorkerOK, MaybeClock
    <2>4. CountsOK'
      BY <1>1, <2>1, UseKeeps DEF CountsOK
    <2>5. TasksOK'
      BY <2>1, <2>3, TasksOfWorker DEF TypeInv
    <2>6. QED
      BY <2>1, <2>3, <2>4, <2>5, Kept DEF TypeInv
  <1>4. CASE HostSnapshot
    <2>1. PICK snap, anchor : snap = Snapshot(1) /\ anchor = Anchor(now)
      OBVIOUS
    <2>2. snap \in MaybeSnap /\ anchor \in MaybeClock
      BY <1>1, <2>1, LinkFacts, SnapshotTyped, ClockTyped DEF MaybeSnap, MaybeClock, CountsOK
    <2>3. /\ UNCHANGED <<setting, left, now, server, task, reports, tab, asking, opened, excused>> /\ worker.port
          /\ worker' = [worker EXCEPT !.snap = snap, !.anchor = anchor]
          /\ storage' = [storage EXCEPT !.snap = snap, !.anchor = anchor]
      BY <1>4, <2>1 DEF HostSnapshot
    <2>4. worker.up
      BY <1>1, <2>3 DEF WorkerOK, Asleep
    <2>5. WorkerOK' /\ worker'.mode = worker.mode
      BY <1>1, <2>2, <2>3, <2>4, SameSetting DEF WorkerOK, MaybeClock
    <2>6. StorageOK'
      BY <1>1, <2>2, <2>3, SameSetting DEF StorageOK, MaybeClock
    <2>7. QED
      BY <2>3, <2>5, <2>6, WorkerMoves
  <1>5. CASE HostFilters
    <2>1. PICK set : set = [device |-> 1, version |-> setting.dataset]
      OBVIOUS
    <2>2. set \in MaybeFilters
      BY <1>1, <2>1, LinkFacts DEF MaybeFilters, FilterSet
    <2>3. /\ UNCHANGED <<setting, left, now, server, task, reports, tab, asking, opened, excused>> /\ worker.port
          /\ worker' = [worker EXCEPT !.filters = set]
          /\ storage' = [storage EXCEPT !.filters = set]
      BY <1>5, <2>1 DEF HostFilters
    <2>4. worker.up
      BY <1>1, <2>3 DEF WorkerOK, Asleep
    <2>5. WorkerOK' /\ worker'.mode = worker.mode
      BY <1>1, <2>2, <2>3, <2>4, SameSetting DEF WorkerOK, MaybeClock
    <2>6. StorageOK'
      BY <1>1, <2>2, <2>3, SameSetting DEF StorageOK, MaybeClock
    <2>7. QED
      BY <2>3, <2>5, <2>6, WorkerMoves
  <1>6. QED
    BY <1>2, <1>3, <1>4, <1>5

-----------------------------------------------------------------------------
(* The filters and the options page. *)

LEMMA StartFiltersTypes ==
    ASSUME TypeInv, StartFilters
    PROVE  TypeInv'
  <1>1. PICK x, key : x = task["filters"] /\ key = Key
    OBVIOUS
  <1>2. PICK new : new = [x EXCEPT !.cfg = storage.config, !.at = "poll", !.body = key]
    OBVIOUS
  <1>3. /\ UNCHANGED <<setting, now, server, storage, worker, reports, tab, asking, opened, excused>>
        /\ Use("filters") /\ worker.mode = "backend" /\ task' = [task EXCEPT !["filters"] = new]
    BY <1>1, <1>2 DEF StartFilters, Loops
  <1>4. TasksOK /\ TaskOK("filters", x) /\ storage.config \in Config /\ "filters" \in Jobs /\ CountsOK
    BY <1>1 DEF TypeInv, TasksOK, StorageOK, Jobs
  <1>5. /\ DOMAIN new = DOMAIN x /\ new.at = "poll" /\ new.cur = x.cur
        /\ new.cfg = storage.config /\ new.body = key /\ new.patch = x.patch /\ new.next = x.next
    BY <1>2, <1>4 DEF TaskOK
  <1>6. TaskOK("filters", new)
    BY <1>4, <1>5 DEF TaskOK, Saves
  <1>7. TasksOK'
    BY <1>3, <1>4, <1>6, TaskMoves
  <1>8. CountsOK'
    BY <1>3, <1>4, UseKeeps DEF CountsOK
  <1>9. QED
    BY <1>3, <1>7, <1>8, Kept DEF TypeInv

LEMMA FiltersPolledTypes ==
    ASSUME TypeInv, FiltersPolled
    PROVE  TypeInv'
  <1>1. PICK x, cfg : x = task["filters"] /\ cfg = x.cfg
    OBVIOUS
  <1>2. PICK set : set = [device |-> cfg.device, version |-> setting.dataset]
    OBVIOUS
  <1>3. PICK patch : patch = [filter |-> set.version]
    OBVIOUS
  <1>4. PICK new : new = [x EXCEPT !.at = "read", !.next = "apply", !.body = set, !.patch = patch]
    OBVIOUS
  <1>5. UNCHANGED <<setting, now, server, storage, worker, reports, tab, asking, opened, excused>>
    BY DEF FiltersPolled
  <1>6. TasksOK /\ TaskOK("filters", x) /\ "filters" \in Jobs /\ CountsOK /\ SettingOK
    BY <1>1 DEF TypeInv, TasksOK, Jobs
  <1>7. CASE Ended("filters")
    <2>1. TasksOK'
      BY <1>5, <1>6, <1>7, EndedTypes
    <2>2. CountsOK'
      BY <1>5, <1>6, UseKeeps DEF CountsOK, FiltersPolled, Mishap
    <2>3. QED
      BY <1>5, <2>1, <2>2, Kept DEF TypeInv
  <1>8. CASE ~Ended("filters")
    <2>1. Authorized(cfg) /\ UNCHANGED left /\ task' = [task EXCEPT !["filters"] = new]
      BY <1>1, <1>2, <1>3, <1>4, <1>8 DEF FiltersPolled
    <2>2. cfg.device \in Link
      BY <1>1, <1>6, <2>1, AuthorizedLink DEF TaskOK
    <2>3. set \in FilterSet /\ patch \in NewFilter
      BY <1>2, <1>3, <1>6, <2>2, LinkFacts DEF FilterSet, NewFilter
    <2>4. /\ DOMAIN new = DOMAIN x /\ new.at = "read" /\ new.cur = x.cur
          /\ new.cfg = x.cfg /\ new.body = set /\ new.patch = patch /\ new.next = "apply"
      BY <1>4, <1>6 DEF TaskOK
    <2>5. TaskOK("filters", new)
      BY <1>6, <2>3, <2>4 DEF TaskOK, Saves
    <2>6. worker.mode = "backend"
      BY <1>6, RunsInBackend DEF FiltersPolled, Is
    <2>7. TasksOK'
      BY <1>5, <1>6, <2>1, <2>5, <2>6, TaskMoves
    <2>8. QED
      BY <1>5, <2>1, <2>7, Kept DEF TypeInv
  <1>9. QED
    BY <1>7, <1>8

LEMMA ApplyFiltersTypes ==
    ASSUME TypeInv, applyCategoryFilters
    PROVE  TypeInv'
  <1>1. PICK set : set = task["filters"].body
    OBVIOUS
  <1>2. /\ UNCHANGED <<setting, left, now, server, reports, asking, opened, excused>> /\ Unsettled
        /\ worker' = [worker EXCEPT !.filters = set, !.checked = None]
        /\ storage' = [storage EXCEPT !.filters = set]
        /\ Ended("filters") /\ Is("filters", "apply")
    BY <1>1 DEF applyCategoryFilters
  <1>3. TasksOK /\ "filters" \in Jobs /\ WorkerOK /\ StorageOK
    BY DEF TypeInv, Jobs
  <1>4. set \in FilterSet /\ worker.mode = "backend"
    BY <1>1, <1>2, <1>3, RunsInBackend DEF TasksOK, TaskOK, Is
  <1>5. worker.up
    BY <1>3, <1>4 DEF WorkerOK, Asleep
  <1>6. WorkerOK'
    BY <1>2, <1>3, <1>4, <1>5, SameSetting DEF WorkerOK, MaybeFilters, MaybeClock
  <1>7. StorageOK'
    BY <1>2, <1>3, <1>4, SameSetting DEF StorageOK, MaybeFilters, MaybeClock
  <1>8. TasksOK'
    <2>1. worker'.mode = "backend"
      BY <1>2, <1>3, <1>4 DEF WorkerOK
    <2>2. DOMAIN task' = Jobs /\ \A k \in Jobs : TaskOK(k, task'[k])
      BY <1>2, <1>3, IdleTyped DEF TasksOK, Ended
    <2>3. QED
      BY <1>2, <2>1, <2>2, SameSetting DEF TasksOK
  <1>9. TabsOK'
    BY <1>2, DoubtedTypes DEF TypeInv
  <1>10. QED
    BY <1>2, <1>6, <1>7, <1>8, <1>9, Kept DEF TypeInv

LEMMA EnrollTypes ==
    ASSUME TypeInv, NEW given, enroll(given)
    PROVE  TypeInv' /\ AsksStay
  <1>1. PICK d : d = server.links + 1
    OBVIOUS
  <1>2. PICK patch : patch = [device |-> d, token |-> d, due |-> FALSE, version |-> 0]
    OBVIOUS
  <1>3. /\ UNCHANGED <<setting, now, storage, worker, reports, tab, asking, opened, excused>> /\ d \in Link
    BY <1>1 DEF enroll
  <1>4. TasksOK /\ "options" \in Jobs /\ CountsOK /\ ServerOK
    BY DEF TypeInv, Jobs
  <1>5. CountsOK'
    BY <1>3, <1>4, UseKeeps DEF CountsOK, enroll, Mishap
  <1>6. CASE UNCHANGED <<server, task>>
    <2>1. AsksStay
      BY <1>6 DEF AsksStay
    <2>2. QED
      BY <1>3, <1>5, <1>6, <2>1, Kept DEF TypeInv
  <1>7. CASE ~UNCHANGED <<server, task>>
    <2>1. server' = [server EXCEPT !.links = d] /\ Saving("options", patch, "pin")
      BY <1>1, <1>2, <1>7 DEF enroll
    <2>2. d \in Nat
      BY <1>1, <1>4 DEF ServerOK
    <2>3. ServerOK' /\ AsksStay
      BY <1>3, <1>4, <2>1, <2>2, SameSetting DEF ServerOK, AsksStay
    <2>4. patch \in NewLink
      BY <1>2, <1>3 DEF NewLink
    <2>5. TasksOK'
      BY <1>3, <1>4, <2>1, <2>4, SavingTyped
    <2>6. QED
      BY <1>3, <1>5, <2>3, <2>5, Kept DEF TypeInv
  <1>8. QED
    BY <1>6, <1>7

LEMMA PinTypes ==
    ASSUME TypeInv, pinTrustAnchor
    PROVE  TypeInv'
  <1>1. PICK pin : pin = setting.servers[task["options"].patch.device]
    OBVIOUS
  <1>2. /\ UNCHANGED <<setting, left, now, server, worker, reports, tab, asking, opened, excused>>
        /\ storage' = [storage EXCEPT !.pin = pin] /\ At("options", "word") /\ task["options"].at = "pin"
    BY <1>1 DEF pinTrustAnchor, Is
  <1>3. TasksOK /\ "options" \in Jobs /\ StorageOK /\ SettingOK
    BY DEF TypeInv, Jobs
  <1>4. task["options"].patch.device \in Link
    BY <1>2, <1>3, PatchFields DEF TasksOK, TaskOK
  <1>5. pin \in Keys
    BY <1>1, <1>3, <1>4, LinkFacts DEF Keys
  <1>6. StorageOK'
    BY <1>2, <1>3, <1>5, SameSetting DEF StorageOK, MaybeClock
  <1>7. TasksOK'
    BY <1>2, <1>3, AtTyped
  <1>8. QED
    BY <1>2, <1>6, <1>7, Kept DEF TypeInv

LEMMA WordTypes ==
    ASSUME TypeInv, setParentWord
    PROVE  TypeInv'
  <1>1. /\ UNCHANGED <<setting, left, now, server, worker, reports, tab, asking, opened, excused>>
        /\ storage' = [storage EXCEPT !.word = TRUE] /\ Ended("options")
    BY DEF setParentWord
  <1>2. TasksOK /\ "options" \in Jobs /\ StorageOK
    BY DEF TypeInv, Jobs
  <1>3. StorageOK'
    BY <1>1, <1>2, SameSetting DEF StorageOK, MaybeClock
  <1>4. TasksOK'
    BY <1>1, <1>2, EndedTypes
  <1>5. QED
    BY <1>1, <1>3, <1>4, Kept DEF TypeInv

LEMMA DisconnectTypes ==
    ASSUME TypeInv, NEW given, Disconnect(given)
    PROVE  TypeInv'
  <1>1. /\ UNCHANGED <<setting, now, server, worker, reports, tab, asking, opened, excused>>
        /\ storage' = [storage EXCEPT !.config = Unlinked] /\ Use("unlink")
    BY DEF Disconnect
  <1>2. PICK x : x = task["options"]
    OBVIOUS
  <1>3. PICK new : new = [x EXCEPT !.at = "clear"]
    OBVIOUS
  <1>4. task' = [task EXCEPT !["options"] = new]
    BY <1>2, <1>3 DEF Disconnect, At
  <1>5. TasksOK /\ TaskOK("options", x) /\ "options" \in Jobs /\ StorageOK /\ CountsOK
    BY <1>2 DEF TypeInv, Jobs, TasksOK
  <1>6. /\ DOMAIN new = DOMAIN x /\ new.at = "clear" /\ new.cur = x.cur
        /\ new.cfg = x.cfg /\ new.body = x.body /\ new.patch = x.patch /\ new.next = x.next
    BY <1>3, <1>5 DEF TaskOK
  <1>7. TaskOK("options", new)
    BY <1>5, <1>6 DEF TaskOK, Saves
  <1>8. TasksOK'
    BY <1>1, <1>4, <1>5, <1>7, TaskMoves
  <1>9. Unlinked \in Config
    BY <1>5, IdleTyped
  <1>10. StorageOK'
    BY <1>1, <1>5, <1>9, SameSetting DEF StorageOK, MaybeClock
  <1>11. CountsOK'
    BY <1>1, <1>5, UseKeeps DEF CountsOK
  <1>12. QED
    BY <1>1, <1>8, <1>10, <1>11, Kept DEF TypeInv

LEMMA ClearTypes ==
    ASSUME TypeInv, clearLocalPolicy
    PROVE  TypeInv'
  <1>1. PICK asks, pin : asks = [p \in Pages |-> 0] /\ pin = IF storage.word THEN storage.pin ELSE None
    OBVIOUS
  <1>2. /\ UNCHANGED <<setting, left, now, server, worker, reports, tab, asking, opened, excused>>
        /\ storage' = [storage EXCEPT !.snap = None, !.anchor = None, !.filters = None, !.asks = asks, !.pin = pin]
        /\ Ended("options")
    BY <1>1 DEF clearLocalPolicy
  <1>3. TasksOK /\ "options" \in Jobs /\ StorageOK
    BY DEF TypeInv, Jobs
  <1>4. asks \in [Pages -> Nat] /\ pin \in Keys
    BY <1>1, <1>3 DEF StorageOK, Keys
  <1>5. None \in MaybeSnap /\ None \in MaybeClock /\ None \in MaybeFilters
    BY DEF MaybeSnap, MaybeClock, MaybeFilters
  <1>6. StorageOK'
    BY <1>2, <1>3, <1>4, <1>5, SameSetting DEF StorageOK, MaybeClock
  <1>7. TasksOK'
    BY <1>2, <1>3, EndedTypes
  <1>8. QED
    BY <1>2, <1>6, <1>7, Kept DEF TypeInv

LEMMA CloseTypes ==
    ASSUME TypeInv, CloseOptions
    PROVE  TypeInv'
  <1>1. /\ UNCHANGED <<setting, now, server, storage, worker, reports, tab, asking, opened>>
        /\ Use("close") /\ Ended("options")
    BY DEF CloseOptions
  <1>2. TasksOK /\ "options" \in Jobs /\ CountsOK
    BY DEF TypeInv, Jobs
  <1>3. TasksOK'
    BY <1>1, <1>2, EndedTypes
  <1>4. CountsOK'
    BY <1>1, <1>2, UseKeeps DEF CountsOK
  <1>5. QED
    BY <1>1, <1>3, <1>4, Kept DEF TypeInv

LEMMA TimeTypes ==
    ASSUME TypeInv, Tick \/ TokenDue
    PROVE  TypeInv'
  <1>1. CountsOK /\ StorageOK
    BY DEF TypeInv
  <1>2. CASE Tick
    <2>1. CountsOK'
      BY <1>1, <1>2, UseKeeps DEF CountsOK, Tick
    <2>2. TabsOK'
      BY <1>2, DoubtedTypes DEF TypeInv, Tick
    <2>3. QED
      BY <1>2, <2>1, <2>2, Kept DEF TypeInv, Tick
  <1>3. CASE TokenDue
    <2>1. PICK cfg : cfg = [storage.config EXCEPT !.due = TRUE]
      OBVIOUS
    <2>2. /\ UNCHANGED <<setting, now, server, worker, task, reports, tab, asking, opened, excused>>
          /\ Use("due") /\ storage' = [storage EXCEPT !.config = cfg]
      BY <1>3, <2>1 DEF TokenDue
    <2>3. cfg \in Config
      BY <1>1, <2>1 DEF StorageOK, Config
    <2>4. StorageOK'
      BY <1>1, <2>2, <2>3, SameSetting DEF StorageOK, MaybeClock
    <2>5. CountsOK'
      BY <1>1, <2>2, UseKeeps DEF CountsOK
    <2>6. QED
      BY <2>2, <2>4, <2>5, Kept DEF TypeInv
  <1>4. QED
    BY <1>2, <1>3

-----------------------------------------------------------------------------
(* A load that spends a grant is let through by one of the worker's snapshot. *)

LEMMA FirstIsOne ==
    ASSUME SettingOK, NEW q \in Contents(setting), NEW S \in SUBSET q.temps, S # {}
    PROVE  /\ First(S, FALSE) \in S
           /\ \A t \in S \ {First(S, FALSE)} : Before(First(S, FALSE), t, FALSE)
  <1>1. setting \in Settings
    BY DEF SettingOK
  <1>2. \E t \in S : \A u \in S \ {t} : Before(t, u, FALSE)
    BY <1>1, GrantAssumption, Zenon
  <1>3. QED
    BY <1>2 DEF First

LEMMA ByGrant ==
    ASSUME SettingOK, WorkerOK, NEW p, Spends(decide(p, TRUE))
    PROVE  /\ worker.snap \in Snap /\ decide(p, TRUE).id \notin worker.spent
           /\ \E t \in worker.snap.temps : t.grantKind = "ONCE" /\ t.id = decide(p, TRUE).id /\ t.action = "ALLOW"
  <1>1. PICK v, page : v = decide(p, TRUE) /\ page = setting.pages[p]
    OBVIOUS
  <1>2. v.reason = "temporary:ONCE"
    BY <1>1 DEF Spends
  <1>3. worker.snap # None
    BY <1>1, <1>2 DEF decide, Verdict
  <1>4. PICK x : x = worker.snap /\ x \in Snap
    BY <1>3 DEF WorkerOK, MaybeSnap
  <1>5. PICK view : view = View(x, worker.spent)
    OBVIOUS
  <1>6. PICK policy, known : policy = Started(view) /\ known = Seen(page)
    OBVIOUS
  <1>7. v = evaluateInWorker(view, page)
    BY <1>1, <1>3, <1>4, <1>5 DEF decide
  <1>8. v = evaluate(policy, known, nowMs)
    BY <1>6, <1>7 DEF evaluateInWorker
  <1>9. PICK temps : temps = ActiveTemps(policy, nowMs)
    OBVIOUS
  <1>10. PICK hits : hits = {t \in temps : matchTarget(t, known)}
    OBVIOUS
  <1>11. v = Judge(policy, temps, known, tierOrder, FALSE)
    BY <1>8, <1>9 DEF evaluate
  <1>12. hits # {} /\ ~known.floor
    BY <1>2, <1>10, <1>11 DEF Judge, ByRule, ByDefault, Verdict
  <1>13. v = ByTemp(First(hits, FALSE))
    BY <1>10, <1>11, <1>12 DEF Judge
  <1>14. policy.temps \subseteq view.temps /\ view.temps = {t \in x.temps : t.id \notin worker.spent}
    <2>1. view.temps = {t \in x.temps : t.id \notin worker.spent}
      BY <1>4, <1>5 DEF View, Snap, SnapshotsOf
    <2>2. "temps" \in DOMAIN view
      BY <1>4, <1>5 DEF View, Snap, SnapshotsOf
    <2>3. policy.temps = {t \in view.temps : t.from <= nowMs}
      BY <1>6, <2>2 DEF Started
    <2>4. QED
      BY <2>1, <2>3
  <1>15. hits \subseteq {t \in x.temps : t.id \notin worker.spent}
    BY <1>9, <1>10, <1>14 DEF ActiveTemps
  <1>16. PICK t : t = First(hits, FALSE)
    OBVIOUS
  <1>17. t \in hits
    <2>1. PICK q \in Contents(setting) : x.temps \subseteq q.temps
      BY <1>4, SnapIds
    <2>2. hits \in SUBSET q.temps
      BY <1>15, <2>1
    <2>3. QED
      BY <1>12, <1>16, <2>1, <2>2, FirstIsOne DEF SettingOK
  <1>18. v = ByTemp(t)
    BY <1>13, <1>16
  <1>19. t.grantKind = "ONCE" /\ v.id = t.id /\ t.action = "ALLOW"
    <2>1. v.action = t.action /\ v.id = t.id /\ (t.grantKind # "ONCE" => v.reason # "temporary:ONCE")
      BY <1>18 DEF ByTemp, Verdict
    <2>2. v.action = "ALLOW"
      BY <1>1 DEF Spends
    <2>3. QED
      BY <1>2, <2>1, <2>2
  <1>20. t \in x.temps /\ t.id \notin worker.spent
    BY <1>15, <1>17
  <1>21. QED
    BY <1>1, <1>4, <1>19, <1>20

LEMMA OnceIdOf ==
    ASSUME SettingOK, NEW x \in Snap, NEW t \in x.temps, t.grantKind = "ONCE"
    PROVE  t.id \in OnceIds(setting) /\ t.id \in GrantIds
  <1>1. PICK q \in Contents(setting) : x.temps \subseteq q.temps
    BY SnapIds
  <1>2. PICK d \in DOMAIN setting.policies : \E i \in DOMAIN setting.policies[d] : q = setting.policies[d][i]
    BY <1>1 DEF Contents
  <1>3. t.id \in {r.id : r \in {u \in q.temps : u.grantKind = "ONCE"}}
    BY <1>1
  <1>4. t.id \in OnceIds(setting)
    BY <1>2, <1>3 DEF OnceIds
  <1>5. QED
    BY <1>4, SnapIds DEF Ids

LEMMA SpendTypes ==
    ASSUME TypeInv, NEW p, spendOnce(decide(p, TRUE)), UNCHANGED <<setting, storage>>, worker.up
    PROVE  WorkerOK' /\ ReportsOK' /\ OpenedOK' /\ worker'.mode = worker.mode
  <1>1. PICK v : v = decide(p, TRUE)
    OBVIOUS
  <1>2. SettingOK /\ WorkerOK /\ ReportsOK /\ OpenedOK /\ storage.config \in Config
    BY DEF TypeInv, StorageOK
  <1>3. CASE Spends(v)
    <2>1. v.id \in OnceIds(setting) /\ v.id \in GrantIds
      BY <1>1, <1>2, <1>3, ByGrant, OnceIdOf
    <2>2. PICK spent : spent = worker.spent \cup {v.id}
      OBVIOUS
    <2>3. worker' = [worker EXCEPT !.spent = spent] /\ spent \subseteq GrantIds
      BY <1>1, <1>2, <1>3, <2>1, <2>2 DEF spendOnce, WorkerOK
    <2>4. WorkerOK' /\ worker'.mode = worker.mode
      BY <1>2, <2>3, SameSetting DEF WorkerOK, MaybeClock
    <2>5. PICK r : r = [id |-> v.id, cfg |-> storage.config]
      OBVIOUS
    <2>6. reports' \subseteq reports \cup {r}
      BY <1>1, <1>3, <2>5 DEF spendOnce
    <2>7. r \in [id : GrantIds, cfg : Config]
      BY <1>2, <2>1, <2>5
    <2>8. ReportsOK'
      BY <1>2, <2>6, <2>7, SameSetting DEF ReportsOK
    <2>9. opened' = [opened EXCEPT ![v.id] = opened[v.id] + 1]
      BY <1>1, <1>3 DEF spendOnce
    <2>10. OpenedOK'
      BY <1>2, <2>1, <2>9 DEF OpenedOK
    <2>11. QED
      BY <2>4, <2>8, <2>10
  <1>4. CASE ~Spends(v)
    BY <1>1, <1>2, <1>4, Kept DEF spendOnce
  <1>5. QED
    BY <1>3, <1>4

-----------------------------------------------------------------------------
(* The tabs. *)

LEMMA GoesOn ==
    ASSUME NEW p \in Pages
    PROVE  NextOK(Going(p)) /\ NextOK(ToBlockPage(p)) /\ NextOK(None)
  <1>1. PICK x : x = Going(p)
    OBVIOUS
  <1>2. x \in TripsOf(setting)
    BY <1>1 DEF Going, TripsOf, Pages
  <1>3. PICK y : y = ToBlockPage(p)
    OBVIOUS
  <1>4. y \in TripsOf(setting)
    BY <1>3 DEF ToBlockPage, TripsOf, Pages
  <1>5. QED
    BY <1>1, <1>2, <1>3, <1>4 DEF NextOK

\* One tab is sent on.
LEMMA SentOn ==
    ASSUME NEW x, TabOK(x), NEW next, NextOK(next)
    PROVE  TabOK([x EXCEPT !.next = next])
  <1>1. PICK new : new = [x EXCEPT !.next = next]
    OBVIOUS
  <1>2. /\ DOMAIN new = DOMAIN x /\ new.next = next /\ new.shown = x.shown /\ new.at = x.at /\ new.slipped = x.slipped
        /\ new.mode = x.mode /\ new.askedAt = x.askedAt /\ new.local = x.local
    BY <1>1 DEF TabOK
  <1>3. TabOK(new)
    BY <1>2 DEF TabOK
  <1>4. QED
    BY <1>1, <1>3

\* One tab changes.
LEMMA TabMoves ==
    ASSUME TabsOK, NEW t \in Tab, NEW x, TabOK(x), tab' = [tab EXCEPT ![t] = x], UNCHANGED setting
    PROVE  TabsOK'
  BY SameSetting DEF TabsOK, TabsIn

LEMMA NavigateTypes ==
    ASSUME TypeInv, NEW t \in Tab, NEW p \in Pages, Navigate(t, p)
    PROVE  TypeInv'
  <1>1. PICK x, next : x = tab[t] /\ next = Going(p)
    OBVIOUS
  <1>2. PICK new : new = [x EXCEPT !.next = next]
    OBVIOUS
  <1>3. /\ UNCHANGED <<setting, now, server, storage, worker, task, reports, asking, opened, excused>> /\ Use("load")
        /\ tab' = [tab EXCEPT ![t] = new]
    BY <1>1, <1>2 DEF Navigate
  <1>4. TabsOK /\ TabOK(x) /\ CountsOK
    BY <1>1 DEF TypeInv, TabsOK, TabsIn
  <1>5. TabOK(new)
    BY <1>1, <1>2, <1>4, GoesOn, SentOn
  <1>6. TabsOK'
    BY <1>3, <1>4, <1>5, TabMoves
  <1>7. CountsOK'
    BY <1>3, <1>4, UseKeeps DEF CountsOK
  <1>8. QED
    BY <1>3, <1>6, <1>7, Kept DEF TypeInv

LEMMA LoadTypes ==
    ASSUME TypeInv, NEW t \in Tab, onBeforeRequestBlocking(t)
    PROVE  TypeInv'
  <1>1. PICK x, next, v : x = tab[t] /\ next = x.next /\ v = decide(next.page, TRUE)
    OBVIOUS
  <1>3. PICK go : go = IF v.action = "BLOCK" THEN ToBlockPage(next.page) ELSE [next EXCEPT !.at = "loading"]
    OBVIOUS
  <1>4. PICK new : new = [x EXCEPT !.next = go]
    OBVIOUS
  <1>5. /\ UNCHANGED <<setting, left, now, server, storage, task, asking, excused>> /\ worker.up
        /\ tab' = [tab EXCEPT ![t] = new] /\ spendOnce(v) /\ next # None
    BY <1>1, <1>3, <1>4 DEF onBeforeRequestBlocking
  <1>6. TabsOK /\ TabOK(x)
    BY <1>1 DEF TypeInv, TabsOK, TabsIn
  <1>7. next \in TripsOf(setting) /\ next.page \in Pages
    BY <1>1, <1>5, <1>6 DEF TabOK, NextOK, TripsOf, Pages
  <1>8. NextOK(go)
    <2>1. CASE v.action = "BLOCK"
      BY <1>3, <1>7, <2>1, GoesOn
    <2>2. CASE v.action # "BLOCK"
      <3>1. go = [next EXCEPT !.at = "loading"]
        BY <1>3, <2>2
      <3>2. go \in TripsOf(setting)
        BY <1>7, <3>1 DEF TripsOf
      <3>3. QED
        BY <3>2 DEF NextOK
    <2>3. QED
      BY <2>1, <2>2
  <1>9. TabsOK'
    BY <1>4, <1>5, <1>6, <1>8, SentOn, TabMoves
  <1>10. WorkerOK' /\ ReportsOK' /\ OpenedOK' /\ worker'.mode = worker.mode
    BY <1>1, <1>5, SpendTypes
  <1>11. TasksOK'
    BY <1>5, <1>10, TasksOfWorker DEF TypeInv
  <1>12. QED
    BY <1>5, <1>9, <1>10, <1>11, Kept DEF TypeInv

\* A tab that shows a page, or the block page of one.
LEMMA ShownTyped ==
    ASSUME NEW p \in Pages, NEW at \in {"open", "parked"}, NEW mode \in {"none", "asked", "idle"}, NEW asked \in Nat,
           NEW slipped \in BOOLEAN
    PROVE  TabOK([NoTab EXCEPT !.shown = p, !.at = at, !.mode = mode, !.askedAt = asked, !.slipped = slipped])
  <1>1. PICK new : new = [NoTab EXCEPT !.shown = p, !.at = at, !.mode = mode, !.askedAt = asked, !.slipped = slipped]
    OBVIOUS
  <1>2. /\ DOMAIN new = {"shown", "at", "next", "slipped", "mode", "askedAt", "local"}
        /\ new.next = None /\ new.shown = p /\ new.at = at /\ new.slipped = slipped
        /\ new.mode = mode /\ new.askedAt = asked /\ new.local = "unread"
    BY <1>1 DEF NoTab
  <1>3. TabOK(new)
    BY <1>2 DEF TabOK, NextOK
  <1>4. QED
    BY <1>1, <1>3

LEMMA CommitTypes ==
    ASSUME TypeInv, NEW t \in Tab, Commit(t)
    PROVE  TypeInv'
  <1>1. PICK next, parked : next = tab[t].next /\ parked = (next.at = "blocking")
    OBVIOUS
  <1>2. PICK asked, slipped : asked = (IF parked THEN storage.asks[next.page] ELSE 0) /\ slipped = ~next.stands
    OBVIOUS
  <1>3. PICK at, mode : /\ at = (IF parked THEN "parked" ELSE "open")
                        /\ mode = (IF ~parked THEN "none" ELSE IF asked > 0 THEN "asked" ELSE "idle")
    OBVIOUS
  <1>4. PICK new : new = [NoTab EXCEPT !.shown = next.page, !.at = at, !.mode = mode, !.askedAt = asked, !.slipped = slipped]
    OBVIOUS
  <1>5. PICK msg : msg = [asking[t] EXCEPT !.waits = FALSE]
    OBVIOUS
  <1>6. /\ UNCHANGED <<setting, left, now, server, storage, worker, task, reports, opened, excused>> /\ next # None
        /\ tab' = [tab EXCEPT ![t] = new] /\ asking' = [asking EXCEPT ![t] = msg]
    BY <1>1, <1>2, <1>3, <1>4, <1>5 DEF Commit
  <1>7. TabsOK /\ AskingOK /\ StorageOK
    BY DEF TypeInv
  <1>8. next.page \in Pages
    BY <1>1, <1>6, <1>7 DEF TabsOK, TabsIn, TabOK, NextOK, TripsOf, Pages
  <1>9. asked \in Nat
    <2>1. storage.asks[next.page] \in Nat
      BY <1>7, <1>8 DEF StorageOK
    <2>2. QED
      BY <1>2, <2>1
  <1>10. at \in {"open", "parked"} /\ mode \in {"none", "asked", "idle"} /\ slipped \in BOOLEAN
    BY <1>2, <1>3
  <1>11. TabOK(new)
    BY <1>4, <1>8, <1>9, <1>10, ShownTyped
  <1>12. TabsOK'
    BY <1>6, <1>7, <1>11, TabMoves
  <1>13. MessageOK(msg)
    BY <1>5, <1>7 DEF AskingOK, MessageOK
  <1>14. AskingOK'
    BY <1>6, <1>7, <1>13, SameSetting DEF AskingOK
  <1>15. QED
    BY <1>6, <1>12, <1>14, Kept DEF TypeInv

LEMMA RouteTypes ==
    ASSUME TypeInv, NEW t \in Tab, NEW p \in Pages, onHistoryStateUpdated(t, p)
    PROVE  TypeInv'
  <1>1. PICK x, v : x = tab[t] /\ v = decide(p, TRUE)
    OBVIOUS
  <1>2. PICK go : go = IF v.action = "BLOCK" THEN ToBlockPage(p) ELSE None
    OBVIOUS
  <1>3. PICK new : new = [x EXCEPT !.shown = p, !.slipped = FALSE, !.next = go]
    OBVIOUS
  <1>4. /\ UNCHANGED <<setting, now, server, storage, task, asking, excused>> /\ worker.up /\ Use("route")
        /\ tab' = [tab EXCEPT ![t] = new] /\ spendOnce(v)
    BY <1>1, <1>2, <1>3 DEF onHistoryStateUpdated
  <1>5. TabsOK /\ TabOK(x) /\ CountsOK
    BY <1>1 DEF TypeInv, TabsOK, TabsIn
  <1>6. NextOK(go)
    BY <1>2, GoesOn
  <1>7. /\ DOMAIN new = DOMAIN x /\ new.next = go /\ new.shown = p /\ new.at = x.at /\ new.slipped = FALSE
        /\ new.mode = x.mode /\ new.askedAt = x.askedAt /\ new.local = x.local
    BY <1>3, <1>5 DEF TabOK
  <1>8. TabOK(new)
    BY <1>5, <1>6, <1>7 DEF TabOK
  <1>9. TabsOK'
    BY <1>4, <1>5, <1>8, TabMoves
  <1>10. WorkerOK' /\ ReportsOK' /\ OpenedOK' /\ worker'.mode = worker.mode
    BY <1>1, <1>4, SpendTypes
  <1>11. TasksOK'
    BY <1>4, <1>10, TasksOfWorker DEF TypeInv
  <1>12. CountsOK'
    BY <1>4, <1>5, UseKeeps DEF CountsOK
  <1>13. QED
    BY <1>4, <1>9, <1>10, <1>11, <1>12, Kept DEF TypeInv

LEMMA QueryTypes ==
    ASSUME TypeInv, QueryTabs
    PROVE  TypeInv'
  <1>1. PICK checked : checked = nowMs
    OBVIOUS
  <1>2. /\ UNCHANGED <<setting, left, now, server, storage, task, reports, tab, asking, opened, excused>>
        /\ worker.recheck /\ worker' = [worker EXCEPT !.recheck = FALSE, !.listed = tab, !.checked = checked]
    BY <1>1 DEF QueryTabs
  <1>3. WorkerOK /\ TabsOK
    BY DEF TypeInv
  <1>4. worker.up /\ checked \in Int
    BY <1>1, <1>2, <1>3, TimeTyped DEF WorkerOK, Asleep, TypeInv
  <1>5. WorkerOK' /\ worker'.mode = worker.mode
    BY <1>2, <1>3, <1>4, SameSetting DEF WorkerOK, MaybeClock, TabsOK
  <1>6. QED
    BY <1>2, <1>5, Kept, WorkerMoves DEF TypeInv

LEMMA RecheckTypes ==
    ASSUME TypeInv, reevaluateOpenTabs
    PROVE  TypeInv'
  <1>1. /\ UNCHANGED <<setting, left, now, server, storage, task, reports, asking, opened, excused>>
        /\ worker.listed # <<>> /\ tab' = [t \in Tab |-> Rechecked(t)] /\ worker' = [worker EXCEPT !.listed = <<>>]
    BY DEF reevaluateOpenTabs
  <1>2. WorkerOK /\ TabsOK /\ TabsIn(worker.listed)
    BY <1>1 DEF TypeInv, WorkerOK
  <1>3. worker.up
    BY <1>1, <1>2 DEF WorkerOK, Asleep
  <1>4. WorkerOK' /\ worker'.mode = worker.mode
    BY <1>1, <1>2, <1>3, SameSetting DEF WorkerOK, MaybeClock
  <1>5. ASSUME NEW t \in Tab PROVE TabOK(tab'[t])
    <2>1. PICK was, x : was = worker.listed[t] /\ x = tab[t]
      OBVIOUS
    <2>2. TabOK(was) /\ TabOK(x)
      BY <1>2, <2>1 DEF TabsOK, TabsIn
    <2>3. CASE tab'[t] = [x EXCEPT !.next = Going(was.shown)] /\ was.at = "parked"
      BY <2>2, <2>3, GoesOn, SentOn DEF TabOK
    <2>4. CASE tab'[t] = [x EXCEPT !.next = ToBlockPage(was.shown)] /\ was.at = "open"
      BY <2>2, <2>4, GoesOn, SentOn DEF TabOK
    <2>5. CASE tab'[t] = [x EXCEPT !.slipped = FALSE]
      <3>1. PICK new : new = [x EXCEPT !.slipped = FALSE]
        OBVIOUS
      <3>2. /\ DOMAIN new = DOMAIN x /\ new.next = x.next /\ new.shown = x.shown /\ new.at = x.at /\ new.slipped = FALSE
            /\ new.mode = x.mode /\ new.askedAt = x.askedAt /\ new.local = x.local
        BY <2>2, <3>1 DEF TabOK
      <3>3. QED
        BY <2>2, <2>5, <3>1, <3>2 DEF TabOK
    <2>6. CASE tab'[t] = x
      BY <2>2, <2>6
    <2>7. \/ tab'[t] = [x EXCEPT !.next = Going(was.shown)] /\ was.at = "parked"
          \/ tab'[t] = [x EXCEPT !.next = ToBlockPage(was.shown)] /\ was.at = "open"
          \/ tab'[t] = [x EXCEPT !.slipped = FALSE] \/ tab'[t] = x
      BY <1>1, <2>1 DEF Rechecked
    <2>8. QED
      BY <2>3, <2>4, <2>5, <2>6, <2>7
  <1>6. DOMAIN tab' = Tab
    BY <1>1
  <1>7. TabsOK'
    BY <1>1, <1>5, <1>6, SameSetting DEF TabsOK, TabsIn
  <1>8. TasksOK'
    BY <1>1, <1>4, TasksOfWorker DEF TypeInv
  <1>9. QED
    BY <1>1, <1>4, <1>7, <1>8, Kept DEF TypeInv

-----------------------------------------------------------------------------
(* The block page. *)

\* The message of one tab changes.
LEMMA MessageMoves ==
    ASSUME AskingOK, NEW t \in Tab, NEW x, MessageOK(x), asking' = [asking EXCEPT ![t] = x], UNCHANGED setting
    PROVE  AskingOK'
  BY SameSetting DEF AskingOK

\* It goes on, by the config it read.
LEMMA MessageTyped ==
    ASSUME NEW x, MessageOK(x), x.at # "none", NEW at \in {"sent", "posting", "filed", "failed", "ok"}
    PROVE  /\ MessageOK([x EXCEPT !.at = at])
           /\ \A cfg \in Config : MessageOK([x EXCEPT !.at = at, !.cfg = cfg])
           /\ MessageOK([x EXCEPT !.waits = FALSE])
  <1>1. ASSUME NEW cfg \in Config PROVE MessageOK([x EXCEPT !.at = at, !.cfg = cfg])
    BY <1>1 DEF MessageOK
  <1>2. MessageOK([x EXCEPT !.at = at])
    BY DEF MessageOK
  <1>3. MessageOK([x EXCEPT !.waits = FALSE])
    BY DEF MessageOK
  <1>4. QED
    BY <1>1, <1>2, <1>3

LEMMA NoMessageTyped == MessageOK(NoMessage) /\ NoMessage.at = "none"
  <1>1. Unlinked \in Config
    BY IdleTyped DEF Jobs
  <1>2. PICK x : x = NoMessage
    OBVIOUS
  <1>3. DOMAIN x = {"at", "page", "cfg", "seen", "waits"} /\ x.at = "none" /\ x.cfg = Unlinked /\ x.waits = FALSE
    BY <1>2 DEF NoMessage
  <1>4. MessageOK(x) /\ x.at = "none"
    BY <1>1, <1>3 DEF MessageOK
  <1>5. QED
    BY <1>2, <1>4

\* The page says something else.
LEMMA ShowsTyped ==
    ASSUME TabsOK, NEW t \in Tab, NEW mode \in {"idle", "asking", "asked"}, Shows(t, mode), UNCHANGED setting
    PROVE  TabsOK'
  <1>1. PICK x : x = tab[t]
    OBVIOUS
  <1>2. PICK new : new = [x EXCEPT !.mode = mode]
    OBVIOUS
  <1>3. TabOK(x) /\ tab' = [tab EXCEPT ![t] = new]
    BY <1>1, <1>2 DEF Shows, TabsOK, TabsIn
  <1>4. /\ DOMAIN new = DOMAIN x /\ new.next = x.next /\ new.shown = x.shown /\ new.at = x.at /\ new.slipped = x.slipped
        /\ new.mode = mode /\ new.askedAt = x.askedAt /\ new.local = x.local
    BY <1>2, <1>3 DEF TabOK
  <1>5. TabOK(new)
    BY <1>3, <1>4 DEF TabOK
  <1>6. QED
    BY <1>3, <1>5, TabMoves

LEMMA AskTypes ==
    ASSUME TypeInv, NEW t \in Tab, Ask(t)
    PROVE  TypeInv'
  <1>1. PICK new : new = [NoMessage EXCEPT !.at = "sent", !.page = tab[t].shown, !.waits = TRUE]
    OBVIOUS
  <1>2. /\ UNCHANGED <<setting, now, server, storage, worker, task, reports, opened, excused>>
        /\ Use("ask") /\ Shows(t, "asking") /\ asking' = [asking EXCEPT ![t] = new] /\ tab[t].at = "parked"
    BY <1>1 DEF Ask
  <1>3. TabsOK /\ AskingOK /\ CountsOK
    BY DEF TypeInv
  <1>4. tab[t].shown \in Pages
    BY <1>2, <1>3 DEF TabsOK, TabsIn, TabOK
  <1>5. /\ DOMAIN new = {"at", "page", "cfg", "seen", "waits"} /\ new.at = "sent" /\ new.page = tab[t].shown
        /\ new.cfg = Unlinked /\ new.waits = TRUE
    BY <1>1 DEF NoMessage
  <1>6. Unlinked \in Config
    BY IdleTyped DEF Jobs
  <1>7. MessageOK(new)
    BY <1>4, <1>5, <1>6 DEF MessageOK
  <1>8. AskingOK'
    BY <1>2, <1>3, <1>7, MessageMoves
  <1>9. TabsOK'
    BY <1>2, <1>3, ShowsTyped
  <1>10. CountsOK'
    BY <1>2, <1>3, UseKeeps DEF CountsOK
  <1>11. QED
    BY <1>2, <1>8, <1>9, <1>10, Kept DEF TypeInv

LEMMA RequestTypes ==
    ASSUME TypeInv, NEW t \in Tab, requestAccess(t)
    PROVE  TypeInv' /\ AsksStay
  <1>1. PICK x, page : x = asking[t] /\ page = asking[t].page
    OBVIOUS
  <1>2. /\ UNCHANGED <<setting, left, now, storage, worker, task, reports, tab, opened>> /\ x.at = "sent"
    BY <1>1 DEF requestAccess, Asking
  <1>3. AskingOK /\ MessageOK(x) /\ ServerOK /\ storage.config \in Config
    BY <1>1 DEF TypeInv, AskingOK, StorageOK
  <1>4. CASE worker.mode = "backend"
    <2>1. PICK at : at = IF Linked(storage.config) THEN "posting" ELSE "failed"
      OBVIOUS
    <2>2. PICK new : new = [x EXCEPT !.at = at, !.cfg = storage.config]
      OBVIOUS
    <2>3. asking' = [asking EXCEPT ![t] = new] /\ UNCHANGED server
      BY <1>1, <1>4, <2>1, <2>2 DEF requestAccess
    <2>4. MessageOK(new)
      BY <1>2, <1>3, <2>1, <2>2, MessageTyped
    <2>5. AskingOK'
      BY <1>2, <1>3, <2>3, <2>4, MessageMoves
    <2>6. QED
      BY <1>2, <2>3, <2>5, Kept DEF TypeInv, AsksStay
  <1>5. CASE worker.mode # "backend"
    <2>1. PICK new : new = [x EXCEPT !.at = "ok"]
      OBVIOUS
    <2>2. asking' = [asking EXCEPT ![t] = new]
      BY <1>1, <1>5, <2>1 DEF requestAccess, Said
    <2>3. \/ server' = [server EXCEPT !.host = server.host \cup {page}]
          \/ server' = [server EXCEPT !.unsent = server.unsent \cup {page}]
      BY <1>1, <1>5 DEF requestAccess
    <2>4. page \in Pages /\ MessageOK(new)
      BY <1>1, <1>2, <1>3, <2>1, MessageTyped DEF MessageOK
    <2>5. AskingOK'
      BY <1>2, <1>3, <2>2, <2>4, MessageMoves
    <2>6. ServerOK' /\ AsksStay
      <3>1. CASE server' = [server EXCEPT !.unsent = server.unsent \cup {page}]
        <4>1. PICK unsent : unsent = server.unsent \cup {page}
          OBVIOUS
        <4>2. unsent \in SUBSET Pages /\ server' = [server EXCEPT !.unsent = unsent]
          BY <1>3, <2>4, <3>1, <4>1 DEF ServerOK
        <4>3. ServerOK'
          BY <1>2, <1>3, <4>2, SameSetting DEF ServerOK
        <4>4. server'.unsent = unsent /\ server'.host = server.host /\ server'.asks = server.asks
          BY <1>3, <4>2 DEF ServerOK
        <4>5. QED
          BY <4>1, <4>3, <4>4 DEF AsksStay
      <3>2. CASE server' = [server EXCEPT !.host = server.host \cup {page}]
        <4>1. PICK host : host = server.host \cup {page}
          OBVIOUS
        <4>2. host \in SUBSET Pages /\ server' = [server EXCEPT !.host = host]
          BY <1>3, <2>4, <3>2, <4>1 DEF ServerOK
        <4>3. ServerOK'
          BY <1>2, <1>3, <4>2, SameSetting DEF ServerOK
        <4>4. server'.host = host /\ server'.unsent = server.unsent /\ server'.asks = server.asks
          BY <1>3, <4>2 DEF ServerOK
        <4>5. QED
          BY <4>1, <4>3, <4>4 DEF AsksStay
      <3>3. QED
        BY <2>3, <3>1, <3>2
    <2>7. QED
      BY <1>2, <2>5, <2>6, Kept DEF TypeInv
  <1>6. QED
    BY <1>4, <1>5

LEMMA PostTypes ==
    ASSUME TypeInv, NEW t \in Tab, postAccessRequest(t)
    PROVE  TypeInv' /\ AsksStay
  <1>1. PICK x, page, cfg, d : x = asking[t] /\ page = x.page /\ cfg = x.cfg /\ d = cfg.device
    OBVIOUS
  <1>2. UNCHANGED <<setting, now, storage, worker, task, reports, tab, opened, excused>> /\ x.at = "posting"
    BY <1>1 DEF postAccessRequest, Asking
  <1>3. AskingOK /\ MessageOK(x) /\ ServerOK /\ CountsOK
    BY <1>1 DEF TypeInv, AskingOK
  <1>4. PICK at \in {"filed", "failed"} : Said(t, at)
    BY DEF postAccessRequest
  <1>5. PICK new : new = [x EXCEPT !.at = at]
    OBVIOUS
  <1>6. asking' = [asking EXCEPT ![t] = new]
    BY <1>1, <1>4, <1>5 DEF Said
  <1>7. MessageOK(new)
    BY <1>2, <1>3, <1>4, <1>5, MessageTyped
  <1>8. AskingOK'
    BY <1>2, <1>3, <1>6, <1>7, MessageMoves
  <1>9. CountsOK'
    BY <1>2, <1>3, UseKeeps DEF CountsOK, postAccessRequest, Mishap
  <1>10. CASE server' = server
    BY <1>2, <1>8, <1>9, <1>10, Kept DEF TypeInv, AsksStay
  <1>11. CASE server' # server
    <2>1. Authorized(cfg) /\ server' = [server EXCEPT !.asks[d][page].pending = TRUE]
      BY <1>1, <1>11 DEF postAccessRequest
    <2>2. d \in Link /\ page \in Pages
      BY <1>1, <1>2, <1>3, <2>1, AuthorizedLink DEF MessageOK
    <2>3. PICK old : old = server.asks[d][page]
      OBVIOUS
    <2>4. PICK ask : ask = [old EXCEPT !.pending = TRUE]
      OBVIOUS
    <2>5. old \in [pending : BOOLEAN, answer : {"none", "opened", "closed"}]
      BY <1>3, <2>2, <2>3 DEF ServerOK
    <2>6. ask \in [pending : BOOLEAN, answer : {"none", "opened", "closed"}] /\ ask.pending = TRUE
      BY <2>4, <2>5
    <2>7. ask # NoAsk
      BY <2>6 DEF NoAsk
    <2>8. PICK row : row = [server.asks[d] EXCEPT ![page] = ask]
      OBVIOUS
    <2>9. PICK asks : asks = [server.asks EXCEPT ![d] = row]
      OBVIOUS
    <2>10. server' = [server EXCEPT !.asks = asks]
      BY <2>1, <2>3, <2>4, <2>8, <2>9
    <2>11. /\ server.asks \in [Link -> [Pages -> [pending : BOOLEAN, answer : {"none", "opened", "closed"}]]]
      BY <1>3 DEF ServerOK
    <2>12. row \in [Pages -> [pending : BOOLEAN, answer : {"none", "opened", "closed"}]]
      BY <2>2, <2>6, <2>8, <2>11
    <2>13. asks \in [Link -> [Pages -> [pending : BOOLEAN, answer : {"none", "opened", "closed"}]]]
      BY <2>2, <2>9, <2>11, <2>12
    <2>14. \A c \in Link, p \in Pages : server.asks[c][p] # NoAsk => asks[c][p] # NoAsk
      BY <2>2, <2>7, <2>8, <2>9, <2>11
    <2>15. server'.asks = asks /\ server'.host = server.host /\ server'.unsent = server.unsent
      BY <1>3, <2>10 DEF ServerOK
    <2>16. ServerOK'
      BY <1>2, <1>3, <2>10, <2>13, SameSetting DEF ServerOK
    <2>17. AsksStay
      BY <2>14, <2>15 DEF AsksStay
    <2>18. QED
      BY <1>2, <1>8, <1>9, <2>16, <2>17, Kept DEF TypeInv
  <1>12. QED
    BY <1>10, <1>11

LEMMA MessageTypes ==
    ASSUME TypeInv, NEW t \in Tab, Told(t) \/ NotSent(t) \/ TimesOut(t) \/ ReadAsks(t) \/ recordAsk(t)
    PROVE  TypeInv'
  <1>1. PICK x : x = asking[t]
    OBVIOUS
  <1>2. AskingOK /\ TabsOK /\ StorageOK /\ MessageOK(x) /\ CountsOK
    BY <1>1 DEF TypeInv, AskingOK
  <1>3. CASE Told(t)
    <2>1. PICK new : new = [x EXCEPT !.at = "ok"]
      OBVIOUS
    <2>2. /\ UNCHANGED <<setting, left, now, server, storage, worker, task, reports, tab, opened, excused>>
          /\ x.at = "filed" /\ asking' = [asking EXCEPT ![t] = new]
      BY <1>1, <1>3, <2>1 DEF Told, Tell, Asking, Said
    <2>3. MessageOK(new)
      BY <1>2, <2>1, <2>2, MessageTyped
    <2>4. AskingOK'
      BY <1>2, <2>2, <2>3, MessageMoves
    <2>5. QED
      BY <2>2, <2>4, Kept DEF TypeInv
  <1>4. CASE NotSent(t)
    <2>1. /\ UNCHANGED <<setting, left, now, server, storage, worker, task, reports, opened, excused>>
          /\ asking' = [asking EXCEPT ![t] = NoMessage] /\ (Shows(t, "idle") \/ UNCHANGED tab)
      BY <1>4 DEF NotSent
    <2>2. AskingOK'
      BY <1>2, <2>1, NoMessageTyped, MessageMoves
    <2>3. TabsOK'
      BY <1>2, <2>1, ShowsTyped, Kept
    <2>4. QED
      BY <2>1, <2>2, <2>3, Kept DEF TypeInv
  <1>5. CASE TimesOut(t)
    <2>1. PICK new : new = [x EXCEPT !.waits = FALSE]
      OBVIOUS
    <2>2. /\ UNCHANGED <<setting, left, now, server, storage, worker, task, reports, opened, excused>>
          /\ asking' = [asking EXCEPT ![t] = new] /\ Shows(t, "idle") /\ x.at # "none"
      BY <1>1, <1>5, <2>1 DEF TimesOut
    <2>3. MessageOK(new)
      BY <1>2, <2>1, <2>2, MessageTyped
    <2>4. AskingOK'
      BY <1>2, <2>2, <2>3, MessageMoves
    <2>5. TabsOK'
      BY <1>2, <2>2, ShowsTyped
    <2>6. QED
      BY <2>2, <2>4, <2>5, Kept DEF TypeInv
  <1>6. CASE ReadAsks(t)
    <2>1. PICK new : new = [x EXCEPT !.at = "recording", !.seen = storage.asks]
      OBVIOUS
    <2>2. /\ UNCHANGED <<setting, left, now, server, storage, worker, task, reports, tab, opened, excused>>
          /\ asking' = [asking EXCEPT ![t] = new] /\ x.at = "ok"
      BY <1>1, <1>6, <2>1 DEF ReadAsks, Asking
    <2>3. /\ DOMAIN new = DOMAIN x /\ new.at = "recording" /\ new.page = x.page /\ new.cfg = x.cfg /\ new.waits = x.waits
          /\ new.seen = storage.asks
      BY <1>2, <2>1 DEF MessageOK
    <2>4. MessageOK(new)
      BY <1>2, <2>2, <2>3 DEF MessageOK, StorageOK
    <2>5. AskingOK'
      BY <1>2, <2>2, <2>4, MessageMoves
    <2>6. QED
      BY <2>2, <2>5, Kept DEF TypeInv
  <1>7. CASE recordAsk(t)
    <2>1. PICK y, asks : y = tab[t] /\ asks = [x.seen EXCEPT ![x.page] = now]
      OBVIOUS
    <2>2. PICK new : new = [y EXCEPT !.mode = "asked", !.askedAt = now]
      OBVIOUS
    <2>3. /\ UNCHANGED <<setting, left, now, server, worker, task, reports, opened, excused>>
          /\ asking' = [asking EXCEPT ![t] = NoMessage] /\ x.at = "recording"
          /\ storage' = [storage EXCEPT !.asks = asks] /\ tab' = [tab EXCEPT ![t] = new]
      BY <1>1, <1>7, <2>1, <2>2 DEF recordAsk, Asking
    <2>4. AskingOK'
      BY <1>2, <2>3, NoMessageTyped, MessageMoves
    <2>5. asks \in [Pages -> Nat] /\ now \in Nat
      BY <1>2, <2>1, <2>3 DEF MessageOK, CountsOK
    <2>6. StorageOK'
      BY <1>2, <2>3, <2>5, SameSetting DEF StorageOK, MaybeClock
    <2>7. TabOK(y)
      BY <1>2, <2>1 DEF TabsOK, TabsIn
    <2>8. /\ DOMAIN new = DOMAIN y /\ new.next = y.next /\ new.shown = y.shown /\ new.at = y.at
          /\ new.slipped = y.slipped /\ new.mode = "asked" /\ new.askedAt = now /\ new.local = y.local
      BY <2>2, <2>7 DEF TabOK
    <2>9. TabOK(new)
      BY <2>5, <2>7, <2>8 DEF TabOK
    <2>10. TabsOK'
      BY <1>2, <2>3, <2>9, TabMoves
    <2>11. QED
      BY <2>3, <2>4, <2>6, <2>10, Kept DEF TypeInv
  <1>8. QED
    BY <1>3, <1>4, <1>5, <1>6, <1>7

\* The page reads what became of its ask.
LEMMA PageTypes ==
    ASSUME TypeInv, NEW t \in Tab, ReadSnapshot(t) \/ refreshFromSnapshot(t) \/ OpenIt(t)
    PROVE  TypeInv'
  <1>1. PICK x : x = tab[t]
    OBVIOUS
  <1>2. TabsOK /\ TabOK(x)
    BY <1>1 DEF TypeInv, TabsOK, TabsIn
  <1>3. UNCHANGED <<setting, left, now, server, storage, worker, task, reports, asking, opened, excused>>
    BY DEF ReadSnapshot, refreshFromSnapshot, OpenIt
  <1>4. CASE ReadSnapshot(t)
    <2>1. PICK local : /\ \E asked : local = answerIn(storage.snap, x.shown, asked)
                       /\ tab' = [tab EXCEPT ![t].local = local]
      BY <1>1, <1>4 DEF ReadSnapshot
    <2>2. PICK new : new = [x EXCEPT !.local = local]
      OBVIOUS
    <2>3. tab' = [tab EXCEPT ![t] = new]
      BY <1>1, <2>1, <2>2
    <2>4. local \in {"none", "approved", "declined"}
      BY <2>1 DEF answerIn, Answer
    <2>5. /\ DOMAIN new = DOMAIN x /\ new.next = x.next /\ new.shown = x.shown /\ new.at = x.at
          /\ new.slipped = x.slipped /\ new.mode = x.mode /\ new.askedAt = x.askedAt /\ new.local = local
      BY <1>2, <2>2 DEF TabOK
    <2>6. TabOK(new)
      BY <1>2, <2>4, <2>5 DEF TabOK
    <2>7. TabsOK'
      BY <1>2, <1>3, <2>3, <2>6, TabMoves
    <2>8. QED
      BY <1>3, <2>7, Kept DEF TypeInv
  <1>5. CASE refreshFromSnapshot(t)
    <2>1. PICK remote, mode :
             /\ remote \in serverAnswer(x.shown)
             /\ mode = IF x.local = "approved" THEN "approved" ELSE IF remote # "none" THEN remote
                       ELSE IF x.local = "declined" /\ x.askedAt > 0 THEN "declined" ELSE x.mode
             /\ tab' = [tab EXCEPT ![t].local = "unread", ![t].mode = mode]
      BY <1>1, <1>5 DEF refreshFromSnapshot
    <2>2. PICK new : new = [x EXCEPT !.local = "unread", !.mode = mode]
      OBVIOUS
    <2>3. tab' = [tab EXCEPT ![t] = new]
      BY <1>1, <2>1, <2>2
    <2>4. remote \in {"none", "approved", "declined"}
      BY <2>1 DEF serverAnswer
    <2>5. mode \in {"none", "idle", "asking", "asked", "approved", "declined"}
      BY <1>2, <2>1, <2>4 DEF TabOK
    <2>6. /\ DOMAIN new = DOMAIN x /\ new.next = x.next /\ new.shown = x.shown /\ new.at = x.at
          /\ new.slipped = x.slipped /\ new.mode = mode /\ new.askedAt = x.askedAt /\ new.local = "unread"
      BY <1>2, <2>2 DEF TabOK
    <2>7. TabOK(new)
      BY <1>2, <2>5, <2>6 DEF TabOK
    <2>8. TabsOK'
      BY <1>2, <1>3, <2>3, <2>7, TabMoves
    <2>9. QED
      BY <1>3, <2>8, Kept DEF TypeInv
  <1>6. CASE OpenIt(t)
    <2>1. PICK new : new = [x EXCEPT !.next = Going(x.shown)]
      OBVIOUS
    <2>2. tab' = [tab EXCEPT ![t] = new] /\ x.at = "parked"
      BY <1>1, <1>6, <2>1 DEF OpenIt
    <2>3. TabOK(new)
      BY <1>2, <2>1, <2>2, GoesOn, SentOn DEF TabOK
    <2>4. TabsOK'
      BY <1>2, <1>3, <2>2, <2>3, TabMoves
    <2>5. QED
      BY <1>3, <2>4, Kept DEF TypeInv
  <1>7. QED
    BY <1>4, <1>5, <1>6

-----------------------------------------------------------------------------
(* Every state is typed. *)

LEMMA InitTypes ==
    ASSUME Init
    PROVE  TypeInv
  <1>1. SettingOK
    BY DEF Init, SettingOK
  <1>2. /\ 1 \in Link /\ setting.linked \in BOOLEAN /\ left = setting.left /\ now = 1
        /\ setting.left \in [Things -> Nat]
    BY <1>1, LinkFacts DEF Init
  <1>3. CountsOK
    BY <1>2 DEF CountsOK
  <1>4. ServerOK
    <2>1. PICK ones, sent, links, asks :
            /\ ones = [d \in Link |-> 1] /\ sent = [d \in Link |-> IF setting.linked /\ d = 1 THEN 1 ELSE 0]
            /\ links = (IF setting.linked THEN 1 ELSE 0) /\ asks = [d \in Link |-> [p \in Pages |-> NoAsk]]
      OBVIOUS
    <2>2. server = [edition |-> ones, version |-> ones, sent |-> sent, links |-> links, consumed |-> {},
                    removed |-> {}, host |-> {}, unsent |-> {}, asks |-> asks]
      BY <2>1 DEF Init
    <2>3. ones \in [Link -> Nat] /\ sent \in [Link -> Nat] /\ links \in Nat
      BY <2>1
    <2>4. NoAsk \in [pending : BOOLEAN, answer : {"none", "opened", "closed"}]
      BY DEF NoAsk
    <2>5. asks \in [Link -> [Pages -> [pending : BOOLEAN, answer : {"none", "opened", "closed"}]]]
      BY <2>1, <2>4
    <2>6. server \in [edition : [Link -> Nat], version : [Link -> Nat], sent : [Link -> Nat], links : Nat,
                   consumed : SUBSET GrantIds, removed : SUBSET Link, host : SUBSET Pages, unsent : SUBSET Pages,
                   asks : [Link -> [Pages -> [pending : BOOLEAN, answer : {"none", "opened", "closed"}]]]]
      BY <2>2, <2>3, <2>5
    <2>7. ASSUME NEW d \in Link PROVE 1 \in DOMAIN setting.policies[d]
      <3>1. setting.policies[d] \in Seq(Contents(setting)) /\ setting.policies[d] # <<>>
        BY <1>1, LinkFacts
      <3>2. QED
        BY <3>1, EmptySeq
    <2>8. \A d \in Link : server.edition[d] \in DOMAIN setting.policies[d]
      BY <2>1, <2>2, <2>7
    <2>9. QED
      BY <2>6, <2>8 DEF ServerOK
  <1>5. StorageOK
    <2>1. PICK config, snap, anchor, asks, pin :
            /\ config = (IF setting.linked THEN Linked1 ELSE Unlinked)
            /\ snap = (IF setting.linked THEN Snapshot(1) ELSE None)
            /\ anchor = (IF setting.linked THEN [server |-> now, perf |-> 0] ELSE None)
            /\ asks = [p \in Pages |-> 0] /\ pin = (IF setting.linked THEN setting.servers[1] ELSE None)
      OBVIOUS
    <2>2. storage = [config |-> config, snap |-> snap, anchor |-> anchor, filters |-> None, asks |-> asks, pin |-> pin,
                     word |-> setting.linked]
      BY <2>1 DEF Init
    <2>3. Linked1 \in Config
      BY <1>2 DEF Linked1, Config, MaybeLink
    <2>4. Unlinked \in Config
      BY IdleTyped DEF Jobs
    <2>5. config \in Config
      BY <2>1, <2>3, <2>4
    <2>6. snap \in MaybeSnap
      BY <1>1, <1>2, <1>4, <2>1, SnapshotTyped DEF MaybeSnap
    <2>7. anchor \in MaybeClock
      BY <1>2, <2>1 DEF MaybeClock, Clock
    <2>8. asks \in [Pages -> Nat]
      BY <2>1
    <2>9. pin \in Keys
      BY <1>1, <1>2, <2>1, LinkFacts DEF Keys
    <2>10. QED
      BY <1>2, <2>2, <2>5, <2>6, <2>7, <2>8, <2>9 DEF StorageOK, MaybeFilters
  <1>6. WorkerOK
    BY DEF Init, WorkerOK, Asleep, MaybeSnap, MaybeClock, MaybeFilters
  <1>7. TasksOK
    BY IdleTyped DEF Init, TasksOK, Is, Jobs
  <1>8. TabsOK
    <2>1. PICK x : x = NoTab
      OBVIOUS
    <2>2. /\ DOMAIN x = {"shown", "at", "next", "slipped", "mode", "askedAt", "local"} /\ x.at = "none" /\ x.next = None
          /\ x.slipped \in BOOLEAN /\ x.mode = "none" /\ x.askedAt = 0 /\ x.local = "unread"
      BY <2>1 DEF NoTab
    <2>3. TabOK(x)
      BY <2>2 DEF TabOK, NextOK
    <2>4. tab = [t \in Tab |-> x]
      BY <2>1 DEF Init
    <2>5. QED
      BY <2>3, <2>4 DEF TabsOK, TabsIn
  <1>9. AskingOK
    BY NoMessageTyped DEF Init, AskingOK
  <1>10. ReportsOK /\ OpenedOK
    BY DEF Init, ReportsOK, OpenedOK
  <1>11. QED
    BY <1>1, <1>3, <1>4, <1>5, <1>6, <1>7, <1>8, <1>9, <1>10 DEF TypeInv

LEMMA PolicyTypes ==
    ASSUME TypeInv, PolicyStep
    PROVE  TypeInv'
  BY StartPollTypes, RenewTypes, RereadTypes, ReadConfigTypes, WriteConfigTypes, PolledTypes, VerifyTypes, ApplyTypes
     DEF PolicyStep, ConfigStep, Jobs

LEMMA FilterTypes ==
    ASSUME TypeInv, StartFilters \/ FilterStep
    PROVE  TypeInv'
  BY StartFiltersTypes, FiltersPolledTypes, ApplyFiltersTypes, ReadConfigTypes, WriteConfigTypes
     DEF FilterStep, ConfigStep, Jobs

LEMMA OptionsTypes ==
    ASSUME TypeInv, OptionsStep \/ CloseOptions \/ \E given \in BOOLEAN : enroll(given) \/ Disconnect(given)
    PROVE  TypeInv'
  BY EnrollTypes, PinTypes, WordTypes, DisconnectTypes, ClearTypes, CloseTypes, ReadConfigTypes, WriteConfigTypes
     DEF OptionsStep, ConfigStep, Jobs

LEMMA LifeTypes ==
    ASSUME TypeInv, Start \/ Kill \/ WorkerStep \/ HostStep \/ HostGone
    PROVE  TypeInv'
  BY StartTypes, KillTypes, SourceTypes, ReadCacheTypes, RestoreTypes, RestoredTypes, QueryTypes, RecheckTypes,
     NativeTypes DEF WorkerStep, HostStep

LEMMA TabTypes ==
    ASSUME TypeInv, NEW t \in Tab,
           \/ TabStep(t) \/ MessageStep(t) \/ ReadSnapshot(t) \/ refreshFromSnapshot(t) \/ Ask(t) \/ TimesOut(t) \/ OpenIt(t)
           \/ \E p \in Pages : Navigate(t, p) \/ onHistoryStateUpdated(t, p)
    PROVE  TypeInv'
  <1>1. CASE TabStep(t) \/ \E p \in Pages : Navigate(t, p) \/ onHistoryStateUpdated(t, p)
    BY <1>1, NavigateTypes, LoadTypes, CommitTypes, RouteTypes DEF TabStep
  <1>2. CASE MessageStep(t) \/ Ask(t) \/ TimesOut(t)
    BY <1>2, AskTypes, RequestTypes, PostTypes, MessageTypes DEF MessageStep
  <1>3. CASE ReadSnapshot(t) \/ refreshFromSnapshot(t) \/ OpenIt(t)
    BY <1>3, PageTypes
  <1>4. QED
    BY <1>1, <1>2, <1>3

LEMMA StepTypes ==
    ASSUME TypeInv, [Next]_vars
    PROVE  TypeInv'
  <1>1. CASE UNCHANGED vars
    BY <1>1, Kept DEF TypeInv, vars
  <1>2. CASE PolicyStep
    BY <1>2, PolicyTypes
  <1>3. CASE StartFilters \/ FilterStep
    BY <1>3, FilterTypes
  <1>4. CASE OptionsStep \/ CloseOptions \/ \E given \in BOOLEAN : enroll(given) \/ Disconnect(given)
    BY <1>4, OptionsTypes
  <1>5. CASE Start \/ Kill \/ WorkerStep \/ HostStep \/ HostGone
    BY <1>5, LifeTypes
  <1>6. CASE \E t \in Tab : \/ TabStep(t) \/ MessageStep(t) \/ ReadSnapshot(t) \/ refreshFromSnapshot(t)
                            \/ Ask(t) \/ TimesOut(t) \/ OpenIt(t)
                            \/ \E p \in Pages : Navigate(t, p) \/ onHistoryStateUpdated(t, p)
    BY <1>6, TabTypes
  <1>7. CASE \E r \in reports : consumeGrant(r)
    BY <1>7, ConsumeTypes
  <1>8. CASE \E d \in Link : Edit(d) \/ Remove(d)
    BY <1>8, EditTypes, RemoveTypes
  <1>9. CASE Tick \/ TokenDue
    BY <1>9, TimeTypes
  <1>10. QED
    BY <1>1, <1>2, <1>3, <1>4, <1>5, <1>6, <1>7, <1>8, <1>9 DEF Next

\* Whatever the parent, the child, the browser and the network do, every part of
\* the extension's state is what its code takes it for: a cache that is being
\* restored, a patch on its way to the config, the clock, a tab's place.
THEOREM WindowsTypes == Spec => []TypeInv
  <1>1. Init => TypeInv
    BY InitTypes
  <1>2. TypeInv /\ [Next]_vars => TypeInv'
    BY StepTypes
  <1>3. QED
    BY <1>1, <1>2, PTL DEF Spec

-----------------------------------------------------------------------------
(* What the block page remembers as asked was filed. *)

\* What a message says was filed is.
MessageFiled(x) == /\ x.at \in {"filed", "ok", "recording"} => Filed(x.page)
                   /\ x.at = "recording" => \A p \in Pages : x.seen[p] > 0 => Filed(p)

LEMMA FiledStays ==
    ASSUME AsksStay, UNCHANGED setting
    PROVE  /\ \A p \in Pages : Filed(p) => Filed(p)'
           /\ \A x : MessageOK(x) /\ MessageFiled(x) => MessageFiled(x)'
  <1>1. \A p \in Pages : Filed(p) => Filed(p)'
    BY SameSetting DEF Filed, AsksStay, NoAsk
  <1>2. ASSUME NEW x, MessageOK(x), MessageFiled(x) PROVE MessageFiled(x)'
    <2>1. x.at \in {"filed", "ok", "recording"} => x.page \in Pages
      BY <1>2 DEF MessageOK
    <2>2. QED
      BY <1>1, <1>2, <2>1, SameSetting DEF MessageFiled
  <1>3. QED
    BY <1>1, <1>2

LEMMA AsksCarry ==
    ASSUME TypeInv, AsksInv, AsksStay, UNCHANGED <<setting, asking>>, storage'.asks = storage.asks
    PROVE  AsksInv'
  <1>1. /\ \A p \in Pages : storage.asks[p] > 0 => Filed(p)
        /\ \A t \in Tab : MessageFiled(asking[t])
    BY DEF AsksInv, MessageFiled
  <1>2. \A p \in Pages : storage'.asks[p] > 0 => Filed(p)'
    BY <1>1, FiledStays
  <1>3. \A t \in Tab : MessageOK(asking[t])
    BY DEF TypeInv, AskingOK
  <1>4. \A t \in Tab : MessageFiled(asking[t])'
    BY <1>1, <1>3, FiledStays
  <1>5. QED
    BY <1>2, <1>4, SameSetting DEF AsksInv, MessageFiled

\* One message changes.
LEMMA AsksMove ==
    ASSUME TypeInv, AsksInv, AsksStay, UNCHANGED setting, UNCHANGED storage,
           NEW t \in Tab, NEW x, asking' = [asking EXCEPT ![t] = x],
           MessageFiled(x)'
    PROVE  AsksInv'
  <1>1. /\ \A p \in Pages : storage.asks[p] > 0 => Filed(p)
        /\ \A u \in Tab : MessageFiled(asking[u])
    BY DEF AsksInv, MessageFiled
  <1>2. \A p \in Pages : storage'.asks[p] > 0 => Filed(p)'
    BY <1>1, FiledStays
  <1>3. AskingOK
    BY DEF TypeInv
  <1>4. asking'[t] = x /\ \A u \in Tab \ {t} : asking'[u] = asking[u]
    BY <1>3 DEF AskingOK
  <1>5. ASSUME NEW u \in Tab PROVE MessageFiled(asking[u])'
    <2>1. CASE u = t
      BY <1>4, <2>1 DEF MessageFiled
    <2>2. CASE u # t
      <3>1. PICK y : y = asking[u]
        OBVIOUS
      <3>2. MessageFiled(y) /\ MessageOK(y)
        BY <1>1, <1>3, <3>1 DEF AskingOK
      <3>3. MessageFiled(y)'
        BY <3>2, FiledStays
      <3>4. y = asking'[u]
        BY <1>4, <2>2, <3>1
      <3>5. QED
        BY <3>3, <3>4 DEF MessageFiled
    <2>3. QED
      BY <2>1, <2>2
  <1>6. QED
    BY <1>2, <1>5, SameSetting DEF AsksInv, MessageFiled

LEMMA PolicyAsks ==
    ASSUME TypeInv, AsksInv, PolicyStep
    PROVE  AsksInv'
  <1>1. UNCHANGED <<setting, asking>>
    BY DEF PolicyStep, ConfigStep, StartPoll, refreshDeviceTokenIfDue, Reread, ReadConfig, WriteConfig, Polled, Verify,
           applySnapshot
  <1>2. StorageOK
    BY DEF TypeInv
  <1>3. storage'.asks = storage.asks
    BY <1>2 DEF StorageOK, PolicyStep, ConfigStep, StartPoll, refreshDeviceTokenIfDue, Reread, ReadConfig, WriteConfig,
           Polled, Verify, applySnapshot
  <1>5. AsksStay
    <2>1. CASE Polled
      BY <2>1, PolledTypes
    <2>2. CASE ~Polled
      <3>1. server' = server
        BY <2>2 DEF PolicyStep, ConfigStep, StartPoll, refreshDeviceTokenIfDue, Reread, ReadConfig, WriteConfig, Verify,
                    applySnapshot
      <3>2. QED
        BY <3>1 DEF AsksStay
    <2>3. QED
      BY <2>1, <2>2
  <1>6. QED
    BY <1>1, <1>3, <1>5, AsksCarry

LEMMA FilterAsks ==
    ASSUME TypeInv, AsksInv, StartFilters \/ FilterStep
    PROVE  AsksInv'
  <1>1. UNCHANGED <<setting, asking, server>>
    BY DEF StartFilters, FilterStep, ConfigStep, ReadConfig, WriteConfig, FiltersPolled, applyCategoryFilters
  <1>2. StorageOK
    BY DEF TypeInv
  <1>3. storage'.asks = storage.asks
    BY <1>2 DEF StorageOK, StartFilters, FilterStep, ConfigStep, ReadConfig, WriteConfig, FiltersPolled,
                applyCategoryFilters
  <1>4. QED
    BY <1>1, <1>3, AsksCarry DEF AsksStay

\* What is forgotten with the link was filed with it.
LEMMA ClearAsks ==
    ASSUME TypeInv, AsksInv, clearLocalPolicy
    PROVE  AsksInv'
  <1>1. UNCHANGED <<setting, asking, server, excused>> /\ StorageOK
    BY DEF clearLocalPolicy, TypeInv
  <1>2. storage'.asks = [p \in Pages |-> 0]
    BY <1>1 DEF clearLocalPolicy, StorageOK
  <1>3. \A p \in Pages : ~(storage'.asks[p] > 0)
    BY <1>2
  <1>4. QED
    BY <1>1, <1>3, SameSetting DEF AsksInv, Filed, NoAsk

LEMMA OptionsAsks ==
    ASSUME TypeInv, AsksInv,
           OptionsStep \/ CloseOptions \/ \E given \in BOOLEAN : enroll(given) \/ Disconnect(given)
    PROVE  AsksInv'
  <1>1. CASE clearLocalPolicy
    BY <1>1, ClearAsks
  <1>2. CASE ~clearLocalPolicy
    <2>1. UNCHANGED <<setting, asking>>
      BY DEF OptionsStep, ConfigStep, CloseOptions, enroll, Disconnect, ReadConfig, WriteConfig, pinTrustAnchor,
             setParentWord, clearLocalPolicy
    <2>2. StorageOK
      BY DEF TypeInv
    <2>3. storage'.asks = storage.asks
      BY <1>2, <2>2 DEF StorageOK, OptionsStep, ConfigStep, CloseOptions, enroll, Disconnect, ReadConfig, WriteConfig,
             pinTrustAnchor, setParentWord
    <2>5. AsksStay
      <3>1. CASE \E given \in BOOLEAN : enroll(given)
        BY <3>1, EnrollTypes
      <3>2. CASE ~\E given \in BOOLEAN : enroll(given)
        <4>1. server' = server
          BY <1>2, <3>2 DEF OptionsStep, ConfigStep, CloseOptions, Disconnect, ReadConfig, WriteConfig, pinTrustAnchor,
             setParentWord
        <4>2. QED
          BY <4>1 DEF AsksStay
      <3>3. QED
        BY <3>1, <3>2
    <2>6. QED
      BY <2>1, <2>3, <2>5, AsksCarry
  <1>3. QED
    BY <1>1, <1>2

LEMMA KillAsks ==
    ASSUME TypeInv, AsksInv, Kill
    PROVE  AsksInv'
  <1>1. UNCHANGED <<setting, server, storage>> /\ AskingOK
    BY DEF Kill, TypeInv
  <1>2. \A t \in Tab : \/ asking'[t].at = "failed" \/ asking'[t] = asking[t]
    <2>1. ASSUME NEW t \in Tab PROVE asking'[t].at = "failed" \/ asking'[t] = asking[t]
      <3>1. asking'[t] = IF asking[t].at \in {"posting", "filed"} THEN [asking[t] EXCEPT !.at = "failed"] ELSE asking[t]
        BY DEF Kill
      <3>2. "at" \in DOMAIN asking[t]
        BY <1>1 DEF AskingOK, MessageOK
      <3>3. QED
        BY <3>1, <3>2
    <2>2. QED
      BY <2>1
  <1>3. QED
    BY <1>1, <1>2, SameSetting DEF AsksInv, Filed, NoAsk

LEMMA LifeAsks ==
    ASSUME TypeInv, AsksInv, Start \/ WorkerStep \/ HostStep \/ HostGone
    PROVE  AsksInv'
  <1>1. UNCHANGED <<setting, asking, server>>
    BY DEF Start, WorkerStep, HostStep, HostGone, ChooseSource, ReadCache, RestoreSnapshot, restoreCachedPolicy,
           QueryTabs, reevaluateOpenTabs, connectNativeHost, HostSnapshot, HostFilters
  <1>2. StorageOK
    BY DEF TypeInv
  <1>3. storage'.asks = storage.asks
    <2>1. CASE RestoreSnapshot
      BY <1>2, <2>1 DEF StorageOK, RestoreSnapshot
    <2>2. CASE restoreCachedPolicy
      BY <1>2, <2>2 DEF StorageOK, restoreCachedPolicy
    <2>3. CASE HostSnapshot \/ HostFilters
      BY <1>2, <2>3 DEF StorageOK, HostSnapshot, HostFilters
    <2>4. QED
      BY <2>1, <2>2, <2>3 DEF Start, WorkerStep, HostStep, HostGone, ChooseSource, ReadCache, QueryTabs, reevaluateOpenTabs,
                              connectNativeHost
  <1>4. QED
    BY <1>1, <1>3, AsksCarry DEF AsksStay

LEMMA RequestAsks ==
    ASSUME TypeInv, AsksInv, NEW t \in Tab, requestAccess(t)
    PROVE  AsksInv'
  <1>1. PICK x, page : x = asking[t] /\ page = x.page
    OBVIOUS
  <1>2. AsksStay /\ UNCHANGED <<setting, storage>> /\ x.at = "sent" /\ MessageOK(x) /\ page \in Pages
    BY <1>1, RequestTypes DEF requestAccess, Asking, TypeInv, AskingOK, MessageOK
  <1>3. CASE worker.mode = "backend"
    <2>1. PICK at : at = IF Linked(storage.config) THEN "posting" ELSE "failed"
      OBVIOUS
    <2>2. PICK new : new = [x EXCEPT !.at = at, !.cfg = storage.config]
      OBVIOUS
    <2>3. asking' = [asking EXCEPT ![t] = new]
      BY <1>1, <1>3, <2>1, <2>2 DEF requestAccess
    <2>4. new.at = at /\ at \notin {"filed", "ok", "recording"}
      BY <1>2, <2>1, <2>2 DEF MessageOK
    <2>5. MessageFiled(new)'
      BY <2>4 DEF MessageFiled
    <2>6. QED
      BY <1>2, <2>3, <2>5, AsksMove
  <1>4. CASE worker.mode # "backend"
    <2>1. PICK new : new = [x EXCEPT !.at = "ok"]
      OBVIOUS
    <2>2. /\ asking' = [asking EXCEPT ![t] = new]
          /\ \/ server' = [server EXCEPT !.host = server.host \cup {page}]
             \/ server' = [server EXCEPT !.unsent = server.unsent \cup {page}]
      BY <1>1, <1>4, <2>1 DEF requestAccess, Said
    <2>3. new.at = "ok" /\ new.page = page
      BY <1>1, <1>2, <2>1 DEF MessageOK
    <2>4. page \in server'.host \cup server'.unsent
      BY <2>2 DEF TypeInv, ServerOK
    <2>5. MessageFiled(new)'
      BY <2>3, <2>4 DEF MessageFiled, Filed
    <2>6. QED
      BY <1>2, <2>2, <2>5, AsksMove
  <1>5. QED
    BY <1>3, <1>4

LEMMA PostAsks ==
    ASSUME TypeInv, AsksInv, NEW t \in Tab, postAccessRequest(t)
    PROVE  AsksInv'
  <1>1. PICK x, page, cfg, d : x = asking[t] /\ page = x.page /\ cfg = x.cfg /\ d = cfg.device
    OBVIOUS
  <1>2. /\ AsksStay /\ UNCHANGED <<setting, storage, excused>> /\ x.at = "posting" /\ MessageOK(x)
        /\ page \in Pages /\ cfg \in Config
    BY <1>1, PostTypes DEF postAccessRequest, Asking, TypeInv, AskingOK, MessageOK
  <1>3. CASE Said(t, "failed")
    <2>1. PICK new : new = [x EXCEPT !.at = "failed"]
      OBVIOUS
    <2>2. asking' = [asking EXCEPT ![t] = new]
      BY <1>1, <1>3, <2>1 DEF Said
    <2>3. new.at = "failed"
      BY <1>2, <2>1 DEF MessageOK
    <2>4. MessageFiled(new)'
      BY <2>3 DEF MessageFiled
    <2>5. QED
      BY <1>2, <2>2, <2>4, AsksMove
  <1>4. CASE ~Said(t, "failed")
    <2>1. Authorized(cfg) /\ Said(t, "filed") /\ server' = [server EXCEPT !.asks[d][page].pending = TRUE]
      BY <1>1, <1>4 DEF postAccessRequest
    <2>2. PICK new : new = [x EXCEPT !.at = "filed"]
      OBVIOUS
    <2>3. asking' = [asking EXCEPT ![t] = new]
      BY <1>1, <2>1, <2>2 DEF Said
    <2>4. new.at = "filed" /\ new.page = page
      BY <1>1, <1>2, <2>2 DEF MessageOK
    <2>5. d \in Link
      BY <1>1, <1>2, <2>1, AuthorizedLink
    <2>6. ServerOK
      BY DEF TypeInv
    <2>7. server'.asks[d][page] # NoAsk
      <3>1. PICK ask : ask = [server.asks[d][page] EXCEPT !.pending = TRUE]
        OBVIOUS
      <3>2. ask.pending = TRUE
        BY <1>2, <2>5, <2>6, <3>1 DEF ServerOK
      <3>3. server'.asks[d][page] = ask
        BY <1>2, <2>1, <2>5, <2>6, <3>1 DEF ServerOK
      <3>4. QED
        BY <3>2, <3>3 DEF NoAsk
    <2>8. Filed(page)'
      BY <1>2, <2>5, <2>7, SameSetting DEF Filed, NoAsk
    <2>9. MessageFiled(new)'
      BY <2>4, <2>8 DEF MessageFiled
    <2>10. QED
      BY <1>2, <2>3, <2>9, AsksMove
  <1>5. QED
    BY <1>3, <1>4

LEMMA MessageAsks ==
    ASSUME TypeInv, AsksInv, NEW t \in Tab,
           Ask(t) \/ Commit(t) \/ Told(t) \/ NotSent(t) \/ TimesOut(t) \/ ReadAsks(t)
    PROVE  AsksInv'
  <1>1. PICK x : x = asking[t]
    OBVIOUS
  <1>2. /\ MessageOK(x) /\ (MessageFiled(x))
        /\ \A p \in Pages : storage.asks[p] > 0 => Filed(p)
    BY <1>1 DEF TypeInv, AskingOK, AsksInv, MessageFiled
  <1>3. UNCHANGED <<setting, storage, excused, server>>
    BY DEF Ask, Commit, Told, NotSent, TimesOut, ReadAsks
  <1>4. AsksStay
    BY <1>3 DEF AsksStay
  <1>5. CASE Ask(t)
    <2>1. PICK new : new = [NoMessage EXCEPT !.at = "sent", !.page = tab[t].shown, !.waits = TRUE]
      OBVIOUS
    <2>2. asking' = [asking EXCEPT ![t] = new]
      BY <1>5, <2>1 DEF Ask
    <2>3. new.at = "sent"
      BY <2>1 DEF NoMessage
    <2>4. MessageFiled(new)'
      BY <2>3 DEF MessageFiled
    <2>5. QED
      BY <1>3, <1>4, <2>2, <2>4, AsksMove
  <1>6. CASE Commit(t) \/ TimesOut(t)
    <2>1. PICK new : new = [x EXCEPT !.waits = FALSE]
      OBVIOUS
    <2>2. asking' = [asking EXCEPT ![t] = new]
      BY <1>1, <1>6, <2>1 DEF Commit, TimesOut
    <2>3. new.at = x.at /\ new.page = x.page /\ new.seen = x.seen
      BY <1>2, <2>1 DEF MessageOK
    <2>4. MessageFiled(x)'
      BY <1>2, <1>3, <1>4, FiledStays
    <2>5. MessageFiled(new)'
      BY <2>3, <2>4 DEF MessageFiled
    <2>6. QED
      BY <1>3, <1>4, <2>2, <2>5, AsksMove
  <1>7. CASE Told(t)
    <2>1. PICK new : new = [x EXCEPT !.at = "ok"]
      OBVIOUS
    <2>2. asking' = [asking EXCEPT ![t] = new] /\ x.at = "filed"
      BY <1>1, <1>7, <2>1 DEF Told, Tell, Asking, Said
    <2>3. new.at = "ok" /\ new.page = x.page
      BY <1>2, <2>1 DEF MessageOK
    <2>4. MessageFiled(x)'
      BY <1>2, <1>3, <1>4, FiledStays
    <2>5. MessageFiled(new)'
      BY <2>2, <2>3, <2>4 DEF MessageFiled
    <2>6. QED
      BY <1>3, <1>4, <2>2, <2>5, AsksMove
  <1>8. CASE NotSent(t)
    <2>1. PICK new : new = NoMessage
      OBVIOUS
    <2>2. asking' = [asking EXCEPT ![t] = new]
      BY <1>8, <2>1 DEF NotSent
    <2>3. new.at = "none"
      BY <2>1 DEF NoMessage
    <2>4. MessageFiled(new)'
      BY <2>3 DEF MessageFiled
    <2>5. QED
      BY <1>3, <1>4, <2>2, <2>4, AsksMove
  <1>9. CASE ReadAsks(t)
    <2>1. PICK new : new = [x EXCEPT !.at = "recording", !.seen = storage.asks]
      OBVIOUS
    <2>2. asking' = [asking EXCEPT ![t] = new] /\ x.at = "ok"
      BY <1>1, <1>9, <2>1 DEF ReadAsks, Asking
    <2>3. new.at = "recording" /\ new.page = x.page /\ new.seen = storage.asks
      BY <1>2, <2>1 DEF MessageOK
    <2>4. Filed(x.page) /\ x.page \in Pages
      BY <1>2, <2>2 DEF MessageFiled, MessageOK
    <2>5. Filed(x.page)' /\ \A p \in Pages : storage.asks[p] > 0 => Filed(p)'
      BY <1>2, <1>3, <1>4, <2>4, FiledStays
    <2>6. MessageFiled(new)'
      BY <1>3, <2>3, <2>5, SameSetting DEF MessageFiled
    <2>7. QED
      BY <1>3, <1>4, <2>2, <2>6, AsksMove
  <1>10. QED
    BY <1>5, <1>6, <1>7, <1>8, <1>9

LEMMA RecordAsks ==
    ASSUME TypeInv, AsksInv, NEW t \in Tab, recordAsk(t)
    PROVE  AsksInv'
  <1>1. PICK x : x = asking[t]
    OBVIOUS
  <1>2. PICK asks : asks = [x.seen EXCEPT ![x.page] = now]
    OBVIOUS
  <1>3. /\ UNCHANGED <<setting, server, excused>> /\ x.at = "recording"
        /\ storage' = [storage EXCEPT !.asks = asks] /\ asking' = [asking EXCEPT ![t] = NoMessage]
    BY <1>1, <1>2 DEF recordAsk, Asking
  <1>4. MessageOK(x) /\ StorageOK /\ AskingOK
    BY <1>1 DEF TypeInv, AskingOK
  <1>5. MessageFiled(x) /\ \A u \in Tab : MessageFiled(asking[u])
    BY <1>1 DEF AsksInv, MessageFiled
  <1>6. \A p \in Pages : asks[p] > 0 => Filed(p)
    BY <1>2, <1>3, <1>4, <1>5 DEF MessageFiled, MessageOK
  <1>7. storage'.asks = asks
    BY <1>3, <1>4 DEF StorageOK
  <1>8. \A u \in Tab : asking'[u] = asking[u] \/ asking'[u].at = "none"
    BY <1>3, <1>4, NoMessageTyped DEF AskingOK
  <1>9. \A p \in Pages : Filed(p)' = Filed(p)
    BY <1>3, SameSetting DEF Filed, NoAsk
  <1>10. AsksStay
    BY <1>3 DEF AsksStay
  <1>11. ASSUME NEW u \in Tab PROVE MessageFiled(asking[u])'
    <2>1. CASE asking'[u] = asking[u]
      <3>1. PICK y : y = asking[u]
        OBVIOUS
      <3>2. MessageFiled(y) /\ MessageOK(y)
        BY <1>4, <1>5, <3>1 DEF AskingOK
      <3>3. MessageFiled(y)'
        BY <1>3, <1>10, <3>2, FiledStays
      <3>4. y = asking'[u]
        BY <2>1, <3>1
      <3>5. QED
        BY <3>3, <3>4 DEF MessageFiled
    <2>2. CASE asking'[u].at = "none"
      BY <2>2 DEF MessageFiled
    <2>3. QED
      BY <1>8, <2>1, <2>2
  <1>12. \A p \in Pages : storage'.asks[p] > 0 => Filed(p)'
    BY <1>6, <1>7, <1>9
  <1>13. QED
    BY <1>3, <1>11, <1>12, SameSetting DEF AsksInv, MessageFiled

LEMMA TabAsks ==
    ASSUME TypeInv, AsksInv, NEW t \in Tab,
           \/ onBeforeRequestBlocking(t) \/ ReadSnapshot(t) \/ refreshFromSnapshot(t) \/ OpenIt(t)
           \/ \E p \in Pages : Navigate(t, p) \/ onHistoryStateUpdated(t, p)
    PROVE  AsksInv'
  <1>1. UNCHANGED <<setting, asking, server, storage, excused>>
    BY DEF onBeforeRequestBlocking, ReadSnapshot, refreshFromSnapshot, OpenIt, Navigate, onHistoryStateUpdated
  <1>2. QED
    BY <1>1, AsksCarry DEF AsksStay

LEMMA OutsideAsks ==
    ASSUME TypeInv, AsksInv,
           \/ \E r \in reports : consumeGrant(r)
           \/ \E d \in Link : Edit(d) \/ Remove(d)
           \/ Tick \/ TokenDue
    PROVE  AsksInv'
  <1>1. UNCHANGED <<setting, asking, excused>>
    BY DEF consumeGrant, Edit, Remove, Tick, TokenDue
  <1>2. storage'.asks = storage.asks
    BY DEF consumeGrant, Edit, Remove, Tick, TokenDue, TypeInv, StorageOK
  <1>3. AsksStay
    BY EditTypes, RemoveTypes, ConsumeTypes DEF AsksStay, Tick, TokenDue
  <1>4. QED
    BY <1>1, <1>2, <1>3, AsksCarry

LEMMA StepAsks ==
    ASSUME TypeInv, AsksInv, [Next]_vars
    PROVE  AsksInv'
  <1>1. CASE UNCHANGED vars
    BY <1>1, AsksCarry DEF vars, AsksStay
  <1>2. CASE PolicyStep
    BY <1>2, PolicyAsks
  <1>3. CASE StartFilters \/ FilterStep
    BY <1>3, FilterAsks
  <1>4. CASE OptionsStep \/ CloseOptions \/ \E given \in BOOLEAN : enroll(given) \/ Disconnect(given)
    BY <1>4, OptionsAsks
  <1>5. CASE Start \/ Kill \/ WorkerStep \/ HostStep \/ HostGone
    BY <1>5, KillAsks, LifeAsks
  <1>6. CASE \E t \in Tab : \/ Ask(t) \/ Commit(t) \/ TimesOut(t) \/ MessageStep(t)
    BY <1>6, RequestAsks, PostAsks, MessageAsks, RecordAsks DEF MessageStep
  <1>7. CASE \E t \in Tab : \/ onBeforeRequestBlocking(t) \/ ReadSnapshot(t) \/ refreshFromSnapshot(t) \/ OpenIt(t)
                            \/ \E p \in Pages : Navigate(t, p) \/ onHistoryStateUpdated(t, p)
    BY <1>7, TabAsks
  <1>8. CASE \/ \E r \in reports : consumeGrant(r)
             \/ \E d \in Link : Edit(d) \/ Remove(d)
             \/ Tick \/ TokenDue
    BY <1>8, OutsideAsks
  <1>9. QED
    BY <1>1, <1>2, <1>3, <1>4, <1>5, <1>6, <1>7, <1>8 DEF Next, TabStep

\* The block page says "asked", and remembers it, only of a page whose ask a
\* backend or the host has been given (blocked.js, "ACKNOWLEDGED"), or that a
\* worker with no source yet, or a native one with no host, said it had passed on
\* (server.unsent, where the code does not keep that promise); however messages,
\* lost answers, the end of the worker and the page's own patience fall: a message
\* on its way back is of an ask that was filed, and what a page has read of the
\* asks and writes back with its own was filed too.
THEOREM AskedMeansFiled == Spec => []AskedIsFiled
  <1>1. Init => TypeInv /\ AsksInv
    <2>1. ASSUME Init PROVE AsksInv
      <3>1. \A p \in Pages : ~(storage.asks[p] > 0)
        BY <2>1 DEF Init
      <3>2. \A t \in Tab : asking[t].at = "none"
        BY <2>1, NoMessageTyped DEF Init
      <3>3. QED
        BY <3>1, <3>2 DEF AsksInv
    <2>2. QED
      BY <2>1, InitTypes
  <1>2. TypeInv /\ AsksInv /\ [Next]_vars => TypeInv' /\ AsksInv'
    BY StepTypes, StepAsks
  <1>3. TypeInv /\ AsksInv => AskedIsFiled
    BY DEF AsksInv, AskedIsFiled, Filed
  <1>4. QED
    BY <1>1, <1>2, <1>3, PTL DEF Spec

-----------------------------------------------------------------------------
(* Single-use grants: what most steps leave as it is. *)

Guarded == excused \cap {"late", "mixed"} = {} /\ server.links <= 2

OnceOK == LinksOK /\ HistoryOK /\ CountOK

\* Time, consumed grants and policies go on, and there is no new link to ask for.
Onward == /\ UNCHANGED setting /\ now <= now' /\ server.consumed \subseteq server'.consumed
          /\ \A d \in Link : server.edition[d] <= server'.edition[d]
          /\ Polls' \subseteq Polls

LEMMA GrantTyped ==
    ASSUME SettingOK, NEW d \in Link, NEW i \in DOMAIN setting.policies[d], NEW t \in Grants(d, i)
    PROVE  t.until \in Int /\ t.from \in Int /\ i \in Nat
  <1>1. PICK p : p = setting.policies[d][i]
    OBVIOUS
  <1>2. setting.policies[d] \in Seq(Contents(setting))
    BY LinkFacts
  <1>3. p \in Contents(setting) /\ i \in Nat
    BY <1>1, <1>2
  <1>4. t \in p.temps
    BY <1>1 DEF Grants
  <1>5. p.temps \in SUBSET p.temps
    OBVIOUS
  <1>6. QED
    BY <1>3, <1>4, <1>5, GrantAssumption DEF SettingOK

LEMMA Lasts ==
    ASSUME TypeInv, TypeInv', Onward
    PROVE  \A id : (Born(id) => Born(id)') /\ (Dead(id) => Dead(id)')
  <1>1. SettingOK /\ ServerOK /\ now \in Nat /\ now' \in Nat /\ UNCHANGED setting /\ Link' = Link
    BY SameSetting DEF TypeInv, CountsOK, Onward
  <1>2. \A d \in Link : server.edition[d] \in Nat /\ server'.edition[d] \in Nat
    BY <1>1 DEF TypeInv, ServerOK
  <1>3. \A d, i : Grants(d, i)' = Grants(d, i)
    BY <1>1 DEF Grants
  <1>4. ASSUME NEW id, Born(id) PROVE Born(id)'
    <2>1. ASSUME NEW d \in Polls'
          PROVE  \E c \in Link : c <= d /\ \E i \in DOMAIN setting.policies[c] :
                     i <= server'.edition[c] /\ id \in Ids(Grants(c, i))
      <3>1. d \in Polls
        BY <2>1 DEF Onward
      <3>2. PICK c \in Link : c <= d /\ \E i \in DOMAIN setting.policies[c] :
                     i <= server.edition[c] /\ id \in Ids(Grants(c, i))
        BY <1>4, <3>1 DEF Born
      <3>3. PICK i \in DOMAIN setting.policies[c] : i <= server.edition[c] /\ id \in Ids(Grants(c, i))
        BY <3>2
      <3>4. i \in Nat
        BY <1>1, EditionIn
      <3>5. PICK m, n : m = server.edition[c] /\ n = server'.edition[c]
        OBVIOUS
      <3>6. m \in Nat /\ n \in Nat /\ i <= m /\ m <= n
        BY <1>2, <3>3, <3>5 DEF Onward
      <3>7. i <= n
        BY <3>4, <3>6
      <3>8. QED
        BY <3>2, <3>3, <3>5, <3>7
    <2>2. QED
      BY <1>1, <1>3, <2>1 DEF Born
  <1>5. ASSUME NEW id, Dead(id) PROVE Dead(id)'
    <2>1. ASSUME NEW d \in Polls', NEW i \in DOMAIN setting.policies[d], server'.edition[d] <= i,
                 NEW t \in Grants(d, i), t.id = id
          PROVE  now' >= t.until \/ id \in server'.consumed
      <3>1. d \in Polls /\ d \in Link
        BY <2>1 DEF Onward, Polls
      <3>2. t.until \in Int /\ i \in Nat
        BY <1>1, <2>1, <3>1, GrantTyped
      <3>3. PICK m, n : m = server.edition[d] /\ n = server'.edition[d]
        OBVIOUS
      <3>4. m \in Nat /\ n \in Nat /\ m <= n /\ n <= i
        BY <1>2, <2>1, <3>1, <3>3 DEF Onward
      <3>5. m <= i
        BY <3>2, <3>4
      <3>6. now >= t.until \/ id \in server.consumed
        BY <1>5, <2>1, <3>1, <3>3, <3>5 DEF Dead
      <3>7. now <= now' /\ server.consumed \subseteq server'.consumed
        BY DEF Onward
      <3>8. QED
        BY <1>1, <3>2, <3>6, <3>7
    <2>2. QED
      BY <1>1, <1>3, <2>1 DEF Dead
  <1>6. QED
    BY <1>4, <1>5

\* No link is new to the loop.
LEMMA LinksCarry ==
    ASSUME SettingOK, LinksOK, UNCHANGED setting, server'.links = server.links,
           storage'.config.device = storage.config.device \/ storage'.config.device \notin Link,
           Saves(task'["options"]) => Saves(task["options"]) /\ task'["options"].patch = task["options"].patch,
           task'["policy"].at # "idle" =>
               \/ task["policy"].at # "idle" /\ task'["policy"].cfg.device = task["policy"].cfg.device
               \/ task'["policy"].cfg.device = storage'.config.device
    PROVE  LinksOK' /\ Polls' \subseteq Polls
  <1>1. Link' = Link
    BY SameSetting
  <1>2. LinksOK'
    <2>1. storage'.config.device \in Link => storage'.config.device <= server'.links
      BY DEF LinksOK
    <2>2. Saves(task'["options"]) => task'["options"].patch.device = server'.links
      BY DEF LinksOK
    <2>3. ASSUME task'["policy"].at # "idle", task'["policy"].cfg.device \in Link
          PROVE  /\ task'["policy"].cfg.device <= server'.links
                 /\ storage'.config.device \in Link => task'["policy"].cfg.device <= storage'.config.device
      <3>1. CASE task'["policy"].cfg.device = storage'.config.device
        <4>1. storage'.config.device \in Nat
          BY <2>3, <3>1, LinkFacts
        <4>2. QED
          BY <2>1, <2>3, <3>1, <4>1
      <3>2. CASE task["policy"].at # "idle" /\ task'["policy"].cfg.device = task["policy"].cfg.device
        BY <2>3, <3>2 DEF LinksOK, Is
      <3>3. QED
        BY <2>3, <3>1, <3>2
    <2>4. QED
      BY <1>1, <2>1, <2>2, <2>3 DEF LinksOK, Is, Saves
  <1>3. Polls' \subseteq Polls
    BY <1>1 DEF Polls, Is, Saves
  <1>4. QED
    BY <1>2, <1>3

HoldKept == Holding' => Holding /\ Coming' = Coming

LEMMA HistoryCarry ==
    ASSUME TypeInv, TypeInv', Onward, HistoryOK, KnownIds' \subseteq KnownIds, HoldKept
    PROVE  HistoryOK'
  <1>1. \A id \in KnownIds' : Born(id)'
    BY Lasts DEF HistoryOK
  <1>2. ASSUME Holding', NEW id \in KnownIds', id \notin Ids(Coming'.temps) PROVE Dead(id)'
    <2>1. Holding /\ id \in KnownIds /\ id \notin Ids(Coming.temps)
      BY <1>2 DEF HoldKept
    <2>2. Dead(id)
      BY <2>1 DEF HistoryOK
    <2>3. QED
      BY <2>2, Lasts
  <1>3. QED
    BY <1>1, <1>2 DEF HistoryOK

\* What the worker has spent and shows stays.
LEMMA CountCarry ==
    ASSUME TypeInv, TypeInv', Onward, CountOK, UNCHANGED opened, HoldKept,
           worker'.spent = worker.spent,
           worker.mode = "backend" =>
               /\ worker'.mode = "backend" /\ worker'.snap = worker.snap
               /\ worker'.cache # None /\ worker'.cache.at \in {"read", "snap"} =>
                      worker.cache # None /\ worker.cache.at \in {"read", "snap"}
    PROVE  CountOK'
  <1>1. ASSUME NEW id, Gone(id) PROVE Gone(id)'
    <2>1. Dead(id)' /\ worker.mode = "backend" /\ id \notin IdsOf(worker.snap)
      BY <1>1, Lasts DEF Gone
    <2>2. worker'.mode = "backend" /\ id \notin IdsOf(worker'.snap)
      BY <2>1
    <2>3. Holding' => id \notin Ids(Coming'.temps)
      BY <1>1 DEF Gone, HoldKept
    <2>4. worker'.cache # None /\ worker'.cache.at \in {"read", "snap"} => worker'.snap # None
      BY <1>1, <2>1 DEF Gone
    <2>5. QED
      BY <2>1, <2>2, <2>3, <2>4 DEF Gone
  <1>2. QED
    BY <1>1 DEF CountOK

\* What most steps are: of nothing that a grant goes by.
Still == /\ UNCHANGED <<setting, opened>> /\ now <= now'
         /\ server'.links = server.links /\ server.consumed \subseteq server'.consumed
         /\ \A d \in Link : server.edition[d] <= server'.edition[d]
         /\ storage'.snap = storage.snap /\ storage'.config.device = storage.config.device
         /\ worker'.spent = worker.spent /\ worker'.snap = worker.snap /\ worker'.mode = worker.mode
         /\ worker'.cache = worker.cache
         /\ task'["policy"] = task["policy"]
         /\ Saves(task'["options"]) => Saves(task["options"]) /\ task'["options"].patch = task["options"].patch

LEMMA StillOnce ==
    ASSUME TypeInv, TypeInv', OnceOK, Still
    PROVE  OnceOK'
  <1>1. LinksOK' /\ Polls' \subseteq Polls
    BY LinksCarry DEF Still, OnceOK, TypeInv
  <1>2. Onward
    BY <1>1 DEF Onward, Still
  <1>3. Holding' = Holding /\ Coming' = Coming
    BY DEF Holding, Coming, Still, Saves
  <1>4. KnownIds' \subseteq KnownIds
    BY <1>3 DEF KnownIds, Still
  <1>5. HistoryOK'
    BY <1>2, <1>3, <1>4, HistoryCarry DEF HoldKept, OnceOK
  <1>6. CountOK'
    BY <1>2, <1>3, CountCarry DEF HoldKept, OnceOK, Still
  <1>7. QED
    BY <1>1, <1>5, <1>6 DEF OnceOK

\* The backend goes on, and so does time.
LEMMA OutsideStill ==
    ASSUME TypeInv,
           \/ \E r \in reports : consumeGrant(r)
           \/ \E d \in Link : Edit(d) \/ Remove(d)
           \/ Tick \/ TokenDue
    PROVE  Still
  <1>1. SettingOK /\ CountsOK /\ ServerOK /\ StorageOK
    BY DEF TypeInv
  <1>2. UNCHANGED <<setting, opened, worker, task>>
    BY DEF consumeGrant, Edit, Remove, Tick, TokenDue
  <1>4. now <= now'
    <2>1. now' = now \/ now' = now + 1
      BY DEF consumeGrant, Edit, Remove, Tick, TokenDue
    <2>2. now \in Nat
      BY <1>1 DEF CountsOK
    <2>3. QED
      BY <2>1, <2>2
  <1>5. storage'.snap = storage.snap /\ storage'.config.device = storage.config.device
    <2>1. storage' = storage \/ storage' = [storage EXCEPT !.config.due = TRUE]
      BY DEF consumeGrant, Edit, Remove, Tick, TokenDue
    <2>2. QED
      BY <1>1, <2>1 DEF StorageOK, Config
  <1>6. server'.links = server.links /\ server.consumed \subseteq server'.consumed
    <2>1. CASE Tick
      BY <2>1 DEF Tick
    <2>2. CASE TokenDue
      BY <2>2 DEF TokenDue
    <2>3. CASE \E d \in Link : Edit(d) \/ Remove(d)
      BY <1>1, <2>3 DEF Edit, Remove, ServerOK
    <2>4. CASE \E r \in reports : consumeGrant(r)
      <3>1. PICK r \in reports : consumeGrant(r)
        BY <2>4
      <3>2. PICK d, id : d = r.cfg.device /\ id = r.id
        OBVIOUS
      <3>3. \/ server' = [server EXCEPT !.consumed = server.consumed \cup {id}, !.version[d] = server.version[d] + 1]
            \/ UNCHANGED server
        BY <3>1, <3>2 DEF consumeGrant
      <3>4. QED
        BY <1>1, <3>3 DEF ServerOK
    <2>5. QED
      BY <2>1, <2>2, <2>3, <2>4
  <1>7. ASSUME NEW d \in Link PROVE server.edition[d] <= server'.edition[d]
    <2>1. server.edition[d] \in Nat
      BY <1>1 DEF ServerOK
    <2>2. server'.edition[d] = server.edition[d] \/ server'.edition[d] = server.edition[d] + 1
      <3>1. CASE \E e \in Link : Edit(e)
        <4>1. PICK e \in Link : Edit(e)
          BY <3>1
        <4>2. server.edition \in [Link -> Nat]
          BY <1>1 DEF ServerOK
        <4>3. server'.edition = [server.edition EXCEPT ![e] = server.edition[e] + 1]
          BY <1>1, <4>1 DEF Edit, ServerOK
        <4>4. QED
          BY <4>2, <4>3
      <3>2. CASE ~\E e \in Link : Edit(e)
        BY <1>1, <3>2 DEF consumeGrant, Remove, Tick, TokenDue, ServerOK
      <3>3. QED
        BY <3>1, <3>2
    <2>3. QED
      BY <2>1, <2>2
  <1>8. QED
    BY <1>2, <1>4, <1>5, <1>6, <1>7 DEF Still

\* The backend's policies are not moved by the browser.
SameServer == server'.links = server.links /\ server'.consumed = server.consumed /\ server'.edition = server.edition

LEMMA SamePolicies ==
    ASSUME TypeInv, SameServer, UNCHANGED now
    PROVE  /\ server'.links = server.links /\ server.consumed \subseteq server'.consumed /\ now <= now'
           /\ \A d \in Link : server.edition[d] <= server'.edition[d]
  <1>1. now \in Nat
    BY DEF TypeInv, CountsOK
  <1>2. \A d \in Link : server.edition[d] \in Nat
    BY DEF TypeInv, ServerOK
  <1>3. QED
    BY <1>1, <1>2 DEF SameServer

LEMMA PageStill ==
    ASSUME TypeInv, NEW t \in Tab,
           \/ MessageStep(t) \/ Commit(t) \/ ReadSnapshot(t) \/ refreshFromSnapshot(t) \/ Ask(t) \/ TimesOut(t) \/ OpenIt(t)
           \/ \E p \in Pages : Navigate(t, p)
    PROVE  Still
  <1> USE DEF MessageStep, Commit, ReadSnapshot, refreshFromSnapshot, Ask, TimesOut, OpenIt, Navigate, requestAccess,
              postAccessRequest, Told, NotSent, ReadAsks, recordAsk
  <1>1. CountsOK /\ StorageOK /\ ServerOK
    BY DEF TypeInv
  <1>2. UNCHANGED <<setting, opened, worker, task, now>>
    OBVIOUS
  <1>4. storage'.snap = storage.snap /\ storage'.config = storage.config
    BY <1>1 DEF StorageOK
  <1>5. SameServer
    BY <1>1 DEF SameServer, ServerOK
  <1>6. QED
    BY <1>2, <1>4, <1>5, SamePolicies DEF Still

\* The filters, what the options page does beside the config, and the tabs.
LEMMA FilterStill ==
    ASSUME TypeInv, StartFilters \/ FilterStep, Guarded'
    PROVE  Still
  <1>1. CountsOK /\ StorageOK /\ TasksOK /\ WorkerOK
    BY DEF TypeInv
  <1>2. UNCHANGED <<setting, opened, now, server>>
    BY DEF StartFilters, FilterStep, ConfigStep, ReadConfig, WriteConfig, FiltersPolled, applyCategoryFilters
  <1>4. task'["policy"] = task["policy"] /\ task'["options"] = task["options"]
    BY <1>1 DEF TasksOK, Jobs, StartFilters, FilterStep, ConfigStep, ReadConfig, WriteConfig, FiltersPolled,
                applyCategoryFilters, At, Ended
  <1>5. worker'.spent = worker.spent /\ worker'.snap = worker.snap /\ worker'.mode = worker.mode /\ worker'.cache = worker.cache
    BY <1>1 DEF WorkerOK, StartFilters, FilterStep, ConfigStep, ReadConfig, WriteConfig, FiltersPolled,
                applyCategoryFilters
  <1>6. storage'.snap = storage.snap /\ storage'.config.device = storage.config.device
    <2>1. CASE WriteConfig("filters")
      <3>1. PICK x : x = task["filters"]
        OBVIOUS
      <3>2. x.at = "write" /\ TaskOK("filters", x)
        BY <1>1, <2>1, <3>1 DEF WriteConfig, Is, TasksOK, Jobs
      <3>3. x.cur \in Config /\ x.patch \in NewFilter
        BY <3>2 DEF TaskOK, Saves
      <3>4. Patched(x.cur, x.patch).device = x.cur.device
        BY <3>3, PatchedTyped, PatchFields
      <3>5. storage' = [storage EXCEPT !.config = Patched(x.cur, x.patch)]
        BY <2>1, <3>1 DEF WriteConfig
      <3>6. storage.config.device = x.cur.device
        BY <2>1, <3>1 DEF WriteConfig, Guarded
      <3>7. QED
        BY <1>1, <3>4, <3>5, <3>6 DEF StorageOK
    <2>2. CASE ~WriteConfig("filters")
      BY <1>1, <2>2 DEF StorageOK, StartFilters, FilterStep, ConfigStep, ReadConfig, FiltersPolled, applyCategoryFilters
    <2>3. QED
      BY <2>1, <2>2
  <1>7. SameServer
    BY <1>2 DEF SameServer
  <1>8. QED
    BY <1>2, <1>4, <1>5, <1>6, <1>7, SamePolicies DEF Still

LEMMA RestStill ==
    ASSUME TypeInv,
           \/ ReadConfig("options") \/ pinTrustAnchor \/ setParentWord \/ CloseOptions
           \/ connectNativeHost \/ HostGone \/ HostFilters \/ QueryTabs \/ reevaluateOpenTabs
    PROVE  Still
  <1>1. CountsOK /\ StorageOK /\ TasksOK /\ WorkerOK
    BY DEF TypeInv
  <1>2. UNCHANGED <<setting, opened, now, server>>
    BY DEF ReadConfig, pinTrustAnchor, setParentWord, CloseOptions, connectNativeHost, HostGone, HostFilters, QueryTabs,
           reevaluateOpenTabs
  <1>4. task'["policy"] = task["policy"]
    BY <1>1 DEF TasksOK, Jobs, At, Ended, ReadConfig, pinTrustAnchor, setParentWord, CloseOptions, connectNativeHost,
           HostGone, HostFilters, QueryTabs, reevaluateOpenTabs
  <1>5. Saves(task'["options"]) => Saves(task["options"]) /\ task'["options"].patch = task["options"].patch
    <2>1. CASE ReadConfig("options")
      <3>1. PICK x : x = task["options"]
        OBVIOUS
      <3>2. PICK new : new = [x EXCEPT !.at = "write", !.cur = storage.config]
        OBVIOUS
      <3>3. x.at = "read" /\ task'["options"] = new
        BY <1>1, <2>1, <3>1, <3>2 DEF ReadConfig, Is, TasksOK, Jobs
      <3>4. new.patch = x.patch
        BY <1>1, <3>1, <3>2 DEF TasksOK, TaskOK, Jobs
      <3>5. QED
        BY <3>1, <3>3, <3>4 DEF Saves
    <2>2. CASE pinTrustAnchor
      <3>1. task'["options"].at = "word"
        BY <1>1, <2>2 DEF pinTrustAnchor, At, TasksOK, TaskOK, Jobs
      <3>2. QED
        BY <3>1 DEF Saves
    <2>3. CASE setParentWord \/ CloseOptions
      <3>1. task'["options"] = NoTask
        BY <1>1, <2>3 DEF setParentWord, CloseOptions, Ended, TasksOK, Jobs
      <3>2. NoTask.at = "idle"
        BY DEF NoTask
      <3>3. QED
        BY <3>1, <3>2 DEF Saves
    <2>4. CASE ~(ReadConfig("options") \/ pinTrustAnchor \/ setParentWord \/ CloseOptions)
      <3>1. task' = task
        BY <2>4 DEF connectNativeHost, HostGone, HostFilters, QueryTabs, reevaluateOpenTabs
      <3>2. QED
        BY <3>1
    <2>5. QED
      BY <2>1, <2>2, <2>3, <2>4
  <1>6. worker'.spent = worker.spent /\ worker'.snap = worker.snap /\ worker'.mode = worker.mode /\ worker'.cache = worker.cache
    BY <1>1 DEF WorkerOK, ReadConfig, pinTrustAnchor, setParentWord, CloseOptions, connectNativeHost, HostGone,
           HostFilters, QueryTabs, reevaluateOpenTabs
  <1>7. storage'.snap = storage.snap /\ storage'.config = storage.config
    BY <1>1 DEF StorageOK, ReadConfig, pinTrustAnchor, setParentWord, CloseOptions, connectNativeHost, HostGone,
           HostFilters, QueryTabs, reevaluateOpenTabs
  <1>8. SameServer
    BY <1>2 DEF SameServer
  <1>9. QED
    BY <1>2, <1>4, <1>5, <1>6, <1>7, <1>8, SamePolicies DEF Still

-----------------------------------------------------------------------------
(* The steps of the loop and of the options page. *)

\* Nothing comes in, and what the worker has spent stays.
LEMMA MovesOnce ==
    ASSUME TypeInv, TypeInv', OnceOK, LinksOK', Onward, HoldKept, UNCHANGED opened, UNCHANGED worker,
           IdsOf(storage'.snap) \subseteq IdsOf(storage.snap)
    PROVE  OnceOK'
  <1>1. KnownIds' \subseteq KnownIds
    BY DEF KnownIds, HoldKept
  <1>2. HistoryOK'
    BY <1>1, HistoryCarry DEF OnceOK
  <1>3. CountOK'
    BY CountCarry DEF OnceOK
  <1>4. QED
    BY <1>2, <1>3 DEF OnceOK

\* The loop goes on without an answer that is new.
LEMMA LoopOnce ==
    ASSUME TypeInv, TypeInv', OnceOK, UNCHANGED <<setting, opened, worker, now>>, SameServer,
           storage'.snap = storage.snap, storage'.config.device = storage.config.device,
           task'["options"] = task["options"], HoldKept,
           task'["policy"].at # "idle" =>
               \/ task["policy"].at # "idle" /\ task'["policy"].cfg.device = task["policy"].cfg.device
               \/ task'["policy"].cfg.device = storage'.config.device
    PROVE  OnceOK'
  <1>1. LinksOK' /\ Polls' \subseteq Polls
    BY LinksCarry DEF SameServer, OnceOK, TypeInv
  <1>2. Onward
    BY <1>1, SamePolicies DEF Onward
  <1>3. QED
    BY <1>1, <1>2, MovesOnce

LEMMA PollOnce ==
    ASSUME TypeInv, TypeInv', OnceOK,
           \/ StartPoll \/ refreshDeviceTokenIfDue \/ Reread \/ ReadConfig("policy") \/ Verify
           \/ Polled /\ Ended("policy")
    PROVE  OnceOK'
  <1> USE DEF StartPoll, refreshDeviceTokenIfDue, Reread, ReadConfig, Verify, Polled
  <1>1. UNCHANGED <<setting, opened, worker, now, storage>>
    OBVIOUS
  <1>2. TasksOK /\ CountsOK /\ ServerOK /\ TaskOK("policy", task["policy"])
    BY DEF TypeInv, TasksOK, Jobs
  <1>4. SameServer
    BY <1>2 DEF SameServer, ServerOK
  <1>5. task'["options"] = task["options"]
    BY <1>2 DEF TasksOK, Jobs, At, Ended, Saving, Retries
  <1>6. PICK x, y : x = task["policy"] /\ y = task'["policy"]
    OBVIOUS
  <1>7. /\ y.at \in {"verify", "apply"} \/ (Saves(y) /\ y.next = "apply") =>
              (x.at \in {"verify", "apply"} \/ (Saves(x) /\ x.next = "apply")) /\ y.body = x.body
        /\ y.at # "idle" => \/ x.at # "idle" /\ y.cfg.device = x.cfg.device
                            \/ y.cfg.device = storage.config.device
    <2>1. CASE y = NoTask
      BY <2>1 DEF NoTask, Saves
    <2>2. CASE StartPoll
      <3>1. PICK at : at = IF storage.config.due THEN "renew" ELSE "poll"
        OBVIOUS
      <3>2. y = [x EXCEPT !.cfg = storage.config, !.at = at]
        BY <1>2, <1>6, <2>2, <3>1 DEF TasksOK, Jobs
      <3>3. y.at = at /\ y.cfg = storage.config
        BY <1>2, <1>6, <3>2 DEF TaskOK
      <3>4. QED
        BY <3>1, <3>3 DEF Saves
    <2>3. CASE Reread
      <3>1. y = [x EXCEPT !.cfg = storage.config, !.at = "poll"]
        BY <1>2, <1>6, <2>3 DEF TasksOK, Jobs
      <3>2. y.at = "poll" /\ y.cfg = storage.config
        BY <1>2, <1>6, <3>1 DEF TaskOK
      <3>3. QED
        BY <3>2 DEF Saves
    <2>4. CASE refreshDeviceTokenIfDue /\ At("policy", "poll")
      <3>1. y = [x EXCEPT !.at = "poll"] /\ x.at = "renew"
        BY <1>2, <1>6, <2>4 DEF TasksOK, Jobs, At, Is
      <3>2. y.at = "poll" /\ y.cfg = x.cfg
        BY <1>2, <1>6, <3>1 DEF TaskOK
      <3>3. QED
        BY <3>1, <3>2 DEF Saves
    <2>5. CASE refreshDeviceTokenIfDue /\ ~At("policy", "poll")
      <3>1. PICK patch : Saving("policy", patch, "reread")
        BY <2>5
      <3>2. y = [x EXCEPT !.at = "read", !.patch = patch, !.next = "reread"] /\ x.at = "renew"
        BY <1>2, <1>6, <2>5, <3>1 DEF TasksOK, Jobs, Saving, Is
      <3>3. y.at = "read" /\ y.cfg = x.cfg /\ y.next = "reread"
        BY <1>2, <1>6, <3>2 DEF TaskOK
      <3>4. QED
        BY <3>2, <3>3 DEF Saves
    <2>6. CASE ReadConfig("policy")
      <3>1. y = [x EXCEPT !.at = "write", !.cur = storage.config] /\ x.at = "read"
        BY <1>2, <1>6, <2>6 DEF TasksOK, Jobs, Is
      <3>2. y.at = "write" /\ y.cfg = x.cfg /\ y.next = x.next /\ y.body = x.body
        BY <1>2, <1>6, <3>1 DEF TaskOK
      <3>3. QED
        BY <3>1, <3>2 DEF Saves
    <2>7. CASE Verify /\ y # NoTask
      <3>1. PICK patch : Saving("policy", patch, "apply")
        BY <1>2, <1>6, <2>7 DEF Retries, Ended, TasksOK, Jobs
      <3>2. y = [x EXCEPT !.at = "read", !.patch = patch, !.next = "apply"] /\ x.at = "verify"
        BY <1>2, <1>6, <2>7, <3>1 DEF TasksOK, Jobs, Saving, Is
      <3>3. y.at = "read" /\ y.cfg = x.cfg /\ y.next = "apply" /\ y.body = x.body
        BY <1>2, <1>6, <3>2 DEF TaskOK
      <3>4. QED
        BY <3>2, <3>3 DEF Saves
    <2>8. CASE Ended("policy")
      <3>1. y = NoTask
        BY <1>2, <1>6, <2>8 DEF Ended, TasksOK, Jobs
      <3>2. QED
        BY <2>1, <3>1
    <2>9. QED
      BY <2>1, <2>2, <2>3, <2>4, <2>5, <2>6, <2>7, <2>8
  <1>8. HoldKept
    BY <1>6, <1>7 DEF HoldKept, Holding, Coming, Saves
  <1>9. QED
    BY <1>1, <1>4, <1>5, <1>6, <1>7, <1>8, LoopOnce

\* What a function of the loop writes is of the link that the config has.
LEMMA WriteOnce ==
    ASSUME TypeInv, TypeInv', OnceOK, WriteConfig("policy"), Guarded'
    PROVE  OnceOK'
  <1>1. PICK x : x = task["policy"]
    OBVIOUS
  <1>2. PICK y : y = [x EXCEPT !.at = x.next]
    OBVIOUS
  <1>3. TasksOK /\ TaskOK("policy", x) /\ x.at = "write" /\ StorageOK
    BY <1>1 DEF TypeInv, TasksOK, Jobs, WriteConfig, Is
  <1>4. task'["policy"] = y /\ task'["options"] = task["options"]
    BY <1>1, <1>2, <1>3 DEF WriteConfig, At, TasksOK, Jobs
  <1>5. y.at = x.next /\ y.cfg = x.cfg /\ y.body = x.body
    BY <1>2, <1>3 DEF TaskOK
  <1>6. x.next \in {"reread", "apply"}
    BY <1>3 DEF TaskOK, Saves
  <1>7. HoldKept
    BY <1>1, <1>3, <1>4, <1>5, <1>6 DEF HoldKept, Holding, Coming, Saves
  <1>8. x.cur \in Config /\ (x.patch \in Renewal \/ x.patch \in NewVersion)
    BY <1>3 DEF TaskOK, Saves
  <1>9. Patched(x.cur, x.patch).device = x.cur.device
    BY <1>8, PatchedTyped, PatchFields
  <1>10. storage' = [storage EXCEPT !.config = Patched(x.cur, x.patch)]
    BY <1>1 DEF WriteConfig
  <1>11. storage.config.device = x.cur.device
    BY <1>1 DEF WriteConfig, Guarded
  <1>12. storage'.snap = storage.snap /\ storage'.config.device = storage.config.device
    BY <1>3, <1>9, <1>10, <1>11 DEF StorageOK
  <1>13. UNCHANGED <<setting, opened, worker, now, left, server>>
    BY DEF WriteConfig
  <1>14. QED
    BY <1>1, <1>3, <1>4, <1>5, <1>7, <1>12, <1>13, LoopOnce DEF SameServer

\* The options page writes the config of the last link.
LEMMA WriteLinkOnce ==
    ASSUME TypeInv, TypeInv', OnceOK, WriteConfig("options")
    PROVE  OnceOK'
  <1>1. PICK x : x = task["options"]
    OBVIOUS
  <1>2. PICK y : y = [x EXCEPT !.at = x.next]
    OBVIOUS
  <1>3. TasksOK /\ TaskOK("options", x) /\ x.at = "write" /\ StorageOK /\ SettingOK /\ ServerOK
    BY <1>1 DEF TypeInv, TasksOK, Jobs, WriteConfig, Is
  <1>4. task'["options"] = y /\ task'["policy"] = task["policy"]
    BY <1>1, <1>2, <1>3 DEF WriteConfig, At, TasksOK, Jobs
  <1>5. x.next = "pin" /\ x.patch \in NewLink /\ x.cur \in Config
    BY <1>3 DEF TaskOK, Saves
  <1>6. y.at = "pin"
    BY <1>2, <1>3, <1>5 DEF TaskOK
  <1>7. Patched(x.cur, x.patch).device = x.patch.device
    BY <1>5, PatchedTyped
  <1>8. storage' = [storage EXCEPT !.config = Patched(x.cur, x.patch)]
    BY <1>1 DEF WriteConfig
  <1>9. storage'.config.device = x.patch.device /\ storage'.snap = storage.snap
    BY <1>3, <1>7, <1>8 DEF StorageOK
  <1>10. UNCHANGED <<setting, opened, worker, now, left, server>>
    BY DEF WriteConfig
  <1>11. x.patch.device = server.links /\ LinksOK
    BY <1>1, <1>3 DEF OnceOK, LinksOK, Saves
  <1>12. Link' = Link /\ server.links \in Nat
    BY <1>3, <1>10, SameSetting DEF ServerOK
  <1>13. storage'.config.device = server.links
    BY <1>9, <1>11
  <1>14. ~Saves(task'["options"])
    BY <1>4, <1>6 DEF Saves
  <1>15. LinksOK'
    BY <1>4, <1>10, <1>11, <1>12, <1>13, <1>14 DEF LinksOK, Is, Saves
  <1>16. Polls' \subseteq Polls
    BY <1>1, <1>3, <1>4, <1>9, <1>10, <1>12, <1>14 DEF Polls, Is, Saves
  <1>17. Onward
    BY <1>10, <1>16, SamePolicies DEF Onward, SameServer
  <1>18. HoldKept
    BY <1>4 DEF HoldKept, Holding, Coming, Saves
  <1>19. QED
    BY <1>9, <1>10, <1>15, <1>17, <1>18, MovesOnce

\* The next link is one the loop might yet ask for.
LEMMA EnrollOnce ==
    ASSUME TypeInv, TypeInv', OnceOK, NEW given, enroll(given), Guarded'
    PROVE  OnceOK'
  <1>1. PICK d : d = server.links + 1
    OBVIOUS
  <1>2. TasksOK /\ SettingOK /\ ServerOK /\ CountsOK
    BY DEF TypeInv
  <1>3. UNCHANGED <<setting, opened, worker, now, storage>>
    BY DEF enroll
  <1>5. task'["policy"] = task["policy"]
    BY <1>2 DEF enroll, Saving, TasksOK, Jobs
  <1>6. Link' = Link /\ server.links \in Nat /\ LinksOK
    BY <1>2, <1>3, SameSetting DEF ServerOK, OnceOK
  <1>7. CASE UNCHANGED <<server, task>>
    <2>1. Still
      BY <1>3, <1>5, <1>7, SamePolicies DEF Still, SameServer
    <2>2. QED
      BY <2>1, StillOnce
  <1>8. CASE ~UNCHANGED <<server, task>>
    <2>1. PICK patch : patch = [device |-> d, token |-> d, due |-> FALSE, version |-> 0]
      OBVIOUS
    <2>2. server' = [server EXCEPT !.links = d] /\ Saving("options", patch, "pin")
      BY <1>1, <1>8, <2>1 DEF enroll
    <2>3. server'.links = d /\ server'.consumed = server.consumed /\ server'.edition = server.edition
      BY <1>2, <2>2 DEF ServerOK
    <2>4. task'["options"] = [task["options"] EXCEPT !.at = "read", !.patch = patch, !.next = "pin"]
      BY <1>2, <2>2 DEF Saving, TasksOK, Jobs
    <2>5. task'["options"].patch = patch /\ patch.device = d
      BY <1>2, <2>1, <2>4 DEF TasksOK, TaskOK, Jobs
    <2>6. d \in Nat /\ d <= 2 /\ server.links < d
      BY <1>1, <1>6, <2>3 DEF Guarded
    <2>7. \A e \in Link : e \in Nat /\ (e <= server.links => e <= d) /\ (d < e => server.links < e)
      BY <1>1, <1>2, <1>6, LinkFacts
    <2>8. LinksOK'
      BY <1>3, <1>5, <1>6, <2>3, <2>5, <2>7 DEF LinksOK, Is, Saves
    <2>9. Polls' \subseteq Polls
      BY <1>3, <1>5, <1>6, <2>3, <2>5, <2>6, <2>7 DEF Polls, Is, Saves
    <2>10. \A e \in Link : server.edition[e] \in Nat
      BY <1>2 DEF ServerOK
    <2>11. Onward
      BY <1>2, <1>3, <2>3, <2>9, <2>10 DEF Onward, CountsOK
    <2>12. HoldKept
      BY <1>5 DEF HoldKept, Holding, Coming, Saves
    <2>13. QED
      BY <1>3, <2>8, <2>11, <2>12, MovesOnce
  <1>9. QED
    BY <1>7, <1>8

LEMMA UnlinkOnce ==
    ASSUME TypeInv, TypeInv', OnceOK, clearLocalPolicy \/ \E given \in BOOLEAN : Disconnect(given)
    PROVE  OnceOK'
  <1>1. TasksOK /\ SettingOK /\ CountsOK /\ StorageOK
    BY DEF TypeInv
  <1>2. UNCHANGED <<setting, opened, worker, now, server>>
    BY DEF clearLocalPolicy, Disconnect
  <1>4. task'["policy"] = task["policy"]
    BY <1>1 DEF clearLocalPolicy, Disconnect, At, Ended, TasksOK, Jobs
  <1>5. ~Saves(task'["options"])
    BY <1>1, IdleTyped DEF clearLocalPolicy, Disconnect, At, Ended, TasksOK, TaskOK, Jobs, Saves
  <1>6. storage'.config.device = storage.config.device \/ storage'.config.device \notin Link
    <2>1. None \notin Link /\ Unlinked.device = None
      BY <1>1, LinkFacts DEF Unlinked
    <2>2. QED
      BY <1>1, <2>1 DEF clearLocalPolicy, Disconnect, StorageOK
  <1>7. IdsOf(storage'.snap) \subseteq IdsOf(storage.snap)
    <2>1. storage'.snap = storage.snap \/ storage'.snap = None
      BY <1>1 DEF clearLocalPolicy, Disconnect, StorageOK
    <2>2. QED
      BY <2>1 DEF IdsOf
  <1>8. LinksOK' /\ Polls' \subseteq Polls
    BY <1>1, <1>2, <1>4, <1>5, <1>6, LinksCarry DEF OnceOK
  <1>9. Onward
    BY <1>2, <1>8, SamePolicies DEF Onward, SameServer
  <1>10. HoldKept
    BY <1>4 DEF HoldKept, Holding, Coming, Saves
  <1>11. QED
    BY <1>2, <1>7, <1>8, <1>9, <1>10, MovesOnce

-----------------------------------------------------------------------------
(* An answer of the backend, and the worker's life. *)

\* The links the loop may ask for are the first two, and none is before the one it asks.
LEMMA PolledIsFirst ==
    ASSUME TypeInv, LinksOK, server.links <= 2, task["policy"].at = "poll",
           NEW d \in Link, d = task["policy"].cfg.device, NEW e \in Polls
    PROVE  d \in Polls /\ e \in Link /\ d <= e /\ e <= 2 /\ d \in 1 .. 2
  <1>1. SettingOK /\ server.links \in Nat /\ d \in Nat \ {0} /\ e \in Link /\ e \in Nat
    BY LinkFacts DEF TypeInv, ServerOK, Polls
  <1>2. d <= server.links /\ d \in Polls
    BY DEF LinksOK, Is, Polls
  <1>3. CASE e = storage.config.device
    BY <1>1, <1>2, <1>3 DEF LinksOK, Is
  <1>4. CASE Saves(task["options"]) /\ e = task["options"].patch.device
    BY <1>1, <1>2, <1>4 DEF LinksOK
  <1>5. CASE e = task["policy"].cfg.device
    BY <1>1, <1>2, <1>5
  <1>6. CASE server.links < e /\ e <= 2
    BY <1>1, <1>2, <1>6
  <1>7. QED
    BY <1>1, <1>2, <1>3, <1>4, <1>5, <1>6 DEF Polls

\* A grant is never changed, and does not come back.
LEMMA GrantsStay ==
    ASSUME SettingOK, NEW p, p = setting.policies
    PROVE  \A a, b \in DOMAIN p :
               a <= b => \A m \in DOMAIN p[a], n \in DOMAIN p[b] :
                   \A v \in p[a][m].temps, w \in p[b][n].temps :
                       v.id = w.id => v = w /\ \A g \in {a, b} : \A j \in DOMAIN p[g] :
                                           (g = a => m <= j) /\ (g = b => j <= n) => v \in p[g][j].temps
  <1>1. setting \in Settings
    BY DEF SettingOK
  <1>2. \A d, e \in DOMAIN setting.policies :
               d <= e => \A i \in DOMAIN setting.policies[d], k \in DOMAIN setting.policies[e] :
                   \A t \in setting.policies[d][i].temps, u \in setting.policies[e][k].temps :
                       t.id = u.id => t = u /\ \A c \in {d, e} : \A j \in DOMAIN setting.policies[c] :
                                           (c = d => i <= j) /\ (c = e => j <= k) => t \in setting.policies[c][j].temps
    BY <1>1, GrantAssumption, Zenon
  <1>3. QED
    BY <1>2

\* A grant that was there and may come back is in the policy that is sent.
LEMMA SentUnlessDead ==
    ASSUME TypeInv, LinksOK, server.links <= 2, task["policy"].at = "poll",
           NEW d \in Link, d = task["policy"].cfg.device, NEW id, Born(id), id \notin Ids(Snapshot(d).temps)
    PROVE  Dead(id)
  <1>1. SettingOK /\ ServerOK
    BY DEF TypeInv
  <1>2. ASSUME NEW e \in Polls, NEW i \in DOMAIN setting.policies[e], server.edition[e] <= i,
               NEW t \in Grants(e, i), t.id = id
        PROVE  now >= t.until \/ id \in server.consumed
    <2>1. d \in Polls /\ e \in Link /\ d <= e /\ e <= 2 /\ d \in 1 .. 2
      BY <1>2, PolledIsFirst
    <2>2. PICK c \in Link : c <= d /\ \E k \in DOMAIN setting.policies[c] :
                     k <= server.edition[c] /\ id \in Ids(Grants(c, k))
      BY <2>1 DEF Born
    <2>3. PICK k \in DOMAIN setting.policies[c] : k <= server.edition[c] /\ id \in Ids(Grants(c, k))
      BY <2>2
    <2>4. PICK u \in Grants(c, k) : u.id = id
      BY <2>3 DEF Ids
    <2>5. c \in Nat \ {0} /\ e \in Nat
      BY <1>1, <2>1, LinkFacts
    <2>6. c <= e /\ (d = c \/ d = e)
      BY <2>1, <2>2, <2>5
    <2>7. c \in DOMAIN setting.policies /\ e \in DOMAIN setting.policies
      BY <2>1 DEF Link
    <2>8. /\ u = t
          /\ \A b \in {c, e} : \A j \in DOMAIN setting.policies[b] :
                 (b = c => k <= j) /\ (b = e => j <= i) => u \in setting.policies[b][j].temps
      <3>1. PICK p : p = setting.policies
        OBVIOUS
      <3>2. \A a, b \in DOMAIN p :
               a <= b => \A m \in DOMAIN p[a], n \in DOMAIN p[b] :
                   \A v \in p[a][m].temps, w \in p[b][n].temps :
                       v.id = w.id => v = w /\ \A g \in {a, b} : \A j \in DOMAIN p[g] :
                                           (g = a => m <= j) /\ (g = b => j <= n) => v \in p[g][j].temps
        BY <1>1, <3>1, GrantsStay
      <3>3. /\ c \in DOMAIN p /\ e \in DOMAIN p /\ c <= e /\ k \in DOMAIN p[c] /\ i \in DOMAIN p[e]
            /\ u \in p[c][k].temps /\ t \in p[e][i].temps /\ u.id = t.id
        BY <1>2, <2>3, <2>4, <2>6, <2>7, <3>1 DEF Grants
      <3>4. u = t /\ \A g \in {c, e} : \A j \in DOMAIN p[g] :
                                           (g = c => k <= j) /\ (g = e => j <= i) => u \in p[g][j].temps
        BY <3>2, <3>3
      <3>5. QED
        BY <3>1, <3>4
    <2>9. PICK j : j = server.edition[d]
      OBVIOUS
    <2>10. j \in DOMAIN setting.policies[d]
      BY <1>1, <2>9, EditionIn
    <2>11. (d = c => k <= j) /\ (d = e => j <= i)
      BY <1>2, <2>3, <2>9
    <2>12. t \in Grants(d, j)
      BY <2>6, <2>8, <2>10, <2>11 DEF Grants
    <2>13. Snapshot(d).temps = {s \in Grants(d, j) : now < s.until /\ s.id \notin server.consumed}
      BY <2>9 DEF Snapshot, Grants
    <2>14. ~(now < t.until /\ t.id \notin server.consumed)
      BY <1>2, <2>12, <2>13 DEF Ids
    <2>15. t.until \in Int /\ now \in Nat
      BY <1>1, <1>2, <2>1, GrantTyped DEF TypeInv, CountsOK
    <2>16. QED
      BY <1>2, <2>14, <2>15
  <1>3. QED
    BY <1>2 DEF Dead

LEMMA AnswerOnce ==
    ASSUME TypeInv, TypeInv', OnceOK, Polled, ~Ended("policy"), Guarded'
    PROVE  OnceOK'
  <1>1. PICK d : d = task["policy"].cfg.device
    OBVIOUS
  <1>2. PICK x, body : x = task["policy"] /\ body = [snap |-> Snapshot(d), at |-> now]
    OBVIOUS
  <1>3. PICK y : y = [x EXCEPT !.at = "verify", !.body = body]
    OBVIOUS
  <1>4. /\ Authorized(task["policy"].cfg) /\ UNCHANGED left
        /\ server' = [server EXCEPT !.sent[d] = server.version[d]]
        /\ task' = [task EXCEPT !["policy"] = y] /\ x.at = "poll"
        /\ UNCHANGED <<setting, now, storage, worker, reports, tab, asking, opened, excused>>
    BY <1>1, <1>2, <1>3 DEF Polled, Retries, Is
  <1>5. TasksOK /\ TaskOK("policy", x) /\ SettingOK /\ ServerOK /\ LinksOK /\ HistoryOK /\ CountOK
    BY <1>2 DEF TypeInv, TasksOK, Jobs, OnceOK
  <1>6. d \in Link
    BY <1>1, <1>2, <1>4, <1>5, AuthorizedLink DEF TaskOK
  <1>7. SameServer
    BY <1>4, <1>5 DEF SameServer, ServerOK
  <1>8. task'["policy"] = y /\ task'["options"] = task["options"] /\ y.at = "verify" /\ y.body = body /\ y.cfg = x.cfg
    BY <1>3, <1>4, <1>5 DEF TasksOK, TaskOK, Jobs
  <1>9. LinksOK' /\ Polls' \subseteq Polls
    BY <1>2, <1>4, <1>5, <1>7, <1>8, LinksCarry DEF SameServer
  <1>10. Onward
    BY <1>4, <1>7, <1>9, SamePolicies DEF Onward
  <1>11. ~Holding /\ Holding' /\ Coming' = Snapshot(d)
    BY <1>2, <1>4, <1>8 DEF Holding, Coming, Saves
  <1>12. KnownIds' = KnownIds \cup Ids(Snapshot(d).temps)
    BY <1>4, <1>11 DEF KnownIds
  <1>13. server.links <= 2
    BY <1>7 DEF Guarded, SameServer
  <1>14. \A id : id \notin Ids(Snapshot(d).temps) /\ Born(id) => Dead(id)
    BY <1>1, <1>2, <1>4, <1>5, <1>6, <1>13, SentUnlessDead
  <1>15. ASSUME NEW id \in Ids(Snapshot(d).temps) PROVE Born(id)
    <2>1. PICK j : j = server.edition[d]
      OBVIOUS
    <2>2. Snapshot(d).temps = {s \in Grants(d, j) : now < s.until /\ s.id \notin server.consumed}
      BY <2>1 DEF Snapshot, Grants
    <2>3. id \in Ids(Grants(d, j))
      BY <1>15, <2>2 DEF Ids
    <2>4. j \in DOMAIN setting.policies[d] /\ j <= server.edition[d]
      BY <1>5, <1>6, <2>1, EditionIn
    <2>5. \A e \in Polls : d <= e
      BY <1>1, <1>2, <1>4, <1>5, <1>6, <1>13, PolledIsFirst
    <2>6. QED
      BY <1>6, <2>3, <2>4, <2>5 DEF Born
  <1>16. HistoryOK'
    <2>1. \A id \in KnownIds' : Born(id)
      BY <1>5, <1>12, <1>15 DEF HistoryOK
    <2>2. \A id \in KnownIds' : Born(id)'
      BY <1>10, <2>1, Lasts
    <2>3. \A id \in KnownIds' \ Ids(Coming'.temps) : Dead(id)
      BY <1>11, <1>14, <2>1
    <2>4. \A id \in KnownIds' \ Ids(Coming'.temps) : Dead(id)'
      BY <1>10, <2>3, Lasts
    <2>5. QED
      BY <2>2, <2>4 DEF HistoryOK
  <1>17. ASSUME NEW id, Gone(id) PROVE Gone(id)'
    <2>1. Dead(id) /\ Dead(id)'
      BY <1>10, <1>17, Lasts DEF Gone
    <2>2. id \notin Ids(Snapshot(d).temps)
      <3>1. ASSUME NEW t \in Snapshot(d).temps, t.id = id PROVE FALSE
        <4>1. PICK j : j = server.edition[d]
          OBVIOUS
        <4>2. t \in Grants(d, j) /\ now < t.until /\ t.id \notin server.consumed
          BY <3>1, <4>1 DEF Snapshot, Grants
        <4>3. j \in DOMAIN setting.policies[d] /\ server.edition[d] <= j
          BY <1>5, <1>6, <4>1, EditionIn
        <4>4. d \in Polls
          BY <1>1, <1>2, <1>4, <1>6 DEF Polls, Is
        <4>5. now >= t.until
          BY <2>1, <3>1, <4>2, <4>3, <4>4 DEF Dead
        <4>6. t.until \in Int /\ now \in Nat
          BY <1>5, <1>6, <4>2, <4>3, GrantTyped DEF TypeInv, CountsOK
        <4>7. QED
          BY <4>2, <4>5, <4>6
      <3>2. QED
        BY <3>1 DEF Ids
    <2>3. QED
      BY <1>4, <1>11, <1>17, <2>1, <2>2 DEF Gone
  <1>18. CountOK'
    BY <1>4, <1>5, <1>17 DEF CountOK
  <1>19. QED
    BY <1>9, <1>16, <1>18 DEF OnceOK

\* A grant that is forgotten will not be seen again.
LEMMA ApplyOnce ==
    ASSUME TypeInv, TypeInv', OnceOK, applySnapshot
    PROVE  OnceOK'
  <1>1. PICK body : body = task["policy"].body
    OBVIOUS
  <1>2. PICK spent, anchor, snap : spent = Remembered(body.snap) /\ anchor = Anchor(body.at) /\ snap = body.snap
    OBVIOUS
  <1>3. /\ UNCHANGED <<setting, left, now, server, reports, asking, opened, excused>>
        /\ worker' = [worker EXCEPT !.snap = snap, !.spent = spent, !.anchor = anchor, !.recheck = TRUE]
        /\ storage' = [storage EXCEPT !.snap = snap, !.anchor = anchor]
        /\ Ended("policy") /\ task["policy"].at = "apply"
    BY <1>1, <1>2 DEF applySnapshot, Is
  <1>4. TasksOK /\ WorkerOK /\ StorageOK /\ SettingOK /\ "policy" \in Jobs /\ LinksOK /\ HistoryOK /\ CountOK
    BY DEF TypeInv, Jobs, OnceOK
  <1>5. body \in Fetched /\ worker.mode = "backend"
    BY <1>1, <1>3, <1>4, RunsInBackend DEF TasksOK, TaskOK
  <1>6. snap \in Snap /\ snap # None
    BY <1>2, <1>4, <1>5, LinkFacts DEF Fetched
  <1>7. Holding /\ Coming = snap
    BY <1>1, <1>2, <1>3 DEF Holding, Coming
  <1>8. /\ worker'.snap = snap /\ worker'.spent = spent /\ worker'.mode = "backend" /\ worker'.cache = worker.cache
        /\ storage'.snap = snap /\ storage'.config = storage.config
    BY <1>3, <1>4, <1>5 DEF WorkerOK, StorageOK
  <1>9. task'["policy"] = NoTask /\ task'["options"] = task["options"] /\ NoTask.at = "idle"
    BY <1>3, <1>4 DEF Ended, TasksOK, Jobs, NoTask
  <1>10. ~Holding'
    BY <1>9 DEF Holding, Saves
  <1>11. LinksOK' /\ Polls' \subseteq Polls
    BY <1>3, <1>4, <1>8, <1>9, LinksCarry
  <1>12. Onward
    BY <1>3, <1>11, SamePolicies DEF Onward, SameServer
  <1>13. spent = worker.spent \cap Ids(snap.temps) /\ IdsOf(snap) = Ids(snap.temps)
    BY <1>2, <1>6 DEF Remembered, IdsOf
  <1>14. KnownIds' \subseteq KnownIds
    BY <1>7, <1>8, <1>10, <1>13 DEF KnownIds
  <1>15. HistoryOK'
    BY <1>4, <1>10, <1>12, <1>14, HistoryCarry DEF HoldKept
  <1>16. ASSUME NEW id, id \in worker.spent \/ Gone(id)
         PROVE  id \in spent \/ Gone(id)'
    <2>1. CASE id \in Ids(snap.temps)
      BY <1>7, <1>13, <1>16, <2>1 DEF Gone
    <2>2. CASE id \notin Ids(snap.temps)
      <3>1. Dead(id)
        <4>1. CASE id \in worker.spent
          BY <1>4, <1>7, <2>2, <4>1 DEF HistoryOK, KnownIds
        <4>2. CASE Gone(id)
          BY <4>2 DEF Gone
        <4>3. QED
          BY <1>16, <4>1, <4>2
      <3>2. Dead(id)'
        BY <1>12, <3>1, Lasts
      <3>3. id \notin IdsOf(worker'.snap) /\ worker'.snap # None
        BY <1>6, <1>8, <1>13, <2>2
      <3>4. QED
        BY <1>8, <1>10, <3>2, <3>3 DEF Gone
    <2>3. QED
      BY <2>1, <2>2
  <1>17. CountOK'
    BY <1>3, <1>4, <1>8, <1>16 DEF CountOK
  <1>18. QED
    BY <1>11, <1>15, <1>17 DEF OnceOK

\* A life begins with nothing spent, and nothing opened.
LEMMA LifeOnce ==
    ASSUME TypeInv, TypeInv', OnceOK, Start \/ Kill
    PROVE  OnceOK'
  <1>1. WorkerOK /\ TasksOK /\ CountsOK /\ SettingOK /\ OpenedOK /\ LinksOK /\ HistoryOK /\ CountOK
    BY DEF TypeInv, OnceOK
  <1>2. UNCHANGED <<setting, now, server, storage>>
    BY DEF Start, Kill
  <1>3. task'["options"] = task["options"]
    BY <1>1 DEF Start, Kill, TasksOK, Jobs
  <1>4. task'["policy"].at = "idle"
    <2>1. CASE Kill
      <3>1. task'["policy"] = NoTask
        BY <1>1, <2>1 DEF Kill, TasksOK, Jobs
      <3>2. NoTask.at = "idle"
        BY DEF NoTask
      <3>3. QED
        BY <3>1, <3>2
    <2>2. CASE Start
      <3>1. worker.mode = "none" /\ task' = task
        BY <1>1, <2>2 DEF Start, WorkerOK, Asleep
      <3>2. QED
        BY <1>1, <3>1 DEF TasksOK, Is
    <2>3. QED
      BY <2>1, <2>2
  <1>5. LinksOK' /\ Polls' \subseteq Polls
    BY <1>1, <1>2, <1>3, <1>4, LinksCarry
  <1>6. Onward
    BY <1>2, <1>5, SamePolicies DEF Onward, SameServer
  <1>7. ~Holding'
    BY <1>4 DEF Holding, Saves
  <1>8. /\ worker'.spent = {} /\ worker'.snap = None /\ worker'.mode = "none"
        /\ worker'.cache # None => worker'.cache.at = "read"
    <2>1. CASE Kill
      BY <2>1 DEF Kill, Asleep
    <2>2. CASE Start
      <3>1. PICK cache, born : cache = [at |-> "read"] /\ born = now
        OBVIOUS
      <3>2. worker' = [Asleep EXCEPT !.up = TRUE, !.born = born, !.cache = cache]
        BY <2>2, <3>1 DEF Start
      <3>3. worker'.spent = {} /\ worker'.snap = None /\ worker'.mode = "none" /\ worker'.cache = cache
        BY <3>2 DEF Asleep
      <3>4. QED
        BY <3>1, <3>3
    <2>3. QED
      BY <2>1, <2>2
  <1>10. KnownIds' \subseteq KnownIds
    <2>1. KnownIds' = IdsOf(storage.snap)
      BY <1>2, <1>7, <1>8 DEF KnownIds, IdsOf
    <2>2. QED
      BY <2>1 DEF KnownIds
  <1>11. HistoryOK'
    BY <1>1, <1>6, <1>7, <1>10, HistoryCarry DEF HoldKept
  <1>12. CASE Kill
    <2>1. opened' = [id \in DOMAIN opened |-> 0]
      BY <1>12 DEF Kill
    <2>2. CountOK'
      BY <2>1 DEF CountOK
    <2>3. QED
      BY <1>5, <1>11, <2>2 DEF OnceOK
  <1>13. CASE Start
    <2>1. worker.spent = {} /\ worker.mode = "none" /\ opened' = opened
      BY <1>1, <1>13 DEF Start, WorkerOK, Asleep
    <2>2. CountOK'
      BY <1>1, <1>6, <1>7, <1>8, <1>2, <2>1, CountCarry DEF HoldKept
    <2>3. QED
      BY <1>5, <1>11, <2>2 DEF OnceOK
  <1>14. QED
    BY <1>12, <1>13

\* The worker changes, and it forgets nothing and takes nothing in that is new.
LEMMA WorkerOnce ==
    ASSUME TypeInv, TypeInv', OnceOK, UNCHANGED <<setting, left, now, server, task, opened>>,
           IdsOf(storage'.snap) \subseteq IdsOf(storage.snap), storage'.config = storage.config,
           worker'.spent = worker.spent, KnownIds' \subseteq KnownIds,
           worker.mode = "backend" =>
               /\ worker'.mode = "backend" /\ worker'.snap = worker.snap
               /\ worker'.cache # None /\ worker'.cache.at \in {"read", "snap"} =>
                      worker.cache # None /\ worker.cache.at \in {"read", "snap"}
    PROVE  OnceOK'
  <1>1. LinksOK' /\ Polls' \subseteq Polls
    BY LinksCarry DEF OnceOK, TypeInv
  <1>2. Onward
    BY <1>1, SamePolicies DEF Onward, SameServer
  <1>3. Holding' = Holding /\ Coming' = Coming
    BY DEF Holding, Coming, Saves
  <1>4. HistoryOK'
    BY <1>2, <1>3, HistoryCarry DEF HoldKept, OnceOK
  <1>5. CountOK'
    BY <1>2, <1>3, CountCarry DEF HoldKept, OnceOK
  <1>6. QED
    BY <1>1, <1>4, <1>5 DEF OnceOK

LEMMA CacheOnce ==
    ASSUME TypeInv, TypeInv', OnceOK, ChooseSource \/ ReadCache \/ restoreCachedPolicy
    PROVE  OnceOK'
  <1>1. WorkerOK /\ StorageOK
    BY DEF TypeInv
  <1>2. UNCHANGED <<setting, left, now, server, task, opened>>
    BY DEF ChooseSource, ReadCache, restoreCachedPolicy
  <1>3. storage'.snap = storage.snap /\ storage'.config = storage.config
    BY <1>1 DEF ChooseSource, ReadCache, restoreCachedPolicy, StorageOK
  <1>4. Holding' = Holding /\ Coming' = Coming
    BY <1>2 DEF Holding, Coming, Saves
  <1>5. worker'.snap = worker.snap /\ worker'.spent = worker.spent
    BY <1>1 DEF ChooseSource, ReadCache, restoreCachedPolicy, WorkerOK
  <1>6. CASE ChooseSource
    <2>1. worker.mode = "none" /\ worker'.cache = worker.cache
      BY <1>1, <1>6 DEF ChooseSource, WorkerOK
    <2>2. KnownIds' = KnownIds
      BY <1>3, <1>4, <1>5, <2>1 DEF KnownIds
    <2>3. QED
      BY <1>2, <1>3, <1>5, <2>1, <2>2, WorkerOnce
  <1>7. CASE ReadCache
    <2>1. PICK cache : cache = [at |-> "snap", snap |-> storage.snap, anchor |-> storage.anchor,
                                filters |-> storage.filters, key |-> Key]
      OBVIOUS
    <2>2. worker' = [worker EXCEPT !.cache = cache] /\ worker.cache # None /\ worker.cache.at = "read"
      BY <1>7, <2>1 DEF ReadCache, Restoring
    <2>3. worker'.cache = cache /\ worker'.mode = worker.mode /\ cache.snap = storage.snap
      BY <1>1, <2>1, <2>2 DEF WorkerOK
    <2>4. KnownIds' \subseteq KnownIds
      BY <1>3, <1>4, <1>5, <2>3 DEF KnownIds
    <2>5. QED
      BY <1>2, <1>3, <1>5, <2>2, <2>3, <2>4, WorkerOnce
  <1>8. CASE restoreCachedPolicy
    <2>1. worker'.cache = None /\ worker'.mode = worker.mode
      BY <1>1, <1>8 DEF restoreCachedPolicy, WorkerOK
    <2>2. KnownIds' \subseteq KnownIds
      BY <1>3, <1>4, <1>5, <2>1 DEF KnownIds
    <2>3. QED
      BY <1>2, <1>3, <1>5, <2>1, <2>2, WorkerOnce
  <1>9. QED
    BY <1>6, <1>7, <1>8

\* What is restored is what the worker has already, if it has a policy.
LEMMA RestoreOnce ==
    ASSUME TypeInv, TypeInv', OnceOK, RestoreSnapshot, Guarded'
    PROVE  OnceOK'
  <1>1. PICK old : old = worker.cache
    OBVIOUS
  <1>2. PICK cache : cache = [old EXCEPT !.at = "filters"]
    OBVIOUS
  <1>3. /\ UNCHANGED <<setting, left, now, server, task, opened>> /\ old # None /\ old.at = "snap"
    BY <1>1 DEF RestoreSnapshot, Restoring
  <1>4. WorkerOK /\ StorageOK /\ old \in Cached /\ LinksOK /\ HistoryOK /\ CountOK /\ SettingOK
    BY <1>1, <1>3 DEF TypeInv, WorkerOK, OnceOK
  <1>5. cache.at = "filters"
    BY <1>2, <1>4 DEF Cached
  <1>6. old.snap # None => worker.snap \in {None, old.snap}
    BY <1>1 DEF RestoreSnapshot, Guarded
  <1>7. /\ worker'.spent = worker.spent /\ worker'.mode = worker.mode /\ worker'.cache = cache
        /\ \/ old.snap = None /\ worker'.snap = worker.snap
           \/ old.snap # None /\ worker'.snap \in {None, old.snap}
        /\ storage'.snap \in {storage.snap, None} /\ storage'.config = storage.config
    <2>1. CASE old.snap = None
      <3>1. worker' = [worker EXCEPT !.cache = cache, !.checked = None] /\ UNCHANGED storage
        BY <1>1, <1>2, <2>1 DEF RestoreSnapshot
      <3>2. QED
        BY <1>4, <2>1, <3>1 DEF WorkerOK
    <2>2. CASE old.snap # None /\ VerifiedBy(old.key, old.snap)
      <3>1. worker' = [worker EXCEPT !.cache = cache, !.checked = None, !.snap = old.snap] /\ UNCHANGED storage
        BY <1>1, <1>2, <2>2 DEF RestoreSnapshot
      <3>2. QED
        BY <1>4, <2>2, <3>1 DEF WorkerOK
    <2>3. CASE old.snap # None /\ ~VerifiedBy(old.key, old.snap)
      <3>1. /\ worker' = [worker EXCEPT !.cache = cache, !.checked = None, !.snap = None]
            /\ storage' = [storage EXCEPT !.snap = None]
        BY <1>1, <1>2, <2>3 DEF RestoreSnapshot
      <3>2. QED
        BY <1>4, <2>3, <3>1 DEF WorkerOK, StorageOK
    <2>4. QED
      BY <2>1, <2>2, <2>3
  <1>8. LinksOK' /\ Polls' \subseteq Polls
    BY <1>3, <1>4, <1>7, LinksCarry
  <1>9. Onward
    BY <1>3, <1>8, SamePolicies DEF Onward, SameServer
  <1>10. Holding' = Holding /\ Coming' = Coming
    BY <1>3 DEF Holding, Coming, Saves
  <1>11. IdsOf(worker'.snap) \subseteq IdsOf(worker.snap) \cup IdsOf(old.snap) /\ IdsOf(storage'.snap) \subseteq IdsOf(storage.snap)
    BY <1>7 DEF IdsOf
  <1>12. KnownIds' \subseteq KnownIds
    BY <1>1, <1>3, <1>5, <1>7, <1>10, <1>11 DEF KnownIds
  <1>13. HistoryOK'
    BY <1>4, <1>9, <1>10, <1>12, HistoryCarry DEF HoldKept
  <1>14. ASSUME NEW id, Gone(id) PROVE Gone(id)'
    <2>1. Dead(id)' /\ worker.mode = "backend" /\ worker.snap # None /\ id \notin IdsOf(worker.snap)
      BY <1>1, <1>3, <1>9, <1>14, Lasts DEF Gone
    <2>2. id \notin IdsOf(worker'.snap)
      BY <1>6, <1>7, <2>1 DEF IdsOf
    <2>3. QED
      BY <1>5, <1>7, <1>10, <1>14, <2>1, <2>2 DEF Gone
  <1>15. CountOK'
    BY <1>3, <1>4, <1>7, <1>14 DEF CountOK
  <1>16. QED
    BY <1>8, <1>13, <1>15 DEF OnceOK

\* The host's policies are of the first link.
LEMMA HostOnce ==
    ASSUME TypeInv, TypeInv', OnceOK, HostSnapshot
    PROVE  OnceOK'
  <1>1. PICK snap, anchor : snap = Snapshot(1) /\ anchor = Anchor(now)
    OBVIOUS
  <1>2. /\ UNCHANGED <<setting, left, now, server, task, reports, tab, asking, opened, excused>> /\ worker.port
        /\ worker' = [worker EXCEPT !.snap = snap, !.anchor = anchor]
        /\ storage' = [storage EXCEPT !.snap = snap, !.anchor = anchor]
    BY <1>1 DEF HostSnapshot
  <1>3. WorkerOK /\ StorageOK /\ TasksOK /\ SettingOK /\ ServerOK /\ LinksOK /\ HistoryOK /\ CountOK
    BY DEF TypeInv, OnceOK
  <1>4. worker.mode = "native"
    BY <1>2, <1>3 DEF WorkerOK
  <1>5. task["policy"].at = "idle"
    BY <1>3, <1>4 DEF TasksOK, Is
  <1>6. ~Holding'
    BY <1>2, <1>5 DEF Holding, Saves
  <1>7. /\ worker'.snap = snap /\ worker'.spent = worker.spent /\ worker'.cache = worker.cache /\ worker'.mode = worker.mode
        /\ storage'.snap = snap /\ storage'.config = storage.config
    BY <1>2, <1>3 DEF WorkerOK, StorageOK
  <1>8. LinksOK' /\ Polls' \subseteq Polls
    BY <1>2, <1>3, <1>7, LinksCarry
  <1>9. Onward
    BY <1>2, <1>8, SamePolicies DEF Onward, SameServer
  <1>10. 1 \in Link /\ snap \in Snap
    BY <1>1, <1>3, LinkFacts, SnapshotTyped
  <1>11. snap # None /\ IdsOf(snap) = Ids(snap.temps)
    BY <1>3, <1>10, LinkFacts DEF IdsOf
  <1>12. KnownIds' \subseteq KnownIds \cup Ids(snap.temps)
    BY <1>6, <1>7, <1>11 DEF KnownIds
  <1>13. ASSUME NEW id \in Ids(snap.temps) PROVE Born(id)
    <2>1. PICK j : j = server.edition[1]
      OBVIOUS
    <2>2. snap.temps = {s \in Grants(1, j) : now < s.until /\ s.id \notin server.consumed}
      BY <1>1, <2>1 DEF Snapshot, Grants
    <2>3. id \in Ids(Grants(1, j))
      BY <1>13, <2>2 DEF Ids
    <2>4. j \in DOMAIN setting.policies[1] /\ j <= server.edition[1]
      BY <1>3, <1>10, <2>1, EditionIn
    <2>5. \A e \in Polls : 1 <= e
      BY <1>3, LinkFacts DEF Polls
    <2>6. QED
      BY <1>10, <2>3, <2>4, <2>5 DEF Born
  <1>14. HistoryOK'
    <2>1. \A id \in KnownIds' : Born(id)
      BY <1>3, <1>12, <1>13 DEF HistoryOK
    <2>2. \A id \in KnownIds' : Born(id)'
      BY <1>9, <2>1, Lasts
    <2>3. QED
      BY <1>6, <2>2 DEF HistoryOK
  <1>15. CountOK'
    BY <1>2, <1>3, <1>4, <1>6, <1>7, <1>9, CountCarry DEF HoldKept
  <1>16. QED
    BY <1>8, <1>14, <1>15 DEF OnceOK

\* A grant opens a page when it is not noted and the worker has it.
LEMMA SpendOnce ==
    ASSUME TypeInv, TypeInv', OnceOK, NEW p, spendOnce(decide(p, TRUE)), worker.up,
           UNCHANGED <<setting, now, server, storage, task>>
    PROVE  OnceOK'
  <1>1. PICK v : v = decide(p, TRUE)
    OBVIOUS
  <1>2. SettingOK /\ WorkerOK /\ OpenedOK /\ CountsOK /\ LinksOK /\ HistoryOK /\ CountOK
    BY DEF TypeInv, OnceOK
  <1>3. CASE ~Spends(v)
    <2>1. UNCHANGED <<worker, opened>>
      BY <1>1, <1>3 DEF spendOnce
    <2>2. Still
      BY <2>1, SamePolicies DEF Still, SameServer
    <2>3. QED
      BY <2>2, StillOnce
  <1>4. CASE Spends(v)
    <2>1. PICK id : id = v.id
      OBVIOUS
    <2>2. /\ worker.snap \in Snap /\ id \notin worker.spent
          /\ \E t \in worker.snap.temps : t.grantKind = "ONCE" /\ t.id = id
      BY <1>1, <1>2, <1>4, <2>1, ByGrant
    <2>3. id \in OnceIds(setting)
      BY <1>2, <2>2, OnceIdOf
    <2>4. id \in IdsOf(worker.snap)
      <3>1. worker.snap # None
        BY <1>2, <2>2, LinkFacts
      <3>2. QED
        BY <2>2, <3>1 DEF IdsOf, Ids
    <2>5. PICK spent : spent = worker.spent \cup {id}
      OBVIOUS
    <2>6. worker' = [worker EXCEPT !.spent = spent] /\ opened' = [opened EXCEPT ![id] = opened[id] + 1]
      BY <1>1, <1>4, <2>1, <2>5 DEF spendOnce
    <2>7. worker'.spent = spent /\ worker'.snap = worker.snap /\ worker'.mode = worker.mode /\ worker'.cache = worker.cache
      BY <1>2, <2>6 DEF WorkerOK
    <2>8. LinksOK' /\ Polls' \subseteq Polls
      BY <1>2, LinksCarry
    <2>9. Onward
      BY <2>8, SamePolicies DEF Onward, SameServer
    <2>10. Holding' = Holding /\ Coming' = Coming
      BY DEF Holding, Coming, Saves
    <2>11. KnownIds' \subseteq KnownIds
      BY <2>4, <2>5, <2>7, <2>10 DEF KnownIds
    <2>12. HistoryOK'
      BY <1>2, <2>9, <2>10, <2>11, HistoryCarry DEF HoldKept
    <2>14. ASSUME NEW i, Gone(i) PROVE Gone(i)'
      <3>1. Dead(i)'
        BY <2>9, <2>14, Lasts DEF Gone
      <3>2. QED
        BY <2>7, <2>10, <2>14, <3>1 DEF Gone
    <2>15. opened \in [OnceIds(setting) -> Nat]
      BY <1>2 DEF OpenedOK
    <2>16. ASSUME NEW i \in DOMAIN opened'
           PROVE  opened'[i] <= 1 /\ (opened'[i] = 1 => i \in spent \/ Gone(i)')
      <3>1. i \in DOMAIN opened
        BY <2>6, <2>16
      <3>2. CASE i # id
        <4>1. opened'[i] = opened[i]
          BY <2>6, <3>1, <3>2
        <4>2. opened[i] <= 1 /\ (opened[i] = 1 => i \in worker.spent \/ Gone(i))
          BY <1>2, <3>1 DEF CountOK
        <4>3. QED
          BY <2>5, <2>14, <4>1, <4>2
      <3>3. CASE i = id
        <4>1. ~Gone(id)
          BY <2>4 DEF Gone
        <4>2. opened[id] <= 1 /\ opened[id] # 1
          BY <1>2, <2>2, <3>1, <3>3, <4>1 DEF CountOK
        <4>3. PICK n : n = opened[id]
          OBVIOUS
        <4>4. n \in Nat /\ opened'[id] = n + 1
          BY <2>3, <2>6, <2>15, <4>3
        <4>5. n + 1 <= 1
          BY <4>2, <4>3, <4>4
        <4>6. QED
          BY <2>5, <3>3, <4>4, <4>5
      <3>4. QED
        BY <3>2, <3>3
    <2>17. CountOK'
      BY <2>7, <2>16 DEF CountOK
    <2>18. QED
      BY <2>8, <2>12, <2>17 DEF OnceOK
  <1>5. QED
    BY <1>3, <1>4

LEMMA InitOnce ==
    ASSUME Init
    PROVE  OnceOK
  <1>1. TypeInv
    BY InitTypes
  <1>2. /\ SettingOK /\ 1 \in Link /\ None \notin Link /\ setting.linked \in BOOLEAN /\ setting.left["kill"] \in Nat
        /\ ServerOK /\ OpenedOK
    BY <1>1, LinkFacts DEF TypeInv, Things
  <1>3. task["policy"].at = "idle" /\ task["options"].at = "idle"
    BY IdleTyped DEF Init, NoTask
  <1>4. ~Holding
    BY <1>3 DEF Holding, Saves
  <1>5. /\ storage.config.device = IF setting.linked THEN 1 ELSE None
        /\ server.links = IF setting.linked THEN 1 ELSE 0
        /\ storage.snap = IF setting.linked THEN Snapshot(1) ELSE None
    BY DEF Init, Linked1, Unlinked
  <1>6. LinksOK
    BY <1>2, <1>3, <1>5 DEF LinksOK, Is, Saves
  <1>7. KnownIds = IdsOf(storage.snap)
    BY <1>4 DEF Init, Asleep, KnownIds, IdsOf
  <1>8. ASSUME NEW id \in KnownIds PROVE Born(id)
    <2>1. PICK j : j = server.edition[1]
      OBVIOUS
    <2>2. id \in Ids(Snapshot(1).temps)
      BY <1>5, <1>7, <1>8 DEF IdsOf
    <2>3. Snapshot(1).temps = {s \in Grants(1, j) : now < s.until /\ s.id \notin server.consumed}
      BY <2>1 DEF Snapshot, Grants
    <2>4. id \in Ids(Grants(1, j))
      BY <2>2, <2>3 DEF Ids
    <2>5. j \in DOMAIN setting.policies[1] /\ j <= server.edition[1]
      BY <1>2, <2>1, EditionIn
    <2>6. \A e \in Polls : 1 <= e
      BY <1>2, LinkFacts DEF Polls
    <2>7. QED
      BY <1>2, <2>4, <2>5, <2>6 DEF Born
  <1>9. HistoryOK
    BY <1>4, <1>8 DEF HistoryOK
  <1>10. CountOK
    <2>1. \A id \in DOMAIN opened : opened[id] = 0
      BY DEF Init
    <2>2. QED
      BY <2>1 DEF CountOK
  <1>11. QED
    BY <1>6, <1>9, <1>10 DEF OnceOK

LEMMA StepOnce ==
    ASSUME TypeInv, TypeInv', OnceOK, Guarded', [Next]_vars
    PROVE  OnceOK'
  <1>1. CASE UNCHANGED vars
    <2>1. Still
      BY <1>1, SamePolicies DEF vars, Still, SameServer
    <2>2. QED
      BY <2>1, StillOnce
  <1>2. CASE PolicyStep
    <2>1. CASE Polled
      BY <2>1, PollOnce, AnswerOnce
    <2>2. CASE ~Polled
      BY <1>2, <2>2, PollOnce, WriteOnce, ApplyOnce DEF PolicyStep, ConfigStep
    <2>3. QED
      BY <2>1, <2>2
  <1>3. CASE StartFilters \/ FilterStep
    BY <1>3, FilterStill, StillOnce
  <1>4. CASE OptionsStep \/ CloseOptions \/ \E given \in BOOLEAN : enroll(given) \/ Disconnect(given)
    <2>1. CASE ReadConfig("options") \/ pinTrustAnchor \/ setParentWord \/ CloseOptions
      BY <2>1, RestStill, StillOnce
    <2>2. CASE WriteConfig("options")
      BY <2>2, WriteLinkOnce
    <2>3. CASE clearLocalPolicy \/ \E given \in BOOLEAN : Disconnect(given)
      BY <2>3, UnlinkOnce
    <2>4. CASE \E given \in BOOLEAN : enroll(given)
      BY <2>4, EnrollOnce
    <2>5. QED
      BY <1>4, <2>1, <2>2, <2>3, <2>4 DEF OptionsStep, ConfigStep
  <1>5. CASE Start \/ Kill \/ WorkerStep \/ HostStep \/ HostGone
    <2>1. CASE connectNativeHost \/ HostGone \/ HostFilters \/ QueryTabs \/ reevaluateOpenTabs
      BY <2>1, RestStill, StillOnce
    <2>2. CASE Start \/ Kill
      BY <2>2, LifeOnce
    <2>3. CASE ChooseSource \/ ReadCache \/ restoreCachedPolicy
      BY <2>3, CacheOnce
    <2>4. CASE RestoreSnapshot \/ HostSnapshot
      BY <2>4, RestoreOnce, HostOnce
    <2>5. QED
      BY <1>5, <2>1, <2>2, <2>3, <2>4 DEF WorkerStep, HostStep
  <1>6. CASE \E t \in Tab : \/ MessageStep(t) \/ Commit(t) \/ ReadSnapshot(t) \/ refreshFromSnapshot(t)
                            \/ Ask(t) \/ TimesOut(t) \/ OpenIt(t)
                            \/ \E p \in Pages : Navigate(t, p)
    BY <1>6, PageStill, StillOnce
  <1>7. CASE \E t \in Tab : onBeforeRequestBlocking(t) \/ \E p \in Pages : onHistoryStateUpdated(t, p)
    <2>1. PICK t \in Tab : onBeforeRequestBlocking(t) \/ \E p \in Pages : onHistoryStateUpdated(t, p)
      BY <1>7
    <2>2. PICK p : spendOnce(decide(p, TRUE))
      BY <2>1 DEF onBeforeRequestBlocking, onHistoryStateUpdated
    <2>3. worker.up /\ UNCHANGED <<setting, now, server, storage, task>>
      BY <2>1 DEF onBeforeRequestBlocking, onHistoryStateUpdated
    <2>4. QED
      BY <2>2, <2>3, SpendOnce
  <1>8. CASE \/ \E r \in reports : consumeGrant(r)
             \/ \E d \in Link : Edit(d) \/ Remove(d)
             \/ Tick \/ TokenDue
    BY <1>8, OutsideStill, StillOnce
  <1>9. QED
    BY <1>1, <1>2, <1>3, <1>4, <1>5, <1>6, <1>7, <1>8 DEF Next, TabStep

\* What is not guarded against, and a third link, do not go away.
LEMMA StaysGuarded ==
    ASSUME TypeInv, TypeInv', Guarded', [Next]_vars
    PROVE  Guarded
  <1>1. excused \subseteq excused'
    <2>1. CASE UNCHANGED vars
      BY <2>1 DEF vars
    <2>2. CASE PolicyStep \/ StartFilters \/ FilterStep \/ OptionsStep \/ CloseOptions
      BY <2>2 DEF PolicyStep, ConfigStep, StartPoll, refreshDeviceTokenIfDue, Reread, ReadConfig, WriteConfig, Polled,
           Verify, applySnapshot, StartFilters, FilterStep, FiltersPolled, applyCategoryFilters, OptionsStep,
           pinTrustAnchor, setParentWord, clearLocalPolicy, CloseOptions
    <2>3. CASE Start \/ Kill \/ WorkerStep \/ HostStep \/ HostGone \/ Tick \/ TokenDue
      BY <2>3 DEF Start, Kill, WorkerStep, HostStep, HostGone, Tick, TokenDue, ChooseSource, ReadCache, RestoreSnapshot,
           restoreCachedPolicy, QueryTabs, reevaluateOpenTabs, connectNativeHost, HostSnapshot, HostFilters
    <2>4. CASE \/ \E r \in reports : consumeGrant(r)
               \/ \E d \in Link : Edit(d) \/ Remove(d)
               \/ \E given \in BOOLEAN : enroll(given) \/ Disconnect(given)
      BY <2>4 DEF consumeGrant, Edit, Remove, enroll, Disconnect
    <2>5. CASE \E t \in Tab : \/ TabStep(t) \/ MessageStep(t) \/ ReadSnapshot(t) \/ refreshFromSnapshot(t)
                            \/ Ask(t) \/ TimesOut(t) \/ OpenIt(t)
                            \/ \E p \in Pages : Navigate(t, p) \/ onHistoryStateUpdated(t, p)
      <3>1. CASE \E t \in Tab : MessageStep(t)
        BY <3>1 DEF MessageStep, requestAccess, postAccessRequest, Told, NotSent, ReadAsks, recordAsk
      <3>2. CASE \E t \in Tab : TabStep(t) \/ \E p \in Pages : Navigate(t, p) \/ onHistoryStateUpdated(t, p)
        BY <3>2 DEF TabStep, onBeforeRequestBlocking, Commit, Navigate, onHistoryStateUpdated
      <3>3. CASE \E t \in Tab : ReadSnapshot(t) \/ refreshFromSnapshot(t) \/ Ask(t) \/ TimesOut(t) \/ OpenIt(t)
        BY <3>3 DEF ReadSnapshot, refreshFromSnapshot, Ask, TimesOut, OpenIt
      <3>4. QED
        BY <2>5, <3>1, <3>2, <3>3
    <2>6. QED
      BY <2>1, <2>2, <2>3, <2>4, <2>5 DEF Next
  <1>2. ServerOK /\ server.links \in Nat /\ server'.links \in Nat
    BY DEF TypeInv, ServerOK
  <1>3. server'.links = server.links \/ server'.links = server.links + 1
    <2>1. CASE UNCHANGED server
      BY <2>1
    <2>2. CASE PolicyStep
      BY <1>2, <2>2 DEF ServerOK, PolicyStep, ConfigStep, StartPoll, refreshDeviceTokenIfDue, Reread, ReadConfig,
           WriteConfig, Polled, Verify, applySnapshot
    <2>3. CASE \/ \E r \in reports : consumeGrant(r)
               \/ \E d \in Link : Edit(d) \/ Remove(d)
               \/ \E given \in BOOLEAN : enroll(given) \/ Disconnect(given)
      BY <1>2, <2>3 DEF ServerOK, consumeGrant, Edit, Remove, enroll, Disconnect
    <2>4. CASE \E t \in Tab : requestAccess(t) \/ postAccessRequest(t)
      BY <1>2, <2>4 DEF ServerOK, requestAccess, postAccessRequest
    <2>5. CASE \/ UNCHANGED vars \/ StartFilters \/ FilterStep \/ OptionsStep \/ CloseOptions \/ Tick \/ TokenDue
               \/ Start \/ Kill \/ WorkerStep \/ HostStep \/ HostGone
      <3>1. UNCHANGED server
        BY <2>5 DEF vars, StartFilters, FilterStep, ConfigStep, ReadConfig, WriteConfig, FiltersPolled,
           applyCategoryFilters, OptionsStep, pinTrustAnchor, setParentWord, clearLocalPolicy, CloseOptions, Start, Kill,
           WorkerStep, HostStep, HostGone, Tick, TokenDue, ChooseSource, ReadCache, RestoreSnapshot, restoreCachedPolicy,
           QueryTabs, reevaluateOpenTabs, connectNativeHost, HostSnapshot, HostFilters
      <3>2. QED
        BY <2>1, <3>1
    <2>6. CASE \E t \in Tab : \/ TabStep(t) \/ (MessageStep(t) /\ ~requestAccess(t) /\ ~postAccessRequest(t))
                            \/ ReadSnapshot(t) \/ refreshFromSnapshot(t) \/ Ask(t) \/ TimesOut(t) \/ OpenIt(t)
                            \/ \E p \in Pages : Navigate(t, p) \/ onHistoryStateUpdated(t, p)
      <3>1. CASE \E t \in Tab : MessageStep(t) /\ ~requestAccess(t) /\ ~postAccessRequest(t)
        <4>1. UNCHANGED server
          BY <3>1 DEF MessageStep, Told, NotSent, ReadAsks, recordAsk
        <4>2. QED
          BY <2>1, <4>1
      <3>2. CASE \E t \in Tab : TabStep(t) \/ \E p \in Pages : Navigate(t, p) \/ onHistoryStateUpdated(t, p)
        <4>1. UNCHANGED server
          BY <3>2 DEF TabStep, onBeforeRequestBlocking, Commit, Navigate, onHistoryStateUpdated
        <4>2. QED
          BY <2>1, <4>1
      <3>3. CASE \E t \in Tab : ReadSnapshot(t) \/ refreshFromSnapshot(t) \/ Ask(t) \/ TimesOut(t) \/ OpenIt(t)
        <4>1. UNCHANGED server
          BY <3>3 DEF ReadSnapshot, refreshFromSnapshot, Ask, TimesOut, OpenIt
        <4>2. QED
          BY <2>1, <4>1
      <3>4. QED
        BY <2>6, <3>1, <3>2, <3>3
    <2>7. QED
      BY <2>2, <2>3, <2>4, <2>5, <2>6 DEF Next
  <1>4. server'.links <= 2 => server.links <= 2
    BY <1>2, <1>3
  <1>5. QED
    BY <1>1, <1>4 DEF Guarded

\* "Just once" (background.js, spendOnce): however reports, snapshots and tabs
\* that are sent on fall between, no life of the worker lets more than one load
\* through by a single-use grant; but for the three cases OnceMeansOnce names.  A
\* grant that opened a page is noted until a snapshot no longer has it; by then it
\* has run out, was consumed or has left the child's policy, and no answer the loop
\* may yet get has it again.  A child's policy and its grants are the backend's
\* (GrantAssumption).
THEOREM OnceIsOncePerLife == Spec => []OnceMeansOnce
  <1>1. Init => TypeInv /\ OnceInv
    BY InitTypes, InitOnce DEF OnceInv, OnceOK
  <1>2. TypeInv /\ OnceInv /\ [Next]_vars => TypeInv' /\ OnceInv'
    <2>1. ASSUME TypeInv, OnceInv, [Next]_vars PROVE TypeInv' /\ OnceInv'
      <3>1. TypeInv'
        BY <2>1, StepTypes
      <3>2. ASSUME Guarded' PROVE OnceOK'
        <4>1. Guarded
          BY <2>1, <3>1, <3>2, StaysGuarded
        <4>2. OnceOK
          BY <2>1, <4>1 DEF OnceInv, OnceOK, Guarded
        <4>3. QED
          BY <2>1, <3>1, <3>2, <4>2, StepOnce
      <3>3. QED
        BY <3>1, <3>2 DEF OnceInv, OnceOK, Guarded
    <2>2. QED
      BY <2>1
  <1>3. TypeInv /\ OnceInv => OnceMeansOnce
    BY DEF OnceInv, OnceMeansOnce, CountOK
  <1>4. QED
    BY <1>1, <1>2, <1>3, PTL DEF Spec

-----------------------------------------------------------------------------
(* A grant that opens pages closes none. *)

LEMMA OneBefore ==
    ASSUME NEW a, NEW b, {a.priority, a.order, b.priority, b.order} \subseteq Int, Before(a, b, FALSE)
    PROVE  ~Before(b, a, FALSE)
  <1>1. PICK m, n : m = scopeSpecificity(a) /\ n = scopeSpecificity(b)
    OBVIOUS
  <1>2. m \in Int /\ n \in Int
    BY <1>1 DEF scopeSpecificity
  <1>3. PICK pa, pb, oa, ob : pa = a.priority /\ pb = b.priority /\ oa = a.order /\ ob = b.order
    OBVIOUS
  <1>4. pa \in Int /\ pb \in Int /\ oa \in Int /\ ob \in Int
    BY <1>3
  <1>5. /\ Outranks(a, b) <=> (pa > pb \/ (pa = pb /\ m > n))
        /\ Outranks(b, a) <=> (pb > pa \/ (pb = pa /\ n > m))
    BY <1>1, <1>3 DEF Outranks
  <1>6. QED
    BY <1>2, <1>3, <1>4, <1>5 DEF Before, Ties

LEMMA GrantFields ==
    ASSUME SettingOK, NEW q \in Contents(setting)
    PROVE  \A t \in q.temps : t.priority \in Int /\ t.order \in Int
  <1>1. PICK S : S = q.temps /\ S \in SUBSET q.temps
    OBVIOUS
  <1>2. ASSUME NEW t \in S PROVE t.priority \in Int /\ t.order \in Int
    BY <1>1, <1>2, GrantAssumption DEF SettingOK
  <1>3. QED
    BY <1>1, <1>2

\* The first of more grants, where those that were added open pages.
LEMMA FirstOfMore ==
    ASSUME SettingOK, NEW q \in Contents(setting), NEW S \in SUBSET q.temps, NEW R \in SUBSET S,
           \A t \in S \ R : t.action = "ALLOW", S # {}
    PROVE  \/ First(S, FALSE).action = "ALLOW"
           \/ R # {} /\ First(R, FALSE) = First(S, FALSE)
  <1>1. PICK f : f = First(S, FALSE)
    OBVIOUS
  <1>2. f \in S /\ \A t \in S \ {f} : Before(f, t, FALSE)
    BY <1>1, FirstIsOne
  <1>3. CASE f \notin R
    BY <1>1, <1>2, <1>3
  <1>4. CASE f \in R
    <2>1. PICK g : g = First(R, FALSE)
      OBVIOUS
    <2>2. R \in SUBSET q.temps /\ R # {}
      BY <1>4
    <2>3. g \in R /\ \A t \in R \ {g} : Before(g, t, FALSE)
      BY <2>1, <2>2, FirstIsOne
    <2>4. {f.priority, f.order} \subseteq Int /\ {g.priority, g.order} \subseteq Int
      <3>1. \A t \in S : t.priority \in Int /\ t.order \in Int
        BY GrantFields
      <3>2. g \in S
        BY <2>3
      <3>3. QED
        BY <1>2, <3>1, <3>2
    <2>5. f = g
      <3>1. ASSUME f # g PROVE Before(f, g, FALSE) /\ Before(g, f, FALSE)
        BY <1>2, <1>4, <2>3, <3>1
      <3>2. QED
        BY <2>4, <3>1, OneBefore
    <2>6. QED
      BY <1>1, <2>1, <2>2, <2>5
  <1>5. QED
    BY <1>3, <1>4

LEMMA MoreGrants ==
    ASSUME SettingOK, NEW x \in Snap, NEW few, NEW many, NEW page, NEW at,
           few.rules = many.rules, few.device = many.device, few.child = many.child,
           few.webDefault = many.webDefault, few.youTubeDefault = many.youTubeDefault,
           few.temps \subseteq many.temps, many.temps \subseteq x.temps,
           \A t \in many.temps \ few.temps : t.action = "ALLOW",
           evaluate(few, page, at).action # "BLOCK"
    PROVE  evaluate(many, page, at).action # "BLOCK"
  <1>1. PICK q \in Contents(setting) : x.temps \subseteq q.temps
    BY SnapIds
  <1>2. PICK A, B : A = ActiveTemps(few, at) /\ B = ActiveTemps(many, at)
    OBVIOUS
  <1>3. PICK R, S : R = {t \in A : matchTarget(t, page)} /\ S = {t \in B : matchTarget(t, page)}
    OBVIOUS
  <1>4. /\ A \subseteq few.temps /\ B \subseteq many.temps
        /\ \A t \in few.temps : t \in A <=> t \in B
    BY <1>2 DEF ActiveTemps, ruleAppliesToScope
  <1>5. R \subseteq S /\ S \subseteq q.temps /\ \A t \in S \ R : t.action = "ALLOW"
    BY <1>1, <1>3, <1>4
  <1>6. \A tier : OfTier(few, page, tier) = OfTier(many, page, tier)
    BY DEF OfTier, ruleAppliesToScope
  <1>7. PICK open : open = Answering(many, page, tierOrder)
    OBVIOUS
  <1>8. open = Answering(few, page, tierOrder)
    BY <1>6, <1>7 DEF Answering
  <1>9. PICK tier : tier = tierOrder[Earliest(open)]
    OBVIOUS
  <1>10. PICK rest : rest = IF open # {} THEN ByRule(many, page, tier) ELSE ByDefault(many, page)
    OBVIOUS
  <1>11. rest = IF open # {} THEN ByRule(few, page, tier) ELSE ByDefault(few, page)
    BY <1>6, <1>10 DEF ByRule, ByDefault
  <1>12. PICK v, w : v = evaluate(few, page, at) /\ w = evaluate(many, page, at)
    OBVIOUS
  <1>13. v = IF page.floor THEN Verdict("ALLOW", "safety-floor", None)
             ELSE IF R # {} THEN ByTemp(First(R, FALSE)) ELSE rest
    BY <1>2, <1>3, <1>8, <1>9, <1>11, <1>12 DEF evaluate, Judge
  <1>14. w = IF page.floor THEN Verdict("ALLOW", "safety-floor", None)
             ELSE IF S # {} THEN ByTemp(First(S, FALSE)) ELSE rest
    BY <1>2, <1>3, <1>7, <1>9, <1>10, <1>12 DEF evaluate, Judge
  <1>15. CASE page.floor \/ S = {}
    <2>1. v = w
      BY <1>5, <1>13, <1>14, <1>15
    <2>2. QED
      BY <1>12, <2>1
  <1>16. CASE ~page.floor /\ S # {}
    <2>1. PICK f : f = First(S, FALSE)
      OBVIOUS
    <2>2. w = ByTemp(f)
      BY <1>14, <1>16, <2>1
    <2>3. CASE f.action = "ALLOW"
      <3>1. w.action = f.action
        BY <2>2 DEF ByTemp, Verdict
      <3>2. w.action # "BLOCK"
        BY <2>3, <3>1
      <3>3. QED
        BY <1>12, <3>2
    <2>4. CASE R # {} /\ First(R, FALSE) = f
      BY <1>12, <1>13, <1>16, <2>2, <2>4
    <2>5. S \in SUBSET q.temps /\ R \in SUBSET S /\ \A t \in S \ R : t.action = "ALLOW"
      BY <1>5
    <2>6. First(S, FALSE).action = "ALLOW" \/ (R # {} /\ First(R, FALSE) = First(S, FALSE))
      BY <1>16, <2>5, FirstOfMore
    <2>7. QED
      BY <2>1, <2>3, <2>4, <2>6
  <1>17. QED
    BY <1>15, <1>16

\* A policy as the worker looks at it.
LEMMA StartedFields ==
    ASSUME NEW x \in Snap, NEW spent, NEW view, view = x \/ view = View(x, spent), NEW p, p = Started(view)
    PROVE  /\ p.rules = x.rules /\ p.device = x.device /\ p.child = x.child
           /\ p.webDefault = x.webDefault /\ p.youTubeDefault = x.youTubeDefault
           /\ p.temps = {t \in view.temps : t.from <= nowMs}
           /\ view = x \/ view.temps = {t \in x.temps : t.id \notin spent}
  <1>1. DOMAIN x = {"device", "child", "version", "temps", "rules", "webDefault", "youTubeDefault"}
    BY DEF Snap, SnapshotsOf
  <1>2. /\ view.rules = x.rules /\ view.device = x.device /\ view.child = x.child
        /\ view.webDefault = x.webDefault /\ view.youTubeDefault = x.youTubeDefault
        /\ DOMAIN view = DOMAIN x
        /\ view = x \/ view.temps = {t \in x.temps : t.id \notin spent}
    BY <1>1 DEF View
  <1>3. PICK temps : temps = {t \in view.temps : t.from <= nowMs}
    OBVIOUS
  <1>4. p = [view EXCEPT !.temps = temps]
    BY <1>3 DEF Started
  <1>5. QED
    BY <1>1, <1>2, <1>3, <1>4

\* Without a spent grant, which opened pages, a page that is open stays open.
LEMMA SpentOpens ==
    ASSUME SettingOK, NEW x \in Snap, NEW few, NEW many, NEW page,
           \A t \in x.temps : t.id \in many => t.action = "ALLOW",
           evaluateInWorker(View(x, many), page).action # "BLOCK"
    PROVE  /\ evaluateInWorker(x, page).action # "BLOCK"
           /\ few \subseteq many => evaluateInWorker(View(x, few), page).action # "BLOCK"
  <1>1. PICK known : known = Seen(page)
    OBVIOUS
  <1>2. PICK u, v : u = View(x, many) /\ v = View(x, few)
    OBVIOUS
  <1>3. PICK p, q, r : p = Started(u) /\ q = Started(v) /\ r = Started(x)
    OBVIOUS
  <1>4. /\ p.rules = x.rules /\ p.device = x.device /\ p.child = x.child
        /\ p.webDefault = x.webDefault /\ p.youTubeDefault = x.youTubeDefault
        /\ p.temps = {t \in u.temps : t.from <= nowMs} /\ (u = x \/ u.temps = {t \in x.temps : t.id \notin many})
    BY <1>2, <1>3, StartedFields
  <1>5. /\ q.rules = x.rules /\ q.device = x.device /\ q.child = x.child
        /\ q.webDefault = x.webDefault /\ q.youTubeDefault = x.youTubeDefault
        /\ q.temps = {t \in v.temps : t.from <= nowMs} /\ (v = x \/ v.temps = {t \in x.temps : t.id \notin few})
    BY <1>2, <1>3, StartedFields
  <1>6. /\ r.rules = x.rules /\ r.device = x.device /\ r.child = x.child
        /\ r.webDefault = x.webDefault /\ r.youTubeDefault = x.youTubeDefault
        /\ r.temps = {t \in x.temps : t.from <= nowMs}
    BY <1>3, StartedFields
  <1>7. evaluate(p, known, nowMs).action # "BLOCK"
    BY <1>1, <1>2, <1>3 DEF evaluateInWorker
  <1>8. PICK at : at = nowMs
    OBVIOUS
  <1>9. \A t \in r.temps \ p.temps : t.action = "ALLOW"
    BY <1>4, <1>6
  <1>10. p.temps \subseteq r.temps /\ r.temps \subseteq x.temps
    BY <1>4, <1>6
  <1>11. evaluate(r, known, at).action # "BLOCK"
    BY <1>4, <1>6, <1>7, <1>8, <1>9, <1>10, MoreGrants
  <1>12. ASSUME few \subseteq many PROVE evaluate(q, known, at).action # "BLOCK"
    <2>1. u.temps \subseteq x.temps /\ v.temps \subseteq x.temps
      BY <1>4, <1>5
    <2>2. v = x \/ u.temps \subseteq v.temps \/ u = x
      BY <1>4, <1>5, <1>12
    <2>3. u = x => \A t \in x.temps : t.id \notin many
      BY <1>2 DEF View, Snap, SnapshotsOf
    <2>4. u.temps \subseteq v.temps
      BY <1>12, <2>1, <2>2, <2>3, <1>4, <1>5
    <2>5. \A t \in q.temps \ p.temps : t.action = "ALLOW"
      BY <1>4, <1>5, <2>1
    <2>6. p.temps \subseteq q.temps /\ q.temps \subseteq x.temps
      BY <1>4, <1>5, <2>1, <2>4
    <2>7. QED
      BY <1>4, <1>5, <1>7, <1>8, <2>5, <2>6, MoreGrants
  <1>13. QED
    BY <1>1, <1>2, <1>3, <1>8, <1>11, <1>12 DEF evaluateInWorker

-----------------------------------------------------------------------------
(* What is on screen follows the policy. *)

\* Whatever was spent opened pages.
SpentOpened == \A id \in worker.spent : \A q \in Contents(setting) : \A t \in q.temps : t.id = id => t.action = "ALLOW"

\* A page that is let through may be shown, whoever spends what.
LEMMA LetThrough ==
    ASSUME SettingOK, WorkerOK, SpentOpened, NEW p, ~Blocked(p)
    PROVE  decide(p, FALSE).action # "BLOCK"
  <1>1. PICK x, page : x = worker.snap /\ page = setting.pages[p]
    OBVIOUS
  <1>2. decide(p, TRUE).action # "BLOCK"
    BY DEF Blocked
  <1>3. CASE x = None
    BY <1>1, <1>2, <1>3 DEF decide
  <1>4. CASE x # None
    <2>1. x \in Snap
      BY <1>1, <1>4 DEF WorkerOK, MaybeSnap
    <2>2. evaluateInWorker(View(x, worker.spent), page).action # "BLOCK"
      BY <1>1, <1>2, <1>4 DEF decide
    <2>3. \A t \in x.temps : t.id \in worker.spent => t.action = "ALLOW"
      BY <2>1, SnapIds DEF SpentOpened
    <2>4. evaluateInWorker(x, page).action # "BLOCK"
      BY <2>1, <2>2, <2>3, SpentOpens
    <2>5. decide(p, FALSE).action \in {"ALLOW", evaluateInWorker(x, page).action}
      BY <1>1, <1>4 DEF decide, Verdict
    <2>6. QED
      BY <2>4, <2>5
  <1>5. QED
    BY <1>3, <1>4

\* What a decision goes by is as it was, but for what is spent.
SameJudge == /\ UNCHANGED <<setting, now>> /\ worker'.snap = worker.snap /\ worker'.filters = worker.filters
             /\ worker'.anchor = worker.anchor /\ worker'.born = worker.born

LEMMA JudgedAsBefore ==
    ASSUME SameJudge
    PROVE  /\ nowMs' = nowMs
           /\ \A p : decide(p, FALSE)' = decide(p, FALSE)
           /\ worker'.spent = worker.spent => \A p : decide(p, TRUE)' = decide(p, TRUE)
  <1>1. nowMs' = nowMs
    BY DEF SameJudge, nowMs
  <1>2. (\A x : Started(x)' = Started(x)) /\ \A x : Seen(x)' = Seen(x)
    BY <1>1 DEF SameJudge, Started, Seen
  <1>3. \A x, page : evaluateInWorker(x, page)' = evaluateInWorker(x, page)
    BY <1>1, <1>2 DEF evaluateInWorker
  <1>4. QED
    BY <1>1, <1>2, <1>3 DEF decide, SameJudge

\* Where a load that was decided stands, the decision does.
LoadStands(n) ==
    n # None /\ n.at # "sent" /\ n.stands =>
        /\ worker.up
        /\ n.at = "loading" => decide(n.page, FALSE).action # "BLOCK"
        /\ n.at = "blocking" => Blocked(n.page)

Right(x) == /\ x.at = "open" => decide(x.shown, FALSE).action # "BLOCK"
            /\ x.at = "parked" => Blocked(x.shown)

\* What a tab shows is right, or will be looked at.
Looked(t, x) ==
    x.next = None /\ ~x.slipped =>
        \/ worker.recheck \/ worker.checked # nowMs
        \/ worker.listed # <<>> /\ worker.listed[t].shown = x.shown /\ worker.listed[t].at = x.at
        \/ Right(x)

CheckedBefore == ~worker.recheck /\ worker.checked # None => worker.checked <= nowMs

Follows == CheckedBefore /\ \A t \in Tab : LoadStands(tab[t].next) /\ Looked(t, tab[t])

\* The host's policies are not followed.
FollowInv == SpentOpened /\ (worker.mode # "native" => Follows)

\* A grant that opened one policy's page opens any.
LEMMA OneGrant ==
    ASSUME SettingOK, NEW p \in Contents(setting), NEW q \in Contents(setting), NEW t \in p.temps, NEW u \in q.temps,
           t.id = u.id
    PROVE  t = u
  <1>1. PICK d \in Link : \E i \in DOMAIN setting.policies[d] : p = setting.policies[d][i]
    BY DEF Contents, Link
  <1>2. PICK e \in Link : \E k \in DOMAIN setting.policies[e] : q = setting.policies[e][k]
    BY DEF Contents, Link
  <1>3. PICK i \in DOMAIN setting.policies[d] : p = setting.policies[d][i]
    BY <1>1
  <1>4. PICK k \in DOMAIN setting.policies[e] : q = setting.policies[e][k]
    BY <1>2
  <1>5. d \in Nat /\ e \in Nat /\ (d <= e \/ e <= d)
    BY LinkFacts
  <1>6. ASSUME NEW a \in Link, NEW b \in Link, a <= b, NEW m \in DOMAIN setting.policies[a],
               NEW n \in DOMAIN setting.policies[b], NEW x \in setting.policies[a][m].temps,
               NEW y \in setting.policies[b][n].temps, x.id = y.id
        PROVE  x = y
    <2>1. PICK s : s = setting.policies
      OBVIOUS
    <2>2. a \in DOMAIN s /\ b \in DOMAIN s
      BY <2>1 DEF Link
    <2>3. QED
      BY <1>6, <2>1, <2>2, GrantsStay
  <1>7. CASE d <= e
    BY <1>3, <1>4, <1>6, <1>7
  <1>8. CASE e <= d
    BY <1>3, <1>4, <1>6, <1>8
  <1>9. QED
    BY <1>5, <1>7, <1>8

LEMMA SpendOpens ==
    ASSUME TypeInv, SpentOpened, NEW p, spendOnce(decide(p, TRUE)), UNCHANGED <<setting, now>>
    PROVE  /\ SpentOpened' /\ SameJudge /\ worker.spent \subseteq worker'.spent
           /\ worker'.up = worker.up /\ worker'.mode = worker.mode /\ worker'.recheck = worker.recheck
           /\ worker'.checked = worker.checked /\ worker'.listed = worker.listed
           /\ decide(p, TRUE).action = "BLOCK" => worker' = worker
  <1>1. PICK v : v = decide(p, TRUE)
    OBVIOUS
  <1>2. SettingOK /\ WorkerOK
    BY DEF TypeInv
  <1>3. CASE ~Spends(v)
    <2>1. worker' = worker
      BY <1>1, <1>3 DEF spendOnce
    <2>2. SpentOpened'
      BY <2>1 DEF SpentOpened, Contents
    <2>3. QED
      BY <2>1, <2>2 DEF SameJudge
  <1>4. CASE Spends(v)
    <2>1. PICK id : id = v.id
      OBVIOUS
    <2>2. PICK spent : spent = worker.spent \cup {id}
      OBVIOUS
    <2>3. worker' = [worker EXCEPT !.spent = spent]
      BY <1>1, <1>4, <2>1, <2>2 DEF spendOnce
    <2>4. /\ worker'.spent = spent /\ worker'.up = worker.up /\ worker'.mode = worker.mode
          /\ worker'.recheck = worker.recheck /\ worker'.checked = worker.checked /\ worker'.listed = worker.listed
          /\ worker'.snap = worker.snap /\ worker'.filters = worker.filters /\ worker'.anchor = worker.anchor
          /\ worker'.born = worker.born
      BY <1>2, <2>3 DEF WorkerOK
    <2>5. PICK x : x = worker.snap
      OBVIOUS
    <2>6. x \in Snap /\ \E t \in x.temps : t.id = id /\ t.action = "ALLOW"
      BY <1>1, <1>2, <1>4, <2>1, <2>5, ByGrant
    <2>7. PICK t \in x.temps : t.id = id /\ t.action = "ALLOW"
      BY <2>6
    <2>8. PICK q \in Contents(setting) : x.temps \subseteq q.temps
      BY <1>2, <2>6, SnapIds
    <2>9. ASSUME NEW r \in Contents(setting), NEW u \in r.temps, u.id \in spent PROVE u.action = "ALLOW"
      <3>1. CASE u.id \in worker.spent
        BY <2>9, <3>1 DEF SpentOpened
      <3>2. CASE u.id = id
        <4>1. t \in q.temps /\ t.id = u.id
          BY <2>7, <2>8, <3>2
        <4>2. t = u
          BY <1>2, <4>1, OneGrant
        <4>3. QED
          BY <2>7, <4>2
      <3>3. QED
        BY <2>2, <2>9, <3>1, <3>2
    <2>10. SpentOpened'
      BY <2>4, <2>9 DEF SpentOpened, Contents
    <2>11. v.action # "BLOCK"
      BY <1>4 DEF Spends
    <2>12. QED
      BY <1>1, <2>2, <2>4, <2>10, <2>11 DEF SameJudge
  <1>5. QED
    BY <1>3, <1>4

\* What was decided stays so, whatever is spent meanwhile.
LEMMA StaysDecided ==
    ASSUME TypeInv, TypeInv', SameJudge, worker.spent \subseteq worker'.spent, SpentOpened'
    PROVE  /\ nowMs' = nowMs
           /\ \A p : decide(p, FALSE)' = decide(p, FALSE)
           /\ \A p : Blocked(p) => Blocked(p)'
  <1>1. nowMs' = nowMs /\ (\A p : decide(p, FALSE)' = decide(p, FALSE)) /\ UNCHANGED setting
    BY JudgedAsBefore DEF SameJudge
  <1>2. ASSUME NEW p, ~(Blocked(p)') PROVE ~Blocked(p)
    <2>1. PICK x, page : x = worker.snap /\ page = setting.pages[p]
      OBVIOUS
    <2>2. PICK many : many = worker'.spent
      OBVIOUS
    <2>3. worker'.snap = x /\ SettingOK /\ WorkerOK
      BY <2>1 DEF SameJudge, TypeInv
    <2>4. (decide(p, TRUE).action # "BLOCK")'
      BY <1>2 DEF Blocked
    <2>5. CASE x = None
      BY <1>1, <2>1, <2>3, <2>4, <2>5 DEF decide, Blocked
    <2>6. CASE x # None
      <3>1. x \in Snap
        BY <2>1, <2>3, <2>6 DEF WorkerOK, MaybeSnap
      <3>2. \A view : evaluateInWorker(view, page)' = evaluateInWorker(view, page)
        BY <1>1 DEF evaluateInWorker, Started, Seen, SameJudge
      <3>3. decide(p, TRUE)' = evaluateInWorker(View(x, many), page)
        BY <1>1, <2>1, <2>2, <2>3, <2>6, <3>2 DEF decide
      <3>4. evaluateInWorker(View(x, many), page).action # "BLOCK"
        BY <2>4, <3>3
      <3>5. \A t \in x.temps : t.id \in many => t.action = "ALLOW"
        <4>1. PICK q \in Contents(setting) : x.temps \subseteq q.temps
          BY <2>3, <3>1, SnapIds
        <4>2. \A t \in q.temps : t.id \in many => t.action = "ALLOW"
          BY <1>1, <2>2 DEF SpentOpened, Contents
        <4>3. QED
          BY <4>1, <4>2
      <3>6. PICK few : few = worker.spent
        OBVIOUS
      <3>7. few \subseteq many
        BY <2>2, <3>6
      <3>8. evaluateInWorker(View(x, few), page).action # "BLOCK"
        BY <2>3, <3>1, <3>4, <3>5, <3>7, SpentOpens
      <3>9. decide(p, TRUE) = evaluateInWorker(View(x, few), page)
        BY <2>1, <2>6, <3>6 DEF decide
      <3>10. QED
        BY <3>8, <3>9 DEF Blocked
    <2>7. QED
      BY <2>5, <2>6
  <1>3. QED
    BY <1>1, <1>2

\* What was decided and looked at stays so where nothing is decided anew.
LEMMA FollowCarry ==
    ASSUME TypeInv, TypeInv', Follows, SameJudge, worker.spent \subseteq worker'.spent, SpentOpened',
           worker.up => worker'.up, worker'.recheck = worker.recheck, worker'.checked = worker.checked,
           worker'.listed = worker.listed
    PROVE  /\ CheckedBefore'
           /\ \A n : LoadStands(n) => LoadStands(n)'
           /\ \A t, x : Looked(t, x) => Looked(t, x)'
           /\ \A x : Right(x) => Right(x)'
  <1>1. /\ nowMs' = nowMs
        /\ \A p : decide(p, FALSE)' = decide(p, FALSE)
        /\ \A p : Blocked(p) => Blocked(p)'
    BY StaysDecided
  <1>2. CheckedBefore'
    BY <1>1 DEF CheckedBefore, Follows
  <1>3. \A n : LoadStands(n) => LoadStands(n)'
    BY <1>1 DEF LoadStands
  <1>4. \A x : Right(x) => Right(x)'
    BY <1>1 DEF Right
  <1>5. \A t, x : Looked(t, x) => Looked(t, x)'
    BY <1>1, <1>4 DEF Looked
  <1>6. QED
    BY <1>2, <1>3, <1>4, <1>5

\* A tab is where it was and goes where it went.
SameWay(t) == /\ tab'[t].next = tab[t].next /\ tab'[t].slipped = tab[t].slipped
              /\ tab'[t].shown = tab[t].shown /\ tab'[t].at = tab[t].at

LEMMA SameWayKeeps ==
    ASSUME Follows, NEW t \in Tab, SameWay(t),
           \A n : LoadStands(n) => LoadStands(n)', \A s, x : Looked(s, x) => Looked(s, x)'
    PROVE  LoadStands(tab[t].next)' /\ Looked(t, tab[t])'
  <1>1. PICK x, y : x = tab[t] /\ y = tab'[t]
    OBVIOUS
  <1>2. PICK n : n = x.next
    OBVIOUS
  <1>3. /\ y.next = n /\ y.slipped = x.slipped /\ y.shown = x.shown /\ y.at = x.at
        /\ LoadStands(n) /\ Looked(t, x)
    BY <1>1, <1>2 DEF SameWay, Follows
  <1>4. LoadStands(n)' /\ Looked(t, x)'
    BY <1>3
  <1>5. LoadStands(y.next)' /\ Looked(t, y)'
    BY <1>2, <1>3, <1>4 DEF Looked, Right
  <1>6. QED
    BY <1>1, <1>5

\* Nothing that a tab is judged by has changed.
Calm == /\ UNCHANGED <<setting, now>> /\ \A t \in Tab : SameWay(t)
        /\ worker'.up = worker.up /\ (worker.mode = "native" => worker'.mode = "native") /\ worker'.born = worker.born
        /\ worker'.snap = worker.snap /\ worker'.filters = worker.filters /\ worker'.anchor = worker.anchor
        /\ worker'.spent = worker.spent /\ worker'.recheck = worker.recheck /\ worker'.checked = worker.checked
        /\ worker'.listed = worker.listed

LEMMA CalmFollows ==
    ASSUME TypeInv, TypeInv', FollowInv, Calm
    PROVE  FollowInv'
  <1>1. SpentOpened'
    BY DEF FollowInv, SpentOpened, Calm, Contents
  <1>2. ASSUME worker'.mode # "native" PROVE Follows'
    <2>1. Follows
      BY <1>2 DEF FollowInv, Calm
    <2>2. SameJudge
      BY DEF SameJudge, Calm
    <2>3. /\ CheckedBefore'
          /\ \A n : LoadStands(n) => LoadStands(n)'
          /\ \A t, x : Looked(t, x) => Looked(t, x)'
      BY <1>1, <2>1, <2>2, FollowCarry DEF Calm
    <2>4. ASSUME NEW t \in Tab PROVE LoadStands(tab[t].next)' /\ Looked(t, tab[t])'
      BY <2>1, <2>3, <2>4, SameWayKeeps DEF Calm
    <2>5. QED
      BY <2>3, <2>4 DEF Follows
  <1>3. QED
    BY <1>1, <1>2 DEF FollowInv

\* After a change of what tabs are judged by they are yet to be looked at.
LEMMA UnlookedFollows ==
    ASSUME TypeInv, TypeInv', SpentOpened', Unsettled, UNCHANGED setting,
           worker'.recheck \/ worker'.checked = None
    PROVE  FollowInv'
  <1>1. nowMs' \in Int /\ None \notin Int
    <2>1. now' \in Int /\ worker'.born \in Int
      BY DEF TypeInv, CountsOK, WorkerOK
    <2>2. worker'.anchor = None \/ (worker'.anchor.server \in Int /\ worker'.anchor.perf \in Int)
      BY DEF TypeInv, WorkerOK, MaybeClock, Clock
    <2>3. nowMs' \in Int
      BY <2>1, <2>2 DEF nowMs
    <2>4. QED
      BY <2>3, WindowsAssumption DEF TypeInv, SettingOK
  <1>2. CheckedBefore'
    BY DEF CheckedBefore
  <1>3. ASSUME NEW t \in Tab PROVE LoadStands(tab[t].next)' /\ Looked(t, tab[t])'
    <2>1. PICK x, y : x = tab[t] /\ y = tab'[t]
      OBVIOUS
    <2>2. TabOK(x) /\ y = Doubted(x) /\ SettingOK
      BY <2>1 DEF TypeInv, TabsOK, TabsIn, Unsettled
    <2>3. y.next # None => y.next.at = "sent" \/ ~y.next.stands
      BY <2>2, DoubtedTab
    <2>4. LoadStands(y.next)' /\ Looked(t, y)'
      BY <1>1, <2>3 DEF LoadStands, Looked
    <2>5. QED
      BY <2>1, <2>4
  <1>4. QED
    BY <1>2, <1>3 DEF FollowInv, Follows

-----------------------------------------------------------------------------
(* The steps that change nothing a tab is judged by. *)

LEMMA CalmPages ==
    ASSUME TypeInv, NEW t \in Tab,
           MessageStep(t) \/ ReadSnapshot(t) \/ refreshFromSnapshot(t) \/ Ask(t) \/ TimesOut(t)
    PROVE  Calm
  <1>1. UNCHANGED <<setting, now, worker>>
    BY DEF MessageStep, requestAccess, postAccessRequest, Told, NotSent, ReadAsks, recordAsk, ReadSnapshot,
           refreshFromSnapshot, Ask, TimesOut
  <1>2. PICK old : old = tab[t]
    OBVIOUS
  <1>3. DOMAIN tab = Tab /\ DOMAIN old = {"shown", "at", "next", "slipped", "mode", "askedAt", "local"}
    BY <1>2 DEF TypeInv, TabsOK, TabsIn, TabOK
  <1>4. CASE UNCHANGED tab
    BY <1>1, <1>4 DEF Calm, SameWay
  <1>5. CASE \E mode : Shows(t, mode)
    <2>1. PICK mode : tab' = [tab EXCEPT ![t].mode = mode]
      BY <1>5 DEF Shows
    <2>2. PICK new : new = [old EXCEPT !.mode = mode]
      OBVIOUS
    <2>3. tab' = [tab EXCEPT ![t] = new]
      BY <1>2, <2>1, <2>2
    <2>4. new.shown = old.shown /\ new.at = old.at /\ new.next = old.next /\ new.slipped = old.slipped
      BY <1>3, <2>2
    <2>5. \A s \in Tab : SameWay(s)
      BY <1>2, <1>3, <2>3, <2>4 DEF SameWay
    <2>6. QED
      BY <1>1, <2>5 DEF Calm
  <1>6. CASE recordAsk(t)
    <2>1. PICK new : new = [old EXCEPT !.mode = "asked", !.askedAt = now]
      OBVIOUS
    <2>2. tab' = [tab EXCEPT ![t] = new]
      BY <1>2, <1>6, <2>1 DEF recordAsk
    <2>3. new.shown = old.shown /\ new.at = old.at /\ new.next = old.next /\ new.slipped = old.slipped
      BY <1>3, <2>1
    <2>4. \A s \in Tab : SameWay(s)
      BY <1>2, <1>3, <2>2, <2>3 DEF SameWay
    <2>5. QED
      BY <1>1, <2>4 DEF Calm
  <1>7. CASE ReadSnapshot(t)
    <2>1. PICK local : tab' = [tab EXCEPT ![t].local = local]
      BY <1>7 DEF ReadSnapshot
    <2>2. PICK new : new = [old EXCEPT !.local = local]
      OBVIOUS
    <2>3. tab' = [tab EXCEPT ![t] = new]
      BY <1>2, <2>1, <2>2
    <2>4. new.shown = old.shown /\ new.at = old.at /\ new.next = old.next /\ new.slipped = old.slipped
      BY <1>3, <2>2
    <2>5. \A s \in Tab : SameWay(s)
      BY <1>2, <1>3, <2>3, <2>4 DEF SameWay
    <2>6. QED
      BY <1>1, <2>5 DEF Calm
  <1>8. CASE refreshFromSnapshot(t)
    <2>1. PICK local : local = old.local
      OBVIOUS
    <2>2. PICK remote : tab' = [tab EXCEPT ![t].local = "unread",
                         ![t].mode = IF local = "approved" THEN "approved"
                                     ELSE IF remote # "none" THEN remote
                                     ELSE IF local = "declined" /\ tab[t].askedAt > 0 THEN "declined"
                                     ELSE @]
      BY <1>2, <1>8, <2>1 DEF refreshFromSnapshot
    <2>3. PICK mode : mode = IF local = "approved" THEN "approved"
                             ELSE IF remote # "none" THEN remote
                             ELSE IF local = "declined" /\ tab[t].askedAt > 0 THEN "declined"
                             ELSE old.mode
      OBVIOUS
    <2>4. PICK new : new = [old EXCEPT !.local = "unread", !.mode = mode]
      OBVIOUS
    <2>5. tab' = [tab EXCEPT ![t] = new]
      BY <1>2, <1>3, <2>2, <2>3, <2>4
    <2>6. new.shown = old.shown /\ new.at = old.at /\ new.next = old.next /\ new.slipped = old.slipped
      BY <1>3, <2>4
    <2>7. \A s \in Tab : SameWay(s)
      BY <1>2, <1>3, <2>5, <2>6 DEF SameWay
    <2>8. QED
      BY <1>1, <2>7 DEF Calm
  <1>9. UNCHANGED tab \/ (\E mode : Shows(t, mode)) \/ recordAsk(t) \/ ReadSnapshot(t) \/ refreshFromSnapshot(t)
    BY DEF MessageStep, requestAccess, postAccessRequest, Told, NotSent, ReadAsks, Ask, TimesOut
  <1>10. QED
    BY <1>4, <1>5, <1>6, <1>7, <1>8, <1>9

\* The loops and the options page until they change the policy, the parent and the rest.
Quiet == \/ StartPoll \/ refreshDeviceTokenIfDue \/ Reread \/ Polled \/ Verify \/ StartFilters \/ FiltersPolled
         \/ OptionsStep \/ CloseOptions \/ TokenDue
         \/ \E k \in Jobs : ConfigStep(k)
         \/ \E r \in reports : consumeGrant(r)
         \/ \E d \in Link : Edit(d) \/ Remove(d)
         \/ \E given \in BOOLEAN : enroll(given) \/ Disconnect(given)

LEMMA CalmQuiet ==
    ASSUME UNCHANGED vars \/ Quiet
    PROVE  Calm
  <1>1. CASE UNCHANGED vars
    BY <1>1 DEF vars, Calm, SameWay
  <1>2. CASE Quiet
    <2>1. UNCHANGED <<setting, now, worker, tab>>
      <3>1. CASE \/ StartPoll \/ refreshDeviceTokenIfDue \/ Reread \/ Polled \/ Verify \/ StartFilters \/ FiltersPolled
                 \/ \E k \in Jobs : ConfigStep(k)
        BY <3>1 DEF StartPoll, refreshDeviceTokenIfDue, Reread, Polled, Verify, StartFilters, FiltersPolled, ConfigStep,
                    ReadConfig, WriteConfig
      <3>2. CASE OptionsStep \/ CloseOptions \/ TokenDue
        BY <3>2 DEF OptionsStep, ConfigStep, ReadConfig, WriteConfig, pinTrustAnchor, setParentWord, clearLocalPolicy,
                    CloseOptions, TokenDue
      <3>3. CASE \/ \E r \in reports : consumeGrant(r)
                 \/ \E d \in Link : Edit(d) \/ Remove(d)
                 \/ \E given \in BOOLEAN : enroll(given) \/ Disconnect(given)
        BY <3>3 DEF consumeGrant, Edit, Remove, enroll, Disconnect
      <3>4. QED
        BY <1>2, <3>1, <3>2, <3>3 DEF Quiet
    <2>2. QED
      BY <2>1 DEF Calm, SameWay
  <1>3. QED
    BY <1>1, <1>2

\* The source is chosen, the stored policy read, and what a host does.

\* The source is chosen, the stored policy read, and what a host does.
LEMMA SourceFollows ==
    ASSUME TypeInv, TypeInv', FollowInv, ChooseSource \/ ReadCache \/ HostStep \/ HostGone
    PROVE  FollowInv'
  <1>1. WorkerOK
    BY DEF TypeInv
  <1>2. CASE ChooseSource \/ ReadCache
    <2>1. PICK mode, cache : mode = worker'.mode /\ cache = worker'.cache
      OBVIOUS
    <2>2. /\ UNCHANGED <<setting, now, tab>>
          /\ worker' = [worker EXCEPT !.cache = cache] \/ (worker' = [worker EXCEPT !.mode = mode] /\ worker.mode = "none")
      BY <1>1, <1>2, <2>1 DEF ChooseSource, ReadCache, WorkerOK
    <2>3. Calm
      BY <1>1, <2>2 DEF Calm, SameWay, WorkerOK
    <2>4. QED
      BY <2>3, CalmFollows
  <1>3. CASE HostStep \/ HostGone
    <2>1. worker.mode = "native" /\ UNCHANGED setting
      BY <1>1, <1>3 DEF HostStep, HostGone, connectNativeHost, HostSnapshot, HostFilters, WorkerOK
    <2>2. worker'.mode = "native" /\ worker'.spent = worker.spent
      BY <1>1, <1>3, <2>1 DEF HostStep, HostGone, connectNativeHost, HostSnapshot, HostFilters, WorkerOK
    <2>3. QED
      BY <2>1, <2>2 DEF FollowInv, SpentOpened, Contents
  <1>4. QED
    BY <1>2, <1>3

-----------------------------------------------------------------------------
(* The worker's life, and what changes the policy. *)

LEMMA LifeFollows ==
    ASSUME TypeInv, TypeInv', FollowInv, Start
    PROVE  FollowInv'
  <1>1. WorkerOK /\ worker = Asleep
    BY DEF TypeInv, WorkerOK, Start
  <1>2. UNCHANGED <<setting, now, tab>>
    BY DEF Start
  <1>3. PICK cache : worker' = [Asleep EXCEPT !.up = TRUE, !.born = now, !.cache = cache]
    BY DEF Start
  <1>4. worker'.spent = {} /\ worker'.checked = None
    BY <1>3 DEF Asleep
  <1>5. nowMs' # None
    <2>1. worker'.anchor = None /\ now \in Int
      BY <1>3 DEF Asleep, TypeInv, CountsOK
    <2>2. nowMs' = now
      BY <1>2, <2>1 DEF nowMs
    <2>3. QED
      BY <2>1, <2>2, WindowsAssumption DEF TypeInv, SettingOK
  <1>6. ASSUME NEW t \in Tab PROVE LoadStands(tab[t].next)' /\ Looked(t, tab[t])'
    <2>1. PICK x : x = tab[t]
      OBVIOUS
    <2>2. LoadStands(x.next)
      BY <1>1, <2>1 DEF FollowInv, Follows, Asleep
    <2>3. ~(x.next # None /\ x.next.at # "sent" /\ x.next.stands)
      BY <1>1, <2>2 DEF LoadStands, Asleep
    <2>4. LoadStands(x.next)' /\ Looked(t, x)'
      BY <1>4, <1>5, <2>3 DEF LoadStands, Looked
    <2>5. QED
      BY <1>2, <2>1, <2>4
  <1>7. CheckedBefore' /\ SpentOpened'
    BY <1>4 DEF CheckedBefore, SpentOpened
  <1>8. QED
    BY <1>6, <1>7 DEF FollowInv, Follows

LEMMA ChangeFollows ==
    ASSUME TypeInv, TypeInv', FollowInv,
           Kill \/ RestoreSnapshot \/ restoreCachedPolicy \/ applySnapshot \/ applyCategoryFilters
    PROVE  FollowInv'
  <1>1. WorkerOK
    BY DEF TypeInv
  <1>2. Unsettled /\ UNCHANGED setting
    BY DEF Kill, RestoreSnapshot, restoreCachedPolicy, applySnapshot, applyCategoryFilters
  <1>3. worker'.spent \subseteq worker.spent /\ (worker'.recheck \/ worker'.checked = None)
    <2>1. CASE Kill
      BY <2>1 DEF Kill, Asleep
    <2>2. CASE RestoreSnapshot
      <3>1. PICK cache, snap : /\ cache = [worker.cache EXCEPT !.at = "filters"]
                               /\ snap = worker.cache.snap
        OBVIOUS
      <3>2. \/ worker' = [worker EXCEPT !.cache = cache, !.checked = None]
            \/ worker' = [worker EXCEPT !.cache = cache, !.checked = None, !.snap = snap]
            \/ worker' = [worker EXCEPT !.cache = cache, !.checked = None, !.snap = None]
        BY <2>2, <3>1 DEF RestoreSnapshot
      <3>3. QED
        BY <1>1, <3>2 DEF WorkerOK
    <2>3. CASE restoreCachedPolicy
      <3>1. PICK filters, anchor :
                worker' = [worker EXCEPT !.cache = None, !.recheck = TRUE, !.filters = filters, !.anchor = anchor]
        BY <2>3 DEF restoreCachedPolicy
      <3>2. QED
        BY <1>1, <3>1 DEF WorkerOK
    <2>4. CASE applySnapshot
      <3>1. PICK body, spent, anchor : body = task["policy"].body /\ spent = Remembered(body.snap) /\ anchor = Anchor(body.at)
        OBVIOUS
      <3>2. worker' = [worker EXCEPT !.snap = body.snap, !.spent = spent, !.anchor = anchor, !.recheck = TRUE]
        BY <2>4, <3>1 DEF applySnapshot
      <3>3. spent \subseteq worker.spent
        BY <3>1 DEF Remembered
      <3>4. QED
        BY <1>1, <3>2, <3>3 DEF WorkerOK
    <2>5. CASE applyCategoryFilters
      BY <1>1, <2>5 DEF applyCategoryFilters, WorkerOK
    <2>6. QED
      BY <2>1, <2>2, <2>3, <2>4, <2>5
  <1>4. SpentOpened'
    BY <1>2, <1>3 DEF FollowInv, SpentOpened, Contents
  <1>5. QED
    BY <1>2, <1>3, <1>4, UnlookedFollows

\* Later, nothing has been looked at.
LEMMA TickFollows ==
    ASSUME TypeInv, TypeInv', FollowInv, Tick
    PROVE  FollowInv'
  <1>1. /\ UNCHANGED <<setting, worker>> /\ now' = now + 1 /\ Unsettled
    BY DEF Tick
  <1>2. PICK at, born : at = now /\ born = worker.born
    OBVIOUS
  <1>3. at \in Int /\ born \in Int /\ nowMs \in Int /\ None \notin Int
    <2>1. at \in Int /\ born \in Int
      BY <1>2 DEF TypeInv, CountsOK, WorkerOK
    <2>2. nowMs \in Int
      BY TimeTyped DEF TypeInv
    <2>3. None \notin Int
      BY WindowsAssumption DEF TypeInv, SettingOK
    <2>4. QED
      BY <2>1, <2>2, <2>3
  <1>4. nowMs' = nowMs + 1
    <2>1. worker.anchor = None \/ (worker.anchor.server \in Int /\ worker.anchor.perf \in Int)
      BY DEF TypeInv, WorkerOK, MaybeClock, Clock
    <2>2. CASE worker.anchor = None
      BY <1>1, <2>2 DEF nowMs
    <2>3. CASE worker.anchor # None
      <3>1. PICK s, p : s = worker.anchor.server /\ p = worker.anchor.perf
        OBVIOUS
      <3>2. nowMs = s + (at - born) - p
        BY <1>2, <2>3, <3>1 DEF nowMs
      <3>3. nowMs' = s + ((at + 1) - born) - p
        BY <1>1, <1>2, <2>3, <3>1 DEF nowMs
      <3>4. s \in Int /\ p \in Int
        BY <2>1, <2>3, <3>1
      <3>5. QED
        BY <1>3, <3>2, <3>3, <3>4
    <2>4. QED
      BY <2>2, <2>3
  <1>5. SpentOpened'
    BY <1>1 DEF FollowInv, SpentOpened, Contents
  <1>6. ASSUME worker'.mode # "native" PROVE Follows'
    <2>1. Follows
      BY <1>1, <1>6 DEF FollowInv
    <2>2. PICK c : c = worker.checked
      OBVIOUS
    <2>3. PICK m, n : m = nowMs /\ n = nowMs'
      OBVIOUS
    <2>4. m \in Int /\ n = m + 1 /\ (c = None \/ c \in Int) /\ n # None
      <3>1. m \in Int /\ n = m + 1 /\ (c = None \/ c \in Int)
        BY <1>3, <1>4, <2>2, <2>3 DEF TypeInv, WorkerOK
      <3>2. n \in Int
        BY <3>1
      <3>3. QED
        BY <1>3, <3>1, <3>2
    <2>5. ~worker.recheck /\ c # None => c <= m
      BY <2>1, <2>2, <2>3 DEF Follows, CheckedBefore
    <2>6. (~worker.recheck /\ c # None => c <= n) /\ (worker.recheck \/ c # n)
      BY <2>4, <2>5
    <2>7. CheckedBefore'
      BY <1>1, <2>2, <2>3, <2>6 DEF CheckedBefore
    <2>8. ASSUME NEW t \in Tab PROVE LoadStands(tab[t].next)' /\ Looked(t, tab[t])'
      <3>1. PICK x, y : x = tab[t] /\ y = tab'[t]
        OBVIOUS
      <3>2. TabOK(x) /\ y = Doubted(x) /\ SettingOK
        BY <1>1, <3>1 DEF TypeInv, TabsOK, TabsIn, Unsettled
      <3>3. y.next # None => y.next.at = "sent" \/ ~y.next.stands
        BY <3>2, DoubtedTab
      <3>4. LoadStands(y.next)' /\ Looked(t, y)'
        BY <1>1, <2>2, <2>3, <2>6, <3>3 DEF LoadStands, Looked
      <3>5. QED
        BY <3>1, <3>4
    <2>9. QED
      BY <2>7, <2>8 DEF Follows
  <1>7. QED
    BY <1>5, <1>6 DEF FollowInv

-----------------------------------------------------------------------------
(* The tabs. *)

\* One tab goes on; the worker may spend a grant.
LEMMA OneTabFollows ==
    ASSUME TypeInv, TypeInv', FollowInv, SameJudge, worker.spent \subseteq worker'.spent, SpentOpened',
           worker'.up = worker.up, worker'.mode = worker.mode, worker'.recheck = worker.recheck,
           worker'.checked = worker.checked, worker'.listed = worker.listed,
           NEW t \in Tab, NEW new, tab' = [tab EXCEPT ![t] = new],
           worker.mode # "native" => LoadStands(new.next)' /\ Looked(t, new)'
    PROVE  FollowInv'
  <1>1. DOMAIN tab = Tab
    BY DEF TypeInv, TabsOK, TabsIn
  <1>2. ASSUME worker'.mode # "native" PROVE Follows'
    <2>1. Follows
      BY <1>2 DEF FollowInv
    <2>2. /\ CheckedBefore'
          /\ \A n : LoadStands(n) => LoadStands(n)'
          /\ \A s, x : Looked(s, x) => Looked(s, x)'
      BY <2>1, FollowCarry
    <2>3. ASSUME NEW s \in Tab PROVE LoadStands(tab[s].next)' /\ Looked(s, tab[s])'
      <3>1. CASE s = t
        <4>1. tab'[s] = new
          BY <1>1, <3>1
        <4>2. PICK y : y = tab'[s]
          OBVIOUS
        <4>3. LoadStands(y.next)' /\ Looked(s, y)'
          BY <1>2, <3>1, <4>1, <4>2
        <4>4. QED
          BY <4>2, <4>3
      <3>2. CASE s # t
        <4>1. SameWay(s)
          BY <1>1, <3>2 DEF SameWay
        <4>2. QED
          BY <2>1, <2>2, <4>1, SameWayKeeps
      <3>3. QED
        BY <3>1, <3>2
    <2>4. QED
      BY <2>2, <2>3 DEF Follows
  <1>3. QED
    BY <1>2 DEF FollowInv

\* A tab that is sent somewhere has yet to be judged.
LEMMA SentFollows ==
    ASSUME TypeInv, TypeInv', FollowInv, NEW t \in Tab, NEW p \in Pages,
           Navigate(t, p) \/ (OpenIt(t) /\ p = tab[t].shown)
    PROVE  FollowInv'
  <1>1. PICK x, go : x = tab[t] /\ go = Going(p)
    OBVIOUS
  <1>2. PICK new : new = [x EXCEPT !.next = go]
    OBVIOUS
  <1>3. UNCHANGED <<setting, now, worker>> /\ tab' = [tab EXCEPT ![t] = new]
    BY <1>1, <1>2 DEF Navigate, OpenIt
  <1>4. TabOK(x) /\ SettingOK
    BY <1>1 DEF TypeInv, TabsOK, TabsIn
  <1>5. new.next = go
    BY <1>2, <1>4 DEF TabOK
  <1>6. go.at = "sent" /\ go \in TripsOf(setting)
    BY <1>1 DEF Going, TripsOf, Pages
  <1>7. go # None
    BY <1>4, <1>6, WindowsAssumption DEF SettingOK
  <1>8. LoadStands(new.next)' /\ Looked(t, new)'
    BY <1>5, <1>6, <1>7 DEF LoadStands, Looked
  <1>9. SameJudge /\ SpentOpened'
    BY <1>3 DEF SameJudge, FollowInv, SpentOpened, Contents
  <1>10. QED
    BY <1>3, <1>8, <1>9, OneTabFollows

LEMMA LoadFollows ==
    ASSUME TypeInv, TypeInv', FollowInv, NEW t \in Tab, onBeforeRequestBlocking(t)
    PROVE  FollowInv'
  <1>1. PICK x, next : x = tab[t] /\ next = x.next
    OBVIOUS
  <1>2. PICK p : p = next.page
    OBVIOUS
  <1>3. PICK v : v = decide(p, TRUE)
    OBVIOUS
  <1>4. PICK go : go = IF v.action = "BLOCK" THEN ToBlockPage(p) ELSE [next EXCEPT !.at = "loading"]
    OBVIOUS
  <1>5. PICK new : new = [x EXCEPT !.next = go]
    OBVIOUS
  <1>6. /\ UNCHANGED <<setting, now>> /\ worker.up /\ next # None
        /\ tab' = [tab EXCEPT ![t] = new] /\ spendOnce(decide(p, TRUE))
    BY <1>1, <1>2, <1>3, <1>4, <1>5 DEF onBeforeRequestBlocking
  <1>7. TabOK(x) /\ SettingOK /\ WorkerOK /\ SpentOpened
    BY <1>1 DEF TypeInv, TabsOK, TabsIn, FollowInv
  <1>8. next \in TripsOf(setting) /\ new.next = go /\ p \in Pages
    BY <1>1, <1>2, <1>5, <1>6, <1>7 DEF TabOK, NextOK, TripsOf, Pages
  <1>9. /\ SpentOpened' /\ SameJudge /\ worker.spent \subseteq worker'.spent
        /\ worker'.up = worker.up /\ worker'.mode = worker.mode /\ worker'.recheck = worker.recheck
        /\ worker'.checked = worker.checked /\ worker'.listed = worker.listed
    BY <1>6, <1>7, SpendOpens
  <1>10. /\ decide(p, FALSE)' = decide(p, FALSE)
         /\ Blocked(p) => Blocked(p)'
    BY <1>9, StaysDecided
  <1>11. CASE v.action = "BLOCK"
    <2>1. go = ToBlockPage(p)
      BY <1>4, <1>11
    <2>2. go.page = p /\ go.at = "blocking" /\ go \in TripsOf(setting)
      BY <1>8, <2>1 DEF ToBlockPage, TripsOf, Pages
    <2>3. go # None
      BY <1>7, <2>2, WindowsAssumption DEF SettingOK
    <2>4. Blocked(p)'
      BY <1>3, <1>10, <1>11 DEF Blocked
    <2>5. LoadStands(new.next)' /\ Looked(t, new)'
      BY <1>6, <1>8, <1>9, <2>2, <2>3, <2>4 DEF LoadStands, Looked
    <2>6. QED
      BY <1>6, <1>9, <2>5, OneTabFollows
  <1>12. CASE v.action # "BLOCK"
    <2>1. go = [next EXCEPT !.at = "loading"]
      BY <1>4, <1>12
    <2>2. go.page = p /\ go.at = "loading" /\ go \in TripsOf(setting)
      BY <1>2, <1>8, <2>1 DEF TripsOf
    <2>3. go # None
      BY <1>7, <2>2, WindowsAssumption DEF SettingOK
    <2>4. ~Blocked(p)
      BY <1>3, <1>12 DEF Blocked
    <2>5. decide(p, FALSE).action # "BLOCK"
      BY <1>7, <2>4, LetThrough
    <2>6. (decide(p, FALSE).action # "BLOCK")'
      BY <1>10, <2>5
    <2>7. LoadStands(new.next)' /\ Looked(t, new)'
      BY <1>6, <1>8, <1>9, <2>2, <2>3, <2>6 DEF LoadStands, Looked
    <2>8. QED
      BY <1>6, <1>9, <2>7, OneTabFollows
  <1>13. QED
    BY <1>11, <1>12

LEMMA CommitFollows ==
    ASSUME TypeInv, TypeInv', FollowInv, NEW t \in Tab, Commit(t)
    PROVE  FollowInv'
  <1>1. PICK next, parked : next = tab[t].next /\ parked = (next.at = "blocking")
    OBVIOUS
  <1>2. PICK asked, slipped : asked = (IF parked THEN storage.asks[next.page] ELSE 0) /\ slipped = ~next.stands
    OBVIOUS
  <1>3. PICK at, mode : /\ at = (IF parked THEN "parked" ELSE "open")
                        /\ mode = (IF ~parked THEN "none" ELSE IF asked > 0 THEN "asked" ELSE "idle")
    OBVIOUS
  <1>4. PICK new : new = [NoTab EXCEPT !.shown = next.page, !.at = at, !.mode = mode, !.askedAt = asked, !.slipped = slipped]
    OBVIOUS
  <1>5. /\ UNCHANGED <<setting, now, worker>> /\ next # None /\ next.at \in {"loading", "blocking"}
        /\ tab' = [tab EXCEPT ![t] = new]
    BY <1>1, <1>2, <1>3, <1>4 DEF Commit
  <1>6. new.next = None /\ new.shown = next.page /\ new.at = at /\ new.slipped = slipped
    BY <1>4 DEF NoTab
  <1>7. SameJudge /\ SpentOpened'
    BY <1>5 DEF SameJudge, FollowInv, SpentOpened, Contents
  <1>8. ASSUME worker.mode # "native" PROVE LoadStands(new.next)' /\ Looked(t, new)'
    <2>1. Follows
      BY <1>8 DEF FollowInv
    <2>2. LoadStands(next)
      BY <1>1, <2>1 DEF Follows
    <2>3. ~slipped => Right(new)
      BY <1>1, <1>2, <1>3, <1>5, <1>6, <2>2 DEF LoadStands, Right
    <2>4. Right(new) => Right(new)'
      BY <1>5, <1>7, <2>1, FollowCarry
    <2>5. QED
      BY <1>6, <2>3, <2>4 DEF LoadStands, Looked
  <1>9. QED
    BY <1>5, <1>7, <1>8, OneTabFollows

LEMMA RouteFollows ==
    ASSUME TypeInv, TypeInv', FollowInv, NEW t \in Tab, NEW p \in Pages, onHistoryStateUpdated(t, p)
    PROVE  FollowInv'
  <1>1. PICK x, v : x = tab[t] /\ v = decide(p, TRUE)
    OBVIOUS
  <1>2. PICK go : go = IF v.action = "BLOCK" THEN ToBlockPage(p) ELSE None
    OBVIOUS
  <1>3. PICK new : new = [x EXCEPT !.shown = p, !.slipped = FALSE, !.next = go]
    OBVIOUS
  <1>4. /\ UNCHANGED <<setting, now>> /\ worker.up /\ x.at = "open"
        /\ tab' = [tab EXCEPT ![t] = new] /\ spendOnce(decide(p, TRUE))
    BY <1>1, <1>2, <1>3 DEF onHistoryStateUpdated
  <1>5. TabOK(x) /\ SettingOK /\ WorkerOK /\ SpentOpened
    BY <1>1 DEF TypeInv, TabsOK, TabsIn, FollowInv
  <1>6. new.next = go /\ new.shown = p /\ new.at = "open"
    BY <1>3, <1>4, <1>5 DEF TabOK
  <1>7. /\ SpentOpened' /\ SameJudge /\ worker.spent \subseteq worker'.spent
        /\ worker'.up = worker.up /\ worker'.mode = worker.mode /\ worker'.recheck = worker.recheck
        /\ worker'.checked = worker.checked /\ worker'.listed = worker.listed
    BY <1>4, <1>5, SpendOpens
  <1>8. /\ decide(p, FALSE)' = decide(p, FALSE)
        /\ Blocked(p) => Blocked(p)'
    BY <1>7, StaysDecided
  <1>9. CASE v.action = "BLOCK"
    <2>1. go = ToBlockPage(p)
      BY <1>2, <1>9
    <2>2. go.page = p /\ go.at = "blocking" /\ go \in TripsOf(setting)
      BY <2>1 DEF ToBlockPage, TripsOf, Pages
    <2>3. go # None
      BY <1>5, <2>2, WindowsAssumption DEF SettingOK
    <2>4. Blocked(p)'
      BY <1>1, <1>8, <1>9 DEF Blocked
    <2>5. LoadStands(new.next)' /\ Looked(t, new)'
      BY <1>4, <1>6, <1>7, <2>2, <2>3, <2>4 DEF LoadStands, Looked
    <2>6. QED
      BY <1>4, <1>7, <2>5, OneTabFollows
  <1>10. CASE v.action # "BLOCK"
    <2>1. ~Blocked(p)
      BY <1>1, <1>10 DEF Blocked
    <2>2. decide(p, FALSE).action # "BLOCK"
      BY <1>5, <2>1, LetThrough
    <2>3. Right(new)'
      BY <1>6, <1>8, <2>2 DEF Right
    <2>4. LoadStands(new.next)' /\ Looked(t, new)'
      BY <1>2, <1>6, <1>10, <2>3 DEF LoadStands, Looked
    <2>5. QED
      BY <1>4, <1>7, <2>4, OneTabFollows
  <1>11. QED
    BY <1>9, <1>10


\* Every tab is listed ...
LEMMA QueryFollows ==
    ASSUME TypeInv, TypeInv', FollowInv, QueryTabs
    PROVE  FollowInv'
  <1>1. PICK checked, listed : checked = nowMs /\ listed = tab
    OBVIOUS
  <1>2. /\ UNCHANGED <<setting, now, tab>>
        /\ worker' = [worker EXCEPT !.recheck = FALSE, !.listed = listed, !.checked = checked]
    BY <1>1 DEF QueryTabs
  <1>3. WorkerOK /\ DOMAIN tab = Tab
    BY DEF TypeInv, TabsOK, TabsIn
  <1>4. /\ worker'.listed = listed /\ worker'.checked = checked /\ worker'.mode = worker.mode /\ worker'.up = worker.up
        /\ worker'.spent = worker.spent /\ worker'.snap = worker.snap /\ worker'.filters = worker.filters
        /\ worker'.anchor = worker.anchor /\ worker'.born = worker.born
    BY <1>2, <1>3 DEF WorkerOK
  <1>5. SameJudge /\ SpentOpened'
    BY <1>2, <1>4 DEF SameJudge, FollowInv, SpentOpened, Contents
  <1>6. /\ nowMs' = nowMs
        /\ \A q : decide(q, FALSE)' = decide(q, FALSE)
        /\ \A q : Blocked(q) => Blocked(q)'
    BY <1>4, <1>5, StaysDecided
  <1>7. CheckedBefore'
    <2>1. checked \in Int /\ nowMs' = checked
      BY <1>1, <1>6, TimeTyped DEF TypeInv
    <2>2. QED
      BY <1>4, <2>1 DEF CheckedBefore
  <1>8. ASSUME worker'.mode # "native", NEW t \in Tab PROVE LoadStands(tab[t].next)' /\ Looked(t, tab[t])'
    <2>1. PICK x : x = tab[t]
      OBVIOUS
    <2>2. LoadStands(x.next)
      BY <1>4, <1>8, <2>1 DEF FollowInv, Follows
    <2>3. LoadStands(x.next)'
      BY <1>4, <1>6, <2>2 DEF LoadStands
    <2>4. listed[t] = x /\ listed # <<>>
      BY <1>1, <1>3, <2>1
    <2>5. Looked(t, x)'
      BY <1>4, <2>4 DEF Looked
    <2>6. QED
      BY <1>2, <2>1, <2>3, <2>5
  <1>9. QED
    BY <1>5, <1>7, <1>8 DEF FollowInv, Follows

\* ... and each that showed what it should not is sent on.
LEMMA RecheckFollows ==
    ASSUME TypeInv, TypeInv', FollowInv, reevaluateOpenTabs
    PROVE  FollowInv'
  <1>1. /\ UNCHANGED <<setting, now>> /\ worker.listed # <<>>
        /\ tab' = [t \in Tab |-> Rechecked(t)] /\ worker' = [worker EXCEPT !.listed = <<>>]
    BY DEF reevaluateOpenTabs
  <1>2. WorkerOK /\ SettingOK /\ SpentOpened
    BY DEF TypeInv, FollowInv
  <1>3. worker.up /\ TabsIn(worker.listed)
    BY <1>1, <1>2 DEF WorkerOK, Asleep
  <1>4. /\ worker'.listed = <<>> /\ worker'.checked = worker.checked /\ worker'.mode = worker.mode
        /\ worker'.up = worker.up /\ worker'.recheck = worker.recheck
        /\ worker'.spent = worker.spent /\ worker'.snap = worker.snap /\ worker'.filters = worker.filters
        /\ worker'.anchor = worker.anchor /\ worker'.born = worker.born
    BY <1>1, <1>2 DEF WorkerOK
  <1>5. SameJudge /\ SpentOpened'
    BY <1>1, <1>2, <1>4 DEF SameJudge, SpentOpened, Contents
  <1>6. /\ nowMs' = nowMs
        /\ \A q : decide(q, FALSE)' = decide(q, FALSE)
        /\ \A q : Blocked(q)' <=> Blocked(q)
    BY <1>4, <1>5, JudgedAsBefore DEF Blocked
  <1>7. CheckedBefore => CheckedBefore'
    BY <1>4, <1>6 DEF CheckedBefore
  <1>8. ASSUME worker.mode # "native", NEW t \in Tab PROVE LoadStands(tab[t].next)' /\ Looked(t, tab[t])'
    <2>1. PICK was, x, y : was = worker.listed[t] /\ x = tab[t] /\ y = tab'[t]
      OBVIOUS
    <2>2. TabOK(was) /\ TabOK(x) /\ LoadStands(x.next) /\ Looked(t, x) /\ y = Rechecked(t)
      BY <1>1, <1>3, <1>8, <2>1 DEF TabsOK, TabsIn, TypeInv, FollowInv, Follows
    <2>3. LoadStands(x.next)'
      BY <1>4, <1>6, <2>2 DEF LoadStands
    <2>4. CASE was.at = "parked" /\ ~Blocked(was.shown)
      <3>1. PICK go : go = Going(was.shown)
        OBVIOUS
      <3>2. y = [x EXCEPT !.next = go]
        BY <2>1, <2>2, <2>4, <3>1 DEF Rechecked
      <3>3. y.next = go /\ go.at = "sent" /\ go \in TripsOf(setting)
        BY <2>2, <2>4, <3>1, <3>2 DEF TabOK, Going, TripsOf, Pages
      <3>4. go # None
        BY <1>2, <3>3, WindowsAssumption DEF SettingOK
      <3>5. LoadStands(y.next)' /\ Looked(t, y)'
        BY <3>3, <3>4 DEF LoadStands, Looked
      <3>6. QED
        BY <2>1, <3>5
    <2>5. CASE was.at = "open" /\ Blocked(was.shown)
      <3>1. PICK go : go = ToBlockPage(was.shown)
        OBVIOUS
      <3>2. y = [x EXCEPT !.next = go]
        BY <2>1, <2>2, <2>5, <3>1 DEF Rechecked
      <3>3. y.next = go /\ go.at = "blocking" /\ go.page = was.shown /\ go \in TripsOf(setting)
        BY <2>2, <2>5, <3>1, <3>2 DEF TabOK, ToBlockPage, TripsOf, Pages
      <3>4. go # None
        BY <1>2, <3>3, WindowsAssumption DEF SettingOK
      <3>5. Blocked(was.shown)'
        BY <1>6, <2>5
      <3>6. LoadStands(y.next)' /\ Looked(t, y)'
        BY <1>3, <1>4, <3>3, <3>4, <3>5 DEF LoadStands, Looked
      <3>7. QED
        BY <2>1, <3>6
    <2>6. CASE ~(was.at = "parked" /\ ~Blocked(was.shown)) /\ ~(was.at = "open" /\ Blocked(was.shown))
      <3>1. CASE x.shown = was.shown /\ x.at = was.at
        <4>1. y = [x EXCEPT !.slipped = FALSE]
          BY <2>1, <2>2, <2>6, <3>1 DEF Rechecked
        <4>2. y.next = x.next /\ y.shown = x.shown /\ y.at = x.at
          BY <2>2, <4>1 DEF TabOK
        <4>3. was.at = "open" => decide(was.shown, FALSE).action # "BLOCK"
          BY <1>2, <2>6, LetThrough
        <4>4. Right(y)
          BY <2>6, <3>1, <4>2, <4>3 DEF Right
        <4>5. Right(y)'
          BY <1>6, <4>4 DEF Right
        <4>6. LoadStands(y.next)' /\ Looked(t, y)'
          BY <2>3, <4>2, <4>5 DEF Looked
        <4>7. QED
          BY <2>1, <4>6
      <3>2. CASE ~(x.shown = was.shown /\ x.at = was.at)
        <4>1. y = x
          BY <2>1, <2>2, <2>6, <3>2 DEF Rechecked
        <4>2. Right(x) => Right(x)'
          BY <1>6 DEF Right
        <4>3. Looked(t, x)'
          BY <1>4, <1>6, <2>1, <2>2, <3>2, <4>2 DEF Looked
        <4>4. QED
          BY <2>1, <2>3, <4>1, <4>3
      <3>3. QED
        BY <3>1, <3>2
    <2>7. QED
      BY <2>4, <2>5, <2>6
  <1>9. QED
    BY <1>4, <1>5, <1>7, <1>8 DEF FollowInv, Follows

LEMMA InitFollows ==
    ASSUME Init
    PROVE  FollowInv
  <1>1. worker = Asleep /\ tab = [t \in Tab |-> NoTab]
    BY DEF Init
  <1>2. SpentOpened /\ CheckedBefore
    BY <1>1 DEF SpentOpened, CheckedBefore, Asleep
  <1>3. nowMs # None
    <2>1. TypeInv
      BY InitTypes
    <2>2. QED
      BY <2>1, TimeTyped, WindowsAssumption DEF TypeInv, SettingOK
  <1>4. ASSUME NEW t \in Tab PROVE LoadStands(tab[t].next) /\ Looked(t, tab[t])
    <2>1. tab[t].next = None /\ worker.checked = None
      BY <1>1 DEF NoTab, Asleep
    <2>2. QED
      BY <1>3, <2>1 DEF LoadStands, Looked
  <1>5. QED
    BY <1>2, <1>4 DEF FollowInv, Follows

LEMMA StepFollows ==
    ASSUME TypeInv, TypeInv', FollowInv, [Next]_vars
    PROVE  FollowInv'
  <1>1. CASE UNCHANGED vars \/ Quiet
    BY <1>1, CalmQuiet, CalmFollows
  <1>2. CASE Kill \/ RestoreSnapshot \/ restoreCachedPolicy \/ applySnapshot \/ applyCategoryFilters
    BY <1>2, ChangeFollows
  <1>3. CASE Start \/ Tick
    BY <1>3, LifeFollows, TickFollows
  <1>4. CASE ChooseSource \/ ReadCache \/ HostStep \/ HostGone
    BY <1>4, SourceFollows
  <1>5. CASE QueryTabs \/ reevaluateOpenTabs
    BY <1>5, QueryFollows, RecheckFollows
  <1>6. CASE \E t \in Tab : MessageStep(t) \/ ReadSnapshot(t) \/ refreshFromSnapshot(t) \/ Ask(t) \/ TimesOut(t)
    BY <1>6, CalmPages, CalmFollows
  <1>7. CASE \E t \in Tab : TabStep(t)
    BY <1>7, LoadFollows, CommitFollows DEF TabStep
  <1>8. CASE \E t \in Tab : OpenIt(t) \/ \E p \in Pages : Navigate(t, p) \/ onHistoryStateUpdated(t, p)
    <2>1. PICK t \in Tab : OpenIt(t) \/ \E p \in Pages : Navigate(t, p) \/ onHistoryStateUpdated(t, p)
      BY <1>8
    <2>2. CASE OpenIt(t)
      <3>1. PICK p : p = tab[t].shown
        OBVIOUS
      <3>2. p \in Pages
        BY <2>2, <3>1 DEF OpenIt, TypeInv, TabsOK, TabsIn, TabOK
      <3>3. QED
        BY <2>2, <3>1, <3>2, SentFollows
    <2>3. CASE \E p \in Pages : Navigate(t, p) \/ onHistoryStateUpdated(t, p)
      BY <2>3, SentFollows, RouteFollows
    <2>4. QED
      BY <2>1, <2>2, <2>3
  <1>9. QED
    BY <1>1, <1>2, <1>3, <1>4, <1>5, <1>6, <1>7, <1>8
       DEF Next, WorkerStep, PolicyStep, FilterStep, ConfigStep, Quiet, Jobs

\* What the tabs show follows the policy (background.js, reevaluateOpenTabs): when
\* the worker has looked at the tabs and neither time nor the filters have moved
\* since, a tab that goes nowhere shows a page the policy does not close or the
\* block page of one it does.  Where a load was decided and what it went by has not
\* changed, its decision stands; and what a tab shows is right, or the tabs are yet
\* to be looked at.  A page that was let through by a grant that is spent since
\* may stay: what is spent opened pages, and closes none when it is counted again.
THEOREM TabsAlwaysFollow == Spec => []TabsFollow
  <1>1. Init => TypeInv /\ FollowInv
    BY InitTypes, InitFollows
  <1>2. TypeInv /\ FollowInv /\ [Next]_vars => TypeInv' /\ FollowInv'
    BY StepTypes, StepFollows
  <1>3. TypeInv /\ FollowInv => TabsFollow
    BY DEF FollowInv, Follows, Looked, Right, TabsFollow, Settled
  <1>4. QED
    BY <1>1, <1>2, <1>3, PTL DEF Spec

=============================================================================
