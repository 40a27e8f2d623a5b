----------------------------- MODULE DeviceProofs -----------------------------
(***************************************************************************)
(* Proofs about the iPhone, for any number of calls, tasks, messages,      *)
(* pages, enrolments and edits: the policy that the content filter         *)
(* enforces is never replaced by an older one, unless two installs         *)
(* overlap; Safari's state is well formed; no ask that the block page      *)
(* remembers is lost; and a single-use grant opens one page, until the     *)
(* device is enrolled again.  Before that, for every policy, page and      *)
(* time: when the mirrors of evaluate() on an iPhone say what the          *)
(* reference says, and that a no is not talked over by a yes of the same   *)
(* rank.                                                                   *)
(***************************************************************************)
EXTENDS SafariExtension, FiniteSetTheorems, SequenceTheorems, TLAPS

------------------------------------------------------------------------------
\* The mirrors of evaluate(), for every policy, page and time: when they say what
\* the reference says.

\* The temporary rules in force that are about the page.
Hits(policy, page, moment) == {t \in ActiveTemps(policy, moment) : matchTarget(t, page)}

\* A yes and a no of the same rank: the reference takes the older one, the
\* content filter the no.
MixedTie(S) == \E a, b \in S : Ties(a, b) /\ a.action # b.action

IsFirst(r, S, denyWins) == r \in S /\ \A s \in S \ {r} : Before(r, s, denyWins)

LEMMA FirstAlike ==
    ASSUME NEW S, ~MixedTie(S)
    PROVE  First(S, TRUE) = First(S, FALSE)
  <1>1. ASSUME NEW r \in S, NEW s \in S
        PROVE  Before(r, s, TRUE) <=> Before(r, s, FALSE)
    BY DEF MixedTie, Before
  <1>2. \A r \in S : (\A s \in S \ {r} : Before(r, s, TRUE))
                     <=> (\A s \in S \ {r} : Before(r, s, FALSE))
    BY <1>1
  <1>3. QED
    BY <1>2 DEF First

\* PolicyStore judges a page as evaluate() does, whatever the policy, the page
\* and the time, unless one of the grants in force is spent or a temporary yes
\* and a temporary no of the same rank both match.
THEOREM FilterMirrorsReference ==
    ASSUME NEW policy, NEW page, NEW moment, NEW spent,
           Unspent(ActiveTemps(policy, moment), spent) = ActiveTemps(policy, moment),
           ~MixedTie(Hits(policy, page, moment))
    PROVE  evaluateInFilter(policy, page, moment, spent) = evaluate(policy, page, moment)
  <1>1. First(Hits(policy, page, moment), TRUE) = First(Hits(policy, page, moment), FALSE)
    BY FirstAlike
  <1>2. /\ evaluateInFilter(policy, page, moment, spent)
             = Judge(policy, ActiveTemps(policy, moment), page, tierOrder, TRUE)
        /\ evaluate(policy, page, moment)
             = Judge(policy, ActiveTemps(policy, moment), page, tierOrder, FALSE)
    BY DEF evaluateInFilter, evaluate
  <1>3. Judge(policy, ActiveTemps(policy, moment), page, tierOrder, TRUE)
        = Judge(policy, ActiveTemps(policy, moment), page, tierOrder, FALSE)
    BY <1>1 DEF Judge, Hits
  <1>4. QED
    BY <1>2, <1>3

LEMMA EarliestIs ==
    ASSUME NEW S, S \subseteq Int, NEW m \in S, \A j \in S : m <= j
    PROVE  Earliest(S) = m
  <1>1. Earliest(S) \in S /\ \A j \in S : Earliest(S) <= j
    BY DEF Earliest
  <1>2. Earliest(S) <= m /\ m <= Earliest(S) /\ Earliest(S) \in Int /\ m \in Int
    BY <1>1
  <1>3. QED
    BY <1>2

LEMMA TiersAlike ==
    ASSUME NEW policy, NEW page, OfTier(policy, page, "APPLICATION") = {}
    PROVE  LET all == Answering(policy, page, tierOrder)
               few == Answering(policy, page, safariTierOrder)
           IN  /\ all = {} <=> few = {}
               /\ all # {} => tierOrder[Earliest(all)] = safariTierOrder[Earliest(few)]
  <1> DEFINE all == Answering(policy, page, tierOrder)
             few == Answering(policy, page, safariTierOrder)
  <1>1. /\ all \subseteq 1 .. 8 /\ few \subseteq 1 .. 7
        /\ 7 \notin all
        /\ \A i \in 1 .. 6 : i \in all <=> i \in few
        /\ 8 \in all <=> 7 \in few
    <2>1. DOMAIN tierOrder = 1 .. 8 /\ DOMAIN safariTierOrder = 1 .. 7
      BY DEF tierOrder, safariTierOrder
    <2>2. /\ tierOrder[7] = "APPLICATION" /\ tierOrder[8] = safariTierOrder[7]
          /\ \A i \in 1 .. 6 : tierOrder[i] = safariTierOrder[i]
      BY DEF tierOrder, safariTierOrder
    <2>3. QED
      BY <2>1, <2>2 DEF Answering
  <1>2. all = {} <=> few = {}
    BY <1>1
  <1>3. ASSUME all # {}
        PROVE  tierOrder[Earliest(all)] = safariTierOrder[Earliest(few)]
    <2> HIDE DEF all, few
    <2>1. ASSUME NEW n \in 1 .. 6, n \in all, \A i \in 1 .. 6 : i \in all => n <= i
          PROVE  Earliest(all) = n /\ Earliest(few) = n
      <3>1. n \in few /\ (\A j \in all : n <= j) /\ (\A j \in few : n <= j)
        BY <1>1, <2>1
      <3>2. all \subseteq Int /\ few \subseteq Int
        BY <1>1
      <3>3. QED
        BY <2>1, <3>1, <3>2, EarliestIs
    <2>2. CASE \A i \in 1 .. 6 : i \notin all
      <3>x. \A i \in all : i = 8
        BY <1>1, <2>2
      <3>b. \A i \in few : i = 7
        BY <1>1, <2>2
      <3>1. all = {8} /\ few = {7}
        BY <1>1, <1>3, <3>x, <3>b
      <3>2. Earliest(all) = 8 /\ Earliest(few) = 7
        BY <3>1, EarliestIs
      <3>3. QED
        BY <3>2 DEF tierOrder, safariTierOrder
    <2>3. CASE \E n \in 1 .. 6 : n \in all /\ \A i \in 1 .. 6 : i \in all => n <= i
      <3>1. PICK n \in 1 .. 6 : n \in all /\ \A i \in 1 .. 6 : i \in all => n <= i
        BY <2>3
      <3>2. Earliest(all) = n /\ Earliest(few) = n
        BY <2>1, <3>1
      <3>3. QED
        BY <3>2 DEF tierOrder, safariTierOrder
    <2>4. \/ \A i \in 1 .. 6 : i \notin all
          \/ \E n \in 1 .. 6 : n \in all /\ \A i \in 1 .. 6 : i \in all => n <= i
      <3> DEFINE least(n) == n \in all /\ \A i \in 1 .. 6 : i \in all => n <= i
      <3>1. 1 \in all => least(1)
        OBVIOUS
      <3>2. 1 \notin all /\ 2 \in all => least(2)
        OBVIOUS
      <3>3. 1 \notin all /\ 2 \notin all /\ 3 \in all => least(3)
        OBVIOUS
      <3>4. 1 \notin all /\ 2 \notin all /\ 3 \notin all /\ 4 \in all => least(4)
        OBVIOUS
      <3>5. 1 \notin all /\ 2 \notin all /\ 3 \notin all /\ 4 \notin all /\ 5 \in all => least(5)
        OBVIOUS
      <3>6. 1 \notin all /\ 2 \notin all /\ 3 \notin all /\ 4 \notin all /\ 5 \notin all
            /\ 6 \in all => least(6)
        OBVIOUS
      <3> HIDE DEF least
      <3>7. (\A i \in 1 .. 6 : i \notin all) \/ \E n \in 1 .. 6 : least(n)
        BY <3>1, <3>2, <3>3, <3>4, <3>5, <3>6
      <3>8. QED
        BY <3>7 DEF least
    <2>5. QED
      BY <2>2, <2>3, <2>4
  <1>4. QED
    BY <1>2, <1>3

\* The Safari extension, which knows no applications, judges a page as
\* evaluate() does, whatever the policy, the page and the time.
THEOREM SafariMirrorsReference ==
    ASSUME NEW policy, NEW page, NEW moment, page.names["APPLICATION"] = {}
    PROVE  evaluateInSafari(policy, page, moment) = evaluate(policy, page, moment)
  <1>1. OfTier(policy, page, "APPLICATION") = {}
    BY DEF OfTier, matchTarget
  <1>2. /\ evaluateInSafari(policy, page, moment)
             = Judge(policy, ActiveTemps(policy, moment), page, safariTierOrder, FALSE)
        /\ evaluate(policy, page, moment)
             = Judge(policy, ActiveTemps(policy, moment), page, tierOrder, FALSE)
    BY DEF evaluateInSafari, evaluate
  <1>3. Judge(policy, ActiveTemps(policy, moment), page, safariTierOrder, FALSE)
        = Judge(policy, ActiveTemps(policy, moment), page, tierOrder, FALSE)
    BY <1>1, TiersAlike DEF Judge
  <1>4. QED
    BY <1>2, <1>3

------------------------------------------------------------------------------
\* The iPhone.

Devices == DOMAIN setting.policies

CallFields == {"fn", "at", "device", "since", "body", "high", "rest", "target", "rounds"}

SettingOK ==
    /\ setting \in Settings
    /\ Len(setting.policies) \in Nat \ {0} /\ Devices = 1 .. Len(setting.policies)
    /\ \A d \in Devices : /\ Len(setting.policies[d]) \in Nat \ {0}
                          /\ DOMAIN setting.policies[d] = 1 .. Len(setting.policies[d])

ServerOK ==
    /\ DOMAIN server = {"enrolled", "stage", "consumed", "posted", "refused"}
    /\ server.enrolled \in Nat /\ server.enrolled <= Len(setting.policies)
    /\ DOMAIN server.stage = Devices /\ DOMAIN server.consumed = Devices
    /\ \A d \in Devices : /\ server.stage[d] \in 1 .. Len(setting.policies[d])
                          /\ IsFiniteSet(server.consumed[d])

KeysOK == DOMAIN keychain = {"device", "due"} /\ keychain.device \in Devices \cup {None}

GroupOK ==
    /\ DOMAIN group = {"raw", "high", "provisioned", "spent", "reported", "queue"}
    /\ group.high \in Nat /\ group.raw \in SnapshotsOf(setting) \cup {None}

\* What a call of the app holds.
CallOK(c) == c # None =>
    /\ DOMAIN c = CallFields
    /\ c.device \in Devices \cup {None}
    /\ c.at = "getting" => c.device # None
    /\ c.at \in {"check", "install"} => c.body \in SnapshotsOf(setting)
    /\ c.at = "install" => c.high \in Nat

CallsOK == DOMAIN calls = Call /\ \A k \in Call : CallOK(calls[k])

\* As long as installs do not overlap, what is in force is what was installed
\* last and the mark is its version.
Marked(c) == c # None /\ c.at = "install" =>
                c.high = group.high /\ c.body.version >= group.high

MarksOK == "install" \notin overlapped =>
    /\ group.raw # None => group.raw.version = group.high
    /\ \A k \in Call : Marked(calls[k])
    /\ \A j, k \in Call : At(j, "install") /\ At(k, "install") => j = k

DeviceInv == SettingOK /\ ServerOK /\ KeysOK /\ GroupOK /\ CallsOK /\ MarksOK

-----------------------------------------------------------------------------
(* What the backend signs. *)

LEMMA VersionType ==
    ASSUME SettingOK, ServerOK, NEW d \in Devices
    PROVE  Version(d) \in Nat
  <1>1. Cardinality(server.consumed[d]) \in Nat
    BY FS_CardinalityType DEF ServerOK
  <1>2. QED
    BY <1>1 DEF Version, ServerOK, SettingOK

LEMMA PolicyIsContent ==
    ASSUME SettingOK, ServerOK, NEW d \in Devices
    PROVE  Policy(d) \in Contents(setting)
  <1>1. server.stage[d] \in DOMAIN setting.policies[d]
    BY DEF ServerOK, SettingOK
  <1>2. Policy(d) \in Range(setting.policies[d])
    BY <1>1 DEF Policy, Range
  <1>3. QED
    BY <1>2 DEF Contents, Devices

LEMMA SnapshotType ==
    ASSUME SettingOK, ServerOK, NEW d \in Devices
    PROVE  Snapshot(d) \in SnapshotsOf(setting)
  <1> DEFINE p == Policy(d)
  <1>2. p \in Contents(setting)
    BY PolicyIsContent
  <1>3. {p.webDefault, p.youTubeDefault} \subseteq Action
    BY <1>2, DeviceAssumption DEF SettingOK
  <1>4. {t \in p.temps : isActiveTemp(t, now) /\ t.id \notin server.consumed[d]}
            \in UNION {SUBSET q.temps : q \in Contents(setting)}
    BY <1>2
  <1>5. p.rules \in {q.rules : q \in Contents(setting)}
    BY <1>2
  <1> HIDE DEF p
  <1>6. Snapshot(d) = [device |-> d, child |-> d, version |-> Version(d),
         temps |-> {t \in p.temps : isActiveTemp(t, now) /\ t.id \notin server.consumed[d]},
         rules |-> p.rules, webDefault |-> p.webDefault, youTubeDefault |-> p.youTubeDefault]
    BY DEF Snapshot, p
  <1>7. QED
    BY <1>3, <1>4, <1>5, <1>6, VersionType DEF SnapshotsOf, Devices

LEMMA NoSnapshotIsNone == SettingOK => None \notin SnapshotsOf(setting)
  BY DeviceAssumption DEF SettingOK

-----------------------------------------------------------------------------
(* Steps of a call. *)

Quiet == {"none", "redeem", "renew", "renewing", "file", "get", "report", "reporting", "marking",
          "post", "posting", "removing", "answers"}

LEMMA Replaced ==
    ASSUME CallsOK, NEW k \in Call, NEW new, calls' = [calls EXCEPT ![k] = new]
    PROVE  /\ DOMAIN calls' = Call /\ calls'[k] = new
           /\ \A j \in Call \ {k} : calls'[j] = calls[j]
  BY DEF CallsOK

\* A call that goes where nothing is promised, or ends.
LEMMA QuietStep ==
    ASSUME CallsOK, MarksOK, UNCHANGED <<setting, group, overlapped>>, NEW k \in Call, NEW new,
           calls' = [calls EXCEPT ![k] = new],
           new = None \/ (CallOK(new) /\ new.at \notin {"check", "install"})
    PROVE  CallsOK' /\ MarksOK'
  <1> USE Replaced
  <1>1. CallsOK'
    BY DEF CallsOK, CallOK, Devices
  <1>2. MarksOK'
    BY DEF MarksOK, Marked, At
  <1>3. QED
    BY <1>1, <1>2

\* The steps of a call that leave the marks alone, by what else they change.
LEMMA GoQuiet ==
    ASSUME CallsOK, MarksOK, UNCHANGED <<setting, group, overlapped>>, NEW k \in Call, NEW c,
           DOMAIN c = CallFields, c.device \in Devices \cup {None},
           NEW step, step \notin {"getting", "check", "install"}, Go(k, c, step)
    PROVE  CallsOK' /\ MarksOK'
  <1> DEFINE new == [c EXCEPT !.at = step]
  <1>1. DOMAIN new = CallFields /\ new.at = step /\ new.device = c.device
    BY DEF CallFields
  <1>2. CallOK(new)
    BY <1>1 DEF CallOK
  <1> HIDE DEF new
  <1>3. calls' = [calls EXCEPT ![k] = new]
    BY DEF Go, new
  <1>4. QED
    BY <1>1, <1>2, <1>3, QuietStep

LEMMA OverQuiet ==
    ASSUME CallsOK, MarksOK, UNCHANGED <<setting, group, overlapped>>, NEW k \in Call, Over(k)
    PROVE  CallsOK' /\ MarksOK'
  BY QuietStep DEF Over

\* A call keeps its device until its next round.
LEMMA HeldFields ==
    ASSUME CallsOK, NEW k \in Call, calls[k] # None
    PROVE  DOMAIN calls[k] = CallFields /\ calls[k].device \in Devices \cup {None}
  BY DEF CallsOK, CallOK

LEMMA NextRoundQuiet ==
    ASSUME CallsOK, MarksOK, UNCHANGED <<setting, group, overlapped>>, NEW k \in Call,
           calls[k] # None, NEW failed, NextRound(k, failed)
    PROVE  CallsOK' /\ MarksOK'
  <1> DEFINE c == [calls[k] EXCEPT !.rounds = @ + 1, !.body = None, !.since = None, !.device = None]
  <1>1. DOMAIN c = CallFields /\ c.device = None
    BY HeldFields DEF CallFields
  <1> HIDE DEF c
  <1>2. Over(k) \/ Go(k, c, "renew")
    BY DEF NextRound, c
  <1>3. QED
    BY <1>1, <1>2, GoQuiet, OverQuiet

LEMMA FailedQuiet ==
    ASSUME CallsOK, MarksOK, UNCHANGED <<setting, group, overlapped>>, NEW k \in Call,
           calls[k] # None, Failed(k)
    PROVE  CallsOK' /\ MarksOK'
  BY NextRoundQuiet, OverQuiet DEF Failed, Fail

LEMMA BeginQuiet ==
    ASSUME CallsOK, MarksOK, UNCHANGED <<setting, group, overlapped>>, NEW k \in Call,
           NEW fn, NEW step \in {"redeem", "renew", "file"}, NEW target, Begin(k, fn, step, target)
    PROVE  CallsOK' /\ MarksOK'
  <1> DEFINE new == [Blank EXCEPT !.fn = fn, !.at = step, !.target = target]
  <1>1. DOMAIN new = CallFields /\ new.at = step /\ new.device = None
    BY DEF Blank, CallFields
  <1>2. CallOK(new)
    BY <1>1 DEF CallOK
  <1> HIDE DEF new
  <1>3. calls' = [calls EXCEPT ![k] = new]
    BY DEF Begin, new
  <1>4. QED
    BY <1>1, <1>2, <1>3, QuietStep

-----------------------------------------------------------------------------
(* What the steps leave of the rest. *)

LEMMA SettingKept == SettingOK /\ UNCHANGED setting => SettingOK'
  BY DEF SettingOK, Devices

LEMMA ServerKept ==
    ASSUME ServerOK, UNCHANGED setting, DOMAIN server' = DOMAIN server,
           server'.enrolled = server.enrolled, server'.stage = server.stage,
           server'.consumed = server.consumed
    PROVE  ServerOK'
  BY DEF ServerOK, Devices

LEMMA KeysKept == KeysOK /\ UNCHANGED <<setting, keychain>> => KeysOK'
  BY DEF KeysOK, Devices

LEMMA GroupKept == GroupOK /\ UNCHANGED <<setting, group>> => GroupOK'
  BY DEF GroupOK

LEMMA CallsKept ==
    CallsOK /\ MarksOK /\ UNCHANGED <<setting, group, calls, overlapped>> => CallsOK' /\ MarksOK'
  BY DEF CallsOK, CallOK, Devices, MarksOK, Marked, At

LEMMA PostedKept ==
    ASSUME ServerOK, UNCHANGED setting, NEW t,
           server' \in {server, Posted(t), [server EXCEPT !.refused = @ \cup {t}]}
    PROVE  ServerOK'
  <1>1. CASE server' = server
    BY <1>1, ServerKept
  <1>2. CASE server' = Posted(t)
    BY <1>2, ServerKept DEF Posted, ServerOK
  <1>3. CASE server' = [server EXCEPT !.refused = @ \cup {t}]
    BY <1>3, ServerKept DEF ServerOK
  <1>4. QED
    BY <1>1, <1>2, <1>3

LEMMA ConsumedKept ==
    ASSUME ServerOK, UNCHANGED setting, NEW d, NEW id, server' = Consumed(d, id)
    PROVE  ServerOK'
  <1>1. /\ DOMAIN server' = DOMAIN server /\ server'.enrolled = server.enrolled
        /\ server'.stage = server.stage
        /\ server'.consumed = [server.consumed EXCEPT ![d] = @ \cup {id}]
    BY DEF Consumed, ServerOK
  <1>2. \A e \in Devices : IsFiniteSet(server'.consumed[e])
    <2> SUFFICES ASSUME NEW e \in Devices PROVE IsFiniteSet(server'.consumed[e])
      OBVIOUS
    <2>1. server'.consumed[e] \in {server.consumed[e], server.consumed[e] \cup {id}}
      BY <1>1 DEF ServerOK
    <2>2. IsFiniteSet(server.consumed[e])
      BY DEF ServerOK
    <2>3. IsFiniteSet(server.consumed[e] \cup {id})
      BY <2>2, FS_AddElement
    <2>4. QED
      BY <2>1, <2>2, <2>3
  <1>3. QED
    BY <1>1, <1>2 DEF ServerOK, Devices

-----------------------------------------------------------------------------
(* The steps of the app's calls. *)

LEMMA RedeemedKeeps ==
    ASSUME DeviceInv, NEW k \in Call, Redeemed(k)
    PROVE  DeviceInv'
  <1> USE DEF DeviceInv
  <1>0. calls[k] # None
    BY DEF Redeemed, At
  <1>1. SettingOK' /\ GroupOK'
    BY SettingKept, GroupKept DEF Redeemed
  <1>2. ASSUME server.enrolled < Len(setting.policies),
               server' = [server EXCEPT !.enrolled = @ + 1],
               keychain' = [device |-> server.enrolled + 1, due |-> FALSE],
               Go(k, [calls[k] EXCEPT !.fn = "sync"], "renew")
        PROVE  DeviceInv'
    <2>1. ServerOK'
      <3>1. /\ DOMAIN server' = DOMAIN server /\ server'.enrolled = server.enrolled + 1
            /\ server'.stage = server.stage /\ server'.consumed = server.consumed
        BY <1>2 DEF ServerOK
      <3>2. server'.enrolled \in Nat /\ server'.enrolled <= Len(setting.policies)
        BY <1>2, <3>1 DEF ServerOK, SettingOK
      <3>3. setting' = setting
        BY DEF Redeemed
      <3>4. QED
        BY <3>1, <3>2, <3>3 DEF ServerOK, Devices
    <2>2. KeysOK'
      BY <1>2 DEF Redeemed, ServerOK, KeysOK, SettingOK, Devices
    <2> DEFINE c == [calls[k] EXCEPT !.fn = "sync"]
    <2>3. DOMAIN c = CallFields /\ c.device \in Devices \cup {None}
      BY <1>0, HeldFields DEF CallFields
    <2>4. UNCHANGED <<setting, group, overlapped>>
      BY DEF Redeemed
    <2> HIDE DEF c
    <2>6. Go(k, c, "renew")
      BY <1>2 DEF c
    <2>7. CallsOK' /\ MarksOK'
      BY <2>3, <2>4, <2>6, GoQuiet
    <2>8. QED
      BY <1>1, <2>1, <2>2, <2>7
  <1>3. ASSUME Fail(k), UNCHANGED <<server, keychain>> PROVE DeviceInv'
    BY <1>1, <1>3, ServerKept, KeysKept, OverQuiet DEF Redeemed, Fail
  <1>4. QED
    BY <1>2, <1>3 DEF Redeemed

LEMMA FiledKeeps ==
    ASSUME DeviceInv, NEW k \in Call, Filed(k)
    PROVE  DeviceInv'
  <1> USE DEF DeviceInv
  <1>1. SettingOK' /\ KeysOK' /\ GroupOK'
    BY SettingKept, KeysKept, GroupKept DEF Filed
  <1>2. ServerOK'
    <2>1. server' \in {server, Posted(calls[k].target)} /\ setting' = setting
      BY DEF Filed, Posted
    <2>2. QED
      BY <2>1, PostedKept
  <1>3. calls[k] # None
    BY DEF Filed, At
  <1>4. CallsOK' /\ MarksOK'
    BY <1>3, HeldFields, GoQuiet, OverQuiet DEF Filed
  <1>5. QED
    BY <1>1, <1>2, <1>4

LEMMA RenewKeeps ==
    ASSUME DeviceInv, NEW k \in Call, Renew(k)
    PROVE  DeviceInv'
  <1> USE DEF DeviceInv
  <1>1. SettingOK' /\ ServerOK' /\ KeysOK' /\ GroupOK'
    BY SettingKept, ServerKept, KeysKept, GroupKept DEF Renew
  <1>2. calls[k] # None
    BY DEF Renew, At
  <1> DEFINE c == [calls[k] EXCEPT !.device = keychain.device]
  <1>3. DOMAIN c = CallFields /\ c.device = keychain.device
    BY <1>2, HeldFields DEF CallFields
  <1> HIDE DEF c
  <1>4. Go(k, c, "renewing") \/ Go(k, calls[k], "get")
    BY DEF Renew, c
  <1>5. CallsOK' /\ MarksOK'
    BY <1>2, <1>3, <1>4, HeldFields, GoQuiet DEF Renew, KeysOK
  <1>6. QED
    BY <1>1, <1>5

LEMMA RenewedKeeps ==
    ASSUME DeviceInv, NEW k \in Call, Renewed(k)
    PROVE  DeviceInv'
  <1> USE DEF DeviceInv
  <1>1. SettingOK' /\ ServerOK' /\ GroupOK'
    BY SettingKept, ServerKept, GroupKept DEF Renewed
  <1>2. calls[k] # None
    BY DEF Renewed, At
  <1>3. KeysOK'
    BY <1>2, HeldFields DEF Renewed, KeysOK, Devices
  <1>4. CallsOK' /\ MarksOK'
    BY <1>2, HeldFields, GoQuiet DEF Renewed
  <1>5. QED
    BY <1>1, <1>3, <1>4

LEMMA GetKeeps ==
    ASSUME DeviceInv, NEW k \in Call, Get(k)
    PROVE  DeviceInv'
  <1> USE DEF DeviceInv
  <1>1. SettingOK' /\ ServerOK' /\ KeysOK' /\ GroupOK'
    BY SettingKept, ServerKept, KeysKept, GroupKept DEF Get
  <1>2. calls[k] # None
    BY DEF Get, At
  <1>3. CASE Failed(k)
    BY <1>1, <1>2, <1>3, FailedQuiet DEF Get
  <1> DEFINE c == [calls[k] EXCEPT !.device = keychain.device, !.since = VersionHeld]
             new == [c EXCEPT !.at = "getting"]
  <1>4. CASE keychain.device # None /\ Go(k, c, "getting")
    <2>1. DOMAIN new = CallFields /\ new.at = "getting" /\ new.device = keychain.device
      BY <1>2, HeldFields DEF CallFields
    <2>2. calls' = [calls EXCEPT ![k] = new]
      BY <1>4 DEF Go
    <2> HIDE DEF new
    <2>3. CallOK(new)
      BY <1>4, <2>1 DEF CallOK, KeysOK
    <2>4. QED
      BY <1>1, <2>1, <2>2, <2>3, QuietStep DEF Get
  <1>5. QED
    BY <1>3, <1>4 DEF Get

LEMMA GotKeeps ==
    ASSUME DeviceInv, NEW k \in Call, Got(k)
    PROVE  DeviceInv'
  <1> USE DEF DeviceInv
  <1>1. SettingOK' /\ ServerOK' /\ KeysOK' /\ GroupOK'
    BY SettingKept, ServerKept, KeysKept, GroupKept DEF Got
  <1>2. calls[k] # None /\ calls[k].at = "getting"
    BY DEF Got, At
  <1>3. calls[k].device \in Devices
    BY <1>2 DEF CallsOK, CallOK
  <1> DEFINE new == [[calls[k] EXCEPT !.body = Snapshot(calls[k].device)] EXCEPT !.at = "check"]
  <1>4. CASE calls' = [calls EXCEPT ![k] = new]
    <2>1. /\ DOMAIN new = CallFields /\ new.at = "check" /\ new.device = calls[k].device
          /\ new.body = Snapshot(calls[k].device)
      BY <1>2, HeldFields DEF CallFields
    <2> HIDE DEF new
    <2>2. CallOK(new)
      BY <1>3, <2>1, SnapshotType DEF CallOK
    <2>3. CallsOK'
      BY <1>4, <2>2, Replaced DEF Got, CallsOK, CallOK, Devices
    <2>4. MarksOK'
      BY <1>4, <2>1, Replaced DEF Got, MarksOK, Marked, At
    <2>5. QED
      BY <1>1, <2>3, <2>4
  <1>5. CASE Go(k, calls[k], "report") \/ NextRound(k, FALSE) \/ Failed(k)
    BY <1>1, <1>2, <1>5, HeldFields, GoQuiet, NextRoundQuiet, FailedQuiet DEF Got
  <1>6. QED
    BY <1>4, <1>5 DEF Got, Go

LEMMA CheckInstallKeeps ==
    ASSUME DeviceInv, NEW k \in Call, CheckInstall(k)
    PROVE  DeviceInv'
  <1> USE DEF DeviceInv
  <1>1. SettingOK' /\ ServerOK' /\ KeysOK' /\ GroupOK'
    BY SettingKept, ServerKept, KeysKept, GroupKept DEF CheckInstall
  <1>2. calls[k] # None /\ calls[k].at = "check"
    BY DEF CheckInstall, At
  <1>3. CASE Failed(k) /\ UNCHANGED overlapped
    BY <1>1, <1>2, <1>3, FailedQuiet DEF CheckInstall
  <1> DEFINE new == [[calls[k] EXCEPT !.high = group.high] EXCEPT !.at = "install"]
  <1>4. CASE /\ NoRollback(calls[k].body.version)
             /\ calls' = [calls EXCEPT ![k] = new]
             /\ overlapped' = IF \E other \in Call : At(other, "install")
                              THEN overlapped \cup {"install"} ELSE overlapped
    <2>1. /\ DOMAIN new = CallFields /\ new.at = "install" /\ new.device = calls[k].device
          /\ new.body = calls[k].body /\ new.high = group.high
      BY <1>2, HeldFields DEF CallFields
    <2> HIDE DEF new
    <2>2. CallOK(new)
      BY <1>2, <2>1 DEF CallsOK, CallOK, GroupOK
    <2>3. CallsOK'
      BY <1>4, <2>2, Replaced DEF CheckInstall, CallsOK, CallOK, Devices
    <2>4. MarksOK'
      <3>1. SUFFICES ASSUME "install" \notin overlapped, \A other \in Call : ~At(other, "install")
                     PROVE  /\ group'.raw # None => group'.raw.version = group'.high
                            /\ \A j \in Call : Marked(calls[j])'
                            /\ \A i, j \in Call : At(i, "install")' /\ At(j, "install")' => i = j
        BY <1>4, Zenon DEF MarksOK
      <3>2. \A j \in Call \ {k} : ~At(j, "install")'
        BY <1>4, <3>1, Replaced DEF At
      <3>3. Marked(calls[k])'
        BY <1>4, <2>1, Replaced DEF CheckInstall, Marked, NoRollback
      <3>4. \A j \in Call \ {k} : Marked(calls[j])'
        BY <3>2 DEF At, Marked
      <3>5. group'.raw # None => group'.raw.version = group'.high
        BY <3>1 DEF MarksOK, CheckInstall
      <3>6. QED
        BY <3>2, <3>3, <3>4, <3>5
    <2>5. QED
      BY <1>1, <2>3, <2>4
  <1>5. QED
    BY <1>3, <1>4 DEF CheckInstall, Go

LEMMA InstallKeeps ==
    ASSUME DeviceInv, NEW k \in Call, Install(k)
    PROVE  DeviceInv'
  <1> USE DEF DeviceInv
  <1>1. SettingOK' /\ ServerOK' /\ KeysOK'
    BY SettingKept, ServerKept, KeysKept DEF Install
  <1>2. calls[k] # None /\ calls[k].at = "install" /\ calls[k].body \in SnapshotsOf(setting)
    BY DEF Install, At, CallsOK, CallOK
  <1>3. calls[k].body.version \in Nat
    BY <1>2 DEF SnapshotsOf
  <1>4. /\ DOMAIN group' = DOMAIN group /\ group'.raw = calls[k].body
        /\ group'.high = IF calls[k].body.version > calls[k].high THEN calls[k].body.version
                         ELSE calls[k].high
    BY DEF Install, Installed, GroupOK
  <1>5. PICK step \in {"answers", "report"} :
            calls' = [calls EXCEPT ![k] = [[calls[k] EXCEPT !.body = None, !.high = 0] EXCEPT !.at = step]]
    BY DEF Install, Go
  <1> DEFINE new == [[calls[k] EXCEPT !.body = None, !.high = 0] EXCEPT !.at = step]
  <1>6. DOMAIN new = CallFields /\ new.at = step /\ new.device = calls[k].device
    BY <1>2, HeldFields DEF CallFields
  <1> HIDE DEF new
  <1>7. CallOK(new)
    BY <1>2, <1>6, HeldFields DEF CallOK
  <1>8. CallsOK'
    BY <1>5, <1>7, Replaced DEF new, Install, CallsOK, CallOK, Devices
  <1>9. GroupOK'
    <2>1. calls[k].high \in Nat
      BY <1>2 DEF CallsOK, CallOK
    <2>2. setting' = setting
      BY DEF Install
    <2>3. QED
      BY <1>2, <1>3, <1>4, <2>1, <2>2 DEF GroupOK
  <1>10. MarksOK'
    <2>1. SUFFICES ASSUME "install" \notin overlapped
                   PROVE  /\ group'.raw # None => group'.raw.version = group'.high
                          /\ \A j \in Call : Marked(calls[j])'
                          /\ \A i, j \in Call : At(i, "install")' /\ At(j, "install")' => i = j
      BY DEF Install, MarksOK
    <2>2. calls[k].high = group.high /\ calls[k].body.version >= group.high
      BY <1>2, <2>1 DEF MarksOK, Marked
    <2>3. group'.raw.version = group'.high
      BY <1>3, <1>4, <2>2 DEF GroupOK
    <2>4. \A j \in Call : ~At(j, "install")'
      <3>1. SUFFICES ASSUME NEW j \in Call PROVE ~At(j, "install")'
        OBVIOUS
      <3>2. CASE j = k
        BY <1>5, <1>6, <3>2, Replaced DEF new, At
      <3>3. CASE j # k
        <4>1. calls'[j] = calls[j]
          BY <1>5, <3>3, Replaced
        <4>2. ~At(j, "install")
          BY <1>2, <2>1, <3>3 DEF MarksOK, At
        <4>3. QED
          BY <4>1, <4>2 DEF At
      <3>4. QED
        BY <3>2, <3>3
    <2>5. QED
      BY <2>3, <2>4 DEF At, Marked
  <1>11. QED
    BY <1>1, <1>8, <1>9, <1>10

\* A call that goes on with another list of things to do.
LEMMA RestQuiet ==
    ASSUME CallsOK, MarksOK, UNCHANGED <<setting, group, overlapped>>, NEW k \in Call,
           calls[k] # None, NEW rest,
           NEW step, step \notin {"getting", "check", "install"},
           Go(k, [calls[k] EXCEPT !.rest = rest], step)
    PROVE  CallsOK' /\ MarksOK'
  <1> DEFINE c == [calls[k] EXCEPT !.rest = rest]
  <1>1. DOMAIN c = CallFields /\ c.device \in Devices \cup {None}
    BY HeldFields DEF CallFields
  <1> HIDE DEF c
  <1>2. Go(k, c, step)
    BY DEF c
  <1>3. QED
    BY <1>1, <1>2, GoQuiet

LEMMA ReportsKeeps ==
    ASSUME DeviceInv, NEW k \in Call, Reports(k)
    PROVE  DeviceInv'
  <1> USE DEF DeviceInv
  <1>1. SettingOK' /\ ServerOK' /\ KeysOK' /\ GroupOK'
    BY SettingKept, ServerKept, KeysKept, GroupKept DEF Reports
  <1>2. calls[k] # None /\ UNCHANGED <<setting, group, overlapped>>
    BY DEF Reports, At
  <1>3. Go(k, [calls[k] EXCEPT !.rest = SetToSeq(group.spent \ group.reported)], "reporting")
    BY DEF Reports
  <1>4. CallsOK' /\ MarksOK'
    BY <1>2, <1>3, RestQuiet
  <1>5. QED
    BY <1>1, <1>4

LEMMA ReportedKeeps ==
    ASSUME DeviceInv, NEW k \in Call, Reported(k)
    PROVE  DeviceInv'
  <1> USE DEF DeviceInv
  <1>1. SettingOK' /\ KeysOK' /\ GroupOK'
    BY SettingKept, KeysKept, GroupKept DEF Reported
  <1>2. calls[k] # None /\ UNCHANGED <<setting, group, overlapped>>
    BY DEF Reported, At
  <1>3. server' = server \/ server' = Consumed(calls[k].device, Head(calls[k].rest))
    BY DEF Reported
  <1>4. ServerOK'
    BY <1>2, <1>3, ServerKept, ConsumedKept
  <1>5. Go(k, calls[k], "marking") \/ Go(k, [calls[k] EXCEPT !.rest = <<>>], "post")
    BY DEF Reported
  <1>6. CallsOK' /\ MarksOK'
    BY <1>2, <1>5, HeldFields, GoQuiet, RestQuiet
  <1>7. QED
    BY <1>1, <1>4, <1>6

LEMMA PostsKeeps ==
    ASSUME DeviceInv, NEW k \in Call, Posts(k)
    PROVE  DeviceInv'
  <1> USE DEF DeviceInv
  <1>1. SettingOK' /\ ServerOK' /\ KeysOK' /\ GroupOK'
    BY SettingKept, ServerKept, KeysKept, GroupKept DEF Posts
  <1>2. calls[k] # None /\ UNCHANGED <<setting, group, overlapped>>
    BY DEF Posts, At
  <1>3. Go(k, [calls[k] EXCEPT !.rest = group.queue], "posting")
    BY DEF Posts
  <1>4. CallsOK' /\ MarksOK'
    BY <1>2, <1>3, RestQuiet
  <1>5. QED
    BY <1>1, <1>4

LEMMA PostedNextKeeps ==
    ASSUME DeviceInv, NEW k \in Call, PostedNext(k)
    PROVE  DeviceInv'
  <1> USE DEF DeviceInv
  <1>1. SettingOK' /\ KeysOK' /\ GroupOK'
    BY SettingKept, KeysKept, GroupKept DEF PostedNext
  <1>2. calls[k] # None /\ UNCHANGED <<setting, group, overlapped>>
    BY DEF PostedNext, At
  <1> DEFINE t == Head(calls[k].rest)
  <1>3. server' \in {server, Posted(t), [server EXCEPT !.refused = @ \cup {t}]}
    BY DEF PostedNext
  <1> HIDE DEF t
  <1>4. ServerOK'
    BY <1>2, <1>3, PostedKept
  <1>5. Go(k, calls[k], "removing") \/ Over(k)
    BY DEF PostedNext
  <1>6. CallsOK' /\ MarksOK'
    BY <1>2, <1>5, HeldFields, GoQuiet, OverQuiet
  <1>7. QED
    BY <1>1, <1>4, <1>6

LEMMA WriteDoneKeeps ==
    ASSUME DeviceInv, NEW k \in Call, WriteDone(k)
    PROVE  DeviceInv'
  <1> USE DEF DeviceInv
  <1>1. SettingOK' /\ ServerOK' /\ KeysOK' /\ GroupOK'
    BY SettingKept, ServerKept, KeysKept, GroupKept DEF WriteDone
  <1>2. calls[k] # None /\ UNCHANGED <<setting, group, overlapped>>
    BY DEF WriteDone
  <1> DEFINE c == [calls[k] EXCEPT !.rest = Tail(@)]
  <1>3. DOMAIN c = CallFields /\ c.device \in Devices \cup {None}
    BY <1>2, HeldFields DEF CallFields
  <1> HIDE DEF c
  <1>4. Go(k, c, "reporting") \/ Go(k, c, "posting")
    BY DEF WriteDone, c
  <1>5. CallsOK' /\ MarksOK'
    BY <1>2, <1>3, <1>4, GoQuiet
  <1>6. QED
    BY <1>1, <1>5

LEMMA DecidedKeeps ==
    ASSUME DeviceInv, NEW k \in Call, Decided(k)
    PROVE  DeviceInv'
  BY SettingKept, ServerKept, KeysKept, GroupKept, OverQuiet DEF DeviceInv, Decided

LEMMA CallStepKeeps ==
    ASSUME DeviceInv, NEW k \in Call, CallStep(k)
    PROVE  DeviceInv'
  BY RedeemedKeeps, FiledKeeps, RenewKeeps, RenewedKeeps, GetKeeps, GotKeeps, CheckInstallKeeps,
     InstallKeeps, ReportsKeeps, ReportedKeeps, PostsKeeps, PostedNextKeeps, WriteDoneKeeps,
     DecidedKeeps DEF CallStep

-----------------------------------------------------------------------------
(* The other steps. *)

LEMMA BegunKeeps ==
    ASSUME DeviceInv, UNCHANGED <<setting, server, keychain, group, overlapped>>,
           NEW k \in Call, NEW fn, NEW step \in {"redeem", "renew", "file"}, NEW target,
           Begin(k, fn, step, target)
    PROVE  DeviceInv'
  BY SettingKept, ServerKept, KeysKept, GroupKept, BeginQuiet DEF DeviceInv

LEMMA EditKeeps ==
    ASSUME DeviceInv, NEW d, Edit(d)
    PROVE  DeviceInv'
  <1> USE DEF DeviceInv
  <1>1. SettingOK' /\ KeysOK' /\ GroupOK' /\ CallsOK' /\ MarksOK'
    BY SettingKept, KeysKept, GroupKept, CallsKept DEF Edit
  <1>2. /\ DOMAIN server' = DOMAIN server /\ server'.enrolled = server.enrolled
        /\ server'.consumed = server.consumed
        /\ server'.stage = [server.stage EXCEPT ![d] = @ + 1]
        /\ server.stage[d] < Len(setting.policies[d]) /\ setting' = setting
    BY DEF Edit, ServerOK
  <1>3. \A e \in Devices : server'.stage[e] \in 1 .. Len(setting.policies[e])
    BY <1>2 DEF ServerOK, SettingOK
  <1>4. ServerOK'
    BY <1>2, <1>3 DEF ServerOK, Devices
  <1>5. QED
    BY <1>1, <1>4

LEMMA KillKeeps == DeviceInv /\ KillApp => DeviceInv'
  <1> SUFFICES ASSUME DeviceInv, KillApp PROVE DeviceInv'
    OBVIOUS
  <1> USE DEF DeviceInv
  <1>1. SettingOK' /\ ServerOK' /\ KeysOK' /\ GroupOK'
    BY SettingKept, ServerKept, KeysKept, GroupKept DEF KillApp
  <1>2. CallsOK' /\ MarksOK'
    BY DEF KillApp, CallsOK, CallOK, MarksOK, Marked, At
  <1>3. QED
    BY <1>1, <1>2

LEMMA KeysKeep == DeviceInv /\ (signOutDevice \/ TokenDue) => DeviceInv'
  <1> SUFFICES ASSUME DeviceInv, signOutDevice \/ TokenDue PROVE DeviceInv'
    OBVIOUS
  <1> USE DEF DeviceInv
  <1>1. SettingOK' /\ ServerOK' /\ GroupOK' /\ CallsOK' /\ MarksOK'
    BY SettingKept, ServerKept, GroupKept, CallsKept DEF signOutDevice, TokenDue
  <1>2. KeysOK'
    BY DEF signOutDevice, TokenDue, KeysOK, Devices
  <1>3. QED
    BY <1>1, <1>2

\* A list that is written back is not the snapshot, nor the mark.
LEMMA PutKeepsMarks ==
    ASSUME GroupOK, NEW w, group' = Put(w)
    PROVE  /\ DOMAIN group' = DOMAIN group /\ group'.raw = group.raw /\ group'.high = group.high
           /\ group'.provisioned = group.provisioned
  <1>1. KeyOf(w.op) \in {"spent", "reported", "queue"}
    BY DEF KeyOf
  <1>2. QED
    BY <1>1 DEF Put, GroupOK

LEMMA PutKeeps ==
    ASSUME DeviceInv, NEW w, group' = Put(w),
           UNCHANGED <<setting, server, keychain, calls, overlapped>>
    PROVE  DeviceInv'
  <1> USE DEF DeviceInv
  <1>1. SettingOK' /\ ServerOK' /\ KeysOK'
    BY SettingKept, ServerKept, KeysKept
  <1>2. GroupOK'
    BY PutKeepsMarks DEF GroupOK
  <1>3. CallsOK'
    BY DEF CallsOK, CallOK, Devices
  <1>4. MarksOK'
    BY PutKeepsMarks DEF MarksOK, Marked, At
  <1>5. QED
    BY <1>1, <1>2, <1>3, <1>4

\* Every step is one of these.
Elsewhere == UNCHANGED <<setting, server, keychain, group, calls, overlapped>>

AppStep(k) == \/ Enroll(k) \/ SyncTapped(k) \/ (\E t \in setting.links : handleIncoming(k, t))

Puts == /\ \E w \in writes : group' = Put(w)
        /\ UNCHANGED <<setting, server, keychain, calls, overlapped>>

LEMMA DeviceSteps ==
    DeviceStep => \/ Elsewhere \/ Puts \/ KillApp \/ signOutDevice \/ TokenDue
                  \/ \E d \in 1 .. server.enrolled : Edit(d)
                  \/ \E k \in Call : AppStep(k) \/ CallStep(k)
  <1> SUFFICES ASSUME DeviceStep
               PROVE  \/ Elsewhere \/ Puts \/ KillApp \/ signOutDevice \/ TokenDue
                      \/ \E d \in 1 .. server.enrolled : Edit(d)
                      \/ \E k \in Call : AppStep(k) \/ CallStep(k)
    OBVIOUS
  <1>1. Tick \/ OpenApp \/ CloseSheet => Elsewhere
    BY DEF Tick, OpenApp, CloseSheet, Elsewhere
  <1>2. \A w \in writes : Take(w) => Elsewhere
    BY DEF Take, Elsewhere
  <1>3. \A w \in writes : Commit(w) => Puts
    BY DEF Commit, Puts
  <1>4. \A p \in DOMAIN setting.pages, kind \in setting.kinds : Open(p, kind) => Elsewhere
    BY DEF Open, Elsewhere
  <1>5. \A l \in loads : handleNewFlow(l) => Elsewhere
    BY DEF handleNewFlow, Elsewhere
  <1>6. QED
    BY <1>1, <1>2, <1>3, <1>4, <1>5 DEF DeviceStep, AppStep

LEMMA SafariSteps ==
    [Next]_vars => DeviceStep \/ Elsewhere \/ Puts
  <1> SUFFICES ASSUME [Next]_vars PROVE DeviceStep \/ Elsewhere \/ Puts
    OBVIOUS
  <1> USE DEF Elsewhere, Inside, device
  <1>1. CASE UNCHANGED vars
    BY <1>1 DEF vars
  <1>2. \A m \in Slot : beginRequest(m) => Elsewhere
    BY DEF beginRequest
  <1>3. \A w \in writes : CommitMail(w) => Puts
    BY DEF CommitMail, Puts
  <1>4. Wake \/ Unload \/ restoreSpent \/ syncFromNative \/ AdoptStored \/ Deliveries => Elsewhere
    BY DEF Wake, Unload, restoreSpent, syncFromNative, AdoptStored, adoptSnapshotIfVerified,
           Deliveries, Deliver, DeliverAsk
  <1>5. \A t \in Slot : TaskStep(t) => Elsewhere
    BY DEF TaskStep, ReadCache, restoreCachedPolicy, Synced, Provisioned, Adopt, decide,
           sendAccessRequest, AskAnswered
  <1>6. \A p \in Pages : Ask(p) \/ AskTimesOut(p) \/ renderAskedNote(p) \/ refreshFromSnapshot(p)
            => Elsewhere
    BY DEF Ask, AskTimesOut, renderAskedNote, refreshFromSnapshot
  <1>7. QED
    BY <1>1, <1>2, <1>3, <1>4, <1>5, <1>6 DEF Next

LEMMA AppStepKeeps ==
    ASSUME DeviceInv, NEW k \in Call, AppStep(k)
    PROVE  DeviceInv'
  <1>1. CASE Enroll(k)
    BY <1>1, BegunKeeps DEF Enroll
  <1>2. CASE SyncTapped(k)
    BY <1>2, BegunKeeps DEF SyncTapped
  <1>3. CASE \E t \in setting.links : handleIncoming(k, t)
    BY <1>3, BegunKeeps DEF handleIncoming
  <1>4. QED
    BY <1>1, <1>2, <1>3 DEF AppStep

LEMMA StepKeeps == DeviceInv /\ [Next]_vars => DeviceInv'
  <1> SUFFICES ASSUME DeviceInv, [Next]_vars PROVE DeviceInv'
    OBVIOUS
  <1>1. CASE Elsewhere
    BY <1>1, SettingKept, ServerKept, KeysKept, GroupKept, CallsKept DEF DeviceInv, Elsewhere
  <1>2. CASE Puts
    BY <1>2, PutKeeps DEF Puts
  <1>3. CASE DeviceStep
    BY <1>1, <1>2, <1>3, DeviceSteps, KillKeeps, KeysKeep, EditKeeps, AppStepKeeps, CallStepKeeps
  <1>4. QED
    BY <1>1, <1>2, <1>3, SafariSteps

LEMMA InitHolds == Init => DeviceInv
  <1> SUFFICES ASSUME Init PROVE DeviceInv
    OBVIOUS
  <1> USE DEF Init, DeviceInit
  <1>1. SettingOK
    BY DeviceAssumption DEF SettingOK, Devices
  <1>2. 1 \in Devices /\ Len(setting.policies) >= 1
    BY <1>1 DEF SettingOK
  <1>3. /\ DOMAIN server = {"enrolled", "stage", "consumed", "posted", "refused"}
        /\ server.enrolled \in {0, 1}
        /\ server.stage = [d \in Devices |-> 1] /\ server.consumed = [d \in Devices |-> {}]
    BY DEF NewServer, Devices
  <1>4. ServerOK
    <2>1. IsFiniteSet({})
      BY FS_EmptySet
    <2>2. \A d \in Devices : server.stage[d] \in 1 .. Len(setting.policies[d])
      BY <1>1, <1>3 DEF SettingOK
    <2>3. server.enrolled \in Nat /\ server.enrolled <= Len(setting.policies)
      BY <1>1, <1>2, <1>3 DEF SettingOK
    <2>4. QED
      BY <1>3, <2>1, <2>2, <2>3 DEF ServerOK
  <1>5. KeysOK
    BY <1>2 DEF KeysOK
  <1>6. Snapshot(1) \in SnapshotsOf(setting) /\ Snapshot(1).version = 1
    <2>1. Version(1) = 1
      BY <1>2, <1>3, FS_EmptySet DEF Version
    <2>2. QED
      BY <1>1, <1>2, <1>4, <2>1, SnapshotType DEF Snapshot
  <1>7. \/ group = NewGroup
        \/ group = [NewGroup EXCEPT !.raw = Snapshot(1), !.high = 1, !.provisioned = TRUE]
    OBVIOUS
  <1>8. /\ DOMAIN group = {"raw", "high", "provisioned", "spent", "reported", "queue"}
        /\ \/ group.raw = None /\ group.high = 0
           \/ group.raw = Snapshot(1) /\ group.high = 1
    BY <1>7 DEF NewGroup
  <1>9. GroupOK
    BY <1>6, <1>8 DEF GroupOK
  <1>10. CallsOK
    BY DEF CallsOK, CallOK
  <1>11. MarksOK
    BY <1>6, <1>8 DEF MarksOK, Marked, At
  <1>12. QED
    BY <1>1, <1>4, <1>5, <1>9, <1>10, <1>11 DEF DeviceInv

THEOREM DeviceInvariant == Spec => []DeviceInv
  <1>1. QED
    BY InitHolds, StepKeeps, PTL DEF Spec

-----------------------------------------------------------------------------
\* The policy that is enforced, of whatever version.
LEMMA EnforcedType == SettingOK /\ GroupOK => Enforced(group) \in Nat
  BY NoSnapshotIsNone DEF GroupOK, Enforced, SnapshotsOf

Forward == "install" \notin overlapped' =>
    /\ Enforced(group') >= Enforced(group)
    /\ State = "verified" => group'.raw # None /\ group'.raw.version >= group'.high

LEMMA SameIsForward ==
    ASSUME SettingOK, GroupOK, group'.raw = group.raw, group'.high = group.high
    PROVE  Forward
  <1>1. Enforced(group') = Enforced(group)
    BY DEF Enforced
  <1>2. Enforced(group) \in Nat
    BY EnforcedType
  <1>3. State = "verified" => group.raw # None /\ group.raw.version >= group.high
    BY DEF State, GroupOK, SnapshotsOf
  <1>4. QED
    BY <1>1, <1>2, <1>3 DEF Forward

LEMMA InstallForward ==
    ASSUME DeviceInv, NEW k \in Call, Install(k)
    PROVE  Forward
  <1> USE DEF DeviceInv
  <1>1. SUFFICES ASSUME "install" \notin overlapped'
                 PROVE  /\ Enforced(group') >= Enforced(group)
                        /\ group'.raw # None /\ group'.raw.version >= group'.high
    BY DEF Forward
  <1>2. "install" \notin overlapped
    BY <1>1 DEF Install
  <1>3. calls[k] # None /\ calls[k].at = "install" /\ calls[k].body \in SnapshotsOf(setting)
    BY DEF Install, At, CallsOK, CallOK
  <1>4. calls[k].high = group.high /\ calls[k].body.version >= group.high
    BY <1>2, <1>3 DEF MarksOK, Marked
  <1>5. calls[k].body # None /\ calls[k].body.version \in Nat
    BY <1>3, NoSnapshotIsNone DEF SnapshotsOf
  <1>6. /\ group'.raw = calls[k].body
        /\ group'.high = IF calls[k].body.version > calls[k].high THEN calls[k].body.version
                         ELSE calls[k].high
    BY DEF Install, Installed, GroupOK
  <1>7. Enforced(group) <= group.high
    BY <1>2 DEF Enforced, GroupOK, MarksOK
  <1>8. group.high \in Nat /\ Enforced(group) \in Nat
    BY EnforcedType DEF GroupOK
  <1>9. Enforced(group') = calls[k].body.version
    BY <1>5, <1>6 DEF Enforced
  <1>10. QED
    BY <1>4, <1>5, <1>6, <1>7, <1>8, <1>9

LEMMA StepForward == DeviceInv /\ [Next]_vars => Forward
  <1> SUFFICES ASSUME DeviceInv, [Next]_vars PROVE Forward
    OBVIOUS
  <1>0. SettingOK /\ GroupOK
    BY DEF DeviceInv
  <1>1. group' = group => Forward
    BY <1>0, SameIsForward
  <1>2. CASE Elsewhere
    BY <1>1, <1>2 DEF Elsewhere
  <1>3. CASE Puts
    BY <1>0, <1>3, PutKeepsMarks, SameIsForward DEF Puts
  <1>4. CASE KillApp \/ signOutDevice \/ TokenDue \/ \E d \in 1 .. server.enrolled : Edit(d)
    BY <1>1, <1>4 DEF KillApp, signOutDevice, TokenDue, Edit
  <1>5. ASSUME NEW k \in Call, AppStep(k) PROVE Forward
    BY <1>1, <1>5 DEF AppStep, Enroll, SyncTapped, handleIncoming
  <1>6. ASSUME NEW k \in Call, CallStep(k) PROVE Forward
    <2>1. CASE Install(k)
      BY <2>1, InstallForward
    <2>2. CASE ~Install(k)
      <3>1. group' = group
        BY <1>6, <2>2 DEF CallStep, Redeemed, Filed, Renew, Renewed, Get, Got, CheckInstall,
                          Reports, Reported, Posts, PostedNext, WriteDone, Decided
      <3>2. QED
        BY <1>1, <3>1
    <2>3. QED
      BY <2>1, <2>2
  <1>7. QED
    BY <1>2, <1>3, <1>4, <1>5, <1>6, DeviceSteps, SafariSteps

\* Whatever the child and the parents do, and whatever of it is late, lost or
\* done twice, the enforced policy is never replaced by an older one and never
\* lost, unless two installs overlap (PolicyStore install).
THEOREM EnforcedNeverBackwards == Spec => NeverBackwards
  <1> DEFINE step == "install" \notin overlapped' =>
                        /\ Enforced(group') >= Enforced(group)
                        /\ State = "verified" => group'.raw # None /\ group'.raw.version >= group'.high
  <1>1. DeviceInv /\ [Next]_vars => [step]_vars
    BY StepForward DEF Forward
  <1>2. QED
    BY <1>1, DeviceInvariant, PTL DEF Spec, NeverBackwards

-----------------------------------------------------------------------------
(* Types of the iPhone and of Safari. *)

Distinct(q) == \A i, j \in 1 .. Len(q) : q[i] = q[j] => i = j

QueueOK(q) == q \in Seq(Pages) /\ Distinct(q) /\ Len(q) <= setting.maxPending

Screens == {"idle", "sending", "waiting", "answered", "opened", "closed", "failed"}

LoadOK(l) == /\ DOMAIN l = {"n", "page", "kind", "flow", "events"}
             /\ l.page \in Pages /\ l.kind \in Kind /\ l.events \subseteq EventName

AppOK ==
    /\ left \in [Things -> Nat] /\ now \in Nat
    /\ group.provisioned \in BOOLEAN /\ QueueOK(group.queue)
    /\ DOMAIN app = {"up", "screen", "target", "late", "error"} /\ app.screen \in Screens
    /\ \A l \in loads : LoadOK(l)

\* Whoever changes a list: a message's write is of what the message says.
WriteOK(w) ==
    /\ DOMAIN w = {"by", "op", "arg", "seen", "live"}
    /\ w.op \in {"spend", "mark", "enqueue", "remove"}
    /\ w.op = "enqueue" => w.by \in Slot
    /\ w.op \in {"enqueue", "remove"} /\ w.seen # None => QueueOK(w.seen)
    /\ w.by \in Slot => /\ mails[w.by] # None /\ mails[w.by].at = "handling" /\ mails[w.by].arg = w.arg
                        /\ <<w.op, mails[w.by].type>> \in {<<"spend", "SPEND_GRANT">>,
                                                           <<"enqueue", "REQUEST_ACCESS">>}

WritesOK == /\ \A w \in writes : WriteOK(w)
            /\ \A v, w \in writes : v.by = w.by /\ v.by \in Slot => v = w

\* What a message's task waits for.
AwaitedBy(m, task) ==
    \/ m.type = "GET_POLICY" /\ task.kind = "sync" /\ task.at = "asked"
    \/ m.type = "REQUEST_ACCESS" /\ task.kind = "ask" /\ task.at = "answer" /\ task.page = m.arg

MailOK(m) ==
    /\ m \in MailRecord(setting, IF m.type = "GET_POLICY" THEN Read(setting) ELSE BOOLEAN)
    /\ m.type = "REQUEST_ACCESS" => m.arg \in Pages
    /\ m.at = "answered" => m.task # None
    /\ m.task # None => tasks[m.task] # None /\ AwaitedBy(m, tasks[m.task])

MailsOK == /\ DOMAIN mails = Slot /\ \A m \in Slot : mails[m] # None => MailOK(mails[m])
           /\ \A m, n \in Slot :
                (/\ mails[m] # None /\ mails[n] # None
                 /\ mails[m].task = mails[n].task /\ mails[m].task # None) => m = n

\* Where a task may be, by its kind, and what it has read.
TaskOK(task) ==
    /\ task \in TaskRecord(setting)
    /\ \/ task.kind = "restore" /\ task.at \in {"read", "restore"}
       \/ task.kind = "sync" /\ task.at \in {"asked", "provisioned", "verified"}
       \/ /\ task.kind = "event" /\ task.at \in {"read", "restore", "decide"}
          /\ task.page \in Pages /\ task.event \in [name : EventName, kind : Kind]
       \/ /\ task.kind = "ask" /\ task.at \in {"read", "restore", "send", "answer"}
          /\ task.page \in Pages /\ task.event \in {None, Late}
    /\ task.at \in {"restore", "provisioned", "verified"} => task.seen \in Read(setting)
    /\ task.at = "verified" => task.seen.raw # None

TasksOK == DOMAIN tasks = Slot /\ \A t \in Slot : tasks[t] # None => TaskOK(tasks[t])

WorkerOK ==
    /\ DOMAIN worker = {"up", "ready", "snap", "provisioned", "spent", "adopting"}
    /\ worker.snap \in Held(setting) /\ worker.provisioned \in BOOLEAN
    /\ worker.adopting \subseteq SnapshotsOf(setting)
    /\ worker.up \/ (worker = Asleep /\ \A t \in Slot : tasks[t] = None)

PagesOK ==
    /\ DOMAIN store = {"snap", "provisioned", "spent", "asks"} /\ DOMAIN store.asks = Pages
    /\ store.snap \in Held(setting) /\ store.provisioned \in BOOLEAN
    /\ block \in [Pages -> [mode : {"none", "idle", "asking", "asked", "late", "approved", "declined"},
                            ask : {"none", "clicked", "sent"}]]

SafariInv == AppOK /\ WritesOK /\ MailsOK /\ TasksOK /\ WorkerOK /\ PagesOK

-----------------------------------------------------------------------------
(* Asks. *)

Kept(p) == p \in Range(group.queue) \cup server.posted \cup server.refused

\* What leaves the queue was sent; what the page remembers, or is told, is kept.
AsksInv == ~setting.racing =>
    /\ \A w \in writes : w.op = "remove" => w.arg \in server.posted \cup server.refused
    /\ \A m \in Slot : mails[m] # None /\ mails[m].type = "REQUEST_ACCESS" =>
            (Delivered(mails[m].body) => Kept(mails[m].arg))
    /\ \A p \in Pages : store.asks[p] # None => Kept(p)

\* What may happen, happened at most once more.
LeftStep == UNCHANGED left \/ \E thing : Use(thing)

LEMMA LeftKept ==
    ASSUME left \in [Things -> Nat], LeftStep
    PROVE  left' \in [Things -> Nat]
  <1>1. ASSUME NEW thing, Use(thing) PROVE left' \in [Things -> Nat]
    <2>1. left' = [left EXCEPT ![thing] = left[thing] - 1] /\ left[thing] > 0
      BY <1>1 DEF Use
    <2>2. DOMAIN left' = Things /\ left' = [x \in Things |-> left'[x]]
      BY <2>1
    <2>3. ASSUME NEW x \in Things PROVE left'[x] \in Nat
      <3>1. left[x] \in Nat
        OBVIOUS
      <3>2. CASE x = thing
        BY <2>1, <3>1, <3>2
      <3>3. CASE x # thing
        BY <2>1, <3>1, <3>3
      <3>4. QED
        BY <3>2, <3>3
    <2>4. QED
      BY <2>2, <2>3
  <1>2. QED
    BY <1>1 DEF LeftStep

AppStays == DOMAIN app' = DOMAIN app /\ (app.screen \in Screens => app'.screen \in Screens)

LEMMA FailStays ==
    ASSUME DOMAIN app = {"up", "screen", "target", "late", "error"}, NEW k,
           UNCHANGED app \/ Fail(k) \/ Failed(k) \/ NextRound(k, FALSE)
    PROVE  AppStays
  <1>1. ASSUME NEW x, NEW y, app' = [app EXCEPT !.error = x] \/ app' = [app EXCEPT !.error = x, !.late = y]
        PROVE  AppStays
    BY <1>1 DEF AppStays
  <1>2. Fail(k) => AppStays
    BY <1>1 DEF Fail
  <1>3. UNCHANGED app => AppStays
    BY DEF AppStays
  <1>4. ASSUME NEW failed, NextRound(k, failed) PROVE AppStays
    BY <1>1, <1>3, <1>4 DEF NextRound
  <1>5. QED
    BY <1>2, <1>3, <1>4 DEF Failed

\* A step of a call uses up what it may, and shows what it shows.
CallSeen == LeftStep /\ AppStays /\ UNCHANGED <<setting, now, loads>>

LEMMA CallShows ==
    ASSUME SettingOK, ServerOK, KeysOK, DOMAIN app = {"up", "screen", "target", "late", "error"},
           NEW k \in Call, CallStep(k)
    PROVE  CallSeen
  <1> USE DEF CallSeen, LeftStep, Mishap
  <1>1. CASE Redeemed(k)
    BY <1>1, FailStays DEF Redeemed
  <1>2. CASE Filed(k)
    <2>1. AppStays
      BY <1>2 DEF Filed, AppStays, Screens
    <2>2. QED
      BY <1>2, <2>1 DEF Filed
  <1>3. CASE Renew(k) \/ Reports(k) \/ Posts(k) \/ WriteDone(k) \/ Install(k)
    BY <1>3, FailStays DEF Renew, Reports, Posts, WriteDone, Install
  <1>4. CASE Renewed(k)
    BY <1>4, FailStays DEF Renewed
  <1>5. CASE Get(k)
    BY <1>5, FailStays DEF Get
  <1>6. CASE Got(k)
    BY <1>6, FailStays DEF Got
  <1>7. CASE CheckInstall(k)
    BY <1>7, FailStays DEF CheckInstall
  <1>8. CASE Reported(k)
    BY <1>8, FailStays DEF Reported
  <1>9. CASE PostedNext(k)
    BY <1>9, FailStays DEF PostedNext
  <1>10. CASE Decided(k)
    <2>1. PICK answers : answers = {a \in Policy(keychain.device).answers : a.target = calls[k].target}
      OBVIOUS
    <2>2. ASSUME keychain.device # None, answers # {}
          PROVE  (CHOOSE a \in answers : TRUE).answer \in {"opened", "closed"}
      <3>1. PICK d : d = keychain.device /\ d \in Devices
        BY <2>2 DEF KeysOK
      <3>2. Policy(d) \in Contents(setting)
        BY <3>1, PolicyIsContent
      <3>3. \A a \in Policy(d).answers : a.answer \in {"opened", "closed"}
        BY <3>2, DeviceAssumption DEF SettingOK
      <3>4. (CHOOSE a \in answers : TRUE) \in answers
        BY <2>2
      <3>5. QED
        BY <2>1, <3>1, <3>3, <3>4
    <2>3. AppStays
      BY <1>10, <2>1, <2>2 DEF Decided, AppStays, Screens
    <2>4. QED
      BY <1>10, <2>3 DEF Decided
  <1>11. QED
    BY <1>1, <1>2, <1>3, <1>4, <1>5, <1>6, <1>7, <1>8, <1>9, <1>10 DEF CallStep

LEMMA AppShows ==
    ASSUME DOMAIN app = {"up", "screen", "target", "late", "error"}, NEW k \in Call, AppStep(k)
    PROVE  CallSeen
  <1> USE DEF CallSeen, LeftStep, AppStays
  <1>1. CASE Enroll(k) \/ SyncTapped(k)
    BY <1>1 DEF Enroll, SyncTapped
  <1>2. ASSUME NEW t \in setting.links, handleIncoming(k, t) PROVE CallSeen
    BY <1>2 DEF handleIncoming, Screens
  <1>3. QED
    BY <1>1, <1>2 DEF AppStep

-----------------------------------------------------------------------------
(* The queue. *)

LEMMA EnqueuedOK ==
    ASSUME setting.maxPending \in Nat, NEW q, QueueOK(q), NEW w, w.arg \in Pages
    PROVE  QueueOK(Enqueued(w, q))
  <1>1. CASE w.arg \in Range(q) \/ Len(q) >= setting.maxPending
    BY <1>1 DEF Enqueued
  <1>2. CASE w.arg \notin Range(q) /\ ~(Len(q) >= setting.maxPending)
    <2>1. PICK r : r = Append(q, w.arg)
      OBVIOUS
    <2>2. q \in Seq(Pages) /\ Len(q) \in Nat /\ DOMAIN q = 1 .. Len(q)
      BY DEF QueueOK
    <2>3. r \in Seq(Pages) /\ Len(r) = Len(q) + 1 /\ r[Len(q) + 1] = w.arg
      BY <2>1, <2>2
    <2>4. \A i \in 1 .. Len(q) : r[i] = q[i]
      BY <2>1, <2>2
    <2>5. \A i \in 1 .. Len(q) : q[i] # w.arg
      BY <1>2, <2>2 DEF Range
    <2>6. ASSUME NEW i \in 1 .. Len(r), NEW j \in 1 .. Len(r), r[i] = r[j] PROVE i = j
      <3>1. CASE i \in 1 .. Len(q) /\ j \in 1 .. Len(q)
        BY <2>4, <2>6, <3>1 DEF QueueOK, Distinct
      <3>2. CASE i = Len(q) + 1 /\ j \in 1 .. Len(q)
        BY <2>3, <2>4, <2>5, <2>6, <3>2
      <3>3. CASE j = Len(q) + 1 /\ i \in 1 .. Len(q)
        BY <2>3, <2>4, <2>5, <2>6, <3>3
      <3>4. QED
        BY <2>2, <2>3, <3>1, <3>2, <3>3
    <2>7. Len(r) <= setting.maxPending
      BY <1>2, <2>2, <2>3
    <2>8. QueueOK(r)
      BY <2>3, <2>6, <2>7 DEF QueueOK, Distinct
    <2>9. QED
      BY <1>2, <2>1, <2>8 DEF Enqueued
  <1>3. QED
    BY <1>1, <1>2

LEMMA RemovedOK ==
    ASSUME setting.maxPending \in Nat, NEW q, QueueOK(q), NEW t
    PROVE  QueueOK(Removed(q, t))
  <1>1. CASE t \notin Range(q)
    BY <1>1 DEF Removed
  <1>2. CASE t \in Range(q)
    <2>1. PICK c : c = CHOOSE i \in DOMAIN q : q[i] = t
      OBVIOUS
    <2>2. q \in Seq(Pages) /\ Len(q) \in Nat /\ DOMAIN q = 1 .. Len(q)
      BY DEF QueueOK
    <2>3. c \in 1 .. Len(q) /\ q[c] = t
      BY <1>2, <2>1, <2>2 DEF Range
    <2>4. PICK r : r = SubSeq(q, 1, c - 1) \o SubSeq(q, c + 1, Len(q))
      OBVIOUS
    <2>5. PICK a, b : a = SubSeq(q, 1, c - 1) /\ b = SubSeq(q, c + 1, Len(q))
      OBVIOUS
    <2> \A i \in 1 .. Len(q) : q[i] \in Pages
      BY <2>2
    <2>6. a \in Seq(Pages) /\ Len(a) = c - 1 /\ \A i \in 1 .. c - 1 : a[i] = q[i]
      BY <2>2, <2>3, <2>5
    <2>7. /\ b \in Seq(Pages) /\ Len(b) = Len(q) - c
          /\ \A i \in 1 .. Len(q) - c : b[i] = q[c + i]
      <3>1. /\ SubSeq(q, c + 1, Len(q)) \in Seq(Pages)
            /\ Len(SubSeq(q, c + 1, Len(q))) = IF c + 1 <= Len(q) THEN Len(q) - (c + 1) + 1 ELSE 0
            /\ \A i \in 1 .. Len(q) - (c + 1) + 1 : SubSeq(q, c + 1, Len(q))[i] = q[c + 1 + i - 1]
        BY <2>2, <2>3, SubSeqProperties
      <3>2. ASSUME NEW i \in 1 .. Len(q) - c PROVE b[i] = q[c + i]
        <4>1. i \in 1 .. Len(q) - (c + 1) + 1 /\ c + 1 + i - 1 = c + i
          BY <2>2, <2>3
        <4>2. QED
          BY <2>5, <3>1, <4>1
      <3>3. Len(b) = Len(q) - c
        <4>1. Len(b) = IF c + 1 <= Len(q) THEN Len(q) - (c + 1) + 1 ELSE 0
          BY <2>5, <3>1
        <4>2. c \in Int /\ Len(q) \in Int /\ c <= Len(q)
          BY <2>2, <2>3
        <4>3. QED
          BY <4>1, <4>2
      <3>4. QED
        BY <2>5, <3>1, <3>2, <3>3
    <2>r. r = a \o b
      BY <2>4, <2>5
    <2>s. /\ a \o b \in Seq(Pages) /\ Len(a \o b) = Len(a) + Len(b)
          /\ \A i \in 1 .. Len(a) + Len(b) : (a \o b)[i] = IF i <= Len(a) THEN a[i] ELSE b[i - Len(a)]
      BY <2>6, <2>7, ConcatProperties
    <2>8. r \in Seq(Pages) /\ Len(r) = Len(q) - 1
      BY <2>2, <2>3, <2>r, <2>s, <2>6, <2>7
    <2>9. \A i \in 1 .. c - 1 : r[i] = q[i]
      BY <2>2, <2>3, <2>r, <2>s, <2>6, <2>7
    <2>10. ASSUME NEW i \in c .. Len(q) - 1 PROVE r[i] = q[i + 1]
      <3>1. r[i] = b[i - (c - 1)]
        <4>1. i \in 1 .. Len(a) + Len(b) /\ ~(i <= Len(a))
          BY <2>2, <2>3, <2>6, <2>7
        <4>2. QED
          BY <2>r, <2>s, <2>6, <4>1
      <3>2. i - (c - 1) \in 1 .. Len(q) - c /\ c + (i - (c - 1)) = i + 1
        BY <2>2, <2>3
      <3>3. QED
        BY <2>7, <3>1, <3>2
    <2>11. ASSUME NEW i \in 1 .. Len(r), NEW j \in 1 .. Len(r), r[i] = r[j] PROVE i = j
      <3>1. PICK x : x = IF i < c THEN i ELSE i + 1
        OBVIOUS
      <3>2. PICK y : y = IF j < c THEN j ELSE j + 1
        OBVIOUS
      <3>3. x \in 1 .. Len(q) /\ r[i] = q[x]
        BY <2>2, <2>3, <2>8, <2>9, <2>10, <3>1
      <3>4. y \in 1 .. Len(q) /\ r[j] = q[y]
        BY <2>2, <2>3, <2>8, <2>9, <2>10, <3>2
      <3>5. x = y
        BY <2>11, <3>3, <3>4 DEF QueueOK, Distinct
      <3>6. QED
        BY <2>2, <2>3, <2>8, <3>1, <3>2, <3>5
    <2>12. Len(r) <= setting.maxPending
      BY <2>2, <2>8 DEF QueueOK
    <2>13. QueueOK(r)
      BY <2>8, <2>11, <2>12 DEF QueueOK, Distinct
    <2>14. Removed(q, t) = r
      BY <1>2, <2>1, <2>4 DEF Removed, RemoveAt
    <2>15. QED
      BY <2>13, <2>14
  <1>3. QED
    BY <1>1, <1>2

-----------------------------------------------------------------------------
(* The writes of the app and of the filter. *)

MoreWrites ==
    \A w \in writes' : w \in writes \/ \E by \in Call \cup {None}, op \in {"spend", "mark", "remove"} : \E arg :
                                            w = Write(by, op, arg)

LEMMA FreshWriteOK ==
    ASSUME NEW by \in Call \cup {None}, NEW op \in {"spend", "mark", "remove"}, NEW arg, NEW w,
           w = Write(by, op, arg)
    PROVE  WriteOK(w)' /\ w.by \notin Slot
  <1>1. w.by = by /\ w.op = op /\ w.seen = None /\ DOMAIN w = {"by", "op", "arg", "seen", "live"}
    BY DEF Write
  <1>2. by \notin Slot
    BY DeviceAssumption
  <1>3. QED
    BY <1>1, <1>2 DEF WriteOK

LEMMA WriteStays ==
    ASSUME NEW w, WriteOK(w), UNCHANGED <<setting, mails>>
    PROVE  WriteOK(w)'
  BY DEF WriteOK, QueueOK, Pages

LEMMA MoreWritesOK ==
    ASSUME WritesOK, MoreWrites, UNCHANGED <<setting, mails>>
    PROVE  WritesOK'
  <1>1. \A w \in writes' : WriteOK(w)' /\ (w \in writes \/ w.by \notin Slot)
    BY FreshWriteOK, WriteStays DEF MoreWrites, WritesOK
  <1>2. QED
    BY <1>1 DEF WritesOK

LEMMA CallWrites ==
    ASSUME NEW k \in Call, AppStep(k) \/ CallStep(k)
    PROVE  MoreWrites
  <1> USE DEF MoreWrites
  <1>1. CASE AppStep(k)
    BY <1>1 DEF AppStep, Enroll, SyncTapped, handleIncoming
  <1>2. CASE Redeemed(k) \/ Filed(k) \/ Renew(k) \/ Renewed(k) \/ Get(k) \/ Got(k)
    BY <1>2 DEF Redeemed, Filed, Renew, Renewed, Get, Got
  <1>3. CASE CheckInstall(k) \/ Install(k) \/ Reports(k) \/ Posts(k) \/ WriteDone(k) \/ Decided(k)
    BY <1>3 DEF CheckInstall, Install, Reports, Posts, WriteDone, Decided
  <1>4. CASE Reported(k)
    BY <1>4 DEF Reported
  <1>5. CASE PostedNext(k)
    BY <1>5 DEF PostedNext
  <1>6. QED
    BY <1>1, <1>2, <1>3, <1>4, <1>5 DEF CallStep

\* The read of a list that a write is to change.
LEMMA TakeKeeps ==
    ASSUME WritesOK, AppOK, NEW w \in writes, Take(w), UNCHANGED mails
    PROVE  WritesOK'
  <1>1. PICK new : new = [w EXCEPT !.seen = group[KeyOf(w.op)]]
    OBVIOUS
  <1>2. writes' = (writes \ {w}) \cup {new} /\ UNCHANGED <<setting, mails>>
    BY <1>1 DEF Take
  <1>3. WriteOK(w)
    BY DEF WritesOK
  <1>4. /\ DOMAIN new = {"by", "op", "arg", "seen", "live"}
        /\ new.by = w.by /\ new.op = w.op /\ new.arg = w.arg /\ new.seen = group[KeyOf(w.op)]
    BY <1>1, <1>3 DEF WriteOK
  <1>5. new.op \in {"enqueue", "remove"} => QueueOK(new.seen)
    BY <1>4 DEF KeyOf, AppOK
  <1>6. WriteOK(new)
    BY <1>3, <1>4, <1>5 DEF WriteOK
  <1>7. \A v \in writes' : WriteOK(v)'
    BY <1>2, <1>6, WriteStays DEF WritesOK
  <1>8. ASSUME NEW v \in writes', NEW u \in writes', v.by = u.by, v.by \in Slot PROVE v = u
    <2>1. CASE v # new /\ u # new
      BY <1>2, <1>8, <2>1 DEF WritesOK
    <2>2. CASE v = new /\ u # new
      BY <1>2, <1>4, <1>8, <2>2 DEF WritesOK
    <2>3. CASE u = new /\ v # new
      BY <1>2, <1>4, <1>8, <2>3 DEF WritesOK
    <2>4. QED
      BY <2>1, <2>2, <2>3
  <1>9. QED
    BY <1>7, <1>8 DEF WritesOK

\* A write that may be made is of a list that is in order.
LEMMA PutOK ==
    ASSUME SettingOK, DOMAIN group = {"raw", "high", "provisioned", "spent", "reported", "queue"},
           AppOK, NEW w \in writes, WriteOK(w), w.op = "enqueue" => w.arg \in Pages,
           MayPut(w), group' = Put(w), UNCHANGED setting
    PROVE  group'.provisioned = group.provisioned /\ QueueOK(group.queue)'
  <1>1. PICK key : key = KeyOf(w.op)
    OBVIOUS
  <1>2. PICK value : value = IF setting.racing THEN w.seen ELSE group[key]
    OBVIOUS
  <1>3. PICK new : new = Changed(w, value)
    OBVIOUS
  <1>4. key \in {"spent", "reported", "queue"} /\ (key = "queue" => w.op \in {"enqueue", "remove"})
    BY <1>1 DEF KeyOf, WriteOK
  <1>5. group' = [group EXCEPT ![key] = new]
    BY <1>1, <1>2, <1>3 DEF Put
  <1>6. group'.provisioned = group.provisioned
    BY <1>4, <1>5
  <1>7. group'.queue = IF key = "queue" THEN new ELSE group.queue
    BY <1>4, <1>5
  <1>8. ASSUME key = "queue" PROVE QueueOK(new)
    <2>1. QueueOK(value)
      BY <1>2, <1>4, <1>8 DEF AppOK, MayPut, WriteOK
    <2>2. setting.maxPending \in Nat
      BY DeviceAssumption DEF SettingOK
    <2>3. CASE w.op = "enqueue"
      BY <1>3, <2>1, <2>2, <2>3, EnqueuedOK DEF Changed
    <2>4. CASE w.op = "remove"
      BY <1>3, <2>1, <2>2, <2>4, RemovedOK DEF Changed
    <2>5. QED
      BY <1>4, <1>8, <2>3, <2>4
  <1>9. PICK q : q = group'.queue
    OBVIOUS
  <1>10. QueueOK(q)
    BY <1>7, <1>8, <1>9 DEF AppOK
  <1>11. QueueOK(group.queue)'
    BY <1>9, <1>10 DEF QueueOK, Pages, Distinct
  <1>12. QED
    BY <1>6, <1>11

-----------------------------------------------------------------------------
(* What the app, the filter and the child do. *)

LEMMA MailsStay == MailsOK /\ UNCHANGED <<setting, mails, tasks>> => MailsOK'
  BY DEF MailsOK, MailOK, AwaitedBy, Pages

LEMMA TasksStay == TasksOK /\ UNCHANGED <<setting, tasks>> => TasksOK'
  BY DEF TasksOK, TaskOK, Pages

LEMMA WorkerStays == WorkerOK /\ UNCHANGED <<setting, worker, tasks>> => WorkerOK'
  BY DEF WorkerOK

LEMMA PagesStay == PagesOK /\ UNCHANGED <<setting, store, block>> => PagesOK'
  BY DEF PagesOK, Pages

LEMMA WritesStay == WritesOK /\ UNCHANGED <<setting, writes, mails>> => WritesOK'
  BY WriteStays DEF WritesOK

LEMMA SafariStays ==
    MailsOK /\ TasksOK /\ WorkerOK /\ PagesOK /\ UNCHANGED <<setting, safari>>
        => MailsOK' /\ TasksOK' /\ WorkerOK' /\ PagesOK'
  BY MailsStay, TasksStay, WorkerStays, PagesStay DEF safari

GroupStays == group'.provisioned \in BOOLEAN /\ QueueOK(group.queue)'

LEMMA GroupSame == AppOK /\ UNCHANGED <<setting, group>> => GroupStays
  BY DEF AppOK, GroupStays, QueueOK, Pages

LoadsStay == \A l \in loads' : l \in loads \/ LoadOK(l)

LEMMA LoadsSame == UNCHANGED loads => LoadsStay
  BY DEF LoadsStay

LEMMA AppKept ==
    ASSUME AppOK, UNCHANGED setting, left' \in [Things -> Nat], now' \in Nat, AppStays, GroupStays, LoadsStay
    PROVE  AppOK'
  <1>1. \A l \in loads' : LoadOK(l)'
    BY DEF AppOK, LoadsStay, LoadOK, Pages
  <1>2. QED
    BY <1>1 DEF AppOK, AppStays, GroupStays

LEMMA InstallQueue ==
    ASSUME AppOK, GroupOK, NEW k \in Call, Install(k)
    PROVE  GroupStays
  <1>1. group' = Installed(calls[k].body, calls[k].high) /\ UNCHANGED setting
    BY DEF Install
  <1>2. group'.provisioned = TRUE /\ group'.queue = group.queue
    BY <1>1 DEF Installed, GroupOK
  <1>3. QED
    BY <1>1, <1>2 DEF GroupStays, AppOK, QueueOK, Pages

LEMMA CallKeepsSafari ==
    ASSUME DeviceInv, SafariInv, NEW k \in Call, AppStep(k) \/ CallStep(k), UNCHANGED safari
    PROVE  SafariInv'
  <1> USE DEF SafariInv
  <1>1. CallSeen
    BY CallShows, AppShows DEF DeviceInv, AppOK
  <1>2. UNCHANGED mails
    BY DEF safari
  <1>3. GroupStays
    <2>1. CASE Install(k)
      BY <2>1, InstallQueue DEF DeviceInv
    <2>2. CASE AppStep(k)
      BY <2>2, GroupSame DEF AppStep, Enroll, SyncTapped, handleIncoming
    <2>3. CASE Redeemed(k) \/ Filed(k) \/ Renew(k) \/ Renewed(k) \/ Get(k) \/ Got(k)
      BY <2>3, GroupSame DEF Redeemed, Filed, Renew, Renewed, Get, Got
    <2>4. CASE CheckInstall(k) \/ Reports(k) \/ Reported(k) \/ Posts(k) \/ PostedNext(k) \/ WriteDone(k) \/ Decided(k)
      BY <2>4, GroupSame DEF CheckInstall, Reports, Reported, Posts, PostedNext, WriteDone, Decided
    <2>5. QED
      BY <2>1, <2>2, <2>3, <2>4 DEF CallStep
  <1>4. AppOK'
    BY <1>1, <1>3, AppKept, LeftKept, LoadsSame DEF CallSeen, AppOK
  <1>5. WritesOK'
    BY <1>1, <1>2, CallWrites, MoreWritesOK DEF CallSeen
  <1>6. QED
    BY <1>1, <1>4, <1>5, SafariStays DEF CallSeen

LEMMA JudgedOK ==
    ASSUME AppOK, NEW l \in loads, NEW judged, LoadOK(judged), loads' = Judged(l, judged)
    PROVE  LoadsStay
  BY DEF Judged, LoadsStay

LEMMA OpenKeeps ==
    ASSUME SettingOK, AppOK, NEW p \in Pages, NEW kind \in setting.kinds, Open(p, kind)
    PROVE  LoadsStay
  <1>1. PICK l : l = [n |-> left.load, page |-> p, kind |-> kind, flow |-> kind # "route",
                      events |-> IF setting.safari THEN Events(kind) ELSE {}]
    OBVIOUS
  <1>2. loads' = loads \cup {l}
    BY <1>1 DEF Open
  <1>3. kind \in Kind
    BY DeviceAssumption DEF SettingOK
  <1>4. Events(kind) \subseteq EventName
    BY <1>3 DEF Events, EventName, Kind
  <1>5. LoadOK(l)
    BY <1>1, <1>3, <1>4 DEF LoadOK
  <1>6. QED
    BY <1>2, <1>5 DEF LoadsStay

LEMMA FlowKeeps ==
    ASSUME AppOK, NEW l \in loads, handleNewFlow(l)
    PROVE  LoadsStay /\ MoreWrites
  <1>1. PICK judged : judged = [l EXCEPT !.flow = FALSE]
    OBVIOUS
  <1>2. LoadOK(judged)
    BY <1>1 DEF AppOK, LoadOK
  <1>3. loads' = Judged(l, judged)
    BY <1>1 DEF handleNewFlow
  <1>4. LoadsStay
    BY <1>2, <1>3, JudgedOK
  <1>5. MoreWrites
    BY DEF handleNewFlow, MoreWrites
  <1>6. QED
    BY <1>4, <1>5

LEMMA CommitOK ==
    ASSUME DeviceInv, SafariInv, NEW w \in writes, Commit(w), UNCHANGED safari
    PROVE  SafariInv'
  <1> USE DEF SafariInv
  <1>1. WriteOK(w) /\ (w.op = "enqueue" => w.arg \in Pages)
    BY DEF WritesOK, WriteOK, Commit
  <1>2. GroupStays
    BY <1>1, PutOK DEF Commit, GroupStays, AppOK, DeviceInv, GroupOK
  <1>3. UNCHANGED <<setting, left, now, app, loads, mails>> /\ writes' = writes \ {w}
    BY DEF Commit, safari
  <1>4. AppOK'
    BY <1>2, <1>3, AppKept, LoadsSame DEF AppOK, AppStays
  <1>5. WritesOK'
    BY <1>3, MoreWritesOK DEF MoreWrites
  <1>6. QED
    BY <1>3, <1>4, <1>5, SafariStays

LEMMA DeviceKeepsSafari ==
    ASSUME DeviceInv, SafariInv, DeviceStep, UNCHANGED safari
    PROVE  SafariInv'
  <1> USE DEF SafariInv
  <1>1. UNCHANGED mails
    BY DEF safari
  <1>2. ASSUME LeftStep, AppStays, LoadsStay, MoreWrites, now' \in Nat, UNCHANGED <<setting, group>>
        PROVE  SafariInv'
    BY <1>1, <1>2, AppKept, LeftKept, GroupSame, MoreWritesOK, SafariStays DEF AppOK
  <1>3. now \in Nat /\ DOMAIN app = {"up", "screen", "target", "late", "error"}
    BY DEF AppOK
  <1>4. ASSUME NEW d, Edit(d) PROVE SafariInv'
    BY <1>2, <1>3, <1>4, LoadsSame DEF Edit, LeftStep, AppStays, MoreWrites
  <1>5. CASE Tick
    BY <1>2, <1>3, <1>5, LoadsSame DEF Tick, LeftStep, AppStays, MoreWrites
  <1>6. CASE OpenApp \/ CloseSheet
    <2>1. AppStays
      BY <1>3, <1>6 DEF OpenApp, CloseSheet, AppStays, Launched, Screens
    <2>2. QED
      BY <1>2, <1>3, <1>6, <2>1, LoadsSame DEF OpenApp, CloseSheet, LeftStep, MoreWrites
  <1>7. CASE KillApp
    <2>1. AppStays
      BY <1>3, <1>7 DEF KillApp, AppStays, Closed, Launched, Screens
    <2>2. QED
      BY <1>2, <1>3, <1>7, <2>1, LoadsSame DEF KillApp, LeftStep, MoreWrites
  <1>8. CASE signOutDevice \/ TokenDue
    BY <1>2, <1>3, <1>8, LoadsSame DEF signOutDevice, TokenDue, LeftStep, AppStays, MoreWrites
  <1>9. ASSUME NEW k \in Call, AppStep(k) \/ CallStep(k) PROVE SafariInv'
    BY <1>9, CallKeepsSafari
  <1>10. ASSUME NEW w \in writes, Take(w) PROVE SafariInv'
    <2>1. WritesOK'
      BY <1>1, <1>10, TakeKeeps
    <2>2. UNCHANGED <<setting, left, now, group, app, loads>>
      BY <1>10 DEF Take
    <2>3. AppOK'
      BY <1>3, <2>2, AppKept, GroupSame, LoadsSame DEF AppOK, AppStays
    <2>4. QED
      BY <2>1, <2>2, <2>3, SafariStays
  <1>11. ASSUME NEW w \in writes, Commit(w) PROVE SafariInv'
    BY <1>11, CommitOK
  <1>12. ASSUME NEW p \in Pages, NEW kind \in setting.kinds, Open(p, kind) PROVE SafariInv'
    BY <1>2, <1>3, <1>12, OpenKeeps DEF Open, LeftStep, AppStays, MoreWrites, DeviceInv
  <1>13. ASSUME NEW l \in loads, handleNewFlow(l) PROVE SafariInv'
    BY <1>2, <1>3, <1>13, FlowKeeps DEF handleNewFlow, LeftStep, AppStays
  <1>14. QED
    BY <1>4, <1>5, <1>6, <1>7, <1>8, <1>9, <1>10, <1>11, <1>12, <1>13 DEF DeviceStep, AppStep, Pages

-----------------------------------------------------------------------------
(* Tasks and messages. *)

\* A task that no message is to come back to.
Unawaited(t) == t \notin Slot \/ tasks[t] = None \/ tasks[t].at \notin {"asked", "answer"}

LEMMA PutTask ==
    ASSUME TasksOK, UNCHANGED setting, NEW t, NEW x, x = None \/ TaskOK(x), tasks' = [tasks EXCEPT ![t] = x]
    PROVE  TasksOK'
  <1>1. \A s \in Slot : tasks'[s] = tasks[s] \/ tasks'[s] = x
    BY DEF TasksOK
  <1>2. ASSUME NEW y, TaskOK(y) PROVE TaskOK(y)'
    BY <1>2 DEF TaskOK, Pages
  <1>3. QED
    BY <1>1, <1>2 DEF TasksOK

LEMMA RunningTask ==
    ASSUME WorkerOK, NEW t \in Slot, tasks[t] # None
    PROVE  worker.up
  BY DEF WorkerOK

\* A worker that runs, whatever its tasks.
LEMMA WorkerRuns ==
    ASSUME WorkerOK, worker.up, UNCHANGED <<setting, worker>>
    PROVE  WorkerOK'
  BY DEF WorkerOK

LEMMA FreeIs ==
    ASSUME NEW f, HasFree(f)
    PROVE  Free(f) \in Slot /\ f[Free(f)] = None
  BY DEF HasFree, Free

LEMMA MailStays ==
    ASSUME NEW m, MailOK(m), UNCHANGED setting,
           m.task # None => tasks'[m.task] # None /\ AwaitedBy(m, tasks'[m.task])
    PROVE  MailOK(m)'
  BY DEF MailOK, AwaitedBy, Pages

LEMMA UnawaitedStep ==
    ASSUME MailsOK, TasksOK, UNCHANGED <<setting, mails>>, NEW t, Unawaited(t), NEW x, tasks' = [tasks EXCEPT ![t] = x]
    PROVE  MailsOK'
  <1>1. ASSUME NEW m \in Slot, mails[m] # None PROVE MailOK(mails[m])'
    <2>1. PICK y : y = mails[m]
      OBVIOUS
    <2>2. MailOK(y)
      BY <1>1, <2>1 DEF MailsOK
    <2>3. y.task # None => y.task # t
      BY <2>2 DEF MailOK, MailRecord, AwaitedBy, Unawaited
    <2>4. y.task # None => tasks'[y.task] = tasks[y.task]
      BY <2>2, <2>3 DEF MailOK, MailRecord, TasksOK
    <2>5. MailOK(y)'
      BY <2>2, <2>4, MailStays DEF MailOK
    <2>6. QED
      BY <2>1, <2>5
  <1>2. QED
    BY <1>1 DEF MailsOK

\* A message that goes out, for nobody or for a task that waits for it from now on.
LEMMA SentStep ==
    ASSUME MailsOK, TasksOK, UNCHANGED setting, NEW f \in Slot, mails[f] = None,
           NEW t \in Slot, Unawaited(t), NEW x, tasks' = [tasks EXCEPT ![t] = x],
           NEW new, mails' = [mails EXCEPT ![f] = new], new # None,
           new \in MailRecord(setting, IF new.type = "GET_POLICY" THEN Read(setting) ELSE BOOLEAN),
           new.type = "REQUEST_ACCESS" => new.arg \in Pages, new.at = "sent",
           new.task = None \/ (new.task = t /\ x # None /\ AwaitedBy(new, x))
    PROVE  MailsOK'
  <1>1. ASSUME NEW m \in Slot, mails[m] # None, m # f
        PROVE  MailOK(mails[m])' /\ mails'[m] = mails[m] /\ mails[m].task # t
    <2>1. PICK y : y = mails[m]
      OBVIOUS
    <2>2. MailOK(y)
      BY <1>1, <2>1 DEF MailsOK
    <2>3. y.task # t
      BY <2>2, DeviceAssumption DEF MailOK, AwaitedBy, Unawaited
    <2>4. y.task # None => tasks'[y.task] = tasks[y.task]
      BY <2>2, <2>3 DEF MailOK, MailRecord, TasksOK
    <2>5. MailOK(y)'
      BY <2>2, <2>4, MailStays DEF MailOK
    <2>6. mails'[m] = y
      BY <1>1, <2>1 DEF MailsOK
    <2>7. QED
      BY <2>1, <2>3, <2>5, <2>6
  <1>2. mails'[f] = new /\ DOMAIN mails' = Slot /\ tasks'[t] = x
    BY DEF MailsOK, TasksOK
  <1>3. MailOK(new)'
    BY <1>2 DEF MailOK, AwaitedBy, Pages
  <1>4. \A m \in Slot \ {f} : mails'[m] = mails[m]
    BY DEF MailsOK
  <1>5. \A m \in Slot : mails'[m] # None => MailOK(mails[m])'
    BY <1>1, <1>2, <1>3, <1>4
  <1>6. ASSUME NEW m \in Slot, NEW n \in Slot, mails'[m] # None, mails'[n] # None,
               mails'[m].task = mails'[n].task, mails'[m].task # None
        PROVE  m = n
    <2>1. CASE m # f /\ n # f
      BY <1>4, <1>6, <2>1 DEF MailsOK
    <2>2. CASE m = f /\ n # f
      BY <1>1, <1>2, <1>4, <1>6, <2>2
    <2>3. CASE n = f /\ m # f
      BY <1>1, <1>2, <1>4, <1>6, <2>3
    <2>4. QED
      BY <2>1, <2>2, <2>3
  <1>7. QED
    BY <1>2, <1>5, <1>6 DEF MailsOK

\* An answer that reaches the task that waits for it.
LEMMA RepliedStep ==
    ASSUME MailsOK, TasksOK, UNCHANGED setting, NEW t \in Slot, NEW m \in Slot, mails[m] # None, mails[m].task = t,
           NEW x, tasks' = [tasks EXCEPT ![t] = x], mails' = [mails EXCEPT ![m] = None]
    PROVE  MailsOK'
  <1>1. \A n \in Slot \ {m} : mails'[n] = mails[n]
    BY DEF MailsOK
  <1>2. mails'[m] = None /\ DOMAIN mails' = Slot
    BY DEF MailsOK
  <1>3. ASSUME NEW n \in Slot, n # m, mails[n] # None PROVE MailOK(mails[n])'
    <2>1. PICK y : y = mails[n]
      OBVIOUS
    <2>2. MailOK(y)
      BY <1>3, <2>1 DEF MailsOK
    <2>3. y.task # t
      BY <1>3, <2>1, DeviceAssumption DEF MailsOK
    <2>4. y.task # None => tasks'[y.task] = tasks[y.task]
      BY <2>2, <2>3 DEF MailOK, MailRecord, TasksOK
    <2>5. MailOK(y)'
      BY <2>2, <2>4, MailStays DEF MailOK
    <2>6. mails'[n] = y
      BY <1>1, <1>3, <2>1
    <2>7. QED
      BY <2>1, <2>5, <2>6
  <1>4. \A n \in Slot : mails'[n] # None => MailOK(mails[n])'
    BY <1>1, <1>2, <1>3
  <1>5. QED
    BY <1>1, <1>2, <1>4 DEF MailsOK

\* A message that goes on, for the same task.
LEMMA MailStep ==
    ASSUME MailsOK, UNCHANGED <<setting, tasks>>, NEW m \in Slot, mails[m] # None, NEW new,
           new = None \/ (MailOK(new) /\ new.task = mails[m].task), mails' = [mails EXCEPT ![m] = new]
    PROVE  MailsOK'
  <1>1. \A n \in Slot \ {m} : mails'[n] = mails[n]
    BY DEF MailsOK
  <1>2. mails'[m] = new /\ DOMAIN mails' = Slot
    BY DEF MailsOK
  <1>3. ASSUME NEW y, MailOK(y) PROVE MailOK(y)'
    BY <1>3 DEF MailOK, AwaitedBy, Pages
  <1>4. \A n \in Slot : mails'[n] # None => MailOK(mails'[n])
    BY <1>1, <1>2 DEF MailsOK
  <1>5. \A n \in Slot : mails'[n] # None => MailOK(mails[n])'
    BY <1>3, <1>4
  <1>6. \A n \in Slot : mails'[n] # None => mails[n] # None /\ mails'[n].task = mails[n].task
    BY <1>1, <1>2
  <1>7. QED
    BY <1>2, <1>5, <1>6 DEF MailsOK

\* The writes of messages that are handled do not mind the others.
LEMMA WritesUnmoved ==
    ASSUME WritesOK, MailsOK, UNCHANGED <<setting, writes>>, NEW f \in Slot,
           mails[f] = None \/ mails[f].at # "handling", NEW new, mails' = [mails EXCEPT ![f] = new]
    PROVE  WritesOK'
  <1>1. ASSUME NEW w \in writes PROVE WriteOK(w)'
    <2>1. WriteOK(w)
      BY DEF WritesOK
    <2>2. w.by \in Slot => mails'[w.by] = mails[w.by]
      BY <2>1 DEF WriteOK, MailsOK
    <2>3. QED
      BY <2>1, <2>2 DEF WriteOK, QueueOK, Pages
  <1>2. QED
    BY <1>1 DEF WritesOK

-----------------------------------------------------------------------------
(* The handler. *)

AppSame == UNCHANGED <<setting, now, app, loads>> /\ LeftStep

LEMMA AppUnmoved == AppOK /\ AppSame /\ UNCHANGED group => AppOK'
  BY AppKept, LeftKept, GroupSame, LoadsSame DEF AppOK, AppSame, AppStays

LEMMA InsideKeeps == AppOK /\ Inside => AppOK' /\ UNCHANGED setting
  BY AppUnmoved DEF Inside, device, AppSame, LeftStep

\* The answer to a message is one that it can have.
AnswerFits(m, body) == body = None \/ body \in IF m.type = "GET_POLICY" THEN Read(setting) ELSE BOOLEAN

LEMMA AnsweredOK ==
    ASSUME NEW m, MailOK(m), m.task # None, NEW body, AnswerFits(m, body),
           NEW new, new = [m EXCEPT !.at = "answered", !.body = body]
    PROVE  MailOK(new) /\ new.task = m.task
  <1>1. new.type = m.type /\ new.task = m.task /\ new.arg = m.arg
    BY DEF MailOK, MailRecord
  <1>2. new \in MailRecord(setting, IF m.type = "GET_POLICY" THEN Read(setting) ELSE BOOLEAN)
    BY DEF MailOK, MailRecord, AnswerFits
  <1>3. QED
    BY <1>1, <1>2 DEF MailOK, AwaitedBy

LEMMA AnswerKeeps ==
    ASSUME MailsOK, UNCHANGED <<setting, tasks>>, NEW m \in Slot, mails[m] # None, NEW body,
           AnswerFits(mails[m], body), AnswerMail(m, body)
    PROVE  MailsOK'
  <1>1. PICK old : old = mails[m]
    OBVIOUS
  <1>2. PICK new : new = IF old.task = None THEN None ELSE [old EXCEPT !.at = "answered", !.body = body]
    OBVIOUS
  <1>3. mails' = [mails EXCEPT ![m] = new]
    BY <1>1, <1>2 DEF AnswerMail, MailsOK
  <1>4. MailOK(old)
    BY <1>1 DEF MailsOK
  <1>5. new = None \/ (MailOK(new) /\ new.task = old.task)
    <2>1. CASE old.task = None
      BY <1>2, <2>1
    <2>2. CASE old.task # None
      <3>1. new = [old EXCEPT !.at = "answered", !.body = body]
        BY <1>2, <2>2
      <3>2. AnswerFits(old, body)
        BY <1>1
      <3>3. QED
        BY <1>4, <2>2, <3>1, <3>2, AnsweredOK
    <2>3. QED
      BY <2>1, <2>2
  <1>6. QED
    BY <1>1, <1>3, <1>5, MailStep

Answered(m, body) == [m EXCEPT !.at = "answered", !.body = body]

HandledAs(op, type) == \/ op = "spend" /\ type = "SPEND_GRANT"
                       \/ op = "enqueue" /\ type = "REQUEST_ACCESS"

Handled(m) == [m EXCEPT !.at = "handling"]

\* A message whose handling begins.
LEMMA HandledKeeps ==
    ASSUME SettingOK, MailsOK, WritesOK, UNCHANGED <<setting, tasks>>, NEW m \in Slot, mails[m] # None, mails[m].at = "sent",
           NEW op, HandledAs(op, mails[m].type),
           writes' = writes \cup {Write(m, op, mails[m].arg)},
           mails' = [mails EXCEPT ![m] = Handled(mails[m])]
    PROVE  MailsOK' /\ WritesOK'
  <1>1. PICK old : old = mails[m]
    OBVIOUS
  <1>2. PICK new : new = Handled(old)
    OBVIOUS
  <1>3. mails' = [mails EXCEPT ![m] = new]
    BY <1>1, <1>2
  <1>4. MailOK(old)
    BY <1>1 DEF MailsOK
  <1>5. new.type = old.type /\ new.task = old.task /\ new.arg = old.arg /\ new.at = "handling"
    BY <1>2, <1>4 DEF MailOK, MailRecord, Handled
  <1>6. new \in MailRecord(setting, IF old.type = "GET_POLICY" THEN Read(setting) ELSE BOOLEAN)
    BY <1>2, <1>4 DEF MailOK, MailRecord, Handled
  <1>7. MailOK(new)
    BY <1>4, <1>5, <1>6 DEF MailOK, AwaitedBy
  <1>8. MailsOK'
    BY <1>1, <1>3, <1>5, <1>7, MailStep
  <1>9. PICK w : w = Write(m, op, old.arg)
    OBVIOUS
  <1>10. /\ DOMAIN w = {"by", "op", "arg", "seen", "live"}
         /\ w.by = m /\ w.op = op /\ w.arg = old.arg /\ w.seen = None
    BY <1>9 DEF Write
  <1>11. \A v \in writes : v.by # m
    BY <1>1 DEF WritesOK, WriteOK
  <1>12. mails'[m] = new /\ \A n \in Slot \ {m} : mails'[n] = mails[n]
    BY <1>3 DEF MailsOK
  <1>13. new # None
    BY <1>6, SafariAssumption DEF SettingOK
  <1>14. WriteOK(w)'
    BY <1>1, <1>5, <1>10, <1>12, <1>13 DEF WriteOK, HandledAs
  <1>15. ASSUME NEW v \in writes PROVE WriteOK(v)'
    <2>1. WriteOK(v) /\ v.by # m
      BY <1>11 DEF WritesOK
    <2>2. v.by \in Slot => mails'[v.by] = mails[v.by]
      BY <1>12, <2>1
    <2>3. QED
      BY <2>1, <2>2 DEF WriteOK, QueueOK, Pages
  <1>16. writes' = writes \cup {w}
    BY <1>1, <1>9
  <1>17. WritesOK'
    BY <1>10, <1>11, <1>14, <1>15, <1>16 DEF WritesOK
  <1>18. QED
    BY <1>8, <1>17

LEMMA beginRequestKeeps ==
    ASSUME DeviceInv, SafariInv, NEW m \in Slot, beginRequest(m)
    PROVE  SafariInv'
  <1> USE DEF SafariInv
  <1>1. UNCHANGED <<setting, now, group, app, loads, worker, store, tasks, block>> /\ mails[m] # None /\ mails[m].at = "sent"
    BY DEF beginRequest
  <1>2. LeftStep
    BY DEF beginRequest, LeftStep, Mishap
  <1>3. AppOK' /\ TasksOK' /\ WorkerOK' /\ PagesOK'
    BY <1>1, <1>2, AppUnmoved, TasksStay, WorkerStays, PagesStay DEF AppSame
  <1>4. ASSUME UNCHANGED writes, NEW body, AnswerFits(mails[m], body), AnswerMail(m, body)
        PROVE  MailsOK' /\ WritesOK'
    <2>1. MailsOK'
      BY <1>1, <1>4, AnswerKeeps
    <2>2. PICK new : mails' = [mails EXCEPT ![m] = new]
      BY <1>4 DEF AnswerMail
    <2>3. WritesOK'
      BY <1>1, <1>4, <2>2, WritesUnmoved
    <2>4. QED
      BY <2>1, <2>3
  <1>5. CASE mails[m].type = "GET_POLICY" /\ AnswerMail(m, [raw |-> group.raw, provisioned |-> group.provisioned])
             /\ UNCHANGED writes
    <2>1. [raw |-> group.raw, provisioned |-> group.provisioned] \in Read(setting)
      BY DEF DeviceInv, GroupOK, AppOK, Read, Held
    <2>2. QED
      BY <1>3, <1>4, <1>5, <2>1 DEF AnswerFits
  <1>6. ASSUME NEW op, HandledAs(op, mails[m].type),
               writes' = writes \cup {Write(m, op, mails[m].arg)}, mails' = [mails EXCEPT ![m].at = "handling"]
        PROVE  SafariInv'
    <2>2. mails' = [mails EXCEPT ![m] = Handled(mails[m])]
      BY <1>6 DEF Handled, MailsOK
    <2>3. SettingOK
      BY DEF DeviceInv
    <2>4. MailsOK' /\ WritesOK'
      BY <1>1, <1>6, <2>2, <2>3, HandledKeeps
    <2>5. QED
      BY <1>3, <2>4
  <1>7. CASE AnswerMail(m, None) /\ UNCHANGED writes
    BY <1>3, <1>4, <1>7 DEF AnswerFits
  <1>8. QED
    BY <1>5, <1>6, <1>7 DEF beginRequest, HandledAs

LEMMA CommitMailKeeps ==
    ASSUME DeviceInv, SafariInv, NEW w \in writes, CommitMail(w)
    PROVE  SafariInv'
  <1> USE DEF SafariInv
  <1>1. /\ UNCHANGED <<setting, left, now, app, loads, worker, store, tasks, block>>
        /\ w.by \in Slot /\ MayPut(w) /\ group' = Put(w) /\ writes' = writes \ {w}
    BY DEF CommitMail
  <1>2. PICK m : m = w.by /\ m \in Slot
    BY <1>1
  <1>3. PICK body : body \in BOOLEAN /\ AnswerMail(m, body)
    BY <1>2 DEF CommitMail
  <1>4. /\ WriteOK(w) /\ mails[m] # None /\ mails[m].at = "handling" /\ mails[m].arg = w.arg
        /\ mails[m].type \in {"SPEND_GRANT", "REQUEST_ACCESS"}
        /\ w.op = "enqueue" => mails[m].type = "REQUEST_ACCESS"
    BY <1>2 DEF WritesOK, WriteOK
  <1>5. w.op = "enqueue" => w.arg \in Pages
    BY <1>4, <1>2 DEF MailsOK, MailOK
  <1>6. GroupStays
    BY <1>1, <1>4, <1>5, PutOK DEF GroupStays, AppOK, DeviceInv, GroupOK
  <1>7. AppOK' /\ TasksOK' /\ WorkerOK' /\ PagesOK'
    BY <1>1, <1>6, AppKept, LoadsSame, TasksStay, WorkerStays, PagesStay DEF AppOK, AppStays
  <1>8. MailsOK'
    BY <1>1, <1>3, <1>2, <1>4, AnswerKeeps DEF AnswerFits
  <1>9. ASSUME NEW v \in writes' PROVE WriteOK(v)'
    <2>1. WriteOK(v) /\ v \in writes /\ (v.by \in Slot => v.by # m)
      BY <1>1, <1>2 DEF WritesOK
    <2>2. v.by \in Slot => mails'[v.by] = mails[v.by]
      BY <1>3, <2>1 DEF AnswerMail, MailsOK
    <2>3. QED
      BY <1>1, <2>1, <2>2 DEF WriteOK, QueueOK, Pages
  <1>10. WritesOK'
    BY <1>1, <1>9 DEF WritesOK
  <1>11. QED
    BY <1>7, <1>8, <1>10

-----------------------------------------------------------------------------
(* The worker's life. *)

\* A new task waits for nobody, and nobody for it.
LEMMA NewTaskOK ==
    ASSUME SafariInv, Inside \/ UNCHANGED <<setting, writes>>, UNCHANGED mails, NEW t, Unawaited(t), NEW x,
           x = None \/ TaskOK(x), tasks' = [tasks EXCEPT ![t] = x], worker'.up,
           DOMAIN worker' = DOMAIN worker, worker'.snap \in Held(setting), worker'.provisioned \in BOOLEAN,
           worker'.adopting \subseteq SnapshotsOf(setting)
    PROVE  TasksOK' /\ MailsOK' /\ WritesOK' /\ WorkerOK'
  <1> USE DEF SafariInv
  <1>1. UNCHANGED <<setting, writes>>
    BY DEF Inside, device
  <1>2. TasksOK' /\ MailsOK' /\ WritesOK'
    BY <1>1, PutTask, UnawaitedStep, WritesStay
  <1>3. WorkerOK'
    BY <1>1 DEF WorkerOK
  <1>4. QED
    BY <1>2, <1>3

LEMMA NothingRead ==
    ASSUME NEW kind, kind \in {"restore", "sync", "event", "ask"}, NEW at, NEW page, NEW event,
           page \in Pages \cup {None}, event \in [name : EventName, kind : Kind] \cup {None, Late},
           at \in {"read", "decide", "send", "answer", "asked"}, NEW x, x = Task(kind, at, page, event)
    PROVE  x \in TaskRecord(setting) /\ x.kind = kind /\ x.at = at /\ x.page = page /\ x.event = event
  BY DEF Task, TaskRecord, Pages

LEMMA WakeKeeps ==
    ASSUME SafariInv, Wake
    PROVE  SafariInv'
  <1> USE DEF SafariInv
  <1>1. PICK x : x = Task("restore", "read", None, None)
    OBVIOUS
  <1>2. TaskOK(x)
    BY <1>1, NothingRead DEF TaskOK
  <1>3. PICK t : t = Free(tasks)
    OBVIOUS
  <1>4. Unawaited(t)
    BY <1>3 DEF Wake, WorkerOK, Free, Unawaited
  <1>5. worker' = [Asleep EXCEPT !.up = TRUE] /\ tasks' = [tasks EXCEPT ![t] = x]
    BY <1>1, <1>3 DEF Wake
  <1>6. /\ worker'.up /\ DOMAIN worker' = DOMAIN worker /\ worker'.snap \in Held(setting)
        /\ worker'.provisioned \in BOOLEAN /\ worker'.adopting \subseteq SnapshotsOf(setting)
    BY <1>5 DEF Asleep, WorkerOK, Held
  <1>7. TasksOK' /\ MailsOK' /\ WritesOK' /\ WorkerOK'
    BY <1>2, <1>4, <1>5, <1>6, NewTaskOK DEF Wake
  <1>8. AppOK' /\ PagesOK'
    BY InsideKeeps, PagesStay DEF Wake
  <1>9. QED
    BY <1>7, <1>8

Forgotten(m) == [m EXCEPT !.task = None]

LEMMA UnloadKeeps ==
    ASSUME DeviceInv, SafariInv, Unload
    PROVE  SafariInv'
  <1> USE DEF SafariInv
  <1>1. /\ UNCHANGED <<setting, now, group, writes, app, loads, store, block>>
        /\ worker' = Asleep /\ tasks' = [t \in Slot |-> None]
    BY DEF Unload
  <1>2. AppOK' /\ PagesOK'
    BY <1>1, AppUnmoved, PagesStay DEF AppSame, LeftStep, Unload
  <1>3. TasksOK'
    BY <1>1 DEF TasksOK
  <1>4. WorkerOK'
    BY <1>1 DEF WorkerOK, Asleep, Held
  <1>5. ASSUME NEW m \in Slot, mails[m] # None, mails[m].at # "answered", NEW old, old = mails[m],
               NEW new, new = Forgotten(old)
        PROVE  /\ MailOK(new)' /\ new # None /\ new.type = old.type /\ new.at = old.at /\ new.arg = old.arg
               /\ new.task = None
    <2>1. MailOK(old)
      BY <1>5 DEF MailsOK
    <2>2. new.type = old.type /\ new.at = old.at /\ new.arg = old.arg /\ new.task = None
      BY <1>5, <2>1 DEF MailOK, MailRecord, Forgotten
    <2>3. new \in MailRecord(setting, IF old.type = "GET_POLICY" THEN Read(setting) ELSE BOOLEAN)
      BY <1>5, <2>1 DEF MailOK, MailRecord, Forgotten
    <2>4. new # None
      BY <2>3, SafariAssumption DEF SettingOK, DeviceInv
    <2>5. MailOK(new)
      BY <1>5, <2>1, <2>2, <2>3 DEF MailOK
    <2>6. MailOK(new)'
      BY <1>1, <2>2, <2>5, MailStays
    <2>7. QED
      BY <2>2, <2>4, <2>6
  <1>6. /\ DOMAIN mails' = Slot
        /\ \A m \in Slot : mails'[m] = IF mails[m] # None /\ mails[m].at = "answered" THEN None
                                       ELSE IF mails[m] # None THEN Forgotten(mails[m]) ELSE None
    BY DEF Unload, Forgotten
  <1>7. \A m \in Slot : mails'[m] # None => mails[m] # None /\ mails[m].at # "answered"
                                              /\ mails'[m] = Forgotten(mails[m])
    BY <1>6
  <1>8. ASSUME NEW m \in Slot, mails'[m] # None
        PROVE  MailOK(mails[m])' /\ mails'[m].task = None
    <2>1. PICK new : new = mails'[m]
      OBVIOUS
    <2>2. PICK old : old = mails[m]
      OBVIOUS
    <2>3. mails[m] # None /\ mails[m].at # "answered" /\ new = Forgotten(old)
      BY <1>7, <1>8, <2>1, <2>2
    <2>4. MailOK(new)' /\ new.task = None
      BY <1>5, <2>2, <2>3
    <2>5. QED
      BY <2>1, <2>4
  <1>9. MailsOK'
    BY <1>6, <1>8 DEF MailsOK
  <1>10. ASSUME NEW w \in writes PROVE WriteOK(w)'
    <2>1. WriteOK(w)
      BY DEF WritesOK
    <2>2. CASE w.by \notin Slot
      BY <1>1, <2>1, <2>2 DEF WriteOK, QueueOK, Pages
    <2>3. CASE w.by \in Slot
      <3>1. PICK m : m = w.by /\ m \in Slot
        BY <2>3
      <3>2. mails[m] # None /\ mails[m].at = "handling"
        BY <2>1, <3>1 DEF WriteOK
      <3>3. mails'[m] = Forgotten(mails[m])
        <4>1. m \in Slot /\ mails[m] # None /\ mails[m].at # "answered"
          BY <3>1, <3>2
        <4>2. QED
          BY <1>6, <4>1
      <3>4. /\ mails'[m] # None /\ mails'[m].type = mails[m].type /\ mails'[m].at = mails[m].at
            /\ mails'[m].arg = mails[m].arg
        <4>1. m \in Slot /\ mails[m] # None /\ mails[m].at # "answered"
          BY <3>1, <3>2
        <4>2. PICK old : old = mails[m]
          OBVIOUS
        <4>3. PICK new : new = Forgotten(old)
          OBVIOUS
        <4>4. new # None /\ new.type = old.type /\ new.at = old.at /\ new.arg = old.arg
          BY <1>5, <4>1, <4>2, <4>3
        <4>5. mails'[m] = new
          BY <3>3, <4>2, <4>3
        <4>6. QED
          BY <4>2, <4>4, <4>5
      <3>5. QED
        BY <1>1, <2>1, <3>1, <3>4 DEF WriteOK, QueueOK, Pages
    <2>4. QED
      BY <2>2, <2>3
  <1>11. WritesOK'
    BY <1>1, <1>10 DEF WritesOK
  <1>12. QED
    BY <1>2, <1>3, <1>4, <1>9, <1>11

-----------------------------------------------------------------------------
(* A verdict that spends a grant is by a grant of the policy. *)

LEMMA PlaybackOnce ==
    ASSUME NEW v, NEW granted, NEW page, playback(v, granted, page).reason = "temporary:ONCE"
    PROVE  playback(v, granted, page) = v
  BY DEF playback, Verdict

\* A grant of a snapshot is a grant of the policy.
LEMMA GrantsKnown ==
    ASSUME SettingOK, NEW x \in SnapshotsOf(setting)
    PROVE  /\ Ids(x.temps) \subseteq GrantIds(setting)
           /\ \E p \in Contents(setting) : x.temps \subseteq p.temps
  <1>1. PICK p \in Contents(setting) : x.temps \subseteq p.temps
    BY DEF SnapshotsOf
  <1>2. PICK d \in Devices : p \in Range(setting.policies[d])
    BY <1>1 DEF Contents, Devices
  <1>3. PICK i \in DOMAIN setting.policies[d] : p = setting.policies[d][i]
    BY <1>2 DEF Range
  <1>4. Ids(p.temps) \subseteq GrantIds(setting)
    BY <1>3 DEF GrantIds, Devices
  <1>5. QED
    BY <1>1, <1>4 DEF Ids

\* Of any part of a snapshot's grants there is a first.
LEMMA FirstOfGrants ==
    ASSUME SettingOK, NEW x \in SnapshotsOf(setting), NEW denyWins \in BOOLEAN, NEW S \in SUBSET x.temps, S # {}
    PROVE  First(S, denyWins) \in S
  <1>1. PICK p \in Contents(setting) : x.temps \subseteq p.temps
    BY GrantsKnown
  <1>2. QED
    BY <1>1, GrantAssumption DEF SettingOK

LEMMA SafariByGrant ==
    ASSUME SettingOK, NEW x \in SnapshotsOf(setting), NEW policy, policy.temps \subseteq x.temps, NEW page,
           evaluateInSafari(policy, page, now).reason = "temporary:ONCE"
    PROVE  \E t \in ActiveTemps(policy, now) : t.grantKind = "ONCE" /\ evaluateInSafari(policy, page, now).id = t.id
  <1>1. PICK temps : temps = ActiveTemps(policy, now)
    OBVIOUS
  <1>2. PICK hits : hits = {t \in temps : matchTarget(t, page)}
    OBVIOUS
  <1>3. PICK v : v = evaluateInSafari(policy, page, now)
    OBVIOUS
  <1>4. v = Judge(policy, temps, page, safariTierOrder, FALSE)
    BY <1>1, <1>3 DEF evaluateInSafari
  <1>5. v.reason = "temporary:ONCE"
    BY <1>3
  <1>6. hits # {} /\ ~page.floor
    BY <1>2, <1>4, <1>5 DEF Judge, ByRule, ByDefault, Verdict
  <1>7. v = ByTemp(First(hits, FALSE))
    BY <1>2, <1>4, <1>6 DEF Judge
  <1>8. PICK t : t = First(hits, FALSE)
    OBVIOUS
  <1>9. hits \subseteq x.temps
    BY <1>1, <1>2 DEF ActiveTemps
  <1>10. t \in hits
    BY <1>6, <1>8, <1>9, FirstOfGrants
  <1>11. v = ByTemp(t)
    BY <1>7, <1>8
  <1>12. t.grantKind = "ONCE" /\ v.id = t.id
    BY <1>5, <1>11 DEF ByTemp, Verdict
  <1>13. t \in ActiveTemps(policy, now)
    BY <1>1, <1>2, <1>10
  <1>14. evaluateInSafari(policy, page, now).id = t.id
    BY <1>3, <1>12
  <1>15. QED
    BY <1>12, <1>13, <1>14

LEMMA FilterByGrant ==
    ASSUME SettingOK, NEW x \in SnapshotsOf(setting), NEW policy, NEW spent, policy.temps \subseteq x.temps, NEW page,
           evaluateInFilter(policy, page, now, spent).reason = "temporary:ONCE"
    PROVE  \E t \in Unspent(ActiveTemps(policy, now), spent) : t.grantKind = "ONCE" /\ evaluateInFilter(policy, page, now, spent).id = t.id
  <1>1. PICK temps : temps = Unspent(ActiveTemps(policy, now), spent)
    OBVIOUS
  <1>2. PICK hits : hits = {t \in temps : matchTarget(t, page)}
    OBVIOUS
  <1>3. PICK v : v = evaluateInFilter(policy, page, now, spent)
    OBVIOUS
  <1>4. v = Judge(policy, temps, page, tierOrder, TRUE)
    BY <1>1, <1>3 DEF evaluateInFilter
  <1>5. v.reason = "temporary:ONCE"
    BY <1>3
  <1>6. hits # {} /\ ~page.floor
    BY <1>2, <1>4, <1>5 DEF Judge, ByRule, ByDefault, Verdict
  <1>7. v = ByTemp(First(hits, TRUE))
    BY <1>2, <1>4, <1>6 DEF Judge
  <1>8. PICK t : t = First(hits, TRUE)
    OBVIOUS
  <1>9. hits \subseteq x.temps
    BY <1>1, <1>2 DEF ActiveTemps, Unspent
  <1>10. t \in hits
    BY <1>6, <1>8, <1>9, FirstOfGrants
  <1>11. v = ByTemp(t)
    BY <1>7, <1>8
  <1>12. t.grantKind = "ONCE" /\ v.id = t.id
    BY <1>5, <1>11 DEF ByTemp, Verdict
  <1>13. t \in Unspent(ActiveTemps(policy, now), spent)
    BY <1>1, <1>2, <1>10
  <1>14. evaluateInFilter(policy, page, now, spent).id = t.id
    BY <1>3, <1>12
  <1>15. QED
    BY <1>12, <1>13, <1>14

LEMMA SafariSpendsGrant ==
    ASSUME SettingOK, WorkerOK, NEW page, SafariVerdict(page).reason = "temporary:ONCE"
    PROVE  worker.snap # None /\ SafariVerdict(page).id \in GrantIds(setting)
  <1>1. worker.snap # None
    BY DEF SafariVerdict, Verdict
  <1>2. PICK x : x = worker.snap /\ x \in SnapshotsOf(setting)
    BY <1>1 DEF WorkerOK, Held
  <1>3. PICK view : view = View(x, Remembered)
    OBVIOUS
  <1>4. view.temps \subseteq x.temps
    BY <1>2, <1>3 DEF View, SnapshotsOf
  <1>5. PICK v : v = evaluateInSafari(view, page, now)
    OBVIOUS
  <1>6. SafariVerdict(page) = playback(v, hasActiveVideoGrant(view, now), page)
    BY <1>1, <1>2, <1>3, <1>5 DEF SafariVerdict
  <1>7. SafariVerdict(page) = v
    BY <1>6, PlaybackOnce
  <1>8. evaluateInSafari(view, page, now).reason = "temporary:ONCE"
    BY <1>5, <1>7
  <1>9. PICK t \in ActiveTemps(view, now) : evaluateInSafari(view, page, now).id = t.id
    BY <1>2, <1>4, <1>8, SafariByGrant
  <1>10. t \in x.temps
    BY <1>4, <1>9 DEF ActiveTemps
  <1>11. v.id \in Ids(x.temps)
    BY <1>5, <1>9, <1>10 DEF Ids
  <1>12. QED
    BY <1>1, <1>2, <1>7, <1>11, GrantsKnown

-----------------------------------------------------------------------------
(* The worker's tasks. *)

LEMMA restoreSpentKeeps ==
    ASSUME SafariInv, restoreSpent
    PROVE  SafariInv'
  <1> USE DEF SafariInv
  <1>1. AppOK' /\ UNCHANGED setting
    BY InsideKeeps DEF restoreSpent
  <1>2. MailsOK' /\ TasksOK' /\ PagesOK' /\ WritesOK'
    BY <1>1, MailsStay, TasksStay, PagesStay, WritesStay DEF restoreSpent, Inside, device
  <1>3. WorkerOK'
    BY <1>1 DEF restoreSpent, WorkerOK
  <1>4. QED
    BY <1>1, <1>2, <1>3

Moved(task, seen, at) == [[task EXCEPT !.seen = seen] EXCEPT !.at = at]

LEMMA MovedTo ==
    ASSUME NEW task, TaskOK(task), NEW seen \in Read(setting) \cup {None},
           NEW at \in {"read", "restore", "decide", "send", "answer", "asked", "provisioned", "verified"}
    PROVE  /\ Moved(task, seen, at) \in TaskRecord(setting)
           /\ Moved(task, seen, at).kind = task.kind /\ Moved(task, seen, at).at = at
           /\ Moved(task, seen, at).page = task.page /\ Moved(task, seen, at).event = task.event
           /\ Moved(task, seen, at).seen = seen
  <1>1. task \in TaskRecord(setting)
    BY DEF TaskOK
  <1>2. PICK x : x = Moved(task, seen, at)
    OBVIOUS
  <1>3. x.kind = task.kind /\ x.at = at /\ x.page = task.page /\ x.event = task.event /\ x.seen = seen
    BY <1>1, <1>2 DEF Moved, TaskRecord
  <1>4. x = [kind |-> task.kind, at |-> at, page |-> task.page, event |-> task.event, seen |-> seen]
    BY <1>1, <1>2 DEF Moved, TaskRecord
  <1>5. x \in TaskRecord(setting)
    BY <1>1, <1>4 DEF TaskRecord
  <1>6. QED
    BY <1>2, <1>3, <1>5

LEMMA MovedSame ==
    ASSUME NEW task, TaskOK(task), NEW at
    PROVE  [task EXCEPT !.at = at] = Moved(task, task.seen, at)
  BY DEF Moved, TaskOK, TaskRecord

LEMMA ReadCacheKeeps ==
    ASSUME SafariInv, NEW t \in Slot, ReadCache(t)
    PROVE  SafariInv'
  <1> USE DEF SafariInv
  <1>1. AppOK' /\ PagesOK' /\ UNCHANGED <<setting, mails, worker>> /\ Inside
    BY InsideKeeps, PagesStay DEF ReadCache
  <1>2. PICK task : task = tasks[t] /\ task # None /\ task.at = "read"
    BY DEF ReadCache
  <1>3. TaskOK(task)
    BY <1>2 DEF TasksOK
  <1>4. PICK seen : seen = [raw |-> store.snap, provisioned |-> store.provisioned]
    OBVIOUS
  <1>5. seen \in Read(setting)
    BY <1>4 DEF Read, PagesOK
  <1>6. PICK x : x = Moved(task, seen, "restore")
    OBVIOUS
  <1>7. TaskOK(x)
    BY <1>2, <1>3, <1>5, <1>6, MovedTo DEF TaskOK
  <1>8. tasks' = [tasks EXCEPT ![t] = x]
    BY <1>2, <1>4, <1>6 DEF ReadCache, Step, Moved
  <1>9. Unawaited(t)
    BY <1>2 DEF Unawaited
  <1>10. worker.up
    BY <1>2, RunningTask
  <1>11. TasksOK' /\ MailsOK' /\ WritesOK' /\ WorkerOK'
    BY <1>1, <1>7, <1>8, <1>9, <1>10, NewTaskOK DEF WorkerOK
  <1>12. QED
    BY <1>1, <1>11

LEMMA restoreCachedPolicyKeeps ==
    ASSUME SafariInv, NEW t \in Slot, restoreCachedPolicy(t)
    PROVE  SafariInv'
  <1> USE DEF SafariInv
  <1>1. AppOK' /\ PagesOK' /\ UNCHANGED <<setting, mails>> /\ Inside
    BY InsideKeeps, PagesStay DEF restoreCachedPolicy
  <1>2. PICK task : task = tasks[t] /\ task # None /\ task.at = "restore"
    BY DEF restoreCachedPolicy
  <1>3. TaskOK(task)
    BY <1>2 DEF TasksOK
  <1>4. task.seen \in Read(setting)
    BY <1>2, <1>3 DEF TaskOK
  <1>5. worker.up
    BY <1>2, RunningTask
  <1>6. /\ worker' = [worker EXCEPT !.snap = task.seen.raw, !.provisioned = task.seen.provisioned]
        /\ task.seen.raw \in Held(setting) /\ task.seen.provisioned \in BOOLEAN
    BY <1>2, <1>4 DEF restoreCachedPolicy, Read
  <1>7. /\ worker'.up /\ DOMAIN worker' = DOMAIN worker /\ worker'.snap \in Held(setting)
        /\ worker'.provisioned \in BOOLEAN /\ worker'.adopting \subseteq SnapshotsOf(setting)
    BY <1>5, <1>6 DEF WorkerOK
  <1>8. Unawaited(t)
    BY <1>2 DEF Unawaited
  <1>9. PICK at : at = IF task.kind = "event" THEN "decide" ELSE "send"
    OBVIOUS
  <1>10. PICK x : x = IF task.kind = "restore" THEN None ELSE Moved(task, None, at)
    OBVIOUS
  <1>11. tasks' = [tasks EXCEPT ![t] = x]
    BY <1>2, <1>9, <1>10 DEF restoreCachedPolicy, Step, Moved, Done
  <1>12. ASSUME task.kind # "restore" PROVE TaskOK(x)
    <2>1. x = Moved(task, None, at) /\ at \in {"decide", "send"}
      BY <1>9, <1>10, <1>12
    <2>2. /\ x \in TaskRecord(setting) /\ x.kind = task.kind /\ x.at = at
          /\ x.page = task.page /\ x.event = task.event
      BY <1>3, <2>1, MovedTo
    <2>3. QED
      BY <1>2, <1>3, <1>9, <1>12, <2>1, <2>2 DEF TaskOK
  <1>13. TasksOK' /\ MailsOK' /\ WritesOK' /\ WorkerOK'
    <2>1. x = None \/ TaskOK(x)
      BY <1>10, <1>12
    <2>2. QED
      BY <1>1, <2>1, <1>7, <1>8, <1>11, NewTaskOK
  <1>14. QED
    BY <1>1, <1>13

LEMMA syncFromNativeKeeps ==
    ASSUME DeviceInv, SafariInv, syncFromNative
    PROVE  SafariInv'
  <1> USE DEF SafariInv
  <1>1. AppOK' /\ PagesOK' /\ UNCHANGED <<setting, writes, worker>> /\ Inside /\ worker.up
    BY InsideKeeps, PagesStay DEF syncFromNative, Inside, device
  <1>2. PICK f : f = Free(mails) /\ f \in Slot /\ mails[f] = None
    BY FreeIs DEF syncFromNative, Send
  <1>3. PICK t : t = Free(tasks) /\ t \in Slot /\ tasks[t] = None
    BY FreeIs DEF syncFromNative
  <1>4. PICK x : x = Task("sync", "asked", None, None)
    OBVIOUS
  <1>5. PICK new : new = Mail("GET_POLICY", None, t)
    OBVIOUS
  <1>6. tasks' = [tasks EXCEPT ![t] = x] /\ mails' = [mails EXCEPT ![f] = new]
    BY <1>2, <1>3, <1>4, <1>5 DEF syncFromNative, Send
  <1>7. TaskOK(x) /\ x.kind = "sync" /\ x.at = "asked" /\ x # None
    BY <1>4, NothingRead, SafariAssumption DEF TaskOK, DeviceInv, SettingOK
  <1>8. /\ new.type = "GET_POLICY" /\ new.at = "sent" /\ new.task = t
        /\ new \in MailRecord(setting, Read(setting))
    BY <1>3, <1>5 DEF Mail, MailRecord
  <1>9. new # None
    BY <1>8, SafariAssumption DEF DeviceInv, SettingOK
  <1>10. AwaitedBy(new, x)
    BY <1>7, <1>8 DEF AwaitedBy
  <1>11. Unawaited(t)
    BY <1>3 DEF Unawaited
  <1>12. MailsOK'
    BY <1>1, <1>2, <1>3, <1>6, <1>7, <1>8, <1>9, <1>10, <1>11, SentStep
  <1>13. TasksOK' /\ WritesOK' /\ WorkerOK'
    BY <1>1, <1>2, <1>6, <1>7, PutTask, WritesUnmoved, WorkerRuns
  <1>14. QED
    BY <1>1, <1>12, <1>13

LEMMA SyncedKeeps ==
    ASSUME DeviceInv, SafariInv, NEW t \in Slot, Synced(t)
    PROVE  SafariInv'
  <1> USE DEF SafariInv
  <1>1. AppOK' /\ UNCHANGED <<setting, writes, worker, block>> /\ Inside
    BY InsideKeeps DEF Synced, Inside, device
  <1>2. PICK task : task = tasks[t] /\ task # None /\ task.kind = "sync" /\ task.at = "asked"
    BY DEF Synced, Is
  <1>3. TaskOK(task)
    BY <1>2 DEF TasksOK
  <1>4. PICK m \in Reply(t) : /\ mails' = [mails EXCEPT ![m] = None]
                              /\ IF mails[m].body = None THEN Done(t) /\ UNCHANGED store
                                 ELSE /\ store' = [store EXCEPT !.provisioned = mails[m].body.provisioned]
                                      /\ Step(t, [tasks[t] EXCEPT !.seen = mails[m].body], "provisioned")
    BY DEF Synced
  <1>5. m \in Slot /\ mails[m] # None /\ mails[m].task = t /\ mails[m].at = "answered"
    BY <1>4 DEF Reply
  <1>6. MailOK(mails[m]) /\ t # None
    BY <1>5, DeviceAssumption DEF MailsOK
  <1>7. mails[m].type = "GET_POLICY"
    BY <1>2, <1>5, <1>6 DEF MailOK, AwaitedBy
  <1>8. PICK body : body = mails[m].body /\ body \in Read(setting) \cup {None}
    BY <1>6, <1>7 DEF MailOK, MailRecord
  <1>9. PICK x : x = IF body = None THEN None ELSE Moved(task, body, "provisioned")
    OBVIOUS
  <1>10. tasks' = [tasks EXCEPT ![t] = x]
    BY <1>2, <1>4, <1>8, <1>9 DEF Step, Moved, Done
  <1>11. ASSUME body # None PROVE TaskOK(x)
    <2>1. x = Moved(task, body, "provisioned")
      BY <1>9, <1>11
    <2>2. /\ x \in TaskRecord(setting) /\ x.kind = task.kind /\ x.at = "provisioned" /\ x.seen = body
      BY <1>3, <1>8, <2>1, MovedTo
    <2>3. QED
      BY <1>2, <1>8, <1>11, <2>2 DEF TaskOK
  <1>12. x = None \/ TaskOK(x)
    BY <1>9, <1>11
  <1>13. MailsOK'
    BY <1>1, <1>4, <1>5, <1>10, RepliedStep
  <1>14. WritesOK'
    BY <1>1, <1>4, <1>5, WritesUnmoved
  <1>15. TasksOK' /\ WorkerOK'
    BY <1>1, <1>2, <1>10, <1>12, PutTask, WorkerRuns, RunningTask
  <1>16. PagesOK'
    <2>1. CASE body = None
      BY <1>1, <1>4, <1>8, <2>1, PagesStay
    <2>2. CASE body # None
      <3>1. store' = [store EXCEPT !.provisioned = body.provisioned] /\ body.provisioned \in BOOLEAN
        BY <1>4, <1>8, <2>2 DEF Read
      <3>2. QED
        BY <1>1, <3>1 DEF PagesOK, Pages
    <2>3. QED
      BY <2>1, <2>2
  <1>17. QED
    BY <1>1, <1>13, <1>14, <1>15, <1>16

LEMMA ProvisionedKeeps ==
    ASSUME SafariInv, NEW t \in Slot, Provisioned(t)
    PROVE  SafariInv'
  <1> USE DEF SafariInv
  <1>1. AppOK' /\ PagesOK' /\ UNCHANGED <<setting, mails>> /\ Inside
    BY InsideKeeps, PagesStay DEF Provisioned
  <1>2. PICK task : task = tasks[t] /\ task # None /\ task.kind = "sync" /\ task.at = "provisioned"
    BY DEF Provisioned, Is
  <1>3. TaskOK(task)
    BY <1>2 DEF TasksOK
  <1>4. PICK seen : seen = task.seen /\ seen \in Read(setting)
    BY <1>2, <1>3 DEF TaskOK
  <1>5. worker.up
    BY <1>2, RunningTask
  <1>6. worker' = [worker EXCEPT !.provisioned = seen.provisioned] /\ seen.provisioned \in BOOLEAN
    BY <1>2, <1>4 DEF Provisioned, Read
  <1>7. /\ worker'.up /\ DOMAIN worker' = DOMAIN worker /\ worker'.snap \in Held(setting)
        /\ worker'.provisioned \in BOOLEAN /\ worker'.adopting \subseteq SnapshotsOf(setting)
    BY <1>5, <1>6 DEF WorkerOK
  <1>8. Unawaited(t)
    BY <1>2 DEF Unawaited
  <1>9. PICK x : x = IF seen.raw = None THEN None ELSE Moved(task, seen, "verified")
    OBVIOUS
  <1>10. Moved(task, seen, "verified") = [task EXCEPT !.at = "verified"]
    BY <1>3, <1>4, MovedSame
  <1>11. tasks' = [tasks EXCEPT ![t] = x]
    BY <1>2, <1>4, <1>9, <1>10 DEF Provisioned, Step, Done
  <1>12. ASSUME seen.raw # None PROVE TaskOK(x)
    <2>1. x = Moved(task, seen, "verified")
      BY <1>9, <1>12
    <2>2. /\ x \in TaskRecord(setting) /\ x.kind = task.kind /\ x.at = "verified" /\ x.seen = seen
      BY <1>3, <1>4, <2>1, MovedTo
    <2>3. QED
      BY <1>2, <1>4, <1>12, <2>2 DEF TaskOK
  <1>13. x = None \/ TaskOK(x)
    BY <1>9, <1>12
  <1>14. TasksOK' /\ MailsOK' /\ WritesOK' /\ WorkerOK'
    BY <1>1, <1>7, <1>8, <1>11, <1>13, NewTaskOK
  <1>15. QED
    BY <1>1, <1>14

LEMMA AdoptKeeps ==
    ASSUME SafariInv, NEW t \in Slot, Adopt(t)
    PROVE  SafariInv'
  <1> USE DEF SafariInv
  <1>1. AppOK' /\ UNCHANGED <<setting, mails, block>> /\ Inside
    BY InsideKeeps DEF Adopt
  <1>2. PICK task : task = tasks[t] /\ task # None /\ task.kind = "sync" /\ task.at = "verified"
    BY DEF Adopt, Is
  <1>3. TaskOK(task)
    BY <1>2 DEF TasksOK
  <1>4. PICK next : next = task.seen.raw /\ next \in SnapshotsOf(setting)
    BY <1>2, <1>3 DEF TaskOK, Read, Held
  <1>5. worker.up
    BY <1>2, RunningTask
  <1>6. \/ UNCHANGED <<worker, store>>
        \/ /\ worker' = [worker EXCEPT !.snap = next,
                                       !.adopting = IF store.snap = next THEN @ ELSE @ \cup {next}]
           /\ store' = [store EXCEPT !.snap = next]
    BY <1>2, <1>4 DEF Adopt
  <1>7. /\ worker'.up /\ DOMAIN worker' = DOMAIN worker /\ worker'.snap \in Held(setting)
        /\ worker'.provisioned \in BOOLEAN /\ worker'.adopting \subseteq SnapshotsOf(setting)
    <2>1. CASE UNCHANGED worker
      BY <1>5, <2>1 DEF WorkerOK
    <2>2. CASE worker' = [worker EXCEPT !.snap = next,
                                        !.adopting = IF store.snap = next THEN @ ELSE @ \cup {next}]
      <3>1. /\ DOMAIN worker' = DOMAIN worker /\ worker'.up = worker.up /\ worker'.snap = next
            /\ worker'.provisioned = worker.provisioned
            /\ worker'.adopting \in {worker.adopting, worker.adopting \cup {next}}
        BY <2>2 DEF WorkerOK
      <3>2. QED
        BY <1>4, <1>5, <3>1 DEF WorkerOK, Held
    <2>3. QED
      BY <1>6, <2>1, <2>2
  <1>8. Unawaited(t)
    BY <1>2 DEF Unawaited
  <1>9. tasks' = [tasks EXCEPT ![t] = None]
    BY DEF Adopt, Done
  <1>10. TasksOK' /\ MailsOK' /\ WritesOK' /\ WorkerOK'
    BY <1>1, <1>7, <1>8, <1>9, NewTaskOK
  <1>11. PagesOK'
    BY <1>1, <1>4, <1>6 DEF PagesOK, Pages, Held
  <1>12. QED
    BY <1>1, <1>10, <1>11

LEMMA AdoptStoredKeeps ==
    ASSUME SafariInv, AdoptStored
    PROVE  SafariInv'
  <1> USE DEF SafariInv
  <1>1. PICK next \in worker.adopting : adoptSnapshotIfVerified(next)
    BY DEF AdoptStored
  <1>2. AppOK' /\ UNCHANGED <<setting, mails, tasks, store, block, writes>>
    BY <1>1, InsideKeeps DEF adoptSnapshotIfVerified, Inside, device
  <1>3. worker' = [worker EXCEPT !.snap = next, !.adopting = @ \ {next}]
    BY <1>1 DEF adoptSnapshotIfVerified
  <1>4. worker.up
    <2>1. worker # Asleep
      BY <1>1 DEF Asleep
    <2>2. QED
      BY <2>1 DEF WorkerOK
  <1>5. next \in Held(setting)
    BY <1>1 DEF WorkerOK, Held
  <1>6. WorkerOK'
    BY <1>2, <1>3, <1>4, <1>5 DEF WorkerOK
  <1>7. QED
    BY <1>2, <1>6, MailsStay, TasksStay, WritesStay, PagesStay

-----------------------------------------------------------------------------
(* Loads, and what the worker says of them. *)

LEMMA DeliverKeeps ==
    ASSUME SafariInv, NEW l \in loads, NEW e \in l.events, Deliver(l, e)
    PROVE  SafariInv'
  <1> USE DEF SafariInv
  <1>1. UNCHANGED <<setting, left, now, group, writes, app, worker, store, mails, block>> /\ worker.up
    BY DEF Deliver
  <1>2. PICK judged : judged = [l EXCEPT !.events = @ \ {e}]
    OBVIOUS
  <1>3. LoadOK(l)
    BY DEF AppOK
  <1>4. LoadOK(judged)
    BY <1>2, <1>3 DEF LoadOK
  <1>5. LoadsStay
    BY <1>2, <1>4, JudgedOK DEF Deliver
  <1>6. AppOK'
    BY <1>1, <1>5, AppKept, GroupSame DEF AppOK, AppStays
  <1>7. PICK t : t = Free(tasks) /\ t \in Slot /\ tasks[t] = None
    BY FreeIs DEF Deliver
  <1>8. PICK event : event = [name |-> e, kind |-> l.kind] /\ event \in [name : EventName, kind : Kind]
    <2>1. e \in EventName /\ l.kind \in Kind
      BY <1>3 DEF LoadOK
    <2>2. PICK event : event = [name |-> e, kind |-> l.kind]
      OBVIOUS
    <2>3. event \in [name : EventName, kind : Kind]
      BY <2>1, <2>2
    <2>4. QED
      BY <2>2, <2>3
  <1>9. PICK at : at = Entry("decide") /\ at \in {"read", "decide"}
    BY DEF Entry
  <1>10. PICK x : x = Task("event", at, l.page, event)
    OBVIOUS
  <1>11. tasks' = [tasks EXCEPT ![t] = x]
    BY <1>7, <1>8, <1>9, <1>10 DEF Deliver
  <1>12. TaskOK(x)
    <2>1. x \in TaskRecord(setting) /\ x.kind = "event" /\ x.at = at /\ x.page = l.page /\ x.event = event
      BY <1>3, <1>8, <1>9, <1>10, NothingRead DEF LoadOK
    <2>2. QED
      BY <1>3, <1>8, <1>9, <2>1 DEF TaskOK, LoadOK
  <1>13. TasksOK' /\ MailsOK' /\ WritesOK' /\ WorkerOK'
    BY <1>1, <1>7, <1>11, <1>12, NewTaskOK DEF Unawaited, WorkerOK
  <1>14. QED
    BY <1>1, <1>6, <1>13, PagesStay

LEMMA decideKeeps ==
    ASSUME DeviceInv, SafariInv, NEW t \in Slot, decide(t)
    PROVE  SafariInv'
  <1> USE DEF SafariInv
  <1>1. AppOK' /\ UNCHANGED <<setting, writes>> /\ Inside
    BY InsideKeeps DEF decide, Inside, device
  <1>2. PICK task : task = tasks[t] /\ task # None /\ task.kind = "event" /\ task.at = "decide"
    BY DEF decide, Is
  <1>3. TaskOK(task)
    BY <1>2 DEF TasksOK
  <1>4. worker.up /\ Unawaited(t)
    BY <1>2, RunningTask DEF Unawaited
  <1>5. PICK page : page = setting.pages[task.page]
    OBVIOUS
  <1>6. PICK v : v = SafariVerdict(page)
    OBVIOUS
  <1>7. PICK spent : worker' = [worker EXCEPT !.spent = spent]
    BY DEF decide
  <1>8. /\ worker'.up /\ DOMAIN worker' = DOMAIN worker /\ worker'.snap \in Held(setting)
        /\ worker'.provisioned \in BOOLEAN /\ worker'.adopting \subseteq SnapshotsOf(setting)
    BY <1>4, <1>7 DEF WorkerOK
  <1>9. tasks' = [tasks EXCEPT ![t] = None]
    BY DEF decide, Done
  <1>10. PagesOK'
    <2>1. store' = store \/ \E s : store' = [store EXCEPT !.spent = s]
      BY DEF decide
    <2>2. block' = block \/ block' = Redirected(task.page)
      BY <1>2 DEF decide
    <2>3. block' = block \/ \E p, mode : mode \in {"idle", "asked"} /\ block' = [block EXCEPT ![p].mode = mode]
      BY <2>2 DEF Redirected
    <2>4. /\ DOMAIN store' = DOMAIN store /\ store'.snap = store.snap
          /\ store'.provisioned = store.provisioned /\ store'.asks = store.asks
      BY <2>1 DEF PagesOK
    <2>5. QED
      BY <1>1, <2>3, <2>4 DEF PagesOK, Pages
  <1>11. ASSUME v.reason = "temporary:ONCE", Send("SPEND_GRANT", v.id, None) PROVE SafariInv'
    <2>1. PICK f : f = Free(mails) /\ f \in Slot /\ mails[f] = None
      BY <1>11, FreeIs DEF Send
    <2>2. PICK new : new = Mail("SPEND_GRANT", v.id, None)
      OBVIOUS
    <2>3. v.id \in GrantIds(setting)
      BY <1>6, <1>11, SafariSpendsGrant DEF DeviceInv
    <2>4. /\ new.type = "SPEND_GRANT" /\ new.at = "sent" /\ new.task = None
          /\ new \in MailRecord(setting, BOOLEAN)
      BY <2>2, <2>3 DEF Mail, MailRecord
    <2>5. new # None
      BY <2>4, SafariAssumption DEF DeviceInv, SettingOK
    <2>6. mails' = [mails EXCEPT ![f] = new]
      BY <1>11, <2>1, <2>2 DEF Send
    <2>7. MailsOK'
      BY <1>1, <1>4, <1>9, <2>1, <2>4, <2>5, <2>6, SentStep
    <2>8. TasksOK' /\ WritesOK' /\ WorkerOK'
      <3>1. TasksOK'
        BY <1>1, <1>9, PutTask
      <3>2. WritesOK'
        BY <1>1, <2>1, <2>6, WritesUnmoved
      <3>3. WorkerOK'
        BY <1>1, <1>8 DEF WorkerOK
      <3>4. QED
        BY <3>1, <3>2, <3>3
    <2>9. QED
      BY <1>1, <1>10, <2>7, <2>8
  <1>12. CASE UNCHANGED mails
    BY <1>1, <1>4, <1>8, <1>9, <1>10, <1>12, NewTaskOK
  <1>13. QED
    BY <1>2, <1>5, <1>6, <1>11, <1>12 DEF decide

-----------------------------------------------------------------------------
(* The block page. *)

LEMMA PageChanged ==
    ASSUME PagesOK, UNCHANGED setting, DOMAIN store' = DOMAIN store, store'.snap = store.snap,
           store'.provisioned = store.provisioned, DOMAIN store'.asks = Pages, NEW p, NEW b,
           b \in [mode : {"none", "idle", "asking", "asked", "late", "approved", "declined"},
                  ask : {"none", "clicked", "sent"}],
           block' = [block EXCEPT ![p] = b]
    PROVE  PagesOK'
  BY DEF PagesOK, Pages

\* What a page shows changes, and whether it still waits.
LEMMA ModeChanged ==
    ASSUME PagesOK, UNCHANGED <<setting, store>>, NEW p, NEW mode,
           mode \in {"none", "idle", "asking", "asked", "late", "approved", "declined"},
           block' = [block EXCEPT ![p].mode = mode]
    PROVE  PagesOK'
  BY DEF PagesOK, Pages

LEMMA AskKeeps ==
    ASSUME SafariInv, NEW p \in Pages, Ask(p)
    PROVE  SafariInv'
  <1> USE DEF SafariInv
  <1>1. UNCHANGED <<setting, now, group, writes, app, loads, worker, store, tasks, mails>>
    BY DEF Ask
  <1>2. AppOK'
    BY <1>1, AppUnmoved DEF AppSame, LeftStep, Ask
  <1>3. PICK b : b = [mode |-> "asking", ask |-> "clicked"]
    OBVIOUS
  <1>4. PagesOK'
    BY <1>1, <1>3, PageChanged DEF Ask, PagesOK
  <1>5. QED
    BY <1>1, <1>2, <1>4, MailsStay, TasksStay, WritesStay, WorkerStays

LEMMA DeliverAskKeeps ==
    ASSUME SafariInv, NEW p \in Pages, DeliverAsk(p)
    PROVE  SafariInv'
  <1> USE DEF SafariInv
  <1>1. AppOK' /\ UNCHANGED <<setting, writes, worker, store, mails>> /\ worker.up
    BY InsideKeeps DEF DeliverAsk, Inside, device
  <1>2. PICK t : t = Free(tasks) /\ t \in Slot /\ tasks[t] = None
    BY FreeIs DEF DeliverAsk
  <1>3. PICK at : at = Entry("send") /\ at \in {"read", "send"}
    BY DEF Entry
  <1>4. PICK x : x = Task("ask", at, p, None)
    OBVIOUS
  <1>5. TaskOK(x)
    <2>1. x \in TaskRecord(setting) /\ x.kind = "ask" /\ x.at = at /\ x.page = p /\ x.event = None
      BY <1>3, <1>4, NothingRead
    <2>2. QED
      BY <1>3, <2>1 DEF TaskOK
  <1>6. tasks' = [tasks EXCEPT ![t] = x]
    BY <1>2, <1>3, <1>4 DEF DeliverAsk
  <1>7. TasksOK' /\ MailsOK' /\ WritesOK' /\ WorkerOK'
    BY <1>1, <1>2, <1>5, <1>6, NewTaskOK DEF Unawaited, WorkerOK
  <1>8. PagesOK'
    <2>1. block' = [block EXCEPT ![p].ask = "sent"]
      BY DEF DeliverAsk
    <2>2. QED
      BY <1>1, <2>1 DEF PagesOK, Pages
  <1>9. QED
    BY <1>1, <1>7, <1>8

LEMMA sendAccessRequestKeeps ==
    ASSUME DeviceInv, SafariInv, NEW t \in Slot, sendAccessRequest(t)
    PROVE  SafariInv'
  <1> USE DEF SafariInv
  <1>1. AppOK' /\ PagesOK' /\ UNCHANGED <<setting, writes, worker>> /\ Inside
    BY InsideKeeps, PagesStay DEF sendAccessRequest, Inside, device
  <1>2. PICK task : task = tasks[t] /\ task # None /\ task.kind = "ask" /\ task.at = "send"
    BY DEF sendAccessRequest, Is
  <1>3. TaskOK(task) /\ task.page \in Pages /\ task.seen \in Read(setting) \cup {None}
    BY <1>2 DEF TasksOK, TaskOK, TaskRecord
  <1>4. PICK f : f = Free(mails) /\ f \in Slot /\ mails[f] = None
    BY FreeIs DEF sendAccessRequest, Send
  <1>5. PICK x : x = Moved(task, task.seen, "answer")
    OBVIOUS
  <1>6. PICK new : new = Mail("REQUEST_ACCESS", task.page, t)
    OBVIOUS
  <1>7. tasks' = [tasks EXCEPT ![t] = x] /\ mails' = [mails EXCEPT ![f] = new]
    <2>1. [task EXCEPT !.at = "answer"] = x
      BY <1>3, <1>5, MovedSame
    <2>2. tasks' = [tasks EXCEPT ![t] = x]
      BY <1>2, <2>1 DEF sendAccessRequest, Step
    <2>3. mails' = [mails EXCEPT ![f] = new]
      BY <1>2, <1>4, <1>6 DEF sendAccessRequest, Send
    <2>4. QED
      BY <2>2, <2>3
  <1>8. /\ x \in TaskRecord(setting) /\ x.kind = "ask" /\ x.at = "answer"
        /\ x.page = task.page /\ x.event = task.event
    BY <1>2, <1>3, <1>5, MovedTo
  <1>9. TaskOK(x) /\ x # None
    BY <1>2, <1>3, <1>8, SafariAssumption DEF TaskOK, DeviceInv, SettingOK
  <1>10. /\ new.type = "REQUEST_ACCESS" /\ new.at = "sent" /\ new.task = t /\ new.arg = task.page
         /\ new \in MailRecord(setting, BOOLEAN)
    BY <1>3, <1>6 DEF Mail, MailRecord, Pages
  <1>11. new # None
    BY <1>10, SafariAssumption DEF DeviceInv, SettingOK
  <1>12. AwaitedBy(new, x)
    BY <1>8, <1>10 DEF AwaitedBy
  <1>13. Unawaited(t) /\ worker.up
    BY <1>2, RunningTask DEF Unawaited
  <1>14. MailsOK'
    BY <1>1, <1>3, <1>4, <1>7, <1>9, <1>10, <1>11, <1>12, <1>13, SentStep
  <1>15. TasksOK' /\ WritesOK' /\ WorkerOK'
    BY <1>1, <1>4, <1>7, <1>9, <1>13, PutTask, WritesUnmoved, WorkerRuns
  <1>16. QED
    BY <1>1, <1>14, <1>15

LEMMA AskAnsweredKeeps ==
    ASSUME DeviceInv, SafariInv, NEW t \in Slot, AskAnswered(t)
    PROVE  SafariInv'
  <1> USE DEF SafariInv
  <1>1. AppOK' /\ UNCHANGED <<setting, writes, worker>> /\ Inside
    BY InsideKeeps DEF AskAnswered, Inside, device
  <1>2. PICK task : task = tasks[t] /\ task # None /\ task.kind = "ask" /\ task.at = "answer"
    BY DEF AskAnswered, Is
  <1>3. task.page \in Pages /\ worker.up
    BY <1>2, RunningTask DEF TasksOK, TaskOK
  <1>4. PICK p : p = task.page
    OBVIOUS
  <1>5. PICK m \in Reply(t) :
          /\ mails' = [mails EXCEPT ![m] = None]
          /\ \/ UNCHANGED <<store, block>>
             \/ /\ store' = [store EXCEPT !.asks[p] = now]
                /\ block' = [block EXCEPT ![p] = [mode |-> "asked", ask |-> "none"]]
             \/ /\ block' = [block EXCEPT ![p] = [mode |-> "idle", ask |-> "none"]]
                /\ UNCHANGED store
    BY <1>2, <1>4 DEF AskAnswered
  <1>6. m \in Slot /\ mails[m] # None /\ mails[m].task = t /\ mails[m].at # "handling"
    BY <1>5 DEF Reply
  <1>7. tasks' = [tasks EXCEPT ![t] = None]
    BY DEF AskAnswered, Done
  <1>8. MailsOK' /\ WritesOK'
    BY <1>1, <1>5, <1>6, <1>7, RepliedStep, WritesUnmoved
  <1>9. TasksOK' /\ WorkerOK'
    BY <1>1, <1>3, <1>7, PutTask, WorkerRuns
  <1>10. PagesOK'
    <2>1. CASE UNCHANGED <<store, block>>
      BY <1>1, <2>1, PagesStay
    <2>2. ASSUME NEW b, b \in [mode : {"asked", "idle"}, ask : {"none"}], block' = [block EXCEPT ![p] = b],
                 store' = [store EXCEPT !.asks[p] = now] \/ UNCHANGED store
          PROVE  PagesOK'
      <3>1. /\ DOMAIN store' = DOMAIN store /\ store'.snap = store.snap
            /\ store'.provisioned = store.provisioned /\ DOMAIN store'.asks = Pages
        BY <2>2 DEF PagesOK
      <3>2. QED
        BY <1>1, <2>2, <3>1, PageChanged
    <2>3. ASSUME NEW mode \in {"asked", "idle"}
          PROVE  [mode |-> mode, ask |-> "none"] \in [mode : {"asked", "idle"}, ask : {"none"}]
      OBVIOUS
    <2>4. QED
      BY <1>5, <2>1, <2>2, <2>3
  <1>11. QED
    BY <1>1, <1>8, <1>9, <1>10

Lated(task) == [task EXCEPT !.event = Late]

LEMMA AskTimesOutKeeps ==
    ASSUME DeviceInv, SafariInv, NEW p \in Pages, AskTimesOut(p)
    PROVE  SafariInv'
  <1> USE DEF SafariInv
  <1>1. AppOK' /\ UNCHANGED <<setting, writes, worker, store, mails>> /\ Inside
    BY InsideKeeps DEF AskTimesOut, Inside, device
  <1>2. /\ DOMAIN tasks' = Slot
        /\ \A t \in Slot : tasks'[t] = IF tasks[t] # None /\ tasks[t].kind = "ask" /\ tasks[t].page = p
                                       THEN Lated(tasks[t]) ELSE tasks[t]
    BY DEF AskTimesOut, Lated
  <1>3. ASSUME NEW task, TaskOK(task), task.kind = "ask", NEW x, x = Lated(task)
        PROVE  /\ TaskOK(x) /\ x # None /\ x.kind = task.kind /\ x.at = task.at /\ x.page = task.page
    <2>1. /\ x.kind = task.kind /\ x.at = task.at /\ x.page = task.page /\ x.seen = task.seen /\ x.event = Late
          /\ x \in TaskRecord(setting)
      BY <1>3 DEF TaskOK, TaskRecord, Lated
    <2>2. x # None
      BY <2>1, SafariAssumption DEF DeviceInv, SettingOK
    <2>3. QED
      BY <1>3, <2>1, <2>2 DEF TaskOK
  <1>4. ASSUME NEW t \in Slot, tasks[t] # None
        PROVE  /\ tasks'[t] # None /\ TaskOK(tasks'[t])
               /\ tasks'[t].kind = tasks[t].kind /\ tasks'[t].at = tasks[t].at /\ tasks'[t].page = tasks[t].page
    <2>1. PICK task : task = tasks[t] /\ TaskOK(task)
      BY <1>4 DEF TasksOK
    <2>2. PICK x : x = tasks'[t]
      OBVIOUS
    <2>3. CASE task.kind = "ask" /\ task.page = p
      <3>1. x = Lated(task)
        BY <1>2, <1>4, <2>1, <2>2, <2>3
      <3>2. QED
        BY <1>3, <2>1, <2>2, <2>3, <3>1
    <2>4. CASE ~(task.kind = "ask" /\ task.page = p)
      BY <1>2, <1>4, <2>1, <2>2, <2>4
    <2>5. QED
      BY <2>3, <2>4
  <1>5. ASSUME NEW t \in Slot, tasks[t] = None PROVE tasks'[t] = None
    BY <1>2, <1>5
  <1>6. TasksOK'
    <2>1. ASSUME NEW y, TaskOK(y) PROVE TaskOK(y)'
      BY <1>1, <2>1 DEF TaskOK, Pages
    <2>2. QED
      BY <1>2, <1>4, <1>5, <2>1 DEF TasksOK
  <1>7. MailsOK'
    <2>1. ASSUME NEW m \in Slot, mails[m] # None PROVE MailOK(mails[m])'
      <3>1. PICK y : y = mails[m] /\ MailOK(y)
        BY <2>1 DEF MailsOK
      <3>2. y.task # None => y.task \in Slot /\ tasks[y.task] # None /\ AwaitedBy(y, tasks[y.task])
        BY <3>1 DEF MailOK, MailRecord
      <3>3. y.task # None => tasks'[y.task] # None /\ AwaitedBy(y, tasks'[y.task])
        BY <1>4, <3>2 DEF AwaitedBy
      <3>4. MailOK(y)'
        BY <1>1, <3>1, <3>3, MailStays
      <3>5. QED
        BY <1>1, <3>1, <3>4
    <2>2. QED
      BY <1>1, <2>1 DEF MailsOK
  <1>8. WritesOK'
    BY <1>1, WritesStay
  <1>9. WorkerOK'
    BY <1>1, <1>5 DEF WorkerOK
  <1>10. PICK b : b = [mode |-> "idle", ask |-> "none"]
    OBVIOUS
  <1>11. PagesOK'
    BY <1>1, <1>10, PageChanged DEF AskTimesOut, PagesOK
  <1>12. QED
    BY <1>1, <1>6, <1>7, <1>8, <1>9, <1>11

LEMMA PageStepKeeps ==
    ASSUME SafariInv, NEW p \in Pages, renderAskedNote(p) \/ refreshFromSnapshot(p)
    PROVE  SafariInv'
  <1> USE DEF SafariInv
  <1>1. AppOK' /\ UNCHANGED <<setting, writes, worker, store, tasks, mails>>
    BY InsideKeeps DEF renderAskedNote, refreshFromSnapshot, Inside, device
  <1>2. PICK mode : mode \in {"late", "approved", "declined"} /\ block' = [block EXCEPT ![p].mode = mode]
    BY DEF renderAskedNote, refreshFromSnapshot
  <1>3. PagesOK'
    BY <1>1, <1>2, ModeChanged
  <1>4. QED
    BY <1>1, <1>3, MailsStay, TasksStay, WritesStay, WorkerStays

-----------------------------------------------------------------------------
(* Every step. *)

LEMMA TaskStepKeeps ==
    ASSUME DeviceInv, SafariInv, NEW t \in Slot, TaskStep(t)
    PROVE  SafariInv'
  BY ReadCacheKeeps, restoreCachedPolicyKeeps, SyncedKeeps, ProvisionedKeeps, AdoptKeeps, decideKeeps,
     sendAccessRequestKeeps, AskAnsweredKeeps DEF TaskStep

LEMMA SafariStepKeeps == DeviceInv /\ SafariInv /\ [Next]_vars => SafariInv'
  <1> SUFFICES ASSUME DeviceInv, SafariInv, [Next]_vars PROVE SafariInv'
    OBVIOUS
  <1>1. CASE UNCHANGED vars
    <2>1. UNCHANGED <<setting, left, now, group, writes, app, loads>> /\ UNCHANGED safari
      BY <1>1 DEF vars, device
    <2>2. AppOK'
      BY <2>1, AppUnmoved DEF AppSame, LeftStep, SafariInv
    <2>3. WritesOK'
      BY <2>1, WritesStay DEF safari, SafariInv
    <2>4. QED
      BY <2>1, <2>2, <2>3, SafariStays DEF SafariInv
  <1>2. CASE DeviceStep /\ UNCHANGED safari
    BY <1>2, DeviceKeepsSafari
  <1>3. ASSUME NEW m \in Slot, beginRequest(m) PROVE SafariInv'
    BY <1>3, beginRequestKeeps
  <1>4. ASSUME NEW w \in writes, CommitMail(w) PROVE SafariInv'
    BY <1>4, CommitMailKeeps
  <1>5. CASE Wake \/ Unload \/ restoreSpent \/ syncFromNative \/ AdoptStored
    BY <1>5, WakeKeeps, UnloadKeeps, restoreSpentKeeps, syncFromNativeKeeps, AdoptStoredKeeps
  <1>6. CASE Deliveries
    BY <1>6, DeliverKeeps, DeliverAskKeeps DEF Deliveries
  <1>7. ASSUME NEW t \in Slot, TaskStep(t) PROVE SafariInv'
    BY <1>7, TaskStepKeeps
  <1>8. ASSUME NEW p \in Pages, Ask(p) \/ AskTimesOut(p) \/ renderAskedNote(p) \/ refreshFromSnapshot(p)
        PROVE  SafariInv'
    BY <1>8, AskKeeps, AskTimesOutKeeps, PageStepKeeps
  <1>9. QED
    BY <1>1, <1>2, <1>3, <1>4, <1>5, <1>6, <1>7, <1>8 DEF Next

LEMMA SafariInitHolds == Init => SafariInv
  <1> SUFFICES ASSUME Init PROVE SafariInv
    OBVIOUS
  <1>1. DeviceInv
    BY InitHolds
  <1>2. AppOK
    <2>1. left \in [Things -> Nat] /\ setting.maxPending \in Nat
      BY DeviceAssumption DEF Init, DeviceInit
    <2>2. group.provisioned \in BOOLEAN /\ group.queue = <<>>
      BY DEF Init, DeviceInit, NewGroup
    <2>3. QueueOK(<<>>)
      BY <2>1 DEF QueueOK, Distinct
    <2>4. DOMAIN app = {"up", "screen", "target", "late", "error"} /\ app.screen \in Screens
      BY DEF Init, DeviceInit, Launched, Closed, Screens
    <2>5. QED
      BY <2>1, <2>2, <2>3, <2>4 DEF AppOK, Init, DeviceInit
  <1>3. WritesOK /\ MailsOK /\ TasksOK
    BY DEF WritesOK, MailsOK, TasksOK, Init, DeviceInit
  <1>4. WorkerOK
    BY DEF WorkerOK, Init, Asleep, Held
  <1>5. PagesOK
    <2>1. group.raw \in Held(setting) /\ setting.stored \in BOOLEAN
      BY <1>1, SafariAssumption DEF DeviceInv, GroupOK, Held, SettingOK
    <2>2. QED
      BY <2>1 DEF PagesOK, Init, Held, NoBlockPage
  <1>6. QED
    BY <1>2, <1>3, <1>4, <1>5 DEF SafariInv

\* What Safari's worker, its messages and its pages hold, and the queue.
THEOREM SafariInvariant == Spec => []SafariInv
  <1>1. Spec => []DeviceInv
    BY DeviceInvariant
  <1>2. Init => SafariInv
    BY SafariInitHolds
  <1>3. DeviceInv /\ SafariInv /\ [Next]_vars => SafariInv'
    BY SafariStepKeeps
  <1>4. QED
    BY <1>1, <1>2, <1>3, PTL DEF Spec

LEMMA DistinctCounted ==
    ASSUME NEW S, NEW q \in Seq(S), Distinct(q)
    PROVE  Cardinality(Range(q)) = Len(q)
  <1>1. Len(q) \in Nat /\ DOMAIN q = 1 .. Len(q)
    OBVIOUS
  <1>2. q \in Bijection(1 .. Len(q), Range(q))
    <2>1. q \in [1 .. Len(q) -> Range(q)]
      BY <1>1 DEF Range
    <2>2. IsInjective(q)
      BY <1>1 DEF IsInjective, Distinct
    <2>3. \A x \in Range(q) : \E i \in 1 .. Len(q) : q[i] = x
      BY <1>1 DEF Range
    <2>4. QED
      BY <2>1, <2>2, <2>3 DEF Bijection, Injection, Surjection
  <1>3. IsFiniteSet(1 .. Len(q)) /\ Cardinality(1 .. Len(q)) = Len(q)
    <2>1. Cardinality(1 .. Len(q)) = IF 1 > Len(q) THEN 0 ELSE Len(q) - 1 + 1
      BY <1>1, FS_Interval
    <2>2. QED
      BY <1>1, <2>1, FS_Interval
  <1>4. QED
    <2>1. ExistsBijection(1 .. Len(q), Range(q))
      BY <1>2 DEF ExistsBijection
    <2>2. QED
      BY <1>3, <2>1, FS_Bijection

\* The worker and its pages keep their shape; the queue holds each target once and
\* never more than it may, whatever is asked, posted, removed and written back late
\* (PolicyStore enqueueAccessRequest).
THEOREM SafariTypes == Spec => []TypeOK
  <1>1. SafariInv => TypeOK
    <2> SUFFICES ASSUME SafariInv PROVE TypeOK
      OBVIOUS
    <2> USE DEF SafariInv
    <2>1. \A thing \in DOMAIN left : left[thing] \in Nat
      BY DEF AppOK
    <2>2. Len(group.queue) <= setting.maxPending /\ Cardinality(Range(group.queue)) = Len(group.queue)
      BY DistinctCounted DEF AppOK, QueueOK
    <2>3. app.screen \in {"idle", "sending", "waiting", "answered", "opened", "closed", "failed"}
      BY DEF AppOK, Screens
    <2>4. worker.up \/ (worker = Asleep /\ \A t \in Slot : tasks[t] = None)
      BY DEF WorkerOK
    <2>5. \A m \in Slot : mails[m] # None /\ mails[m].at = "answered" =>
                mails[m].task # None /\ tasks[mails[m].task] # None
      BY DEF MailsOK, MailOK
    <2>6. \A p \in Pages : block[p].mode \in {"none", "idle", "asking", "asked", "late", "approved", "declined"}
      BY DEF PagesOK
    <2>7. QED
      BY <2>1, <2>2, <2>3, <2>4, <2>5, <2>6 DEF TypeOK
  <1>2. QED
    BY <1>1, SafariInvariant, PTL

-----------------------------------------------------------------------------
(* Asks: what the page remembers is kept. *)

RemovesOK == \A w \in writes : w.op = "remove" => w.arg \in server.posted \cup server.refused

DeliveredOK == \A m \in Slot : mails[m] # None /\ mails[m].type = "REQUEST_ACCESS" =>
                                    (Delivered(mails[m].body) => Kept(mails[m].arg))

RememberedOK == \A p \in Pages : store.asks[p] # None => Kept(p)

ServerGrows == server.posted \subseteq server'.posted /\ server.refused \subseteq server'.refused

QueueGrows == \A p \in Range(group.queue) : p \in Range(group'.queue) \/ p \in server.posted \cup server.refused

LEMMA KeptStays ==
    ASSUME ServerGrows, QueueGrows, NEW p, Kept(p)
    PROVE  Kept(p)'
  BY DEF ServerGrows, QueueGrows, Kept

LEMMA EnqueuedHas ==
    ASSUME NEW q, QueueOK(q), NEW w
    PROVE  Range(q) \subseteq Range(Enqueued(w, q))
  <1>1. DOMAIN q = 1 .. Len(q) /\ Len(q) \in Nat /\ q \in Seq(Pages)
    BY DEF QueueOK
  <1>2. DOMAIN Append(q, w.arg) = 1 .. Len(q) + 1 /\ \A i \in 1 .. Len(q) : Append(q, w.arg)[i] = q[i]
    BY <1>1
  <1>3. Range(q) \subseteq Range(Append(q, w.arg))
    BY <1>1, <1>2 DEF Range
  <1>4. QED
    BY <1>3 DEF Enqueued

LEMMA RemovedHas ==
    ASSUME NEW q, QueueOK(q), NEW t, NEW p \in Range(q), p # t
    PROVE  p \in Range(Removed(q, t))
  <1>1. CASE t \notin Range(q)
    BY <1>1 DEF Removed
  <1>2. CASE t \in Range(q)
    <2>1. PICK c : c = CHOOSE i \in DOMAIN q : q[i] = t
      OBVIOUS
    <2>2. q \in Seq(Pages) /\ Len(q) \in Nat /\ DOMAIN q = 1 .. Len(q)
      BY DEF QueueOK
    <2>3. c \in 1 .. Len(q) /\ q[c] = t
      BY <1>2, <2>1, <2>2 DEF Range
    <2>4. PICK a, b : a = SubSeq(q, 1, c - 1) /\ b = SubSeq(q, c + 1, Len(q))
      OBVIOUS
    <2>5. \A i \in 1 .. Len(q) : q[i] \in Pages
      BY <2>2
    <2>6. a \in Seq(Pages) /\ Len(a) = c - 1 /\ \A i \in 1 .. c - 1 : a[i] = q[i]
      BY <2>2, <2>3, <2>4, <2>5
    <2>7. /\ b \in Seq(Pages) /\ Len(b) = IF c + 1 <= Len(q) THEN Len(q) - (c + 1) + 1 ELSE 0
          /\ \A i \in 1 .. Len(q) - (c + 1) + 1 : b[i] = q[c + 1 + i - 1]
      BY <2>2, <2>3, <2>4, <2>5, SubSeqProperties
    <2>8. /\ a \o b \in Seq(Pages) /\ Len(a \o b) = Len(a) + Len(b)
          /\ \A i \in 1 .. Len(a) + Len(b) : (a \o b)[i] = IF i <= Len(a) THEN a[i] ELSE b[i - Len(a)]
      BY <2>6, <2>7, ConcatProperties
    <2>9. PICK r : r = a \o b
      OBVIOUS
    <2>10. Len(b) = Len(q) - c /\ Len(b) \in Nat /\ Len(a) \in Nat
      <3>1. c \in Int /\ Len(q) \in Int /\ c <= Len(q)
        BY <2>2, <2>3
      <3>2. QED
        BY <2>6, <2>7, <3>1
    <2>11. DOMAIN r = 1 .. Len(a) + Len(b)
      BY <2>8, <2>9
    <2>12. PICK j \in 1 .. Len(q) : q[j] = p
      BY <2>2 DEF Range
    <2>13. j # c
      BY <2>3, <2>12
    <2>14. CASE j < c
      <3>1. j \in 1 .. Len(a) + Len(b) /\ j <= Len(a) /\ j \in 1 .. c - 1
        BY <2>2, <2>3, <2>6, <2>10, <2>12, <2>14
      <3>2. r[j] = p
        BY <2>6, <2>8, <2>9, <2>12, <3>1
      <3>3. QED
        BY <1>2, <2>1, <2>4, <2>9, <2>11, <3>1, <3>2 DEF Removed, RemoveAt, Range
    <2>15. CASE j > c
      <3>1. PICK k : k = j - 1
        OBVIOUS
      <3>2. k \in 1 .. Len(a) + Len(b) /\ ~(k <= Len(a)) /\ k - Len(a) = j - c
        BY <2>2, <2>3, <2>6, <2>10, <2>12, <2>15, <3>1
      <3>3. j - c \in 1 .. Len(q) - (c + 1) + 1 /\ c + 1 + (j - c) - 1 = j
        BY <2>2, <2>3, <2>12, <2>15
      <3>4. r[k] = b[j - c] /\ b[j - c] = q[j]
        <4>1. r[k] = b[j - c]
          BY <2>8, <2>9, <3>2
        <4>2. b[j - c] = q[c + 1 + (j - c) - 1]
          BY <2>7, <3>3
        <4>3. QED
          BY <3>3, <4>1, <4>2
      <3>5. r[k] = p
        BY <2>12, <3>4
      <3>6. QED
        BY <1>2, <2>1, <2>4, <2>9, <2>11, <3>2, <3>5 DEF Removed, RemoveAt, Range
    <2>16. QED
      BY <2>2, <2>3, <2>12, <2>13, <2>14, <2>15
  <1>3. QED
    BY <1>1, <1>2

LEMMA PutGrows ==
    ASSUME DeviceInv, AppOK, ~setting.racing, RemovesOK, NEW w \in writes, WriteOK(w), group' = Put(w)
    PROVE  QueueGrows /\ (w.op = "enqueue" => group'.queue = Enqueued(w, group.queue))
  <1>1. PICK key : key = KeyOf(w.op)
    OBVIOUS
  <1>2. PICK new : new = Changed(w, group[key])
    OBVIOUS
  <1>3. key \in {"spent", "reported", "queue"}
    BY <1>1 DEF KeyOf
  <1>4. group' = [group EXCEPT ![key] = new]
    BY <1>1, <1>2 DEF Put
  <1>5. group'.queue = IF key = "queue" THEN new ELSE group.queue
    BY <1>3, <1>4 DEF DeviceInv, GroupOK
  <1>6. QueueOK(group.queue)
    BY DEF AppOK
  <1>7. CASE w.op = "enqueue"
    <2>1. group'.queue = Enqueued(w, group.queue)
      BY <1>1, <1>2, <1>5, <1>7 DEF KeyOf, Changed
    <2>2. QED
      BY <1>6, <1>7, <2>1, EnqueuedHas DEF QueueGrows
  <1>8. CASE w.op = "remove"
    <2>1. group'.queue = Removed(group.queue, w.arg)
      BY <1>1, <1>2, <1>5, <1>8 DEF KeyOf, Changed
    <2>2. w.arg \in server.posted \cup server.refused
      BY <1>8 DEF RemovesOK
    <2>3. QED
      BY <1>6, <1>8, <2>1, <2>2, RemovedHas DEF QueueGrows
  <1>9. CASE w.op \in {"spend", "mark"}
    <2>1. group'.queue = group.queue
      BY <1>1, <1>5, <1>9 DEF KeyOf
    <2>2. QED
      BY <1>9, <2>1 DEF QueueGrows
  <1>10. QED
    BY <1>7, <1>8, <1>9 DEF WriteOK

-----------------------------------------------------------------------------
(* The app's calls and the asks. *)

\* The writes that leave the queue shorter are of what has arrived.
MoreRemoves == \A w \in writes' : w \in writes \/ (w.op = "remove" => w.arg \in server'.posted \cup server'.refused)

LEMMA RemovesStay ==
    ASSUME RemovesOK, ServerGrows, MoreRemoves
    PROVE  RemovesOK'
  BY DEF RemovesOK, ServerGrows, MoreRemoves

LEMMA CallAsks ==
    ASSUME DeviceInv, NEW k \in Call, AppStep(k) \/ CallStep(k)
    PROVE  ServerGrows /\ MoreRemoves /\ (UNCHANGED group \/ group'.queue = group.queue)
  <1> USE DEF ServerGrows, MoreRemoves
  <1>s. DOMAIN server = {"enrolled", "stage", "consumed", "posted", "refused"}
    BY DEF DeviceInv, ServerOK
  <1>1. CASE AppStep(k)
    BY <1>1 DEF AppStep, Enroll, SyncTapped, handleIncoming
  <1>2. CASE Redeemed(k)
    BY <1>s, <1>2 DEF Redeemed
  <1>3. CASE Filed(k)
    BY <1>s, <1>3 DEF Filed
  <1>4. CASE Renew(k) \/ Renewed(k) \/ Get(k) \/ Got(k)
    BY <1>4 DEF Renew, Renewed, Get, Got
  <1>5. CASE CheckInstall(k) \/ Reports(k) \/ Posts(k) \/ WriteDone(k) \/ Decided(k)
    BY <1>5 DEF CheckInstall, Reports, Posts, WriteDone, Decided
  <1>6. CASE Install(k)
    BY <1>6 DEF Install, Installed, DeviceInv, GroupOK
  <1>7. CASE Reported(k)
    <2>1. server' = server \/ \E d, id : server' = Consumed(d, id)
      BY <1>7 DEF Reported
    <2>2. ServerGrows
      BY <1>s, <2>1 DEF Consumed
    <2>3. writes' = writes \/ \E id : writes' = writes \cup {Write(k, "mark", id)}
      BY <1>7 DEF Reported
    <2>4. MoreRemoves
      BY <2>3 DEF Write
    <2>5. QED
      BY <1>7, <2>2, <2>4 DEF Reported
  <1>8. CASE PostedNext(k)
    <2>1. PICK t : t = Head(calls[k].rest)
      OBVIOUS
    <2>2. server' \in {server, Posted(t), [server EXCEPT !.refused = @ \cup {t}]}
      BY <1>8, <2>1 DEF PostedNext
    <2>3. ServerGrows
      BY <1>s, <2>2 DEF Posted
    <2>4. \/ writes' = writes
          \/ /\ writes' = writes \cup {Write(k, "remove", t)}
             /\ server' \in {Posted(t), [server EXCEPT !.refused = @ \cup {t}]}
      BY <1>8, <2>1 DEF PostedNext, Keeps
    <2>5. PICK w : w = Write(k, "remove", t)
      OBVIOUS
    <2>6. w.op = "remove" /\ w.arg = t
      BY <2>5 DEF Write
    <2>7. server' \in {Posted(t), [server EXCEPT !.refused = @ \cup {t}]} => t \in server'.posted \cup server'.refused
      BY <1>s DEF Posted
    <2>8. MoreRemoves
      BY <2>4, <2>5, <2>6, <2>7
    <2>9. QED
      BY <1>8, <2>3, <2>8 DEF PostedNext
  <1>9. QED
    BY <1>1, <1>2, <1>3, <1>4, <1>5, <1>6, <1>7, <1>8 DEF CallStep

AsksOK == RemovesOK /\ DeliveredOK /\ RememberedOK

LEMMA AsksStay ==
    ASSUME AsksOK, ServerGrows, QueueGrows, MoreRemoves, UNCHANGED <<setting, safari>>
    PROVE  AsksOK'
  <1>1. RemovesOK'
    BY RemovesStay DEF AsksOK
  <1>2. DeliveredOK'
    BY KeptStays DEF AsksOK, DeliveredOK, safari
  <1>3. RememberedOK'
    BY KeptStays DEF AsksOK, RememberedOK, safari, Pages
  <1>4. QED
    BY <1>1, <1>2, <1>3 DEF AsksOK

LEMMA DeviceKeepsAsks ==
    ASSUME DeviceInv, SafariInv, AsksOK, ~setting.racing, DeviceStep, UNCHANGED safari
    PROVE  AsksOK'
  <1>s. DOMAIN server = {"enrolled", "stage", "consumed", "posted", "refused"}
    BY DEF DeviceInv, ServerOK
  <1>1. ASSUME NEW d, Edit(d) PROVE AsksOK'
    BY <1>s, <1>1, AsksStay DEF Edit, ServerGrows, QueueGrows, MoreRemoves
  <1>2. CASE Tick \/ OpenApp \/ CloseSheet \/ signOutDevice \/ TokenDue \/ KillApp
    BY <1>2, AsksStay DEF Tick, OpenApp, CloseSheet, signOutDevice, TokenDue, KillApp, ServerGrows,
                          QueueGrows, MoreRemoves
  <1>3. ASSUME NEW k \in Call, AppStep(k) \/ CallStep(k) PROVE AsksOK'
    <2>1. ServerGrows /\ MoreRemoves /\ QueueGrows
      BY <1>3, CallAsks DEF QueueGrows
    <2>2. UNCHANGED setting
      BY <1>3, CallShows, AppShows DEF DeviceInv, SafariInv, AppOK, CallSeen
    <2>3. QED
      BY <2>1, <2>2, AsksStay
  <1>4. ASSUME NEW w \in writes, Take(w) PROVE AsksOK'
    BY <1>4 DEF Take
  <1>5. ASSUME NEW w \in writes, Commit(w) PROVE AsksOK'
    <2>1. QueueGrows
      BY <1>5, PutGrows DEF Commit, SafariInv, WritesOK, AsksOK
    <2>2. QED
      BY <1>5, <2>1, AsksStay DEF Commit, ServerGrows, MoreRemoves
  <1>6. ASSUME NEW p, NEW kind, Open(p, kind) PROVE AsksOK'
    BY <1>6, AsksStay DEF Open, ServerGrows, QueueGrows, MoreRemoves
  <1>7. ASSUME NEW l \in loads, handleNewFlow(l) PROVE AsksOK'
    <2>1. writes' = writes \/ \E id : writes' = writes \cup {Write(None, "spend", id)}
      BY <1>7 DEF handleNewFlow
    <2>2. MoreRemoves
      BY <2>1 DEF MoreRemoves, Write
    <2>3. QED
      BY <1>7, <2>2, AsksStay DEF handleNewFlow, ServerGrows, QueueGrows
  <1>8. QED
    BY <1>1, <1>2, <1>3, <1>4, <1>5, <1>6, <1>7 DEF DeviceStep, AppStep

-----------------------------------------------------------------------------
(* Safari's steps and the asks. *)

\* A message that is a delivered ask was so before, or has become one that is kept.
MailsGo == \A m \in Slot : mails'[m] # None /\ mails'[m].type = "REQUEST_ACCESS" /\ Delivered(mails'[m].body) =>
    \/ mails[m] # None /\ mails[m].type = mails'[m].type /\ mails[m].arg = mails'[m].arg /\ mails[m].body = mails'[m].body
    \/ Kept(mails[m].arg)'

LEMMA DeliveredStays ==
    ASSUME DeliveredOK, ServerGrows, QueueGrows, MailsGo
    PROVE  DeliveredOK'
  <1>1. ASSUME NEW m \in Slot, mails'[m] # None, mails'[m].type = "REQUEST_ACCESS", Delivered(mails'[m].body)
        PROVE  Kept(mails[m].arg)'
    <2>1. CASE Kept(mails[m].arg)'
      BY <2>1
    <2>2. CASE mails[m] # None /\ mails[m].type = mails'[m].type /\ mails[m].arg = mails'[m].arg
               /\ mails[m].body = mails'[m].body
      <3>1. Kept(mails[m].arg)
        BY <1>1, <2>2 DEF DeliveredOK
      <3>2. PICK p : p = mails[m].arg
        OBVIOUS
      <3>3. Kept(p)'
        BY <3>1, <3>2, KeptStays
      <3>4. QED
        BY <2>2, <3>2, <3>3
    <2>3. QED
      BY <1>1, <2>1, <2>2 DEF MailsGo
  <1>2. QED
    BY <1>1 DEF DeliveredOK, Delivered

LEMMA RememberedStays ==
    ASSUME RememberedOK, ServerGrows, QueueGrows, UNCHANGED setting,
           \A p \in Pages : store'.asks[p] # None => store.asks[p] # None \/ Kept(p)'
    PROVE  RememberedOK'
  BY KeptStays DEF RememberedOK, Pages

\* Nothing of the device changes but what is written.
LEMMA QuietAsks ==
    ASSUME AsksOK, UNCHANGED <<setting, server, group>>, MoreRemoves, MailsGo,
           \A p \in Pages : store'.asks[p] # None => store.asks[p] # None
    PROVE  AsksOK'
  <1>1. ServerGrows /\ QueueGrows
    BY DEF ServerGrows, QueueGrows
  <1>2. QED
    BY <1>1, RemovesStay, DeliveredStays, RememberedStays DEF AsksOK

LEMMA NoRemoves == UNCHANGED writes => MoreRemoves
  BY DEF MoreRemoves

LEMMA SameMails == UNCHANGED mails => MailsGo
  BY DEF MailsGo

LEMMA beginRequestAsks ==
    ASSUME SafariInv, AsksOK, NEW m \in Slot, beginRequest(m)
    PROVE  AsksOK'
  <1>1. UNCHANGED <<setting, server, group, store>> /\ mails[m] # None
    BY DEF beginRequest
  <1>2. PICK old : old = mails[m] /\ MailOK(old)
    BY <1>1 DEF SafariInv, MailsOK
  <1>3. \A n \in Slot \ {m} : mails'[n] = mails[n]
    BY DEF beginRequest, AnswerMail, SafariInv, MailsOK
  <1>4. MoreRemoves
    <2>1. writes' = writes \/ \E op \in {"spend", "enqueue"} : \E arg : writes' = writes \cup {Write(m, op, arg)}
      BY DEF beginRequest
    <2>2. QED
      BY <2>1 DEF MoreRemoves, Write
  <1>5. \/ mails'[m] = Handled(old)
        \/ mails'[m] = None
        \/ mails'[m] = Answered(old, None)
        \/ old.type = "GET_POLICY" /\ \E body : mails'[m] = Answered(old, body)
    BY <1>2 DEF beginRequest, AnswerMail, Handled, Answered, SafariInv, MailsOK
  <1>6. PICK new : new = mails'[m]
    OBVIOUS
  <1>7. new # None /\ new.type = "REQUEST_ACCESS" /\ Delivered(new.body) =>
            old.type = new.type /\ old.arg = new.arg /\ old.body = new.body
    <2>1. CASE new = Handled(old)
      BY <1>2, <2>1 DEF Handled, MailOK, MailRecord
    <2>2. CASE new = Answered(old, None)
      BY <1>2, <2>2 DEF Answered, MailOK, MailRecord, Delivered
    <2>3. CASE old.type = "GET_POLICY" /\ \E body : new = Answered(old, body)
      BY <1>2, <2>3 DEF Answered, MailOK, MailRecord
    <2>4. QED
      BY <1>5, <1>6, <2>1, <2>2, <2>3
  <1>8. MailsGo
    BY <1>1, <1>2, <1>3, <1>6, <1>7 DEF MailsGo
  <1>9. QED
    BY <1>1, <1>4, <1>8, QuietAsks

LEMMA CommitMailAsks ==
    ASSUME DeviceInv, SafariInv, AsksOK, ~setting.racing, NEW w \in writes, CommitMail(w)
    PROVE  AsksOK'
  <1>1. /\ UNCHANGED <<setting, server, store>> /\ w.by \in Slot /\ group' = Put(w) /\ writes' = writes \ {w}
        /\ AnswerMail(w.by, w.op = "spend" \/ w.arg \in Range(group'.queue))
    BY DEF CommitMail
  <1>2. PICK m : m = w.by /\ m \in Slot
    BY <1>1
  <1>3. /\ WriteOK(w) /\ mails[m] # None /\ mails[m].arg = w.arg
        /\ HandledAs(w.op, mails[m].type)
    BY <1>2 DEF SafariInv, WritesOK, WriteOK, HandledAs
  <1>4. QueueGrows /\ ServerGrows /\ MoreRemoves
    BY <1>1, <1>3, PutGrows DEF SafariInv, AsksOK, ServerGrows, MoreRemoves
  <1>5. PICK old : old = mails[m] /\ MailOK(old)
    BY <1>2, <1>3 DEF SafariInv, MailsOK
  <1>6. PICK body \in BOOLEAN : body = (w.op = "spend" \/ w.arg \in Range(group'.queue))
    OBVIOUS
  <1>7. mails'[m] = None \/ mails'[m] = Answered(old, body)
    BY <1>1, <1>2, <1>5, <1>6 DEF AnswerMail, Answered, SafariInv, MailsOK
  <1>8. \A n \in Slot \ {m} : mails'[n] = mails[n]
    BY <1>1, <1>2 DEF AnswerMail, SafariInv, MailsOK
  <1>9. PICK new : new = mails'[m]
    OBVIOUS
  <1>10. ASSUME new # None, new.type = "REQUEST_ACCESS", Delivered(new.body) PROVE Kept(mails[m].arg)'
    <2>1. new = Answered(old, body)
      BY <1>7, <1>9, <1>10
    <2>2. new.type = old.type /\ new.arg = old.arg /\ new.body = body
      BY <1>5, <2>1 DEF Answered, MailOK, MailRecord
    <2>3. w.op = "enqueue" /\ body
      BY <1>3, <1>5, <1>10, <2>2 DEF HandledAs, Delivered
    <2>4. w.arg \in Range(group'.queue)
      BY <1>6, <2>3
    <2>5. mails'[m].arg = w.arg
      BY <1>3, <1>5, <1>9, <2>2
    <2>6. QED
      BY <2>4, <2>5 DEF Kept
  <1>11. MailsGo
    BY <1>8, <1>9, <1>10 DEF MailsGo
  <1>12. DeliveredOK' /\ RememberedOK' /\ RemovesOK'
    BY <1>1, <1>4, <1>11, DeliveredStays, RememberedStays, RemovesStay DEF AsksOK
  <1>13. QED
    BY <1>12 DEF AsksOK

LEMMA MailBlank == \A type, arg, task : Mail(type, arg, task).body = None
  BY DEF Mail

LEMMA SentAsks ==
    ASSUME MailsOK, NEW f, NEW new, mails' = [mails EXCEPT ![f] = new], new = None \/ new.body = None
    PROVE  MailsGo
  <1>1. \A m \in Slot : mails'[m] = mails[m] \/ mails'[m] = new
    BY DEF MailsOK
  <1>2. QED
    BY <1>1 DEF MailsGo, Delivered

LEMMA AskAnsweredAsks ==
    ASSUME DeviceInv, SafariInv, AsksOK, NEW t \in Slot, AskAnswered(t)
    PROVE  AsksOK'
  <1>1. UNCHANGED <<setting, server, group, writes>>
    BY DEF AskAnswered, Inside, device
  <1>2. PICK task : task = tasks[t] /\ task # None /\ task.kind = "ask" /\ task.at = "answer"
    BY DEF AskAnswered, Is
  <1>3. PICK p : p = task.page
    OBVIOUS
  <1>4. PICK m \in Reply(t) :
          /\ mails' = [mails EXCEPT ![m] = None]
          /\ UNCHANGED store \/ (Delivered(mails[m].body) /\ store' = [store EXCEPT !.asks[p] = now])
    BY <1>2, <1>3 DEF AskAnswered
  <1>5. m \in Slot /\ mails[m] # None /\ mails[m].task = t /\ t # None
    BY <1>4, DeviceAssumption DEF Reply
  <1>6. mails[m].type = "REQUEST_ACCESS" /\ mails[m].arg = p
    BY <1>2, <1>3, <1>5 DEF SafariInv, MailsOK, MailOK, AwaitedBy
  <1>7. MailsGo
    BY <1>4, SentAsks DEF SafariInv
  <1>8. ServerGrows /\ QueueGrows /\ MoreRemoves
    BY <1>1 DEF ServerGrows, QueueGrows, MoreRemoves
  <1>9. ASSUME NEW q \in Pages, store'.asks[q] # None PROVE store.asks[q] # None \/ Kept(q)'
    <2>1. CASE UNCHANGED store
      BY <1>9, <2>1
    <2>2. CASE Delivered(mails[m].body) /\ store' = [store EXCEPT !.asks[p] = now]
      <3>1. Kept(p)
        BY <1>5, <1>6, <2>2 DEF AsksOK, DeliveredOK
      <3>2. Kept(p)'
        BY <1>8, <3>1, KeptStays
      <3>3. q # p => store'.asks[q] = store.asks[q]
        BY <2>2 DEF SafariInv, PagesOK
      <3>4. QED
        BY <1>9, <3>2, <3>3
    <2>3. QED
      BY <1>4, <2>1, <2>2
  <1>10. QED
    BY <1>1, <1>7, <1>8, <1>9, RemovesStay, DeliveredStays, RememberedStays DEF AsksOK

LEMMA UnloadAsks ==
    ASSUME SafariInv, AsksOK, Unload
    PROVE  AsksOK'
  <1>1. UNCHANGED <<setting, server, group, writes, store>>
    BY DEF Unload
  <1>2. \A m \in Slot : mails'[m] # None => mails[m] # None /\ mails'[m] = Forgotten(mails[m])
    BY DEF Unload, Forgotten
  <1>3. ASSUME NEW m \in Slot, mails'[m] # None
        PROVE  mails[m] # None /\ mails[m].type = mails'[m].type /\ mails[m].arg = mails'[m].arg
               /\ mails[m].body = mails'[m].body
    <2>1. PICK old : old = mails[m] /\ MailOK(old)
      BY <1>2, <1>3 DEF SafariInv, MailsOK
    <2>2. PICK new : new = mails'[m]
      OBVIOUS
    <2>3. new = Forgotten(old)
      BY <1>2, <1>3, <2>1, <2>2
    <2>4. new.type = old.type /\ new.arg = old.arg /\ new.body = old.body
      BY <2>1, <2>3 DEF Forgotten, MailOK, MailRecord
    <2>5. QED
      BY <1>2, <1>3, <2>1, <2>2, <2>4
  <1>4. MailsGo
    BY <1>3 DEF MailsGo
  <1>5. QED
    BY <1>1, <1>4, QuietAsks, NoRemoves

LEMMA OtherAsks ==
    ASSUME DeviceInv, SafariInv, AsksOK, UNCHANGED <<setting, server, group, writes>>,
           UNCHANGED mails \/ \E f, new : mails' = [mails EXCEPT ![f] = new] /\ (new = None \/ new.body = None),
           UNCHANGED store \/ (\E s : store' = [store EXCEPT !.spent = s])
             \/ (\E s : store' = [store EXCEPT !.snap = s]) \/ (\E s : store' = [store EXCEPT !.provisioned = s])
    PROVE  AsksOK'
  <1>1. MailsGo
    BY SameMails, SentAsks DEF SafariInv
  <1>2. \A p \in Pages : store'.asks[p] = store.asks[p]
    BY DEF SafariInv, PagesOK
  <1>3. QED
    BY <1>1, <1>2, QuietAsks, NoRemoves

LEMMA TaskAsks ==
    ASSUME DeviceInv, SafariInv, AsksOK, NEW t \in Slot, TaskStep(t)
    PROVE  AsksOK'
  <1> USE DEF Inside, device
  <1>1. CASE ReadCache(t) \/ restoreCachedPolicy(t) \/ Provisioned(t)
    BY <1>1, OtherAsks DEF ReadCache, restoreCachedPolicy, Provisioned
  <1>2. CASE Synced(t)
    BY <1>2, OtherAsks DEF Synced
  <1>3. CASE Adopt(t)
    BY <1>3, OtherAsks DEF Adopt
  <1>4. CASE decide(t)
    <2>1. mails' = mails \/ \E f, id : mails' = [mails EXCEPT ![f] = Mail("SPEND_GRANT", id, None)]
      BY <1>4 DEF decide, Send
    <2>2. mails' = mails \/ \E f, new : mails' = [mails EXCEPT ![f] = new] /\ new.body = None
      BY <2>1, MailBlank
    <2>3. UNCHANGED store \/ \E s : store' = [store EXCEPT !.spent = s]
      BY <1>4 DEF decide
    <2>4. QED
      BY <1>4, <2>2, <2>3, OtherAsks DEF decide
  <1>5. CASE sendAccessRequest(t)
    <2>1. \E f, page : mails' = [mails EXCEPT ![f] = Mail("REQUEST_ACCESS", page, t)]
      BY <1>5 DEF sendAccessRequest, Send
    <2>a. PICK f, page : mails' = [mails EXCEPT ![f] = Mail("REQUEST_ACCESS", page, t)]
      BY <2>1
    <2>b. PICK new : new = Mail("REQUEST_ACCESS", page, t)
      OBVIOUS
    <2>2. mails' = [mails EXCEPT ![f] = new] /\ new.body = None
      BY <2>a, <2>b, MailBlank
    <2>3. QED
      BY <1>5, <2>2, OtherAsks DEF sendAccessRequest
  <1>6. CASE AskAnswered(t)
    BY <1>6, AskAnsweredAsks
  <1>7. QED
    BY <1>1, <1>2, <1>3, <1>4, <1>5, <1>6 DEF TaskStep

LEMMA syncAsks ==
    ASSUME DeviceInv, SafariInv, AsksOK, syncFromNative
    PROVE  AsksOK'
  <1>1. \E f, t : mails' = [mails EXCEPT ![f] = Mail("GET_POLICY", None, t)]
    BY DEF syncFromNative, Send
  <1>a. PICK f, t : mails' = [mails EXCEPT ![f] = Mail("GET_POLICY", None, t)]
    BY <1>1
  <1>b. PICK new : new = Mail("GET_POLICY", None, t)
    OBVIOUS
  <1>2. mails' = [mails EXCEPT ![f] = new] /\ new.body = None
    BY <1>a, <1>b, MailBlank
  <1>3. QED
    BY <1>2, OtherAsks DEF syncFromNative, Inside, device

LEMMA AsksStepKeeps == DeviceInv /\ SafariInv /\ AsksInv /\ [Next]_vars => AsksInv'
  <1> SUFFICES ASSUME DeviceInv, SafariInv, AsksInv, [Next]_vars, ~setting'.racing PROVE AsksOK'
    BY DEF AsksInv, AsksOK, RemovesOK, DeliveredOK, RememberedOK
  <1>1. UNCHANGED setting
    <2>1. CASE DeviceStep
      BY <2>1, DeviceSteps, CallShows, AppShows DEF Elsewhere, Puts, KillApp, signOutDevice, TokenDue, Edit,
            CallSeen, DeviceInv, SafariInv, AppOK
    <2>2. QED
      BY <2>1, SafariSteps DEF Elsewhere, Puts
  <1>2. AsksOK /\ ~setting.racing
    BY <1>1 DEF AsksInv, AsksOK, RemovesOK, DeliveredOK, RememberedOK
  <1>3. CASE UNCHANGED vars
    BY <1>2, <1>3, OtherAsks DEF vars, device, safari
  <1>4. CASE DeviceStep /\ UNCHANGED safari
    BY <1>2, <1>4, DeviceKeepsAsks
  <1>5. ASSUME NEW m \in Slot, beginRequest(m) PROVE AsksOK'
    BY <1>2, <1>5, beginRequestAsks
  <1>6. ASSUME NEW w \in writes, CommitMail(w) PROVE AsksOK'
    BY <1>2, <1>6, CommitMailAsks
  <1>7. CASE Wake \/ restoreSpent \/ AdoptStored \/ Deliveries
    BY <1>2, <1>7, OtherAsks DEF Wake, restoreSpent, AdoptStored, adoptSnapshotIfVerified, Deliveries, Deliver,
                                  DeliverAsk, Inside, device
  <1>8. CASE Unload \/ syncFromNative
    BY <1>2, <1>8, UnloadAsks, syncAsks
  <1>9. ASSUME NEW t \in Slot, TaskStep(t) PROVE AsksOK'
    BY <1>2, <1>9, TaskAsks
  <1>10. ASSUME NEW p \in Pages, Ask(p) \/ AskTimesOut(p) \/ renderAskedNote(p) \/ refreshFromSnapshot(p)
         PROVE  AsksOK'
    BY <1>2, <1>10, OtherAsks DEF Ask, AskTimesOut, renderAskedNote, refreshFromSnapshot, Inside, device
  <1>11. QED
    BY <1>3, <1>4, <1>5, <1>6, <1>7, <1>8, <1>9, <1>10 DEF Next

\* Unless two processes write at once, an ask that the block page remembers as asked
\* is in the queue, or the backend has it or has refused it, whatever fails, is
\* unloaded, times out or ends in between (postQueuedAccessRequests, requestAccess).
THEOREM NoAskIsLost == Spec => []AsksKept
  <1>1. Init => AsksInv
    BY DEF Init, DeviceInit, AsksInv
  <1>2. DeviceInv /\ SafariInv /\ AsksInv /\ [Next]_vars => AsksInv'
    BY AsksStepKeeps
  <1>3. AsksInv => AsksKept
    BY DEF AsksInv, AsksKept, Kept
  <1>4. QED
    BY <1>1, <1>2, <1>3, DeviceInvariant, SafariInvariant, PTL DEF Spec

-----------------------------------------------------------------------------
(* Single-use grants of a device until it is enrolled again. *)

Stages == setting.policies[1]

\* What the backend has left of the stage's grants.
Standing == {t \in Policy(1).temps : t.id \notin server.consumed[1]}

ActiveNow(S) == {t \in S : isActiveTemp(t, now)}

Born(id) == \E i \in 1 .. server.stage[1] : id \in Ids(Stages[i].temps)

\* The backend will not send it again; it has run out.
Dead(id) == Born(id) /\ id \notin Ids(ActiveNow(Standing))

Expired(id) == \A i \in DOMAIN Stages : \A t \in Stages[i].temps : t.id = id => ~isActiveTemp(t, now)

Bodies == {calls[k].body : k \in {k \in Call : calls[k] # None /\ calls[k].at \in {"check", "install"}}}

Known == Bodies \cup IF group.raw = None THEN {} ELSE {group.raw}

\* What is known of a snapshot by its version.
SignedOK(x) ==
    /\ x.version <= Version(1)
    /\ \E i \in 1 .. server.stage[1] : x.temps \subseteq Stages[i].temps
    /\ x.version = Version(1) => x.temps \subseteq Standing /\ ActiveNow(Standing) \subseteq x.temps

Carries(x, id) == id \in Ids(x.temps)

\* A grant that has gone from the policy does not come back.
NoReturn == \A x, y \in Known : x.version <= y.version =>
    \A id \in Ids(x.temps) \ Ids(y.temps) :
        /\ Dead(id)
        /\ \A z \in Known : y.version <= z.version /\ Carries(z, id) => Expired(id)

Out(id) == /\ Dead(id) /\ group.raw # None /\ ~Carries(group.raw, id)
           /\ \A x \in Bodies : x.version >= group.raw.version => ~Carries(x, id)

Spending(id) == \E w \in writes : w.by = None /\ w.op = "spend" /\ w.arg = id

\* A grant that has opened a page is out, or spent as long as the policy carries it.
UsedUp(id) == \/ Expired(id) \/ Out(id)
              \/ /\ group.raw # None /\ Carries(group.raw, id)
                 /\ Spending(id) \/ id \in group.spent

LetOK == \A id \in DOMAIN let : let[id] \in {0, 1} /\ (let[id] = 1 => UsedUp(id))

\* What a spend has read of the policy is still so.
LooksOK == \A w \in writes : w.op = "spend" =>
    w.live = IF State = "verified" THEN Ids(group.raw.temps) ELSE None

HistoryOK == (\A x \in Known : SignedOK(x)) /\ NoReturn

EnrolledOnce == server.enrolled <= 1

HistoryInv == EnrolledOnce => HistoryOK

SpendInv == EnrolledOnce /\ ~setting.racing /\ overlapped = {} => LetOK /\ LooksOK

-----------------------------------------------------------------------------
(* What a device can come to know until it is enrolled again. *)

\* A policy of the stage, and the grants of all of them.
LEMMA StageFacts ==
    ASSUME SettingOK
    PROVE  /\ 1 \in Devices /\ 1 \in DOMAIN setting.policies
           /\ Len(Stages) \in Nat /\ DOMAIN Stages = 1 .. Len(Stages)
           /\ \A i \in DOMAIN Stages : Stages[i] \in Contents(setting)
           /\ \A i \in DOMAIN Stages : \A t \in Stages[i].temps : t.until \in Int
  <1>1. 1 \in Devices /\ 1 \in DOMAIN setting.policies
    BY DEF SettingOK, Devices
  <1>2. Len(Stages) \in Nat /\ DOMAIN Stages = 1 .. Len(Stages)
    BY <1>1 DEF SettingOK, Stages
  <1>3. \A i \in DOMAIN Stages : Stages[i] \in Contents(setting)
    BY <1>1 DEF Stages, Contents, Range
  <1>4. ASSUME NEW i \in DOMAIN Stages, NEW t \in Stages[i].temps PROVE t.until \in Int
    <2>1. PICK S : S = {t}
      OBVIOUS
    <2>2. S \in SUBSET Stages[i].temps /\ t \in S
      BY <2>1
    <2>3. \A T \in SUBSET Stages[i].temps : \A u \in T : u.until \in Int
      BY <1>3, GrantAssumption DEF SettingOK
    <2>4. QED
      BY <2>2, <2>3
  <1>5. QED
    BY <1>1, <1>2, <1>3, <1>4

LEMMA StageNow ==
    ASSUME SettingOK, ServerOK
    PROVE  /\ server.stage[1] \in 1 .. Len(Stages) /\ server.stage[1] \in DOMAIN Stages
           /\ Policy(1) = Stages[server.stage[1]]
  BY StageFacts DEF ServerOK, Policy, Stages

\* A grant's id names one record, and the grant stays from its first stage to its last.
LEMMA GrantStays ==
    ASSUME SettingOK, NEW i \in DOMAIN Stages, NEW k \in DOMAIN Stages,
           NEW t \in Stages[i].temps, NEW u \in Stages[k].temps, t.id = u.id
    PROVE  t = u /\ \A j \in i .. k : t \in Stages[j].temps
  <1>1. 1 \in DOMAIN setting.policies
    BY StageFacts
  <1>2. QED
    BY <1>1, GrantAssumption DEF SettingOK, Stages

LEMMA ActiveFacts ==
    ASSUME NEW S, NEW id
    PROVE  id \in Ids(ActiveNow(S)) <=> \E t \in S : t.id = id /\ isActiveTemp(t, now)
  BY DEF Ids, ActiveNow

\* A grant of a stage that runs no more has expired, whatever the stage.
LEMMA ExpiredBy ==
    ASSUME SettingOK, NEW i \in DOMAIN Stages, NEW t \in Stages[i].temps, ~isActiveTemp(t, now)
    PROVE  Expired(t.id)
  <1>1. ASSUME NEW k \in DOMAIN Stages, NEW u \in Stages[k].temps, u.id = t.id PROVE ~isActiveTemp(u, now)
    <2>1. u = t
      BY <1>1, GrantStays
    <2>2. QED
      BY <2>1
  <1>2. QED
    BY <1>1 DEF Expired

\* What the backend signs now.
LEMMA SnapshotNow ==
    ASSUME SettingOK, ServerOK
    PROVE  /\ Snapshot(1).version = Version(1) /\ Snapshot(1).temps = ActiveNow(Standing)
           /\ SignedOK(Snapshot(1))
  <1>1. Snapshot(1).version = Version(1) /\ Snapshot(1).temps = ActiveNow(Standing)
    <2>1. {t \in Policy(1).temps : isActiveTemp(t, now) /\ t.id \notin server.consumed[1]} = ActiveNow(Standing)
      BY DEF ActiveNow, Standing
    <2>2. QED
      BY <2>1 DEF Snapshot
  <1>2. ActiveNow(Standing) \subseteq Standing /\ Standing \subseteq Stages[server.stage[1]].temps
    BY StageNow DEF ActiveNow, Standing
  <1>3. server.stage[1] \in 1 .. server.stage[1] /\ Version(1) \in Nat
    BY StageNow, StageFacts, VersionType
  <1>4. QED
    BY <1>1, <1>2, <1>3 DEF SignedOK

\* A dead grant stays dead, an expired one expired, what was known signed.
HistoryStays == /\ \A id : (Dead(id) => Dead(id)') /\ (Expired(id) => Expired(id)')
                /\ \A x \in SnapshotsOf(setting) : SignedOK(x) => SignedOK(x)'

ServerSame == server'.stage[1] = server.stage[1] /\ server'.consumed[1] = server.consumed[1]

LEMMA StillHistory ==
    ASSUME UNCHANGED <<setting, now>>, ServerSame
    PROVE  HistoryStays
  <1>1. UNCHANGED <<Stages, Standing, Version(1), ActiveNow(Standing)>>
    BY DEF ServerSame, Stages, Standing, Version, Policy, ActiveNow
  <1>2. QED
    BY <1>1 DEF ServerSame, HistoryStays, Dead, Born, Expired, SignedOK

LEMMA TickHistory ==
    ASSUME SettingOK, ServerOK, now \in Nat, UNCHANGED <<setting, server>>, now' = now + 1
    PROVE  HistoryStays
  <1>1. UNCHANGED <<Stages, Standing, Version(1)>>
    BY DEF Stages, Standing, Version, Policy
  <1>2. ASSUME NEW i \in DOMAIN Stages, NEW t \in Stages[i].temps, isActiveTemp(t, now')
        PROVE  isActiveTemp(t, now)
    <2>1. t.until \in Int
      BY StageFacts
    <2>2. QED
      BY <1>2, <2>1 DEF isActiveTemp
  <1>3. Standing \subseteq Stages[server.stage[1]].temps /\ server.stage[1] \in DOMAIN Stages
    BY StageNow DEF Standing
  <1>4. ActiveNow(Standing)' \subseteq ActiveNow(Standing)
    BY <1>1, <1>2, <1>3 DEF ActiveNow
  <1>5. ASSUME NEW id, Dead(id) PROVE Dead(id)'
    BY <1>1, <1>4, <1>5 DEF Dead, Born, Ids
  <1>6. ASSUME NEW id, Expired(id) PROVE Expired(id)'
    BY <1>1, <1>2, <1>6 DEF Expired
  <1>7. ASSUME NEW x, SignedOK(x) PROVE SignedOK(x)'
    BY <1>1, <1>4, <1>7 DEF SignedOK
  <1>8. QED
    BY <1>5, <1>6, <1>7 DEF HistoryStays

LEMMA ConsumeHistory ==
    ASSUME SettingOK, ServerOK, NEW id, id \notin server.consumed[1], server' = Consumed(1, id),
           UNCHANGED <<setting, now>>
    PROVE  HistoryStays
  <1>1. /\ server'.stage = server.stage
        /\ server'.consumed = [server.consumed EXCEPT ![1] = @ \cup {id}]
    BY DEF Consumed, ServerOK
  <1>2. server'.consumed[1] = server.consumed[1] \cup {id}
    BY <1>1, StageFacts DEF ServerOK
  <1>3. Cardinality(server'.consumed[1]) = Cardinality(server.consumed[1]) + 1
    BY <1>2, StageFacts, FS_AddElement DEF ServerOK
  <1>4. Version(1)' = Version(1) + 1 /\ Version(1) \in Nat
    <2>1. PICK n, s : n = Cardinality(server.consumed[1]) /\ s = server.stage[1]
      OBVIOUS
    <2>2. n \in Nat /\ s \in Nat
      BY <2>1, StageFacts, StageNow, FS_CardinalityType DEF ServerOK
    <2>3. Version(1) = s + n /\ Version(1)' = s + (n + 1)
      BY <1>1, <1>3, <2>1 DEF Version
    <2>4. QED
      BY <2>2, <2>3
  <1>5. UNCHANGED <<Stages, Policy(1)>> /\ Standing' \subseteq Standing
    BY <1>1, <1>2 DEF Stages, Policy, Standing
  <1>6. ActiveNow(Standing)' \subseteq ActiveNow(Standing)
    BY <1>5 DEF ActiveNow
  <1>7. ASSUME NEW i, Dead(i) PROVE Dead(i)'
    BY <1>1, <1>5, <1>6, <1>7 DEF Dead, Born, Ids
  <1>8. ASSUME NEW i, Expired(i) PROVE Expired(i)'
    BY <1>5, <1>8 DEF Expired
  <1>9. ASSUME NEW x \in SnapshotsOf(setting), SignedOK(x) PROVE SignedOK(x)'
    <2>1. x.version \in Nat
      BY DEF SnapshotsOf
    <2>2. x.version <= Version(1)' /\ x.version # Version(1)'
      BY <1>4, <1>9, <2>1 DEF SignedOK
    <2>3. QED
      BY <1>1, <1>5, <1>9, <2>2 DEF SignedOK
  <1>10. QED
    BY <1>7, <1>8, <1>9 DEF HistoryStays

LEMMA EditHistory ==
    ASSUME SettingOK, ServerOK, Edit(1)
    PROVE  HistoryStays
  <1>1. /\ server'.stage = [server.stage EXCEPT ![1] = @ + 1] /\ server'.consumed = server.consumed
        /\ server.stage[1] < Len(Stages) /\ UNCHANGED <<setting, now>>
    BY DEF Edit, ServerOK, Stages
  <1>2. server'.stage[1] = server.stage[1] + 1
    BY <1>1, StageFacts DEF ServerOK
  <1>3. PICK s : s = server.stage[1] /\ s \in 1 .. Len(Stages) /\ s < Len(Stages) /\ s + 1 \in DOMAIN Stages
    BY <1>1, StageFacts, StageNow
  <1>4. UNCHANGED Stages /\ Policy(1) = Stages[s] /\ Policy(1)' = Stages[s + 1]
    BY <1>1, <1>2, <1>3 DEF Stages, Policy
  <1>5. Version(1)' = Version(1) + 1 /\ Version(1) \in Nat
    <2>1. PICK n : n = Cardinality(server.consumed[1])
      OBVIOUS
    <2>2. n \in Nat
      BY <2>1, StageFacts, FS_CardinalityType DEF ServerOK
    <2>3. Version(1) = s + n /\ Version(1)' = (s + 1) + n
      BY <1>1, <1>2, <1>3, <2>1 DEF Version
    <2>4. QED
      BY <1>3, <2>2, <2>3
  <1>6. ASSUME NEW id, Born(id) PROVE Born(id)'
    BY <1>2, <1>3, <1>4, <1>6 DEF Born
  <1>7. ASSUME NEW id, Dead(id), id \in Ids(ActiveNow(Standing))' PROVE FALSE
    <2>1. PICK t \in Stages[s + 1].temps : t.id = id /\ isActiveTemp(t, now) /\ t.id \notin server.consumed[1]
      BY <1>1, <1>4, <1>7 DEF Ids, ActiveNow, Standing
    <2>2. PICK i \in 1 .. s : id \in Ids(Stages[i].temps)
      BY <1>3, <1>7 DEF Dead, Born
    <2>3. PICK u \in Stages[i].temps : u.id = id
      BY <2>2 DEF Ids
    <2>4. i \in DOMAIN Stages /\ s \in i .. s + 1
      BY <1>3, StageFacts
    <2>5. u = t /\ u \in Stages[s].temps
      BY <1>3, <2>1, <2>3, <2>4, GrantStays
    <2>6. id \in Ids(ActiveNow(Standing))
      BY <1>4, <2>1, <2>5 DEF Ids, ActiveNow, Standing
    <2>7. QED
      BY <1>7, <2>6 DEF Dead
  <1>8. ASSUME NEW id, Dead(id) PROVE Dead(id)'
    BY <1>6, <1>7, <1>8 DEF Dead
  <1>9. ASSUME NEW id, Expired(id) PROVE Expired(id)'
    BY <1>1, <1>4, <1>9 DEF Expired
  <1>10. ASSUME NEW x \in SnapshotsOf(setting), SignedOK(x) PROVE SignedOK(x)'
    <2>1. x.version \in Nat
      BY DEF SnapshotsOf
    <2>2. x.version <= Version(1)' /\ x.version # Version(1)'
      BY <1>5, <1>10, <2>1 DEF SignedOK
    <2>3. PICK i \in 1 .. s : x.temps \subseteq Stages[i].temps
      BY <1>3, <1>10 DEF SignedOK
    <2>4. i \in 1 .. server'.stage[1]
      BY <1>2, <1>3
    <2>5. QED
      BY <1>4, <2>2, <2>3, <2>4 DEF SignedOK
  <1>11. QED
    BY <1>8, <1>9, <1>10 DEF HistoryStays

\* What is known is of the type.
LEMMA KnownType ==
    ASSUME GroupOK, CallsOK
    PROVE  Known \subseteq SnapshotsOf(setting)
  BY DEF Known, Bodies, GroupOK, CallsOK, CallOK

LEMMA LessKnown ==
    ASSUME GroupOK, CallsOK, HistoryOK, HistoryStays, UNCHANGED setting, Known' \subseteq Known
    PROVE  HistoryOK'
  <1>1. \A x \in Known' : SignedOK(x)'
    BY KnownType DEF HistoryOK, HistoryStays
  <1>2. NoReturn'
    BY DEF HistoryOK, NoReturn, HistoryStays, Carries, Ids
  <1>3. QED
    BY <1>1, <1>2 DEF HistoryOK

\* The backend's snapshot is known now: nothing of what is dead comes with it.
LEMMA MoreKnown ==
    ASSUME SettingOK, ServerOK, GroupOK, CallsOK, HistoryOK, UNCHANGED <<setting, now>>,
           ServerSame, Known' \subseteq Known \cup {Snapshot(1)}
    PROVE  HistoryOK'
  <1>1. PICK s : s = Snapshot(1)
    OBVIOUS
  <1>2. s.version = Version(1) /\ s.temps = ActiveNow(Standing) /\ SignedOK(s) /\ s \in SnapshotsOf(setting)
    BY <1>1, SnapshotNow, SnapshotType, StageFacts
  <1>3. PICK K : K = Known \cup {s}
    OBVIOUS
  <1>4. \A x \in K : SignedOK(x) /\ x \in SnapshotsOf(setting)
    BY <1>2, <1>3, KnownType DEF HistoryOK
  <1>5. Version(1) \in Nat /\ \A x \in K : x.version \in Nat /\ x.version <= Version(1)
    BY <1>4, VersionType, StageFacts DEF SignedOK, SnapshotsOf
  <1>6. \A id : Dead(id) => ~Carries(s, id)
    BY <1>2 DEF Dead, Carries
  <1>7. ASSUME NEW x \in K, NEW y \in K, x.version <= y.version, NEW id \in Ids(x.temps) \ Ids(y.temps)
        PROVE  Dead(id) /\ \A z \in K : y.version <= z.version /\ Carries(z, id) => Expired(id)
    <2>1. CASE y = s
      <3>1. Dead(id)
        <4>1. PICK i \in 1 .. server.stage[1] : x.temps \subseteq Stages[i].temps
          BY <1>4 DEF SignedOK
        <4>2. Born(id)
          BY <1>7, <4>1 DEF Born, Ids
        <4>3. QED
          BY <1>2, <1>7, <2>1, <4>2 DEF Dead
      <3>2. ASSUME NEW z \in K, y.version <= z.version, Carries(z, id) PROVE Expired(id)
        <4>1. z.version = Version(1)
          BY <1>2, <1>5, <2>1, <3>2
        <4>2. z.temps \subseteq Standing
          BY <1>4, <4>1 DEF SignedOK
        <4>3. PICK t \in Standing : t.id = id
          BY <3>2, <4>2 DEF Carries, Ids
        <4>4. ~isActiveTemp(t, now)
          BY <3>1, <4>3, ActiveFacts DEF Dead
        <4>5. t \in Stages[server.stage[1]].temps /\ server.stage[1] \in DOMAIN Stages
          BY <4>3, StageNow DEF Standing
        <4>6. QED
          BY <4>3, <4>4, <4>5, ExpiredBy
      <3>3. QED
        BY <3>1, <3>2
    <2>2. CASE y # s /\ x = s
      <3>1. y.version = Version(1)
        BY <1>2, <1>5, <1>7, <2>2
      <3>2. ActiveNow(Standing) \subseteq y.temps
        BY <1>4, <3>1 DEF SignedOK
      <3>3. QED
        BY <1>2, <1>7, <2>2, <3>2 DEF Ids
    <2>3. CASE y # s /\ x # s
      <3>1. x \in Known /\ y \in Known
        BY <1>3, <2>3
      <3>2. Dead(id) /\ \A z \in Known : y.version <= z.version /\ Carries(z, id) => Expired(id)
        BY <1>7, <3>1 DEF HistoryOK, NoReturn
      <3>3. QED
        BY <1>3, <1>6, <3>2
    <2>4. QED
      BY <2>1, <2>2, <2>3
  <1>8. HistoryStays
    BY StillHistory
  <1>9. Known' \subseteq K
    BY <1>1, <1>3
  <1>10. \A x \in Known' : SignedOK(x)'
    BY <1>4, <1>8, <1>9 DEF HistoryStays
  <1>11. NoReturn'
    BY <1>7, <1>8, <1>9 DEF NoReturn, HistoryStays, Carries, Ids
  <1>12. QED
    BY <1>10, <1>11 DEF HistoryOK

-----------------------------------------------------------------------------
(* No device is named before it is enrolled. *)

CallNames == {calls[k].device : k \in {k \in Call : calls[k] # None}}

Named == {keychain.device} \cup CallNames

NamedOK == Named \subseteq 1 .. server.enrolled \cup {None}

LEMMA TheOne ==
    ASSUME ServerOK, EnrolledOnce, NamedOK
    PROVE  \A d \in Named : d # None => d = 1
  BY DEF ServerOK, EnrolledOnce, NamedOK

\* A call names nobody new.
NoNewName == CallNames' \subseteq Named \cup {None}

LEMMA HeldName ==
    ASSUME CallsOK, NEW k \in Call, calls[k] # None
    PROVE  DOMAIN calls[k] = CallFields /\ calls[k].device \in Named
  BY HeldFields DEF Named, CallNames

LEMMA ReplacedName ==
    ASSUME CallsOK, NEW k \in Call, NEW new, calls' = [calls EXCEPT ![k] = new],
           new = None \/ new.device \in Named \cup {None}
    PROVE  NoNewName
  <1>1. ASSUME NEW j \in Call, calls'[j] # None PROVE calls'[j].device \in Named \cup {None}
    <2>1. CASE j = k
      BY <1>1, <2>1, Replaced
    <2>2. CASE j # k
      BY <1>1, <2>2, Replaced, HeldName
    <2>3. QED
      BY <2>1, <2>2
  <1>2. QED
    BY <1>1 DEF NoNewName, CallNames

LEMMA GoNames ==
    ASSUME CallsOK, NEW k \in Call, NEW c, DOMAIN c = CallFields, c.device \in Named \cup {None}, NEW step,
           Go(k, c, step)
    PROVE  NoNewName
  <1> DEFINE new == [c EXCEPT !.at = step]
  <1>1. new.device = c.device
    BY DEF CallFields
  <1> HIDE DEF new
  <1>2. calls' = [calls EXCEPT ![k] = new]
    BY DEF Go, new
  <1>3. QED
    BY <1>1, <1>2, ReplacedName

LEMMA SameName ==
    ASSUME CallsOK, NEW k \in Call, calls[k] # None, NEW c, DOMAIN c = DOMAIN calls[k],
           c.device \in {calls[k].device, keychain.device, None}, NEW step, Go(k, c, step)
    PROVE  NoNewName
  BY HeldName, GoNames DEF Named

LEMMA OverNames ==
    ASSUME CallsOK, NEW k \in Call, Over(k)
    PROVE  NoNewName
  BY ReplacedName DEF Over

LEMMA FailedNames ==
    ASSUME CallsOK, NEW k \in Call, calls[k] # None, Failed(k) \/ Fail(k) \/ NextRound(k, FALSE)
    PROVE  NoNewName
  <1> DEFINE c == [calls[k] EXCEPT !.rounds = @ + 1, !.body = None, !.since = None, !.device = None]
  <1>1. DOMAIN c = CallFields /\ c.device = None
    BY HeldFields DEF CallFields
  <1> HIDE DEF c
  <1>2. Over(k) \/ Go(k, c, "renew")
    BY DEF Failed, Fail, NextRound, c
  <1>3. QED
    BY <1>1, <1>2, GoNames, OverNames

LEMMA BeginNames ==
    ASSUME CallsOK, NEW k \in Call, NEW fn, NEW step, NEW target, Begin(k, fn, step, target)
    PROVE  NoNewName
  <1> DEFINE new == [Blank EXCEPT !.fn = fn, !.at = step, !.target = target]
  <1>1. new.device = None
    BY DEF Blank
  <1> HIDE DEF new
  <1>2. calls' = [calls EXCEPT ![k] = new]
    BY DEF Begin, new
  <1>3. QED
    BY <1>1, <1>2, ReplacedName

LEMMA CallStepsName ==
    ASSUME CallsOK, NEW k \in Call, CallStep(k)
    PROVE  NoNewName
  <1>1. CASE Redeemed(k)
    <2>1. PICK c : c = [calls[k] EXCEPT !.fn = "sync"]
      OBVIOUS
    <2>2. calls[k] # None
      BY <1>1 DEF Redeemed, At
    <2>3. DOMAIN c = DOMAIN calls[k] /\ c.device = calls[k].device
      BY <2>1, <2>2, HeldFields DEF CallFields
    <2>4. Go(k, c, "renew") \/ Fail(k)
      BY <1>1, <2>1 DEF Redeemed
    <2>5. QED
      BY <2>2, <2>3, <2>4, SameName, FailedNames
  <1>2. CASE Renew(k)
    <2>1. PICK c : c = [calls[k] EXCEPT !.device = keychain.device]
      OBVIOUS
    <2>2. calls[k] # None
      BY <1>2 DEF Renew, At
    <2>3. DOMAIN c = DOMAIN calls[k] /\ c.device = keychain.device
      BY <2>1, <2>2, HeldFields DEF CallFields
    <2>4. Go(k, c, "renewing") \/ Go(k, calls[k], "get")
      BY <1>2, <2>1 DEF Renew
    <2>5. QED
      BY <2>2, <2>3, <2>4, SameName
  <1>3. CASE Get(k)
    <2>1. PICK c : c = [calls[k] EXCEPT !.device = keychain.device, !.since = VersionHeld]
      OBVIOUS
    <2>2. calls[k] # None
      BY <1>3 DEF Get, At
    <2>3. DOMAIN c = DOMAIN calls[k] /\ c.device = keychain.device
      BY <2>1, <2>2, HeldFields DEF CallFields
    <2>4. Failed(k) \/ Go(k, c, "getting")
      BY <1>3, <2>1 DEF Get
    <2>5. QED
      BY <2>2, <2>3, <2>4, SameName, FailedNames
  <1>4. CASE Got(k)
    <2>1. PICK c : c = [calls[k] EXCEPT !.body = Snapshot(calls[k].device)]
      OBVIOUS
    <2>2. calls[k] # None
      BY <1>4 DEF Got, At
    <2>3. DOMAIN c = DOMAIN calls[k] /\ c.device = calls[k].device
      BY <2>1, <2>2, HeldFields DEF CallFields
    <2>4. Go(k, c, "check") \/ Go(k, calls[k], "report") \/ NextRound(k, FALSE) \/ Failed(k)
      BY <1>4, <2>1 DEF Got
    <2>5. QED
      BY <2>2, <2>3, <2>4, SameName, FailedNames
  <1>5. CASE CheckInstall(k)
    <2>1. PICK c : c = [calls[k] EXCEPT !.high = group.high]
      OBVIOUS
    <2>2. calls[k] # None
      BY <1>5 DEF CheckInstall, At
    <2>3. DOMAIN c = DOMAIN calls[k] /\ c.device = calls[k].device
      BY <2>1, <2>2, HeldFields DEF CallFields
    <2>4. Go(k, c, "install") \/ Failed(k)
      BY <1>5, <2>1 DEF CheckInstall
    <2>5. QED
      BY <2>2, <2>3, <2>4, SameName, FailedNames
  <1>6. CASE Install(k)
    <2>1. PICK c : c = [calls[k] EXCEPT !.body = None, !.high = 0]
      OBVIOUS
    <2>2. calls[k] # None
      BY <1>6 DEF Install, At
    <2>3. DOMAIN c = DOMAIN calls[k] /\ c.device = calls[k].device
      BY <2>1, <2>2, HeldFields DEF CallFields
    <2>4. Go(k, c, "answers") \/ Go(k, c, "report")
      BY <1>6, <2>1 DEF Install
    <2>5. QED
      BY <2>2, <2>3, <2>4, SameName
  <1>7. CASE Reports(k)
    <2>1. PICK c : c = [calls[k] EXCEPT !.rest = SetToSeq(group.spent \ group.reported)]
      OBVIOUS
    <2>2. calls[k] # None
      BY <1>7 DEF Reports, At
    <2>3. DOMAIN c = DOMAIN calls[k] /\ c.device = calls[k].device
      BY <2>1, <2>2, HeldFields DEF CallFields
    <2>4. Go(k, c, "reporting")
      BY <1>7, <2>1 DEF Reports
    <2>5. QED
      BY <2>2, <2>3, <2>4, SameName
  <1>8. CASE Reported(k)
    <2>1. PICK c : c = [calls[k] EXCEPT !.rest = <<>>]
      OBVIOUS
    <2>2. calls[k] # None
      BY <1>8 DEF Reported, At
    <2>3. DOMAIN c = DOMAIN calls[k] /\ c.device = calls[k].device
      BY <2>1, <2>2, HeldFields DEF CallFields
    <2>4. Go(k, calls[k], "marking") \/ Go(k, c, "post")
      BY <1>8, <2>1 DEF Reported
    <2>5. QED
      BY <2>2, <2>3, <2>4, SameName
  <1>9. CASE Posts(k)
    <2>1. PICK c : c = [calls[k] EXCEPT !.rest = group.queue]
      OBVIOUS
    <2>2. calls[k] # None
      BY <1>9 DEF Posts, At
    <2>3. DOMAIN c = DOMAIN calls[k] /\ c.device = calls[k].device
      BY <2>1, <2>2, HeldFields DEF CallFields
    <2>4. Go(k, c, "posting")
      BY <1>9, <2>1 DEF Posts
    <2>5. QED
      BY <2>2, <2>3, <2>4, SameName
  <1>10. CASE WriteDone(k)
    <2>1. PICK c : c = [calls[k] EXCEPT !.rest = Tail(@)]
      OBVIOUS
    <2>2. calls[k] # None
      BY <1>10 DEF WriteDone
    <2>3. DOMAIN c = DOMAIN calls[k] /\ c.device = calls[k].device
      BY <2>1, <2>2, HeldFields DEF CallFields
    <2>4. Go(k, c, "reporting") \/ Go(k, c, "posting")
      BY <1>10, <2>1 DEF WriteDone
    <2>5. QED
      BY <2>2, <2>3, <2>4, SameName
  <1>11. CASE Filed(k) \/ Renewed(k) \/ PostedNext(k) \/ Decided(k)
    <2>1. calls[k] # None /\ (Over(k) \/ \E step : Go(k, calls[k], step))
      BY <1>11 DEF Filed, Renewed, PostedNext, Decided, At
    <2>2. QED
      BY <2>1, SameName, OverNames
  <1>12. QED
    BY <1>1, <1>2, <1>3, <1>4, <1>5, <1>6, <1>7, <1>8, <1>9, <1>10, <1>11 DEF CallStep

LEMMA CallsName ==
    ASSUME CallsOK, NEW k \in Call, AppStep(k) \/ CallStep(k)
    PROVE  NoNewName
  <1>1. CASE Enroll(k) \/ SyncTapped(k)
    BY <1>1, BeginNames DEF Enroll, SyncTapped
  <1>2. ASSUME NEW t \in setting.links, handleIncoming(k, t) PROVE NoNewName
    BY <1>2, BeginNames DEF handleIncoming
  <1>3. CASE CallStep(k)
    BY <1>3, CallStepsName
  <1>4. QED
    BY <1>1, <1>2, <1>3 DEF AppStep

\* Nobody new, or the device that is enrolled now.
Naming ==
    \/ keychain'.device \in Named \cup {None} /\ server'.enrolled = server.enrolled
    \/ keychain'.device = server'.enrolled /\ server'.enrolled = server.enrolled + 1

LEMMA CallNaming ==
    ASSUME ServerOK, CallsOK, NEW k \in Call, AppStep(k) \/ CallStep(k)
    PROVE  Naming
  <1>1. keychain.device \in Named
    BY DEF Named
  <1>2. CASE AppStep(k)
    BY <1>1, <1>2 DEF AppStep, Enroll, SyncTapped, handleIncoming, Naming
  <1>3. CASE Redeemed(k)
    <2>1. CASE server' = [server EXCEPT !.enrolled = @ + 1] /\ keychain' = [device |-> server.enrolled + 1, due |-> FALSE]
      BY <2>1 DEF ServerOK, Naming
    <2>2. CASE UNCHANGED <<server, keychain>>
      BY <1>1, <2>2 DEF Naming
    <2>3. QED
      BY <1>3, <2>1, <2>2 DEF Redeemed
  <1>4. CASE Renewed(k)
    <2>1. calls[k].device \in Named /\ UNCHANGED server
      BY <1>4, HeldName DEF Renewed, At
    <2>2. keychain' = [device |-> calls[k].device, due |-> FALSE] \/ UNCHANGED keychain
      BY <1>4 DEF Renewed
    <2>3. QED
      BY <1>1, <2>1, <2>2 DEF Naming
  <1>5. CASE Filed(k) \/ PostedNext(k)
    <2>1. UNCHANGED keychain
      BY <1>5 DEF Filed, PostedNext
    <2>2. PICK t, u : t = calls[k].target /\ u = Head(calls[k].rest)
      OBVIOUS
    <2>3. server' \in {server, Posted(t), Posted(u), [server EXCEPT !.refused = @ \cup {u}],
                       [server EXCEPT !.posted = @ \cup {t}]}
      BY <1>5, <2>2 DEF Filed, PostedNext
    <2>4. server'.enrolled = server.enrolled
      BY <2>3 DEF Posted, ServerOK
    <2>5. QED
      BY <1>1, <2>1, <2>4 DEF Naming
  <1>6. CASE Reported(k)
    <2>1. UNCHANGED keychain
      BY <1>6 DEF Reported
    <2>2. PICK d, id : d = calls[k].device /\ id = Head(calls[k].rest)
      OBVIOUS
    <2>3. server' \in {server, Consumed(d, id)}
      BY <1>6, <2>2 DEF Reported
    <2>4. server'.enrolled = server.enrolled
      BY <2>3 DEF Consumed, ServerOK
    <2>5. QED
      BY <1>1, <2>1, <2>4 DEF Naming
  <1>7. CASE \/ Renew(k) \/ Get(k) \/ Got(k) \/ CheckInstall(k) \/ Install(k) \/ Reports(k)
             \/ Posts(k) \/ WriteDone(k) \/ Decided(k)
    <2>1. UNCHANGED <<server, keychain>>
      BY <1>7 DEF Renew, Get, Got, CheckInstall, Install, Reports, Posts, WriteDone, Decided
    <2>2. QED
      BY <1>1, <2>1 DEF Naming
  <1>8. QED
    BY <1>2, <1>3, <1>4, <1>5, <1>6, <1>7 DEF CallStep

\* Every step, by whom it names.
LEMMA StepNames ==
    ASSUME DeviceInv, [Next]_vars
    PROVE  Naming /\ NoNewName
  <1> USE DEF DeviceInv
  <1>1. keychain.device \in Named /\ CallNames \subseteq Named
    BY DEF Named
  <1>2. CASE Elsewhere \/ Puts \/ \E d \in 1 .. server.enrolled : Edit(d)
    <2>1. UNCHANGED <<keychain, calls>>
      BY <1>2 DEF Elsewhere, Puts, Edit
    <2>2. server'.enrolled = server.enrolled
      BY <1>2 DEF Elsewhere, Puts, Edit, ServerOK
    <2>3. QED
      BY <1>1, <2>1, <2>2 DEF Naming, NoNewName, CallNames
  <1>3. CASE KillApp
    BY <1>1, <1>3 DEF KillApp, Naming, NoNewName, CallNames
  <1>4. CASE signOutDevice \/ TokenDue
    <2>1. keychain'.device \in {keychain.device, None} /\ UNCHANGED <<server, calls>>
      BY <1>4 DEF signOutDevice, TokenDue, KeysOK
    <2>2. QED
      BY <1>1, <2>1 DEF Naming, NoNewName, CallNames
  <1>5. ASSUME NEW k \in Call, AppStep(k) \/ CallStep(k) PROVE Naming /\ NoNewName
    BY <1>5, CallsName, CallNaming
  <1>6. QED
    BY <1>2, <1>3, <1>4, <1>5, SafariSteps, DeviceSteps

LEMMA NamedStepKeeps == DeviceInv /\ NamedOK /\ [Next]_vars => NamedOK'
  <1> SUFFICES ASSUME DeviceInv, NamedOK, [Next]_vars PROVE NamedOK'
    OBVIOUS
  <1>1. server.enrolled \in Nat
    BY DEF DeviceInv, ServerOK
  <1>2. Naming /\ NoNewName
    BY StepNames
  <1>3. server'.enrolled \in {server.enrolled, server.enrolled + 1}
    BY <1>2 DEF Naming
  <1>4. 1 .. server.enrolled \subseteq 1 .. server'.enrolled
    BY <1>1, <1>3
  <1>5. Named \cup {None} \subseteq 1 .. server'.enrolled \cup {None}
    BY <1>4 DEF NamedOK
  <1>6. keychain'.device \in 1 .. server'.enrolled \cup {None}
    <2>1. CASE keychain'.device \in Named \cup {None}
      BY <1>5, <2>1
    <2>2. CASE keychain'.device = server'.enrolled /\ server'.enrolled = server.enrolled + 1
      BY <1>1, <2>2
    <2>3. QED
      BY <1>2, <2>1, <2>2 DEF Naming
  <1>7. QED
    BY <1>2, <1>5, <1>6 DEF NoNewName, NamedOK, Named

LEMMA NamedInitHolds == Init => NamedOK
  <1> SUFFICES ASSUME Init PROVE NamedOK
    OBVIOUS
  <1>1. CallNames = {}
    BY DEF CallNames, Init, DeviceInit
  <1>2. CASE setting.fresh
    BY <1>1, <1>2 DEF NamedOK, Named, Init, DeviceInit
  <1>3. CASE ~setting.fresh
    BY <1>1, <1>3 DEF NamedOK, Named, Init, DeviceInit, NewServer
  <1>4. QED
    BY <1>2, <1>3

LEMMA NamedInvariant == Spec => []NamedOK
  <1>1. QED
    BY NamedInitHolds, NamedStepKeeps, DeviceInvariant, PTL DEF Spec

LEMMA OnceBefore ==
    ASSUME DeviceInv, [Next]_vars, EnrolledOnce'
    PROVE  EnrolledOnce
  <1>1. server.enrolled \in Nat /\ server'.enrolled \in {server.enrolled, server.enrolled + 1}
    BY StepNames DEF Naming, DeviceInv, ServerOK
  <1>2. QED
    BY <1>1 DEF EnrolledOnce

-----------------------------------------------------------------------------
(* What a step leaves known. *)

LEMMA ReplacedBodies ==
    ASSUME CallsOK, NEW k \in Call, NEW new, calls' = [calls EXCEPT ![k] = new]
    PROVE  /\ new = None \/ new.at \notin {"check", "install"} => Bodies' \subseteq Bodies
           /\ Bodies' \subseteq Bodies \cup {new.body}
  BY Replaced DEF Bodies

LEMMA GoBodies ==
    ASSUME CallsOK, NEW k \in Call, NEW c, DOMAIN c = CallFields,
           NEW step, step \notin {"check", "install"}, Go(k, c, step)
    PROVE  Bodies' \subseteq Bodies
  <1> DEFINE new == [c EXCEPT !.at = step]
  <1>1. new.at = step
    BY DEF CallFields
  <1> HIDE DEF new
  <1>2. calls' = [calls EXCEPT ![k] = new]
    BY DEF Go, new
  <1>3. QED
    BY <1>1, <1>2, ReplacedBodies

LEMMA OverBodies ==
    ASSUME CallsOK, NEW k \in Call, Over(k)
    PROVE  Bodies' \subseteq Bodies
  BY ReplacedBodies DEF Over

LEMMA FailedBodies ==
    ASSUME CallsOK, NEW k \in Call, calls[k] # None, Failed(k) \/ Fail(k) \/ NextRound(k, FALSE)
    PROVE  Bodies' \subseteq Bodies
  <1> DEFINE c == [calls[k] EXCEPT !.rounds = @ + 1, !.body = None, !.since = None, !.device = None]
  <1>1. DOMAIN c = CallFields
    BY HeldFields DEF CallFields
  <1> HIDE DEF c
  <1>2. Over(k) \/ Go(k, c, "renew")
    BY DEF Failed, Fail, NextRound, c
  <1>3. QED
    BY <1>1, <1>2, GoBodies, OverBodies

LEMMA BeginBodies ==
    ASSUME CallsOK, NEW k \in Call, NEW fn, NEW step \in {"redeem", "renew", "file"}, NEW target,
           Begin(k, fn, step, target)
    PROVE  Bodies' \subseteq Bodies
  <1> DEFINE new == [Blank EXCEPT !.fn = fn, !.at = step, !.target = target]
  <1>1. new.at = step
    BY DEF Blank
  <1> HIDE DEF new
  <1>2. calls' = [calls EXCEPT ![k] = new]
    BY DEF Begin, new
  <1>3. QED
    BY <1>1, <1>2, ReplacedBodies

\* A call that goes on to a step that holds no snapshot.
LEMMA HeldBodies ==
    ASSUME CallsOK, NEW k \in Call, calls[k] # None, NEW c, DOMAIN c = DOMAIN calls[k],
           NEW step, step \notin {"check", "install"}, Go(k, c, step)
    PROVE  Bodies' \subseteq Bodies
  BY HeldFields, GoBodies

\* The call forgets what it was told, and has it installed.
Installing(k) ==
    /\ calls[k].body \in Bodies /\ group'.raw = calls[k].body
    /\ ServerSame /\ Bodies' \subseteq Bodies

LEMMA InstallBodies ==
    ASSUME GroupOK, CallsOK, NEW k \in Call, Install(k)
    PROVE  Installing(k)
  <1>1. calls[k] # None /\ calls[k].at = "install"
    BY DEF Install, At
  <1>2. calls[k].body \in Bodies
    BY <1>1 DEF Bodies
  <1>3. group'.raw = calls[k].body
    BY DEF Install, Installed, GroupOK
  <1> DEFINE c == [calls[k] EXCEPT !.body = None, !.high = 0]
  <1>4. DOMAIN c = DOMAIN calls[k]
    OBVIOUS
  <1> HIDE DEF c
  <1>5. Go(k, c, "answers") \/ Go(k, c, "report")
    BY DEF Install, c
  <1>6. Bodies' \subseteq Bodies
    BY <1>1, <1>4, <1>5, HeldBodies
  <1>7. QED
    BY <1>2, <1>3, <1>6 DEF Installing, Install, ServerSame

\* The backend's answer is on the device.
Getting == ServerSame /\ UNCHANGED group /\ Bodies' \subseteq Bodies \cup {Snapshot(1)}

LEMMA GotBodies ==
    ASSUME SettingOK, ServerOK, EnrolledOnce, NamedOK, CallsOK, NEW k \in Call, Got(k)
    PROVE  Getting
  <1>0. calls[k] # None /\ calls[k].at = "getting" /\ DOMAIN calls[k] = CallFields /\ calls[k].device # None
    BY HeldFields DEF Got, At, CallsOK, CallOK
  <1>1. calls[k] # None /\ calls[k].at = "getting" /\ DOMAIN calls[k] = CallFields /\ calls[k].device = 1
    BY <1>0, HeldName, TheOne
  <1>2. ServerSame /\ UNCHANGED group
    BY DEF Got, ServerSame
  <1> DEFINE new == [[calls[k] EXCEPT !.body = Snapshot(calls[k].device)] EXCEPT !.at = "check"]
  <1>3. new.body = Snapshot(1)
    BY <1>1 DEF CallFields
  <1> HIDE DEF new
  <1>4. CASE calls' = [calls EXCEPT ![k] = new]
    BY <1>2, <1>3, <1>4, ReplacedBodies DEF Getting
  <1>5. CASE Go(k, calls[k], "report") \/ NextRound(k, FALSE) \/ Failed(k)
    BY <1>1, <1>2, <1>5, HeldBodies, FailedBodies DEF Getting
  <1>6. QED
    BY <1>4, <1>5 DEF Got, Go, new

\* Nothing new is known; the backend may have taken a spent grant.
Knowing == /\ UNCHANGED group /\ Bodies' \subseteq Bodies
           /\ \/ ServerSame
              \/ \E id : id \notin server.consumed[1] /\ server' = Consumed(1, id)

LEMMA CheckBodies ==
    ASSUME CallsOK, NEW k \in Call, CheckInstall(k)
    PROVE  Knowing
  <1>1. calls[k] # None /\ calls[k].at = "check" /\ DOMAIN calls[k] = CallFields
    BY HeldFields DEF CheckInstall, At
  <1>2. ServerSame /\ UNCHANGED group
    BY DEF CheckInstall, ServerSame
  <1> DEFINE new == [[calls[k] EXCEPT !.high = group.high] EXCEPT !.at = "install"]
  <1>3. new.body = calls[k].body /\ calls[k].body \in Bodies
    BY <1>1 DEF CallFields, Bodies
  <1> HIDE DEF new
  <1>4. CASE calls' = [calls EXCEPT ![k] = new]
    BY <1>2, <1>3, <1>4, ReplacedBodies DEF Knowing
  <1>5. CASE Failed(k)
    BY <1>1, <1>2, <1>5, FailedBodies DEF Knowing
  <1>6. QED
    BY <1>4, <1>5 DEF CheckInstall, Go, new

LEMMA ReportedBodies ==
    ASSUME ServerOK, CallsOK, NEW k \in Call, Reported(k)
    PROVE  Knowing
  <1>1. calls[k] # None /\ UNCHANGED group
    BY DEF Reported, At
  <1>2. Go(k, calls[k], "marking") \/ Go(k, [calls[k] EXCEPT !.rest = <<>>], "post")
    BY DEF Reported
  <1>3. PICK c : c = [calls[k] EXCEPT !.rest = <<>>]
    OBVIOUS
  <1>4. DOMAIN c = DOMAIN calls[k]
    BY <1>3
  <1>5. Bodies' \subseteq Bodies
    BY <1>1, <1>2, <1>3, <1>4, HeldBodies
  <1>6. PICK d, id : d = calls[k].device /\ id = Head(calls[k].rest)
    OBVIOUS
  <1>7. server' = server \/ (server' = Consumed(d, id) /\ Consumes(d, id))
    BY <1>6 DEF Reported
  <1>8. CASE server' = server
    BY <1>1, <1>5, <1>8 DEF Knowing, ServerSame
  <1>9. CASE server' = Consumed(d, id) /\ Consumes(d, id) /\ d = 1
    BY <1>1, <1>5, <1>9 DEF Knowing, Consumes
  <1>10. CASE server' = Consumed(d, id) /\ d # 1
    <2>1. ServerSame
      BY <1>10 DEF ServerSame, Consumed, ServerOK
    <2>2. QED
      BY <1>1, <1>5, <2>1 DEF Knowing
  <1>11. QED
    BY <1>7, <1>8, <1>9, <1>10

LEMMA OtherBodies ==
    ASSUME ServerOK, CallsOK, NEW k \in Call,
           \/ Redeemed(k) \/ Filed(k) \/ Renew(k) \/ Renewed(k) \/ Get(k)
           \/ Reports(k) \/ Posts(k) \/ PostedNext(k) \/ WriteDone(k) \/ Decided(k)
    PROVE  Knowing
  <1> USE DEF ServerSame, Knowing
  <1>1. CASE Redeemed(k)
    <2>1. PICK c : c = [calls[k] EXCEPT !.fn = "sync"]
      OBVIOUS
    <2>2. DOMAIN c = DOMAIN calls[k] /\ calls[k] # None
      BY <1>1, <2>1 DEF Redeemed, At
    <2>3. Go(k, c, "renew") \/ Fail(k)
      BY <1>1, <2>1 DEF Redeemed
    <2>4. Bodies' \subseteq Bodies
      BY <2>2, <2>3, HeldBodies, FailedBodies
    <2>5. QED
      BY <1>1, <2>4 DEF Redeemed, ServerOK
  <1>2. CASE Filed(k)
    <2>1. calls[k] # None /\ (Go(k, calls[k], "renew") \/ Over(k))
      BY <1>2 DEF Filed, At
    <2>2. Bodies' \subseteq Bodies
      BY <2>1, HeldBodies, OverBodies
    <2>3. QED
      BY <1>2, <2>2 DEF Filed, ServerOK
  <1>3. CASE Renew(k)
    <2>1. PICK c : c = [calls[k] EXCEPT !.device = keychain.device]
      OBVIOUS
    <2>2. DOMAIN c = DOMAIN calls[k] /\ calls[k] # None
      BY <1>3, <2>1 DEF Renew, At
    <2>3. Go(k, c, "renewing") \/ Go(k, calls[k], "get")
      BY <1>3, <2>1 DEF Renew
    <2>4. Bodies' \subseteq Bodies
      BY <2>2, <2>3, HeldBodies
    <2>5. QED
      BY <1>3, <2>4 DEF Renew
  <1>4. CASE Renewed(k)
    <2>1. calls[k] # None /\ Go(k, calls[k], "get")
      BY <1>4 DEF Renewed, At
    <2>2. Bodies' \subseteq Bodies
      BY <2>1, HeldBodies
    <2>3. QED
      BY <1>4, <2>2 DEF Renewed
  <1>5. CASE Get(k)
    <2>1. PICK c : c = [calls[k] EXCEPT !.device = keychain.device, !.since = VersionHeld]
      OBVIOUS
    <2>2. DOMAIN c = DOMAIN calls[k] /\ calls[k] # None
      BY <1>5, <2>1 DEF Get, At
    <2>3. Failed(k) \/ Go(k, c, "getting")
      BY <1>5, <2>1 DEF Get
    <2>4. Bodies' \subseteq Bodies
      BY <2>2, <2>3, HeldBodies, FailedBodies
    <2>5. QED
      BY <1>5, <2>4 DEF Get
  <1>6. CASE Reports(k)
    <2>1. PICK c : c = [calls[k] EXCEPT !.rest = SetToSeq(group.spent \ group.reported)]
      OBVIOUS
    <2>2. DOMAIN c = DOMAIN calls[k] /\ calls[k] # None
      BY <1>6, <2>1 DEF Reports, At
    <2>3. Go(k, c, "reporting")
      BY <1>6, <2>1 DEF Reports
    <2>4. Bodies' \subseteq Bodies
      BY <2>2, <2>3, HeldBodies
    <2>5. QED
      BY <1>6, <2>4 DEF Reports
  <1>7. CASE Posts(k)
    <2>1. PICK c : c = [calls[k] EXCEPT !.rest = group.queue]
      OBVIOUS
    <2>2. DOMAIN c = DOMAIN calls[k] /\ calls[k] # None
      BY <1>7, <2>1 DEF Posts, At
    <2>3. Go(k, c, "posting")
      BY <1>7, <2>1 DEF Posts
    <2>4. Bodies' \subseteq Bodies
      BY <2>2, <2>3, HeldBodies
    <2>5. QED
      BY <1>7, <2>4 DEF Posts
  <1>8. CASE PostedNext(k)
    <2>1. calls[k] # None /\ (Go(k, calls[k], "removing") \/ Over(k)) /\ UNCHANGED group
      BY <1>8 DEF PostedNext, At
    <2>2. Bodies' \subseteq Bodies
      BY <2>1, HeldBodies, OverBodies
    <2>3. PICK t : t = Head(calls[k].rest)
      OBVIOUS
    <2>4. server' = server \/ server' = Posted(t) \/ server' = [server EXCEPT !.refused = @ \cup {t}]
      BY <1>8, <2>3 DEF PostedNext
    <2>5. ServerSame
      BY <2>4 DEF Posted, ServerOK
    <2>6. QED
      BY <2>1, <2>2, <2>5
  <1>9. CASE WriteDone(k)
    <2>1. PICK c : c = [calls[k] EXCEPT !.rest = Tail(@)]
      OBVIOUS
    <2>2. DOMAIN c = DOMAIN calls[k] /\ calls[k] # None
      BY <1>9, <2>1 DEF WriteDone
    <2>3. Go(k, c, "reporting") \/ Go(k, c, "posting")
      BY <1>9, <2>1 DEF WriteDone
    <2>4. Bodies' \subseteq Bodies
      BY <2>2, <2>3, HeldBodies
    <2>5. QED
      BY <1>9, <2>4 DEF WriteDone
  <1>10. CASE Decided(k)
    BY <1>10, OverBodies DEF Decided
  <1>11. QED
    BY <1>1, <1>2, <1>3, <1>4, <1>5, <1>6, <1>7, <1>8, <1>9, <1>10

\* Every step of a call, by what it makes known.
LEMMA CallKnows ==
    ASSUME DeviceInv, EnrolledOnce, NamedOK, NEW k \in Call, AppStep(k) \/ CallStep(k)
    PROVE  /\ Knowing \/ (Got(k) /\ Getting) \/ (Install(k) /\ Installing(k))
           /\ UNCHANGED <<setting, now>>
  <1> USE DEF DeviceInv
  <1>1. CASE AppStep(k)
    <2>1. UNCHANGED <<setting, now, server, group>>
      BY <1>1 DEF AppStep, Enroll, SyncTapped, handleIncoming
    <2>2. CASE Enroll(k)
      BY <2>1, <2>2, BeginBodies DEF Enroll, Knowing, ServerSame
    <2>3. CASE SyncTapped(k)
      BY <2>1, <2>3, BeginBodies DEF SyncTapped, Knowing, ServerSame
    <2>4. ASSUME NEW t \in setting.links, handleIncoming(k, t) PROVE Knowing
      BY <2>1, <2>4, BeginBodies DEF handleIncoming, Knowing, ServerSame
    <2>5. QED
      BY <1>1, <2>1, <2>2, <2>3, <2>4 DEF AppStep
  <1>2. CASE CallStep(k)
    <2>1. UNCHANGED <<setting, now>>
      BY <1>2 DEF CallStep, Redeemed, Filed, Renew, Renewed, Get, Got, CheckInstall, Install, Reports,
                  Reported, Posts, PostedNext, WriteDone, Decided
    <2>2. QED
      BY <1>2, <2>1, GotBodies, InstallBodies, CheckBodies, ReportedBodies, OtherBodies DEF CallStep
  <1>3. QED
    BY <1>1, <1>2

-----------------------------------------------------------------------------
(* What is known stays in order. *)

LEMMA ClockSteps == [Next]_vars => UNCHANGED setting /\ (Tick \/ UNCHANGED now)
  <1> SUFFICES ASSUME [Next]_vars, ~Tick PROVE UNCHANGED <<setting, now>>
    BY DEF Tick
  <1> USE DEF Inside, device
  <1>1. CASE UNCHANGED vars
    BY <1>1 DEF vars
  <1>2. CASE DeviceStep
    <2>1. ASSUME NEW k \in Call, AppStep(k) \/ CallStep(k) PROVE UNCHANGED <<setting, now>>
      BY <2>1 DEF AppStep, Enroll, SyncTapped, handleIncoming, CallStep, Redeemed, Filed, Renew, Renewed, Get,
                  Got, CheckInstall, Install, Reports, Reported, Posts, PostedNext, WriteDone, Decided
    <2>2. CASE \E d \in 1 .. server.enrolled : Edit(d)
      BY <2>2 DEF Edit
    <2>3. CASE OpenApp \/ KillApp \/ CloseSheet \/ signOutDevice \/ TokenDue
      BY <2>3 DEF OpenApp, KillApp, CloseSheet, signOutDevice, TokenDue
    <2>4. CASE \E w \in writes : Take(w) \/ Commit(w)
      BY <2>4 DEF Take, Commit
    <2>5. CASE \E p \in DOMAIN setting.pages, kind \in setting.kinds : Open(p, kind)
      BY <2>5 DEF Open
    <2>6. CASE \E l \in loads : handleNewFlow(l)
      BY <2>6 DEF handleNewFlow
    <2>7. QED
      BY <1>2, <2>1, <2>2, <2>3, <2>4, <2>5, <2>6 DEF DeviceStep, AppStep
  <1>3. \A m \in Slot : beginRequest(m) => UNCHANGED <<setting, now>>
    BY DEF beginRequest
  <1>4. \A w \in writes : CommitMail(w) => UNCHANGED <<setting, now>>
    BY DEF CommitMail
  <1>5. Wake \/ Unload \/ restoreSpent \/ syncFromNative \/ AdoptStored \/ Deliveries => UNCHANGED <<setting, now>>
    BY DEF Wake, Unload, restoreSpent, syncFromNative, AdoptStored, adoptSnapshotIfVerified,
           Deliveries, Deliver, DeliverAsk
  <1>6. \A t \in Slot : TaskStep(t) => UNCHANGED <<setting, now>>
    BY DEF TaskStep, ReadCache, restoreCachedPolicy, Synced, Provisioned, Adopt, decide,
           sendAccessRequest, AskAnswered
  <1>7. \A p \in Pages : Ask(p) \/ AskTimesOut(p) \/ renderAskedNote(p) \/ refreshFromSnapshot(p)
            => UNCHANGED <<setting, now>>
    BY DEF Ask, AskTimesOut, renderAskedNote, refreshFromSnapshot
  <1>8. QED
    BY <1>1, <1>2, <1>3, <1>4, <1>5, <1>6, <1>7 DEF Next

LEMMA KnowingStays ==
    ASSUME DeviceInv, Knowing, UNCHANGED <<setting, now>>
    PROVE  HistoryStays /\ group'.raw = group.raw /\ Bodies' \subseteq Bodies
  <1>1. SettingOK /\ ServerOK
    BY DEF DeviceInv
  <1>2. HistoryStays
    BY <1>1, StillHistory, ConsumeHistory DEF Knowing
  <1>3. QED
    BY <1>2 DEF Knowing

\* Every step, by what it makes known.
StepSeen == /\ HistoryStays /\ UNCHANGED setting
            /\ \/ \E k \in Call : Install(k) /\ Installing(k)
               \/ Getting /\ UNCHANGED now
               \/ group'.raw = group.raw /\ Bodies' \subseteq Bodies

LEMMA StepKnows ==
    ASSUME DeviceInv, AppOK, EnrolledOnce, NamedOK, [Next]_vars
    PROVE  StepSeen
  <1> USE DEF DeviceInv, StepSeen
  <1>1. CASE Elsewhere \/ Puts
    <2>1. UNCHANGED <<setting, server, calls>> /\ group'.raw = group.raw
      BY <1>1, PutKeepsMarks DEF Elsewhere, Puts
    <2>2. HistoryStays
      <3>1. CASE Tick
        BY <2>1, <3>1, TickHistory DEF Tick, AppOK
      <3>2. CASE UNCHANGED now
        BY <2>1, <3>2, StillHistory DEF ServerSame
      <3>3. QED
        BY <3>1, <3>2, ClockSteps
    <2>3. Bodies' \subseteq Bodies
      BY <2>1 DEF Bodies
    <2>4. QED
      BY <2>1, <2>2, <2>3
  <1>2. CASE KillApp \/ signOutDevice \/ TokenDue
    <2>1. UNCHANGED <<setting, now, server, group>>
      BY <1>2 DEF KillApp, signOutDevice, TokenDue
    <2>2. Bodies' \subseteq Bodies
      BY <1>2 DEF KillApp, signOutDevice, TokenDue, Bodies
    <2>3. Knowing
      BY <2>1, <2>2 DEF Knowing, ServerSame
    <2>4. QED
      BY <2>1, <2>3, KnowingStays
  <1>3. CASE \E d \in 1 .. server.enrolled : Edit(d)
    <2>1. Edit(1)
      <3>1. server.enrolled \in Nat /\ server.enrolled <= 1
        BY DEF EnrolledOnce, ServerOK
      <3>2. \A d \in 1 .. server.enrolled : d = 1
        BY <3>1
      <3>3. QED
        BY <1>3, <3>2
    <2>2. HistoryStays
      BY <2>1, EditHistory
    <2>3. UNCHANGED <<setting, calls, group>>
      BY <2>1 DEF Edit
    <2>4. Bodies' \subseteq Bodies
      BY <2>3 DEF Bodies
    <2>5. QED
      BY <2>2, <2>3, <2>4
  <1>4. ASSUME NEW k \in Call, AppStep(k) \/ CallStep(k) PROVE StepSeen
    <2>1. UNCHANGED <<setting, now>>
      BY <1>4, CallKnows
    <2>2. CASE Knowing
      BY <2>1, <2>2, KnowingStays
    <2>3. CASE Getting
      BY <2>1, <2>3, StillHistory DEF Getting
    <2>4. CASE Install(k) /\ Installing(k)
      BY <2>1, <2>4, StillHistory DEF Installing
    <2>5. QED
      BY <1>4, <2>2, <2>3, <2>4, CallKnows
  <1>5. QED
    BY <1>1, <1>2, <1>3, <1>4, SafariSteps, DeviceSteps

LEMMA HistoryKeeps ==
    ASSUME DeviceInv, AppOK, EnrolledOnce, NamedOK, HistoryOK, [Next]_vars
    PROVE  HistoryOK'
  <1> USE DEF DeviceInv
  <1>1. StepSeen
    BY StepKnows
  <1>2. CASE Getting /\ UNCHANGED now
    <2>1. Known' \subseteq Known \cup {Snapshot(1)}
      BY <1>2 DEF Known, Getting
    <2>2. QED
      BY <1>1, <1>2, <2>1, MoreKnown DEF Getting, StepSeen
  <1>3. CASE ~(Getting /\ UNCHANGED now)
    <2>1. Known' \subseteq Known
      BY <1>1, <1>3 DEF StepSeen, Known, Installing
    <2>2. QED
      BY <1>1, <2>1, LessKnown DEF StepSeen
  <1>4. QED
    BY <1>2, <1>3

LEMMA HistoryStepKeeps == DeviceInv /\ SafariInv /\ NamedOK /\ HistoryInv /\ [Next]_vars => HistoryInv'
  <1> SUFFICES ASSUME DeviceInv, SafariInv, NamedOK, HistoryInv, [Next]_vars, EnrolledOnce' PROVE HistoryOK'
    BY DEF HistoryInv
  <1>1. EnrolledOnce
    BY OnceBefore
  <1>2. QED
    BY <1>1, HistoryKeeps DEF HistoryInv, SafariInv

LEMMA HistoryInitHolds == Init => HistoryInv
  <1> SUFFICES ASSUME Init PROVE HistoryOK
    BY DEF HistoryInv
  <1>1. SettingOK /\ ServerOK
    BY InitHolds DEF DeviceInv
  <1>2. group.raw = None \/ group.raw = Snapshot(1)
    BY DEF Init, DeviceInit, NewGroup
  <1>3. Bodies = {}
    BY DEF Bodies, Init, DeviceInit
  <1>4. Known \subseteq {Snapshot(1)}
    BY <1>2, <1>3 DEF Known
  <1>5. QED
    BY <1>1, <1>4, SnapshotNow DEF HistoryOK, NoReturn

\* What a device can know, until it is enrolled again, of the backend, in any order of
\* answers and installs (BackendClient fetchSnapshot, PolicyStore install): each
\* snapshot is one the backend signed, and a grant that a newer one has dropped
\* is in no newer one still, as long as it runs.
THEOREM HistoryInvariant == Spec => []HistoryInv
  <1>1. QED
    BY HistoryInitHolds, HistoryStepKeeps, DeviceInvariant, SafariInvariant, NamedInvariant, PTL DEF Spec

-----------------------------------------------------------------------------
(* A single-use grant that opened a page opens no other. *)

\* The snapshot in force, and whatever else says if it may be used.
InForceSame == group'.raw = group.raw /\ group'.high = group.high /\ group'.provisioned = group.provisioned

Live == IF State = "verified" THEN Ids(group.raw.temps) ELSE None

\* Writes may begin, and none of the filter's gets lost.
SpendWrites ==
    /\ \A w \in writes' : w \in writes \/ \E by, op, arg : w = Write(by, op, arg)
    /\ \A w \in writes : w.by = None => w \in writes'

LEMMA WriteIs ==
    ASSUME NEW by, NEW op, NEW arg
    PROVE  /\ Write(by, op, arg).by = by /\ Write(by, op, arg).op = op /\ Write(by, op, arg).arg = arg
           /\ op = "spend" => Write(by, op, arg).live = Live
  BY DEF Write, Live

LEMMA LooksStay ==
    ASSUME LooksOK, InForceSame,
           \A w \in writes' : w \in writes \/ \E by, op, arg : w = Write(by, op, arg)
    PROVE  LooksOK'
  <1>1. Live' = Live
    BY DEF Live, State, InForceSame
  <1>2. ASSUME NEW w \in writes', w.op = "spend" PROVE w.live = Live
    BY <1>2, WriteIs DEF LooksOK, Live
  <1>3. QED
    BY <1>1, <1>2 DEF LooksOK, Live

IsSpent(id) == Spending(id) \/ id \in group.spent

LEMMA OutStays ==
    ASSUME SettingOK, ServerOK, HistoryStays, group'.raw = group.raw,
           Bodies' \subseteq Bodies \cup {Snapshot(1)}, NEW id, Out(id)
    PROVE  Out(id)'
  <1>1. Dead(id) /\ Dead(id)' /\ group.raw # None /\ ~Carries(group.raw, id)
    BY DEF Out, HistoryStays
  <1>2. ~Carries(Snapshot(1), id)
    BY <1>1, SnapshotNow DEF Dead, Carries
  <1>3. \A x \in Bodies' : x.version >= group.raw.version => ~Carries(x, id)
    BY <1>2 DEF Out
  <1>4. QED
    BY <1>1, <1>3 DEF Out, Carries, Ids

\* As long as the snapshot stays, a used-up grant does.
LEMMA UsedStays ==
    ASSUME SettingOK, ServerOK, HistoryStays, group'.raw = group.raw,
           Bodies' \subseteq Bodies \cup {Snapshot(1)}, NEW id, UsedUp(id),
           group.raw # None /\ Carries(group.raw, id) /\ IsSpent(id) => IsSpent(id)'
    PROVE  UsedUp(id)'
  <1>1. CASE Expired(id)
    BY <1>1 DEF HistoryStays, UsedUp
  <1>2. CASE Out(id)
    BY <1>2, OutStays DEF UsedUp
  <1>3. CASE group.raw # None /\ Carries(group.raw, id) /\ (Spending(id) \/ id \in group.spent)
    BY <1>3 DEF UsedUp, Carries, Ids, IsSpent
  <1>4. QED
    BY <1>1, <1>2, <1>3 DEF UsedUp

\* An install that falls into no other and into no spend.
LEMMA InstallUses ==
    ASSUME DeviceInv, HistoryOK, overlapped = {}, HistoryStays, NEW k \in Call, Install(k), Installing(k),
           ~\E w \in writes : w.op = "spend", NEW id, UsedUp(id)
    PROVE  UsedUp(id)'
  <1> USE DEF DeviceInv
  <1>1. PICK b : b = calls[k].body
    OBVIOUS
  <1>2. calls[k] # None /\ calls[k].at = "install" /\ group'.raw = b /\ b \in Bodies /\ b \in Known
    BY <1>1 DEF Install, At, Installing, Known
  <1>3. group'.spent = group.spent
    BY DEF Install, Installed, GroupOK
  <1>4. /\ b \in SnapshotsOf(setting) /\ b # None /\ \A x \in Known : x.version \in Nat
        /\ group.raw # None => group.raw \in Known
    BY <1>2, KnownType, NoSnapshotIsNone DEF SnapshotsOf, Known
  <1>5. group.raw # None => b.version >= group.raw.version
    BY <1>1, <1>2 DEF MarksOK, Marked
  <1>6. CASE Expired(id)
    BY <1>6 DEF HistoryStays, UsedUp
  <1>7. CASE Out(id)
    <2>1. group.raw # None /\ Dead(id)' /\ ~Carries(b, id)
      BY <1>2, <1>5, <1>7 DEF Out, HistoryStays
    <2>2. ASSUME NEW x \in Bodies', x.version >= b.version PROVE ~Carries(x, id)
      <3>1. x \in Bodies /\ x \in Known
        BY <2>2 DEF Installing, Known
      <3>2. x.version >= group.raw.version
        BY <1>2, <1>4, <1>5, <2>1, <2>2, <3>1
      <3>3. QED
        BY <1>7, <3>1, <3>2 DEF Out
    <2>3. Out(id)'
      BY <1>2, <1>4, <2>1, <2>2 DEF Out, Carries, Ids
    <2>4. QED
      BY <2>3 DEF UsedUp
  <1>8. CASE group.raw # None /\ Carries(group.raw, id) /\ (Spending(id) \/ id \in group.spent)
    <2>1. id \in group.spent
      BY <1>8 DEF Spending
    <2>2. CASE Carries(b, id)
      BY <1>2, <1>3, <1>4, <2>1, <2>2 DEF UsedUp, Carries, Ids
    <2>3. CASE ~Carries(b, id)
      <3>1. id \in Ids(group.raw.temps) \ Ids(b.temps) /\ group.raw.version <= b.version
        BY <1>2, <1>4, <1>5, <1>8, <2>3 DEF Carries
      <3>2. Dead(id) /\ \A z \in Known : b.version <= z.version /\ Carries(z, id) => Expired(id)
        BY <1>2, <1>4, <1>8, <3>1 DEF HistoryOK, NoReturn
      <3>3. CASE \E z \in Known : b.version <= z.version /\ Carries(z, id)
        BY <3>2, <3>3 DEF HistoryStays, UsedUp
      <3>4. CASE ~\E z \in Known : b.version <= z.version /\ Carries(z, id)
        <4>1. \A x \in Bodies' : x.version >= b.version => ~Carries(x, id)
          BY <1>2, <1>4, <3>4 DEF Installing, Known
        <4>2. Out(id)'
          BY <1>2, <1>4, <2>3, <3>2, <4>1 DEF Out, Carries, Ids, HistoryStays
        <4>3. QED
          BY <4>2 DEF UsedUp
      <3>5. QED
        BY <3>3, <3>4
    <2>4. QED
      BY <2>2, <2>3
  <1>9. QED
    BY <1>6, <1>7, <1>8 DEF UsedUp

\* A write that comes through forgets no grant that the policy carries.
LEMMA PutUses ==
    ASSUME GroupOK, WritesOK, ~setting.racing, LooksOK, NEW w \in writes, group' = Put(w), writes' = writes \ {w},
           NEW id, group.raw # None, Carries(group.raw, id), IsSpent(id)
    PROVE  IsSpent(id)'
  <1>1. w.op \in {"spend", "mark", "enqueue", "remove"}
    BY DEF WritesOK, WriteOK
  <1>2. CASE w.op = "spend"
    <2>1. group'.spent = Spent(w, group.spent)
      BY <1>2 DEF Put, KeyOf, Changed, GroupOK
    <2>2. w.live = None \/ w.live = Ids(group.raw.temps)
      BY <1>2 DEF LooksOK
    <2>3. CASE w.arg = id
      BY <2>1, <2>3 DEF IsSpent, Spent
    <2>4. CASE w.arg # id /\ id \in group.spent
      BY <2>1, <2>2, <2>4 DEF IsSpent, Spent, Carries
    <2>5. CASE w.arg # id /\ Spending(id)
      BY <2>5 DEF IsSpent, Spending
    <2>6. QED
      BY <2>3, <2>4, <2>5 DEF IsSpent
  <1>3. CASE w.op # "spend"
    <2>1. group'.spent = group.spent
      BY <1>1, <1>3 DEF Put, KeyOf, GroupOK
    <2>2. Spending(id) => Spending(id)'
      BY <1>3 DEF Spending
    <2>3. QED
      BY <2>1, <2>2 DEF IsSpent
  <1>4. QED
    BY <1>2, <1>3

LEMMA WritesUse ==
    ASSUME SpendWrites, UNCHANGED group, NEW id, IsSpent(id)
    PROVE  IsSpent(id)'
  BY DEF SpendWrites, IsSpent, Spending

-----------------------------------------------------------------------------
(* Every step, by what it does to the grants that are spent. *)

SpendSeen ==
    \/ UNCHANGED <<group, let>> /\ SpendWrites
    \/ \E k \in Call : Install(k)
    \/ \E w \in writes : group' = Put(w) /\ writes' = writes \ {w} /\ UNCHANGED <<let, overlapped>>
    \/ \E l \in loads : handleNewFlow(l)

LEMMA SameSpends == UNCHANGED writes => SpendWrites
  BY DEF SpendWrites

LEMMA CallSpends ==
    ASSUME NEW k \in Call, AppStep(k) \/ CallStep(k)
    PROVE  SpendSeen /\ overlapped \subseteq overlapped'
  <1>1. CASE AppStep(k)
    BY <1>1, SameSpends DEF SpendSeen, AppStep, Enroll, SyncTapped, handleIncoming
  <1>2. CASE Redeemed(k) \/ Filed(k) \/ Renew(k) \/ Renewed(k) \/ Get(k) \/ Got(k)
    BY <1>2, SameSpends DEF SpendSeen, Redeemed, Filed, Renew, Renewed, Get, Got
  <1>3. CASE CheckInstall(k) \/ Reports(k) \/ Posts(k) \/ WriteDone(k) \/ Decided(k)
    BY <1>3, SameSpends DEF SpendSeen, CheckInstall, Reports, Posts, WriteDone, Decided
  <1>4. CASE Install(k)
    BY <1>4 DEF SpendSeen, Install
  <1>5. CASE Reported(k)
    <2>1. UNCHANGED <<group, let, overlapped>> /\ (UNCHANGED writes \/ \E id : writes' = writes \cup {Write(k, "mark", id)})
      BY <1>5 DEF Reported
    <2>2. QED
      BY <2>1 DEF SpendSeen, SpendWrites
  <1>6. CASE PostedNext(k)
    <2>1. UNCHANGED <<group, let, overlapped>> /\ (UNCHANGED writes \/ \E t : writes' = writes \cup {Write(k, "remove", t)})
      BY <1>6 DEF PostedNext
    <2>2. QED
      BY <2>1 DEF SpendSeen, SpendWrites
  <1>7. QED
    BY <1>1, <1>2, <1>3, <1>4, <1>5, <1>6 DEF CallStep

LEMMA StepSpends ==
    ASSUME [Next]_vars, ~setting.racing
    PROVE  SpendSeen /\ overlapped \subseteq overlapped'
  <1> USE DEF SpendSeen, Inside, device
  <1>1. CASE UNCHANGED vars
    BY <1>1, SameSpends DEF vars
  <1>2. CASE DeviceStep
    <2>1. CASE \E k \in Call : AppStep(k) \/ CallStep(k)
      BY <2>1, CallSpends
    <2>2. CASE (\E d \in 1 .. server.enrolled : Edit(d)) \/ Tick
      BY <2>2, SameSpends DEF Edit, Tick
    <2>3. CASE OpenApp \/ CloseSheet \/ signOutDevice \/ TokenDue
      BY <2>3, SameSpends DEF OpenApp, CloseSheet, signOutDevice, TokenDue
    <2>4. CASE KillApp
      BY <2>4, DeviceAssumption DEF KillApp, SpendWrites
    <2>5. CASE \E w \in writes : Take(w) \/ Commit(w)
      BY <2>5 DEF Take, Commit
    <2>6. CASE \E p \in DOMAIN setting.pages, kind \in setting.kinds : Open(p, kind)
      BY <2>6, SameSpends DEF Open
    <2>7. CASE \E l \in loads : handleNewFlow(l)
      BY <2>7 DEF handleNewFlow
    <2>8. QED
      BY <1>2, <2>1, <2>2, <2>3, <2>4, <2>5, <2>6, <2>7 DEF DeviceStep, AppStep
  <1>3. ASSUME NEW m \in Slot, beginRequest(m) PROVE SpendSeen /\ overlapped \subseteq overlapped'
    <2>1. UNCHANGED <<group, let, overlapped>>
      BY <1>3 DEF beginRequest
    <2>2. UNCHANGED writes \/ \E op : writes' = writes \cup {Write(m, op, mails[m].arg)}
      BY <1>3 DEF beginRequest
    <2>3. QED
      BY <2>1, <2>2 DEF SpendWrites
  <1>4. ASSUME NEW w \in writes, CommitMail(w) PROVE SpendSeen /\ overlapped \subseteq overlapped'
    BY <1>4 DEF CommitMail
  <1>5. CASE Wake \/ Unload \/ restoreSpent \/ syncFromNative \/ AdoptStored \/ Deliveries
    BY <1>5, SameSpends DEF Wake, Unload, restoreSpent, syncFromNative, AdoptStored, adoptSnapshotIfVerified,
           Deliveries, Deliver, DeliverAsk
  <1>6. ASSUME NEW t \in Slot, TaskStep(t) PROVE SpendSeen /\ overlapped \subseteq overlapped'
    BY <1>6, SameSpends DEF TaskStep, ReadCache, restoreCachedPolicy, Synced, Provisioned, Adopt, decide,
           sendAccessRequest, AskAnswered
  <1>7. CASE \E p \in Pages : Ask(p) \/ AskTimesOut(p) \/ renderAskedNote(p) \/ refreshFromSnapshot(p)
    BY <1>7, SameSpends DEF Ask, AskTimesOut, renderAskedNote, refreshFromSnapshot
  <1>8. QED
    BY <1>1, <1>2, <1>3, <1>4, <1>5, <1>6, <1>7 DEF Next

\* What opens a page once is in force, runs, and is not spent.
LEMMA FlowByGrant ==
    ASSUME DeviceInv, HistoryOK, NEW l, FlowVerdict(l).reason = "temporary:ONCE"
    PROVE  LET id == FlowVerdict(l).id
           IN  /\ group.raw # None /\ Carries(group.raw, id) /\ id \notin group.spent
               /\ ~Expired(id) /\ ~Out(id)
  <1>1. PICK page, v, id : page = setting.pages[l.page] /\ v = FilterVerdict(page) /\ id = FlowVerdict(l).id
    OBVIOUS
  <1>2. v.reason = "temporary:ONCE" /\ v.id = id
    <2>1. FlowVerdict(l) = v \/ FlowVerdict(l) = [v EXCEPT !.action = "ALLOW"]
      BY <1>1 DEF FlowVerdict
    <2>2. [v EXCEPT !.action = "ALLOW"].reason = v.reason /\ [v EXCEPT !.action = "ALLOW"].id = v.id
      OBVIOUS
    <2>3. QED
      BY <1>1, <2>1, <2>2
  <1>3. PICK e : e = evaluateInFilter(group.raw, page, now, group.spent)
    OBVIOUS
  <1>4. State \in {"untrusted", "absent", "verified"}
    BY DEF State
  <1>5. State = "verified" /\ v = playback(e, hasActiveVideoGrant(group.raw, now), page)
    BY <1>1, <1>2, <1>3, <1>4 DEF FilterVerdict, Verdict
  <1>6. v = e
    BY <1>2, <1>5, PlaybackOnce
  <1>7. group.raw # None /\ group.raw \in SnapshotsOf(setting) /\ group.raw \in Known
    BY <1>5 DEF State, DeviceInv, GroupOK, Known
  <1>8. PICK t \in Unspent(ActiveTemps(group.raw, now), group.spent) : t.grantKind = "ONCE" /\ e.id = t.id
    BY <1>2, <1>3, <1>6, <1>7, FilterByGrant DEF DeviceInv
  <1>9. t \in group.raw.temps /\ isActiveTemp(t, now) /\ t.id = id /\ id \notin group.spent
    BY <1>2, <1>6, <1>8 DEF Unspent, ActiveTemps
  <1>10. Carries(group.raw, id)
    BY <1>9 DEF Carries, Ids
  <1>11. ~Expired(id)
    <2>1. PICK i \in 1 .. server.stage[1] : group.raw.temps \subseteq Stages[i].temps
      BY <1>7 DEF HistoryOK, SignedOK
    <2>2. i \in DOMAIN Stages
      BY StageNow, StageFacts DEF DeviceInv
    <2>3. QED
      BY <1>9, <2>1, <2>2 DEF Expired
  <1>12. QED
    BY <1>1, <1>7, <1>9, <1>10, <1>11 DEF Out

LEMMA FlowUses ==
    ASSUME DeviceInv, HistoryOK, NEW l \in loads, handleNewFlow(l)
    PROVE  /\ UNCHANGED <<group, calls>> /\ SpendWrites
           /\ \/ UNCHANGED let
              \/ \E id : /\ let' = [let EXCEPT ![id] = @ + 1] /\ ~UsedUp(id) /\ UsedUp(id)'
  <1>1. UNCHANGED <<group, calls>> /\ ~Writing(None)
    BY DEF handleNewFlow
  <1>2. PICK v : v = FlowVerdict(l)
    OBVIOUS
  <1>3. writes' = writes \/ writes' = writes \cup {Write(None, "spend", v.id)}
    BY <1>2 DEF handleNewFlow
  <1>4. SpendWrites
    BY <1>3 DEF SpendWrites
  <1>5. CASE ~(v.action = "ALLOW" /\ v.reason = "temporary:ONCE" /\ l.kind # "socket")
    BY <1>1, <1>2, <1>4, <1>5 DEF handleNewFlow
  <1>6. CASE v.action = "ALLOW" /\ v.reason = "temporary:ONCE" /\ l.kind # "socket"
    <2>1. writes' = writes \cup {Write(None, "spend", v.id)} /\ let' = [let EXCEPT ![v.id] = @ + 1]
      BY <1>2, <1>6 DEF handleNewFlow, Spends
    <2>2. /\ group.raw # None /\ Carries(group.raw, v.id) /\ v.id \notin group.spent
          /\ ~Expired(v.id) /\ ~Out(v.id)
      BY <1>2, <1>6, FlowByGrant
    <2>3. ~Spending(v.id)
      BY <1>1 DEF Spending, Writing
    <2>4. ~UsedUp(v.id)
      BY <2>2, <2>3 DEF UsedUp
    <2>5. Spending(v.id)'
      BY <2>1, WriteIs DEF Spending
    <2>6. UsedUp(v.id)'
      BY <1>1, <2>2, <2>5 DEF UsedUp, Carries, Ids
    <2>7. QED
      BY <1>1, <1>4, <2>1, <2>4, <2>6
  <1>7. QED
    BY <1>5, <1>6

LEMMA UsesKeep ==
    ASSUME DeviceInv, AppOK, WritesOK, EnrolledOnce, NamedOK, HistoryOK, LooksOK, ~setting.racing, overlapped = {},
           [Next]_vars, overlapped' = {}
    PROVE  \A id : UsedUp(id) => UsedUp(id)'
  <1> USE DEF DeviceInv
  <1>1. StepSeen
    BY StepKnows
  <1>2. CASE \E k \in Call : Install(k)
    <2>1. PICK k \in Call : Install(k)
      BY <1>2
    <2>2. Installing(k) /\ HistoryStays
      BY <1>1, <2>1, InstallBodies DEF StepSeen
    <2>3. ~\E w \in writes : w.op = "spend"
      BY <2>1 DEF Install
    <2>4. QED
      BY <2>1, <2>2, <2>3, InstallUses
  <1>3. CASE ~\E k \in Call : Install(k)
    <2>1. HistoryStays /\ group'.raw = group.raw /\ Bodies' \subseteq Bodies \cup {Snapshot(1)}
      BY <1>1, <1>3 DEF StepSeen, Getting
    <2>2. ASSUME NEW id, group.raw # None, Carries(group.raw, id), IsSpent(id) PROVE IsSpent(id)'
      <3>1. CASE UNCHANGED group /\ SpendWrites
        BY <2>2, <3>1, WritesUse
      <3>2. CASE \E w \in writes : group' = Put(w) /\ writes' = writes \ {w}
        BY <2>2, <3>2, PutUses
      <3>3. CASE \E l \in loads : handleNewFlow(l)
        BY <2>2, <3>3, FlowUses, WritesUse
      <3>4. QED
        BY <1>3, <3>1, <3>2, <3>3, StepSpends DEF SpendSeen
    <2>3. QED
      BY <2>1, <2>2, UsedStays
  <1>4. QED
    BY <1>2, <1>3

LEMMA LetKeeps ==
    ASSUME DeviceInv, AppOK, WritesOK, EnrolledOnce, NamedOK, HistoryOK, LooksOK, LetOK, ~setting.racing, overlapped = {},
           [Next]_vars, overlapped' = {}
    PROVE  LetOK'
  <1>1. \A id : UsedUp(id) => UsedUp(id)'
    BY UsesKeep
  <1>2. CASE UNCHANGED let
    BY <1>1, <1>2 DEF LetOK
  <1>3. CASE \E l \in loads : handleNewFlow(l)
    <2>1. PICK id : (let' = [let EXCEPT ![id] = @ + 1] /\ ~UsedUp(id) /\ UsedUp(id)') \/ UNCHANGED let
      BY <1>3, FlowUses
    <2>2. CASE let' = [let EXCEPT ![id] = @ + 1] /\ ~UsedUp(id) /\ UsedUp(id)'
      <3>1. DOMAIN let' = DOMAIN let /\ \A x \in DOMAIN let \ {id} : let'[x] = let[x]
        BY <2>2
      <3>2. id \in DOMAIN let => let[id] = 0 /\ let'[id] = 1
        BY <2>2 DEF LetOK
      <3>3. QED
        BY <1>1, <2>2, <3>1, <3>2 DEF LetOK
    <2>3. QED
      BY <1>2, <2>1, <2>2
  <1>4. CASE \E k \in Call : Install(k)
    BY <1>2, <1>4 DEF Install
  <1>5. QED
    BY <1>2, <1>3, <1>4, StepSpends DEF SpendSeen

LEMMA LooksKeep ==
    ASSUME DeviceInv, HistoryOK, LooksOK, ~setting.racing, [Next]_vars, overlapped' = {}
    PROVE  LooksOK'
  <1> USE DEF DeviceInv
  <1>1. CASE UNCHANGED group /\ SpendWrites
    BY <1>1, LooksStay DEF InForceSame, SpendWrites
  <1>2. CASE \E k \in Call : Install(k)
    <2>1. UNCHANGED writes /\ ~\E w \in writes : w.op = "spend"
      BY <1>2 DEF Install
    <2>2. QED
      BY <2>1 DEF LooksOK
  <1>3. CASE \E w \in writes : group' = Put(w) /\ writes' = writes \ {w}
    <2>1. InForceSame
      BY <1>3, PutKeepsMarks DEF InForceSame
    <2>2. \A w \in writes' : w \in writes
      BY <1>3
    <2>3. QED
      BY <2>1, <2>2, LooksStay
  <1>4. CASE \E l \in loads : handleNewFlow(l)
    BY <1>1, <1>4, FlowUses
  <1>5. QED
    BY <1>1, <1>2, <1>3, <1>4, StepSpends DEF SpendSeen

LEMMA SpendStepKeeps == DeviceInv /\ SafariInv /\ NamedOK /\ HistoryInv /\ SpendInv /\ [Next]_vars => SpendInv'
  <1> SUFFICES ASSUME DeviceInv, SafariInv, NamedOK, HistoryInv, SpendInv, [Next]_vars,
                      EnrolledOnce', (~setting.racing)', (overlapped = {})'
               PROVE  LetOK' /\ LooksOK'
    BY DEF SpendInv
  <1>1. EnrolledOnce
    BY OnceBefore
  <1>2. ~setting.racing
    BY ClockSteps
  <1>3. overlapped = {}
    BY <1>2, StepSpends
  <1>4. LetOK /\ LooksOK /\ HistoryOK /\ AppOK /\ WritesOK
    BY <1>1, <1>2, <1>3 DEF SpendInv, HistoryInv, SafariInv
  <1>5. LetOK'
    BY <1>1, <1>2, <1>3, <1>4, LetKeeps
  <1>6. LooksOK'
    BY <1>2, <1>4, LooksKeep
  <1>7. QED
    BY <1>5, <1>6

LEMMA SpendInitHolds == Init => SpendInv
  BY DEF Init, DeviceInit, SpendInv, LetOK, LooksOK

\* "Just once" until the device is enrolled again, for any number of calls, pages,
\* grants and edits, in any order of polls, installs, reports, spends of Safari's
\* and the filter's, kills and unloads: the filter lets one page through by a
\* single-use grant at most (spendGrant, verdict), unless an install falls into
\* another or into a spend.  What a new enrolment brings back is not ruled out.
THEOREM OnceIsOnce == Spec => []OnceMeansOnce
  <1>1. SpendInv => OnceMeansOnce
    BY DEF SpendInv, OnceMeansOnce, EnrolledOnce, LetOK
  <1>2. Spec => []SpendInv
    BY SpendInitHolds, SpendStepKeeps, DeviceInvariant, SafariInvariant, NamedInvariant, HistoryInvariant,
       PTL DEF Spec
  <1>3. QED
    BY <1>1, <1>2, PTL
=============================================================================
