------------------------------ MODULE PolicySync ------------------------------
(***************************************************************************)
(* PolicyServer together with its clients, the browser extensions in       *)
(* backend mode (windows/extension/backend-client.js, background.js).      *)
(* Each device runs one loop: long-poll with the version in its config,    *)
(* save the new version, hand the snapshot over.  A snapshot lives in      *)
(* memory (SNAPSHOT) and, a moment later, in chrome.storage.  The browser  *)
(* may kill the service worker at any time; a request may get no answer.   *)
(***************************************************************************)
EXTENDS PolicyServer

CONSTANTS MaxKills, MaxLosses
ASSUME FaultAssumption == MaxKills \in Nat /\ MaxLosses \in Nat

VARIABLES
    phase,      \* per device: where startPolicySync is
    asked,      \* the handler that serves its request, or None
    inbox,      \* the verified answer it is about to install
    config,     \* backendConfig.version in chrome.storage
    held,       \* SNAPSHOT, the policy it enforces
    stored,     \* the snapshot in chrome.storage
    unstored,   \* the snapshot a storage.set is still writing, if any
    cached,     \* the snapshot a restarted worker is still verifying, if any
    kills, losses

clientVars == <<phase, asked, inbox, config, held, stored, unstored,
                cached, kills, losses>>
vars == <<serverVars, clientVars>>

ClientInit ==
    /\ phase = [d \in Device |-> "idle"]
    /\ asked = [d \in Device |-> None]
    /\ inbox = [d \in Device |-> NoSnapshot]
    /\ config = [d \in Device |-> 0]         \* enroll() writes version 0
    /\ held = [d \in Device |-> NoSnapshot]
    /\ stored = [d \in Device |-> NoSnapshot]
    /\ unstored = [d \in Device |-> NoSnapshot]
    /\ cached = [d \in Device |-> NoSnapshot]
    /\ kills = 0 /\ losses = 0

\* The loop asks /policy/wait for a change since the version in its config.
Poll(d, h) ==
    /\ phase[d] = "idle"
    /\ Request(h, d, "wait", config[d])
    /\ phase' = [phase EXCEPT ![d] = "waiting"]
    /\ asked' = [asked EXCEPT ![d] = h]
    /\ UNCHANGED <<inbox, config, held, stored, unstored, cached, kills, losses>>

\* res.ok, a version in the body, and a signature that verifies.
IsSnapshot(h) == pc[h] = "snapshot"

\* The answer arrives; a snapshot that verifies goes on to be installed, any
\* other answer starts the loop over.
Receive(d) ==
    /\ phase[d] = "waiting"
    /\ LET h == asked[d] IN
        /\ Reply(h)
        /\ IF IsSnapshot(h)
             THEN /\ inbox' = [inbox EXCEPT ![d] = call[h].snap]
                  /\ phase' = [phase EXCEPT ![d] = "saving"]
             ELSE /\ phase' = [phase EXCEPT ![d] = "idle"]
                  /\ UNCHANGED inbox
    /\ asked' = [asked EXCEPT ![d] = None]
    /\ UNCHANGED <<config, held, stored, unstored, cached, kills, losses>>

\* await setConfig({ version })
SaveVersion(d) ==
    /\ phase[d] = "saving"
    /\ config' = [config EXCEPT ![d] = inbox[d].version]
    /\ phase' = [phase EXCEPT ![d] = "applying"]
    /\ UNCHANGED <<serverVars, asked, inbox, held, stored, unstored, cached, kills, losses>>

\* onSnapshot: applySnapshot replaces SNAPSHOT and starts a storage.set that
\* nobody waits for.
applySnapshot(d) ==
    /\ phase[d] = "applying"
    /\ held' = [held EXCEPT ![d] = inbox[d]]
    /\ inbox' = [inbox EXCEPT ![d] = NoSnapshot]
    /\ unstored' = [unstored EXCEPT ![d] = inbox[d]]
    /\ phase' = [phase EXCEPT ![d] = "idle"]
    /\ UNCHANGED <<serverVars, asked, config, stored, cached, kills, losses>>

Stored(d) ==
    /\ unstored[d] # NoSnapshot
    /\ stored' = [stored EXCEPT ![d] = unstored[d]]
    /\ unstored' = [unstored EXCEPT ![d] = NoSnapshot]
    /\ UNCHANGED <<serverVars, phase, asked, inbox, config, held, cached, kills, losses>>

\* The request fails on the way, there or back; the handler does not know.
Lose(d) ==
    /\ phase[d] = "waiting"
    /\ losses < MaxLosses
    /\ losses' = losses + 1
    /\ phase' = [phase EXCEPT ![d] = "idle"]
    /\ asked' = [asked EXCEPT ![d] = None]
    /\ UNCHANGED <<serverVars, inbox, config, held, stored, unstored, cached, kills>>

\* The answer to a request nobody waits for any more goes nowhere.
Unheard(h) ==
    /\ \A d \in Device : asked[d] # h
    /\ Reply(h)
    /\ UNCHANGED clientVars

\* The worker is killed and starts again with no policy in memory: the loop
\* starts over from the stored config while the stored snapshot is verified ...
Kill(d) ==
    /\ kills < MaxKills
    /\ kills' = kills + 1
    /\ phase' = [phase EXCEPT ![d] = "idle"]
    /\ asked' = [asked EXCEPT ![d] = None]
    /\ inbox' = [inbox EXCEPT ![d] = NoSnapshot]
    /\ held' = [held EXCEPT ![d] = NoSnapshot]
    /\ unstored' = [unstored EXCEPT ![d] = NoSnapshot]
    /\ cached' = [cached EXCEPT ![d] = stored[d]]
    /\ UNCHANGED <<serverVars, config, stored, losses>>

\* Mutant: the stored snapshot is adopted again and again.
restoreRepeatedly(d) ==
    /\ cached[d] # NoSnapshot
    /\ held' = [held EXCEPT ![d] = cached[d]]
    /\ UNCHANGED <<serverVars, phase, asked, inbox, config, stored, unstored, cached, kills, losses>>

\* ... and adopted, whatever the loop has installed meanwhile.
restoreCachedPolicy(d) ==
    /\ cached[d] # NoSnapshot
    /\ held' = [held EXCEPT ![d] = cached[d]]
    /\ cached' = [cached EXCEPT ![d] = NoSnapshot]
    /\ UNCHANGED <<serverVars, phase, asked, inbox, config, stored, unstored, kills, losses>>

Client(d) ==
    \/ \E h \in Handler : Poll(d, h)
    \/ Receive(d) \/ SaveVersion(d) \/ applySnapshot(d)

Init == ServerInit /\ ClientInit

Next ==
    \/ ServerStep /\ UNCHANGED clientVars
    \/ \E d \in Device : Client(d) \/ Stored(d) \/ Lose(d)
                         \/ Kill(d) \/ restoreCachedPolicy(d)
    \/ \E h \in Handler : Unheard(h)

Spec == Init /\ [][Next]_vars

\* The event loop is a queue, so every handler and edit that can run runs
\* again and again; timers fire; a device never stops polling.
Fairness ==
    /\ \A h \in Handler : SF_vars(Handle(h) /\ UNCHANGED clientVars)
    /\ \A h \in Handler : WF_vars(Unheard(h))
    /\ \A e \in Editor : SF_vars(FinishEdit(e) /\ UNCHANGED clientVars)
    /\ \A d \in Device : SF_vars(Client(d))

FairSpec == Spec /\ Fairness

-----------------------------------------------------------------------------
ClientTypeOK ==
    /\ phase \in [Device -> {"idle", "waiting", "saving", "applying"}]
    /\ asked \in [Device -> Handler \cup {None}]
    /\ \A d \in Device : (asked[d] # None) <=> (phase[d] = "waiting")
    /\ inbox \in [Device -> Snapshot]
    /\ config \in [Device -> Nat]
    /\ held \in [Device -> Snapshot]
    /\ stored \in [Device -> Snapshot]
    /\ unstored \in [Device -> Snapshot]
    /\ cached \in [Device -> Snapshot]
    /\ kills \in Nat /\ losses \in Nat

\* A device whose config holds its child's current version enforces its
\* child's current policy: "up to date" is the truth (syncSince: "null when
\* the device is already current").  Excused: an edit that still owes its
\* bump, and the instant between saving the version and applying the policy.
UpToDateIsTrue ==
    \A d \in Device :
        (/\ config[d] = policyVersion[ChildOf[d]]
         /\ phase[d] # "applying"
         /\ ~BumpOwed(ChildOf[d]))
        => SaysCurrent(held[d], d)

\* Late, lost and repeated answers never put an older policy in force: only a
\* restarted worker goes back, to none and then to the snapshot it had stored.
HeldNeverRegresses ==
    [][UNCHANGED <<kills, cached>> =>
           \A d \in Device : held'[d].version >= held[d].version]_vars

\* Once edits stop, every device comes to hold its child's current version
\* and keeps it, whatever interleaved before.
VersionArrives ==
    \A d \in Device : <>[](config[d] = policyVersion[ChildOf[d]])

\* Once edits stop, every device comes to enforce its child's current policy
\* for good, except where a failed edit lost the bump that announces it.
PolicyArrives ==
    \A d \in Device : <>[](ChildOf[d] \in lost \/ SaysCurrent(held[d], d))

-----------------------------------------------------------------------------
(* What HeldNeverRegresses rests on.  The version in config is the newest a  *)
(* device knows of; an answer under way to it is no older.                   *)

AnswerIsNew(d) ==
    phase[d] = "waiting" /\ pc[asked[d]] \in Built
        => config[d] <= call[asked[d]].snap.version

ConfigIsNewest(d) ==
    /\ config[d] <= policyVersion[ChildOf[d]]
    /\ \A s \in {held[d], stored[d], unstored[d], cached[d]} : s.version <= config[d]
    /\ phase[d] = "saving" => /\ config[d] <= inbox[d].version
                              /\ inbox[d].version <= policyVersion[ChildOf[d]]
    /\ phase[d] = "applying" => config[d] = inbox[d].version

OrderInv == \A d \in Device : AnswerIsNew(d) /\ ConfigIsNewest(d)

===============================================================================
