--------------------------- MODULE PolicySyncProofs ---------------------------
(***************************************************************************)
(* Proofs about the server together with its devices.  On either build     *)
(* versions only grow on their way to a device (OrderInv); with a          *)
(* synchronous store, and workers that are not killed between two writes   *)
(* to storage, a device that holds the current version enforces the        *)
(* current policy (SystemInv).                                             *)
(***************************************************************************)
EXTENDS PolicySync, TLAPS

------------------------------------------------------------------------------
\* The server alone: every family, every number of concurrent requests and edits.

\* Every step of the server, with any integer as the ?since= of a request:
\* what each invariant below has to survive.
AnyStep ==
    \/ ServerStep
    \/ \E h \in Handler, d \in Device, route \in Route, n \in Int :
           Request(h, d, route, n)
    \/ \E h \in Handler : Reply(h)

LEMMA NoSnapshotType == NoSnapshot \in Snapshot
  BY ParameterAssumption DEF NoSnapshot, Snapshot

LEMMA NoCallType == NoCall \in Call
  BY NoSnapshotType DEF NoCall, Call, Route

LEMMA ClampType ==
    ASSUME TypeOK, NEW d \in Device, NEW n \in Int
    PROVE  clampSyncedVersion(d, n) \in Nat
  BY DEF TypeOK, clampSyncedVersion, Smaller, Larger

LEMMA InitType == ServerInit => TypeOK
  <1> SUFFICES ASSUME ServerInit PROVE TypeOK
    OBVIOUS
  <1>1. call \in [Handler -> Call]
    BY NoCallType DEF ServerInit
  <1>2. QED
    BY <1>1, ParameterAssumption DEF ServerInit, TypeOK, PC, Waiting

\* What an edit leaves as it was.
LEMMA EditType ==
    ASSUME TypeOK, NEW e \in Editor, Edit(e) \/ FinishEdit(e) \/ EditFails(e)
    PROVE  TypeOK'
  <1> USE DEF Owe, Run, StartEdit, MayRun, rows, Item
  <1>1. ASSUME NEW c \in Child, NEW p \in Posture, setDefaults(e, c, p) PROVE TypeOK'
    BY <1>1 DEF TypeOK, setDefaults
  <1>2. ASSUME NEW r \in Rule, addRule(e, r) PROVE TypeOK'
    <2>1. bumpForScope(ScopeOf[r]) \subseteq Child
      BY ScopeAssumption DEF bumpForScope, Scope
    <2>2. QED
      BY <1>2, <2>1 DEF TypeOK, addRule
  <1>3. ASSUME NEW r \in Rule, removeRule(e, r) PROVE TypeOK'
    BY <1>3 DEF TypeOK, removeRule
  <1>4. ASSUME NEW g \in Grant, decide(e, g) PROVE TypeOK'
    <2>1. ChildOf[Asker[g]] \in Child
      BY FamilyAssumption, ScopeAssumption
    <2>2. QED
      BY <1>4, <2>1 DEF TypeOK, decide
  <1>5. ASSUME NEW g \in Grant, revokeGrant(e, g) PROVE TypeOK'
    BY <1>5 DEF TypeOK, revokeGrant
  <1>6. ASSUME NEW g \in Grant, NEW d \in Device, consumeGrant(e, g, d) PROVE TypeOK'
    BY <1>6, FamilyAssumption DEF TypeOK, consumeGrant
  <1>7. ASSUME deleteTemporaryRule(e) PROVE TypeOK'
    <2>1. found[e] \in Grant
      BY <1>7 DEF TypeOK, deleteTemporaryRule
    <2>2. bumpForScope(ScopeOf[found[e]]) \subseteq Child
      BY <2>1, ScopeAssumption DEF bumpForScope, Scope
    <2>3. QED
      BY <1>7, <2>2 DEF TypeOK, deleteTemporaryRule
  <1>8. ASSUME NEW c \in Child, bumpPolicyVersion(e, c) PROVE TypeOK'
    BY <1>8 DEF TypeOK, bumpPolicyVersion
  <1>9. ASSUME EditFails(e) PROVE TypeOK'
    BY <1>9 DEF TypeOK, EditFails
  <1>10. QED
    BY <1>1, <1>2, <1>3, <1>4, <1>5, <1>6, <1>7, <1>8, <1>9 DEF Edit, FinishEdit

LEMMA HandleType ==
    ASSUME TypeOK, NEW h \in Handler, Handle(h) \/ HandlerFails(h)
    PROVE  TypeOK'
  <1> DEFINE d == call[h].device
  <1> USE DEF Go, Run, MayRun, Locals, Quiet, rows, editorVars
  <1>d. pc[h] # "free" => d \in Device /\ ChildOf[d] \in Child
    BY FamilyAssumption DEF TypeOK
  <1>c. pc[h] # "free" => clampSyncedVersion(d, call[h].since) \in Nat
    BY <1>d, ClampType DEF TypeOK, Call
  <1>s. /\ call[h] \in Call
        /\ call[h].snap \in Snapshot
    BY DEF TypeOK, Call
  \* A step that moves pc among its values and keeps call well-typed.
  <1>k. ASSUME call' \in [Handler -> Call],
               pc' \in [Handler -> PC],
               \A k \in Handler : call'[k].device = call[k].device,
               \A k \in Handler : pc'[k] # "free" => pc[k] # "free",
               turn' \in {None} \cup Handler \cup Editor,
               lastSyncedVersion' \in [Device -> Nat],
               built' \in [Device -> Nat],
               failures' \in Nat,
               UNCHANGED <<rows, expired, editorVars>>
        PROVE  TypeOK'
    BY <1>k DEF TypeOK
  <1>1. CASE Greet(h) \/ Touch(h)
    <2>1. PICK to \in PC : /\ pc[h] # "free"
                           /\ pc' = [pc EXCEPT ![h] = to]
                           /\ turn' \in {None, h}
      BY <1>1 DEF Greet, Touch, PC, Waiting, HeartbeatReadPC, HeartbeatWritePC
    <2>2. call' = [call EXCEPT ![h].note = clampSyncedVersion(d, call[h].since)]
      BY <1>1 DEF Greet, Touch
    <2>3. UNCHANGED <<rows, expired, editorVars, failures, lastSyncedVersion, built>>
      BY <1>1 DEF Greet, Touch
    <2>4. QED
      BY <2>1, <2>2, <2>3, <1>c, <1>s, <1>k DEF TypeOK, Call
  <1>2. CASE HeartbeatRead(h)
    <2>1. PICK to \in PC : /\ pc[h] # "free"
                           /\ pc' = [pc EXCEPT ![h] = to]
                           /\ turn' \in {None, h}
      BY <1>2 DEF HeartbeatRead, PC, Waiting, HeartbeatReadPC, HeartbeatWritePC
    <2>2. QED
      BY <1>2, <2>1, <1>d, <1>s, <1>k DEF TypeOK, HeartbeatRead, Call
  <1>3. CASE HeartbeatWrite(h)
    <2>1. PICK to \in PC : /\ pc[h] # "free"
                           /\ pc' = [pc EXCEPT ![h] = to]
                           /\ turn' \in {None, h}
      BY <1>3 DEF HeartbeatWrite, PC, Waiting, HeartbeatReadPC, HeartbeatWritePC
    <2>2. Larger(call[h].read, call[h].note) \in Nat
      BY <1>s DEF Larger, Call
    <2>3. QED
      BY <1>3, <2>1, <2>2, <1>d, <1>s, <1>k DEF TypeOK, HeartbeatWrite, Recorded, Call
  <1>4. CASE ReadVersion(h)
    BY <1>4, <1>d, <1>k DEF TypeOK, ReadVersion, PC, Waiting, Call
  <1>5. CASE Compare(h)
    <2>1. PICK to \in PC : /\ pc[h] # "free"
                           /\ pc' = [pc EXCEPT ![h] = to]
                           /\ turn' \in {None, h}
      BY <1>5 DEF Compare, PC, Waiting, HeartbeatReadPC, HeartbeatWritePC
    <2>2. QED
      BY <1>5, <2>1, <1>s, <1>k DEF TypeOK, Compare, Call
  <1>6. CASE Wake(h)
    BY <1>6, <1>k DEF TypeOK, Wake, PC, Waiting, Call
  <1>7. CASE ReadDefaults(h)
    BY <1>7, <1>d, <1>s, <1>k DEF TypeOK, ReadDefaults, PC, Waiting, Call, Snapshot
  <1>8. CASE ReadRules(h)
    BY <1>8, <1>d, <1>s, <1>k DEF TypeOK, ReadRules, CurrentRules, PC, Waiting, Call, Snapshot
  <1>9. CASE ReadGrants(h)
    BY <1>9, <1>d, <1>s, <1>k DEF TypeOK, ReadGrants, PC, Waiting, Call, Snapshot
  <1>10. CASE Stamp(h)
    BY <1>10, <1>d, <1>s, <1>k DEF TypeOK, Stamp, PC, Waiting, Call, Snapshot, Larger
  <1>11. CASE Signed(h)
    BY <1>11, <1>d, <1>s, <1>k DEF TypeOK, Signed, PC, Waiting, Call, Snapshot, HeartbeatReadPC
  <1>12. CASE HandlerFails(h)
    BY <1>12, <1>k DEF TypeOK, HandlerFails, PC, Waiting
  <1>13. QED
    BY <1>1, <1>2, <1>3, <1>4, <1>5, <1>6, <1>7, <1>8, <1>9, <1>10, <1>11, <1>12 DEF Handle

LEMMA TypeStep == ASSUME TypeOK, AnyStep PROVE TypeOK'
  <1>1. ASSUME NEW h \in Handler, NEW d \in Device, NEW route \in Route,
               NEW n \in Int, Request(h, d, route, n)
        PROVE  TypeOK'
    <2>1. [NoCall EXCEPT !.device = d, !.route = route, !.since = n] \in Call
      BY NoCallType DEF Call
    <2>2. First(route) \in PC
      BY DEF First, Route, PC, Waiting
    <2>3. call' \in [Handler -> Call] /\ pc' \in [Handler -> PC]
      BY <1>1, <2>1, <2>2 DEF TypeOK, Request, Go
    <2>4. call'[h].device = d /\ \A k \in Handler \ {h} : call'[k] = call[k] /\ pc'[k] = pc[k]
      BY <1>1, NoCallType DEF TypeOK, Request, Go, Call
    <2>5. \A k \in Handler : pc'[k] # "free" => call'[k].device \in Device
      BY <2>4 DEF TypeOK
    <2>6. turn' \in {None} \cup Handler \cup Editor
      BY <1>1 DEF Request, Go, Run
    <2>7. QED
      BY <1>1, <2>3, <2>5, <2>6 DEF TypeOK, Request, Locals, Quiet, rows, editorVars
  <1>2. ASSUME NEW h \in Handler, Reply(h) PROVE TypeOK'
    BY <1>2, NoCallType DEF TypeOK, Reply, PC, Waiting, Locals, Quiet, rows, editorVars
  <1>3. ASSUME NEW g \in Grant, Expire(g) PROVE TypeOK'
    BY <1>3 DEF TypeOK, Expire, rows, editorVars
  <1>4. QED
    BY <1>1, <1>2, <1>3, EditType, HandleType DEF AnyStep, ServerStep

LEMMA NextIsAnyStep == ASSUME TypeOK, ServerNext PROVE AnyStep
  <1>1. \A d \in Device : SinceValue(d) \subseteq Int
    <2>1. \A d \in Device : policyVersion[ChildOf[d]] \in Nat
      BY FamilyAssumption DEF TypeOK
    <2>2. \A v \in Nat : -1 .. v \cup Claim \subseteq Int
      BY ParameterAssumption
    <2>3. QED
      BY <2>1, <2>2 DEF SinceValue
  <1>2. QED
    BY <1>1 DEF ServerNext, AnyStep

LEMMA TypeStutter == ASSUME TypeOK, UNCHANGED serverVars PROVE TypeOK'
  BY DEF TypeOK, serverVars, rows, editorVars

\* Every reachable state of the server, against any clients, is well-typed:
\* the ids, versions and local variables of the handlers are what their
\* declarations in services.ts and api.ts say they are.
THEOREM TypeCorrect == ServerSpec => []TypeOK
  <1>1. TypeOK /\ [ServerNext]_serverVars => TypeOK'
    BY NextIsAnyStep, TypeStep, TypeStutter
  <1>2. QED
    BY InitType, <1>1, PTL DEF ServerSpec

-----------------------------------------------------------------------------
(* Frames: what each kind of step leaves alone.                            *)

LEMMA EditFrame ==
    ASSUME TypeOK, NEW e \in Editor, Edit(e) \/ FinishEdit(e) \/ EditFails(e)
    PROVE  /\ UNCHANGED <<pc, call, built, lastSyncedVersion, expired>>
           /\ \A c \in Child : policyVersion'[c] >= policyVersion[c]
  <1>1. \A c \in Child : policyVersion[c] \in Nat
    BY DEF TypeOK
  <1>2. CASE Edit(e)
    <2>1. UNCHANGED <<pc, call, built, lastSyncedVersion, expired, policyVersion>>
      BY <1>2 DEF Edit, setDefaults, addRule, removeRule, decide, revokeGrant, consumeGrant, rows
    <2>2. QED
      BY <1>1, <2>1
  <1>3. CASE deleteTemporaryRule(e) \/ EditFails(e)
    BY <1>1, <1>3 DEF deleteTemporaryRule, EditFails, rows
  <1>4. ASSUME NEW c \in Child, bumpPolicyVersion(e, c)
        PROVE  /\ UNCHANGED <<pc, call, built, lastSyncedVersion, expired>>
               /\ policyVersion' = [policyVersion EXCEPT ![c] = @ + 1]
    BY <1>4 DEF bumpPolicyVersion
  <1>5. ASSUME NEW c \in Child, bumpPolicyVersion(e, c)
        PROVE  \A x \in Child : policyVersion'[x] >= policyVersion[x]
    BY <1>1, <1>4, <1>5 DEF TypeOK
  <1>6. QED
    BY <1>2, <1>3, <1>4, <1>5 DEF FinishEdit

LEMMA HandleFrame ==
    ASSUME TypeOK, NEW h \in Handler, Handle(h) \/ HandlerFails(h)
    PROVE  /\ UNCHANGED <<rows, expired, editorVars>>
           /\ \A k \in Handler \ {h} : pc'[k] = pc[k] /\ call'[k] = call[k]
           /\ call[h].device \in Device
           /\ call'[h].device = call[h].device
           /\ \A d \in Device : built'[d] >= built[d]
  <1> USE DEF Go, Locals, Quiet
  <1>1. pc[h] # "free"
    BY DEF Handle, HandlerFails, Greet, Touch, HeartbeatRead, HeartbeatWrite, ReadVersion,
           Compare, Wake, ReadDefaults, ReadRules, ReadGrants, Stamp, Signed
  <1>2. call[h].device \in Device /\ call[h] \in Call
    BY <1>1 DEF TypeOK
  <1>3. UNCHANGED <<rows, expired, editorVars>>
    BY DEF Handle, HandlerFails, Greet, Touch, HeartbeatRead, HeartbeatWrite, ReadVersion,
           Compare, Wake, ReadDefaults, ReadRules, ReadGrants, Stamp, Signed
  <1>4. \A k \in Handler \ {h} : pc'[k] = pc[k] /\ call'[k] = call[k]
    <2>1. \A k \in Handler \ {h} : pc'[k] = pc[k]
      BY DEF TypeOK, Handle, HandlerFails, Greet, Touch, HeartbeatRead, HeartbeatWrite,
             ReadVersion, Compare, Wake, ReadDefaults, ReadRules, ReadGrants, Stamp, Signed
    <2>2. CASE Greet(h) \/ Touch(h)
      BY <2>1, <2>2 DEF TypeOK, Greet, Touch
    <2>3. CASE HeartbeatRead(h) \/ HeartbeatWrite(h)
      <3>1. call' = [call EXCEPT ![h] = call'[h]]
        BY <2>3 DEF TypeOK, HeartbeatRead, HeartbeatWrite
      <3>2. QED
        BY <2>1, <3>1 DEF TypeOK
    <2>4. CASE ReadVersion(h) \/ Compare(h) \/ Wake(h) \/ Signed(h) \/ HandlerFails(h)
      BY <2>4 DEF TypeOK, ReadVersion, Compare, Wake, Signed, HandlerFails
    <2>5. CASE ReadDefaults(h)
      BY <2>1, <2>5 DEF TypeOK, ReadDefaults
    <2>6. CASE ReadRules(h)
      BY <2>1, <2>6 DEF TypeOK, ReadRules
    <2>7. CASE ReadGrants(h)
      BY <2>1, <2>7 DEF TypeOK, ReadGrants
    <2>8. CASE Stamp(h)
      BY <2>1, <2>8 DEF TypeOK, Stamp
    <2>9. QED
      BY <2>1, <2>2, <2>3, <2>4, <2>5, <2>6, <2>7, <2>8 DEF Handle
  <1>5. call'[h].device = call[h].device
    <2>1. CASE Greet(h) \/ Touch(h)
      BY <1>2, <2>1 DEF TypeOK, Call, Greet, Touch
    <2>2. CASE HeartbeatRead(h)
      BY <1>2, <2>2 DEF TypeOK, Call, HeartbeatRead
    <2>3. CASE HeartbeatWrite(h)
      BY <1>2, <2>3 DEF TypeOK, Call, HeartbeatWrite
    <2>4. CASE ReadVersion(h) \/ Compare(h) \/ Wake(h) \/ HandlerFails(h)
      <3>1. CASE ReadVersion(h)
        BY <1>2, <3>1 DEF TypeOK, Call, ReadVersion
      <3>2. CASE Compare(h)
        BY <1>2, <3>2 DEF TypeOK, Call, Compare
      <3>3. CASE Wake(h) \/ HandlerFails(h)
        BY <3>3 DEF Wake, HandlerFails
      <3>4. QED
        BY <2>4, <3>1, <3>2, <3>3
    <2>5. CASE ReadDefaults(h)
      BY <1>2, <2>5 DEF TypeOK, Call, ReadDefaults
    <2>6. CASE ReadRules(h)
      BY <1>2, <2>6 DEF TypeOK, Call, ReadRules
    <2>7. CASE ReadGrants(h)
      BY <1>2, <2>7 DEF TypeOK, Call, ReadGrants
    <2>8. CASE Stamp(h)
      BY <1>2, <2>8 DEF TypeOK, Call, Stamp
    <2>9. CASE Signed(h)
      BY <1>2, <2>9 DEF TypeOK, Call, Signed
    <2>10. QED
      BY <2>1, <2>2, <2>3, <2>4, <2>5, <2>6, <2>7, <2>8, <2>9 DEF Handle
  <1>6. \A d \in Device : built'[d] >= built[d]
    <2>1. \A d \in Device : built[d] \in Nat
      BY DEF TypeOK
    <2>2. CASE Stamp(h)
      <3>1. policyVersion[ChildOf[call[h].device]] \in Nat
        BY <1>2, FamilyAssumption DEF TypeOK
      <3>2. QED
        BY <2>1, <2>2, <3>1 DEF Stamp, Larger, TypeOK
    <2>3. CASE ~Stamp(h)
      <3>1. built' = built
        BY <2>3 DEF Handle, HandlerFails, Greet, Touch, HeartbeatRead, HeartbeatWrite, ReadVersion,
           Compare, Wake, ReadDefaults, ReadRules, ReadGrants, Signed
      <3>2. QED
        BY <2>1, <3>1
    <2>4. QED
      BY <2>2, <2>3
  <1>7. QED
    BY <1>2, <1>3, <1>4, <1>5, <1>6

\* A request that arrives or is answered changes one handler, and leaves it
\* where no invariant below speaks of it.
Boundary == {"free", "greet", "version", "defaults"}

LEMMA BoundaryFrame ==
    ASSUME TypeOK, NEW h \in Handler,
           \/ \E d \in Device, route \in Route, n \in Int : Request(h, d, route, n)
           \/ Reply(h)
    PROVE  /\ UNCHANGED <<rows, expired, editorVars, lastSyncedVersion, built>>
           /\ \A k \in Handler \ {h} : pc'[k] = pc[k] /\ call'[k] = call[k]
           /\ pc'[h] \in Boundary
  BY DEF TypeOK, Boundary, Request, Reply, Go, First, Route, Locals, Quiet

-----------------------------------------------------------------------------
(* The record of a device.                                                 *)

LEMMA RecordInit == ServerInit => RecordInv
  BY FamilyAssumption DEF ServerInit, RecordInv, NeverMoreThanSent, HeartbeatReadPC,
     HeartbeatWritePC, Built

LEMMA RecordStep == ASSUME TypeOK, RecordInv, AnyStep PROVE RecordInv'
  <1> USE DEF RecordInv, NeverMoreThanSent
  <1>t. /\ \A d \in Device : /\ built[d] \in Nat /\ lastSyncedVersion[d] \in Nat
                             /\ ChildOf[d] \in Child /\ policyVersion[ChildOf[d]] \in Nat
        /\ \A h \in Handler : call[h] \in Call
    BY FamilyAssumption DEF TypeOK
  <1>p. /\ HeartbeatReadPC \cap HeartbeatWritePC = {}
        /\ Boundary \cap (HeartbeatReadPC \cup HeartbeatWritePC \cup Built) = {}
        /\ "free" \notin HeartbeatReadPC \cup HeartbeatWritePC \cup Built
    BY DEF HeartbeatReadPC, HeartbeatWritePC, Built, Boundary
  <1>o. TypeOK'
    BY TypeStep
  <1>1. ASSUME NEW e \in Editor, Edit(e) \/ FinishEdit(e) \/ EditFails(e)
        PROVE  RecordInv'
    <2>1. /\ UNCHANGED <<pc, call, built, lastSyncedVersion, expired>>
          /\ \A c \in Child : policyVersion'[c] >= policyVersion[c]
      BY <1>1, EditFrame
    <2>2. \A d \in Device : policyVersion'[ChildOf[d]] \in Nat
      BY <1>o, FamilyAssumption DEF TypeOK
    <2>3. QED
      BY <2>1, <2>2, <1>t
  <1>2. ASSUME NEW h \in Handler, Handle(h) \/ HandlerFails(h)
        PROVE  RecordInv'
    <2> DEFINE d == call[h].device
    <2>1. /\ UNCHANGED <<rows, expired, editorVars>>
          /\ \A k \in Handler \ {h} : pc'[k] = pc[k] /\ call'[k] = call[k]
          /\ d \in Device
          /\ call'[h].device = d
          /\ \A x \in Device : built'[x] >= built[x] /\ built'[x] \in Nat
      BY <1>2, <1>o, HandleFrame DEF TypeOK
    <2>2. ASSUME NEW k \in Handler \ {h}
          PROVE  LET sent == built'[call'[k].device] IN
                 /\ pc'[k] \in HeartbeatReadPC \cup HeartbeatWritePC => call'[k].note <= sent
                 /\ pc'[k] \in HeartbeatWritePC => call'[k].read <= sent
                 /\ pc'[k] \in Built => call'[k].snap.version <= sent
      <3>1. CASE pc[k] = "free"
        BY <3>1, <2>1, <1>p
      <3>2. CASE pc[k] # "free"
        <4>1. call[k].device \in Device /\ call[k].note \in Nat /\ call[k].read \in Nat
              /\ call[k].snap.version \in Nat
          BY <3>2 DEF TypeOK, Call, Snapshot
        <4>2. QED
          BY <2>1, <4>1, <1>t
      <3>3. QED
        BY <3>1, <3>2
    <2>3. ASSUME \A x \in Device : lastSyncedVersion'[x] <= built'[x] /\ built'[x] <= policyVersion'[ChildOf[x]],
                 pc'[h] \in HeartbeatReadPC \cup HeartbeatWritePC => call'[h].note <= built'[d],
                 pc'[h] \in HeartbeatWritePC => call'[h].read <= built'[d],
                 pc'[h] \in Built => call'[h].snap.version <= built'[d]
          PROVE  RecordInv'
      BY <2>1, <2>2, <2>3
    <2> USE DEF Go, Locals, Quiet, rows
    <2>n. /\ call[h].note \in Nat /\ call[h].read \in Nat /\ call[h].since \in Int
          /\ call[h].snap \in Snapshot /\ call[h].snap.version \in Nat
      BY <1>t DEF Call, Snapshot
    <2>4. CASE Greet(h) \/ Touch(h)
      <3>1. clampSyncedVersion(d, call[h].since) <= built[d]
        BY <2>1, <2>n, <1>t DEF clampSyncedVersion, Smaller, Larger
      <3>2. /\ call'[h].note = clampSyncedVersion(d, call[h].since)
            /\ pc'[h] \in {"greetRead", "touchRead"}
            /\ UNCHANGED <<lastSyncedVersion, built, policyVersion>>
        BY <2>4, <1>t DEF Greet, Touch, TypeOK, Call
      <3>3. QED
        BY <3>1, <3>2, <2>3 DEF HeartbeatReadPC, HeartbeatWritePC, Built
    <2>5. CASE HeartbeatRead(h)
      <3>1. /\ call'[h].read = lastSyncedVersion[d]
            /\ call'[h].note = call[h].note
            /\ call'[h].snap = call[h].snap
            /\ pc[h] \in HeartbeatReadPC
            /\ pc'[h] \in HeartbeatWritePC
            /\ pc'[h] \in Built => pc[h] \in Built
            /\ UNCHANGED <<lastSyncedVersion, built, policyVersion>>
        BY <2>5, <1>t DEF HeartbeatRead, TypeOK, Call, HeartbeatReadPC, HeartbeatWritePC, Built
      <3>2. QED
        BY <3>1, <2>1, <2>3
    <2>6. CASE HeartbeatWrite(h)
      <3>1. /\ lastSyncedVersion' = [lastSyncedVersion EXCEPT ![d] = Larger(call[h].read, call[h].note)]
            /\ call'[h].snap = call[h].snap
            /\ pc[h] \in HeartbeatWritePC
            /\ pc'[h] \notin HeartbeatReadPC \cup HeartbeatWritePC
            /\ pc'[h] \in Built => pc[h] \in Built
            /\ UNCHANGED <<built, policyVersion>>
        BY <2>6, <1>t DEF HeartbeatWrite, Recorded, TypeOK, Call, HeartbeatReadPC, HeartbeatWritePC, Built
      <3>2. Larger(call[h].read, call[h].note) <= built[d]
        BY <3>1 DEF Larger
      <3>3. \A x \in Device : lastSyncedVersion'[x] <= built'[x]
        BY <3>1, <3>2 DEF TypeOK
      <3>4. QED
        BY <3>1, <3>3, <2>3
    <2>7. CASE ReadVersion(h) \/ Compare(h) \/ Wake(h) \/ ReadDefaults(h) \/ ReadRules(h)
               \/ ReadGrants(h) \/ HandlerFails(h)
      <3>1. UNCHANGED <<lastSyncedVersion, built, policyVersion>>
        BY <2>7 DEF ReadVersion, Compare, Wake, ReadDefaults, ReadRules, ReadGrants, HandlerFails
      <3>2. pc'[h] \notin HeartbeatReadPC \cup HeartbeatWritePC \cup Built
        BY <2>7 DEF ReadVersion, Compare, Wake, ReadDefaults, ReadRules, ReadGrants, HandlerFails,
                    HeartbeatReadPC, HeartbeatWritePC, Built, TypeOK
      <3>3. QED
        BY <3>1, <3>2, <2>3
    <2>8. CASE Stamp(h)
      <3> DEFINE v == policyVersion[ChildOf[d]]
      <3>1. /\ built' = [built EXCEPT ![d] = Larger(@, v)]
            /\ UNCHANGED <<lastSyncedVersion, policyVersion>>
            /\ pc'[h] = "signing"
        BY <2>8 DEF Stamp, TypeOK
      <3>2. call'[h].snap.version = v
        BY <2>8, <1>t, <2>n DEF Stamp, TypeOK, Call, Snapshot
      <3>3. built'[d] = v /\ \A x \in Device \ {d} : built'[x] = built[x]
        BY <3>1, <2>1, <1>t DEF Larger, TypeOK
      <3>4. \A x \in Device : lastSyncedVersion'[x] <= built'[x] /\ built'[x] <= policyVersion'[ChildOf[x]]
        BY <3>1, <3>3, <2>1, <1>t
      <3>5. pc'[h] \notin HeartbeatReadPC \cup HeartbeatWritePC
        BY <3>1 DEF HeartbeatReadPC, HeartbeatWritePC
      <3>6. v \in Nat /\ call'[h].snap.version <= built'[d]
        BY <3>2, <3>3, <2>1, <1>t
      <3>7. QED
        BY <3>4, <3>5, <3>6, <2>3
    <2>9. CASE Signed(h)
      <3>1. /\ call'[h].note = call[h].snap.version
            /\ call'[h].snap = call[h].snap
            /\ pc[h] = "signing"
            /\ pc'[h] = "noteRead"
            /\ UNCHANGED <<lastSyncedVersion, built, policyVersion>>
        BY <2>9, <1>t DEF Signed, TypeOK, Call
      <3>2. QED
        BY <3>1, <2>3 DEF HeartbeatReadPC, HeartbeatWritePC, Built
    <2>10. QED
      BY <1>2, <2>4, <2>5, <2>6, <2>7, <2>8, <2>9 DEF Handle
  <1>3. ASSUME NEW h \in Handler,
               \/ \E d \in Device, route \in Route, n \in Int : Request(h, d, route, n)
               \/ Reply(h)
        PROVE  RecordInv'
    BY <1>3, <1>p, BoundaryFrame DEF rows
  <1>4. ASSUME NEW g \in Grant, Expire(g) PROVE RecordInv'
    BY <1>4 DEF Expire, rows
  <1>5. QED
    BY <1>1, <1>2, <1>3, <1>4 DEF AnyStep, ServerStep

LEMMA RecordStutter == ASSUME RecordInv, UNCHANGED serverVars PROVE RecordInv'
  BY DEF RecordInv, NeverMoreThanSent, serverVars, rows, editorVars

\* With either kind of store, whatever versions devices claim and however
\* handlers interleave or fail, the recorded version of a device is one the
\* server signed for it (clampSyncedVersion and heartbeat).
THEOREM RecordIsNeverAhead == ServerSpec => []NeverMoreThanSent
  <1>1. TypeOK /\ RecordInv /\ [ServerNext]_serverVars => RecordInv'
    BY NextIsAnyStep, RecordStep, RecordStutter
  <1>2. RecordInv => NeverMoreThanSent
    BY DEF RecordInv
  <1>3. QED
    BY TypeCorrect, RecordInit, <1>1, <1>2, PTL DEF ServerSpec

-----------------------------------------------------------------------------
(* The event loop, with a synchronous store.                               *)

\* Who may take a step finds everybody else at rest.
LEMMA Exclusive ==
    ASSUME SyncStore, TypeOK, TurnDiscipline, NEW a \in Handler \cup Editor, MayRun(a)
    PROVE  /\ \A h \in Handler \ {a} : pc[h] \in Waiting
           /\ \A e \in Editor \ {a} : EditorIdle(e)
  BY FamilyAssumption DEF MayRun, TurnDiscipline

LEMMA TurnInit == ServerInit => TurnDiscipline
  BY DEF ServerInit, TurnDiscipline, Waiting, EditorIdle

LEMMA TurnEdit ==
    ASSUME SyncStore, TypeOK, TurnDiscipline, NEW e \in Editor,
           Edit(e) \/ FinishEdit(e) \/ EditFails(e)
    PROVE  TurnDiscipline'
  <1>1. MayRun(e)
    BY DEF Edit, FinishEdit, EditFails, setDefaults, addRule, removeRule, decide, revokeGrant,
           consumeGrant, deleteTemporaryRule, bumpPolicyVersion, StartEdit
  <1>2. /\ \A h \in Handler : pc'[h] \in Waiting
        /\ \A x \in Editor \ {e} : EditorIdle(x)
    BY <1>1, Exclusive, EditFrame, FamilyAssumption
  <1> SUFFICES ASSUME /\ \A x \in Editor \ {e} : found'[x] = found[x] /\ todo'[x] = todo[x]
                      /\ found'[e] = None \/ todo'[e] = {}
                      /\ found'[e] # None \/ todo'[e] # {} => turn' = e
                      => TurnDiscipline'
               PROVE  TurnDiscipline'
    BY <1>2 DEF TurnDiscipline, EditorIdle
  <1> USE DEF StartEdit, Owe, Run, EditorIdle, TypeOK
  <1>3. CASE Edit(e)
    <2>1. ASSUME NEW g \in Grant, revokeGrant(e, g) PROVE TurnDiscipline'
      BY <2>1 DEF revokeGrant
    <2>2. ASSUME NEW S \in SUBSET Child, EditorIdle(e), Owe(e, S), UNCHANGED found
          PROVE  TurnDiscipline'
      BY <2>2
    <2>3. CASE \E c \in Child, q \in Posture : setDefaults(e, c, q)
      BY <2>2, <2>3 DEF setDefaults
    <2>4. CASE \E r \in Rule : addRule(e, r) \/ removeRule(e, r)
      BY <2>2, <2>4, ScopeAssumption DEF addRule, removeRule, bumpForScope, Scope, Item
    <2>5. CASE \E g \in Grant : decide(e, g)
      <3>1. \A g \in Grant : ChildOf[Asker[g]] \in Child
        BY FamilyAssumption, ScopeAssumption
      <3>2. QED
        BY <2>2, <2>5, <3>1 DEF decide
    <2>6. CASE \E g \in Grant, d \in Device : consumeGrant(e, g, d)
      BY <2>2, <2>6, FamilyAssumption DEF consumeGrant
    <2>7. QED
      BY <1>3, <2>1, <2>3, <2>4, <2>5, <2>6 DEF Edit
  <1>4. CASE deleteTemporaryRule(e)
    BY <1>4 DEF deleteTemporaryRule
  <1>5. ASSUME NEW c \in Child, bumpPolicyVersion(e, c) PROVE TurnDiscipline'
    <2>1. found[e] = None
      BY <1>5 DEF bumpPolicyVersion, TurnDiscipline
    <2>2. QED
      BY <1>5, <2>1 DEF bumpPolicyVersion
  <1>6. CASE EditFails(e)
    BY <1>6 DEF EditFails
  <1>7. QED
    BY <1>3, <1>4, <1>5, <1>6 DEF FinishEdit

LEMMA TurnHandle ==
    ASSUME SyncStore, TypeOK, TurnDiscipline, NEW h \in Handler,
           \/ Handle(h) \/ HandlerFails(h)
           \/ \E d \in Device, route \in Route, n \in Int : Request(h, d, route, n)
    PROVE  TurnDiscipline'
  <1>1. /\ MayRun(h)
        /\ pc'[h] \notin Waiting => turn' = h
        /\ UNCHANGED <<found, todo>>
        /\ \A k \in Handler \ {h} : pc'[k] = pc[k]
    <2>1. ASSUME NEW from, NEW to, Go(h, from, to)
          PROVE  /\ MayRun(h)
                 /\ pc'[h] \notin Waiting => turn' = h
                 /\ \A k \in Handler \ {h} : pc'[k] = pc[k]
      BY <2>1 DEF Go, Run, TypeOK
    <2>2. CASE Handle(h) \/ \E d \in Device, route \in Route, n \in Int : Request(h, d, route, n)
      <3>1. \E from, to : Go(h, from, to)
        BY <2>2 DEF Handle, Request, Greet, Touch, HeartbeatRead, HeartbeatWrite, ReadVersion,
                    Compare, Wake, ReadDefaults, ReadRules, ReadGrants, Stamp, Signed
      <3>2. UNCHANGED <<found, todo>>
        BY <2>2 DEF Handle, Request, Greet, Touch, HeartbeatRead, HeartbeatWrite, ReadVersion,
                    Compare, Wake, ReadDefaults, ReadRules, ReadGrants, Stamp, Signed,
                    Locals, Quiet, editorVars
      <3>3. QED
        BY <2>1, <3>1, <3>2
    <2>3. CASE HandlerFails(h)
      BY <2>3 DEF HandlerFails, Run, TypeOK, Waiting, editorVars
    <2>4. QED
      BY <2>2, <2>3
  <1>2. /\ \A k \in Handler \ {h} : pc[k] \in Waiting
        /\ \A e \in Editor : EditorIdle(e)
    BY <1>1, Exclusive, FamilyAssumption
  <1>3. QED
    BY <1>1, <1>2 DEF TurnDiscipline, EditorIdle

LEMMA TurnStep ==
    ASSUME SyncStore, TypeOK, TurnDiscipline, AnyStep
    PROVE  TurnDiscipline'
  <1>1. ASSUME NEW h \in Handler, Reply(h) PROVE TurnDiscipline'
    BY <1>1 DEF Reply, TurnDiscipline, EditorIdle, TypeOK, Waiting, Locals, Quiet, editorVars
  <1>2. ASSUME NEW g \in Grant, Expire(g) PROVE TurnDiscipline'
    BY <1>2 DEF Expire, TurnDiscipline, EditorIdle, editorVars
  <1>3. QED
    BY <1>1, <1>2, TurnEdit, TurnHandle DEF AnyStep, ServerStep

-----------------------------------------------------------------------------
(* A version names a policy, with a synchronous store.                     *)

\* A scope reaches a device only if its edits bump the version of the
\* device's child.
LEMMA ScopeIsBumped ==
    ASSUME NEW i \in Item, NEW d \in Device, appliesToChildDevice(ScopeOf[i], d)
    PROVE  ChildOf[d] \in bumpForScope(ScopeOf[i])
  BY FamilyAssumption, ScopeAssumption DEF appliesToChildDevice, bumpForScope, Scope

\* The same of a grant and the one bump of decide.
LEMMA GrantIsBumped ==
    ASSUME GrantsStayWithTheChild, NEW g \in Grant, NEW d \in Device,
           appliesToChildDevice(ScopeOf[g], d)
    PROVE  ChildOf[d] = ChildOf[Asker[g]]
  BY FamilyAssumption, ScopeAssumption
     DEF appliesToChildDevice, GrantsStayWithTheChild, mapScope, Item

\* An edit changes the policy only of devices whose child's bump it then owes.
SamePolicy(d) ==
    /\ defaults'[ChildOf[d]] = defaults[ChildOf[d]]
    /\ CurrentRules(d)' = CurrentRules(d)
    /\ CurrentGrants(d)' = CurrentGrants(d)

LEMMA EditAnnounces ==
    ASSUME TypeOK, GrantsStayWithTheChild, NEW e \in Editor,
           Edit(e) \/ FinishEdit(e) \/ EditFails(e), NEW d \in Device,
           ChildOf[d] \notin todo'[e]
    PROVE  SamePolicy(d)
  <1> USE DEF SamePolicy, CurrentRules, CurrentGrants, Owe, rows
  <1>e. /\ expired' = expired
        /\ ChildOf[d] \in Child
    BY EditFrame, FamilyAssumption
  <1>1. ASSUME NEW c \in Child, NEW p \in Posture, setDefaults(e, c, p) PROVE SamePolicy(d)
    BY <1>1, <1>e DEF setDefaults, TypeOK
  <1>2. ASSUME NEW r \in Rule, addRule(e, r) PROVE SamePolicy(d)
    <2>1. ~appliesToChildDevice(ScopeOf[r], d)
      BY <1>2, ScopeIsBumped DEF addRule, TypeOK, Item
    <2>2. QED
      BY <1>2, <2>1, <1>e DEF addRule
  <1>3. ASSUME NEW r \in Rule, removeRule(e, r) PROVE SamePolicy(d)
    BY <1>3, <1>e DEF removeRule, TypeOK
  <1>4. ASSUME NEW g \in Grant, decide(e, g) PROVE SamePolicy(d)
    <2>1. ~appliesToChildDevice(ScopeOf[g], d)
      BY <1>4, GrantIsBumped DEF decide, TypeOK
    <2>2. QED
      BY <1>4, <2>1, <1>e DEF decide
  <1>5. ASSUME NEW g \in Grant, revokeGrant(e, g) PROVE SamePolicy(d)
    BY <1>5, <1>e DEF revokeGrant
  <1>6. ASSUME NEW g \in Grant, NEW x \in Device, consumeGrant(e, g, x) PROVE SamePolicy(d)
    <2>1. appliesToChildDevice(ScopeOf[g], x)
      BY <1>6 DEF consumeGrant
    <2>2. ChildOf[x] = ChildOf[Asker[g]]
      BY <2>1, GrantIsBumped
    <2>3. ~appliesToChildDevice(ScopeOf[g], d)
      BY <1>6, <2>2, GrantIsBumped DEF consumeGrant, TypeOK
    <2>4. QED
      BY <1>6, <2>3, <1>e DEF consumeGrant
  <1>7. ASSUME deleteTemporaryRule(e) PROVE SamePolicy(d)
    <2>1. found[e] \in Item
      BY <1>7 DEF deleteTemporaryRule, TypeOK, Item
    <2>2. ~appliesToChildDevice(ScopeOf[found[e]], d)
      BY <1>7, <2>1, ScopeIsBumped DEF deleteTemporaryRule, TypeOK
    <2>3. QED
      BY <1>7, <2>2, <1>e DEF deleteTemporaryRule
  <1>8. ASSUME NEW c \in Child, bumpPolicyVersion(e, c) PROVE SamePolicy(d)
    BY <1>8, <1>e DEF bumpPolicyVersion
  <1>9. ASSUME EditFails(e) PROVE SamePolicy(d)
    BY <1>9, <1>e DEF EditFails
  <1>10. QED
    BY <1>1, <1>2, <1>3, <1>4, <1>5, <1>6, <1>7, <1>8, <1>9 DEF Edit, FinishEdit

\* A snapshot of d that names its policy goes on naming it through an edit:
\* the edit leaves the policy alone, or owes the bump, or gives it.
Names(s, d) ==
    /\ s.version <= policyVersion[ChildOf[d]]
    /\ (s.version = policyVersion[ChildOf[d]] /\ ~BumpOwed(ChildOf[d])) => SaysCurrent(s, d)

LEMMA NamesEdit ==
    ASSUME SyncStore, TypeOK, TurnDiscipline, GrantsStayWithTheChild, NEW e \in Editor,
           Edit(e) \/ FinishEdit(e) \/ EditFails(e),
           NEW d \in Device, NEW s \in Snapshot, Names(s, d)
    PROVE  Names(s, d)'
  <1> DEFINE c == ChildOf[d]
  <1>1. /\ c \in Child /\ policyVersion[c] \in Nat /\ policyVersion'[c] \in Nat
        /\ policyVersion'[c] >= policyVersion[c] /\ expired' = expired
        /\ s.version \in Nat
    <2>1. AnyStep
      BY DEF AnyStep, ServerStep
    <2>2. QED
      BY <2>1, TypeStep, EditFrame, FamilyAssumption DEF TypeOK, Snapshot
  <1>2. s.version <= policyVersion'[c]
    BY <1>1 DEF Names
  <1>3. SUFFICES ASSUME s.version = policyVersion'[c], ~BumpOwed(c)'
                 PROVE  SaysCurrent(s, d)'
    BY <1>2 DEF Names
  <1>4. policyVersion'[c] = policyVersion[c]
    BY <1>1, <1>3 DEF Names
  <1>5. c \notin todo'[e]
    BY <1>3 DEF BumpOwed
  <1>6. ~BumpOwed(c)
    <2>1. CASE Edit(e)
      <3>1. todo[e] = {} /\ lost' = lost /\ \A x \in Editor \ {e} : todo'[x] = todo[x]
        BY <2>1 DEF Edit, setDefaults, addRule, removeRule, decide, revokeGrant, consumeGrant,
                    StartEdit, EditorIdle, Owe, TypeOK
      <3>2. QED
        BY <3>1, <1>3 DEF BumpOwed
    <2>2. CASE deleteTemporaryRule(e)
      <3>1. todo[e] = {} /\ lost' = lost /\ \A x \in Editor \ {e} : todo'[x] = todo[x]
        BY <2>2 DEF deleteTemporaryRule, TurnDiscipline, Owe, TypeOK
      <3>2. QED
        BY <3>1, <1>3 DEF BumpOwed
    <2>3. ASSUME NEW b \in Child, bumpPolicyVersion(e, b) PROVE ~BumpOwed(c)
      <3>1. b # c
        BY <2>3, <1>1, <1>4 DEF bumpPolicyVersion, TypeOK
      <3>2. /\ lost' = lost \ {b} /\ todo'[e] = todo[e] \ {b}
            /\ \A x \in Editor \ {e} : todo'[x] = todo[x]
        BY <2>3 DEF bumpPolicyVersion, Owe, TypeOK
      <3>3. QED
        BY <3>1, <3>2, <1>3 DEF BumpOwed
    <2>4. CASE EditFails(e)
      <3>1. lost' = lost \cup todo[e] /\ \A x \in Editor \ {e} : todo'[x] = todo[x]
        BY <2>4 DEF EditFails, Owe, TypeOK
      <3>2. QED
        BY <3>1, <1>3 DEF BumpOwed
    <2>5. QED
      BY <2>1, <2>2, <2>3, <2>4 DEF FinishEdit
  <1>7. SaysCurrent(s, d)
    BY <1>3, <1>4, <1>6 DEF Names
  <1>8. SamePolicy(d)
    BY <1>5, EditAnnounces
  <1>9. QED
    BY <1>1, <1>7, <1>8 DEF SaysCurrent, SamePolicy

\* Time passing takes a grant from the policy and from what a snapshot says.
LEMMA SaysExpire ==
    ASSUME NEW g \in Grant, Expire(g), NEW d \in Device, NEW s \in Snapshot, SaysCurrent(s, d)
    PROVE  SaysCurrent(s, d)'
  <1>1. UNCHANGED <<defaults, rules, tempRules, consumed>> /\ expired' = expired \cup {g}
    BY DEF Expire, rows
  <1>2. s.temporaryRules \ expired' = (s.temporaryRules \ expired) \ {g}
    BY <1>1
  <1>3. CurrentGrants(d)' = CurrentGrants(d) \ {g}
    BY <1>1 DEF CurrentGrants
  <1>4. CurrentRules(d)' = CurrentRules(d)
    BY <1>1 DEF CurrentRules
  <1>5. QED
    BY <1>1, <1>2, <1>3, <1>4 DEF SaysCurrent

LEMMA NamesExpire ==
    ASSUME NEW g \in Grant, Expire(g), NEW d \in Device, NEW s \in Snapshot, Names(s, d)
    PROVE  Names(s, d)'
  <1>1. UNCHANGED <<policyVersion, lost, todo>>
    BY DEF Expire, rows, editorVars
  <1>2. BumpOwed(ChildOf[d])' <=> BumpOwed(ChildOf[d])
    BY <1>1 DEF BumpOwed
  <1>3. QED
    BY <1>1, <1>2, SaysExpire DEF Names

\* A step that touches no row keeps what a snapshot says.
LEMMA NamesFrame ==
    ASSUME UNCHANGED <<rows, expired, editorVars>>, NEW d \in Device, NEW s \in Snapshot
    PROVE  /\ SaysCurrent(s, d)' <=> SaysCurrent(s, d)
           /\ Names(s, d)' <=> Names(s, d)
           /\ CurrentRules(d)' = CurrentRules(d)
           /\ CurrentGrants(d)' = CurrentGrants(d)
  BY DEF Names, SaysCurrent, CurrentRules, CurrentGrants, BumpOwed, rows, editorVars

SnapshotInv ==
    \A h \in Handler : pc[h] \in Built => Names(call[h].snap, call[h].device)

SyncInv == TurnDiscipline /\ DraftInv /\ SnapshotInv

LEMMA SyncInit == ServerInit => SyncInv
  BY TurnInit DEF ServerInit, SyncInv, DraftInv, DraftAgrees, SnapshotInv, Built, HeartbeatWritePC

LEMMA SyncEdit ==
    ASSUME SyncStore, GrantsStayWithTheChild, TypeOK, SyncInv, NEW e \in Editor,
           Edit(e) \/ FinishEdit(e) \/ EditFails(e)
    PROVE  SyncInv'
  <1>1. TurnDiscipline /\ TurnDiscipline'
    BY TurnEdit DEF SyncInv
  <1>2. UNCHANGED <<pc, call>>
    BY EditFrame
  <1>3. \A h \in Handler : pc[h] \in Waiting
    <2>1. MayRun(e)
      BY DEF Edit, FinishEdit, EditFails, setDefaults, addRule, removeRule, decide, revokeGrant,
             consumeGrant, deleteTemporaryRule, bumpPolicyVersion, StartEdit
    <2>2. QED
      BY <1>1, <2>1, Exclusive, FamilyAssumption
  <1>4. DraftInv'
    BY <1>2, <1>3 DEF DraftInv, DraftAgrees, Waiting, HeartbeatWritePC
  <1>5. SnapshotInv'
    <2> SUFFICES ASSUME NEW h \in Handler, pc[h] \in Built
                 PROVE  Names(call[h].snap, call[h].device)'
      BY <1>2 DEF SnapshotInv
    <2>1. call[h].device \in Device /\ call[h].snap \in Snapshot
      BY DEF TypeOK, Built, Call
    <2>2. Names(call[h].snap, call[h].device)
      BY DEF SyncInv, SnapshotInv
    <2>3. \A x \in Device, y \in Snapshot : Names(y, x) => Names(y, x)'
      BY <1>1, NamesEdit
    <2>4. QED
      BY <1>2, <2>1, <2>2, <2>3 DEF Names, SaysCurrent, CurrentRules, CurrentGrants, BumpOwed
  <1>6. QED
    BY <1>1, <1>4, <1>5 DEF SyncInv

LEMMA SyncHandle ==
    ASSUME SyncStore, TypeOK, RecordInv, SyncInv, NEW h \in Handler,
           \/ Handle(h) \/ HandlerFails(h)
    PROVE  SyncInv'
  <1> DEFINE d == call[h].device
             c == ChildOf[d]
             s == call[h].snap
             t == call'[h].snap
  <1>1. TurnDiscipline /\ TurnDiscipline'
    BY TurnHandle DEF SyncInv
  <1>2. /\ UNCHANGED <<rows, expired, editorVars>>
        /\ \A k \in Handler \ {h} : pc'[k] = pc[k] /\ call'[k] = call[k]
        /\ d \in Device
        /\ call'[h].device = d
    BY HandleFrame
  <1>3. /\ s \in Snapshot /\ t \in Snapshot /\ call[h] \in Call
        /\ c \in Child /\ policyVersion[c] \in Nat
    <2>1. TypeOK'
      BY TypeStep DEF AnyStep, ServerStep
    <2>2. QED
      BY <1>2, <2>1, FamilyAssumption DEF TypeOK, Call
  <1>4. /\ UNCHANGED <<policyVersion, defaults, expired>>
        /\ CurrentRules(d)' = CurrentRules(d)
        /\ CurrentGrants(d)' = CurrentGrants(d)
    BY <1>2, <1>3, NamesFrame DEF rows
  \* The other handlers, and what is left to show of h.
  <1>5. SUFFICES /\ pc'[h] \in {"rules", "grants", "stamp"} => t.defaults = defaults[c]
                 /\ pc'[h] \in {"grants", "stamp"} => t.rules = CurrentRules(d)
                 /\ pc'[h] \in {"rules", "grants"} => Grant \ expired \subseteq t.temporaryRules
                 /\ pc'[h] = "stamp" => t.temporaryRules \ expired = CurrentGrants(d)
                 /\ pc'[h] \in Built => Names(t, d)
                 /\ pc'[h] \in HeartbeatWritePC => call'[h].read = lastSyncedVersion'[d]
    <2> SUFFICES ASSUME NEW k \in Handler \ {h}
                 PROVE  /\ pc[k] \notin {"rules", "grants", "stamp"} \cup HeartbeatWritePC
                        /\ pc[k] \in Built => Names(call[k].snap, call[k].device)'
      BY <1>1, <1>2, <1>3, <1>4, NamesFrame DEF SyncInv, DraftInv, DraftAgrees, SnapshotInv
    <2>1. MayRun(h)
      BY DEF Handle, HandlerFails, Greet, Touch, HeartbeatRead, HeartbeatWrite, ReadVersion,
             Compare, Wake, ReadDefaults, ReadRules, ReadGrants, Stamp, Signed, Go
    <2>2. pc[k] \in Waiting
      BY <1>1, <2>1, Exclusive
    <2>3. ASSUME pc[k] \in Built PROVE Names(call[k].snap, call[k].device)'
      <3>1. call[k].device \in Device /\ call[k].snap \in Snapshot
        BY <2>3 DEF TypeOK, Built, Call
      <3>2. Names(call[k].snap, call[k].device)
        BY <2>3 DEF SyncInv, SnapshotInv
      <3>3. \A x \in Device, y \in Snapshot : Names(y, x)' <=> Names(y, x)
        BY <1>2, NamesFrame
      <3>4. QED
        BY <1>2, <3>1, <3>2, <3>3 DEF Names, SaysCurrent, CurrentRules, CurrentGrants, BumpOwed
    <2>4. QED
      BY <2>2, <2>3 DEF Waiting, HeartbeatWritePC
  <1> USE DEF Go, TypeOK
  <1>6. CASE Greet(h) \/ Touch(h) \/ ReadVersion(h) \/ Compare(h) \/ Wake(h) \/ HandlerFails(h)
    <2>1. pc'[h] \notin {"rules", "grants", "stamp"} \cup Built \cup HeartbeatWritePC
      BY <1>6 DEF Greet, Touch, ReadVersion, Compare, Wake, HandlerFails, Built, HeartbeatWritePC
    <2>2. QED
      BY <2>1
  <1>7. CASE HeartbeatRead(h) \/ HeartbeatWrite(h) \/ Signed(h)
    <2>1. /\ pc'[h] \notin {"rules", "grants", "stamp"}
          /\ pc'[h] \in Built => pc[h] \in Built
      BY <1>7 DEF HeartbeatRead, HeartbeatWrite, Signed, Built
    <2>2. t = s
      BY <1>3, <1>7 DEF HeartbeatRead, HeartbeatWrite, Signed, Call
    <2>3. pc'[h] \in HeartbeatWritePC => call'[h].read = lastSyncedVersion'[d]
      BY <1>3, <1>7 DEF HeartbeatRead, HeartbeatWrite, Signed, Call, HeartbeatWritePC, Locals
    <2>4. QED
      BY <2>1, <2>2, <2>3 DEF SyncInv, SnapshotInv
  <1>8. CASE ReadDefaults(h)
    <2>1. pc'[h] = "rules" /\ t.defaults = defaults[c] /\ t.temporaryRules = Grant \ expired
      BY <1>3, <1>8 DEF ReadDefaults, Call, Snapshot
    <2>2. QED
      BY <2>1 DEF Built, HeartbeatWritePC
  <1>9. CASE ReadRules(h)
    <2>1. /\ pc[h] = "rules" /\ pc'[h] = "grants"
          /\ t = [s EXCEPT !.rules = CurrentRules(d)]
      BY <1>3, <1>9 DEF ReadRules, Call
    <2>2. QED
      BY <1>3, <2>1 DEF Built, HeartbeatWritePC, SyncInv, DraftInv, DraftAgrees, Snapshot
  <1>10. CASE ReadGrants(h)
    <2>1. /\ pc[h] = "grants" /\ pc'[h] = "stamp"
          /\ t = [s EXCEPT !.temporaryRules =
                     {g \in @ : /\ g \in tempRules \ consumed
                                /\ appliesToChildDevice(ScopeOf[g], d)}]
      BY <1>3, <1>10 DEF ReadGrants, Call
    <2>2. Grant \ expired \subseteq s.temporaryRules
      BY <2>1 DEF SyncInv, DraftInv, DraftAgrees
    <2>3. t.temporaryRules \ expired = CurrentGrants(d)
      BY <1>3, <2>1, <2>2 DEF CurrentGrants, Snapshot
    <2>4. t.defaults = s.defaults /\ t.rules = s.rules
      BY <1>3, <2>1 DEF Snapshot
    <2>5. QED
      BY <2>1, <2>3, <2>4 DEF Built, HeartbeatWritePC, SyncInv, DraftInv, DraftAgrees
  <1>11. CASE Stamp(h)
    <2>1. /\ pc[h] = "stamp" /\ pc'[h] = "signing"
          /\ t = [s EXCEPT !.version = policyVersion[c]]
      BY <1>3, <1>11 DEF Stamp, Call
    <2>2. /\ s.defaults = defaults[c] /\ s.rules = CurrentRules(d)
          /\ s.temporaryRules \ expired = CurrentGrants(d)
      BY <2>1 DEF SyncInv, DraftInv, DraftAgrees
    <2>3. Names(t, d)
      BY <1>3, <2>1, <2>2 DEF Names, SaysCurrent, Snapshot
    <2>4. QED
      BY <2>1, <2>3 DEF HeartbeatWritePC
  <1>12. QED
    BY <1>6, <1>7, <1>8, <1>9, <1>10, <1>11 DEF Handle

LEMMA SyncStep ==
    ASSUME SyncStore, GrantsStayWithTheChild, TypeOK, RecordInv, SyncInv, AnyStep
    PROVE  SyncInv'
  <1>1. TurnDiscipline'
    BY TurnStep DEF SyncInv
  <1>2. ASSUME NEW h \in Handler,
               \/ \E d \in Device, route \in Route, n \in Int : Request(h, d, route, n)
               \/ Reply(h)
        PROVE  SyncInv'
    <2>1. /\ UNCHANGED <<rows, expired, editorVars, lastSyncedVersion>>
          /\ \A k \in Handler \ {h} : pc'[k] = pc[k] /\ call'[k] = call[k]
          /\ pc'[h] \in Boundary
      BY <1>2, BoundaryFrame
    <2>2. UNCHANGED <<policyVersion, defaults, rules, tempRules, consumed, expired, lost, todo,
                      lastSyncedVersion>>
      BY <2>1 DEF rows, editorVars
    <2>3. DraftInv'
      BY <2>1, <2>2 DEF SyncInv, DraftInv, DraftAgrees, Boundary, CurrentRules, CurrentGrants, HeartbeatWritePC
    <2>4. SnapshotInv'
      BY <2>1, <2>2 DEF SyncInv, SnapshotInv, Boundary, Built, Names, SaysCurrent, CurrentRules,
                        CurrentGrants, BumpOwed
    <2>5. QED
      BY <1>1, <2>3, <2>4 DEF SyncInv
  <1>3. ASSUME NEW g \in Grant, Expire(g) PROVE SyncInv'
    <2>1. /\ UNCHANGED <<defaults, rules, tempRules, consumed, pc, call, lastSyncedVersion>>
          /\ expired' = expired \cup {g}
      BY <1>3 DEF Expire, rows
    <2>2. DraftInv'
      <3> SUFFICES ASSUME NEW h \in Handler, pc[h] \in {"rules", "grants", "stamp"} \cup HeartbeatWritePC
                   PROVE  DraftAgrees(h)'
        BY <2>1 DEF DraftInv, DraftAgrees
      <3>1. DraftAgrees(h)
        BY DEF SyncInv, DraftInv
      <3>2. QED
        BY <2>1, <3>1 DEF DraftAgrees, CurrentRules, CurrentGrants
    <2>3. SnapshotInv'
      <3> SUFFICES ASSUME NEW h \in Handler, pc[h] \in Built
                   PROVE  Names(call[h].snap, call[h].device)'
        BY <2>1 DEF SnapshotInv
      <3>1. call[h].device \in Device /\ call[h].snap \in Snapshot
        BY DEF TypeOK, Built, Call
      <3>2. Names(call[h].snap, call[h].device)
        BY DEF SyncInv, SnapshotInv
      <3>3. \A x \in Device, y \in Snapshot : Names(y, x) => Names(y, x)'
        BY <1>3, NamesExpire
      <3>4. QED
        BY <2>1, <3>1, <3>2, <3>3 DEF Names, SaysCurrent, CurrentRules, CurrentGrants, BumpOwed
    <2>4. QED
      BY <1>1, <2>2, <2>3 DEF SyncInv
  <1>4. QED
    BY <1>2, <1>3, SyncEdit, SyncHandle DEF AnyStep, ServerStep

LEMMA SyncStutter == ASSUME SyncInv, UNCHANGED serverVars PROVE SyncInv'
  BY DEF SyncInv, TurnDiscipline, EditorIdle, DraftInv, DraftAgrees, SnapshotInv, Names, SaysCurrent,
         CurrentRules, CurrentGrants, BumpOwed, serverVars, rows, editorVars

\* Whatever the server does, a snapshot that names its policy still does.
LEMMA NamesStep ==
    ASSUME SyncStore, GrantsStayWithTheChild, TypeOK, TurnDiscipline, AnyStep
    PROVE  \A d \in Device, s \in Snapshot : Names(s, d) => Names(s, d)'
  <1>1. CASE \E e \in Editor : Edit(e) \/ FinishEdit(e) \/ EditFails(e)
    BY <1>1, NamesEdit
  <1>2. CASE \E h \in Handler : Handle(h) \/ HandlerFails(h)
    <2>1. UNCHANGED <<rows, expired, editorVars>>
      BY <1>2, HandleFrame
    <2>2. QED
      BY <2>1, NamesFrame
  <1>3. CASE \E g \in Grant : Expire(g)
    BY <1>3, NamesExpire
  <1>4. CASE \E h \in Handler :
                 \/ \E d \in Device, route \in Route, n \in Int : Request(h, d, route, n)
                 \/ Reply(h)
    <2>1. UNCHANGED <<rows, expired, editorVars>>
      BY <1>4, BoundaryFrame
    <2>2. QED
      BY <2>1, NamesFrame
  <1>5. QED
    BY <1>1, <1>2, <1>3, <1>4 DEF AnyStep, ServerStep

LEMMA SyncInvariance ==
    ASSUME SyncStore, GrantsStayWithTheChild
    PROVE  ServerSpec => [](TypeOK /\ RecordInv /\ SyncInv)
  <1>1. TypeOK /\ RecordInv /\ [ServerNext]_serverVars => RecordInv'
    BY NextIsAnyStep, RecordStep, RecordStutter
  <1>2. TypeOK /\ RecordInv /\ SyncInv /\ [ServerNext]_serverVars => SyncInv'
    BY NextIsAnyStep, SyncStep, SyncStutter
  <1>3. QED
    BY TypeCorrect, RecordInit, SyncInit, <1>1, <1>2, PTL DEF ServerSpec

\* With a synchronous store, and as long as no grant reaches beyond the child
\* it was asked for, a snapshot that carries the current version carries the
\* current policy, however requests, edits, failures and time interleave
\* (buildSnapshot, the bumps of PolicyService and ApprovalService).
THEOREM SnapshotsNamePolicies ==
    ASSUME SyncStore, GrantsStayWithTheChild
    PROVE  ServerSpec => []VersionNamesPolicy
  <1>1. TypeOK /\ SyncInv => VersionNamesPolicy
    BY DEF SyncInv, SnapshotInv, VersionNamesPolicy, Names
  <1>2. QED
    BY SyncInvariance, <1>1, PTL

\* What a heartbeat has read of a device is what its row says, until it is written.
BeatsAgree ==
    \A h \in Handler : pc[h] \in HeartbeatWritePC =>
        call[h].read = lastSyncedVersion[call[h].device]

BeatInv == TurnDiscipline /\ BeatsAgree

LEMMA BeatInit == ServerInit => BeatInv
  BY TurnInit DEF ServerInit, BeatInv, BeatsAgree, HeartbeatWritePC

LEMMA BeatStep ==
    ASSUME SyncStore, TypeOK, BeatInv, AnyStep
    PROVE  BeatInv'
  <1>1. TurnDiscipline /\ TurnDiscipline'
    BY TurnStep DEF BeatInv
  <1>2. ASSUME UNCHANGED <<pc, call, lastSyncedVersion>> PROVE BeatsAgree'
    BY <1>2 DEF BeatInv, BeatsAgree
  <1>3. ASSUME NEW e \in Editor, Edit(e) \/ FinishEdit(e) \/ EditFails(e) PROVE BeatsAgree'
    BY <1>2, <1>3, EditFrame
  <1>4. ASSUME NEW h \in Handler,
               \/ \E d \in Device, route \in Route, n \in Int : Request(h, d, route, n)
               \/ Reply(h)
        PROVE  BeatsAgree'
    <2>1. /\ UNCHANGED lastSyncedVersion /\ pc'[h] \in Boundary
          /\ \A k \in Handler \ {h} : pc'[k] = pc[k] /\ call'[k] = call[k]
      BY <1>4, BoundaryFrame
    <2>2. QED
      BY <2>1 DEF BeatInv, BeatsAgree, Boundary, HeartbeatWritePC
  <1>5. ASSUME NEW h \in Handler, Handle(h) \/ HandlerFails(h) PROVE BeatsAgree'
    <2>1. /\ \A k \in Handler \ {h} : pc'[k] = pc[k] /\ call'[k] = call[k]
          /\ call[h].device \in Device /\ call'[h].device = call[h].device
      BY <1>5, HandleFrame
    <2>2. MayRun(h)
      BY <1>5 DEF Handle, HandlerFails, Greet, Touch, HeartbeatRead, HeartbeatWrite, ReadVersion,
             Compare, Wake, ReadDefaults, ReadRules, ReadGrants, Stamp, Signed, Go
    <2>3. \A k \in Handler \ {h} : pc[k] \notin HeartbeatWritePC
      BY <1>1, <2>2, Exclusive DEF Waiting, HeartbeatWritePC
    <2>4. pc'[h] \in HeartbeatWritePC => call'[h].read = lastSyncedVersion'[call[h].device]
      <3>1. call[h] \in Call
        BY DEF TypeOK
      <3>2. CASE HeartbeatRead(h)
        BY <3>1, <3>2 DEF HeartbeatRead, Call, HeartbeatWritePC, TypeOK, Locals
      <3>3. CASE ~HeartbeatRead(h)
        <4>1. pc'[h] \notin HeartbeatWritePC
          BY <1>5, <3>3 DEF Handle, HandlerFails, Greet, Touch, HeartbeatWrite, ReadVersion, Compare,
                 Wake, ReadDefaults, ReadRules, ReadGrants, Stamp, Signed, Go, TypeOK, HeartbeatWritePC
        <4>2. QED
          BY <4>1
      <3>4. QED
        BY <3>2, <3>3
    <2>5. QED
      BY <2>1, <2>3, <2>4 DEF BeatsAgree
  <1>6. ASSUME NEW g \in Grant, Expire(g) PROVE BeatsAgree'
    BY <1>2, <1>6 DEF Expire
  <1>7. QED
    BY <1>1, <1>3, <1>4, <1>5, <1>6 DEF BeatInv, AnyStep, ServerStep

LEMMA BeatStutter == ASSUME BeatInv, UNCHANGED serverVars PROVE BeatInv'
  BY DEF BeatInv, BeatsAgree, TurnDiscipline, EditorIdle, serverVars, rows, editorVars

\* With a synchronous store the read-modify-write of heartbeat is atomic: the
\* recorded version of a device never moves backwards, whatever versions devices
\* claim and whatever grants reach beyond the child they were asked for (heartbeat).
THEOREM RecordNeverMovesBack ==
    ASSUME SyncStore
    PROVE  ServerSpec => RecordNeverRegresses
  <1>0. ServerSpec => [](TypeOK /\ BeatInv)
    <2>1. TypeOK /\ BeatInv /\ [ServerNext]_serverVars => BeatInv'
      BY NextIsAnyStep, BeatStep, BeatStutter
    <2>2. QED
      BY TypeCorrect, BeatInit, <2>1, PTL DEF ServerSpec
  <1>1. ASSUME TypeOK, BeatInv, AnyStep
        PROVE  \A d \in Device : lastSyncedVersion'[d] >= lastSyncedVersion[d]
    <2>1. \A d \in Device : lastSyncedVersion[d] \in Nat
      BY <1>1 DEF TypeOK
    <2>2. ASSUME NEW h \in Handler, HeartbeatWrite(h)
          PROVE  \A d \in Device : lastSyncedVersion'[d] >= lastSyncedVersion[d]
      <3>1. pc[h] \in HeartbeatWritePC /\ call[h].note \in Nat
        BY <1>1, <2>2 DEF HeartbeatWrite, Go, HeartbeatWritePC, TypeOK, Call
      <3>2. call[h].read = lastSyncedVersion[call[h].device]
        BY <1>1, <3>1 DEF BeatInv, BeatsAgree
      <3>3. call[h].device \in Device
        BY <1>1, <3>1 DEF TypeOK, HeartbeatWritePC
      <3>4. lastSyncedVersion' = [lastSyncedVersion EXCEPT
                ![call[h].device] = Larger(lastSyncedVersion[call[h].device], call[h].note)]
        BY <2>2, <3>2 DEF HeartbeatWrite, Recorded
      <3>5. QED
        BY <1>1, <2>1, <3>1, <3>3, <3>4 DEF Larger, TypeOK
    <2>3. ASSUME NEW h \in Handler, Handle(h) \/ HandlerFails(h), ~HeartbeatWrite(h)
          PROVE  lastSyncedVersion' = lastSyncedVersion
      BY <2>3 DEF Handle, HandlerFails, Greet, Touch, HeartbeatRead, ReadVersion, Compare, Wake,
                  ReadDefaults, ReadRules, ReadGrants, Stamp, Signed, Locals
    <2>4. ASSUME NEW g \in Grant, Expire(g) PROVE lastSyncedVersion' = lastSyncedVersion
      BY <2>4 DEF Expire
    <2>5. QED
      BY <1>1, <2>1, <2>2, <2>3, <2>4, EditFrame, BoundaryFrame DEF AnyStep, ServerStep
  <1>2. TypeOK /\ BeatInv /\ [ServerNext]_serverVars
        => [\A d \in Device : lastSyncedVersion'[d] >= lastSyncedVersion[d]]_serverVars
    BY <1>1, NextIsAnyStep
  <1>3. QED
    BY <1>0, <1>2, PTL DEF ServerSpec, RecordNeverRegresses

------------------------------------------------------------------------------
\* The server together with its devices.

\* A device that waits has its own handler, still at work for it.
WaitInv ==
    \A d \in Device : phase[d] = "waiting" =>
        /\ pc[asked[d]] # "free"
        /\ call[asked[d]].device = d

\* Config and policy in force agree, and what is held or about to be held
\* names its policy.
HeldAgrees(d) ==
    /\ cached[d] = NoSnapshot
    /\ Names(held[d], d)
    /\ phase[d] \in {"saving", "applying"} => Names(inbox[d], d)
    /\ config[d] = IF phase[d] = "applying" THEN inbox[d].version ELSE held[d].version

HeldInv == \A d \in Device : HeldAgrees(d)

ServerInv == TypeOK /\ RecordInv /\ SyncInv
ClientInv == ClientTypeOK /\ WaitInv /\ HeldInv
SystemInv == ServerInv /\ ClientInv

\* The steps of the devices and the server, each with the server step in it.
LEMMA ServerPart ==
    ASSUME ClientTypeOK, Next
    PROVE  AnyStep \/ UNCHANGED serverVars
  <1>1. ASSUME NEW d \in Device, NEW h \in Handler, Poll(d, h) PROVE AnyStep
    <2>1. config[d] \in Int
      BY DEF ClientTypeOK
    <2>2. QED
      BY <1>1, <2>1 DEF Poll, AnyStep, Route
  <1>2. ASSUME NEW d \in Device, Receive(d) PROVE AnyStep
    <2>1. asked[d] \in Handler
      BY <1>2 DEF Receive, ClientTypeOK
    <2>2. QED
      BY <1>2, <2>1 DEF Receive, AnyStep
  <1>3. ASSUME NEW h \in Handler, Unheard(h) PROVE AnyStep
    BY <1>3 DEF Unheard, AnyStep
  <1>4. ASSUME NEW d \in Device,
               \/ SaveVersion(d) \/ applySnapshot(d) \/ Stored(d) \/ Lose(d) \/ Kill(d)
               \/ restoreCachedPolicy(d)
        PROVE  UNCHANGED serverVars
    BY <1>4 DEF SaveVersion, applySnapshot, Stored, Lose, Kill, restoreCachedPolicy
  <1>5. QED
    BY <1>1, <1>2, <1>3, <1>4 DEF Next, Client, AnyStep

LEMMA ServerInvStep ==
    ASSUME SyncStore, GrantsStayWithTheChild, ServerInv, AnyStep \/ UNCHANGED serverVars
    PROVE  ServerInv'
  <1>1. CASE AnyStep
    BY <1>1, TypeStep, RecordStep, SyncStep DEF ServerInv
  <1>2. CASE UNCHANGED serverVars
    BY <1>2, TypeStutter, RecordStutter, SyncStutter DEF ServerInv
  <1>3. QED
    BY <1>1, <1>2

LEMMA ClientInitType == ClientInit => ClientTypeOK
  BY NoSnapshotType, FaultAssumption, FamilyAssumption DEF ClientInit, ClientTypeOK

LEMMA SystemInit == ServerInit /\ ClientInit => SystemInv
  <1> SUFFICES ASSUME ServerInit, ClientInit PROVE SystemInv
    OBVIOUS
  <1>1. ServerInv
    BY InitType, RecordInit, SyncInit DEF ServerInv
  <1>2. ClientTypeOK
    BY ClientInitType
  <1>3. WaitInv
    BY DEF ClientInit, WaitInv
  <1>4. HeldInv
    BY FamilyAssumption DEF ServerInit, ClientInit, HeldInv, HeldAgrees, Names, NoSnapshot
  <1>5. QED
    BY <1>1, <1>2, <1>3, <1>4 DEF SystemInv, ClientInv

LEMMA ClientTypeStep ==
    ASSUME TypeOK, ClientTypeOK, [Next]_vars
    PROVE  ClientTypeOK'
  <1> USE DEF ClientTypeOK
  <1>1. ASSUME NEW d \in Device, NEW h \in Handler, Poll(d, h) PROVE ClientTypeOK'
    BY <1>1, FamilyAssumption DEF Poll
  <1>2. ASSUME NEW d \in Device, Receive(d) PROVE ClientTypeOK'
    <2>1. asked[d] \in Handler
      BY <1>2 DEF Receive
    <2>2. call[asked[d]].snap \in Snapshot
      BY <2>1 DEF TypeOK, Call
    <2>3. QED
      BY <1>2, <2>2 DEF Receive
  <1>3. ASSUME NEW d \in Device, SaveVersion(d) PROVE ClientTypeOK'
    BY <1>3 DEF SaveVersion, Snapshot
  <1>4. ASSUME NEW d \in Device, applySnapshot(d) PROVE ClientTypeOK'
    BY <1>4, NoSnapshotType DEF applySnapshot
  <1>5. ASSUME NEW d \in Device, Stored(d) PROVE ClientTypeOK'
    BY <1>5, NoSnapshotType DEF Stored
  <1>6. ASSUME NEW d \in Device, Lose(d) PROVE ClientTypeOK'
    BY <1>6, FamilyAssumption DEF Lose
  <1>7. ASSUME NEW d \in Device, Kill(d) PROVE ClientTypeOK'
    BY <1>7, NoSnapshotType DEF Kill
  <1>8. ASSUME NEW d \in Device, restoreCachedPolicy(d) PROVE ClientTypeOK'
    BY <1>8, NoSnapshotType DEF restoreCachedPolicy
  <1>9. CASE UNCHANGED clientVars
    BY <1>9 DEF clientVars
  <1>10. QED
    BY <1>1, <1>2, <1>3, <1>4, <1>5, <1>6, <1>7, <1>8, <1>9 DEF Next, Client, Unheard, vars

-----------------------------------------------------------------------------
(* The request of a device that waits is in the hands of its own handler.  *)

LEMMA WaitServer ==
    ASSUME TypeOK, ClientTypeOK, WaitInv, ServerStep, UNCHANGED clientVars
    PROVE  WaitInv'
  <1>1. UNCHANGED <<phase, asked>>
    BY DEF clientVars
  <1>2. \A d \in Device : phase[d] = "waiting" => asked[d] \in Handler
    BY DEF ClientTypeOK
  <1>3. CASE \E e \in Editor : Edit(e) \/ FinishEdit(e) \/ EditFails(e)
    BY <1>1, <1>3, EditFrame DEF WaitInv
  <1>4. ASSUME NEW h \in Handler, Handle(h) \/ HandlerFails(h) PROVE WaitInv'
    <2>1. pc'[h] # "free"
      BY <1>4 DEF TypeOK, Go, Handle, HandlerFails, Greet, Touch, HeartbeatRead, HeartbeatWrite,
                  ReadVersion, Compare, Wake, ReadDefaults, ReadRules, ReadGrants, Stamp, Signed
    <2>2. QED
      BY <1>1, <1>2, <1>4, <2>1, HandleFrame DEF WaitInv
  <1>5. CASE \E g \in Grant : Expire(g)
    BY <1>1, <1>5 DEF WaitInv, Expire
  <1>6. QED
    BY <1>3, <1>4, <1>5 DEF ServerStep

LEMMA WaitStep ==
    ASSUME TypeOK, ClientTypeOK, WaitInv, [Next]_vars
    PROVE  WaitInv'
  <1>1. \A d \in Device : phase[d] = "waiting" => asked[d] \in Handler
    BY DEF ClientTypeOK
  <1>2. ASSUME NEW d \in Device, NEW h \in Handler, Poll(d, h) PROVE WaitInv'
    <2>1. /\ pc[h] = "free" /\ pc' = [pc EXCEPT ![h] = "greet"]
          /\ \A k \in Handler \ {h} : call'[k] = call[k]
          /\ call'[h].device = d
      BY <1>2 DEF Poll, Request, Go, First, TypeOK, NoCall
    <2>2. /\ phase' = [phase EXCEPT ![d] = "waiting"]
          /\ asked' = [asked EXCEPT ![d] = h]
      BY <1>2 DEF Poll
    <2>3. QED
      BY <1>1, <2>1, <2>2 DEF WaitInv, TypeOK, ClientTypeOK
  <1>3. ASSUME NEW d \in Device, Receive(d) PROVE WaitInv'
    <2>1. asked[d] \in Handler /\ phase[d] = "waiting"
      BY <1>1, <1>3 DEF Receive
    <2>2. \A k \in Handler \ {asked[d]} : pc'[k] = pc[k] /\ call'[k] = call[k]
      BY <1>3, <2>1, BoundaryFrame DEF Receive
    <2>3. phase'[d] # "waiting"
      BY <1>3 DEF Receive, ClientTypeOK
    <2>4. \A x \in Device \ {d} : phase'[x] = phase[x] /\ asked'[x] = asked[x]
      BY <1>3 DEF Receive, ClientTypeOK
    <2>5. \A x \in Device \ {d} : phase[x] = "waiting" => asked[x] # asked[d]
      BY <2>1 DEF WaitInv
    <2>6. QED
      BY <1>1, <2>2, <2>3, <2>4, <2>5 DEF WaitInv
  <1>4. ASSUME NEW h \in Handler, Unheard(h) PROVE WaitInv'
    <2>1. \A k \in Handler \ {h} : pc'[k] = pc[k] /\ call'[k] = call[k]
      BY <1>4, BoundaryFrame DEF Unheard
    <2>2. QED
      BY <1>1, <1>4, <2>1 DEF WaitInv, Unheard, clientVars
  <1>5. ASSUME NEW d \in Device,
               \/ SaveVersion(d) \/ applySnapshot(d) \/ Stored(d) \/ Lose(d) \/ Kill(d)
               \/ restoreCachedPolicy(d)
        PROVE  WaitInv'
    <2>1. UNCHANGED <<pc, call>>
      BY <1>5 DEF SaveVersion, applySnapshot, Stored, Lose, Kill, restoreCachedPolicy, serverVars
    <2>2. phase'[d] # "waiting" \/ UNCHANGED <<phase, asked>>
      BY <1>5 DEF SaveVersion, applySnapshot, Stored, Lose, Kill, restoreCachedPolicy, ClientTypeOK
    <2>3. \A x \in Device \ {d} : phase'[x] = phase[x] /\ asked'[x] = asked[x]
      BY <1>5 DEF SaveVersion, applySnapshot, Stored, Lose, Kill, restoreCachedPolicy, ClientTypeOK
    <2>4. QED
      BY <2>1, <2>2, <2>3 DEF WaitInv
  <1>6. CASE UNCHANGED vars
    BY <1>6 DEF vars, clientVars, serverVars, WaitInv
  <1>7. QED
    BY <1>2, <1>3, <1>4, <1>5, <1>6, WaitServer DEF Next, Client

-----------------------------------------------------------------------------
(* What a device holds.                                                    *)

LEMMA HeldStep ==
    ASSUME SyncStore, GrantsStayWithTheChild, MaxKills = 0, ServerInv, ClientInv, [Next]_vars
    PROVE  HeldInv'
  <1>1. AnyStep \/ UNCHANGED serverVars
    BY ServerPart DEF ServerInv, ClientInv, vars
  <1>2. \A d \in Device, s \in Snapshot : Names(s, d) => Names(s, d)'
    <2>1. CASE AnyStep
      BY <2>1, NamesStep DEF ServerInv, SyncInv
    <2>2. CASE UNCHANGED serverVars
      BY <2>2, NamesFrame DEF serverVars
    <2>3. QED
      BY <1>1, <2>1, <2>2
  <1>3. \A d \in Device : held[d] \in Snapshot /\ inbox[d] \in Snapshot
    BY DEF ClientInv, ClientTypeOK
  <1>4. ASSUME NEW d \in Device,
               \/ UNCHANGED <<held, inbox, config, phase, cached>>
               \/ /\ cached'[d] = cached[d] /\ held'[d] = held[d]
                  /\ inbox'[d] = inbox[d] /\ config'[d] = config[d]
                  /\ phase'[d] = phase[d] \/ {phase[d], phase'[d]} = {"idle", "waiting"}
        PROVE  HeldAgrees(d)'
    BY <1>2, <1>3, <1>4 DEF ClientInv, HeldInv, HeldAgrees
  <1>5. ASSUME NEW d \in Device, Receive(d) PROVE HeldAgrees(d)'
    <2>1. /\ asked[d] \in Handler /\ phase[d] = "waiting"
          /\ call[asked[d]].device = d
          /\ call[asked[d]].snap \in Snapshot
      BY <1>5 DEF Receive, ClientInv, ClientTypeOK, WaitInv, ServerInv, TypeOK, Call
    <2>2. /\ held' = held /\ config' = config /\ cached'[d] = NoSnapshot
          /\ held[d] \in Snapshot /\ Names(held[d], d) /\ config[d] = held[d].version
      BY <1>3, <1>5, <2>1 DEF Receive, ClientInv, HeldInv, HeldAgrees
    <2>3. CASE pc[asked[d]] = "snapshot"
      <3>1. Names(call[asked[d]].snap, d)
        BY <2>1, <2>3 DEF ServerInv, SyncInv, SnapshotInv, Built
      <3>2. inbox'[d] = call[asked[d]].snap /\ phase'[d] = "saving"
        BY <1>5, <2>3 DEF Receive, IsSnapshot, ClientInv, ClientTypeOK
      <3>3. QED
        BY <1>2, <2>1, <2>2, <3>1, <3>2 DEF HeldAgrees
    <2>4. CASE pc[asked[d]] # "snapshot"
      <3>1. phase'[d] = "idle"
        BY <1>5, <2>4 DEF Receive, IsSnapshot, ClientInv, ClientTypeOK
      <3>2. QED
        BY <1>2, <2>2, <3>1 DEF HeldAgrees
    <2>5. QED
      BY <2>3, <2>4
  <1>6. ASSUME NEW d \in Device, SaveVersion(d) PROVE HeldAgrees(d)'
    <2>1. /\ phase[d] = "saving" /\ phase'[d] = "applying"
          /\ cached' = cached /\ held' = held /\ inbox' = inbox /\ config'[d] = inbox[d].version
      BY <1>6 DEF SaveVersion, ClientInv, ClientTypeOK
    <2>2. QED
      BY <1>2, <1>3, <2>1 DEF HeldAgrees, ClientInv, HeldInv
  <1>7. ASSUME NEW d \in Device, applySnapshot(d) PROVE HeldAgrees(d)'
    <2>1. /\ phase[d] = "applying" /\ phase'[d] = "idle"
          /\ held'[d] = inbox[d] /\ config' = config /\ cached' = cached
      BY <1>7 DEF applySnapshot, ClientInv, ClientTypeOK
    <2>2. QED
      BY <1>2, <1>3, <2>1 DEF HeldAgrees, ClientInv, HeldInv
  <1>8. ASSUME NEW d \in Device, NEW h \in Handler, Poll(d, h) PROVE HeldAgrees(d)'
    <2>1. /\ phase[d] = "idle" /\ phase'[d] = "waiting"
          /\ UNCHANGED <<held, inbox, config, cached>>
      BY <1>8 DEF Poll, ClientInv, ClientTypeOK
    <2>2. QED
      BY <1>4, <2>1
  <1>9. ASSUME NEW d \in Device, Stored(d) \/ Lose(d) PROVE HeldAgrees(d)'
    <2>1. /\ UNCHANGED <<held, inbox, config, cached>>
          /\ phase'[d] = phase[d] \/ {phase[d], phase'[d]} = {"idle", "waiting"}
      BY <1>9 DEF Stored, Lose, ClientInv, ClientTypeOK
    <2>2. QED
      BY <1>4, <2>1
  <1>10. ASSUME NEW d \in Device, Kill(d) \/ restoreCachedPolicy(d) PROVE FALSE
    BY <1>10 DEF Kill, restoreCachedPolicy, ClientInv, ClientTypeOK, HeldInv, HeldAgrees
  <1>11. ASSUME NEW d \in Device, NEW x \in Device \ {d}, Client(x) \/ Stored(x) \/ Lose(x)
         PROVE  HeldAgrees(d)'
    <2>1. /\ held'[d] = held[d] /\ inbox'[d] = inbox[d] /\ config'[d] = config[d]
          /\ phase'[d] = phase[d] /\ cached'[d] = cached[d]
      BY <1>11 DEF Client, Poll, Receive, SaveVersion, applySnapshot, Stored, Lose,
                   ClientInv, ClientTypeOK
    <2>2. QED
      BY <1>4, <2>1
  <1>12. ASSUME UNCHANGED clientVars PROVE HeldInv'
    BY <1>4, <1>12 DEF HeldInv, clientVars
  <1>13. QED
    <2>1. CASE UNCHANGED clientVars
      BY <1>12, <2>1
    <2>2. CASE \E x \in Device : Client(x) \/ Stored(x) \/ Lose(x)
      BY <1>5, <1>6, <1>7, <1>8, <1>9, <1>11, <2>2 DEF Client, HeldInv
    <2>3. QED
      BY <1>10, <2>1, <2>2 DEF Next, Unheard, vars

-----------------------------------------------------------------------------
(* Versions only grow on their way to a device, on either build and with    *)
(* killed workers.                                                          *)

\* A snapshot under way was stamped with the version of its moment.
LEMMA SnapFrame ==
    ASSUME TypeOK, NEW h \in Handler, Handle(h) \/ HandlerFails(h), pc'[h] \in Built
    PROVE  \/ pc[h] \in Built /\ call'[h].snap = call[h].snap
           \/ call'[h].snap.version = policyVersion[ChildOf[call[h].device]]
  <1> USE DEF Go
  <1>1. call[h] \in Call /\ call[h].snap \in Snapshot
    BY DEF TypeOK, Call
  <1>2. CASE Greet(h) \/ Touch(h) \/ ReadVersion(h) \/ Compare(h) \/ Wake(h) \/ ReadDefaults(h)
             \/ ReadRules(h) \/ ReadGrants(h) \/ HandlerFails(h)
    BY <1>2 DEF TypeOK, Greet, Touch, ReadVersion, Compare, Wake, ReadDefaults, ReadRules,
                ReadGrants, HandlerFails, Built
  <1>3. CASE HeartbeatRead(h)
    BY <1>1, <1>3 DEF TypeOK, Call, HeartbeatRead, Built
  <1>4. CASE HeartbeatWrite(h)
    BY <1>1, <1>4 DEF TypeOK, Call, HeartbeatWrite, Built
  <1>5. CASE Stamp(h)
    BY <1>1, <1>5 DEF TypeOK, Call, Snapshot, Stamp
  <1>6. CASE Signed(h)
    BY <1>1, <1>6 DEF TypeOK, Call, Signed, Built
  <1>7. QED
    BY <1>2, <1>3, <1>4, <1>5, <1>6 DEF Handle

LEMMA OrderInit == Init => OrderInv
  BY FamilyAssumption DEF Init, ServerInit, ClientInit, OrderInv, AnswerIsNew, ConfigIsNewest,
     NoSnapshot, Built

\* A step of the server leaves config the newest version, and answers new.
LEMMA OrderServer ==
    ASSUME TypeOK, ClientTypeOK, WaitInv, OrderInv, ServerStep, UNCHANGED clientVars
    PROVE  OrderInv'
  <1>1. UNCHANGED <<phase, asked, inbox, config, held, stored, unstored, cached>>
    BY DEF clientVars
  <1>2. \A d \in Device : /\ ChildOf[d] \in Child /\ config[d] \in Nat
                          /\ policyVersion[ChildOf[d]] \in Nat /\ inbox[d] \in Snapshot
                          /\ phase[d] = "waiting" => asked[d] \in Handler
    BY FamilyAssumption DEF TypeOK, ClientTypeOK
  <1>3. \A c \in Child : policyVersion'[c] \in Nat /\ policyVersion'[c] >= policyVersion[c]
    <2>1. TypeOK'
      BY TypeStep DEF AnyStep
    <2>2. CASE \E e \in Editor : Edit(e) \/ FinishEdit(e) \/ EditFails(e)
      BY <2>1, <2>2, EditFrame DEF TypeOK
    <2>3. CASE \E h \in Handler : Handle(h) \/ HandlerFails(h)
      BY <2>1, <2>3, HandleFrame DEF TypeOK, rows
    <2>4. CASE \E g \in Grant : Expire(g)
      BY <2>1, <2>4 DEF TypeOK, Expire, rows
    <2>5. QED
      BY <2>2, <2>3, <2>4 DEF ServerStep
  <1>4. ASSUME NEW d \in Device PROVE ConfigIsNewest(d)'
    <2>1. ConfigIsNewest(d) /\ inbox[d].version \in Nat
      BY <1>2 DEF OrderInv, Snapshot
    <2>2. QED
      BY <1>1, <1>2, <1>3, <2>1 DEF ConfigIsNewest
  <1>5. ASSUME NEW d \in Device, UNCHANGED <<pc, call>> PROVE AnswerIsNew(d)'
    BY <1>1, <1>5 DEF OrderInv, AnswerIsNew
  <1>6. ASSUME NEW d \in Device, NEW h \in Handler, Handle(h) \/ HandlerFails(h)
        PROVE  AnswerIsNew(d)'
    <2>1. CASE phase[d] = "waiting" /\ asked[d] = h /\ pc'[h] \in Built
      <3>1. call[h].device = d
        BY <2>1 DEF WaitInv
      <3>2. config[d] <= call'[h].snap.version
        BY <1>6, <2>1, <3>1, SnapFrame DEF OrderInv, AnswerIsNew, ConfigIsNewest
      <3>3. QED
        BY <1>1, <2>1, <3>2 DEF AnswerIsNew
    <2>2. CASE phase[d] = "waiting" /\ asked[d] # h
      BY <1>1, <1>2, <1>6, <2>2, HandleFrame DEF OrderInv, AnswerIsNew
    <2>3. QED
      BY <1>1, <2>1, <2>2 DEF AnswerIsNew
  <1>7. QED
    <2>1. CASE \E e \in Editor : Edit(e) \/ FinishEdit(e) \/ EditFails(e)
      BY <1>4, <1>5, <2>1, EditFrame DEF OrderInv
    <2>2. CASE \E h \in Handler : Handle(h) \/ HandlerFails(h)
      BY <1>4, <1>6, <2>2 DEF OrderInv
    <2>3. CASE \E g \in Grant : Expire(g)
      BY <1>4, <1>5, <2>3 DEF OrderInv, Expire
    <2>4. QED
      BY <2>1, <2>2, <2>3 DEF ServerStep

LEMMA OrderStep ==
    ASSUME TypeOK, ClientTypeOK, WaitInv, RecordInv, OrderInv, [Next]_vars
    PROVE  OrderInv'
  <1>1. \A d \in Device :
            /\ ChildOf[d] \in Child /\ config[d] \in Nat /\ policyVersion[ChildOf[d]] \in Nat
            /\ {inbox[d], held[d], stored[d], unstored[d], cached[d]} \subseteq Snapshot
            /\ phase[d] = "waiting" => asked[d] \in Handler
    BY FamilyAssumption DEF TypeOK, ClientTypeOK
  <1>2. ASSUME NEW d \in Device, policyVersion' = policyVersion,
               config'[d] = config[d], held'[d] = held[d], inbox'[d] = inbox[d],
               stored'[d] = stored[d], unstored'[d] = unstored[d], cached'[d] = cached[d],
               phase'[d] = phase[d] \/ phase'[d] \in {"idle", "waiting"}
        PROVE  ConfigIsNewest(d)'
    BY <1>2 DEF OrderInv, ConfigIsNewest
  <1>3. ASSUME NEW x \in Device, NEW d \in Device \ {x}, Client(x) \/ Stored(x) \/ Lose(x)
               \/ Kill(x) \/ restoreCachedPolicy(x)
        PROVE  /\ config'[d] = config[d] /\ held'[d] = held[d] /\ inbox'[d] = inbox[d]
               /\ stored'[d] = stored[d] /\ unstored'[d] = unstored[d] /\ cached'[d] = cached[d]
               /\ phase'[d] = phase[d] /\ asked'[d] = asked[d]
    BY <1>3 DEF ClientTypeOK, Client, Poll, Receive, SaveVersion, applySnapshot, Stored, Lose, Kill,
                restoreCachedPolicy
  <1>4. ASSUME NEW x \in Device, NEW h \in Handler, Poll(x, h) PROVE OrderInv'
    <2>1. /\ pc[h] = "free" /\ pc'[h] = "greet"
          /\ \A k \in Handler \ {h} : pc'[k] = pc[k] /\ call'[k] = call[k]
          /\ asked'[x] = h /\ phase'[x] = "waiting"
          /\ UNCHANGED <<policyVersion, config, held, inbox, stored, unstored, cached>>
      BY <1>4 DEF Poll, Request, Go, First, TypeOK, Locals, Quiet, rows, ClientTypeOK
    <2>2. \A d \in Device : ConfigIsNewest(d)'
      BY <1>2, <1>3, <1>4, <2>1 DEF Client
    <2>3. AnswerIsNew(x)'
      BY <2>1 DEF AnswerIsNew, Built
    <2>4. ASSUME NEW d \in Device \ {x} PROVE AnswerIsNew(d)'
      BY <1>1, <1>3, <1>4, <2>1, <2>4 DEF Client, WaitInv, OrderInv, AnswerIsNew
    <2>5. QED
      BY <2>2, <2>3, <2>4 DEF OrderInv
  <1>5. ASSUME NEW x \in Device, Receive(x) PROVE OrderInv'
    <2> DEFINE h == asked[x]
    <2>1. /\ h \in Handler /\ call[h].device = x /\ phase[x] = "waiting" /\ phase'[x] # "waiting"
          /\ call[h].snap \in Snapshot
          /\ UNCHANGED <<policyVersion, config, held, stored, unstored, cached>>
      BY <1>1, <1>5 DEF Receive, Reply, Locals, Quiet, rows, ClientTypeOK, WaitInv, TypeOK, Call
    <2>2. \A k \in Handler \ {h} : pc'[k] = pc[k] /\ call'[k] = call[k]
      BY <1>5, <2>1, BoundaryFrame DEF Receive
    <2>3. ASSUME IsSnapshot(h) PROVE ConfigIsNewest(x)'
      <3>1. inbox'[x] = call[h].snap /\ phase'[x] = "saving"
        BY <1>5, <2>3 DEF Receive, ClientTypeOK
      <3>2. config[x] <= call[h].snap.version
        BY <2>1, <2>3 DEF IsSnapshot, Built, OrderInv, AnswerIsNew
      <3>3. call[h].snap.version <= built[x] /\ built[x] <= policyVersion[ChildOf[x]]
        BY <2>1, <2>3 DEF IsSnapshot, Built, RecordInv, NeverMoreThanSent
      <3>4. built[x] \in Nat /\ call[h].snap.version \in Nat
        BY <2>1 DEF TypeOK, Snapshot
      <3>5. call[h].snap.version <= policyVersion[ChildOf[x]]
        BY <1>1, <3>3, <3>4
      <3>6. QED
        BY <2>1, <3>1, <3>2, <3>5 DEF OrderInv, ConfigIsNewest
    <2>4. ASSUME ~IsSnapshot(h) PROVE ConfigIsNewest(x)'
      BY <1>2, <1>5, <2>1, <2>4 DEF Receive, ClientTypeOK
    <2>5. ConfigIsNewest(x)'
      BY <2>3, <2>4
    <2>6. \A d \in Device \ {x} : ConfigIsNewest(d)'
      BY <1>2, <1>3, <1>5, <2>1 DEF Client
    <2>7. AnswerIsNew(x)'
      BY <2>1 DEF AnswerIsNew
    <2>8. ASSUME NEW d \in Device \ {x} PROVE AnswerIsNew(d)'
      BY <1>1, <1>3, <1>5, <2>1, <2>2, <2>8 DEF Client, WaitInv, OrderInv, AnswerIsNew
    <2>9. QED
      BY <2>5, <2>6, <2>7, <2>8 DEF OrderInv
  <1>6. ASSUME NEW x \in Device, SaveVersion(x) \/ applySnapshot(x) \/ Stored(x) \/ Lose(x)
               \/ Kill(x) \/ restoreCachedPolicy(x)
        PROVE  OrderInv'
    <2>1. UNCHANGED <<pc, call, policyVersion>> /\ (phase'[x] = "waiting" => phase[x] = "waiting")
          /\ (phase'[x] = "waiting" => asked'[x] = asked[x] /\ config'[x] = config[x])
      BY <1>6 DEF SaveVersion, applySnapshot, Stored, Lose, Kill, restoreCachedPolicy, serverVars,
                  rows, ClientTypeOK
    <2>2. ConfigIsNewest(x)'
      <3>1. CASE SaveVersion(x)
        <4>1. /\ phase[x] = "saving" /\ phase'[x] = "applying" /\ config'[x] = inbox[x].version
              /\ UNCHANGED <<inbox, held, stored, unstored, cached>>
          BY <3>1 DEF SaveVersion, ClientTypeOK
        <4>2. \A s \in {inbox[x], held[x], stored[x], unstored[x], cached[x]} : s.version \in Nat
          BY <1>1 DEF Snapshot
        <4>3. QED
          BY <1>1, <2>1, <4>1, <4>2 DEF OrderInv, ConfigIsNewest
      <3>2. CASE applySnapshot(x)
        <4>1. /\ phase[x] = "applying" /\ phase'[x] = "idle"
              /\ held'[x] = inbox[x] /\ unstored'[x] = inbox[x]
              /\ UNCHANGED <<config, stored, cached>>
          BY <3>2 DEF applySnapshot, ClientTypeOK
        <4>2. QED
          BY <1>1, <2>1, <4>1 DEF OrderInv, ConfigIsNewest
      <3>3. CASE Stored(x)
        <4>1. /\ stored'[x] = unstored[x] /\ unstored'[x] = NoSnapshot
              /\ UNCHANGED <<phase, config, held, inbox, cached>>
          BY <3>3 DEF Stored, ClientTypeOK
        <4>2. QED
          BY <1>1, <2>1, <4>1 DEF OrderInv, ConfigIsNewest, NoSnapshot
      <3>4. CASE Lose(x)
        <4>1. /\ phase'[x] = "idle"
              /\ UNCHANGED <<config, held, inbox, stored, unstored, cached>>
          BY <3>4 DEF Lose, ClientTypeOK
        <4>2. QED
          BY <1>2, <2>1, <4>1
      <3>5. CASE Kill(x)
        <4>1. /\ phase'[x] = "idle"
              /\ held'[x] = NoSnapshot /\ unstored'[x] = NoSnapshot /\ cached'[x] = stored[x]
              /\ UNCHANGED <<config, stored>>
          BY <3>5 DEF Kill, ClientTypeOK
        <4>2. QED
          BY <1>1, <2>1, <4>1 DEF OrderInv, ConfigIsNewest, NoSnapshot
      <3>6. CASE restoreCachedPolicy(x)
        <4>1. /\ held'[x] = cached[x] /\ cached'[x] = NoSnapshot
              /\ UNCHANGED <<phase, config, inbox, stored, unstored>>
          BY <3>6 DEF restoreCachedPolicy, ClientTypeOK
        <4>2. QED
          BY <1>1, <2>1, <4>1 DEF OrderInv, ConfigIsNewest, NoSnapshot
      <3>7. QED
        BY <1>6, <3>1, <3>2, <3>3, <3>4, <3>5, <3>6
    <2>3. \A d \in Device \ {x} : ConfigIsNewest(d)'
      BY <1>2, <1>3, <1>6, <2>1 DEF Client
    <2>4. AnswerIsNew(x)'
      BY <2>1 DEF OrderInv, AnswerIsNew
    <2>5. \A d \in Device \ {x} : AnswerIsNew(d)'
      BY <1>3, <1>6, <2>1 DEF Client, OrderInv, AnswerIsNew
    <2>6. QED
      BY <2>2, <2>3, <2>4, <2>5 DEF OrderInv
  <1>7. ASSUME NEW h \in Handler, Unheard(h) PROVE OrderInv'
    <2>1. /\ \A k \in Handler \ {h} : pc'[k] = pc[k] /\ call'[k] = call[k]
          /\ \A d \in Device : asked[d] # h
          /\ UNCHANGED clientVars /\ policyVersion' = policyVersion
      BY <1>7, BoundaryFrame DEF Unheard, rows
    <2>2. \A d \in Device : ConfigIsNewest(d)'
      BY <1>2, <2>1 DEF clientVars
    <2>3. \A d \in Device : AnswerIsNew(d)'
      BY <1>1, <2>1 DEF clientVars, OrderInv, AnswerIsNew
    <2>4. QED
      BY <2>2, <2>3 DEF OrderInv
  <1>8. CASE UNCHANGED vars
    BY <1>8 DEF vars, serverVars, rows, clientVars, OrderInv, AnswerIsNew, ConfigIsNewest
  <1>9. QED
    BY <1>4, <1>5, <1>6, <1>7, <1>8, OrderServer DEF Next, Client

-----------------------------------------------------------------------------
(* Theorems about the whole system.                                        *)

\* In any mode, whatever is lost or killed, the server and the devices keep
\* their types (PolicyService, startPolicySync).
THEOREM SystemTypeCorrect == Spec => [](TypeOK /\ ClientTypeOK)
  <1>1. Init => TypeOK /\ ClientTypeOK
    BY InitType, ClientInitType DEF Init
  <1>2. TypeOK /\ ClientTypeOK /\ [Next]_vars => TypeOK' /\ ClientTypeOK'
    BY ServerPart, TypeStep, TypeStutter, ClientTypeStep DEF vars
  <1>3. QED
    BY <1>1, <1>2, PTL DEF Spec

\* With real clients too, the record of a device is never ahead of what the
\* server signed for it, in any mode (clampSyncedVersion, heartbeat).
THEOREM SystemRecordIsNeverAhead == Spec => []NeverMoreThanSent
  <1>1. Init => RecordInv
    BY RecordInit DEF Init
  <1>2. TypeOK /\ ClientTypeOK /\ RecordInv /\ [Next]_vars => RecordInv'
    BY ServerPart, RecordStep, RecordStutter DEF vars
  <1>3. RecordInv => NeverMoreThanSent
    BY DEF RecordInv
  <1>4. QED
    BY <1>1, <1>2, <1>3, SystemTypeCorrect, PTL DEF Spec

\* With a synchronous store, grants that stay with the child that asked and no
\* worker killed between its two writes, "up to date" is always the truth: a
\* device whose config holds the current version enforces the current policy,
\* whatever interleaves, fails or is lost (syncSince, buildSnapshot,
\* startPolicySync, applySnapshot).
THEOREM UpToDateIsTrueOfDevices ==
    ASSUME SyncStore, GrantsStayWithTheChild, MaxKills = 0
    PROVE  Spec => []UpToDateIsTrue
  <1>1. Init => SystemInv
    BY SystemInit DEF Init
  <1>2. SystemInv /\ [Next]_vars => SystemInv'
    <2>1. SystemInv /\ [Next]_vars => ServerInv'
      BY ServerPart, ServerInvStep DEF SystemInv, ClientInv, vars
    <2>2. SystemInv /\ [Next]_vars => ClientTypeOK' /\ WaitInv'
      BY ClientTypeStep, WaitStep DEF SystemInv, ServerInv, ClientInv
    <2>3. SystemInv /\ [Next]_vars => HeldInv'
      BY HeldStep DEF SystemInv
    <2>4. QED
      BY <2>1, <2>2, <2>3 DEF SystemInv, ClientInv
  <1>3. SystemInv => UpToDateIsTrue
    BY DEF SystemInv, ClientInv, ClientTypeOK, HeldInv, HeldAgrees, Names, UpToDateIsTrue
  <1>4. QED
    BY <1>1, <1>2, <1>3, PTL DEF Spec

\* On either build, and whatever is delayed, lost or killed, an answer never
\* puts an older policy in force than the one a device holds; only a restarted
\* worker goes back (startPolicySync, applySnapshot).
THEOREM HeldPolicyNeverRegresses == Spec => HeldNeverRegresses
  <1>1. Init => WaitInv /\ RecordInv /\ OrderInv
    BY RecordInit, OrderInit DEF Init, ClientInit, WaitInv
  <1>2. TypeOK /\ ClientTypeOK /\ WaitInv /\ RecordInv /\ OrderInv /\ [Next]_vars
            => WaitInv' /\ RecordInv' /\ OrderInv'
    BY ServerPart, WaitStep, RecordStep, RecordStutter, OrderStep DEF vars
  <1>3. ASSUME ClientTypeOK, OrderInv, [Next]_vars, UNCHANGED <<kills, cached>>, NEW d \in Device
        PROVE  held'[d].version >= held[d].version
    <2>1. held[d].version \in Nat
      BY <1>3 DEF ClientTypeOK, Snapshot
    <2>2. CASE applySnapshot(d)
      BY <1>3, <2>1, <2>2 DEF applySnapshot, ClientTypeOK, OrderInv, ConfigIsNewest
    <2>3. ASSUME NEW x \in Device, Kill(x) \/ restoreCachedPolicy(x) PROVE FALSE
      BY <1>3, <2>3 DEF Kill, restoreCachedPolicy, ClientTypeOK
    <2>4. CASE ~applySnapshot(d)
      <3>1. held'[d] = held[d]
        BY <1>3, <2>3, <2>4 DEF Next, Client, Poll, Receive, SaveVersion, applySnapshot, Stored,
                                Lose, Unheard, clientVars, vars, ClientTypeOK
      <3>2. QED
        BY <2>1, <3>1
    <2>5. QED
      BY <2>2, <2>4
  <1>4. ClientTypeOK /\ OrderInv /\ [Next]_vars =>
            [UNCHANGED <<kills, cached>> =>
                 \A d \in Device : held'[d].version >= held[d].version]_vars
    BY <1>3
  <1>5. QED
    BY <1>1, <1>2, <1>4, SystemTypeCorrect, PTL DEF Spec, HeldNeverRegresses

===============================================================================
