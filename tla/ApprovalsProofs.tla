---------------------------- MODULE ApprovalsProofs ----------------------------
(***************************************************************************)
(* Proofs about Approvals, for every family, every number of asks, rows,   *)
(* parents and handlers, and every bound.                                  *)
(***************************************************************************)
EXTENDS Approvals, TLAPS

LEMMA NoCallType == NoCall \in Call
  BY DEF NoCall, Call, Action, Kind

\* A handler's step, and what it leaves.
LEMMA StepType ==
    ASSUME TypeOK, NEW h \in Handler, NEW from, NEW to \in PC, Step(h, from, to)
    PROVE  /\ pc' \in [Handler -> PC]
           /\ turn' \in Handler \cup {None}
           /\ UNCHANGED <<stale, clock, setting, failures>>
  BY DEF TypeOK, Step, world

LEMMA ReturnType ==
    ASSUME TypeOK, NEW h \in Handler, Return(h)
    PROVE  call' \in [Handler -> Call]
  BY NoCallType DEF TypeOK, Return

LEMMA WriteType ==
    ASSUME TypeOK, NEW row \in Request, Write(row)
    PROVE  /\ requests' \in [Row -> Request \cup {None}]
           /\ \A r \in Row : requests'[r] # None => requests'[r].id = r
  BY DEF TypeOK, Write, Request

\* What a handler holds at each of its steps, on any store.
Holds(h) ==
    /\ pc[h] \in {"find", "insert"} => call[h].ask # None
    /\ pc[h] \in {"enrich", "produce", "status", "record"} => call[h].row # None
    /\ pc[h] = "enrich" => call[h].row.status = "PENDING"
    /\ pc[h] = "status" => Made(call[h].row.id, call[h].action)
    /\ pc[h] \in {"markBefore", "markUpdate", "markAfter"} =>
           call[h].rule # None /\ call[h].at # 0

Locals == \A h \in Handler : Holds(h)

LEMMA AskingType ==
    ASSUME TypeOK, Locals, NEW h \in Handler, Asking(h)
    PROVE  TypeOK'
  <1> USE DEF store, history
  <1>c. call[h] \in Call
    BY DEF TypeOK
  <1>1. ASSUME NEW a \in setting.asks, NEW context \in BOOLEAN, createRequest(h, a, context)
        PROVE  TypeOK'
    <2>1. a \in Ask
      BY ApprovalsAssumption DEF TypeOK, Setting
    <2>2. [NoCall EXCEPT !.ask = a, !.given = context] \in Call
      BY <2>1, NoCallType DEF Call, NoCall
    <2>3. call' \in [Handler -> Call]
      BY <1>1, <2>2 DEF TypeOK, createRequest
    <2>4. QED
      BY <1>1, <2>3, StepType DEF TypeOK, createRequest, PC
  <1>2. CASE FindDuplicate(h)
    <2>1. CASE Step(h, "find", "insert") /\ UNCHANGED <<store, history, call>>
      BY <2>1, StepType DEF TypeOK, PC
    <2>2. ASSUME NEW r \in DuplicatesOf(call[h].ask), Step(h, "find", "enrich"),
                 call' = [call EXCEPT ![h].row = Enriched(h, r)], UNCHANGED <<store, history>>
          PROVE  TypeOK'
      <3>a. requests[r] \in Request
        BY <2>2 DEF TypeOK, DuplicatesOf, Pending
      <3>b. (requests[r].context \/ call[h].given) \in BOOLEAN
        OBVIOUS
      <3>1. Enriched(h, r) \in Request
        BY <3>a, <3>b DEF Enriched, Request
      <3>2. call' \in [Handler -> Call]
        BY <1>c, <2>2, <3>1 DEF TypeOK, Call
      <3>3. QED
        BY <2>2, <3>2, StepType DEF TypeOK, PC
    <2>3. CASE Step(h, "find", "idle") /\ Return(h) /\ UNCHANGED <<store, history>>
      BY <2>3, StepType, ReturnType DEF TypeOK, PC
    <2>4. QED
      BY <1>2, <2>1, <2>2, <2>3 DEF FindDuplicate
  <1>3. CASE Enrich(h)
    <2>1. call[h].row \in Request
      BY <1>3, <1>c DEF Enrich, Step, Locals, Holds, Call
    <2>2. QED
      BY <1>3, <2>1, StepType, ReturnType, WriteType DEF TypeOK, Enrich, PC
  <1>4. ASSUME NEW r \in setting.rows, Insert(h, r) PROVE TypeOK'
    <2>1. r \in Row
      BY ApprovalsAssumption DEF TypeOK, Setting
    <2>2. [id |-> r, ask |-> call[h].ask, status |-> "PENDING", context |-> call[h].given] \in Request
      BY <1>4, <1>c, <2>1 DEF Insert, Step, Locals, Holds, Request, Call, Status
    <2>3. /\ requests' \in [Row -> Request \cup {None}]
          /\ \A q \in Row : requests'[q] # None => requests'[q].id = q
      BY <1>4, <2>1, <2>2 DEF TypeOK, Insert
    <2>4. QED
      BY <1>4, <2>3, StepType, ReturnType DEF TypeOK, Insert, PC
  <1>5. QED
    BY <1>1, <1>2, <1>3, <1>4 DEF Asking

LEMMA DecidingType ==
    ASSUME TypeOK, Locals, NEW h \in Handler, Deciding(h)
    PROVE  TypeOK'
  <1> USE DEF store, history
  <1>c. call[h] \in Call
    BY DEF TypeOK
  <1>1. ASSUME NEW p \in Parent, NEW r \in Row, NEW action \in Action, NEW kind \in Kind,
               ReadRequest(h, p, r, action, kind)
        PROVE  TypeOK'
    <2>1. requests[r] \in Request
      BY <1>1 DEF TypeOK, ReadRequest, Pending
    <2>2. [NoCall EXCEPT !.row = requests[r], !.action = action, !.kind = kind] \in Call
      BY <2>1, NoCallType DEF Call, NoCall
    <2>3. call' \in [Handler -> Call]
      BY <1>1, <2>2 DEF TypeOK, ReadRequest
    <2>4. QED
      BY <1>1, <2>3, StepType DEF TypeOK, ReadRequest, PC
  <1>2. ASSUME NEW g \in RuleId, ProduceRule(h, g) PROVE TypeOK'
    <2>1. call[h].row \in Request
      BY <1>2, <1>c DEF ProduceRule, Step, Locals, Holds, Call
    <2>2. call[h].row.id \in Row /\ call[h].action \in Action /\ call[h].kind \in Kind
      BY <1>c, <2>1 DEF Request, Call
    <2>3. rules' \in [RuleId -> Rule \cup {None}]
      BY <1>2, <2>2 DEF TypeOK, ProduceRule, Rule
    <2>4. Append(made[call[h].row.id], call[h].action) \in Seq(Action)
      BY <2>2 DEF TypeOK
    <2>5. made' \in [Row -> Seq(Action)]
      BY <1>2, <2>2, <2>4 DEF TypeOK, ProduceRule
    <2>6. QED
      BY <1>2, <2>3, <2>5, StepType DEF TypeOK, ProduceRule, PC
  <1>3. CASE WriteStatus(h)
    <2>1. call[h].row \in Request
      BY <1>3, <1>c DEF WriteStatus, Step, Locals, Holds, Call
    <2>2. [call[h].row EXCEPT !.status = Announced(call[h].action)] \in Request
      BY <2>1 DEF Request, Announced, Status
    <2>3. QED
      BY <1>3, <2>2, StepType, WriteType DEF TypeOK, WriteStatus, PC
  <1>4. CASE RecordDecision(h)
    <2>1. call[h].row.id \in Row
      BY <1>4, <1>c DEF RecordDecision, Step, Locals, Holds, Call, Request
    <2>2. answers' \in [Row -> Nat]
      BY <1>4, <2>1 DEF TypeOK, RecordDecision
    <2>3. QED
      BY <1>4, <2>2, StepType, ReturnType DEF TypeOK, RecordDecision, PC
  <1>5. QED
    BY <1>1, <1>2, <1>3, <1>4 DEF Deciding

LEMMA ExpiringType ==
    ASSUME TypeOK, NEW h \in Handler, Expiring(h)
    PROVE  TypeOK'
  <1> USE DEF store, history
  <1>c. call[h] \in Call
    BY DEF TypeOK
  <1>1. CASE expireStaleRequests(h)
    <2>1. {requests[r] : r \in {q \in stale : Pending(q)}} \subseteq Request
      BY DEF TypeOK, Pending
    <2>2. [NoCall EXCEPT !.listed = {requests[r] : r \in {q \in stale : Pending(q)}}] \in Call
      BY <2>1, NoCallType DEF Call, NoCall
    <2>3. call' \in [Handler -> Call]
      BY <1>1, <2>2 DEF TypeOK, expireStaleRequests
    <2>4. QED
      BY <1>1, <2>3, StepType DEF TypeOK, expireStaleRequests, PC
  <1>2. CASE ExpireOne(h)
    <2>1. PICK row \in call[h].listed :
              /\ Step(h, "expire", "expire")
              /\ Write([row EXCEPT !.status = "EXPIRED"])
              /\ call' = [call EXCEPT ![h].listed = @ \ {row}]
      BY <1>2 DEF ExpireOne
    <2>2. row \in Request
      BY <1>c DEF Call
    <2>3. [row EXCEPT !.status = "EXPIRED"] \in Request
      BY <2>2 DEF Request, Status
    <2>4. call' \in [Handler -> Call]
      BY <1>c, <2>1 DEF TypeOK, Call
    <2>5. QED
      BY <1>2, <2>1, <2>3, <2>4, StepType, WriteType DEF TypeOK, ExpireOne, PC
  <1>3. CASE ExpiryDone(h)
    BY <1>3, StepType, ReturnType DEF TypeOK, ExpiryDone, PC
  <1>4. QED
    BY <1>1, <1>2, <1>3 DEF Expiring

LEMMA SpendingType ==
    ASSUME TypeOK, Locals, NEW h \in Handler, Spending(h)
    PROVE  TypeOK'
  <1> USE DEF store, history
  <1>c. call[h] \in Call
    BY DEF TypeOK
  <1>1. ASSUME NEW g \in RuleId, consumeGrant(h, g) PROVE TypeOK'
    <2>1. [NoCall EXCEPT !.rule = g, !.at = clock] \in Call
      BY NoCallType DEF TypeOK, Call, NoCall
    <2>2. call' \in [Handler -> Call]
      BY <1>1, <2>1 DEF TypeOK, consumeGrant
    <2>3. QED
      BY <1>1, <2>2, StepType DEF TypeOK, consumeGrant, PC
  <1>2. CASE MarkBefore(h)
    <2>1. /\ Step(h, "markBefore", "idle") \/ Step(h, "markBefore", "markUpdate")
          /\ UNCHANGED call \/ Return(h)
          /\ UNCHANGED <<store, history>>
      BY <1>2 DEF MarkBefore, Check
    <2>2. QED
      BY <2>1, StepType, ReturnType DEF TypeOK, PC
  <1>3. CASE MarkUpdate(h)
    <2>1. call[h].rule \in RuleId /\ call[h].at \in Nat
      BY <1>3, <1>c DEF MarkUpdate, Step, Locals, Holds, Call
    <2>2. rules' \in [RuleId -> Rule \cup {None}]
      <3>1. CASE Unspent(call[h].rule)
        <4>1. rules[call[h].rule] \in Rule
          BY <2>1, <3>1 DEF TypeOK, Unspent
        <4>2. [rules[call[h].rule] EXCEPT !.consumedAt = call[h].at] \in Rule
          BY <2>1, <4>1 DEF Rule
        <4>3. rules' = [rules EXCEPT ![call[h].rule] =
                           [rules[call[h].rule] EXCEPT !.consumedAt = call[h].at]]
          BY <1>3, <3>1 DEF MarkUpdate
        <4>4. QED
          BY <2>1, <4>2, <4>3 DEF TypeOK
      <3>2. CASE ~Unspent(call[h].rule)
        BY <1>3, <3>2 DEF TypeOK, MarkUpdate
      <3>3. QED
        BY <3>1, <3>2
    <2>3. QED
      BY <1>3, <2>2, StepType DEF TypeOK, MarkUpdate, PC
  <1>4. CASE MarkAfter(h)
    <2>1. call[h].rule \in RuleId /\ call[h].at \in Nat
      BY <1>4, <1>c DEF MarkAfter, Step, Locals, Holds, Call
    <2>2. Append(spends[call[h].rule], call[h].at) \in Seq(Nat)
      BY <2>1 DEF TypeOK
    <2>3. spends' \in [RuleId -> Seq(Nat)]
      BY <1>4, <2>1, <2>2 DEF TypeOK, MarkAfter
    <2>4. QED
      BY <1>4, <2>3, StepType, ReturnType DEF TypeOK, MarkAfter, PC
  <1>5. QED
    BY <1>1, <1>2, <1>3, <1>4 DEF Spending

LEMMA OtherType ==
    ASSUME TypeOK,
           \/ \E h \in Handler : Fail(h)
           \/ \E g \in RuleId : TakeBack(g)
           \/ \E r \in Row : GrowOld(r)
           \/ Tick
    PROVE  TypeOK'
  <1> USE DEF store, history, world
  <1>1. ASSUME NEW h \in Handler, Fail(h) PROVE TypeOK'
    BY <1>1, ReturnType DEF TypeOK, Fail, PC
  <1>2. ASSUME NEW g \in RuleId, TakeBack(g) PROVE TypeOK'
    BY <1>2 DEF TypeOK, TakeBack
  <1>3. ASSUME NEW r \in Row, GrowOld(r) PROVE TypeOK'
    BY <1>3 DEF TypeOK, GrowOld
  <1>4. CASE Tick
    BY <1>4 DEF TypeOK, Tick
  <1>5. QED
    BY <1>1, <1>2, <1>3, <1>4

LEMMA TypePreserved ==
    ASSUME TypeOK, Locals, Next
    PROVE  TypeOK'
  BY AskingType, DecidingType, ExpiringType, SpendingType, OtherType DEF Next

-----------------------------------------------------------------------------
(* What every handler holds, and that answers are backed. *)

HandlerStep(h) == Asking(h) \/ Deciding(h) \/ Expiring(h) \/ Spending(h) \/ Fail(h)

LEMMA Others ==
    ASSUME TypeOK, NEW h \in Handler, HandlerStep(h)
    PROVE  \A k \in Handler \ {h} : pc'[k] = pc[k] /\ call'[k] = call[k]
  <1>1. CASE Asking(h)
    BY <1>1 DEF TypeOK, Asking, createRequest, FindDuplicate, Enrich, Insert, Step, Return
  <1>2. CASE Deciding(h)
    BY <1>2 DEF TypeOK, Deciding, ReadRequest, ProduceRule, WriteStatus, RecordDecision,
                Step, Return
  <1>3. CASE Expiring(h)
    BY <1>3 DEF TypeOK, Expiring, expireStaleRequests, ExpireOne, ExpiryDone, Step, Return
  <1>4. CASE Spending(h)
    BY <1>4 DEF TypeOK, Spending, consumeGrant, MarkBefore, MarkUpdate, MarkAfter, Check,
                Step, Return
  <1>5. CASE Fail(h)
    BY <1>5 DEF TypeOK, Fail, Return
  <1>6. QED
    BY <1>1, <1>2, <1>3, <1>4, <1>5 DEF HandlerStep

\* A handler that returned, or that lists rows to expire, holds nothing.
LEMMA IdleHolds ==
    ASSUME NEW h \in Handler, pc'[h] \in {"idle", "expire"}
    PROVE  Holds(h)'
  BY DEF Holds

\* The history of rules made only grows.
LEMMA MadeGrows ==
    ASSUME TypeOK, Locals, Next, NEW r \in Row, NEW action, Made(r, action)
    PROVE  Made(r, action)'
  <1>1. CASE UNCHANGED made
    BY <1>1 DEF Made
  <1>2. ASSUME NEW h \in Handler, NEW g \in RuleId, ProduceRule(h, g)
        PROVE  Made(r, action)'
    <2>1. call[h] \in Call
      BY DEF TypeOK
    <2>2. call[h].row.id \in Row /\ call[h].action \in Action
      BY <1>2, <2>1 DEF ProduceRule, Step, Locals, Holds, Call, Request
    <2>3. /\ made \in [Row -> Seq(Action)]
          /\ made' = [made EXCEPT ![call[h].row.id] =
                          Append(made[call[h].row.id], call[h].action)]
      BY <1>2 DEF TypeOK, ProduceRule
    <2>4. \A i \in 1 .. Len(made[r]) : i \in 1 .. Len(made'[r]) /\ made'[r][i] = made[r][i]
      BY <2>2, <2>3
    <2>5. QED
      BY <2>4 DEF Made
  <1>3. UNCHANGED made \/ \E h \in Handler, g \in RuleId : ProduceRule(h, g)
    <2>1. ASSUME NEW h \in Handler, Asking(h) PROVE UNCHANGED made
      BY <2>1 DEF Asking, createRequest, FindDuplicate, Enrich, Insert, history
    <2>2. ASSUME NEW h \in Handler, Deciding(h)
          PROVE  UNCHANGED made \/ \E g \in RuleId : ProduceRule(h, g)
      BY <2>2 DEF Deciding, ReadRequest, WriteStatus, RecordDecision, history
    <2>3. ASSUME NEW h \in Handler, Expiring(h) PROVE UNCHANGED made
      BY <2>3 DEF Expiring, expireStaleRequests, ExpireOne, ExpiryDone, history
    <2>4. ASSUME NEW h \in Handler, Spending(h) PROVE UNCHANGED made
      BY <2>4 DEF Spending, consumeGrant, MarkBefore, MarkUpdate, MarkAfter, Check, history
    <2>5. QED
      BY <2>1, <2>2, <2>3, <2>4 DEF Next, Fail, TakeBack, GrowOld, Tick, history
  <1>4. QED
    BY <1>1, <1>2, <1>3

LEMMA AskingHolds ==
    ASSUME TypeOK, Locals, NEW h \in Handler, Asking(h)
    PROVE  Holds(h)'
  <1>c. call[h] \in Call
    BY DEF TypeOK
  <1>1. ASSUME NEW a \in setting.asks, NEW context \in BOOLEAN, createRequest(h, a, context)
        PROVE  Holds(h)'
    <2>1. a # None
      BY ApprovalsAssumption DEF TypeOK, Setting
    <2>2. pc'[h] = "find" /\ call'[h].ask = a
      BY <1>1 DEF TypeOK, createRequest, Step, NoCall
    <2>3. QED
      BY <2>1, <2>2 DEF Holds
  <1>2. CASE FindDuplicate(h)
    <2>1. CASE Step(h, "find", "insert") /\ UNCHANGED call
      BY <2>1 DEF TypeOK, Locals, Holds, Step
    <2>2. ASSUME NEW r \in DuplicatesOf(call[h].ask), Step(h, "find", "enrich"),
                 call' = [call EXCEPT ![h].row = Enriched(h, r)]
          PROVE  Holds(h)'
      <3>1. requests[r] \in Request /\ requests[r].status = "PENDING"
        BY <2>2 DEF TypeOK, DuplicatesOf, Pending
      <3>2. Enriched(h, r) # None /\ Enriched(h, r).status = "PENDING"
        <4>1. (requests[r].context \/ call[h].given) \in BOOLEAN
          OBVIOUS
        <4>2. Enriched(h, r) \in Request
          BY <3>1, <4>1 DEF Enriched, Request
        <4>3. QED
          BY <3>1, <4>2, ApprovalsAssumption DEF Enriched, Request
      <3>3. pc'[h] = "enrich" /\ call'[h].row = Enriched(h, r)
        BY <1>c, <2>2 DEF TypeOK, Step, Call
      <3>4. QED
        BY <3>2, <3>3 DEF Holds
    <2>3. CASE Step(h, "find", "idle")
      BY <2>3, IdleHolds DEF TypeOK, Step
    <2>4. QED
      BY <1>2, <2>1, <2>2, <2>3 DEF FindDuplicate
  <1>3. CASE Enrich(h)
    BY <1>3, IdleHolds DEF TypeOK, Enrich, Step
  <1>4. CASE \E r \in setting.rows : Insert(h, r)
    BY <1>4, IdleHolds DEF TypeOK, Insert, Step
  <1>5. QED
    BY <1>1, <1>2, <1>3, <1>4 DEF Asking

LEMMA AppendHas ==
    ASSUME NEW S, NEW s \in Seq(S), NEW x \in S
    PROVE  /\ Len(s) + 1 \in 1 .. Len(Append(s, x))
           /\ Append(s, x)[Len(s) + 1] = x
  OBVIOUS

LEMMA DecidingHolds ==
    ASSUME TypeOK, Locals, NEW h \in Handler, Deciding(h)
    PROVE  Holds(h)'
  <1>c. call[h] \in Call
    BY DEF TypeOK
  <1>1. ASSUME NEW p \in Parent, NEW r \in Row, NEW action \in Action, NEW kind \in Kind,
               ReadRequest(h, p, r, action, kind)
        PROVE  Holds(h)'
    <2>1. requests[r] # None
      BY <1>1 DEF ReadRequest, Pending
    <2>2. pc'[h] = "produce" /\ call'[h].row = requests[r]
      BY <1>1 DEF TypeOK, ReadRequest, Step, NoCall
    <2>3. QED
      BY <2>1, <2>2 DEF Holds
  <1>2. ASSUME NEW g \in RuleId, ProduceRule(h, g) PROVE Holds(h)'
    <2>1. /\ call[h].row # None /\ call[h].row.id \in Row /\ call[h].action \in Action
          /\ pc'[h] = "status" /\ call'[h] = call[h]
      BY <1>2, <1>c DEF TypeOK, ProduceRule, Step, Locals, Holds, Call, Request
    <2>2. /\ made[call[h].row.id] \in Seq(Action)
          /\ made'[call[h].row.id] = Append(made[call[h].row.id], call[h].action)
      BY <1>2, <2>1 DEF TypeOK, ProduceRule
    <2>3. \E n \in 1 .. Len(made'[call[h].row.id]) : made'[call[h].row.id][n] = call[h].action
      <3>1. PICK s \in Seq(Action) : s = made[call[h].row.id]
        BY <2>2
      <3>2. PICK a \in Action : a = call[h].action
        BY <2>1
      <3>3. PICK t : t = Append(s, a)
        OBVIOUS
      <3>4. Len(s) + 1 \in 1 .. Len(t) /\ t[Len(s) + 1] = a
        BY <3>3, AppendHas
      <3>5. made'[call[h].row.id] = t
        BY <2>2, <3>1, <3>2, <3>3
      <3>6. QED
        BY <3>2, <3>4, <3>5
    <2>4. Made(call[h].row.id, call[h].action)'
      BY <2>1, <2>3 DEF Made
    <2>5. QED
      BY <2>1, <2>4 DEF Holds
  <1>3. CASE WriteStatus(h)
    BY <1>3 DEF TypeOK, WriteStatus, Step, Locals, Holds
  <1>4. CASE RecordDecision(h)
    BY <1>4, IdleHolds DEF TypeOK, RecordDecision, Step
  <1>5. QED
    BY <1>1, <1>2, <1>3, <1>4 DEF Deciding

LEMMA SpendingHolds ==
    ASSUME TypeOK, Locals, NEW h \in Handler, Spending(h)
    PROVE  Holds(h)'
  <1>1. ASSUME NEW g \in RuleId, consumeGrant(h, g) PROVE Holds(h)'
    <2>1. pc'[h] = "markBefore" /\ call'[h].rule = g /\ call'[h].at = clock
      BY <1>1 DEF TypeOK, consumeGrant, Step, NoCall
    <2>2. QED
      BY <2>1, ApprovalsAssumption DEF TypeOK, Holds
  <1>2. CASE MarkBefore(h)
    BY <1>2 DEF TypeOK, MarkBefore, Check, Step, Return, Locals, Holds
  <1>3. CASE MarkUpdate(h)
    BY <1>3 DEF TypeOK, MarkUpdate, Step, Locals, Holds
  <1>4. CASE MarkAfter(h)
    BY <1>4, IdleHolds DEF TypeOK, MarkAfter, Step
  <1>5. QED
    BY <1>1, <1>2, <1>3, <1>4 DEF Spending

LEMMA LocalsPreserved ==
    ASSUME TypeOK, Locals, Next
    PROVE  Locals'
  <1>1. ASSUME NEW k \in Handler, pc'[k] = pc[k], call'[k] = call[k]
        PROVE  Holds(k)'
    <2>1. CASE pc[k] = "status"
      <3>1. Holds(k) /\ call[k] \in Call
        BY DEF TypeOK, Locals
      <3>2. call[k].row.id \in Row /\ Made(call[k].row.id, call[k].action)
        BY <2>1, <3>1 DEF Holds, Call, Request
      <3>3. Made(call[k].row.id, call[k].action)'
        <4> DEFINE q == call[k].row.id
        <4>1. q' = q /\ call'[k].action = call[k].action
          BY <1>1
        <4>2. \E i \in 1 .. Len(made'[q]) : made'[q][i] = call[k].action
          <5> HIDE DEF q
          <5>1. q \in Row /\ Made(q, call[k].action)
            BY <3>2 DEF q
          <5>2. QED
            BY <5>1, MadeGrows DEF Made
        <4>3. QED
          BY <4>1, <4>2 DEF Made
      <3>4. QED
        BY <1>1, <2>1, <3>1, <3>3 DEF Holds
    <2>2. CASE pc[k] # "status"
      BY <1>1, <2>2 DEF Locals, Holds
    <2>3. QED
      BY <2>1, <2>2
  <1>2. ASSUME NEW h \in Handler, HandlerStep(h) PROVE Locals'
    <2>1. Holds(h)'
      BY <1>2, AskingHolds, DecidingHolds, SpendingHolds, IdleHolds
         DEF HandlerStep, Expiring, expireStaleRequests, ExpireOne, ExpiryDone, Fail, Step, TypeOK
    <2>2. QED
      BY <1>1, <1>2, <2>1, Others DEF Locals
  <1>3. CASE UNCHANGED <<pc, call>>
    BY <1>1, <1>3 DEF Locals
  <1>4. QED
    BY <1>2, <1>3 DEF Next, HandlerStep, TakeBack, GrowOld, Tick

-----------------------------------------------------------------------------
(* Answers are backed by rules. *)

Backed(row) == /\ row.status = "APPROVED" => Made(row.id, "ALLOW")
               /\ row.status = "DENIED" => Made(row.id, "BLOCK")

LEMMA WriteBacked ==
    ASSUME TypeOK, Locals, Next, AnswersAreBacked,
           NEW row \in Request, Write(row), Backed(row)
    PROVE  AnswersAreBacked'
  <1> SUFFICES ASSUME NEW r \in Row, requests'[r] # None
               PROVE  /\ requests'[r].status = "APPROVED" => Made(r, "ALLOW")'
                      /\ requests'[r].status = "DENIED" => Made(r, "BLOCK")'
    BY DEF AnswersAreBacked
  <1>1. CASE r = row.id
    <2>1. requests'[r] = row
      BY <1>1 DEF TypeOK, Write
    <2>2. QED
      BY <1>1, <2>1, MadeGrows DEF Backed
  <1>2. CASE r # row.id
    <2>1. requests'[r] = requests[r]
      BY <1>2 DEF TypeOK, Write, Request
    <2>2. QED
      BY <2>1, MadeGrows DEF AnswersAreBacked
  <1>3. QED
    BY <1>1, <1>2

LEMMA BackedPreserved ==
    ASSUME TypeOK, Locals, Next, AnswersAreBacked
    PROVE  AnswersAreBacked'
  <1>1. CASE UNCHANGED requests
    BY <1>1, MadeGrows DEF AnswersAreBacked
  <1>2. ASSUME NEW h \in Handler, Enrich(h) PROVE AnswersAreBacked'
    <2>1. call[h].row \in Request /\ call[h].row.status = "PENDING" /\ Write(call[h].row)
      BY <1>2 DEF TypeOK, Enrich, Step, Locals, Holds, Call
    <2>2. QED
      BY <2>1, WriteBacked DEF Backed
  <1>3. ASSUME NEW h \in Handler, NEW r \in setting.rows, Insert(h, r) PROVE AnswersAreBacked'
    <2>1. r \in Row
      BY ApprovalsAssumption DEF TypeOK, Setting
    <2>2. /\ requests'[r].status = "PENDING"
          /\ \A q \in Row \ {r} : requests'[q] = requests[q]
      BY <1>3, <2>1 DEF TypeOK, Insert
    <2>3. QED
      BY <2>2, MadeGrows DEF AnswersAreBacked
  <1>4. ASSUME NEW h \in Handler, WriteStatus(h) PROVE AnswersAreBacked'
    <2>1. call[h].row \in Request /\ Made(call[h].row.id, call[h].action)
      BY <1>4 DEF TypeOK, WriteStatus, Step, Locals, Holds, Call
    <2>2. call[h].action \in Action
      BY DEF TypeOK, Call
    <2> DEFINE row == [call[h].row EXCEPT !.status = Announced(call[h].action)]
    <2>3. /\ row \in Request /\ row.id = call[h].row.id
          /\ row.status = Announced(call[h].action)
      BY <2>1 DEF Request, Announced, Status
    <2>4. Backed(row)
      BY <2>1, <2>2, <2>3 DEF Backed, Announced, Action
    <2>5. QED
      BY <1>4, <2>3, <2>4, WriteBacked DEF WriteStatus
  <1>5. ASSUME NEW h \in Handler, ExpireOne(h) PROVE AnswersAreBacked'
    <2>1. PICK row \in call[h].listed : Write([row EXCEPT !.status = "EXPIRED"])
      BY <1>5 DEF ExpireOne
    <2>2. row \in Request
      BY DEF TypeOK, Call
    <2>3. /\ [row EXCEPT !.status = "EXPIRED"] \in Request
          /\ [row EXCEPT !.status = "EXPIRED"].status = "EXPIRED"
      BY <2>2 DEF Request, Status
    <2>4. QED
      BY <2>1, <2>3, WriteBacked DEF Backed
  <1>6. \/ UNCHANGED requests
        \/ \E h \in Handler : Enrich(h) \/ WriteStatus(h) \/ ExpireOne(h)
                              \/ \E r \in setting.rows : Insert(h, r)
    BY DEF Next, Asking, Deciding, Expiring, Spending, createRequest, FindDuplicate,
           ReadRequest, ProduceRule, RecordDecision, expireStaleRequests, ExpiryDone,
           consumeGrant, MarkBefore, MarkUpdate, MarkAfter, Check, Fail, TakeBack, GrowOld,
           Tick, store
  <1>7. QED
    BY <1>1, <1>2, <1>3, <1>4, <1>5, <1>6

-----------------------------------------------------------------------------
(* Spending. *)

\* The spends of a grant happened when its row says it was consumed.
SpendsMatch(g) ==
    /\ rules[g] # None \/ spends[g] # <<>> => g \in usedIds
    /\ \A i \in 1 .. Len(spends[g]) :
        /\ spends[g][i] # 0
        /\ rules[g] # None => rules[g].consumedAt = spends[g][i]
        /\ \A j \in 1 .. Len(spends[g]) : spends[g][i] = spends[g][j]

LEMMA SpendsPreserved ==
    ASSUME TypeOK, Locals, Next, \A g \in RuleId : SpendsMatch(g), NEW g \in RuleId
    PROVE  SpendsMatch(g)'
  <1> USE DEF store, history
  <1>1. CASE UNCHANGED <<rules, usedIds, spends>>
    BY <1>1 DEF SpendsMatch
  <1>2. ASSUME NEW h \in Handler, NEW x \in RuleId, ProduceRule(h, x) PROVE SpendsMatch(g)'
    <2>1. usedIds' = usedIds \cup {x} /\ spends' = spends
      BY <1>2 DEF ProduceRule
    <2>2. CASE g = x
      <3>1. spends[g] = <<>>
        BY <1>2, <2>2 DEF SpendsMatch, ProduceRule
      <3>2. QED
        BY <2>1, <2>2, <3>1 DEF SpendsMatch
    <2>3. CASE g # x
      <3>1. rules'[g] = rules[g]
        BY <1>2, <2>3 DEF TypeOK, ProduceRule
      <3>2. QED
        BY <2>1, <3>1 DEF SpendsMatch
    <2>4. QED
      BY <2>2, <2>3
  <1>3. ASSUME NEW x \in RuleId, TakeBack(x) PROVE SpendsMatch(g)'
    <2>1. usedIds' = usedIds /\ spends' = spends /\ rules'[g] \in {None, rules[g]}
      BY <1>3 DEF TypeOK, TakeBack
    <2>2. QED
      BY <2>1 DEF SpendsMatch
  <1>4. ASSUME NEW h \in Handler, MarkUpdate(h) PROVE SpendsMatch(g)'
    <2>1. usedIds' = usedIds /\ spends' = spends
      BY <1>4 DEF MarkUpdate
    <2>2. CASE rules'[g] = rules[g]
      BY <2>1, <2>2 DEF SpendsMatch
    <2>3. CASE Unspent(g)
      <3>1. g \in usedIds
        BY <2>3 DEF SpendsMatch, Unspent
      <3>2. 1 .. Len(spends[g]) = {}
        BY <2>3 DEF SpendsMatch, Unspent
      <3>3. QED
        BY <2>1, <3>1, <3>2 DEF SpendsMatch
    <2>4. rules'[g] = rules[g] \/ Unspent(g)
      BY <1>4 DEF TypeOK, MarkUpdate
    <2>5. QED
      BY <2>2, <2>3, <2>4
  <1>5. ASSUME NEW h \in Handler, MarkAfter(h) PROVE SpendsMatch(g)'
    <2>1. usedIds' = usedIds /\ rules' = rules
      BY <1>5 DEF MarkAfter
    <2>2. CASE spends'[g] = spends[g]
      BY <2>1, <2>2 DEF SpendsMatch
    <2>3. CASE /\ spends'[g] = Append(spends[g], call[h].at)
               /\ rules[g] # None /\ rules[g].consumedAt = call[h].at
      <3>1. call[h].at \in Nat /\ call[h].at # 0 /\ spends[g] \in Seq(Nat)
        BY <1>5 DEF TypeOK, Call, MarkAfter, Step, Locals, Holds
      <3>2. \A i \in 1 .. Len(spends'[g]) : spends'[g][i] = call[h].at
        BY <2>3, <3>1 DEF SpendsMatch
      <3>3. QED
        BY <2>1, <2>3, <3>1, <3>2 DEF SpendsMatch
    <2>4. \/ spends'[g] = spends[g]
          \/ /\ spends'[g] = Append(spends[g], call[h].at)
             /\ rules[g] # None /\ rules[g].consumedAt = call[h].at
      BY <1>5 DEF TypeOK, MarkAfter
    <2>5. QED
      BY <2>2, <2>3, <2>4
  <1>6. \/ UNCHANGED <<rules, usedIds, spends>>
        \/ \E h \in Handler : MarkUpdate(h) \/ MarkAfter(h)
                              \/ \E x \in RuleId : ProduceRule(h, x)
        \/ \E x \in RuleId : TakeBack(x)
    <2>1. ASSUME NEW h \in Handler, Asking(h)
          PROVE  \/ UNCHANGED <<rules, usedIds, spends>>
                 \/ \E k \in Handler : MarkUpdate(k) \/ MarkAfter(k)
                                       \/ \E x \in RuleId : ProduceRule(k, x)
      BY <2>1 DEF Asking, createRequest, FindDuplicate, Enrich, Insert
    <2>2. ASSUME NEW h \in Handler, Deciding(h)
          PROVE  \/ UNCHANGED <<rules, usedIds, spends>>
                 \/ \E k \in Handler : MarkUpdate(k) \/ MarkAfter(k)
                                       \/ \E x \in RuleId : ProduceRule(k, x)
      BY <2>2 DEF Deciding, ReadRequest, WriteStatus, RecordDecision
    <2>3. ASSUME NEW h \in Handler, Expiring(h)
          PROVE  \/ UNCHANGED <<rules, usedIds, spends>>
                 \/ \E k \in Handler : MarkUpdate(k) \/ MarkAfter(k)
                                       \/ \E x \in RuleId : ProduceRule(k, x)
      BY <2>3 DEF Expiring, expireStaleRequests, ExpireOne, ExpiryDone
    <2>4. ASSUME NEW h \in Handler, Spending(h)
          PROVE  \/ UNCHANGED <<rules, usedIds, spends>>
                 \/ \E k \in Handler : MarkUpdate(k) \/ MarkAfter(k)
                                       \/ \E x \in RuleId : ProduceRule(k, x)
      BY <2>4 DEF Spending, consumeGrant, MarkBefore, Check
    <2>5. ASSUME \/ \E h \in Handler : Fail(h)
                 \/ \E r \in Row : GrowOld(r)
                 \/ Tick
          PROVE  \/ UNCHANGED <<rules, usedIds, spends>>
                 \/ \E k \in Handler : MarkUpdate(k) \/ MarkAfter(k)
                                       \/ \E x \in RuleId : ProduceRule(k, x)
      BY <2>5 DEF Fail, GrowOld, Tick
    <2>6. QED
      BY <2>1, <2>2, <2>3, <2>4, <2>5 DEF Next
  <1>7. QED
    BY <1>1, <1>2, <1>3, <1>4, <1>5, <1>6

-----------------------------------------------------------------------------
(* The invariant of any store. *)

Inv == TypeOK /\ Locals /\ AnswersAreBacked /\ \A g \in RuleId : SpendsMatch(g)

LEMMA InvInit == Init => Inv
  <1> SUFFICES ASSUME Init PROVE Inv
    OBVIOUS
  <1>1. TypeOK
    BY NoCallType DEF Init, TypeOK, PC
  <1>2. Locals
    BY DEF Init, Locals, Holds
  <1>3. AnswersAreBacked
    BY DEF Init, AnswersAreBacked
  <1>4. \A g \in RuleId : SpendsMatch(g)
    BY DEF Init, SpendsMatch
  <1>5. QED
    BY <1>1, <1>2, <1>3, <1>4 DEF Inv

LEMMA InvStutter == Inv /\ UNCHANGED vars => Inv'
  <1> SUFFICES ASSUME Inv, UNCHANGED vars PROVE Inv'
    OBVIOUS
  <1> USE DEF vars, store, history, world
  <1>1. TypeOK'
    BY DEF Inv, TypeOK
  <1>2. Locals'
    BY DEF Inv, Locals, Holds, Made
  <1>3. AnswersAreBacked'
    BY DEF Inv, AnswersAreBacked, Made
  <1>4. \A g \in RuleId : SpendsMatch(g)'
    BY DEF Inv, SpendsMatch
  <1>5. QED
    BY <1>1, <1>2, <1>3, <1>4 DEF Inv

LEMMA InvNext == Inv /\ [Next]_vars => Inv'
  BY InvStutter, TypePreserved, LocalsPreserved, BackedPreserved, SpendsPreserved DEF Inv

-----------------------------------------------------------------------------
(* Synchronous stores: what a handler read stays true until it returns,     *)
(* because no other handler runs before it does.                            *)

\* A row that was read is still what the table holds.
Reads(row) == row.status = "PENDING" /\ requests[row.id] = row

\* What h holds has not been overtaken.
Fresh(h) ==
    /\ pc[h] = "insert" => DuplicatesOf(call[h].ask) = {}
    /\ pc[h] = "enrich" =>
        LET row == call[h].row IN
        /\ Pending(row.id) /\ requests[row.id].ask = row.ask
        /\ requests[row.id].context => row.context
    /\ pc[h] \in {"produce", "status"} => Reads(call[h].row)
    /\ pc[h] = "status" => LET acts == made[call[h].row.id] IN
        acts # <<>> /\ acts[Len(acts)] = call[h].action
    /\ pc[h] = "record" => LET q == call[h].row.id IN
        /\ requests[q] # None /\ requests[q].status = Announced(call[h].action)
        /\ answers[q] = 0
    /\ pc[h] = "expire" => \A row \in call[h].listed : Reads(row)
    /\ pc[h] \in {"markBefore", "markUpdate"} => Unspent(call[h].rule)
    /\ pc[h] = "markAfter" =>
        /\ rules[call[h].rule] # None /\ rules[call[h].rule].consumedAt = call[h].at
        /\ spends[call[h].rule] = <<>>

\* Between two turns of the event loop every handler is idle.
OneAtATime == \A h \in Handler : pc[h] # "idle" => turn = h

\* A rule in force, and the answer it was made for.
RuleBacked(g) == rules[g] # None =>
    LET row == requests[rules[g].row] IN
    /\ row # None
    /\ row.status \in {"APPROVED", "DENIED"} => row.status = Announced(rules[g].action)
    /\ row.status = "PENDING" => \E h \in Handler :
        /\ pc[h] = "status" /\ call[h].row.id = rules[g].row
        /\ call[h].action = rules[g].action

SyncInv == setting.sync =>
    /\ OneAtATime /\ \A h \in Handler : Fresh(h)
    /\ OneAnswer /\ OneOpenRowPerAsk /\ SpentOnce
    /\ failures = 0 => \A g \in RuleId : RuleBacked(g)

LEMMA SyncInvInit == Init => SyncInv
  BY DEF Init, SyncInv, OneAtATime, Fresh, OneAnswer, OneOpenRowPerAsk, SpentOnce, RuleBacked,
         Pending

LEMMA HasTurn ==
    ASSUME TypeOK, NEW h \in Handler, HandlerStep(h)
    PROVE  /\ turn \in {None, h}
           /\ setting.sync => turn' = h \/ pc'[h] = "idle"
           /\ setting' = setting
  <1> USE DEF Step, world
  <1>1. CASE Asking(h)
    BY <1>1 DEF TypeOK, Asking, createRequest, FindDuplicate, Enrich, Insert
  <1>2. CASE Deciding(h)
    BY <1>2 DEF TypeOK, Deciding, ReadRequest, ProduceRule, WriteStatus, RecordDecision
  <1>3. CASE Expiring(h)
    BY <1>3 DEF TypeOK, Expiring, expireStaleRequests, ExpireOne, ExpiryDone
  <1>4. CASE Spending(h)
    BY <1>4 DEF TypeOK, Spending, consumeGrant, MarkBefore, MarkUpdate, MarkAfter, Check
  <1>5. CASE Fail(h)
    BY <1>5 DEF TypeOK, Fail
  <1>6. QED
    BY <1>1, <1>2, <1>3, <1>4, <1>5 DEF HandlerStep

\* While a handler takes a step, every other one is idle.
LEMMA Alone ==
    ASSUME TypeOK, OneAtATime, NEW h \in Handler, HandlerStep(h)
    PROVE  \A k \in Handler \ {h} : pc[k] = "idle" /\ pc'[k] = "idle"
  BY HasTurn, Others, ApprovalsAssumption DEF OneAtATime

LEMMA OneAtATimePreserved ==
    ASSUME TypeOK, OneAtATime, setting.sync, Next
    PROVE  OneAtATime'
  <1>1. ASSUME NEW h \in Handler, HandlerStep(h) PROVE OneAtATime'
    BY <1>1, Alone, HasTurn DEF OneAtATime
  <1>2. CASE UNCHANGED <<pc, turn>>
    BY <1>2 DEF OneAtATime
  <1>3. QED
    BY <1>1, <1>2 DEF Next, HandlerStep, TakeBack, GrowOld, Tick

-----------------------------------------------------------------------------
(* The steps that write a request. *)

\* x is filed; nothing else changes.
Filed(h, x) ==
    /\ pc[h] = "insert" /\ requests[x] = None
    /\ requests'[x] # None /\ requests'[x].status = "PENDING"
    /\ requests'[x].ask = call[h].ask
    /\ \A r \in Row \ {x} : requests'[r] = requests[r]

\* x, which was open, gets this status; nothing else changes.
Moved(x, status) ==
    /\ Pending(x)
    /\ requests'[x] # None /\ requests'[x].ask = requests[x].ask
    /\ requests'[x].status = status
    /\ requests[x].context => requests'[x].context
    /\ \A r \in Row \ {x} : requests'[r] = requests[r]

LEMMA WriteMoves ==
    ASSUME TypeOK, NEW row \in Request, Write(row), Pending(row.id),
           row.ask = requests[row.id].ask, requests[row.id].context => row.context
    PROVE  row.id \in Row /\ Moved(row.id, row.status)
  <1>1. row.id \in Row /\ requests[row.id] # None
    BY DEF Request, Pending
  <1>2. /\ requests'[row.id] = row
        /\ \A r \in Row \ {row.id} : requests'[r] = requests[r]
    BY <1>1 DEF TypeOK, Write
  <1>3. row # None
    BY ApprovalsAssumption
  <1>4. requests[row.id].context => requests'[row.id].context
    BY <1>2
  <1>5. QED
    BY <1>1, <1>2, <1>3, <1>4 DEF Moved

\* The steps that write a request, and what they write.
RowWritten(h, x) ==
    \/ Insert(h, x) /\ Filed(h, x)
    \/ Enrich(h) /\ Moved(x, "PENDING")
    \/ WriteStatus(h) /\ call[h].row.id = x /\ Moved(x, Announced(call[h].action))
    \/ ExpireOne(h) /\ Moved(x, "EXPIRED")

LEMMA RowsStep ==
    ASSUME Inv, SyncInv, setting.sync, Next
    PROVE  UNCHANGED requests \/ \E h \in Handler, x \in Row : RowWritten(h, x)
  <1>t. TypeOK /\ Locals /\ \A h \in Handler : Fresh(h)
    BY DEF Inv, SyncInv
  <1>1. ASSUME NEW h \in Handler, Enrich(h) PROVE \E x \in Row : RowWritten(h, x)
    <2>1. call[h].row \in Request /\ call[h].row.status = "PENDING"
      BY <1>1, <1>t DEF TypeOK, Enrich, Step, Locals, Holds, Call
    <2>2. /\ Pending(call[h].row.id) /\ call[h].row.ask = requests[call[h].row.id].ask
          /\ requests[call[h].row.id].context => call[h].row.context
      BY <1>1, <1>t DEF Enrich, Step, Fresh
    <2>3. QED
      BY <1>1, <1>t, <2>1, <2>2, WriteMoves DEF Enrich, RowWritten
  <1>2. ASSUME NEW h \in Handler, NEW x \in setting.rows, Insert(h, x)
        PROVE  \E r \in Row : RowWritten(h, r)
    <2>1. x \in Row
      BY <1>t, ApprovalsAssumption DEF TypeOK, Setting
    <2> DEFINE row == [id |-> x, ask |-> call[h].ask, status |-> "PENDING",
                       context |-> call[h].given]
    <2>2. row \in Request
      BY <1>2, <1>t, <2>1 DEF TypeOK, Insert, Step, Locals, Holds, Call, Request, Status
    <2>3. requests'[x] = row /\ \A r \in Row \ {x} : requests'[r] = requests[r]
      BY <1>2, <1>t, <2>1 DEF TypeOK, Insert
    <2>4. Filed(h, x)
      BY <1>2, <2>2, <2>3, ApprovalsAssumption DEF Filed, Insert, Step
    <2>5. QED
      BY <1>2, <2>1, <2>4 DEF RowWritten
  <1>3. ASSUME NEW h \in Handler, WriteStatus(h) PROVE \E x \in Row : RowWritten(h, x)
    <2>1. call[h].row \in Request /\ Reads(call[h].row)
      BY <1>3, <1>t DEF TypeOK, WriteStatus, Step, Locals, Holds, Call, Fresh
    <2> DEFINE row == [call[h].row EXCEPT !.status = Announced(call[h].action)]
    <2>2. /\ row \in Request /\ row.id = call[h].row.id /\ row.ask = call[h].row.ask
          /\ row.context = call[h].row.context /\ row.status = Announced(call[h].action)
      BY <2>1 DEF Request, Announced, Status
    <2>3. /\ Pending(row.id) /\ row.ask = requests[row.id].ask
          /\ requests[row.id].context => row.context
      BY <2>1, <2>2, ApprovalsAssumption DEF Reads, Pending
    <2>4. row.id \in Row /\ Moved(row.id, row.status)
      BY <1>3, <1>t, <2>2, <2>3, WriteMoves DEF WriteStatus
    <2>5. QED
      BY <1>3, <2>2, <2>4 DEF RowWritten
  <1>4. ASSUME NEW h \in Handler, ExpireOne(h) PROVE \E x \in Row : RowWritten(h, x)
    <2>1. PICK old \in call[h].listed : Write([old EXCEPT !.status = "EXPIRED"])
      BY <1>4 DEF ExpireOne
    <2>2. old \in Request /\ Reads(old)
      BY <1>4, <1>t DEF TypeOK, Call, ExpireOne, Step, Fresh
    <2> DEFINE row == [old EXCEPT !.status = "EXPIRED"]
    <2>3. /\ row \in Request /\ row.id = old.id /\ row.ask = old.ask
          /\ row.context = old.context /\ row.status = "EXPIRED"
      BY <2>2 DEF Request, Status
    <2>4. /\ Pending(row.id) /\ row.ask = requests[row.id].ask
          /\ requests[row.id].context => row.context
      BY <2>2, <2>3, ApprovalsAssumption DEF Reads, Pending
    <2>5. row.id \in Row /\ Moved(row.id, row.status)
      BY <1>t, <2>1, <2>3, <2>4, WriteMoves
    <2>6. QED
      BY <1>4, <2>3, <2>5 DEF RowWritten
  <1>5. \/ UNCHANGED requests
        \/ \E h \in Handler : Enrich(h) \/ WriteStatus(h) \/ ExpireOne(h)
                              \/ \E x \in setting.rows : Insert(h, x)
    <2>1. ASSUME NEW h \in Handler, Asking(h)
          PROVE  \/ UNCHANGED requests
                 \/ \E k \in Handler : Enrich(k) \/ WriteStatus(k) \/ ExpireOne(k)
                                       \/ \E x \in setting.rows : Insert(k, x)
      BY <2>1 DEF Asking, createRequest, FindDuplicate, store
    <2>2. ASSUME NEW h \in Handler, Deciding(h)
          PROVE  \/ UNCHANGED requests
                 \/ \E k \in Handler : Enrich(k) \/ WriteStatus(k) \/ ExpireOne(k)
                                       \/ \E x \in setting.rows : Insert(k, x)
      BY <2>2 DEF Deciding, ReadRequest, ProduceRule, RecordDecision, store
    <2>3. ASSUME NEW h \in Handler, Expiring(h)
          PROVE  \/ UNCHANGED requests
                 \/ \E k \in Handler : Enrich(k) \/ WriteStatus(k) \/ ExpireOne(k)
                                       \/ \E x \in setting.rows : Insert(k, x)
      BY <2>3 DEF Expiring, expireStaleRequests, ExpiryDone, store
    <2>4. ASSUME NEW h \in Handler, Spending(h)
          PROVE  \/ UNCHANGED requests
                 \/ \E k \in Handler : Enrich(k) \/ WriteStatus(k) \/ ExpireOne(k)
                                       \/ \E x \in setting.rows : Insert(k, x)
      BY <2>4 DEF Spending, consumeGrant, MarkBefore, MarkUpdate, MarkAfter, Check, store
    <2>5. ASSUME \/ \E h \in Handler : Fail(h)
                 \/ \E r \in Row : GrowOld(r)
                 \/ Tick
                 \/ \E x \in RuleId : TakeBack(x)
          PROVE  \/ UNCHANGED requests
                 \/ \E k \in Handler : Enrich(k) \/ WriteStatus(k) \/ ExpireOne(k)
                                       \/ \E x \in setting.rows : Insert(k, x)
      BY <2>5 DEF Fail, GrowOld, Tick, TakeBack, store
    <2>6. QED
      BY <2>1, <2>2, <2>3, <2>4, <2>5 DEF Next
  <1>6. QED
    BY <1>1, <1>2, <1>3, <1>4, <1>5

-----------------------------------------------------------------------------
(* What a handler holds is not overtaken. *)

LEMMA IdleFresh ==
    ASSUME NEW h \in Handler, pc'[h] \in {"idle", "find"}
    PROVE  Fresh(h)'
  BY DEF Fresh

LEMMA AskingFresh ==
    ASSUME Inv, SyncInv, setting.sync, NEW h \in Handler, Asking(h)
    PROVE  Fresh(h)'
  <1>t. TypeOK /\ call[h] \in Call
    BY DEF Inv, TypeOK
  <1>1. CASE FindDuplicate(h)
    <2>1. CASE /\ DuplicatesOf(call[h].ask) = {} /\ Step(h, "find", "insert")
               /\ UNCHANGED <<store, history, call>>
      <3>1. DuplicatesOf(call[h].ask)' = {}
        BY <2>1 DEF DuplicatesOf, Pending, store
      <3>2. pc'[h] = "insert"
        BY <1>t, <2>1 DEF TypeOK, Step
      <3>3. QED
        BY <3>1, <3>2 DEF Fresh
    <2>2. ASSUME NEW r \in DuplicatesOf(call[h].ask), Step(h, "find", "enrich"),
                 call' = [call EXCEPT ![h].row = Enriched(h, r)], UNCHANGED <<store, history>>
          PROVE  Fresh(h)'
      <3>1. r \in Row /\ Pending(r) /\ requests[r] \in Request /\ requests[r].id = r
        BY <1>t, <2>2 DEF TypeOK, DuplicatesOf, Pending
      <3>2. /\ Enriched(h, r).id = r /\ Enriched(h, r).ask = requests[r].ask
            /\ Enriched(h, r).context = (requests[r].context \/ call[h].given)
        BY <3>1 DEF Enriched, Request
      <3>3. requests[r].context => Enriched(h, r).context
        BY <3>2
      <3>4. pc'[h] = "enrich" /\ call'[h].row = Enriched(h, r) /\ requests' = requests
        BY <1>t, <2>2 DEF TypeOK, Step, Call, store
      <3>5. call'[h].row.id = r
        BY <3>2, <3>4
      <3>6. Pending(call[h].row.id)'
        BY <3>1, <3>4, <3>5 DEF Pending
      <3>7. /\ requests'[call'[h].row.id].ask = call'[h].row.ask
            /\ requests'[call'[h].row.id].context => call'[h].row.context
        BY <3>2, <3>3, <3>4, <3>5
      <3>8. QED
        BY <3>4, <3>6, <3>7 DEF Fresh
    <2>3. CASE Step(h, "find", "idle")
      BY <1>t, <2>3, IdleFresh DEF TypeOK, Step
    <2>4. QED
      BY <1>1, <2>1, <2>2, <2>3 DEF FindDuplicate
  <1>2. CASE ~FindDuplicate(h)
    <2>1. ASSUME NEW a \in setting.asks, NEW context \in BOOLEAN, createRequest(h, a, context)
          PROVE  pc'[h] = "find"
      BY <1>t, <2>1 DEF TypeOK, createRequest, Step
    <2>2. ASSUME Enrich(h) PROVE pc'[h] = "idle"
      BY <1>t, <2>2 DEF TypeOK, Enrich, Step
    <2>3. ASSUME NEW r \in setting.rows, Insert(h, r) PROVE pc'[h] = "idle"
      BY <1>t, <2>3 DEF TypeOK, Insert, Step
    <2>4. QED
      BY <1>2, <2>1, <2>2, <2>3, IdleFresh DEF Asking
  <1>3. QED
    BY <1>1, <1>2

LEMMA LastOfAppend ==
    ASSUME NEW acts \in Seq(Action), NEW one \in Action
    PROVE  Append(acts, one) # <<>> /\ Append(acts, one)[Len(Append(acts, one))] = one
  OBVIOUS

LEMMA DecidingFresh ==
    ASSUME Inv, SyncInv, setting.sync, NEW h \in Handler, Deciding(h)
    PROVE  Fresh(h)'
  <1>t. TypeOK /\ Locals /\ Fresh(h) /\ call[h] \in Call
    BY DEF Inv, SyncInv, TypeOK
  <1>1. ASSUME NEW p \in Parent, NEW r \in Row, NEW action \in Action, NEW kind \in Kind,
               ReadRequest(h, p, r, action, kind)
        PROVE  Fresh(h)'
    <2>1. /\ pc'[h] = "produce" /\ call'[h].row = requests[r] /\ requests' = requests
          /\ requests[r].id = r /\ requests[r].status = "PENDING"
      BY <1>1, <1>t DEF TypeOK, ReadRequest, Pending, Step, NoCall, store
    <2>2. Reads(call[h].row)'
      BY <2>1 DEF Reads
    <2>3. QED
      BY <2>1, <2>2 DEF Fresh
  <1>2. ASSUME NEW g \in RuleId, ProduceRule(h, g) PROVE Fresh(h)'
    <2>1. /\ pc'[h] = "status" /\ call' = call /\ requests' = requests
          /\ call[h].row.id \in Row /\ call[h].action \in Action
      BY <1>2, <1>t DEF TypeOK, ProduceRule, Step, Locals, Holds, Call, Request
    <2>2. Reads(call[h].row)'
      BY <1>2, <1>t, <2>1 DEF ProduceRule, Step, Fresh, Reads
    <2>3. /\ made[call[h].row.id] \in Seq(Action)
          /\ made'[call[h].row.id] = Append(made[call[h].row.id], call[h].action)
      BY <1>2, <1>t, <2>1 DEF TypeOK, ProduceRule
    <2> DEFINE q == call[h].row.id
    <2> HIDE DEF q
    <2>4. /\ Append(made[q], call[h].action) # <<>>
          /\ Append(made[q], call[h].action)[Len(Append(made[q], call[h].action))] = call[h].action
      BY <2>1, <2>3, LastOfAppend DEF q
    <2>5. made'[q] # <<>> /\ made'[q][Len(made'[q])] = call[h].action
      BY <2>3, <2>4 DEF q
    <2>6. QED
      BY <2>1, <2>2, <2>5 DEF Fresh, q
  <1>3. CASE WriteStatus(h)
    <2>1. /\ pc'[h] = "record" /\ call' = call /\ answers' = answers
          /\ call[h].row \in Request /\ Reads(call[h].row)
      BY <1>3, <1>t DEF TypeOK, WriteStatus, Step, Locals, Holds, Call, Fresh
    <2> DEFINE row == [call[h].row EXCEPT !.status = Announced(call[h].action)]
    <2>2. /\ row \in Request /\ row.id = call[h].row.id
          /\ row.status = Announced(call[h].action)
      BY <2>1 DEF Request, Announced, Status
    <2>3. requests[row.id] # None /\ row.id \in Row /\ requests[row.id].status = "PENDING"
      BY <2>1, <2>2, ApprovalsAssumption DEF Reads, Request
    <2>4. requests'[row.id] = row
      BY <1>3, <1>t, <2>3 DEF TypeOK, WriteStatus, Write
    <2>5. requests'[call[h].row.id] # None
      BY <2>2, <2>4, ApprovalsAssumption
    <2>6. requests'[call[h].row.id].status = Announced(call[h].action)
      BY <2>2, <2>4
    <2>7. answers[call[h].row.id] = 0
      <3>1. /\ call[h].row.id \in Row
            /\ requests[call[h].row.id].status \notin {"APPROVED", "DENIED"}
        BY <2>2, <2>3
      <3>2. OneAnswer
        BY DEF SyncInv
      <3>3. answers[call[h].row.id] \in Nat
        BY <1>t, <3>1 DEF TypeOK
      <3>4. QED
        BY <3>1, <3>2, <3>3 DEF OneAnswer
    <2>8. QED
      BY <2>1, <2>5, <2>6, <2>7 DEF Fresh, Announced
  <1>4. CASE RecordDecision(h)
    BY <1>4, <1>t, IdleFresh DEF TypeOK, RecordDecision, Step
  <1>5. QED
    BY <1>1, <1>2, <1>3, <1>4 DEF Deciding

LEMMA ExpiringFresh ==
    ASSUME Inv, SyncInv, setting.sync, NEW h \in Handler, Expiring(h)
    PROVE  Fresh(h)'
  <1>t. TypeOK /\ Fresh(h) /\ call[h] \in Call
    BY DEF Inv, SyncInv, TypeOK
  <1>1. CASE expireStaleRequests(h)
    <2>1. /\ pc'[h] = "expire" /\ requests' = requests
          /\ call'[h].listed = {requests[r] : r \in {q \in stale : Pending(q)}}
      BY <1>1, <1>t DEF TypeOK, expireStaleRequests, Step, NoCall, store
    <2>2. \A row \in call'[h].listed : Reads(row)'
      BY <1>t, <2>1 DEF TypeOK, Pending, Reads
    <2>3. QED
      BY <2>1, <2>2 DEF Fresh
  <1>2. CASE ExpireOne(h)
    <2>1. PICK old \in call[h].listed :
              /\ Step(h, "expire", "expire")
              /\ Write([old EXCEPT !.status = "EXPIRED"])
              /\ call' = [call EXCEPT ![h].listed = @ \ {old}]
      BY <1>2 DEF ExpireOne
    <2>2. /\ pc'[h] = "expire" /\ call'[h].listed = call[h].listed \ {old}
          /\ \A row \in call[h].listed : row \in Request /\ Reads(row)
      BY <1>t, <2>1 DEF TypeOK, Step, Call, Fresh
    <2>3. [old EXCEPT !.status = "EXPIRED"].id = old.id
      BY <2>2 DEF Request
    <2>4. ASSUME NEW row \in call[h].listed \ {old} PROVE Reads(row)'
      <3>1. row.id # old.id /\ row.id \in Row
        BY <2>2 DEF Reads, Request
      <3>2. requests'[row.id] = requests[row.id]
        BY <1>t, <2>1, <2>3, <3>1 DEF TypeOK, Write
      <3>3. QED
        BY <2>2, <3>2 DEF Reads
    <2>5. QED
      BY <2>2, <2>4 DEF Fresh
  <1>3. CASE ExpiryDone(h)
    BY <1>3, <1>t, IdleFresh DEF TypeOK, ExpiryDone, Step
  <1>4. QED
    BY <1>1, <1>2, <1>3 DEF Expiring

LEMMA SpendingFresh ==
    ASSUME Inv, SyncInv, setting.sync, NEW h \in Handler, Spending(h)
    PROVE  Fresh(h)'
  <1>t. TypeOK /\ Locals /\ Fresh(h) /\ call[h] \in Call
    BY DEF Inv, SyncInv, TypeOK
  <1>1. ASSUME NEW g \in RuleId, consumeGrant(h, g) PROVE Fresh(h)'
    <2>1. pc'[h] = "markBefore" /\ call'[h].rule = g /\ rules' = rules
      BY <1>1, <1>t DEF TypeOK, consumeGrant, Step, NoCall, store
    <2>2. QED
      BY <1>1, <2>1 DEF consumeGrant, Unspent, Fresh
  <1>2. CASE MarkBefore(h)
    BY <1>2, <1>t DEF TypeOK, MarkBefore, Check, Step, Fresh, Unspent, store
  <1>3. CASE MarkUpdate(h)
    <2>1. /\ pc'[h] = "markAfter" /\ call' = call /\ spends' = spends
          /\ call[h].rule \in RuleId /\ call[h].at \in Nat /\ Unspent(call[h].rule)
      BY <1>3, <1>t DEF TypeOK, MarkUpdate, Step, Locals, Holds, Call, Fresh, history
    <2>2. rules[call[h].rule] \in Rule
      BY <1>t, <2>1 DEF TypeOK, Unspent
    <2>3. rules'[call[h].rule] = [rules[call[h].rule] EXCEPT !.consumedAt = call[h].at]
      BY <1>3, <1>t, <2>1 DEF TypeOK, MarkUpdate
    <2>4. /\ [rules[call[h].rule] EXCEPT !.consumedAt = call[h].at] \in Rule
          /\ [rules[call[h].rule] EXCEPT !.consumedAt = call[h].at].consumedAt = call[h].at
      BY <2>1, <2>2 DEF Rule
    <2>5. rules'[call[h].rule] # None /\ rules'[call[h].rule].consumedAt = call[h].at
      BY <2>3, <2>4, ApprovalsAssumption
    <2>6. spends[call[h].rule] = <<>>
      <3>1. SpendsMatch(call[h].rule) /\ spends[call[h].rule] \in Seq(Nat)
        BY <1>t, <2>1 DEF Inv, TypeOK
      <3>2. 1 \notin 1 .. Len(spends[call[h].rule])
        BY <2>1, <3>1 DEF SpendsMatch, Unspent
      <3>3. Len(spends[call[h].rule]) = 0
        BY <3>1, <3>2
      <3>4. QED
        BY <3>1, <3>3
    <2>7. QED
      BY <2>1, <2>5, <2>6 DEF Fresh
  <1>4. CASE MarkAfter(h)
    BY <1>4, <1>t, IdleFresh DEF TypeOK, MarkAfter, Step
  <1>5. QED
    BY <1>1, <1>2, <1>3, <1>4 DEF Spending

LEMMA FreshPreserved ==
    ASSUME Inv, SyncInv, setting.sync, Next
    PROVE  \A h \in Handler : Fresh(h)'
  <1>t. TypeOK /\ OneAtATime /\ \A h \in Handler : Fresh(h)
    BY DEF Inv, SyncInv
  <1>1. ASSUME NEW h \in Handler, HandlerStep(h) PROVE \A k \in Handler : Fresh(k)'
    <2>1. Fresh(h)'
      <3>1. CASE Fail(h)
        BY <3>1, <1>t, IdleFresh DEF TypeOK, Fail
      <3>2. QED
        BY <1>1, <3>1, AskingFresh, DecidingFresh, ExpiringFresh, SpendingFresh DEF HandlerStep
    <2>2. QED
      BY <1>1, <1>t, <2>1, Alone, IdleFresh
  <1>2. CASE \E g \in RuleId : TakeBack(g)
    <2>1. turn = None /\ UNCHANGED pc
      BY <1>2 DEF TakeBack
    <2>2. \A h \in Handler : pc'[h] = "idle"
      BY <1>t, <2>1, ApprovalsAssumption DEF OneAtATime
    <2>3. QED
      BY <2>2, IdleFresh
  <1>3. CASE UNCHANGED <<requests, rules, answers, made, spends, pc, call>>
    BY <1>3, <1>t DEF Fresh, DuplicatesOf, Pending, Reads, Unspent
  <1>4. QED
    BY <1>1, <1>2, <1>3 DEF Next, HandlerStep, GrowOld, Tick, store, history

-----------------------------------------------------------------------------
(* The invariants of a synchronous store. *)

LEMMA AnswersStep ==
    ASSUME Inv, SyncInv, setting.sync, Next
    PROVE  UNCHANGED answers \/ \E h \in Handler : RecordDecision(h)
  <1>1. ASSUME NEW h \in Handler, Asking(h)
        PROVE  UNCHANGED answers \/ \E k \in Handler : RecordDecision(k)
    BY <1>1 DEF Asking, createRequest, FindDuplicate, Enrich, Insert, store
  <1>2. ASSUME NEW h \in Handler, Deciding(h)
        PROVE  UNCHANGED answers \/ \E k \in Handler : RecordDecision(k)
    BY <1>2 DEF Deciding, ReadRequest, ProduceRule, WriteStatus, store
  <1>3. ASSUME NEW h \in Handler, Expiring(h)
        PROVE  UNCHANGED answers \/ \E k \in Handler : RecordDecision(k)
    BY <1>3 DEF Expiring, expireStaleRequests, ExpireOne, ExpiryDone, store
  <1>4. ASSUME NEW h \in Handler, Spending(h)
        PROVE  UNCHANGED answers \/ \E k \in Handler : RecordDecision(k)
    BY <1>4 DEF Spending, consumeGrant, MarkBefore, MarkUpdate, MarkAfter, Check, store
  <1>5. ASSUME \/ \E h \in Handler : Fail(h)
               \/ \E r \in Row : GrowOld(r)
               \/ Tick
               \/ \E x \in RuleId : TakeBack(x)
        PROVE  UNCHANGED answers \/ \E k \in Handler : RecordDecision(k)
    BY <1>5 DEF Fail, GrowOld, Tick, TakeBack, store
  <1>6. QED
    BY <1>1, <1>2, <1>3, <1>4, <1>5 DEF Next

\* An answered row, or one that aged out, is never written again.
LEMMA ClosedStays ==
    ASSUME Inv, SyncInv, setting.sync, Next,
           NEW r \in Row, requests[r] # None, requests[r].status # "PENDING"
    PROVE  requests'[r] = requests[r]
  BY RowsStep DEF RowWritten, Filed, Moved, Pending

LEMMA OneAnswerPreserved ==
    ASSUME Inv, SyncInv, setting.sync, Next
    PROVE  OneAnswer'
  <1>t. TypeOK /\ Locals /\ OneAnswer /\ \A h \in Handler : Fresh(h)
    BY DEF Inv, SyncInv
  <1>1. CASE UNCHANGED answers
    BY <1>1, <1>t, ClosedStays DEF OneAnswer
  <1>2. ASSUME NEW h \in Handler, RecordDecision(h) PROVE OneAnswer'
    <2> DEFINE q == call[h].row.id
    <2>1. q \in Row /\ call[h].action \in Action
      BY <1>2, <1>t DEF TypeOK, RecordDecision, Step, Locals, Holds, Call, Request
    <2>2. /\ answers[q] = 0
          /\ requests[q] # None /\ requests[q].status = Announced(call[h].action)
      BY <1>2, <1>t DEF RecordDecision, Step, Fresh
    <2>3. requests' = requests /\ answers' = [answers EXCEPT ![q] = @ + 1]
      BY <1>2 DEF RecordDecision
    <2>4. requests[q].status \in {"APPROVED", "DENIED"}
      BY <2>2 DEF Announced
    <2> HIDE DEF q
    <2>5. QED
      BY <1>t, <2>1, <2>2, <2>3, <2>4 DEF OneAnswer, TypeOK
  <1>3. QED
    BY <1>1, <1>2, AnswersStep

LEMMA OneOpenPreserved ==
    ASSUME Inv, SyncInv, setting.sync, Next
    PROVE  OneOpenRowPerAsk'
  <1>t. TypeOK /\ OneOpenRowPerAsk /\ \A h \in Handler : Fresh(h)
    BY DEF Inv, SyncInv
  <1>1. CASE UNCHANGED requests
    BY <1>1, <1>t DEF OneOpenRowPerAsk, Pending
  <1>2. ASSUME NEW h \in Handler, NEW x \in Row, Filed(h, x) PROVE OneOpenRowPerAsk'
    <2>1. DuplicatesOf(call[h].ask) = {}
      BY <1>2, <1>t DEF Filed, Fresh
    <2>2. \A r \in Row : Pending(r) => requests[r].ask # call[h].ask
      BY <2>1 DEF DuplicatesOf
    <2>3. QED
      BY <1>2, <1>t, <2>2 DEF OneOpenRowPerAsk, Filed, Pending
  <1>3. ASSUME NEW x \in Row, NEW status, Moved(x, status) PROVE OneOpenRowPerAsk'
    BY <1>3, <1>t DEF OneOpenRowPerAsk, Moved, Pending
  <1>4. QED
    BY <1>1, <1>2, <1>3, RowsStep DEF RowWritten

LEMMA SpentOncePreserved ==
    ASSUME Inv, SyncInv, setting.sync, Next
    PROVE  SpentOnce'
  <1>t. TypeOK /\ Locals /\ SpentOnce /\ \A h \in Handler : Fresh(h)
    BY DEF Inv, SyncInv
  <1>1. CASE UNCHANGED spends
    BY <1>1, <1>t DEF SpentOnce
  <1>2. ASSUME NEW h \in Handler, MarkAfter(h) PROVE SpentOnce'
    <2>1. call[h].rule \in RuleId /\ call[h].at \in Nat /\ spends[call[h].rule] = <<>>
      BY <1>2, <1>t DEF TypeOK, MarkAfter, Step, Locals, Holds, Call, Fresh
    <2>2. \A g \in RuleId : spends'[g] = spends[g] \/ spends'[g] = <<call[h].at>>
      BY <1>2, <1>t, <2>1 DEF TypeOK, MarkAfter
    <2>3. ASSUME NEW g \in RuleId PROVE Len(spends'[g]) <= 1
      <3>1. CASE spends'[g] = spends[g]
        BY <1>t, <3>1 DEF SpentOnce
      <3>2. CASE spends'[g] = <<call[h].at>>
        BY <3>2
      <3>3. QED
        BY <2>2, <3>1, <3>2
    <2>4. QED
      BY <2>3 DEF SpentOnce
  <1>3. UNCHANGED spends \/ \E h \in Handler : MarkAfter(h)
    <2>1. ASSUME NEW h \in Handler, Asking(h)
          PROVE  UNCHANGED spends \/ \E k \in Handler : MarkAfter(k)
      BY <2>1 DEF Asking, createRequest, FindDuplicate, Enrich, Insert, history
    <2>2. ASSUME NEW h \in Handler, Deciding(h)
          PROVE  UNCHANGED spends \/ \E k \in Handler : MarkAfter(k)
      BY <2>2 DEF Deciding, ReadRequest, ProduceRule, WriteStatus, RecordDecision, history
    <2>3. ASSUME NEW h \in Handler, Expiring(h)
          PROVE  UNCHANGED spends \/ \E k \in Handler : MarkAfter(k)
      BY <2>3 DEF Expiring, expireStaleRequests, ExpireOne, ExpiryDone, history
    <2>4. ASSUME NEW h \in Handler, Spending(h)
          PROVE  UNCHANGED spends \/ \E k \in Handler : MarkAfter(k)
      BY <2>4 DEF Spending, consumeGrant, MarkBefore, MarkUpdate, Check, history
    <2>5. ASSUME \/ \E h \in Handler : Fail(h)
                 \/ \E r \in Row : GrowOld(r)
                 \/ Tick
                 \/ \E x \in RuleId : TakeBack(x)
          PROVE  UNCHANGED spends \/ \E k \in Handler : MarkAfter(k)
      BY <2>5 DEF Fail, GrowOld, Tick, TakeBack, history
    <2>6. QED
      BY <2>1, <2>2, <2>3, <2>4, <2>5 DEF Next
  <1>4. QED
    BY <1>1, <1>2, <1>3

\* Apart from a new rule, rules are only taken back or marked as consumed.
LEMMA RulesStep ==
    ASSUME TypeOK, Locals, Next, ~ \E h \in Handler, x \in RuleId : ProduceRule(h, x),
           NEW g \in RuleId, rules'[g] # None
    PROVE  /\ rules[g] # None
           /\ rules'[g].row = rules[g].row /\ rules'[g].action = rules[g].action
  <1>1. CASE UNCHANGED rules
    BY <1>1
  <1>2. CASE \E x \in RuleId : TakeBack(x)
    BY <1>2 DEF TypeOK, TakeBack
  <1>3. ASSUME NEW h \in Handler, MarkUpdate(h)
        PROVE  /\ rules[g] # None
               /\ rules'[g].row = rules[g].row /\ rules'[g].action = rules[g].action
    <2>1. CASE rules'[g] = rules[g]
      BY <2>1
    <2>2. CASE Unspent(g) /\ rules'[g] = [rules[g] EXCEPT !.consumedAt = call[h].at]
      <3>1. rules[g] \in Rule
        BY <2>2 DEF TypeOK, Unspent
      <3>2. QED
        BY <2>2, <3>1 DEF Rule, Unspent
    <2>3. rules'[g] = rules[g] \/ (Unspent(g) /\ rules'[g] = [rules[g] EXCEPT !.consumedAt = call[h].at])
      BY <1>3 DEF TypeOK, MarkUpdate
    <2>4. QED
      BY <2>1, <2>2, <2>3
  <1>4. \/ UNCHANGED rules
        \/ \E x \in RuleId : TakeBack(x)
        \/ \E h \in Handler : MarkUpdate(h)
    <2>1. ASSUME NEW h \in Handler, Asking(h)
          PROVE  UNCHANGED rules \/ \E k \in Handler : MarkUpdate(k)
      BY <2>1 DEF Asking, createRequest, FindDuplicate, Enrich, Insert, store
    <2>2. ASSUME NEW h \in Handler, Deciding(h)
          PROVE  UNCHANGED rules \/ \E k \in Handler : MarkUpdate(k)
      BY <2>2 DEF Deciding, ReadRequest, ProduceRule, WriteStatus, RecordDecision, store
    <2>3. ASSUME NEW h \in Handler, Expiring(h)
          PROVE  UNCHANGED rules \/ \E k \in Handler : MarkUpdate(k)
      BY <2>3 DEF Expiring, expireStaleRequests, ExpireOne, ExpiryDone, store
    <2>4. ASSUME NEW h \in Handler, Spending(h)
          PROVE  UNCHANGED rules \/ \E k \in Handler : MarkUpdate(k)
      BY <2>4 DEF Spending, consumeGrant, MarkBefore, MarkAfter, Check, store
    <2>5. ASSUME \/ \E h \in Handler : Fail(h)
                 \/ \E r \in Row : GrowOld(r)
                 \/ Tick
          PROVE  UNCHANGED rules \/ \E k \in Handler : MarkUpdate(k)
      BY <2>5 DEF Fail, GrowOld, Tick, store
    <2>6. QED
      BY <2>1, <2>2, <2>3, <2>4, <2>5 DEF Next
  <1>5. QED
    BY <1>1, <1>2, <1>3, <1>4

\* The steps of a handler that is not writing a status.
LEMMA NotAtStatus ==
    ASSUME TypeOK, NEW h \in Handler, HandlerStep(h), ~WriteStatus(h), ~Fail(h)
    PROVE  pc[h] # "status"
  <1>1. CASE Asking(h)
    BY <1>1 DEF Asking, createRequest, FindDuplicate, Enrich, Insert, Step
  <1>2. CASE Deciding(h)
    BY <1>2 DEF Deciding, ReadRequest, ProduceRule, RecordDecision, Step
  <1>3. CASE Expiring(h)
    BY <1>3 DEF Expiring, expireStaleRequests, ExpireOne, ExpiryDone, Step
  <1>4. CASE Spending(h)
    BY <1>4 DEF Spending, consumeGrant, MarkBefore, MarkUpdate, MarkAfter, Check, Step
  <1>5. QED
    BY <1>1, <1>2, <1>3, <1>4 DEF HandlerStep

LEMMA RuleBackedPreserved ==
    ASSUME Inv, SyncInv, setting.sync, Next, failures' = 0
    PROVE  \A g \in RuleId : RuleBacked(g)'
  <1>t. TypeOK /\ Locals /\ OneAtATime /\ \A h \in Handler : Fresh(h)
    BY DEF Inv, SyncInv
  <1>f. failures = 0 /\ ~ \E h \in Handler : Fail(h)
    <2>1. failures \in Nat
      BY <1>t DEF TypeOK
    <2>2. ~ \E h \in Handler : Fail(h)
      BY <2>1 DEF Fail
    <2>3. failures' = failures
      <3>1. ASSUME NEW h \in Handler, Asking(h) \/ Deciding(h) \/ Expiring(h) \/ Spending(h)
            PROVE  failures' = failures
        BY <3>1 DEF Asking, Deciding, Expiring, Spending, createRequest, FindDuplicate, Enrich,
           Insert, ReadRequest, ProduceRule, WriteStatus, RecordDecision, expireStaleRequests,
           ExpireOne, ExpiryDone, consumeGrant, MarkBefore, MarkUpdate, MarkAfter, Check, Step
      <3>2. QED
        BY <2>2, <3>1 DEF Next, TakeBack, GrowOld, Tick
    <2>4. QED
      BY <2>2, <2>3
  <1>b. \A g \in RuleId : RuleBacked(g)
    BY <1>f DEF SyncInv
  <1>1. ASSUME NEW h \in Handler, WriteStatus(h), NEW g \in RuleId PROVE RuleBacked(g)'
    <2> DEFINE x == call[h].row.id
    <2>1. x \in Row /\ Moved(x, Announced(call[h].action))
      <3>1. call[h].row \in Request /\ Reads(call[h].row)
        BY <1>1, <1>t DEF TypeOK, WriteStatus, Step, Locals, Holds, Call, Fresh
      <3> DEFINE row == [call[h].row EXCEPT !.status = Announced(call[h].action)]
      <3>2. /\ row \in Request /\ row.id = call[h].row.id /\ row.ask = call[h].row.ask
            /\ row.context = call[h].row.context /\ row.status = Announced(call[h].action)
        BY <3>1 DEF Request, Announced, Status
      <3>3. /\ Pending(row.id) /\ row.ask = requests[row.id].ask
            /\ requests[row.id].context => row.context
        BY <3>1, <3>2, ApprovalsAssumption DEF Reads, Pending
      <3>4. QED
        BY <1>1, <1>t, <3>2, <3>3, WriteMoves DEF WriteStatus
    <2>2. rules' = rules /\ HandlerStep(h)
      BY <1>1 DEF WriteStatus, HandlerStep, Deciding
    <2>3. \A k \in Handler : pc[k] = "status" => k = h
      BY <1>t, <2>2, Alone
    <2>4. SUFFICES ASSUME rules[g] # None PROVE RuleBacked(g)'
      BY <2>2 DEF RuleBacked
    <2> DEFINE q == rules[g].row
    <2>5. /\ requests[q] # None
          /\ requests[q].status \in {"APPROVED", "DENIED"} =>
                 requests[q].status = Announced(rules[g].action)
          /\ requests[q].status = "PENDING" => x = q /\ call[h].action = rules[g].action
      BY <1>b, <2>3, <2>4 DEF RuleBacked
    <2>q. q \in Row
      BY <1>t, <2>4 DEF TypeOK, Rule
    <2> HIDE DEF x, q
    <2>6. /\ requests'[q] # None
          /\ requests'[q].status # "PENDING"
          /\ requests'[q].status \in {"APPROVED", "DENIED"} =>
                 requests'[q].status = Announced(rules[g].action)
      <3>1. CASE x = q
        BY <2>1, <2>5, <3>1 DEF Moved, Announced, Pending
      <3>2. CASE x # q
        BY <2>1, <2>5, <2>q, <3>2 DEF Moved
      <3>3. QED
        BY <3>1, <3>2
    <2>7. QED
      BY <2>2, <2>6 DEF RuleBacked, q
  <1>2. ASSUME NEW h \in Handler, NEW y \in RuleId, ProduceRule(h, y), NEW g \in RuleId
        PROVE  RuleBacked(g)'
    <2>1. /\ pc[h] = "produce" /\ pc'[h] = "status" /\ call' = call /\ requests' = requests
          /\ Reads(call[h].row) /\ call[h].row # None
      BY <1>2, <1>t DEF TypeOK, ProduceRule, Step, Locals, Holds, Fresh
    <2>2. CASE g = y
      <3>1. rules'[g].row = call[h].row.id /\ rules'[g].action = call[h].action
        BY <1>2, <1>t, <2>2 DEF TypeOK, ProduceRule
      <3>2. requests'[rules'[g].row] # None /\ requests'[rules'[g].row].status = "PENDING"
        BY <2>1, <3>1 DEF Reads
      <3>3. pc'[h] = "status" /\ call'[h].row.id = rules'[g].row /\ call'[h].action = rules'[g].action
        BY <2>1, <3>1
      <3>4. QED
        BY <3>2, <3>3 DEF RuleBacked
    <2>3. CASE g # y
      <3>1. rules'[g] = rules[g]
        BY <1>2, <1>t, <2>3 DEF TypeOK, ProduceRule
      <3>2. HandlerStep(h)
        BY <1>2 DEF HandlerStep, Deciding
      <3>3. ~ \E k \in Handler : pc[k] = "status"
        BY <1>t, <2>1, <3>2, Alone
      <3>4. QED
        BY <1>b, <2>1, <3>1, <3>3 DEF RuleBacked
    <2>4. QED
      BY <2>2, <2>3
  <1>3. ASSUME ~ \E h \in Handler, y \in RuleId : ProduceRule(h, y),
               ~ \E h \in Handler : WriteStatus(h), NEW g \in RuleId
        PROVE  RuleBacked(g)'
    <2>1. SUFFICES ASSUME rules'[g] # None PROVE RuleBacked(g)'
      BY DEF RuleBacked
    <2>2. /\ rules[g] # None
          /\ rules'[g].row = rules[g].row /\ rules'[g].action = rules[g].action
      BY <1>t, <1>3, <2>1, RulesStep
    <2>q. rules[g].row \in Row
      BY <1>t, <2>2 DEF TypeOK, Rule
    <2>3. ASSUME NEW h \in Handler, HandlerStep(h) PROVE RuleBacked(g)'
      <3>1. ~ \E k \in Handler : pc[k] = "status"
        BY <1>3, <1>f, <1>t, <2>3, Alone, NotAtStatus
      <3>2. requests[rules[g].row] # None /\ requests[rules[g].row].status # "PENDING"
        BY <1>b, <2>2, <3>1 DEF RuleBacked
      <3>3. requests'[rules[g].row] = requests[rules[g].row]
        BY <2>q, <3>2, ClosedStays
      <3>4. QED
        BY <1>b, <2>2, <3>2, <3>3 DEF RuleBacked
    <2>4. CASE UNCHANGED <<requests, pc, call>>
      BY <1>b, <2>2, <2>4 DEF RuleBacked
    <2>5. QED
      BY <2>3, <2>4 DEF Next, HandlerStep, TakeBack, GrowOld, Tick, store
  <1>4. QED
    BY <1>1, <1>2, <1>3

LEMMA SyncInvStutter ==
    ASSUME SyncInv, UNCHANGED vars
    PROVE  SyncInv'
  <1> USE DEF vars, store, history, world
  <1>1. OneAtATime => OneAtATime'
    BY DEF OneAtATime
  <1>2. ASSUME NEW h \in Handler, Fresh(h) PROVE Fresh(h)'
    BY <1>2 DEF Fresh, DuplicatesOf, Pending, Reads, Unspent
  <1>3. (OneAnswer => OneAnswer') /\ (SpentOnce => SpentOnce')
    BY DEF OneAnswer, SpentOnce
  <1>4. OneOpenRowPerAsk => OneOpenRowPerAsk'
    BY DEF OneOpenRowPerAsk, Pending
  <1>5. ASSUME NEW g \in RuleId, RuleBacked(g) PROVE RuleBacked(g)'
    BY <1>5 DEF RuleBacked
  <1>6. QED
    BY <1>1, <1>2, <1>3, <1>4, <1>5 DEF SyncInv

LEMMA SyncInvNext == Inv /\ SyncInv /\ [Next]_vars => SyncInv'
  <1> SUFFICES ASSUME Inv, SyncInv, Next PROVE SyncInv'
    BY SyncInvStutter
  <1>1. setting' = setting
    <2>1. TypeOK
      BY DEF Inv
    <2>2. QED
      BY <2>1, HasTurn DEF Next, HandlerStep, TakeBack, GrowOld, Tick, world
  <1>2. SUFFICES ASSUME setting.sync PROVE SyncInv'
    BY <1>1 DEF SyncInv
  <1>3. OneAtATime'
    BY <1>2, OneAtATimePreserved DEF Inv, SyncInv
  <1>4. QED
    BY <1>2, <1>3, FreshPreserved, OneAnswerPreserved, OneOpenPreserved, SpentOncePreserved,
       RuleBackedPreserved DEF SyncInv

-----------------------------------------------------------------------------
(* The theorems. *)

LEMMA Invariance == Spec => [](Inv /\ SyncInv)
  <1>1. Init => Inv /\ SyncInv
    BY InvInit, SyncInvInit
  <1>2. (Inv /\ SyncInv) /\ [Next]_vars => (Inv /\ SyncInv)'
    BY InvNext, SyncInvNext
  <1>3. QED
    BY <1>1, <1>2, PTL DEF Spec

\* The tables and every handler's variables hold what they are meant to hold,
\* on any store and whatever fails.
THEOREM TypeCorrect == Spec => []TypeOK
  <1>1. Inv => TypeOK
    BY DEF Inv
  <1>2. QED
    BY <1>1, Invariance, PTL

\* decide makes the rule before it writes the status: on any store, with any
\* interleaving and any failures, no request reads as answered before that.
THEOREM AnswersAlwaysBacked == Spec => []AnswersAreBacked
  <1>1. Inv => AnswersAreBacked
    BY DEF Inv
  <1>2. QED
    BY <1>1, Invariance, PTL

\* markTemporaryRuleConsumed, on any store: spends of one grant that all
\* succeed share their millisecond, for any number of devices.
THEOREM SpendsAlwaysShareTheirTime == Spec => []SpendsShareTheirTime
  <1>1. Inv => SpendsShareTheirTime
    BY DEF Inv, SpendsMatch, SpendsShareTheirTime
  <1>2. QED
    BY <1>1, Invariance, PTL

\* With a synchronous store decide records one decision for a request, however
\* many parents answer it.
THEOREM AnsweredOnce == Spec => []OneAnswer
  <1>1. SyncInv => OneAnswer
    BY DEF SyncInv, OneAnswer
  <1>2. QED
    BY <1>1, Invariance, PTL

\* With a synchronous store createRequest keeps one open row per ask, however
\* many devices and reloads ask at once.
THEOREM OneRowPerAsk == Spec => []OneOpenRowPerAsk
  <1>1. SyncInv => OneOpenRowPerAsk
    BY DEF SyncInv, OneOpenRowPerAsk
  <1>2. QED
    BY <1>1, Invariance, PTL

\* With a synchronous store a "just once" grant is spent once.
THEOREM GrantSpentOnce == Spec => []SpentOnce
  <1>1. SyncInv => SpentOnce
    BY DEF SyncInv, SpentOnce
  <1>2. QED
    BY <1>1, Invariance, PTL

\* A grant is spent once, or on D1 by devices that all spend it in one
\* millisecond (markTemporaryRuleConsumed).
THEOREM SpendsAlwaysAgree == Spec => []SpendsAgree
  <1>1. SpentOnce /\ SpendsShareTheirTime => SpendsAgree
    BY DEF SpendsAgree
  <1>2. QED
    BY <1>1, GrantSpentOnce, SpendsAlwaysShareTheirTime, PTL

\* With a synchronous store and no failed call, no rule in force contradicts
\* the answer of the request it was made for.
THEOREM RulesAlwaysMatch == Spec => []RulesMatchTheAnswer
  <1>1. SyncInv => RulesMatchTheAnswer
    BY DEF SyncInv, RuleBacked, RulesMatchTheAnswer
  <1>2. QED
    BY <1>1, Invariance, PTL

\* With a synchronous store an ask gets one decision and, if no call failed,
\* nothing in force contradicts it (decide, addRule, createRequest).
THEOREM AnswersAlwaysAgree == Spec => []AnswersAgree
  <1>1. OneAnswer /\ RulesMatchTheAnswer => AnswersAgree
    BY DEF AnswersAgree
  <1>2. QED
    BY <1>1, AnsweredOnce, RulesAlwaysMatch, PTL

\* With a synchronous store an answered or aged-out request stays as it is:
\* decide, createRequest and expireStaleRequests write only open ones.
THEOREM ClosedIsFinal == Spec => StatusIsFinal
  <1> DEFINE Final == setting.sync => \A r \in Row :
                 requests[r] # None /\ requests[r].status # "PENDING" =>
                     /\ requests'[r] # None
                     /\ requests'[r].status = requests[r].status
  <1>1. Inv /\ SyncInv /\ [Next]_vars => [Final]_vars
    BY ClosedStays
  <1>2. QED
    BY <1>1, Invariance, PTL DEF Spec, StatusIsFinal

\* With a synchronous store a re-file never takes the context of an ask away.
THEOREM ContextAlwaysKept == Spec => ContextKept
  <1> DEFINE Kept == setting.sync => \A r \in Row :
                 requests[r] # None /\ requests[r].context =>
                     requests'[r] # None /\ requests'[r].context
  <1>1. Inv /\ SyncInv /\ [Next]_vars => [Kept]_vars
    BY RowsStep DEF RowWritten, Filed, Moved, Pending
  <1>2. QED
    BY <1>1, Invariance, PTL DEF Spec, ContextKept

-----------------------------------------------------------------------------
(* Approvals implements Asks. *)

\* The rows of the abstract specification.
AskOf    == [r \in Row |-> IF requests[r] = None THEN None ELSE requests[r].ask]
StatusOf == [r \in Row |-> IF requests[r] = None THEN "PENDING" ELSE requests[r].status]

LEMMA MadeStep ==
    ASSUME Next
    PROVE  UNCHANGED made \/ \E h \in Handler, g \in RuleId : ProduceRule(h, g)
  <1>1. ASSUME NEW h \in Handler, Asking(h)
        PROVE  UNCHANGED made \/ \E k \in Handler, g \in RuleId : ProduceRule(k, g)
    BY <1>1 DEF Asking, createRequest, FindDuplicate, Enrich, Insert, history
  <1>2. ASSUME NEW h \in Handler, Deciding(h)
        PROVE  UNCHANGED made \/ \E k \in Handler, g \in RuleId : ProduceRule(k, g)
    BY <1>2 DEF Deciding, ReadRequest, WriteStatus, RecordDecision, history
  <1>3. ASSUME NEW h \in Handler, Expiring(h)
        PROVE  UNCHANGED made \/ \E k \in Handler, g \in RuleId : ProduceRule(k, g)
    BY <1>3 DEF Expiring, expireStaleRequests, ExpireOne, ExpiryDone, history
  <1>4. ASSUME NEW h \in Handler, Spending(h)
        PROVE  UNCHANGED made \/ \E k \in Handler, g \in RuleId : ProduceRule(k, g)
    BY <1>4 DEF Spending, consumeGrant, MarkBefore, MarkUpdate, MarkAfter, Check, history
  <1>5. ASSUME \/ \E h \in Handler : Fail(h)
               \/ \E r \in Row : GrowOld(r)
               \/ Tick
               \/ \E x \in RuleId : TakeBack(x)
        PROVE  UNCHANGED made \/ \E k \in Handler, g \in RuleId : ProduceRule(k, g)
    BY <1>5 DEF Fail, GrowOld, Tick, TakeBack, history
  <1>6. QED
    BY <1>1, <1>2, <1>3, <1>4, <1>5 DEF Next

\* A row that is filed is File, and nothing that waited asks the same.
LEMMA FiledIsFile ==
    ASSUME Inv, SyncInv, setting.sync, NEW h \in Handler, NEW x \in Row, Filed(h, x)
    PROVE  /\ call[h].ask \in Ask
           /\ AskOf[x] = None /\ AskOf' = [AskOf EXCEPT ![x] = call[h].ask]
           /\ StatusOf' = StatusOf
           /\ \A q \in Row : AskOf[q] # None /\ StatusOf[q] = "PENDING" => AskOf[q] # call[h].ask
  <1>1. /\ call[h].ask \in Ask /\ DuplicatesOf(call[h].ask) = {}
    BY DEF Inv, SyncInv, TypeOK, Call, Filed, Locals, Holds, Fresh
  <1>2. AskOf[x] = None /\ StatusOf[x] = "PENDING"
    BY DEF Filed, AskOf, StatusOf
  <1>3. AskOf' = [AskOf EXCEPT ![x] = call[h].ask]
    BY DEF Filed, AskOf
  <1>4. StatusOf' = StatusOf
    BY DEF Filed, StatusOf
  <1>5. \A q \in Row : AskOf[q] # None /\ StatusOf[q] = "PENDING" => AskOf[q] # call[h].ask
    BY <1>1 DEF DuplicatesOf, Pending, AskOf, StatusOf
  <1>6. QED
    BY <1>1, <1>2, <1>3, <1>4, <1>5

LEMMA MovedIsMove ==
    ASSUME NEW x \in Row, NEW status, Moved(x, status), requests[x].ask # None
    PROVE  /\ AskOf[x] # None /\ StatusOf[x] = "PENDING"
           /\ AskOf' = AskOf /\ StatusOf' = [StatusOf EXCEPT ![x] = status]
  <1>1. AskOf[x] # None /\ StatusOf[x] = "PENDING"
    BY DEF Moved, Pending, AskOf, StatusOf
  <1>2. AskOf' = AskOf
    BY DEF Moved, Pending, AskOf
  <1>3. StatusOf' = [StatusOf EXCEPT ![x] = status]
    BY DEF Moved, Pending, StatusOf
  <1>4. QED
    BY <1>1, <1>2, <1>3

LEMMA StepImplements ==
    ASSUME Inv, SyncInv, Next, setting.sync
    PROVE  Promise!AsksNext \/ UNCHANGED Promise!asksVars
  <1> USE DEF Promise!asksVars
  <1>t. TypeOK /\ Locals /\ \A h \in Handler : Fresh(h)
    BY DEF Inv, SyncInv
  <1>m. Promise!AsksNext <=>
            \E r \in Row : \/ \E a \in Ask : Promise!File(r, a)
                           \/ \E action \in Promise!AskAction : Promise!TakeEffect(r, action)
                           \/ Promise!Announce(r) \/ Promise!AgeOut(r)
    BY DEF Promise!AsksNext
  <1>1. ASSUME NEW h \in Handler, NEW g \in RuleId, ProduceRule(h, g) PROVE Promise!AsksNext
    <2> DEFINE x == call[h].row.id
    <2>1. x \in Row /\ call[h].action \in Promise!AskAction
      BY <1>1, <1>t DEF TypeOK, ProduceRule, Step, Locals, Holds, Call, Request, Action,
                        Promise!AskAction
    <2>2. requests[x] = call[h].row /\ call[h].row.status = "PENDING"
          /\ call[h].row \in Request
      BY <1>1, <1>t DEF TypeOK, ProduceRule, Step, Locals, Holds, Fresh, Reads, Call
    <2>3. AskOf[x] # None /\ StatusOf[x] = "PENDING"
      BY <2>1, <2>2, ApprovalsAssumption DEF AskOf, StatusOf, Request
    <2>4. /\ made' = [made EXCEPT ![x] = Append(@, call[h].action)]
          /\ AskOf' = AskOf /\ StatusOf' = StatusOf
      BY <1>1 DEF ProduceRule, AskOf, StatusOf
    <2> HIDE DEF x
    <2>5. Promise!TakeEffect(x, call[h].action)
      BY <2>3, <2>4 DEF Promise!TakeEffect, Promise!Open, AskOf, StatusOf
    <2>6. QED
      BY <1>m, <2>1, <2>5
  <1>2. CASE ~ \E h \in Handler, g \in RuleId : ProduceRule(h, g)
    <2>1. UNCHANGED made
      BY <1>2, MadeStep
    <2>2. CASE UNCHANGED requests
      BY <2>1, <2>2
    <2>3. ASSUME NEW h \in Handler, NEW x \in Row, RowWritten(h, x)
          PROVE  Promise!AsksNext \/ UNCHANGED Promise!asksVars
      <3>1. CASE Insert(h, x) /\ Filed(h, x)
        <4>1. PICK a \in Ask : a = call[h].ask
          BY <3>1, FiledIsFile
        <4>2. Promise!File(x, a)
          BY <2>1, <3>1, <4>1, FiledIsFile DEF Promise!File, Promise!Open, AskOf, StatusOf
        <4>3. QED
          BY <4>2, <1>m
      <3>2. ASSUME NEW status, Moved(x, status)
            PROVE  /\ AskOf[x] # None /\ StatusOf[x] = "PENDING"
                   /\ AskOf' = AskOf /\ StatusOf' = [StatusOf EXCEPT ![x] = status]
        <4>1. requests[x] \in Request
          BY <1>t, <3>2 DEF TypeOK, Moved, Pending
        <4>2. requests[x].ask # None
          BY <4>1, ApprovalsAssumption DEF Request
        <4>3. QED
          BY <3>2, <4>2, MovedIsMove
      <3>3. CASE Moved(x, "PENDING")
        <4>1. AskOf' = AskOf /\ StatusOf' = StatusOf
          BY <3>2, <3>3 DEF StatusOf
        <4>2. QED
          BY <2>1, <4>1 DEF AskOf, StatusOf
      <3>4. CASE WriteStatus(h) /\ call[h].row.id = x /\ Moved(x, Announced(call[h].action))
        <4>1. made[x] # <<>> /\ made[x][Len(made[x])] = call[h].action
          BY <1>t, <3>4 DEF WriteStatus, Step, Fresh
        <4>2. Promise!Announces(made[x][Len(made[x])]) = Announced(call[h].action)
          BY <4>1 DEF Promise!Announces, Announced
        <4>3. Promise!Announce(x)
          BY <2>1, <3>2, <3>4, <4>1, <4>2 DEF Promise!Announce, Promise!Open, AskOf, StatusOf
        <4>4. QED
          BY <4>3, <1>m
      <3>5. CASE Moved(x, "EXPIRED")
        <4>1. Promise!AgeOut(x)
          BY <2>1, <3>2, <3>5 DEF Promise!AgeOut, Promise!Open, AskOf, StatusOf
        <4>2. QED
          BY <4>1, <1>m
      <3>6. QED
        BY <2>3, <3>1, <3>3, <3>4, <3>5 DEF RowWritten
    <2>4. QED
      BY <2>2, <2>3, RowsStep
  <1>3. QED
    BY <1>1, <1>2

\* With a synchronous store every run of the approval flow is one that Asks
\* allows: filing, effect, announcement and ageing happen in its order, for any
\* number of children, parents and concurrent calls.
THEOREM ApprovalsImplementAsks == Spec => ImplementsAsks
  <1>1. Init => Promise!AsksInit
    BY DEF Init, Promise!AsksInit
  <1>2. Inv /\ SyncInv /\ [Next]_vars => [setting.sync => Promise!AsksNext]_(Promise!asksVars)
    <2>1. CASE UNCHANGED vars
      BY <2>1 DEF vars, store, history, Promise!asksVars
    <2>2. QED
      BY <2>1, StepImplements
  <1>3. QED
    BY <1>1, <1>2, Invariance, PTL DEF Spec, ImplementsAsks

================================================================================
