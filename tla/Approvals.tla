------------------------------- MODULE Approvals -------------------------------
(***************************************************************************)
(* ApprovalService: a child's asks, the parents' answers, the ageing of    *)
(* asks nobody answered, and the spending of "just once" grants.           *)
(*                                                                         *)
(* A handler is a sequence of repository calls and each is one action.     *)
(* With memory or node:sqlite (sync) the calls resolve in microtasks       *)
(* and a handler has the event loop to itself until its last one; with D1  *)
(* every call is a round trip and handlers interleave at each.  Rows are   *)
(* written back whole, from what an earlier call read.                     *)
(*                                                                         *)
(* Left to other modules: the policy versions these calls bump             *)
(* (PolicyServer), and the waking of the parents' feed (ParentConsole).    *)
(***************************************************************************)
EXTENDS Integers, FiniteSets, Sequences

CONSTANTS
    Ask,                 \* a child, its device and a target
    Row, RuleId,         \* ids of access_requests; of the rules answers make
    Parent,
    Manages,             \* the parents who are OWNER or PARENT
    Assigned,            \* parent |-> the asks of the children it may answer
    Handler,             \* concurrent API calls
    None,
    Settings             \* the builds explored, and how far each is

Status == {"PENDING", "APPROVED", "DENIED", "EXPIRED"}
Action == {"ALLOW", "BLOCK"}
Kind   == {"STANDING", "TIMED", "ONCE"}   \* what a duration turns into

\* A row of access_requests; "context" stands for its title, url, reason and
\* referrer, which a bare first ask lacks.
Request == [id : Row, ask : Ask, status : Status, context : BOOLEAN]

\* A row of rules or of temp_rules, and the request it answers.
Rule == [id : RuleId, row : Row, action : Action, kind : Kind, consumedAt : Nat]

\* sync: memory or node:sqlite, and not D1.  The bounds: the asks and the rows
\* that occur, the last time of the clock, the calls that throw or die.
Setting == [sync : BOOLEAN, asks : SUBSET Ask, rows : SUBSET Row,
            maxTime : Nat \ {0}, maxFailures : Nat]

ASSUME ApprovalsAssumption ==
    /\ None \notin Ask \cup Row \cup RuleId \cup Parent \cup Handler
    /\ None \notin Request \cup Rule
    /\ Manages \subseteq Parent
    /\ Assigned \in [Parent -> SUBSET Ask]
    /\ Settings \subseteq Setting

VARIABLES
    requests,     \* row |-> its contents, or None
    rules,        \* id  |-> the rule or temporary rule, or None
    stale,        \* rows older than REQUEST_EXPIRES_AFTER_MS
    clock,        \* now(), in milliseconds
    pc, call,     \* per handler: where it is, and its local variables
    turn,         \* the handler inside a synchronous turn of the loop
    setting,      \* the build and the bounds: fixed at the start
    \* Auxiliary: no action decides by them.
    usedIds,      \* rule ids given out (uid() never repeats one)
    made,         \* row |-> the actions of the rules made for it, in order
    answers,      \* row |-> how many approval_decisions name it
    spends,       \* rule |-> the times at which a spend of it succeeded
    failures

store     == <<requests, rules, answers>>
history   == <<usedIds, made, spends>>
world     == <<stale, clock, setting>>
vars      == <<store, history, world, pc, call, turn, failures>>

Pending(r) == requests[r] # None /\ requests[r].status = "PENDING"

\* canApprove, and the assignment of a LIMITED_GUARDIAN.
MayAnswer(p, a) == p \in Manages \/ a \in Assigned[p]

-----------------------------------------------------------------------------
(* The event loop. *)

PC == {"idle", "find", "insert", "enrich", "produce", "status", "record",
       "expire", "markBefore", "markUpdate", "markAfter"}

\* ask, given: what createRequest was called with.  row: the row a handler
\* holds, read earlier.  action, kind: the answer.  listed: rows still to
\* expire.  rule, at: the grant to spend, and when.
Call == [ask : Ask \cup {None}, given : BOOLEAN, row : Request \cup {None},
         action : Action, kind : Kind, listed : SUBSET Request,
         rule : RuleId \cup {None}, at : Nat]

NoCall == [ask |-> None, given |-> FALSE, row |-> None, action |-> "ALLOW",
           kind |-> "TIMED", listed |-> {}, rule |-> None, at |-> 0]

\* One step of h; with a synchronous store it keeps the loop until it is done.
Step(h, from, to) ==
    /\ turn \in {None, h}
    /\ pc[h] = from
    /\ pc' = [pc EXCEPT ![h] = to]
    /\ turn' = IF setting.sync /\ to # "idle" THEN h ELSE None
    /\ UNCHANGED <<world, failures>>

Return(h) == call' = [call EXCEPT ![h] = NoCall]

\* Mutant: only the columns that changed are put into the row.
WriteBack(row) ==
    requests' = [requests EXCEPT ![row.id] = [status |-> row.status]]

\* updateAccessRequest: UPDATE ... WHERE id = ?, so a row that is gone stays gone.
Write(row) ==
    requests' = [requests EXCEPT ![row.id] = IF @ = None THEN None ELSE row]

-----------------------------------------------------------------------------
(* createRequest: the child's device asks. *)

createRequest(h, a, context) ==
    /\ Step(h, "idle", "find")
    /\ call' = [call EXCEPT ![h] = [NoCall EXCEPT !.ask = a, !.given = context]]
    /\ UNCHANGED <<store, history>>

\* Mutant: an ask that already has its context is not found again.
BareDuplicatesOf(a) == {r \in Row : /\ Pending(r) /\ requests[r].ask = a
                                   /\ ~requests[r].context}

DuplicatesOf(a) == {r \in Row : Pending(r) /\ requests[r].ask = a}

\* Mutant: the re-file replaces the row it was found in.
EnrichedReplaces(h, r) == [requests[r] EXCEPT !.context = call[h].given]

Enriched(h, r) == [requests[r] EXCEPT !.context = @ \/ call[h].given]

FindDuplicate(h) ==
    LET found == DuplicatesOf(call[h].ask) IN
    \/ /\ found = {}
       /\ Step(h, "find", "insert")
       /\ UNCHANGED <<store, history, call>>
    \/ \E r \in found :
        /\ Enriched(h, r) # requests[r]
        /\ Step(h, "find", "enrich")
        /\ call' = [call EXCEPT ![h].row = Enriched(h, r)]
        /\ UNCHANGED <<store, history>>
    \/ \E r \in found :
        /\ Enriched(h, r) = requests[r]
        /\ Step(h, "find", "idle")
        /\ Return(h)
        /\ UNCHANGED <<store, history>>

Enrich(h) ==
    /\ Step(h, "enrich", "idle")
    /\ Write(call[h].row)
    /\ Return(h)
    /\ UNCHANGED <<rules, answers, history>>

\* createAccessRequest; what follows it only notifies.
Insert(h, r) ==
    /\ Step(h, "insert", "idle")
    /\ requests[r] = None
    /\ requests' = [requests EXCEPT ![r] =
           [id |-> r, ask |-> call[h].ask, status |-> "PENDING",
            context |-> call[h].given]]
    /\ Return(h)
    /\ UNCHANGED <<rules, answers, history>>

-----------------------------------------------------------------------------
(* decide: a parent answers.  The rule is written first, then the status,  *)
(* then the record of who decided.  A LIMITED_GUARDIAN cannot make a       *)
(* standing rule: addRule throws before anything is written.               *)

\* Mutant: decide does not look whether the request was decided already.
ReadAnyRequest(h, p, r, action, kind) ==
    /\ Step(h, "idle", "produce")
    /\ requests[r] # None
    /\ MayAnswer(p, requests[r].ask)
    /\ kind = "STANDING" => p \in Manages
    /\ call' = [call EXCEPT ![h] = [NoCall EXCEPT !.row = requests[r],
                                                  !.action = action, !.kind = kind]]
    /\ UNCHANGED <<store, history>>

ReadRequest(h, p, r, action, kind) ==
    /\ Step(h, "idle", "produce")
    /\ Pending(r)
    /\ MayAnswer(p, requests[r].ask)
    /\ kind = "STANDING" => p \in Manages
    /\ call' = [call EXCEPT ![h] = [NoCall EXCEPT !.row = requests[r],
                                                  !.action = action, !.kind = kind]]
    /\ UNCHANGED <<store, history>>

\* Mutant: a soft "no" makes no rule.
ProduceAllowOnly(h, g) ==
    /\ Step(h, "produce", "status")
    /\ g \notin usedIds
    /\ usedIds' = usedIds \cup {g}
    /\ IF call[h].action = "ALLOW"
       THEN /\ rules' = [rules EXCEPT ![g] =
                  [id |-> g, row |-> call[h].row.id, action |-> "ALLOW",
                   kind |-> call[h].kind, consumedAt |-> 0]]
            /\ made' = [made EXCEPT ![call[h].row.id] = Append(@, "ALLOW")]
       ELSE UNCHANGED <<rules, made>>
    /\ UNCHANGED <<requests, answers, spends, call>>

\* policy.addRule, or createTemporaryRule and the bump of the asking child.
ProduceRule(h, g) ==
    /\ Step(h, "produce", "status")
    /\ g \notin usedIds
    /\ usedIds' = usedIds \cup {g}
    /\ rules' = [rules EXCEPT ![g] =
           [id |-> g, row |-> call[h].row.id, action |-> call[h].action,
            kind |-> call[h].kind, consumedAt |-> 0]]
    /\ made' = [made EXCEPT ![call[h].row.id] = Append(@, call[h].action)]
    /\ UNCHANGED <<requests, answers, spends, call>>

Announced(action) == IF action = "ALLOW" THEN "APPROVED" ELSE "DENIED"

WriteStatus(h) ==
    /\ Step(h, "status", "record")
    /\ Write([call[h].row EXCEPT !.status = Announced(call[h].action)])
    /\ UNCHANGED <<rules, answers, history, call>>

\* createApprovalDecision, the audit event and the nudges.
RecordDecision(h) ==
    /\ Step(h, "record", "idle")
    /\ answers' = [answers EXCEPT ![call[h].row.id] = @ + 1]
    /\ Return(h)
    /\ UNCHANGED <<requests, rules, history>>

\* A parent takes an answer back: revokeGrant, removeRule.
TakeBack(g) ==
    /\ turn = None
    /\ rules[g] # None
    /\ rules' = [rules EXCEPT ![g] = None]
    /\ UNCHANGED <<requests, answers, history, world, pc, call, turn, failures>>

-----------------------------------------------------------------------------
(* expireStaleRequests: every read of the parents' list pays for its own   *)
(* tidying.                                                                *)

expireStaleRequests(h) ==
    /\ Step(h, "idle", "expire")
    /\ call' = [call EXCEPT ![h] = [NoCall EXCEPT
           !.listed = {requests[r] : r \in {q \in stale : Pending(q)}}]]
    /\ UNCHANGED <<store, history>>

ExpireOne(h) ==
    \E row \in call[h].listed :
        /\ Step(h, "expire", "expire")
        /\ Write([row EXCEPT !.status = "EXPIRED"])
        /\ call' = [call EXCEPT ![h].listed = @ \ {row}]
        /\ UNCHANGED <<rules, answers, history>>

ExpiryDone(h) ==
    /\ call[h].listed = {}
    /\ Step(h, "expire", "idle")
    /\ Return(h)
    /\ UNCHANGED <<store, history>>

-----------------------------------------------------------------------------
(* consumeGrant and markTemporaryRuleConsumed: the device spends a         *)
(* "just once" grant.                                                      *)

Unspent(g) == rules[g] # None /\ rules[g].consumedAt = 0

\* A call that may go on to the pc "to", or has found the grant spent or gone.
Check(h, from, to, mayGoOn) ==
    /\ Step(h, from, IF mayGoOn THEN to ELSE "idle")
    /\ IF mayGoOn THEN UNCHANGED call ELSE Return(h)
    /\ UNCHANGED <<store, history>>

\* getTemporaryRule and consumeGrant's own checks; now() is taken after them.
consumeGrant(h, g) ==
    /\ Step(h, "idle", "markBefore")
    /\ Unspent(g) /\ rules[g].kind = "ONCE"
    /\ call' = [call EXCEPT ![h] = [NoCall EXCEPT !.rule = g, !.at = clock]]
    /\ UNCHANGED <<store, history>>

MarkBefore(h) == Check(h, "markBefore", "markUpdate", Unspent(call[h].rule))

\* Mutant: the UPDATE lost its "consumed_at IS NULL".
MarkAlways(h) ==
    LET g == call[h].rule IN
    /\ Step(h, "markUpdate", "markAfter")
    /\ rules' = IF rules[g] # None
                THEN [rules EXCEPT ![g].consumedAt = call[h].at] ELSE rules
    /\ UNCHANGED <<requests, answers, history, call>>

\* UPDATE ... WHERE id = ? AND consumed_at IS NULL
MarkUpdate(h) ==
    LET g == call[h].rule IN
    /\ Step(h, "markUpdate", "markAfter")
    /\ rules' = IF Unspent(g)
                THEN [rules EXCEPT ![g].consumedAt = call[h].at] ELSE rules
    /\ UNCHANGED <<requests, answers, history, call>>

\* "return after?.consumedAt === at": the handler knows its own write by its time.
MarkAfter(h) ==
    LET g == call[h].rule IN
    /\ Step(h, "markAfter", "idle")
    /\ spends' = IF rules[g] # None /\ rules[g].consumedAt = call[h].at
                 THEN [spends EXCEPT ![g] = Append(@, call[h].at)] ELSE spends
    /\ Return(h)
    /\ UNCHANGED <<store, usedIds, made>>

-----------------------------------------------------------------------------
(* Time, and failures. *)

Tick ==
    /\ clock < setting.maxTime
    /\ clock' = clock + 1
    /\ UNCHANGED <<store, history, stale, setting, pc, call, turn, failures>>

\* Three days pass and nobody answered.
GrowOld(r) ==
    /\ requests[r] # None /\ r \notin stale
    /\ stale' = stale \cup {r}
    /\ UNCHANGED <<store, history, clock, setting, pc, call, turn, failures>>

\* A repository call throws, or the process dies: nothing is rolled back.
Fail(h) ==
    /\ pc[h] # "idle"
    /\ turn \in {None, h}
    /\ failures < setting.maxFailures
    /\ failures' = failures + 1
    /\ pc' = [pc EXCEPT ![h] = "idle"]
    /\ turn' = None
    /\ Return(h)
    /\ UNCHANGED <<store, history, world>>

-----------------------------------------------------------------------------
Init ==
    /\ requests = [r \in Row |-> None]
    /\ rules = [g \in RuleId |-> None]
    /\ stale = {} /\ clock = 1
    /\ setting \in Settings
    /\ pc = [h \in Handler |-> "idle"]
    /\ call = [h \in Handler |-> NoCall]
    /\ turn = None
    /\ usedIds = {}
    /\ made = [r \in Row |-> <<>>]
    /\ answers = [r \in Row |-> 0]
    /\ spends = [g \in RuleId |-> <<>>]
    /\ failures = 0

Asking(h) ==
    \/ \E a \in setting.asks, context \in BOOLEAN : createRequest(h, a, context)
    \/ FindDuplicate(h) \/ Enrich(h)
    \/ \E r \in setting.rows : Insert(h, r)

Deciding(h) ==
    \/ \E p \in Parent, r \in Row, action \in Action, kind \in Kind :
           ReadRequest(h, p, r, action, kind)
    \/ \E g \in RuleId : ProduceRule(h, g)
    \/ WriteStatus(h) \/ RecordDecision(h)

Expiring(h) == expireStaleRequests(h) \/ ExpireOne(h) \/ ExpiryDone(h)

Spending(h) ==
    \/ \E g \in RuleId : consumeGrant(h, g)
    \/ MarkBefore(h) \/ MarkUpdate(h) \/ MarkAfter(h)

Next ==
    \/ \E h \in Handler : Asking(h) \/ Deciding(h) \/ Expiring(h) \/ Spending(h)
                          \/ Fail(h)
    \/ \E g \in RuleId : TakeBack(g)
    \/ \E r \in Row : GrowOld(r)
    \/ Tick

Spec == Init /\ [][Next]_vars

-----------------------------------------------------------------------------
(* Properties. *)

TypeOK ==
    /\ requests \in [Row -> Request \cup {None}]
    /\ \A r \in Row : requests[r] # None => requests[r].id = r
    /\ rules \in [RuleId -> Rule \cup {None}]
    /\ stale \subseteq Row
    /\ clock \in Nat \ {0}
    /\ pc \in [Handler -> PC]
    /\ call \in [Handler -> Call]
    /\ turn \in Handler \cup {None}
    /\ setting \in Settings
    /\ usedIds \subseteq RuleId
    /\ made \in [Row -> Seq(Action)]
    /\ answers \in [Row -> Nat]
    /\ spends \in [RuleId -> Seq(Nat)]
    /\ failures \in Nat

Made(r, action) == \E i \in 1 .. Len(made[r]) : made[r][i] = action

\* No request reads as approved or denied before a rule that says so was made,
\* on any store and whichever calls fail (decide writes the rule, then the
\* status): what a parent is told was done has been done.
AnswersAreBacked ==
    \A r \in Row : requests[r] # None =>
        /\ requests[r].status = "APPROVED" => Made(r, "ALLOW")
        /\ requests[r].status = "DENIED" => Made(r, "BLOCK")

\* Once a request is answered or has aged out it stays that way, whatever
\* re-files, answers and tidying follow (decide: "request already decided").
StatusIsFinal ==
    [][setting.sync => \A r \in Row :
        requests[r] # None /\ requests[r].status # "PENDING" =>
            /\ requests'[r] # None
            /\ requests'[r].status = requests[r].status]_vars

\* With a synchronous store at most one decision is recorded for a request, and
\* only for an answered one.
OneAnswer ==
    setting.sync => \A r \in Row :
        /\ answers[r] <= 1
        /\ answers[r] = 1 => /\ requests[r] # None
                             /\ requests[r].status \in {"APPROVED", "DENIED"}

\* "An identical still-PENDING ask is the SAME ask": reloads and retries leave
\* one row for a parent to decide (createRequest).
OneOpenRowPerAsk ==
    setting.sync => \A q, r \in Row : Pending(q) /\ Pending(r) /\ requests[q].ask = requests[r].ask
                      => q = r

\* With a synchronous store a re-file never takes the context of an ask away
\* ("Keep the richer version").
ContextKept ==
    [][setting.sync => \A r \in Row : requests[r] # None /\ requests[r].context =>
            requests'[r] # None /\ requests'[r].context]_vars

\* With a synchronous store every rule in force for an answered request says what
\* the answer says: a "no" leaves nothing open behind it.  Excused: a call that
\* failed between the rule and the status, after which the request is answered
\* again.
RulesMatchTheAnswer ==
    setting.sync /\ failures = 0 => \A g \in RuleId : rules[g] # None =>
        LET row == requests[rules[g].row] IN
        row # None /\ row.status \in {"APPROVED", "DENIED"} =>
            row.status = Announced(rules[g].action)

\* With a synchronous store a "just once" grant is spent once
\* (markTemporaryRuleConsumed: "two devices racing on the same grant cannot both
\* spend it").
SpentOnce == setting.sync => \A g \in RuleId : Len(spends[g]) <= 1

\* On any store, spends of one grant that all succeed happened in the same
\* millisecond: the conditional UPDATE lets only one time stand.
SpendsShareTheirTime ==
    \A g \in RuleId : \A i, j \in 1 .. Len(spends[g]) : spends[g][i] = spends[g][j]

\* How often a grant is spent: once, or by devices that all spend it at once.
SpendsAgree == SpentOnce /\ SpendsShareTheirTime

\* What an ask comes to: one decision, and nothing in force that says otherwise.
AnswersAgree == OneAnswer /\ RulesMatchTheAnswer

-----------------------------------------------------------------------------
(* What the flow promises, and how this module keeps it. *)

Promise == INSTANCE Asks WITH
    NoAsk  <- None,
    ask    <- [r \in Row |-> IF requests[r] = None THEN None ELSE requests[r].ask],
    status <- [r \in Row |-> IF requests[r] = None THEN "PENDING"
                             ELSE requests[r].status],
    effect <- made

\* With a synchronous store the approval flow implements Asks: AsksSpec.
ImplementsAsks ==
    Promise!AsksInit /\ [][setting.sync => Promise!AsksNext]_(Promise!asksVars)
================================================================================
