---------------------------- MODULE FamiliesProofs ----------------------------
(***************************************************************************)
(* Proofs about families, codes and devices, for any number of requests at *)
(* a time and any store that is there before: types on both builds, and on *)
(* a synchronous store that a code enrols one device, that what was erased *)
(* does not come back, that every family keeps an owner and that nothing   *)
(* names a child that is gone.                                             *)
(***************************************************************************)
EXTENDS Families, HandlersProofs

-----------------------------------------------------------------------------
(* The programs. *)

Step == {"wait", "isUser", "createFamily", "addOwner", "mayManageParents", "findPerson",
         "notMember", "findAssigned", "addMember", "mayManagePolicy", "createChild", "bump",
         "findChild", "insertChild", "listDevices", "dropDevices", "dropVersions", "dropChild",
         "listAssigned", "unassign", "createCode", "readCode", "createDevice", "markCode",
         "readDevice", "writeDevice", "findDevice", "dropDevice", "listChildren",
         "eraseChildren", "sweepDevices", "sweepCodes", "sweepMembers", "sweepVersions",
         "dropFamily", "listOwned", "leaveFamilies", "dropMemberships", "dropUser"}

\* The order of the steps that the proofs use.
Facts(s) ==
    /\ Preceded(s, "readDevice", "writeDevice") /\ Preceded(s, "findChild", "insertChild")
    /\ Preceded(s, "readCode", "createDevice") /\ Followed(s, "readCode", "createDevice")
    /\ Followed(s, "createDevice", "markCode")
    /\ NoneAfter(s, "createFamily", "dropChild") /\ NoneAfter(s, "createChild", "dropChild")
    /\ NoneAfter(s, "findDevice", "dropChild") /\ NoneAfter(s, "leaveFamilies", "dropChild")
    /\ NoneAfter(s, "leaveFamilies", "eraseChildren") /\ NoneAfter(s, "createFamily", "eraseChildren")
    /\ NoneAfter(s, "findChild", "writeDevice") /\ NoneAfter(s, "readDevice", "insertChild")
    /\ NoneAfter(s, "addOwner", "createFamily")
    /\ NoneAfter(s, "insertChild", "findChild") /\ NoneAfter(s, "writeDevice", "readDevice")
    /\ NoneAfter(s, "bump", "createChild") /\ NoneAfter(s, "bump", "findDevice")
    /\ NoneAfter(s, "dropChild", "findChild") /\ NoneAfter(s, "eraseChildren", "listChildren")
    /\ NoneAfter(s, "eraseChildren", "findChild") /\ NoneAfter(s, "leaveFamilies", "listChildren")
    /\ NoneAfter(s, "leaveFamilies", "findChild")

LEMMA FactsTail ==
    ASSUME NEW s \in Seq(Step), s # <<>>, Facts(s)
    PROVE  Facts(Tail(s))
  BY PrecededTail, FollowedTail, NoneAfterTail DEF Facts

LEMMA ProgramFacts ==
    \A program \in {createFamily, addParent, addChild, setChildTimezone, removeChild,
                    createToken, redeem, heartbeat, remove, deleteAccount} : program \in Seq(Step) /\ Facts(program)
  <1>1. createFamily \in Seq(Step) /\ Facts(createFamily)
    BY DEF createFamily, withBody, requireUser, deleteChildCascade, Step, Facts, Preceded,
       Followed, NoneAfter
  <1>2. addParent \in Seq(Step) /\ Facts(addParent)
    BY DEF addParent, withBody, requireUser, deleteChildCascade, Step, Facts, Preceded,
       Followed, NoneAfter
  <1>3. addChild \in Seq(Step) /\ Facts(addChild)
    BY DEF addChild, withBody, requireUser, deleteChildCascade, Step, Facts, Preceded,
       Followed, NoneAfter
  <1>4. setChildTimezone \in Seq(Step) /\ Facts(setChildTimezone)
    BY DEF setChildTimezone, withBody, requireUser, deleteChildCascade, Step, Facts,
       Preceded, Followed, NoneAfter
  <1>5. removeChild \in Seq(Step) /\ Facts(removeChild)
    BY DEF removeChild, withBody, requireUser, deleteChildCascade, Step, Facts, Preceded,
       Followed, NoneAfter
  <1>6. createToken \in Seq(Step) /\ Facts(createToken)
    BY DEF createToken, withBody, requireUser, deleteChildCascade, Step, Facts, Preceded,
       Followed, NoneAfter
  <1>7. redeem \in Seq(Step) /\ Facts(redeem)
    BY DEF redeem, withBody, requireUser, deleteChildCascade, Step, Facts, Preceded,
       Followed, NoneAfter
  <1>8. heartbeat \in Seq(Step) /\ Facts(heartbeat)
    BY DEF heartbeat, withBody, requireUser, deleteChildCascade, Step, Facts, Preceded,
       Followed, NoneAfter
  <1>9. remove \in Seq(Step) /\ Facts(remove)
    BY DEF remove, withBody, requireUser, deleteChildCascade, Step, Facts, Preceded,
       Followed, NoneAfter
  <1>10. deleteAccount \in Seq(Step) /\ Facts(deleteAccount)
    BY DEF deleteAccount, withBody, requireUser, deleteChildCascade, Step, Facts, Preceded,
       Followed, NoneAfter
  <1>11. QED
    BY <1>1, <1>2, <1>3, <1>4, <1>5, <1>6, <1>7, <1>8, <1>9, <1>10

LEMMA CascadeFacts ==
    /\ deleteChildCascade \in Seq(Step) /\ Facts(deleteChildCascade)
    /\ deleteFamilyCascade \in Seq(Step) /\ Facts(deleteFamilyCascade)
  BY DEF deleteChildCascade, deleteFamilyCascade, Step, Facts, Preceded, Followed, NoneAfter

\* Which programs have the steps that need their request's names.
LEMMA Absent1 ==
    /\ \A x \in {"addMember", "createChild", "createCode", "bump", "dropChild", "eraseChildren",
                 "readDevice", "findDevice", "writeDevice", "insertChild", "createDevice", "markCode"} : Lacks(createFamily, x)
    /\ ~Lacks(createFamily, "createFamily")
    /\ \A x \in {"addOwner", "createChild", "createCode", "bump", "dropChild", "eraseChildren",
                 "readDevice", "findDevice", "writeDevice", "insertChild", "createDevice", "markCode"} : Lacks(addParent, x)
    /\ \A x \in {"addOwner", "addMember", "createCode", "dropChild", "eraseChildren",
                 "readDevice", "findDevice", "writeDevice", "insertChild", "createDevice", "markCode"} : Lacks(addChild, x)
    /\ ~Lacks(addChild, "createChild")
  BY DEF createFamily, addParent, addChild, withBody, requireUser, Lacks

LEMMA Absent2 ==
    /\ \A x \in {"addOwner", "addMember", "createChild", "createCode", "bump", "dropChild",
                 "eraseChildren", "readDevice", "findDevice", "writeDevice", "createDevice", "markCode"} : Lacks(setChildTimezone, x)
    /\ ~Lacks(setChildTimezone, "findChild")
    /\ \A x \in {"addOwner", "addMember", "createChild", "createCode", "bump", "eraseChildren",
                 "readDevice", "findDevice", "writeDevice", "insertChild", "createDevice", "markCode"} : Lacks(removeChild, x)
    /\ ~Lacks(removeChild, "findChild")
    /\ \A x \in {"addOwner", "addMember", "createChild", "bump", "dropChild", "eraseChildren",
                 "readDevice", "findDevice", "writeDevice", "insertChild", "createDevice", "markCode"} : Lacks(createToken, x)
  BY DEF setChildTimezone, removeChild, createToken, deleteChildCascade, withBody,
     requireUser, Lacks

LEMMA Absent3 ==
    /\ \A x \in {"addOwner", "addMember", "createChild", "createCode", "bump", "dropChild",
                 "eraseChildren", "readDevice", "findDevice", "writeDevice", "insertChild"} : Lacks(redeem, x)
    /\ ~Lacks(redeem, "readCode")
    /\ \A x \in {"addOwner", "addMember", "createChild", "createCode", "bump", "dropChild",
                 "eraseChildren", "findDevice", "insertChild", "createDevice", "markCode"} : Lacks(heartbeat, x)
    /\ ~Lacks(heartbeat, "readDevice")
    /\ \A x \in {"addOwner", "addMember", "createChild", "createCode", "dropChild",
                 "eraseChildren", "readDevice", "writeDevice", "insertChild", "createDevice", "markCode"} : Lacks(remove, x)
    /\ ~Lacks(remove, "findDevice")
    /\ \A x \in {"addOwner", "addMember", "createChild", "createCode", "bump", "dropChild",
                 "eraseChildren", "readDevice", "findDevice", "writeDevice", "insertChild", "createDevice", "markCode"} : Lacks(deleteAccount, x)
  BY DEF redeem, heartbeat, remove, deleteAccount, withBody, requireUser, Lacks

LEMMA Absent4 ==
    /\ \A x \in {"createFamily", "addOwner", "addMember", "createChild", "createCode", "bump",
                 "eraseChildren", "leaveFamilies", "readDevice", "findDevice", "writeDevice", "insertChild", "createDevice",
                 "markCode", "findChild", "listChildren"} : Lacks(deleteChildCascade, x)
    /\ \A x \in {"createFamily", "addOwner", "addMember", "createChild", "createCode", "bump",
                 "dropChild", "leaveFamilies", "readDevice", "findDevice", "writeDevice", "insertChild", "createDevice",
                 "markCode", "findChild"} : Lacks(deleteFamilyCascade, x)
    /\ ~Lacks(deleteFamilyCascade, "listChildren")
    /\ deleteChildCascade # <<>> /\ Head(deleteChildCascade) = "listDevices"
    /\ deleteFamilyCascade # <<>> /\ Head(deleteFamilyCascade) = "listChildren"
  BY DEF deleteChildCascade, deleteFamilyCascade, Lacks

-----------------------------------------------------------------------------
(* The invariant for types. *)

CallRecord ==
    [op : Request, user : User \cup {None}, family : Family \cup {None},
     child : Child \cup {None}, device : Device \cup {None}, code : Code \cup {None},
     person : User \cup {None}, role : Role \cup {None}, assigned : SUBSET Child,
     row : DeviceRow \cup ChildRow \cup {None}, listed : SUBSET (Device \cup Member),
     rest : SUBSET Child, owned : SUBSET Family]

\* The program is to use a code.
HasCode(s) == ~Lacks(s, "createDevice") \/ ~Lacks(s, "markCode")

\* What the steps that are left take for granted of the request's variables.
Needs(s, c) ==
    /\ ~Lacks(s, "addMember") => c.family \in Family /\ c.person \in User /\ c.role \in Role
    /\ ~Lacks(s, "createChild") => c.family \in Family
    /\ ~Lacks(s, "createCode") => c.family \in Family /\ c.child \in Child
    /\ ~Lacks(s, "bump") => c.family \in Family
    /\ ~Lacks(s, "bump") /\ Lacks(s, "createChild") /\ Lacks(s, "findDevice") => c.child \in Child
    /\ ~Lacks(s, "addOwner") => c.user \in User
    /\ ~Lacks(s, "addOwner") /\ Lacks(s, "createFamily") => c.family \in Family
    /\ ~Lacks(s, "writeDevice") /\ Lacks(s, "readDevice") => c.row \in DeviceRow
    /\ ~Lacks(s, "readDevice") \/ ~Lacks(s, "findDevice") => c.device \in Device
    /\ ~Lacks(s, "insertChild") /\ Lacks(s, "findChild") => c.row \in ChildRow
    /\ HasCode(s) => c.code \in Code

Local(h) == pc[h] # <<>> => call[h] \in CallRecord /\ Facts(pc[h]) /\ Needs(pc[h], call[h])

\* A code that is about to enrol a device is one that was made.
CodeKnown(h) == pc[h] # <<>> /\ HasCode(pc[h]) => codes[call[h].code] # None

TablesOK ==
    /\ users \subseteq User /\ families \subseteq Family
    /\ members \in [Member -> MemberRow \cup {None}]
    /\ children \in [Child -> ChildRow \cup {None}]
    /\ versions \subseteq Family \X Child
    /\ codes \in [Code -> CodeRow \cup {None}]
    /\ devices \in [Device -> DeviceRow \cup {None}]
    /\ enrolled \in [Code -> Nat]
    /\ \A k \in Code : enrolled[k] > 0 => codes[k] # None

Loop == ControlOK(Step) /\ LoopOK

FamiliesInv == /\ Loop /\ TablesOK
               /\ \A h \in Handler : Local(h)
               /\ \A h \in Handler : CodeKnown(h)

-----------------------------------------------------------------------------
(* How a handler goes on. *)

\* The variables c2 that a handler may go on with, when c are those it has.
Goes(s, c, c2) ==
    /\ c2 \in CallRecord
    /\ c2.user = c.user /\ c2.person = c.person /\ c2.role = c.role
    /\ c2.device = c.device /\ c2.code = c.code
    /\ c2.family = c.family \/ c2.family \in Family
    /\ c2.child = c.child \/ c2.child \in Child
    /\ Head(s) \in {"createChild", "findDevice"} => c2.child \in Child
    /\ Head(s) = "createFamily" => c2.family \in Family
    /\ CASE Head(s) = "readDevice" -> c2.row \in DeviceRow
         [] Head(s) = "findChild"  -> c2.row \in ChildRow
         [] OTHER -> c2.row = c.row

LEMMA NeedsGo ==
    ASSUME NEW s \in Seq(Step), s # <<>>, Facts(s), NEW c, NEW c2, Needs(s, c), Goes(s, c, c2)
    PROVE  Needs(Tail(s), c2)
  <1> DEFINE t == Tail(s)
  <1>1. \A x : Lacks(s, x) <=> Head(s) # x /\ Lacks(t, x)
    BY LacksTail
  <1>2. /\ Head(s) = "findChild" => Lacks(t, "writeDevice")
        /\ Head(s) = "readDevice" => Lacks(t, "insertChild")
    BY NoneAfterTail DEF Facts
  <1> HIDE DEF t
  <1>3. /\ ~Lacks(t, "addMember") => c2.family \in Family /\ c2.person \in User /\ c2.role \in Role
        /\ ~Lacks(t, "createChild") => c2.family \in Family
        /\ ~Lacks(t, "createCode") => c2.family \in Family /\ c2.child \in Child
        /\ ~Lacks(t, "bump") => c2.family \in Family
    BY <1>1 DEF Needs, Goes
  <1>4. ~Lacks(t, "bump") /\ Lacks(t, "createChild") /\ Lacks(t, "findDevice") => c2.child \in Child
    BY <1>1 DEF Needs, Goes
  <1>5. /\ ~Lacks(t, "addOwner") => c2.user \in User
        /\ ~Lacks(t, "addOwner") /\ Lacks(t, "createFamily") => c2.family \in Family
        /\ ~Lacks(t, "readDevice") \/ ~Lacks(t, "findDevice") => c2.device \in Device
        /\ HasCode(t) => c2.code \in Code
    BY <1>1 DEF Needs, Goes, HasCode
  <1>6. ~Lacks(t, "writeDevice") /\ Lacks(t, "readDevice") => c2.row \in DeviceRow
    BY <1>1, <1>2 DEF Needs, Goes
  <1>7. ~Lacks(t, "insertChild") /\ Lacks(t, "findChild") => c2.row \in ChildRow
    BY <1>1, <1>2 DEF Needs, Goes
  <1>8. Needs(t, c2)
    BY <1>3, <1>4, <1>5, <1>6, <1>7 DEF Needs
  <1>9. QED
    BY <1>8 DEF t

\* What a handler that runs leaves of the invariant: the others' variables.
LEMMA RunMoves ==
    ASSUME FamiliesInv, NEW h \in Handler, turn \in {None, h}, NEW rest \in Seq(Step), NEW c,
           Run(h, rest, c),
           rest # <<>> => /\ c \in CallRecord /\ Facts(rest) /\ Needs(rest, c)
                          /\ HasCode(rest) => codes'[c.code] # None,
           \A k \in Code : codes[k] # None => codes'[k] # None
    PROVE  /\ Loop' /\ (\A g \in Handler : Local(g)') /\ (\A g \in Handler : CodeKnown(g)')
  <1>1. Ran(h, rest, c) /\ Loop'
    BY RunRan, RunKeeps DEF FamiliesInv, Loop
  <1>2. ASSUME NEW g \in Handler PROVE Local(g)'
    BY <1>1 DEF Ran, Local, FamiliesInv
  <1>3. ASSUME NEW g \in Handler PROVE CodeKnown(g)'
    <2>1. CASE g = h
      BY <1>1, <2>1 DEF Ran, CodeKnown
    <2>2. CASE g # h
      <3>1. pc'[g] = pc[g] /\ call'[g] = call[g]
        BY <1>1, <2>2 DEF Ran
      <3>2. pc[g] # <<>> /\ HasCode(pc[g]) => call[g].code \in Code /\ codes[call[g].code] # None
        BY DEF FamiliesInv, Local, Needs, CodeKnown
      <3>3. QED
        BY <3>1, <3>2 DEF CodeKnown
    <2>3. QED
      BY <2>1, <2>2
  <1>4. QED
    BY <1>1, <1>2, <1>3

LEMMA GoOnMoves ==
    ASSUME FamiliesInv, NEW h \in Handler, pc[h] # <<>>, turn \in {None, h}, NEW c,
           GoOn(h, c), Goes(pc[h], call[h], c), \A k \in Code : codes[k] # None => codes'[k] # None
    PROVE  /\ Loop' /\ (\A g \in Handler : Local(g)') /\ (\A g \in Handler : CodeKnown(g)')
  <1>1. /\ pc[h] \in Seq(Step) /\ Facts(pc[h]) /\ Needs(pc[h], call[h])
        /\ HasCode(pc[h]) => codes[call[h].code] # None
    BY DEF FamiliesInv, Loop, ControlOK, Local, CodeKnown
  <1>2. Tail(pc[h]) \in Seq(Step) /\ Facts(Tail(pc[h])) /\ Needs(Tail(pc[h]), c)
    BY <1>1, TailSteps, FactsTail, NeedsGo
  <1>3. c \in CallRecord /\ c.code = call[h].code
    BY DEF Goes
  <1>4. HasCode(Tail(pc[h])) => codes'[c.code] # None
    <2>1. HasCode(Tail(pc[h])) => HasCode(pc[h])
      BY <1>1, LacksTail DEF HasCode
    <2>2. QED
      BY <1>1, <1>3, <2>1 DEF Needs
  <1>5. Run(h, Tail(pc[h]), c)
    BY DEF GoOn
  <1>6. QED
    BY <1>2, <1>3, <1>4, <1>5, RunMoves

LEMMA StopMoves ==
    ASSUME FamiliesInv, NEW h \in Handler, turn \in {None, h}, Run(h, <<>>, NoCall),
           \A k \in Code : codes[k] # None => codes'[k] # None
    PROVE  /\ Loop' /\ (\A g \in Handler : Local(g)') /\ (\A g \in Handler : CodeKnown(g)')
  <1>1. <<>> \in Seq(Step)
    OBVIOUS
  <1>2. QED
    BY <1>1, RunMoves

LEMMA CheckMoves ==
    ASSUME FamiliesInv, NEW h \in Handler, pc[h] # <<>>, turn \in {None, h}, NEW ok, NEW c,
           Check(h, ok, c), ok => Goes(pc[h], call[h], c), \A k \in Code : codes[k] # None => codes'[k] # None
    PROVE  /\ Loop' /\ (\A g \in Handler : Local(g)') /\ (\A g \in Handler : CodeKnown(g)')
  <1>1. CASE ok
    BY <1>1, GoOnMoves DEF Check
  <1>2. CASE ~ok
    BY <1>2, StopMoves DEF Check
  <1>3. QED
    BY <1>1, <1>2

LEMMA Unmoved ==
    ASSUME FamiliesInv, UNCHANGED control, \A k \in Code : codes[k] # None => codes'[k] # None
    PROVE  /\ Loop' /\ (\A g \in Handler : Local(g)') /\ (\A g \in Handler : CodeKnown(g)')
  <1>1. Loop' /\ \A g \in Handler : Local(g)'
    BY DEF FamiliesInv, Loop, ControlOK, LoopOK, TurnOK, Local, control
  <1>2. ASSUME NEW g \in Handler PROVE CodeKnown(g)'
    <2>1. pc[g] # <<>> /\ HasCode(pc[g]) => call[g].code \in Code /\ codes[call[g].code] # None
      BY DEF FamiliesInv, Local, Needs, CodeKnown
    <2>2. QED
      BY <2>1 DEF CodeKnown, control
  <1>3. QED
    BY <1>1, <1>2

LEMMA TablesKept == TablesOK /\ UNCHANGED <<tables, enrolled>> => TablesOK'
  BY DEF TablesOK, tables
-----------------------------------------------------------------------------
(* The steps that read. *)

LEMMA SameGoes ==
    ASSUME NEW s, NEW c \in CallRecord,
           Head(s) \notin {"createChild", "findDevice", "createFamily", "readDevice", "findChild"}
    PROVE  Goes(s, c, c)
  BY DEF Goes

\* The variables of a handler that has steps to take.
LEMMA HasCall ==
    ASSUME FamiliesInv, NEW h \in Handler, pc[h] # <<>>
    PROVE  /\ call[h] \in CallRecord /\ pc[h] \in Seq(Step)
           /\ Facts(pc[h]) /\ Needs(pc[h], call[h])
  BY DEF FamiliesInv, Local, Loop, ControlOK

\* A step that reads and leaves the handler's variables alone.
LEMMA PlainRead ==
    ASSUME FamiliesInv, NEW h \in Handler, NEW step, At(h, step), NEW ok \in BOOLEAN,
           Check(h, ok, call[h]), UNCHANGED <<tables, history>>,
           step \notin {"createChild", "findDevice", "createFamily", "readDevice", "findChild"}
    PROVE  FamiliesInv'
  <1>1. PICK c : c = call[h]
    OBVIOUS
  <1>2. Check(h, ok, c)
    BY <1>1 DEF Check, GoOn, Run
  <1>3. pc[h] # <<>> /\ turn \in {None, h} /\ Head(pc[h]) = step
    BY DEF At
  <1>4. Goes(pc[h], call[h], c)
    BY <1>1, <1>3, HasCall, SameGoes
  <1>5. codes' = codes
    BY DEF tables
  <1>6. /\ Loop' /\ (\A g \in Handler : Local(g)') /\ (\A g \in Handler : CodeKnown(g)')
    BY <1>2, <1>3, <1>4, <1>5, CheckMoves
  <1>7. TablesOK'
    BY TablesKept DEF FamiliesInv, history, tables
  <1>8. QED
    BY <1>6, <1>7 DEF FamiliesInv

\* Whatever ReadFamily reads, the handler's variables stay.
LEMMA ReadFamilyPlain ==
    ASSUME NEW h \in Handler, ReadFamily(h)
    PROVE  \E step \in {"wait", "isUser", "mayManageParents", "mayManagePolicy", "findPerson",
                        "notMember", "findAssigned"}, ok \in BOOLEAN :
                At(h, step) /\ Check(h, ok, call[h]) /\ UNCHANGED <<tables, history>>
  <1>1. CASE Read(h, "wait", TRUE, call[h])
    BY <1>1 DEF Read, Check, GoOn, Run
  <1>2. CASE Read(h, "isUser", call[h].user \in users, call[h])
    BY <1>2 DEF Read, Check, GoOn, Run
  <1>3. CASE Read(h, "mayManageParents", HasRole(call[h].family, call[h].user, {"OWNER"}), call[h])
    BY <1>3 DEF Read, Check, GoOn, Run, HasRole
  <1>4. CASE Read(h, "mayManagePolicy", HasRole(call[h].family, call[h].user, {"OWNER", "PARENT"}), call[h])
    BY <1>4 DEF Read, Check, GoOn, Run, HasRole
  <1>5. CASE Read(h, "findPerson", call[h].person \in users, call[h])
    BY <1>5 DEF Read, Check, GoOn, Run
  <1>6. CASE Read(h, "notMember", RowOf(call[h].family, call[h].person) = {}, call[h])
    BY <1>6 DEF Read, Check, GoOn, Run
  <1>7. CASE Read(h, "findAssigned", call[h].assigned \subseteq ChildrenOf(call[h].family), call[h])
    BY <1>7 DEF Read, Check, GoOn, Run
  <1>8. QED
    BY <1>1, <1>2, <1>3, <1>4, <1>5, <1>6, <1>7 DEF ReadFamily

LEMMA ReadFamilyKeeps ==
    ASSUME FamiliesInv, NEW h \in Handler, ReadFamily(h)
    PROVE  FamiliesInv'
  BY ReadFamilyPlain, PlainRead

\* A step that reads and changes the handler's variables.
LEMMA ReadKeeps ==
    ASSUME FamiliesInv, NEW h \in Handler, pc[h] # <<>>, turn \in {None, h}, NEW ok, NEW c,
           Check(h, ok, c), ok => Goes(pc[h], call[h], c), UNCHANGED <<tables, history>>
    PROVE  FamiliesInv'
  <1>1. codes' = codes
    BY DEF tables
  <1>2. /\ Loop' /\ (\A g \in Handler : Local(g)') /\ (\A g \in Handler : CodeKnown(g)')
    BY <1>1, CheckMoves
  <1>3. TablesOK'
    BY TablesKept DEF FamiliesInv, history, tables
  <1>4. QED
    BY <1>2, <1>3 DEF FamiliesInv

LEMMA ReadChildKeeps ==
    ASSUME FamiliesInv, NEW h \in Handler, ReadChild(h)
    PROVE  FamiliesInv'
  <1>1. CASE Read(h, "findChild", call[h].child \in ChildrenOf(call[h].family),
                  [call[h] EXCEPT !.row = children[call[h].child]])
    <2>1. PICK c : c = [call[h] EXCEPT !.row = children[call[h].child]]
      OBVIOUS
    <2>2. PICK ok : ok = (call[h].child \in ChildrenOf(call[h].family))
      OBVIOUS
    <2>3. /\ Check(h, ok, c) /\ UNCHANGED <<tables, history>>
          /\ pc[h] # <<>> /\ turn \in {None, h} /\ Head(pc[h]) = "findChild"
      BY <1>1, <2>1, <2>2 DEF Read, At, Check, GoOn, Run
    <2>4. call[h] \in CallRecord
      BY <2>3, HasCall
    <2>5. ok => children[call[h].child] \in ChildRow
      BY <2>2 DEF ChildrenOf, FamiliesInv, TablesOK
    <2>6. ok => Goes(pc[h], call[h], c)
      BY <2>1, <2>3, <2>4, <2>5 DEF Goes, CallRecord
    <2>7. QED
      BY <2>3, <2>6, ReadKeeps
  <1>2. CASE Read(h, "listDevices", TRUE, [call[h] EXCEPT !.listed =
                    DevicesOf(call[h].child) \cap DevicesIn(call[h].family)])
    <2>1. PICK S \in SUBSET Device : S = DevicesOf(call[h].child) \cap DevicesIn(call[h].family)
      BY DEF DevicesOf
    <2>2. PICK c : c = [call[h] EXCEPT !.listed = S]
      OBVIOUS
    <2>3. /\ Check(h, TRUE, c) /\ UNCHANGED <<tables, history>>
          /\ pc[h] # <<>> /\ turn \in {None, h} /\ Head(pc[h]) = "listDevices"
      BY <1>2, <2>1, <2>2 DEF Read, At, Check, GoOn, Run
    <2>4. call[h] \in CallRecord
      BY <2>3, HasCall
    <2>5. Goes(pc[h], call[h], c)
      BY <2>2, <2>3, <2>4 DEF Goes, CallRecord
    <2>6. QED
      BY <2>3, <2>5, ReadKeeps
  <1>3. CASE Read(h, "listAssigned", TRUE, [call[h] EXCEPT !.listed =
                    {m \in MembersOf(call[h].family) : call[h].child \in members[m].assigned}])
    <2>1. PICK S \in SUBSET Member :
            S = {m \in MembersOf(call[h].family) : call[h].child \in members[m].assigned}
      BY DEF MembersOf
    <2>2. PICK c : c = [call[h] EXCEPT !.listed = S]
      OBVIOUS
    <2>3. /\ Check(h, TRUE, c) /\ UNCHANGED <<tables, history>>
          /\ pc[h] # <<>> /\ turn \in {None, h} /\ Head(pc[h]) = "listAssigned"
      BY <1>3, <2>1, <2>2 DEF Read, At, Check, GoOn, Run
    <2>4. call[h] \in CallRecord
      BY <2>3, HasCall
    <2>5. Goes(pc[h], call[h], c)
      BY <2>2, <2>3, <2>4 DEF Goes, CallRecord
    <2>6. QED
      BY <2>3, <2>5, ReadKeeps
  <1>4. CASE Read(h, "listChildren", TRUE, [call[h] EXCEPT !.rest = ChildrenOf(call[h].family)])
    <2>1. PICK S \in SUBSET Child : S = ChildrenOf(call[h].family)
      BY DEF ChildrenOf
    <2>2. PICK c : c = [call[h] EXCEPT !.rest = S]
      OBVIOUS
    <2>3. /\ Check(h, TRUE, c) /\ UNCHANGED <<tables, history>>
          /\ pc[h] # <<>> /\ turn \in {None, h} /\ Head(pc[h]) = "listChildren"
      BY <1>4, <2>1, <2>2 DEF Read, At, Check, GoOn, Run
    <2>4. call[h] \in CallRecord
      BY <2>3, HasCall
    <2>5. Goes(pc[h], call[h], c)
      BY <2>2, <2>3, <2>4 DEF Goes, CallRecord
    <2>6. QED
      BY <2>3, <2>5, ReadKeeps
  <1>5. QED
    BY <1>1, <1>2, <1>3, <1>4 DEF ReadChild

LEMMA ReadDeviceKeeps ==
    ASSUME FamiliesInv, NEW h \in Handler, ReadDevice(h)
    PROVE  FamiliesInv'
  <1>1. CASE Read(h, "findDevice", devices[call[h].device] # None
                                   /\ devices[call[h].device].family = call[h].family,
                  [call[h] EXCEPT !.child = devices[call[h].device].child])
    <2>1. PICK c : c = [call[h] EXCEPT !.child = devices[call[h].device].child]
      OBVIOUS
    <2>2. PICK ok : ok = (devices[call[h].device] # None
                          /\ devices[call[h].device].family = call[h].family)
      OBVIOUS
    <2>3. /\ Check(h, ok, c) /\ UNCHANGED <<tables, history>>
          /\ pc[h] # <<>> /\ turn \in {None, h} /\ Head(pc[h]) = "findDevice"
      BY <1>1, <2>1, <2>2 DEF Read, At, Check, GoOn, Run
    <2>4. call[h] \in CallRecord /\ call[h].device \in Device
      BY <2>3, HasCall, LacksTail DEF Needs
    <2>5. ok => devices[call[h].device].child \in Child
      BY <2>2, <2>4 DEF FamiliesInv, TablesOK, DeviceRow
    <2>6. ok => Goes(pc[h], call[h], c)
      BY <2>1, <2>3, <2>4, <2>5 DEF Goes, CallRecord
    <2>7. QED
      BY <2>3, <2>6, ReadKeeps
  <1>2. CASE Read(h, "readDevice", devices[call[h].device] # None,
                  [call[h] EXCEPT !.row = devices[call[h].device]])
    <2>1. PICK c : c = [call[h] EXCEPT !.row = devices[call[h].device]]
      OBVIOUS
    <2>2. PICK ok : ok = (devices[call[h].device] # None)
      OBVIOUS
    <2>3. /\ Check(h, ok, c) /\ UNCHANGED <<tables, history>>
          /\ pc[h] # <<>> /\ turn \in {None, h} /\ Head(pc[h]) = "readDevice"
      BY <1>2, <2>1, <2>2 DEF Read, At, Check, GoOn, Run
    <2>4. call[h] \in CallRecord /\ call[h].device \in Device
      BY <2>3, HasCall, LacksTail DEF Needs
    <2>5. ok => devices[call[h].device] \in DeviceRow
      BY <2>2, <2>4 DEF FamiliesInv, TablesOK
    <2>6. ok => Goes(pc[h], call[h], c)
      BY <2>1, <2>3, <2>4, <2>5 DEF Goes, CallRecord
    <2>7. QED
      BY <2>3, <2>6, ReadKeeps
  <1>3. CASE Read(h, "readCode", codes[call[h].code].live, call[h])
    <2>1. PICK ok : ok = codes[call[h].code].live
      OBVIOUS
    <2>2. PICK c : c = call[h]
      OBVIOUS
    <2>3. /\ Check(h, ok, c) /\ UNCHANGED <<tables, history>>
          /\ pc[h] # <<>> /\ turn \in {None, h} /\ Head(pc[h]) = "readCode"
      BY <1>3, <2>1, <2>2 DEF Read, At, Check, GoOn, Run
    <2>4. Goes(pc[h], call[h], c)
      BY <2>2, <2>3, HasCall, SameGoes
    <2>5. QED
      BY <2>3, <2>4, ReadKeeps
  <1>4. QED
    BY <1>1, <1>2, <1>3 DEF ReadDevice

-----------------------------------------------------------------------------
(* The loops: a body goes in front of the program. *)

LEMMA PrependFacts ==
    ASSUME NEW q \in Seq(Step), Facts(q), NEW s \in Seq(Step), s # <<>>, Facts(s),
           \A a \in {"createFamily", "addOwner", "createChild", "findDevice", "leaveFamilies", "findChild",
                    "readDevice", "insertChild", "writeDevice", "bump"} : Lacks(q, a),
           Head(s) \in {"leaveFamilies", "eraseChildren"}
    PROVE  q \o s \in Seq(Step) /\ Facts(q \o s)
  <1>0. Lacks(s, "findChild") /\ Lacks(s, "listChildren")
    BY NoneAfterTail, LacksTail DEF Facts
  <1>1. q \o s \in Seq(Step)
    BY ConcatType
  <1>2. /\ Preceded(q \o s, "readDevice", "writeDevice")
        /\ Preceded(q \o s, "findChild", "insertChild")
        /\ Preceded(q \o s, "readCode", "createDevice")
        /\ Followed(q \o s, "readCode", "createDevice")
        /\ Followed(q \o s, "createDevice", "markCode")
    BY ConcatPreceded, ConcatFollowed DEF Facts
  <1>3. /\ NoneAfter(q \o s, "createFamily", "dropChild")
        /\ NoneAfter(q \o s, "createChild", "dropChild")
        /\ NoneAfter(q \o s, "findDevice", "dropChild")
        /\ NoneAfter(q \o s, "leaveFamilies", "dropChild")
        /\ NoneAfter(q \o s, "leaveFamilies", "eraseChildren")
        /\ NoneAfter(q \o s, "createFamily", "eraseChildren")
        /\ NoneAfter(q \o s, "findChild", "writeDevice")
        /\ NoneAfter(q \o s, "readDevice", "insertChild")
        /\ NoneAfter(q \o s, "addOwner", "createFamily")
        /\ NoneAfter(q \o s, "insertChild", "findChild")
        /\ NoneAfter(q \o s, "writeDevice", "readDevice")
        /\ NoneAfter(q \o s, "bump", "createChild")
        /\ NoneAfter(q \o s, "bump", "findDevice")
        /\ NoneAfter(q \o s, "dropChild", "findChild")
        /\ NoneAfter(q \o s, "eraseChildren", "listChildren")
        /\ NoneAfter(q \o s, "eraseChildren", "findChild")
        /\ NoneAfter(q \o s, "leaveFamilies", "listChildren")
        /\ NoneAfter(q \o s, "leaveFamilies", "findChild")
    BY <1>0, ConcatNoneAfter DEF Facts
  <1>4. QED
    BY <1>1, <1>2, <1>3 DEF Facts

LEMMA PrependNeeds ==
    ASSUME NEW q \in Seq(Step), NEW s \in Seq(Step), NEW c, NEW c2, Needs(s, c),
           \A x \in {"createFamily", "addOwner", "addMember", "createChild", "createCode", "bump",
                     "readDevice", "findDevice", "writeDevice", "insertChild", "createDevice",
                     "markCode", "findChild"} : Lacks(q, x),
           c2.user = c.user, c2.person = c.person, c2.role = c.role, c2.device = c.device,
           c2.code = c.code, c2.row = c.row,
           c2.family = c.family \/ c2.family \in Family, c2.child = c.child \/ c2.child \in Child
    PROVE  Needs(q \o s, c2)
  <1> DEFINE t == q \o s
  <1>1. \A x \in {"createFamily", "addOwner", "addMember", "createChild", "createCode", "bump",
                  "readDevice", "findDevice", "writeDevice", "insertChild", "createDevice",
                  "markCode", "findChild"} : Lacks(t, x) <=> Lacks(s, x)
    BY ConcatLacks
  <1> HIDE DEF t
  <1>2. Needs(t, c2)
    BY <1>1 DEF Needs, HasCode
  <1>3. QED
    BY <1>2 DEF t

LEMMA CascadesFit ==
    ASSUME NEW q \in {<<>>, deleteChildCascade, deleteFamilyCascade}
    PROVE  /\ q \in Seq(Step) /\ Facts(q)
           /\ \A x \in {"createFamily", "addOwner", "addMember", "createChild", "createCode", "bump",
                        "leaveFamilies", "readDevice", "findDevice", "writeDevice", "insertChild",
                        "createDevice", "markCode", "findChild"} : Lacks(q, x)
  <1>1. <<>> \in Seq(Step) /\ Facts(<<>>)
    BY DEF Facts, Preceded, Followed, NoneAfter
  <1>2. QED
    BY <1>1, CascadeFacts, Absent4, EmptyLacks

LEMMA PrependKeeps ==
    ASSUME FamiliesInv, NEW h \in Handler, pc[h] # <<>>, turn \in {None, h},
           Head(pc[h]) \in {"leaveFamilies", "eraseChildren"},
           NEW q \in {<<>>, deleteChildCascade, deleteFamilyCascade}, NEW c \in CallRecord,
           Run(h, q \o pc[h], c), UNCHANGED <<tables, history>>,
           c.user = call[h].user, c.person = call[h].person, c.role = call[h].role,
           c.device = call[h].device, c.code = call[h].code, c.row = call[h].row,
           c.family = call[h].family \/ c.family \in Family,
           c.child = call[h].child \/ c.child \in Child
    PROVE  FamiliesInv'
  <1>1. PICK s : s = pc[h]
    OBVIOUS
  <1>2. /\ s \in Seq(Step) /\ Facts(s) /\ Needs(s, call[h])
        /\ HasCode(s) => codes[call[h].code] # None
    BY <1>1, HasCall DEF FamiliesInv, CodeKnown
  <1>3. q \o s \in Seq(Step) /\ Facts(q \o s)
    BY <1>1, <1>2, CascadesFit, PrependFacts
  <1>4. PICK c0 : c0 = call[h]
    OBVIOUS
  <1>5. Needs(q \o s, c)
    <2>1. /\ q \in Seq(Step)
          /\ \A x \in {"createFamily", "addOwner", "addMember", "createChild", "createCode", "bump",
                       "readDevice", "findDevice", "writeDevice", "insertChild", "createDevice",
                       "markCode", "findChild"} : Lacks(q, x)
      BY CascadesFit
    <2>2. /\ Needs(s, c0) /\ c.user = c0.user /\ c.person = c0.person /\ c.role = c0.role
          /\ c.device = c0.device /\ c.code = c0.code /\ c.row = c0.row
          /\ c.family = c0.family \/ c.family \in Family
          /\ c.child = c0.child \/ c.child \in Child
      BY <1>2, <1>4
    <2>3. QED
      BY <1>2, <2>1, <2>2, PrependNeeds
  <1>6. codes' = codes
    BY DEF tables
  <1>7. HasCode(q \o s) => codes'[c.code] # None
    <2>1. Lacks(q, "createDevice") /\ Lacks(q, "markCode") /\ q \in Seq(Step)
      BY CascadesFit
    <2>2. QED
      BY <1>2, <1>6, <2>1, ConcatLacks DEF HasCode
  <1>8. PICK rest : rest = q \o s
    OBVIOUS
  <1>9. Run(h, rest, c)
    BY <1>1, <1>8 DEF Run
  <1>10. /\ Loop' /\ (\A g \in Handler : Local(g)') /\ (\A g \in Handler : CodeKnown(g)')
    BY <1>3, <1>5, <1>6, <1>7, <1>8, <1>9, RunMoves
  <1>11. TablesOK'
    BY TablesKept DEF FamiliesInv, history, tables
  <1>12. QED
    BY <1>10, <1>11 DEF FamiliesInv

LEMMA LeaveKeeps ==
    ASSUME FamiliesInv, NEW h \in Handler, leaveFamilies(h)
    PROVE  FamiliesInv'
  <1>0. UNCHANGED <<tables, history>>
    BY DEF leaveFamilies
  <1> DEFINE owned == {members[m].family : m \in {x \in RowsOf(call[h].user) : members[x].role = "OWNER"}}
  <1>1. CASE At(h, "listOwned") /\ GoOn(h, [call[h] EXCEPT !.owned = owned])
    <2>1. PICK S \in SUBSET Family : S = owned
      BY DEF RowsOf, FamiliesInv, TablesOK, MemberRow
    <2>2. PICK c : c = [call[h] EXCEPT !.owned = S]
      OBVIOUS
    <2>3. Check(h, TRUE, c) /\ pc[h] # <<>> /\ turn \in {None, h} /\ Head(pc[h]) = "listOwned"
      BY <1>1, <2>1, <2>2 DEF At, Check, GoOn, Run
    <2>4. call[h] \in CallRecord
      BY <2>3, HasCall
    <2>5. Goes(pc[h], call[h], c)
      BY <2>2, <2>3, <2>4 DEF Goes, CallRecord
    <2>6. QED
      BY <1>0, <2>3, <2>5, ReadKeeps
  <1>2. CASE At(h, "leaveFamilies") /\ GoOn(h, call[h])
    <2>1. PICK ok \in BOOLEAN, step \in {"leaveFamilies"} : Check(h, ok, call[h]) /\ At(h, step)
      BY <1>0, <1>2 DEF Check, GoOn, Run
    <2>2. QED
      BY <1>0, <1>2, <2>1, PlainRead
  <1>3. ASSUME NEW f \in call[h].owned, At(h, "leaveFamilies"),
               Run(h, (IF Owners(f) \ {call[h].user} # {} THEN <<>> ELSE deleteFamilyCascade) \o pc[h],
                   [call[h] EXCEPT !.family = f, !.owned = @ \ {f}])
        PROVE  FamiliesInv'
    <2>1. PICK q \in {<<>>, deleteFamilyCascade} :
            q = IF Owners(f) \ {call[h].user} # {} THEN <<>> ELSE deleteFamilyCascade
      OBVIOUS
    <2>2. PICK c : c = [call[h] EXCEPT !.family = f, !.owned = @ \ {f}]
      OBVIOUS
    <2>3. Run(h, q \o pc[h], c)
      BY <1>3, <2>1, <2>2 DEF Run
    <2>4. pc[h] # <<>> /\ turn \in {None, h} /\ Head(pc[h]) = "leaveFamilies"
      BY <1>3 DEF At
    <2>5. call[h] \in CallRecord
      BY <2>4, HasCall
    <2>6. f \in Family
      BY <1>3, <2>5 DEF CallRecord
    <2>7. /\ c \in CallRecord /\ c.family \in Family
          /\ c.user = call[h].user /\ c.person = call[h].person /\ c.role = call[h].role
          /\ c.device = call[h].device /\ c.code = call[h].code /\ c.row = call[h].row
          /\ c.child = call[h].child
      BY <2>2, <2>5, <2>6 DEF CallRecord
    <2>8. QED
      BY <1>0, <2>3, <2>4, <2>7, PrependKeeps
  <1>4. QED
    BY <1>1, <1>2, <1>3 DEF leaveFamilies

LEMMA EraseKeeps ==
    ASSUME FamiliesInv, NEW h \in Handler, eraseChildren(h)
    PROVE  FamiliesInv'
  <1>0. UNCHANGED <<tables, history>> /\ At(h, "eraseChildren")
    BY DEF eraseChildren
  <1>1. CASE GoOn(h, call[h])
    <2>1. PICK ok \in BOOLEAN, step \in {"eraseChildren"} : Check(h, ok, call[h]) /\ At(h, step)
      BY <1>0, <1>1 DEF Check, GoOn, Run
    <2>2. QED
      BY <1>0, <2>1, PlainRead
  <1>2. ASSUME NEW k \in call[h].rest,
               Run(h, deleteChildCascade \o pc[h], [call[h] EXCEPT !.child = k, !.rest = @ \ {k}])
        PROVE  FamiliesInv'
    <2>1. PICK c : c = [call[h] EXCEPT !.child = k, !.rest = @ \ {k}]
      OBVIOUS
    <2>2. Run(h, deleteChildCascade \o pc[h], c)
      BY <1>2, <2>1 DEF Run
    <2>3. pc[h] # <<>> /\ turn \in {None, h} /\ Head(pc[h]) = "eraseChildren"
      BY <1>0 DEF At
    <2>4. call[h] \in CallRecord
      BY <2>3, HasCall
    <2>5. k \in Child
      BY <1>2, <2>4 DEF CallRecord
    <2>6. /\ c \in CallRecord /\ c.family = call[h].family /\ c.child \in Child
          /\ c.user = call[h].user /\ c.person = call[h].person /\ c.role = call[h].role
          /\ c.device = call[h].device /\ c.code = call[h].code /\ c.row = call[h].row
      BY <2>1, <2>4, <2>5 DEF CallRecord
    <2>7. PICK q \in {<<>>, deleteChildCascade} : q = deleteChildCascade
      OBVIOUS
    <2>8. Run(h, q \o pc[h], c)
      BY <2>2, <2>7 DEF Run
    <2>9. QED
      BY <1>0, <2>3, <2>6, <2>8, PrependKeeps
  <1>3. QED
    BY <1>1, <1>2 DEF eraseChildren

-----------------------------------------------------------------------------
(* The steps that write. *)

Moved == Loop' /\ (\A g \in Handler : Local(g)') /\ (\A g \in Handler : CodeKnown(g)')

LEMMA WriteMoves ==
    ASSUME FamiliesInv, NEW h \in Handler, NEW step, At(h, step), NEW c, GoOn(h, c),
           Goes(pc[h], call[h], c), \A k \in Code : codes[k] # None => codes'[k] # None
    PROVE  Moved
  <1>1. pc[h] # <<>> /\ turn \in {None, h}
    BY DEF At
  <1>2. QED
    BY <1>1, GoOnMoves DEF Moved

\* A step that writes and leaves the handler's variables alone.
LEMMA PlainWrite ==
    ASSUME FamiliesInv, NEW h \in Handler, NEW step, Write(h, step, call[h]),
           step \notin {"createChild", "findDevice", "createFamily", "readDevice", "findChild"},
           \A k \in Code : codes[k] # None => codes'[k] # None
    PROVE  Moved
  <1>1. PICK c : c = call[h]
    OBVIOUS
  <1>2. GoOn(h, c) /\ At(h, step) /\ Head(pc[h]) = step /\ pc[h] # <<>>
    BY <1>1 DEF Write, At, GoOn, Run
  <1>3. Goes(pc[h], call[h], c)
    BY <1>1, <1>2, HasCall, SameGoes
  <1>4. QED
    BY <1>2, <1>3, WriteMoves

LEMMA UpdateFamiliesKeeps ==
    ASSUME FamiliesInv, NEW h \in Handler, UpdateFamilies(h)
    PROVE  FamiliesInv'
  <1>0. /\ UNCHANGED <<users, members, children, versions, codes, devices, enrolled>>
        /\ \A k \in Code : codes[k] # None => codes'[k] # None
    BY DEF UpdateFamilies
  <1> DEFINE new == CHOOSE x \in Family : x \notin families
  <1>1. CASE /\ families # Family /\ Write(h, "createFamily", [call[h] EXCEPT !.family = new])
             /\ families' = families \cup {new}
    <2>1. PICK f \in Family : f = new
      BY <1>1 DEF FamiliesInv, TablesOK
    <2>2. PICK c : c = [call[h] EXCEPT !.family = f]
      OBVIOUS
    <2>3. PICK step \in {"createFamily"} : At(h, step) /\ GoOn(h, c) /\ Head(pc[h]) = step /\ pc[h] # <<>>
      BY <1>1, <2>1, <2>2 DEF Write, At, GoOn, Run
    <2>4. call[h] \in CallRecord
      BY <2>3, HasCall
    <2>5. Goes(pc[h], call[h], c)
      BY <2>2, <2>3, <2>4 DEF Goes, CallRecord
    <2>6. Moved
      BY <1>0, <2>3, <2>5, WriteMoves
    <2>7. families' \subseteq Family
      BY <1>1, <2>1 DEF FamiliesInv, TablesOK
    <2>8. QED
      BY <1>0, <2>6, <2>7 DEF Moved, FamiliesInv, TablesOK
  <1>2. CASE Write(h, "dropFamily", call[h]) /\ families' = families \ {call[h].family}
    <2>1. PICK step \in {"dropFamily"} : Write(h, step, call[h])
      BY <1>2 DEF Write, At, GoOn, Run
    <2>2. Moved
      BY <1>0, <2>1, PlainWrite
    <2>3. QED
      BY <1>0, <1>2, <2>2 DEF Moved, FamiliesInv, TablesOK
  <1>3. QED
    BY <1>1, <1>2 DEF UpdateFamilies

LEMMA UpdateMembersKeeps ==
    ASSUME FamiliesInv, NEW h \in Handler, UpdateMembers(h)
    PROVE  FamiliesInv'
  <1>0. /\ UNCHANGED <<users, families, children, versions, codes, devices, history>>
        /\ \A k \in Code : codes[k] # None => codes'[k] # None
    BY DEF UpdateMembers
  <1>1. ASSUME NEW step \in {"addOwner", "addMember", "sweepMembers", "dropMemberships"},
               Write(h, step, call[h]), members' \in [Member -> MemberRow \cup {None}]
        PROVE  FamiliesInv'
    <2>1. Moved
      BY <1>0, <1>1, PlainWrite
    <2>2. QED
      BY <1>0, <1>1, <2>1 DEF Moved, FamiliesInv, TablesOK, history
  <1>2. ASSUME NEW step \in {"addOwner", "addMember"}, HasFresh(members), Write(h, step, call[h]),
               NEW u \in User, NEW r \in Role, NEW S \in SUBSET Child, call[h].family \in Family,
               members' = [members EXCEPT ![Fresh(members)] =
                   [family |-> call[h].family, user |-> u, role |-> r, assigned |-> S]]
        PROVE  members' \in [Member -> MemberRow \cup {None}]
    <2>1. PICK m \in Member : m = Fresh(members)
      BY <1>2 DEF FamiliesInv, TablesOK, HasFresh, Fresh
    <2>2. [family |-> call[h].family, user |-> u, role |-> r, assigned |-> S] \in MemberRow
      BY <1>2 DEF MemberRow
    <2>3. QED
      BY <1>2, <2>1, <2>2 DEF FamiliesInv, TablesOK
  <1>3. ASSUME NEW ids PROVE Without(members, ids) \in [Member -> MemberRow \cup {None}]
    BY DEF Without, FamiliesInv, TablesOK
  <1>4. CASE /\ HasFresh(members) /\ Write(h, "addOwner", call[h])
             /\ members' = [members EXCEPT ![Fresh(members)] =
                   [family |-> call[h].family, user |-> call[h].user, role |-> "OWNER", assigned |-> {}]]
    <2>1. PICK step \in {"addOwner"} : Write(h, step, call[h])
      BY <1>4 DEF Write, At, GoOn, Run
    <2>2. pc[h] # <<>> /\ Head(pc[h]) = "addOwner"
      BY <1>4 DEF Write, At
    <2>3. call[h].family \in Family /\ call[h].user \in User
      <3>1. PICK s : s = pc[h]
        OBVIOUS
      <3>2. s \in Seq(Step) /\ s # <<>> /\ Head(s) = "addOwner" /\ Needs(s, call[h])
        BY <2>2, <3>1, HasCall
      <3>3. ~Lacks(s, "addOwner")
        BY <3>2, LacksTail
      <3>4. Lacks(s, "createFamily")
        <4>1. NoneAfter(s, "addOwner", "createFamily")
          BY <3>1, <2>2, HasCall DEF Facts
        <4>2. QED
          BY <3>2, <4>1, LacksTail, NoneAfterTail
      <3>5. QED
        BY <3>2, <3>3, <3>4 DEF Needs
    <2>4. PICK r \in Role, S \in SUBSET Child : r = "OWNER" /\ S = {}
      BY DEF Role
    <2>5. members' \in [Member -> MemberRow \cup {None}]
      BY <1>2, <1>4, <2>1, <2>3, <2>4
    <2>6. QED
      BY <1>1, <2>1, <2>5
  <1>5. CASE /\ HasFresh(members) /\ Write(h, "addMember", call[h])
             /\ members' = [members EXCEPT ![Fresh(members)] =
                   [family |-> call[h].family, user |-> call[h].person, role |-> call[h].role,
                    assigned |-> call[h].assigned]]
    <2>1. PICK step \in {"addMember"} : Write(h, step, call[h])
      BY <1>5 DEF Write, At, GoOn, Run
    <2>2. pc[h] # <<>> /\ Head(pc[h]) = "addMember"
      BY <1>5 DEF Write, At
    <2>3. call[h].family \in Family /\ call[h].person \in User /\ call[h].role \in Role
          /\ call[h].assigned \in SUBSET Child
      BY <2>2, HasCall, LacksTail DEF Needs, CallRecord
    <2>4. members' \in [Member -> MemberRow \cup {None}]
      BY <1>2, <1>5, <2>1, <2>3
    <2>5. QED
      BY <1>1, <2>1, <2>4
  <1>6. CASE /\ Write(h, "sweepMembers", call[h])
             /\ members' = Without(members, MembersOf(call[h].family))
    <2>1. PICK step \in {"sweepMembers"} : Write(h, step, call[h])
      BY <1>6 DEF Write, At, GoOn, Run
    <2>2. QED
      BY <1>1, <1>3, <1>6, <2>1
  <1>7. CASE /\ Write(h, "dropMemberships", call[h])
             /\ members' = Without(members, RowsOf(call[h].user))
    <2>1. PICK step \in {"dropMemberships"} : Write(h, step, call[h])
      BY <1>7 DEF Write, At, GoOn, Run
    <2>2. QED
      BY <1>1, <1>3, <1>7, <2>1
  <1>8. QED
    BY <1>4, <1>5, <1>6, <1>7 DEF UpdateMembers

LEMMA UnassignKeeps ==
    ASSUME FamiliesInv, NEW h \in Handler, unassign(h)
    PROVE  FamiliesInv'
  <1>0. /\ UNCHANGED <<users, families, children, versions, codes, devices, history>>
        /\ \A k \in Code : codes[k] # None => codes'[k] # None
        /\ At(h, "unassign") /\ pc[h] # <<>> /\ turn \in {None, h}
    BY DEF unassign, At
  <1>1. CASE GoOn(h, call[h]) /\ UNCHANGED members
    <2>1. PICK step \in {"unassign"} : Write(h, step, call[h])
      BY <1>0, <1>1 DEF Write, GoOn, Run, At
    <2>2. Moved
      BY <1>0, <2>1, PlainWrite
    <2>3. QED
      BY <1>0, <1>1, <2>2 DEF Moved, FamiliesInv, TablesOK, history
  <1>2. ASSUME NEW m \in call[h].listed, Run(h, pc[h], [call[h] EXCEPT !.listed = @ \ {m}]),
               members' = IF members[m] = None THEN members
                          ELSE [members EXCEPT ![m].assigned = @ \ {call[h].child}]
        PROVE  FamiliesInv'
    <2>1. PICK c : c = [call[h] EXCEPT !.listed = @ \ {m}]
      OBVIOUS
    <2>2. PICK s : s = pc[h]
      OBVIOUS
    <2>3. Run(h, s, c)
      BY <1>2, <2>1, <2>2 DEF Run
    <2>4. PICK c0 : c0 = call[h]
      OBVIOUS
    <2>5. /\ c0 \in CallRecord /\ s \in Seq(Step) /\ Facts(s) /\ Needs(s, c0)
          /\ HasCode(s) => codes[c0.code] # None /\ c0.code \in Code
      BY <1>0, <2>2, <2>4, HasCall DEF FamiliesInv, CodeKnown, Needs
    <2>6. /\ c \in CallRecord /\ c.family = c0.family /\ c.child = c0.child /\ c.code = c0.code
          /\ c.user = c0.user /\ c.person = c0.person /\ c.role = c0.role
          /\ c.device = c0.device /\ c.row = c0.row
      BY <2>1, <2>4, <2>5 DEF CallRecord
    <2>7. Needs(s, c)
      BY <2>5, <2>6 DEF Needs
    <2>8. Moved
      BY <1>0, <2>3, <2>5, <2>6, <2>7, RunMoves DEF Moved
    <2>9. members' \in [Member -> MemberRow \cup {None}]
      <3>1. CASE members[m] = None \/ m \notin Member
        BY <1>2, <3>1 DEF FamiliesInv, TablesOK
      <3>2. CASE members[m] # None /\ m \in Member
        <4>1. PICK row \in MemberRow : row = members[m]
          BY <3>2 DEF FamiliesInv, TablesOK
        <4>2. PICK new : new = [row EXCEPT !.assigned = @ \ {call[h].child}]
          OBVIOUS
        <4>3. new \in MemberRow
          BY <4>2 DEF MemberRow
        <4>4. members' = [members EXCEPT ![m] = new]
          BY <1>2, <3>2, <4>1, <4>2
        <4>5. QED
          BY <4>3, <4>4 DEF FamiliesInv, TablesOK
      <3>3. QED
        BY <3>1, <3>2
    <2>10. QED
      BY <1>0, <2>8, <2>9 DEF Moved, FamiliesInv, TablesOK, history
  <1>3. QED
    BY <1>1, <1>2 DEF unassign

LEMMA UpdateChildrenKeeps ==
    ASSUME FamiliesInv, NEW h \in Handler, UpdateChildren(h)
    PROVE  FamiliesInv'
  <1>0. /\ UNCHANGED <<users, families, members, versions, codes, devices, enrolled>>
        /\ \A k \in Code : codes[k] # None => codes'[k] # None
    BY DEF UpdateChildren
  <1> DEFINE new == CHOOSE x \in Child \ gone : children[x] = None
             there == children[call[h].child] # None
  <1>1. CASE /\ \E x \in Child \ gone : children[x] = None
             /\ Write(h, "createChild", [call[h] EXCEPT !.child = new])
             /\ children' = [children EXCEPT ![new] = [family |-> call[h].family, moved |-> FALSE]]
    <2>1. PICK k \in Child : k = new
      BY <1>1
    <2>2. PICK c : c = [call[h] EXCEPT !.child = k]
      OBVIOUS
    <2>3. PICK step \in {"createChild"} : At(h, step) /\ GoOn(h, c) /\ Head(pc[h]) = step /\ pc[h] # <<>>
      BY <1>1, <2>1, <2>2 DEF Write, At, GoOn, Run
    <2>4. call[h] \in CallRecord /\ call[h].family \in Family
      BY <2>3, HasCall, LacksTail DEF Needs
    <2>5. Goes(pc[h], call[h], c)
      BY <2>2, <2>3, <2>4 DEF Goes, CallRecord
    <2>6. Moved
      BY <1>0, <2>3, <2>5, WriteMoves
    <2>7. [family |-> call[h].family, moved |-> FALSE] \in ChildRow
      BY <2>4 DEF ChildRow
    <2>8. children' \in [Child -> ChildRow \cup {None}]
      BY <1>1, <2>1, <2>7 DEF FamiliesInv, TablesOK
    <2>9. QED
      BY <1>0, <2>6, <2>8 DEF Moved, FamiliesInv, TablesOK
  <1>2. CASE /\ At(h, "insertChild") /\ Check(h, ~there, call[h])
             /\ children' = IF there THEN children
                            ELSE [children EXCEPT ![call[h].child] = [call[h].row EXCEPT !.moved = TRUE]]
    <2>1. PICK ok \in BOOLEAN : ok = (~there)
      OBVIOUS
    <2>2. PICK c : c = call[h]
      OBVIOUS
    <2>3. Check(h, ok, c) /\ pc[h] # <<>> /\ turn \in {None, h} /\ Head(pc[h]) = "insertChild"
      BY <1>2, <2>1, <2>2 DEF At, Check, GoOn, Run
    <2>4. Goes(pc[h], call[h], c)
      BY <2>2, <2>3, HasCall, SameGoes
    <2>5. Moved
      BY <1>0, <2>3, <2>4, CheckMoves DEF Moved
    <2>6. call[h].row \in ChildRow
      <3>1. PICK s : s = pc[h]
        OBVIOUS
      <3>2. s \in Seq(Step) /\ s # <<>> /\ Head(s) = "insertChild" /\ Needs(s, call[h])
            /\ NoneAfter(s, "insertChild", "findChild")
        BY <2>3, <3>1, HasCall DEF Facts
      <3>3. ~Lacks(s, "insertChild") /\ Lacks(s, "findChild")
        BY <3>2, LacksTail, NoneAfterTail
      <3>4. QED
        BY <3>2, <3>3 DEF Needs
    <2>7. PICK row : row = [call[h].row EXCEPT !.moved = TRUE]
      OBVIOUS
    <2>8. row \in ChildRow
      BY <2>6, <2>7 DEF ChildRow
    <2>9. children' \in [Child -> ChildRow \cup {None}]
      BY <1>2, <2>7, <2>8 DEF FamiliesInv, TablesOK
    <2>10. QED
      BY <1>0, <2>5, <2>9 DEF Moved, FamiliesInv, TablesOK
  <1>3. CASE /\ Write(h, "dropChild", call[h])
             /\ children' = IF call[h].child \in ChildrenOf(call[h].family)
                            THEN Without(children, {call[h].child}) ELSE children
    <2>1. PICK step \in {"dropChild"} : Write(h, step, call[h])
      BY <1>3 DEF Write, At, GoOn, Run
    <2>2. Moved
      BY <1>0, <2>1, PlainWrite
    <2>3. children' \in [Child -> ChildRow \cup {None}]
      BY <1>3 DEF Without, FamiliesInv, TablesOK
    <2>4. QED
      BY <1>0, <2>2, <2>3 DEF Moved, FamiliesInv, TablesOK
  <1>4. QED
    BY <1>1, <1>2, <1>3 DEF UpdateChildren

LEMMA UpdateVersionsKeeps ==
    ASSUME FamiliesInv, NEW h \in Handler, UpdateVersions(h)
    PROVE  FamiliesInv'
  <1>0. /\ UNCHANGED <<users, families, members, children, codes, devices, history>>
        /\ \A k \in Code : codes[k] # None => codes'[k] # None
    BY DEF UpdateVersions
  <1>1. ASSUME NEW step \in {"bump", "dropVersions", "sweepVersions"}, Write(h, step, call[h]),
               versions' \subseteq Family \X Child
        PROVE  FamiliesInv'
    <2>1. Moved
      BY <1>0, <1>1, PlainWrite
    <2>2. QED
      BY <1>0, <1>1, <2>1 DEF Moved, FamiliesInv, TablesOK, history
  <1>2. CASE /\ Write(h, "bump", call[h])
             /\ versions' = versions \cup {<<call[h].family, call[h].child>>}
    <2>1. PICK step \in {"bump"} : Write(h, step, call[h])
      BY <1>2 DEF Write, At, GoOn, Run
    <2>2. call[h].family \in Family /\ call[h].child \in Child
      <3>1. PICK s : s = pc[h]
        OBVIOUS
      <3>2. s \in Seq(Step) /\ s # <<>> /\ Head(s) = "bump" /\ Needs(s, call[h])
            /\ NoneAfter(s, "bump", "createChild") /\ NoneAfter(s, "bump", "findDevice")
        BY <1>2, <3>1, HasCall DEF Facts, Write, At
      <3>3. ~Lacks(s, "bump") /\ Lacks(s, "createChild") /\ Lacks(s, "findDevice")
        BY <3>2, LacksTail, NoneAfterTail
      <3>4. QED
        BY <3>2, <3>3 DEF Needs
    <2>3. versions' \subseteq Family \X Child
      BY <1>2, <2>2 DEF FamiliesInv, TablesOK
    <2>4. QED
      BY <1>1, <2>1, <2>3
  <1>3. CASE /\ Write(h, "dropVersions", call[h])
             /\ versions' = versions \ {<<call[h].family, call[h].child>>}
    <2>1. PICK step \in {"dropVersions"} : Write(h, step, call[h])
      BY <1>3 DEF Write, At, GoOn, Run
    <2>2. QED
      BY <1>1, <1>3, <2>1 DEF FamiliesInv, TablesOK
  <1>4. CASE /\ Write(h, "sweepVersions", call[h])
             /\ versions' = versions \ ({call[h].family} \X Child)
    <2>1. PICK step \in {"sweepVersions"} : Write(h, step, call[h])
      BY <1>4 DEF Write, At, GoOn, Run
    <2>2. QED
      BY <1>1, <1>4, <2>1 DEF FamiliesInv, TablesOK
  <1>5. QED
    BY <1>2, <1>3, <1>4 DEF UpdateVersions

\* A dead code is a row still.
LEMMA DeadCodes ==
    ASSUME TablesOK, NEW ids, \A k \in Code \cap ids : codes[k] # None
    PROVE  /\ Dead(codes, ids) \in [Code -> CodeRow \cup {None}]
           /\ \A k \in Code : codes[k] # None => Dead(codes, ids)[k] # None
           /\ \A k \in ids \cap Code : codes[k] # None => ~Dead(codes, ids)[k].live
           /\ \A k \in Code \ ids : Dead(codes, ids)[k] = codes[k]
  <1>1. DOMAIN codes = Code
    BY DEF TablesOK
  <1>2. ASSUME NEW k \in Code, codes[k] # None
        PROVE  [codes[k] EXCEPT !.live = FALSE] \in CodeRow /\ ~[codes[k] EXCEPT !.live = FALSE].live
    BY <1>2 DEF TablesOK, CodeRow
  <1>3. None \notin CodeRow
    BY FamiliesAssumption
  <1>4. \A k \in Code : Dead(codes, ids)[k] = IF k \in ids THEN [codes[k] EXCEPT !.live = FALSE]
                                              ELSE codes[k]
    BY <1>1 DEF Dead
  <1>5. Dead(codes, ids) \in [Code -> CodeRow \cup {None}]
    BY <1>1, <1>2, <1>4 DEF Dead, TablesOK
  <1>6. QED
    BY <1>2, <1>3, <1>4, <1>5


LEMMA UpdateCodesKeeps ==
    ASSUME FamiliesInv, NEW h \in Handler, UpdateCodes(h)
    PROVE  FamiliesInv'
  <1>0. UNCHANGED <<users, families, members, children, versions, devices, history>>
    BY DEF UpdateCodes
  <1>1. ASSUME NEW step \in {"createCode", "markCode", "sweepCodes"}, Write(h, step, call[h]),
               codes' \in [Code -> CodeRow \cup {None}],
               \A k \in Code : codes[k] # None => codes'[k] # None
        PROVE  FamiliesInv'
    <2>1. Moved
      BY <1>1, PlainWrite
    <2>2. QED
      BY <1>0, <1>1, <2>1 DEF Moved, FamiliesInv, TablesOK, history
  <1>2. CASE /\ HasFresh(codes) /\ Write(h, "createCode", call[h])
             /\ codes' = [codes EXCEPT ![Fresh(codes)] =
                          [family |-> call[h].family, child |-> call[h].child, live |-> TRUE]]
    <2>1. PICK step \in {"createCode"} : Write(h, step, call[h])
      BY <1>2 DEF Write, At, GoOn, Run
    <2>2. PICK k \in Code : k = Fresh(codes)
      BY <1>2 DEF FamiliesInv, TablesOK, HasFresh, Fresh
    <2>3. call[h].family \in Family /\ call[h].child \in Child
      BY <1>2, HasCall, LacksTail DEF Write, At, Needs
    <2>4. PICK row \in CodeRow :
            row = [family |-> call[h].family, child |-> call[h].child, live |-> TRUE]
      BY <2>3 DEF CodeRow
    <2>5. codes' = [codes EXCEPT ![k] = row]
      BY <1>2, <2>2, <2>4
    <2>6. /\ codes' \in [Code -> CodeRow \cup {None}]
          /\ \A i \in Code : codes[i] # None => codes'[i] # None
      BY <2>4, <2>5, FamiliesAssumption DEF FamiliesInv, TablesOK
    <2>7. QED
      BY <1>1, <2>1, <2>6
  <1>3. ASSUME NEW step \in {"markCode", "sweepCodes"}, Write(h, step, call[h]),
               NEW ids, codes' = Dead(codes, ids), \A k \in Code \cap ids : codes[k] # None
        PROVE  FamiliesInv'
    <2>1. /\ codes' \in [Code -> CodeRow \cup {None}]
          /\ \A k \in Code : codes[k] # None => codes'[k] # None
      BY <1>3, DeadCodes DEF FamiliesInv
    <2>2. QED
      BY <1>1, <1>3, <2>1
  <1>4. CASE Write(h, "markCode", call[h]) /\ codes' = Dead(codes, {call[h].code})
    <2>1. PICK step \in {"markCode"} : Write(h, step, call[h])
      BY <1>4 DEF Write, At, GoOn, Run
    <2>2. HasCode(pc[h]) /\ pc[h] # <<>>
      BY <1>4, HasCall, LacksTail DEF Write, At, HasCode
    <2>3. codes[call[h].code] # None
      BY <2>2 DEF FamiliesInv, CodeKnown
    <2>4. PICK ids : ids = {call[h].code}
      OBVIOUS
    <2>5. QED
      BY <1>3, <1>4, <2>1, <2>3, <2>4
  <1>5. CASE /\ Write(h, "sweepCodes", call[h])
             /\ codes' = Dead(codes, {k \in Code : codes[k] # None /\ codes[k].family = call[h].family})
    <2>1. PICK step \in {"sweepCodes"} : Write(h, step, call[h])
      BY <1>5 DEF Write, At, GoOn, Run
    <2>2. PICK ids : ids = {k \in Code : codes[k] # None /\ codes[k].family = call[h].family}
      OBVIOUS
    <2>3. QED
      BY <1>3, <1>5, <2>1, <2>2
  <1>6. QED
    BY <1>2, <1>4, <1>5 DEF UpdateCodes

LEMMA UpdateDevicesKeeps ==
    ASSUME FamiliesInv, NEW h \in Handler, UpdateDevices(h)
    PROVE  FamiliesInv'
  <1>0. /\ UNCHANGED <<users, families, members, children, versions, codes, enrolled>>
        /\ \A k \in Code : codes[k] # None => codes'[k] # None
    BY DEF UpdateDevices
  <1>1. ASSUME NEW ids PROVE Without(devices, ids) \in [Device -> DeviceRow \cup {None}]
    BY DEF Without, FamiliesInv, TablesOK
  <1>2. ASSUME NEW step \in {"dropDevice", "dropDevices", "sweepDevices"},
               Write(h, step, [call[h] EXCEPT !.listed = {}]), NEW ids, devices' = Without(devices, ids)
        PROVE  FamiliesInv'
    <2>1. PICK c : c = [call[h] EXCEPT !.listed = {}]
      OBVIOUS
    <2>2. GoOn(h, c) /\ At(h, step) /\ Head(pc[h]) = step /\ pc[h] # <<>>
      BY <1>2, <2>1 DEF Write, At, GoOn, Run
    <2>3. call[h] \in CallRecord
      BY <2>2, HasCall
    <2>4. Goes(pc[h], call[h], c)
      BY <2>1, <2>2, <2>3 DEF Goes, CallRecord
    <2>5. Moved
      BY <1>0, <2>2, <2>4, WriteMoves
    <2>6. QED
      BY <1>0, <1>1, <1>2, <2>5 DEF Moved, FamiliesInv, TablesOK
  <1>3. CASE /\ Write(h, "dropDevice", [call[h] EXCEPT !.listed = {}])
             /\ devices' = Without(devices, {call[h].device})
    <2>1. PICK step \in {"dropDevice"} : Write(h, step, [call[h] EXCEPT !.listed = {}])
      BY <1>3 DEF Write, At, GoOn, Run
    <2>2. PICK ids : ids = {call[h].device}
      OBVIOUS
    <2>3. QED
      BY <1>2, <1>3, <2>1, <2>2
  <1>4. ASSUME At(h, "dropDevices"), NEW d \in call[h].listed,
               Run(h, pc[h], [call[h] EXCEPT !.listed = @ \ {d}]), devices' = Without(devices, {d})
        PROVE  FamiliesInv'
    <2>1. PICK c : c = [call[h] EXCEPT !.listed = @ \ {d}]
      OBVIOUS
    <2>2. PICK s : s = pc[h]
      OBVIOUS
    <2>3. Run(h, s, c) /\ s # <<>> /\ turn \in {None, h}
      BY <1>4, <2>1, <2>2 DEF Run, At
    <2>4. PICK c0 : c0 = call[h]
      OBVIOUS
    <2>5. /\ c0 \in CallRecord /\ s \in Seq(Step) /\ Facts(s) /\ Needs(s, c0)
          /\ HasCode(s) => codes[c0.code] # None /\ c0.code \in Code
      BY <2>2, <2>3, <2>4, HasCall DEF FamiliesInv, CodeKnown, Needs
    <2>6. /\ c \in CallRecord /\ c.family = c0.family /\ c.child = c0.child /\ c.code = c0.code
          /\ c.user = c0.user /\ c.person = c0.person /\ c.role = c0.role
          /\ c.device = c0.device /\ c.row = c0.row
      BY <2>1, <2>4, <2>5 DEF CallRecord
    <2>7. Needs(s, c)
      BY <2>5, <2>6 DEF Needs
    <2>8. Moved
      BY <1>0, <2>3, <2>5, <2>6, <2>7, RunMoves DEF Moved
    <2>9. QED
      BY <1>0, <1>1, <1>4, <2>8 DEF Moved, FamiliesInv, TablesOK
  <1>5. CASE /\ Write(h, "dropDevices", [call[h] EXCEPT !.listed = {}])
             /\ devices' = Without(devices, {})
    <2>1. PICK step \in {"dropDevices"} : Write(h, step, [call[h] EXCEPT !.listed = {}])
      BY <1>5 DEF Write, At, GoOn, Run
    <2>2. PICK ids : ids = {}
      OBVIOUS
    <2>3. QED
      BY <1>2, <1>5, <2>1, <2>2
  <1>6. CASE /\ Write(h, "sweepDevices", [call[h] EXCEPT !.listed = {}])
             /\ devices' = Without(devices, DevicesIn(call[h].family))
    <2>1. PICK step \in {"sweepDevices"} : Write(h, step, [call[h] EXCEPT !.listed = {}])
      BY <1>6 DEF Write, At, GoOn, Run
    <2>2. PICK ids : ids = DevicesIn(call[h].family)
      OBVIOUS
    <2>3. QED
      BY <1>2, <1>6, <2>1, <2>2
  <1>7. CASE /\ Write(h, "writeDevice", call[h])
             /\ devices' = [devices EXCEPT ![call[h].device] = call[h].row]
    <2>1. PICK step \in {"writeDevice"} : Write(h, step, call[h])
      BY <1>7 DEF Write, At, GoOn, Run
    <2>2. Moved
      BY <1>0, <2>1, PlainWrite
    <2>3. call[h].row \in DeviceRow
      <3>1. PICK s : s = pc[h]
        OBVIOUS
      <3>2. s \in Seq(Step) /\ s # <<>> /\ Head(s) = "writeDevice" /\ Needs(s, call[h])
            /\ NoneAfter(s, "writeDevice", "readDevice")
        BY <1>7, <3>1, HasCall DEF Facts, Write, At
      <3>3. ~Lacks(s, "writeDevice") /\ Lacks(s, "readDevice")
        BY <3>2, LacksTail, NoneAfterTail
      <3>4. QED
        BY <3>2, <3>3 DEF Needs
    <2>4. devices' \in [Device -> DeviceRow \cup {None}]
      BY <1>7, <2>3 DEF FamiliesInv, TablesOK
    <2>5. QED
      BY <1>0, <2>2, <2>4 DEF Moved, FamiliesInv, TablesOK
  <1>8. QED
    BY <1>3, <1>4, <1>5, <1>6, <1>7 DEF UpdateDevices

LEMMA CreateDeviceKeeps ==
    ASSUME FamiliesInv, NEW h \in Handler, createDevice(h)
    PROVE  FamiliesInv'
  <1>0. /\ UNCHANGED <<users, families, members, children, versions, codes>>
        /\ \A k \in Code : codes[k] # None => codes'[k] # None
        /\ Write(h, "createDevice", call[h])
    BY DEF createDevice
  <1>1. PICK step \in {"createDevice"} : Write(h, step, call[h])
    BY <1>0 DEF Write, At, GoOn, Run
  <1>2. Moved
    BY <1>0, <1>1, PlainWrite
  <1>3. pc[h] # <<>> /\ HasCode(pc[h])
    BY <1>0, HasCall, LacksTail DEF Write, At, HasCode
  <1>4. call[h].code \in Code /\ codes[call[h].code] \in CodeRow
    BY <1>3, HasCall DEF FamiliesInv, CodeKnown, Needs, TablesOK
  <1>5. PICK k \in Code : k = call[h].code
    BY <1>4
  <1>6. PICK row \in DeviceRow : row = [family |-> codes[k].family, child |-> codes[k].child]
    BY <1>4, <1>5 DEF CodeRow, DeviceRow
  <1>7. PICK d \in Device : devices' = [devices EXCEPT ![d] = row]
    <2>1. {x \in Device \ gone : devices[x] = None} # {}
      BY DEF createDevice
    <2>2. PICK d \in Device : d = CHOOSE x \in {x \in Device \ gone : devices[x] = None} : TRUE
      BY <2>1
    <2>3. QED
      BY <1>5, <1>6, <2>2 DEF createDevice
  <1>8. devices' \in [Device -> DeviceRow \cup {None}]
    BY <1>7 DEF FamiliesInv, TablesOK
  <1>9. enrolled' = [enrolled EXCEPT ![k] = @ + 1]
    BY <1>5 DEF createDevice
  <1>10. enrolled' \in [Code -> Nat] /\ \A i \in Code : enrolled'[i] > 0 => codes'[i] # None
    BY <1>0, <1>4, <1>5, <1>9, FamiliesAssumption DEF FamiliesInv, TablesOK
  <1>11. QED
    BY <1>0, <1>2, <1>8, <1>10 DEF Moved, FamiliesInv, TablesOK

LEMMA DropUserKeeps ==
    ASSUME FamiliesInv, NEW h \in Handler, dropUser(h)
    PROVE  FamiliesInv'
  <1>0. /\ UNCHANGED <<families, members, children, versions, codes, devices, history>>
        /\ \A k \in Code : codes[k] # None => codes'[k] # None
    BY DEF dropUser
  <1>1. PICK step \in {"dropUser"} : Write(h, step, call[h])
    BY DEF dropUser, Write, At, GoOn, Run
  <1>2. Moved
    BY <1>0, <1>1, PlainWrite
  <1>3. users' \subseteq User
    BY DEF dropUser, FamiliesInv, TablesOK
  <1>4. QED
    BY <1>0, <1>2, <1>3 DEF Moved, FamiliesInv, TablesOK, history

LEMMA ExpireKeeps ==
    ASSUME FamiliesInv, NEW k \in Code, Expire(k)
    PROVE  FamiliesInv'
  <1>1. /\ UNCHANGED <<users, families, members, children, versions, devices, enrolled>>
        /\ UNCHANGED control
        /\ codes' = Dead(codes, {k}) /\ codes[k] # None
    BY DEF Expire, Live, history
  <1>2. /\ codes' \in [Code -> CodeRow \cup {None}]
        /\ \A i \in Code : codes[i] # None => codes'[i] # None
    BY <1>1, DeadCodes DEF FamiliesInv
  <1>3. Moved
    BY <1>1, <1>2, Unmoved DEF Moved
  <1>4. QED
    BY <1>1, <1>2, <1>3 DEF Moved, FamiliesInv, TablesOK

LEMMA FailKeeps ==
    ASSUME FamiliesInv, NEW h \in Handler, Fail(h)
    PROVE  FamiliesInv'
  <1>1. UNCHANGED <<tables, history>> /\ Break(h)
    BY DEF Fail
  <1>2. Loop' /\ Ran(h, <<>>, NoCall)
    BY <1>1, BreakRan DEF FamiliesInv, Loop
  <1>3. \A g \in Handler : Local(g)' /\ CodeKnown(g)'
    BY <1>1, <1>2 DEF Ran, FamiliesInv, Local, CodeKnown, tables
  <1>4. TablesOK'
    BY <1>1, TablesKept DEF FamiliesInv, tables, history
  <1>5. QED
    BY <1>2, <1>3, <1>4 DEF FamiliesInv

-----------------------------------------------------------------------------
(* Requests. *)

LEMMA StartKeeps ==
    ASSUME FamiliesInv, NEW h \in Handler, NEW program \in Seq(Step), Facts(program),
           NEW c \in CallRecord, Needs(program, c), HasCode(program) => codes[c.code] # None,
           Start(h, program, c), UNCHANGED <<tables, history>>
    PROVE  FamiliesInv'
  <1>1. codes' = codes
    BY DEF tables
  <1>2. turn \in {None, h} /\ Run(h, program, c)
    BY DEF Start
  <1>3. Moved
    BY <1>1, <1>2, RunMoves DEF Moved
  <1>4. TablesOK'
    BY TablesKept DEF FamiliesInv, tables, history
  <1>5. QED
    BY <1>3, <1>4 DEF Moved, FamiliesInv

\* An accepted request starts with the variables c.
LEMMA AcceptKeeps ==
    ASSUME FamiliesInv, NEW h \in Handler, NEW op \in Request, NEW c, Accept(h, op, c),
           [c EXCEPT !.op = op] \in CallRecord, Needs(Program[op], [c EXCEPT !.op = op]),
           HasCode(Program[op]) => codes[[c EXCEPT !.op = op].code] # None
    PROVE  FamiliesInv'
  <1>1. PICK program : program = Program[op]
    OBVIOUS
  <1>2. PICK c2 : c2 = [c EXCEPT !.op = op]
    OBVIOUS
  <1>3. program \in Seq(Step) /\ Facts(program)
    BY <1>1, ProgramFacts DEF Program, Request
  <1>4. Start(h, program, c2) /\ UNCHANGED <<tables, history>>
    BY <1>1, <1>2 DEF Accept
  <1>5. QED
    BY <1>1, <1>2, <1>3, <1>4, StartKeeps

LEMMA ParentKeeps ==
    ASSUME FamiliesInv, NEW h \in Handler, ParentAsks(h)
    PROVE  FamiliesInv'
  <1>1. PICK u \in User :
            \/ \E op \in {"createFamily", "deleteAccount"} : Accept(h, op, [Blank EXCEPT !.user = u])
            \/ \E f \in families : AboutFamily(h, [Blank EXCEPT !.user = u, !.family = f])
    BY DEF ParentAsks, FamiliesInv, TablesOK
  <1>2. ASSUME NEW op \in {"createFamily", "deleteAccount"}, Accept(h, op, [Blank EXCEPT !.user = u])
        PROVE  FamiliesInv'
    <2>1. PICK c : c = [Blank EXCEPT !.user = u]
      OBVIOUS
    <2>2. PICK c2 : c2 = [c EXCEPT !.op = op]
      OBVIOUS
    <2>3. c2 \in CallRecord /\ c2.user = u
      BY <2>1, <2>2 DEF Blank, CallRecord, Request
    <2>4. Needs(Program[op], c2) /\ ~HasCode(Program[op])
      <3>1. CASE op = "createFamily"
        BY <2>3, <3>1, Absent1 DEF Program, Needs, HasCode
      <3>2. CASE op = "deleteAccount"
        BY <2>3, <3>2, Absent3 DEF Program, Needs, HasCode
      <3>3. QED
        BY <3>1, <3>2
    <2>5. op \in Request /\ Accept(h, op, c)
      BY <1>2, <2>1 DEF Request
    <2>6. QED
      BY <2>2, <2>3, <2>4, <2>5, AcceptKeeps
  <1>3. ASSUME NEW f \in families, AboutFamily(h, [Blank EXCEPT !.user = u, !.family = f])
        PROVE  FamiliesInv'
    <2>1. PICK c : c = [Blank EXCEPT !.user = u, !.family = f]
      OBVIOUS
    <2>2. f \in Family
      BY DEF FamiliesInv, TablesOK
    <2>3. CASE \E p \in User, r \in Role, S \in SUBSET Child :
                    Accept(h, "addParent", [c EXCEPT !.person = p, !.role = r, !.assigned = S])
      <3>1. PICK p \in User, r \in Role, S \in SUBSET Child :
                    Accept(h, "addParent", [c EXCEPT !.person = p, !.role = r, !.assigned = S])
        BY <2>3
      <3>2. PICK c1 : c1 = [c EXCEPT !.person = p, !.role = r, !.assigned = S]
        OBVIOUS
      <3>3. PICK op \in Request : op = "addParent"
        BY DEF Request
      <3>4. PICK c2 : c2 = [c1 EXCEPT !.op = op]
        OBVIOUS
      <3>5. c2 \in CallRecord /\ c2.family = f /\ c2.person = p /\ c2.role = r
        BY <2>1, <2>2, <3>2, <3>4 DEF Blank, CallRecord
      <3>6. Needs(Program[op], c2) /\ ~HasCode(Program[op])
        BY <2>2, <3>3, <3>5, Absent1 DEF Program, Needs, HasCode
      <3>7. Accept(h, op, c1)
        BY <3>1, <3>2, <3>3
      <3>8. QED
        BY <3>4, <3>5, <3>6, <3>7, AcceptKeeps
    <2>4. CASE Accept(h, "addChild", c)
      <3>1. PICK op \in Request : op = "addChild"
        BY DEF Request
      <3>2. PICK c2 : c2 = [c EXCEPT !.op = op]
        OBVIOUS
      <3>3. c2 \in CallRecord /\ c2.family = f
        BY <2>1, <2>2, <3>2 DEF Blank, CallRecord
      <3>4. Needs(Program[op], c2) /\ ~HasCode(Program[op])
        BY <2>2, <3>1, <3>3, Absent1 DEF Program, Needs, HasCode
      <3>5. Accept(h, op, c)
        BY <2>4, <3>1
      <3>6. QED
        BY <3>2, <3>3, <3>4, <3>5, AcceptKeeps
    <2>5. CASE \E op \in {"setTimezone", "removeChild", "enroll"}, k \in Child :
                    Accept(h, op, [c EXCEPT !.child = k])
      <3>1. PICK op \in {"setTimezone", "removeChild", "enroll"}, k \in Child :
                    Accept(h, op, [c EXCEPT !.child = k])
        BY <2>5
      <3>2. PICK c1 : c1 = [c EXCEPT !.child = k]
        OBVIOUS
      <3>3. PICK c2 : c2 = [c1 EXCEPT !.op = op]
        OBVIOUS
      <3>4. c2 \in CallRecord /\ c2.family = f /\ c2.child = k
        BY <2>1, <2>2, <3>2, <3>3 DEF Blank, CallRecord, Request
      <3>5. Needs(Program[op], c2) /\ ~HasCode(Program[op])
        <4>1. CASE op = "setTimezone"
          BY <2>2, <3>4, <4>1, Absent2 DEF Program, Needs, HasCode
        <4>2. CASE op = "removeChild"
          BY <2>2, <3>4, <4>2, Absent2 DEF Program, Needs, HasCode
        <4>3. CASE op = "enroll"
          BY <2>2, <3>4, <4>3, Absent2 DEF Program, Needs, HasCode
        <4>4. QED
          BY <4>1, <4>2, <4>3
      <3>6. op \in Request /\ Accept(h, op, c1)
        BY <3>1, <3>2 DEF Request
      <3>7. QED
        BY <3>3, <3>4, <3>5, <3>6, AcceptKeeps
    <2>6. CASE \E d \in Device : Accept(h, "removeDevice", [c EXCEPT !.device = d])
      <3>1. PICK d \in Device : Accept(h, "removeDevice", [c EXCEPT !.device = d])
        BY <2>6
      <3>2. PICK c1 : c1 = [c EXCEPT !.device = d]
        OBVIOUS
      <3>3. PICK op \in Request : op = "removeDevice"
        BY DEF Request
      <3>4. PICK c2 : c2 = [c1 EXCEPT !.op = op]
        OBVIOUS
      <3>5. c2 \in CallRecord /\ c2.family = f /\ c2.device = d
        BY <2>1, <2>2, <3>2, <3>4 DEF Blank, CallRecord
      <3>6. Needs(Program[op], c2) /\ ~HasCode(Program[op])
        BY <2>2, <3>3, <3>5, Absent3 DEF Program, Needs, HasCode
      <3>7. Accept(h, op, c1)
        BY <3>1, <3>2, <3>3
      <3>8. QED
        BY <3>4, <3>5, <3>6, <3>7, AcceptKeeps
    <2>7. QED
      BY <1>3, <2>1, <2>3, <2>4, <2>5, <2>6 DEF AboutFamily
  <1>4. QED
    BY <1>1, <1>2, <1>3

LEMMA DeviceKeeps ==
    ASSUME FamiliesInv, NEW h \in Handler, DeviceAsks(h)
    PROVE  FamiliesInv'
  <1>1. ASSUME NEW k \in Code, codes[k] # None, Accept(h, "redeem", [Blank EXCEPT !.code = k])
        PROVE  FamiliesInv'
    <2>1. PICK c : c = [Blank EXCEPT !.code = k]
      OBVIOUS
    <2>2. PICK op \in Request : op = "redeem"
      BY DEF Request
    <2>3. PICK c2 : c2 = [c EXCEPT !.op = op]
      OBVIOUS
    <2>4. c2 \in CallRecord /\ c2.code = k
      BY <2>1, <2>3 DEF Blank, CallRecord
    <2>5. Needs(Program[op], c2)
      BY <2>2, <2>4, Absent3 DEF Program, Needs, HasCode
    <2>6. Accept(h, op, c)
      BY <1>1, <2>1, <2>2
    <2>7. QED
      BY <1>1, <2>3, <2>4, <2>5, <2>6, AcceptKeeps
  <1>2. ASSUME NEW d \in Device, Accept(h, "heartbeat", [Blank EXCEPT !.device = d])
        PROVE  FamiliesInv'
    <2>1. PICK c : c = [Blank EXCEPT !.device = d]
      OBVIOUS
    <2>2. PICK op \in Request : op = "heartbeat"
      BY DEF Request
    <2>3. PICK c2 : c2 = [c EXCEPT !.op = op]
      OBVIOUS
    <2>4. c2 \in CallRecord /\ c2.device = d
      BY <2>1, <2>3 DEF Blank, CallRecord
    <2>5. Needs(Program[op], c2) /\ ~HasCode(Program[op])
      BY <2>2, <2>4, Absent3 DEF Program, Needs, HasCode
    <2>6. Accept(h, op, c)
      BY <1>2, <2>1, <2>2
    <2>7. QED
      BY <2>3, <2>4, <2>5, <2>6, AcceptKeeps
  <1>3. QED
    BY <1>1, <1>2 DEF DeviceAsks

-----------------------------------------------------------------------------
LEMMA FamiliesInit == Init => FamiliesInv
  <1> SUFFICES ASSUME Init PROVE FamiliesInv
    OBVIOUS
  <1>1. Loop
    BY LoopInit DEF Init, Loop
  <1>2. \A h \in Handler : pc[h] = <<>>
    BY DEF Init, HandlersInit
  <1>3. mix \in Mixes
    BY DEF Init, HandlersInit
  <1>4. TablesOK
    BY <1>3, FamiliesAssumption DEF Init, TablesOK, MemberRow
  <1>5. QED
    BY <1>1, <1>2, <1>4 DEF FamiliesInv, Local, CodeKnown

LEMMA FamiliesStep == FamiliesInv /\ [Next]_vars => FamiliesInv'
  <1> SUFFICES ASSUME FamiliesInv, [Next]_vars PROVE FamiliesInv'
    OBVIOUS
  <1>1. CASE \E h \in Handler : HandlerStep(h)
    BY <1>1, ReadFamilyKeeps, ReadChildKeeps, ReadDeviceKeeps, LeaveKeeps, EraseKeeps,
       UpdateFamiliesKeeps, UpdateMembersKeeps, UnassignKeeps, UpdateChildrenKeeps,
       UpdateVersionsKeeps, UpdateCodesKeeps, UpdateDevicesKeeps, CreateDeviceKeeps,
       DropUserKeeps, FailKeeps DEF HandlerStep
  <1>2. CASE \E h \in Handler : ParentAsks(h) \/ DeviceAsks(h)
    BY <1>2, ParentKeeps, DeviceKeeps
  <1>3. CASE \E k \in Code : Expire(k)
    BY <1>3, ExpireKeeps
  <1>4. CASE UNCHANGED vars
    <2>1. UNCHANGED <<tables, enrolled>> /\ UNCHANGED control /\ UNCHANGED codes
      BY <1>4 DEF vars, tables, history
    <2>2. TablesOK' /\ Moved
      BY <2>1, TablesKept, Unmoved DEF FamiliesInv, Moved
    <2>3. QED
      BY <2>2 DEF FamiliesInv, Moved
  <1>5. QED
    BY <1>1, <1>2, <1>3, <1>4 DEF Next

THEOREM FamiliesInvariant == Spec => []FamiliesInv
  <1>1. QED
    BY FamiliesInit, FamiliesStep, PTL DEF Spec

\* Families, memberships, children, codes and devices keep their types on both
\* builds, whatever calls fail, and a turn of the loop belongs to a handler that
\* has steps to take: no step uses a name that its request did not give or an
\* earlier step did not find.
THEOREM TypeCorrect == Spec => []TypeOK
  <1>1. FamiliesInv => TypeOK
    BY DEF FamiliesInv, TablesOK, TypeOK, Loop, LoopOK
  <1>2. QED
    BY <1>1, FamiliesInvariant, PTL

-----------------------------------------------------------------------------
(* The invariant of a synchronous store. *)

\* Child k, which a cascade of family f is to erase, is f's or gone already.
Mine(k, f) == k \in Child => IF children[k] = None THEN k \in gone ELSE children[k].family = f

\* What the step after a check may rely on: nobody ran in between.
SafeHead(s, c) ==
    /\ Head(s) = "writeDevice"  => devices[c.device] # None
    /\ Head(s) = "insertChild"  => children[c.child] # None
    /\ Head(s) = "createDevice" => enrolled[c.code] <= failures

ErasesItsOwn(s, c) ==
    /\ ~Lacks(s, "dropChild") /\ Lacks(s, "findChild") => Mine(c.child, c.family)
    /\ ~Lacks(s, "eraseChildren") /\ Lacks(s, "listChildren") =>
            \A k \in c.rest : Mine(k, c.family)

Erased == /\ \A d \in Device \cap gone : devices[d] = None
          /\ \A c \in Child \cap gone : children[c] = None

Marking(k) == \E h \in Handler : pc[h] # <<>> /\ Head(pc[h]) = "markCode" /\ call[h].code = k

CodesOK == \A k \in Code : /\ enrolled[k] <= 1 + failures
                           /\ Live(codes, k) /\ ~Marking(k) => enrolled[k] <= failures

SyncInv ==
    /\ failures \in Nat
    /\ sync => /\ \A h \in Handler : pc[h] # <<>> => SafeHead(pc[h], call[h])
                                                     /\ ErasesItsOwn(pc[h], call[h])
               /\ Erased
               /\ CodesOK

\* The invariant that concerns one handler.
Own(h) == pc[h] # <<>> => SafeHead(pc[h], call[h]) /\ ErasesItsOwn(pc[h], call[h])

\* What every step leaves alone: a child to be erased stays the family's or gone.
Steady == \A k \in Child \cup {None} : \A f \in Family \cup {None} : Mine(k, f) => Mine(k, f)'

LEMMA OthersWait ==
    ASSUME FamiliesInv, sync, NEW h \in Handler, turn \in {None, h},
           NEW g \in Handler, g # h, pc[g] # <<>>
    PROVE  Head(pc[g]) \in Waits
  BY HandlersAssumption DEF FamiliesInv, Loop, LoopOK

\* Whoever waits relies on nothing.
LEMMA OtherKeeps ==
    ASSUME FamiliesInv, sync, NEW h \in Handler, turn \in {None, h}, NEW g \in Handler, g # h,
           Own(g), pc'[g] = pc[g], call'[g] = call[g], Steady
    PROVE  Own(g)'
  <1>1. SUFFICES ASSUME pc[g] # <<>>
                 PROVE  SafeHead(pc[g], call[g])' /\ ErasesItsOwn(pc[g], call[g])'
    BY DEF Own
  <1>2. PICK s, c : s = pc[g] /\ c = call[g] /\ s = pc'[g] /\ c = call'[g]
    OBVIOUS
  <1>3. Head(s) \in Waits
    BY <1>1, <1>2, OthersWait
  <1>4. ErasesItsOwn(s, c) /\ c \in CallRecord
    BY <1>1, <1>2, HasCall DEF Own
  <1>5. SafeHead(s, c)'
    BY <1>3 DEF SafeHead, Waits
  <1>6. ErasesItsOwn(s, c)'
    BY <1>4 DEF ErasesItsOwn, Steady, CallRecord
  <1>7. QED
    BY <1>2, <1>5, <1>6 DEF SafeHead, ErasesItsOwn, Mine

\* A handler that runs: what is left of its program, and the others.
LEMMA RunOwns ==
    ASSUME FamiliesInv, SyncInv, sync, NEW h \in Handler, turn \in {None, h}, NEW rest, NEW c,
           Run(h, rest, c), Steady,
           rest # <<>> => SafeHead(rest, c)' /\ ErasesItsOwn(rest, c)'
    PROVE  \A g \in Handler : Own(g)'
  <1>1. Ran(h, rest, c)
    BY RunRan DEF FamiliesInv, Loop
  <1>2. ASSUME NEW g \in Handler, g # h PROVE Own(g)'
    <2>1. Own(g) /\ pc'[g] = pc[g] /\ call'[g] = call[g]
      BY <1>1, <1>2 DEF Ran, SyncInv, Own
    <2>2. QED
      BY <1>2, <2>1, OtherKeeps
  <1>3. Own(h)'
    <2>1. SUFFICES ASSUME rest # <<>>
                   PROVE  SafeHead(pc[h], call[h])' /\ ErasesItsOwn(pc[h], call[h])'
      BY <1>1 DEF Own, Ran
    <2>2. pc'[h] = rest /\ call'[h] = c
      BY <1>1, <2>1 DEF Ran
    <2>3. QED
      BY <2>1, <2>2 DEF SafeHead, ErasesItsOwn, Mine
  <1>4. QED
    BY <1>2, <1>3

\* What a step that goes on changes of the variables the cascades go by, and
\* what it has found out.
Finds(s, c, c2) ==
    /\ Head(s) \notin {"createFamily", "createChild", "findDevice"} =>
            c2.family = c.family /\ c2.child = c.child
    /\ Head(s) # "listChildren" => c2.rest \subseteq c.rest
    /\ Head(s) = "findDevice" => c2.family = c.family
    /\ Head(s) = "createChild" => c2.family = c.family

Found(s, c2) ==
    /\ Head(s) = "readDevice"   => devices[c2.device] # None
    /\ Head(s) = "findChild"    => children[c2.child] # None /\ Mine(c2.child, c2.family)
    /\ Head(s) = "readCode"     => enrolled[c2.code] <= failures
    /\ Head(s) = "listChildren" => \A k \in c2.rest : Mine(k, c2.family)

LEMMA GoOnSafe ==
    ASSUME NEW s \in Seq(Step), s # <<>>, Facts(s), NEW c2, Found(s, c2)', Tail(s) # <<>>
    PROVE  SafeHead(Tail(s), c2)'
  <1> DEFINE t == Tail(s)
  <1>1. /\ Head(t) = "writeDevice" => Head(s) = "readDevice"
        /\ Head(t) = "insertChild" => Head(s) = "findChild"
        /\ Head(t) = "createDevice" => Head(s) = "readCode"
    BY PrecededTail DEF Facts
  <1> HIDE DEF t
  <1>2. SafeHead(t, c2)'
    BY <1>1 DEF SafeHead, Found
  <1>3. QED
    BY <1>2 DEF t

LEMMA GoOnErases ==
    ASSUME NEW s \in Seq(Step), s # <<>>, Facts(s), NEW c \in CallRecord, NEW c2,
           Finds(s, c, c2), Found(s, c2)', ErasesItsOwn(s, c), Steady
    PROVE  ErasesItsOwn(Tail(s), c2)'
  <1> DEFINE t == Tail(s)
  <1>1. \A x : Lacks(s, x) <=> Head(s) # x /\ Lacks(t, x)
    BY LacksTail
  <1>2. /\ Head(s) \in {"createFamily", "createChild", "findDevice"} => Lacks(t, "dropChild")
        /\ Head(s) = "createFamily" => Lacks(t, "eraseChildren")
    BY NoneAfterTail DEF Facts
  <1> HIDE DEF t
  <1>3. ~Lacks(t, "dropChild") /\ Lacks(t, "findChild") => Mine(c2.child, c2.family)'
    <2>1. CASE Head(s) = "findChild"
      BY <2>1 DEF Found
    <2>2. CASE Head(s) # "findChild" /\ ~Lacks(t, "dropChild") /\ Lacks(t, "findChild")
      <3>1. ~Lacks(s, "dropChild") /\ Lacks(s, "findChild")
        BY <1>1, <2>2
      <3>2. Mine(c.child, c.family) /\ c.child \in Child \cup {None} /\ c.family \in Family \cup {None}
        BY <3>1 DEF ErasesItsOwn, CallRecord
      <3>3. c2.child = c.child /\ c2.family = c.family
        BY <1>2, <2>2 DEF Finds
      <3>4. Mine(c.child, c.family)'
        BY <3>2 DEF Steady, Mine
      <3>5. QED
        BY <3>3, <3>4 DEF Mine
    <2>3. QED
      BY <2>1, <2>2
  <1>4. ~Lacks(t, "eraseChildren") /\ Lacks(t, "listChildren") => \A k \in c2.rest : Mine(k, c2.family)'
    <2>1. CASE Head(s) = "listChildren"
      BY <2>1 DEF Found
    <2>2. CASE Head(s) # "listChildren" /\ ~Lacks(t, "eraseChildren") /\ Lacks(t, "listChildren")
      <3>1. ~Lacks(s, "eraseChildren") /\ Lacks(s, "listChildren")
        BY <1>1, <2>2
      <3>2. (\A k \in c.rest : Mine(k, c.family)) /\ c.rest \subseteq Child /\ c.family \in Family \cup {None}
        BY <3>1 DEF ErasesItsOwn, CallRecord
      <3>3. c2.rest \subseteq c.rest /\ c2.family = c.family
        BY <1>2, <2>2 DEF Finds
      <3>4. \A k \in c.rest : Mine(k, c.family)'
        BY <3>2 DEF Steady, Mine
      <3>5. QED
        BY <3>3, <3>4 DEF Mine
    <2>3. QED
      BY <2>1, <2>2
  <1>5. ErasesItsOwn(t, c2)'
    BY <1>3, <1>4 DEF ErasesItsOwn
  <1>6. QED
    BY <1>5 DEF t

LEMMA CheckOwns ==
    ASSUME FamiliesInv, SyncInv, sync, NEW h \in Handler, pc[h] # <<>>, turn \in {None, h},
           NEW s, s = pc[h], NEW ok, NEW c, Check(h, ok, c), Steady,
           ok => Finds(s, call[h], c) /\ Found(s, c)'
    PROVE  \A g \in Handler : Own(g)'
  <1>1. PICK c0 : c0 = call[h]
    OBVIOUS
  <1>2. /\ s \in Seq(Step) /\ s # <<>> /\ Facts(s) /\ c0 \in CallRecord /\ ErasesItsOwn(s, c0)
    BY <1>1, HasCall DEF SyncInv, Own
  <1>3. CASE ok
    <2>1. Run(h, Tail(s), c)
      BY <1>3 DEF Check, GoOn
    <2>2. Finds(s, c0, c) /\ Found(s, c)'
      BY <1>1, <1>3
    <2>3. Tail(s) # <<>> => SafeHead(Tail(s), c)' /\ ErasesItsOwn(Tail(s), c)'
      BY <1>2, <2>2, GoOnSafe, GoOnErases
    <2>4. PICK rest : rest = Tail(s)
      OBVIOUS
    <2>5. Run(h, rest, c) /\ (rest # <<>> => SafeHead(rest, c)' /\ ErasesItsOwn(rest, c)')
      BY <2>1, <2>3, <2>4 DEF Run
    <2>6. QED
      BY <2>5, RunOwns
  <1>4. CASE ~ok
    <2>1. PICK rest, n : rest = <<>> /\ n = NoCall
      OBVIOUS
    <2>2. Run(h, rest, n)
      BY <1>4, <2>1 DEF Check, Run
    <2>3. QED
      BY <2>1, <2>2, RunOwns
  <1>5. QED
    BY <1>3, <1>4

\* A step that finds out nothing the next one relies on.
LEMMA PlainOwns ==
    ASSUME FamiliesInv, SyncInv, sync, NEW h \in Handler, NEW step, At(h, step),
           step \notin {"createFamily", "createChild", "findDevice", "readDevice", "findChild",
                        "readCode", "listChildren"},
           NEW ok, NEW c, Check(h, ok, c), Steady,
           c.family = call[h].family, c.child = call[h].child, c.rest \subseteq call[h].rest
    PROVE  \A g \in Handler : Own(g)'
  <1>1. PICK s : s = pc[h]
    OBVIOUS
  <1>2. pc[h] # <<>> /\ turn \in {None, h} /\ Head(s) = step
    BY <1>1 DEF At
  <1>3. Finds(s, call[h], c) /\ Found(s, c)'
    BY <1>2 DEF Finds, Found
  <1>4. QED
    BY <1>1, <1>2, <1>3, CheckOwns

\* What a step shows of the handlers and of what was erased.
Kept == (\A g \in Handler : Own(g)') /\ Erased'

LEMMA StoreKept ==
    ASSUME SyncInv, sync, UNCHANGED <<children, devices, gone>>
    PROVE  Steady /\ Erased'
  BY DEF SyncInv, Erased, Steady, Mine

LEMMA StillStored ==
    ASSUME UNCHANGED <<tables, history>>
    PROVE  UNCHANGED <<children, devices, gone, codes, enrolled>>
  BY DEF tables, history

LEMMA ReadFamilyOwns ==
    ASSUME FamiliesInv, SyncInv, sync, NEW h \in Handler, ReadFamily(h)
    PROVE  Kept
  <1>1. PICK step \in {"wait", "isUser", "mayManageParents", "mayManagePolicy", "findPerson",
                       "notMember", "findAssigned"}, ok \in BOOLEAN :
            At(h, step) /\ Check(h, ok, call[h]) /\ UNCHANGED <<tables, history>>
    BY ReadFamilyPlain
  <1>2. Steady /\ Erased'
    BY <1>1, StillStored, StoreKept
  <1>3. PICK c : c = call[h]
    OBVIOUS
  <1>4. Check(h, ok, c)
    BY <1>1, <1>3 DEF Check, GoOn, Run
  <1>5. QED
    BY <1>1, <1>2, <1>3, <1>4, PlainOwns DEF Kept

LEMMA ReadChildOwns ==
    ASSUME FamiliesInv, SyncInv, sync, NEW h \in Handler, ReadChild(h)
    PROVE  Kept
  <1>0. /\ UNCHANGED <<children, devices, gone>> /\ Steady /\ Erased'
        /\ pc[h] # <<>> /\ turn \in {None, h} /\ call[h] \in CallRecord
    BY StillStored, StoreKept, HasCall DEF ReadChild, Read, At
  <1>1. CASE Read(h, "findChild", call[h].child \in ChildrenOf(call[h].family),
                  [call[h] EXCEPT !.row = children[call[h].child]])
    <2>1. PICK c : c = [call[h] EXCEPT !.row = children[call[h].child]]
      OBVIOUS
    <2>2. PICK ok, s : ok = (call[h].child \in ChildrenOf(call[h].family)) /\ s = pc[h]
      OBVIOUS
    <2>3. Check(h, ok, c) /\ Head(s) = "findChild"
      BY <1>1, <2>1, <2>2 DEF Read, At, Check, GoOn, Run
    <2>4. c.family = call[h].family /\ c.child = call[h].child /\ c.rest = call[h].rest
      BY <1>0, <2>1 DEF CallRecord
    <2>5. ok => children'[c.child] # None /\ Mine(c.child, c.family)'
      BY <1>0, <2>2, <2>4 DEF ChildrenOf, Mine
    <2>6. ok => Finds(s, call[h], c) /\ Found(s, c)'
      BY <2>3, <2>4, <2>5 DEF Finds, Found
    <2>7. QED
      BY <1>0, <2>2, <2>3, <2>6, CheckOwns DEF Kept
  <1>2. ASSUME NEW step \in {"listDevices", "listAssigned"}, NEW S, At(h, step),
               Check(h, TRUE, [call[h] EXCEPT !.listed = S])
        PROVE  Kept
    <2>1. PICK c, ok : c = [call[h] EXCEPT !.listed = S] /\ ok = TRUE
      OBVIOUS
    <2>2. Check(h, ok, c)
      BY <1>2, <2>1 DEF Check, GoOn, Run
    <2>3. c.family = call[h].family /\ c.child = call[h].child /\ c.rest = call[h].rest
      BY <1>0, <2>1 DEF CallRecord
    <2>4. QED
      BY <1>0, <1>2, <2>2, <2>3, PlainOwns DEF Kept
  <1>3. CASE Read(h, "listDevices", TRUE, [call[h] EXCEPT !.listed =
                    DevicesOf(call[h].child) \cap DevicesIn(call[h].family)])
    <2>1. PICK step \in {"listDevices"}, S \in SUBSET Device :
               S = DevicesOf(call[h].child) \cap DevicesIn(call[h].family)
      BY DEF DevicesOf
    <2>2. At(h, step) /\ Check(h, TRUE, [call[h] EXCEPT !.listed = S])
      BY <1>3, <2>1 DEF Read, Check, GoOn, Run, At
    <2>3. QED
      BY <1>2, <2>2
  <1>4. CASE Read(h, "listAssigned", TRUE, [call[h] EXCEPT !.listed =
                    {m \in MembersOf(call[h].family) : call[h].child \in members[m].assigned}])
    <2>1. PICK step \in {"listAssigned"}, S \in SUBSET Member :
               S = {m \in MembersOf(call[h].family) : call[h].child \in members[m].assigned}
      BY DEF MembersOf
    <2>2. At(h, step) /\ Check(h, TRUE, [call[h] EXCEPT !.listed = S])
      BY <1>4, <2>1 DEF Read, Check, GoOn, Run, At
    <2>3. QED
      BY <1>2, <2>2
  <1>5. CASE Read(h, "listChildren", TRUE, [call[h] EXCEPT !.rest = ChildrenOf(call[h].family)])
    <2>1. PICK c : c = [call[h] EXCEPT !.rest = ChildrenOf(call[h].family)]
      OBVIOUS
    <2>2. PICK ok, s : ok = TRUE /\ s = pc[h]
      OBVIOUS
    <2>3. Check(h, ok, c) /\ Head(s) = "listChildren"
      BY <1>5, <2>1, <2>2 DEF Read, At, Check, GoOn, Run
    <2>4. c.family = call[h].family /\ c.child = call[h].child /\ c.rest = ChildrenOf(call[h].family)
      BY <1>0, <2>1 DEF CallRecord
    <2>5. \A k \in c.rest : Mine(k, c.family)'
      BY <1>0, <2>4 DEF ChildrenOf, Mine
    <2>6. Finds(s, call[h], c) /\ Found(s, c)'
      BY <2>3, <2>4, <2>5 DEF Finds, Found
    <2>7. QED
      BY <1>0, <2>2, <2>3, <2>6, CheckOwns DEF Kept
  <1>6. QED
    BY <1>1, <1>3, <1>4, <1>5 DEF ReadChild

\* Nobody has marked a live code that somebody else is reading: whatever it has
\* enrolled, the mark failed after it.
LEMMA ReadCodeUnused ==
    ASSUME FamiliesInv, SyncInv, sync, NEW h \in Handler, At(h, "readCode"),
           codes[call[h].code].live
    PROVE  enrolled[call[h].code] <= failures
  <1>1. pc[h] # <<>> /\ turn \in {None, h} /\ Head(pc[h]) = "readCode"
    BY DEF At
  <1>2. HasCode(pc[h])
    <2>1. PICK s : s = pc[h]
      OBVIOUS
    <2>2. s \in Seq(Step) /\ s # <<>> /\ Head(s) = "readCode" /\ Facts(s)
      BY <1>1, <2>1, HasCall
    <2>3. Tail(s) # <<>> /\ Head(Tail(s)) = "createDevice" /\ Tail(s) \in Seq(Step)
      BY <2>2, FollowedTail, TailSteps DEF Facts
    <2>4. ~Lacks(Tail(s), "createDevice")
      BY <2>3, LacksTail
    <2>5. QED
      BY <2>1, <2>2, <2>4, LacksTail DEF HasCode
  <1>3. call[h].code \in Code /\ codes[call[h].code] # None
    BY <1>1, <1>2, HasCall DEF FamiliesInv, CodeKnown, Needs
  <1>4. ~Marking(call[h].code)
    BY <1>1, OthersWait DEF Marking, Waits
  <1>5. QED
    BY <1>3, <1>4 DEF SyncInv, CodesOK, Live

LEMMA ReadDeviceOwns ==
    ASSUME FamiliesInv, SyncInv, sync, NEW h \in Handler, ReadDevice(h)
    PROVE  Kept
  <1>0. /\ UNCHANGED <<children, devices, gone, codes, enrolled>> /\ Steady /\ Erased'
        /\ pc[h] # <<>> /\ turn \in {None, h} /\ call[h] \in CallRecord
    BY StillStored, StoreKept, HasCall DEF ReadDevice, Read, At
  <1>1. CASE Read(h, "findDevice", devices[call[h].device] # None
                                   /\ devices[call[h].device].family = call[h].family,
                  [call[h] EXCEPT !.child = devices[call[h].device].child])
    <2>1. PICK c : c = [call[h] EXCEPT !.child = devices[call[h].device].child]
      OBVIOUS
    <2>2. PICK ok, s : s = pc[h] /\ ok = (devices[call[h].device] # None
                                          /\ devices[call[h].device].family = call[h].family)
      OBVIOUS
    <2>3. Check(h, ok, c) /\ Head(s) = "findDevice"
      BY <1>1, <2>1, <2>2 DEF Read, At, Check, GoOn, Run
    <2>4. c.family = call[h].family /\ c.rest = call[h].rest
      BY <1>0, <2>1 DEF CallRecord
    <2>5. Finds(s, call[h], c) /\ Found(s, c)'
      BY <2>3, <2>4 DEF Finds, Found
    <2>6. QED
      BY <1>0, <2>2, <2>3, <2>5, CheckOwns DEF Kept
  <1>2. CASE Read(h, "readDevice", devices[call[h].device] # None,
                  [call[h] EXCEPT !.row = devices[call[h].device]])
    <2>1. PICK c : c = [call[h] EXCEPT !.row = devices[call[h].device]]
      OBVIOUS
    <2>2. PICK ok, s : s = pc[h] /\ ok = (devices[call[h].device] # None)
      OBVIOUS
    <2>3. Check(h, ok, c) /\ Head(s) = "readDevice"
      BY <1>2, <2>1, <2>2 DEF Read, At, Check, GoOn, Run
    <2>4. /\ c.family = call[h].family /\ c.child = call[h].child /\ c.rest = call[h].rest
          /\ c.device = call[h].device
      BY <1>0, <2>1 DEF CallRecord
    <2>5. ok => Finds(s, call[h], c) /\ Found(s, c)'
      BY <1>0, <2>2, <2>3, <2>4 DEF Finds, Found
    <2>6. QED
      BY <1>0, <2>2, <2>3, <2>5, CheckOwns DEF Kept
  <1>3. CASE Read(h, "readCode", codes[call[h].code].live, call[h])
    <2>1. PICK c : c = call[h]
      OBVIOUS
    <2>2. PICK ok, s : s = pc[h] /\ ok = codes[call[h].code].live
      OBVIOUS
    <2>3. Check(h, ok, c) /\ Head(s) = "readCode" /\ failures' = failures /\ At(h, "readCode")
      BY <1>3, <2>1, <2>2 DEF Read, At, Check, GoOn, Run
    <2>4. ok => enrolled'[c.code] <= failures'
      BY <1>0, <2>1, <2>2, <2>3, ReadCodeUnused
    <2>5. ok => Finds(s, call[h], c) /\ Found(s, c)'
      BY <2>1, <2>3, <2>4 DEF Finds, Found
    <2>6. QED
      BY <1>0, <2>2, <2>3, <2>5, CheckOwns DEF Kept
  <1>4. QED
    BY <1>1, <1>2, <1>3 DEF ReadDevice

LEMMA LeaveOwns ==
    ASSUME FamiliesInv, SyncInv, sync, NEW h \in Handler, leaveFamilies(h)
    PROVE  Kept
  <1>0. /\ UNCHANGED <<children, devices, gone>> /\ Steady /\ Erased'
        /\ pc[h] # <<>> /\ turn \in {None, h} /\ call[h] \in CallRecord
    BY StillStored, StoreKept, HasCall DEF leaveFamilies, At
  <1> DEFINE owned == {members[m].family : m \in {x \in RowsOf(call[h].user) : members[x].role = "OWNER"}}
  <1>1. CASE At(h, "listOwned") /\ GoOn(h, [call[h] EXCEPT !.owned = owned])
    <2>1. PICK step \in {"listOwned"}, ok \in {TRUE} : TRUE
      OBVIOUS
    <2>2. PICK c : c = [call[h] EXCEPT !.owned = owned]
      OBVIOUS
    <2>3. Check(h, ok, c) /\ At(h, step)
      BY <1>1, <2>1, <2>2 DEF Check, GoOn, Run, At
    <2>4. c.family = call[h].family /\ c.child = call[h].child /\ c.rest = call[h].rest
      BY <1>0, <2>2 DEF CallRecord
    <2>5. QED
      BY <1>0, <2>2, <2>3, <2>4, PlainOwns DEF Kept
  <1>2. CASE At(h, "leaveFamilies") /\ GoOn(h, call[h])
    <2>1. PICK step \in {"leaveFamilies"}, ok \in {TRUE} : TRUE
      OBVIOUS
    <2>2. PICK c : c = call[h]
      OBVIOUS
    <2>3. Check(h, ok, c) /\ At(h, step)
      BY <1>2, <2>1, <2>2 DEF Check, GoOn, Run, At
    <2>4. QED
      BY <1>0, <2>2, <2>3, PlainOwns DEF Kept
  <1>3. ASSUME NEW f \in call[h].owned, At(h, "leaveFamilies"),
               Run(h, (IF Owners(f) \ {call[h].user} # {} THEN <<>> ELSE deleteFamilyCascade) \o pc[h],
                   [call[h] EXCEPT !.family = f, !.owned = @ \ {f}])
        PROVE  Kept
    <2>1. PICK q \in {<<>>, deleteFamilyCascade} :
            q = IF Owners(f) \ {call[h].user} # {} THEN <<>> ELSE deleteFamilyCascade
      OBVIOUS
    <2>2. PICK c, s : c = [call[h] EXCEPT !.family = f, !.owned = @ \ {f}] /\ s = pc[h]
      OBVIOUS
    <2>3. PICK rest : rest = q \o s
      OBVIOUS
    <2>4. Run(h, rest, c)
      BY <1>3, <2>1, <2>2, <2>3 DEF Run
    <2>5. s \in Seq(Step) /\ s # <<>> /\ Facts(s) /\ Head(s) = "leaveFamilies" /\ q \in Seq(Step)
      BY <1>0, <1>3, <2>2, HasCall, CascadesFit DEF At
    <2>6. Lacks(s, "dropChild") /\ Lacks(s, "eraseChildren")
      BY <2>5, NoneAfterTail, LacksTail DEF Facts
    <2>7. Lacks(rest, "dropChild")
      BY <2>3, <2>5, <2>6, Absent4, EmptyLacks, ConcatLacks
    <2>8. Lacks(rest, "eraseChildren") \/ ~Lacks(rest, "listChildren")
      BY <2>3, <2>5, <2>6, Absent4, EmptyLacks, ConcatLacks
    <2>9. Head(rest) \in {"leaveFamilies", "listChildren"}
      <3>1. q = <<>> => rest = s
        BY <2>3, <2>5
      <3>2. q # <<>> => Head(rest) = Head(q)
        BY <2>3, <2>5
      <3>3. QED
        BY <2>5, <3>1, <3>2, Absent4
    <2>10. SafeHead(rest, c)' /\ ErasesItsOwn(rest, c)'
      BY <2>7, <2>8, <2>9 DEF SafeHead, ErasesItsOwn
    <2>11. QED
      BY <1>0, <2>4, <2>10, RunOwns DEF Kept
  <1>4. QED
    BY <1>1, <1>2, <1>3 DEF leaveFamilies

LEMMA EraseOwns ==
    ASSUME FamiliesInv, SyncInv, sync, NEW h \in Handler, eraseChildren(h)
    PROVE  Kept
  <1>0. /\ UNCHANGED <<children, devices, gone>> /\ Steady /\ Erased' /\ At(h, "eraseChildren")
        /\ pc[h] # <<>> /\ turn \in {None, h} /\ call[h] \in CallRecord
    BY StillStored, StoreKept, HasCall DEF eraseChildren, At
  <1>1. CASE GoOn(h, call[h])
    <2>1. PICK step \in {"eraseChildren"}, ok \in {TRUE} : TRUE
      OBVIOUS
    <2>2. PICK c : c = call[h]
      OBVIOUS
    <2>3. Check(h, ok, c) /\ At(h, step)
      BY <1>0, <1>1, <2>1, <2>2 DEF Check, GoOn, Run, At
    <2>4. QED
      BY <1>0, <2>2, <2>3, PlainOwns DEF Kept
  <1>2. ASSUME NEW k \in call[h].rest,
               Run(h, deleteChildCascade \o pc[h], [call[h] EXCEPT !.child = k, !.rest = @ \ {k}])
        PROVE  Kept
    <2>1. PICK c, s, c0 : c = [call[h] EXCEPT !.child = k, !.rest = @ \ {k}] /\ s = pc[h] /\ c0 = call[h]
      OBVIOUS
    <2>2. PICK rest : rest = deleteChildCascade \o s
      OBVIOUS
    <2>3. Run(h, rest, c)
      BY <1>2, <2>1, <2>2 DEF Run
    <2>4. /\ s \in Seq(Step) /\ s # <<>> /\ Facts(s) /\ Head(s) = "eraseChildren"
          /\ ErasesItsOwn(s, c0) /\ c0 \in CallRecord
      BY <1>0, <2>1, HasCall DEF At, SyncInv, Own
    <2>5. ~Lacks(s, "eraseChildren") /\ Lacks(s, "listChildren")
      BY <2>4, NoneAfterTail, LacksTail DEF Facts
    <2>6. (\A i \in c0.rest : Mine(i, c0.family)) /\ c0.rest \subseteq Child
          /\ c0.family \in Family \cup {None}
      BY <2>4, <2>5 DEF ErasesItsOwn, CallRecord
    <2>7. \A i \in c0.rest : Mine(i, c0.family)'
      BY <1>0, <2>6 DEF Steady, Mine
    <2>8. c.child \in c0.rest /\ c.rest \subseteq c0.rest /\ c.family = c0.family
      BY <1>2, <2>1, <2>4 DEF CallRecord
    <2>9. Mine(c.child, c.family)' /\ \A i \in c.rest : Mine(i, c.family)'
      BY <2>7, <2>8 DEF Mine
    <2>10. Head(rest) = "listDevices"
      <3>1. deleteChildCascade \in Seq(Step) /\ deleteChildCascade # <<>>
            /\ Head(deleteChildCascade) = "listDevices"
        BY CascadeFacts, Absent4
      <3>2. QED
        BY <2>2, <2>4, <3>1
    <2>11. SafeHead(rest, c)' /\ ErasesItsOwn(rest, c)'
      BY <2>9, <2>10 DEF SafeHead, ErasesItsOwn
    <2>12. QED
      BY <1>0, <2>3, <2>11, RunOwns DEF Kept
  <1>3. QED
    BY <1>1, <1>2 DEF eraseChildren

\* A step that writes and leaves the handler's variables alone.
LEMMA PlainWriteOwns ==
    ASSUME FamiliesInv, SyncInv, sync, NEW h \in Handler, NEW step, Write(h, step, call[h]),
           step \notin {"createFamily", "createChild", "findDevice", "readDevice", "findChild",
                        "readCode", "listChildren"}, Steady
    PROVE  \A g \in Handler : Own(g)'
  <1>1. PICK ok \in {TRUE} : TRUE
    OBVIOUS
  <1>2. PICK c : c = call[h]
    OBVIOUS
  <1>3. Check(h, ok, c) /\ At(h, step)
    BY <1>1, <1>2 DEF Write, Check, GoOn, Run
  <1>4. QED
    BY <1>2, <1>3, PlainOwns

\* A step that is taken for one row after the other.
LEMMA LoopOwns ==
    ASSUME FamiliesInv, SyncInv, sync, NEW h \in Handler, NEW step \in {"unassign", "dropDevices"},
           At(h, step), NEW S, Run(h, pc[h], [call[h] EXCEPT !.listed = S]), Steady
    PROVE  \A g \in Handler : Own(g)'
  <1>1. PICK s, c0 : s = pc[h] /\ c0 = call[h]
    OBVIOUS
  <1>2. PICK c : c = [c0 EXCEPT !.listed = S]
    OBVIOUS
  <1>3. Run(h, s, c) /\ Head(s) = step /\ s # <<>> /\ turn \in {None, h}
    BY <1>1, <1>2 DEF Run, At
  <1>4. c0 \in CallRecord /\ ErasesItsOwn(s, c0)
    BY <1>1, <1>3, HasCall DEF SyncInv, Own
  <1>5. c.family = c0.family /\ c.child = c0.child /\ c.rest = c0.rest
    BY <1>2, <1>4 DEF CallRecord
  <1>6. SafeHead(s, c)'
    BY <1>3 DEF SafeHead
  <1>7. ErasesItsOwn(s, c)'
    BY <1>4, <1>5 DEF ErasesItsOwn, Steady, CallRecord
  <1>8. QED
    BY <1>3, <1>6, <1>7, RunOwns

LEMMA UpdateFamiliesOwns ==
    ASSUME FamiliesInv, SyncInv, sync, NEW h \in Handler, UpdateFamilies(h)
    PROVE  Kept
  <1>0. Steady /\ Erased'
    BY StoreKept DEF UpdateFamilies
  <1> DEFINE new == CHOOSE x \in Family : x \notin families
  <1>1. CASE Write(h, "createFamily", [call[h] EXCEPT !.family = new])
    <2>1. PICK c : c = [call[h] EXCEPT !.family = new]
      OBVIOUS
    <2>2. PICK ok, s : ok = TRUE /\ s = pc[h]
      OBVIOUS
    <2>3. Check(h, ok, c) /\ Head(s) = "createFamily" /\ pc[h] # <<>> /\ turn \in {None, h}
      BY <1>1, <2>1, <2>2 DEF Write, At, Check, GoOn, Run
    <2>4. call[h] \in CallRecord
      BY <2>3, HasCall
    <2>5. c.rest = call[h].rest
      BY <2>1, <2>4 DEF CallRecord
    <2>6. Finds(s, call[h], c) /\ Found(s, c)'
      BY <2>3, <2>5 DEF Finds, Found
    <2>7. QED
      BY <1>0, <2>2, <2>3, <2>6, CheckOwns DEF Kept
  <1>2. CASE Write(h, "dropFamily", call[h])
    <2>1. PICK step \in {"dropFamily"} : Write(h, step, call[h])
      BY <1>2 DEF Write, At, GoOn, Run
    <2>2. QED
      BY <1>0, <2>1, PlainWriteOwns DEF Kept
  <1>3. QED
    BY <1>1, <1>2 DEF UpdateFamilies

LEMMA UpdateMembersOwns ==
    ASSUME FamiliesInv, SyncInv, sync, NEW h \in Handler, UpdateMembers(h)
    PROVE  Kept
  <1>1. Steady /\ Erased'
    BY StoreKept DEF UpdateMembers, history
  <1>2. PICK step \in {"addOwner", "addMember", "sweepMembers", "dropMemberships"} :
            Write(h, step, call[h])
    BY DEF UpdateMembers, Write, At, GoOn, Run
  <1>3. QED
    BY <1>1, <1>2, PlainWriteOwns DEF Kept

LEMMA UnassignOwns ==
    ASSUME FamiliesInv, SyncInv, sync, NEW h \in Handler, unassign(h)
    PROVE  Kept
  <1>0. Steady /\ Erased' /\ At(h, "unassign")
    BY StoreKept DEF unassign, history
  <1>1. CASE GoOn(h, call[h])
    <2>1. PICK step \in {"unassign"} : Write(h, step, call[h])
      BY <1>0, <1>1 DEF Write, GoOn, Run, At
    <2>2. QED
      BY <1>0, <2>1, PlainWriteOwns DEF Kept
  <1>2. ASSUME NEW m, Run(h, pc[h], [call[h] EXCEPT !.listed = @ \ {m}])
        PROVE  Kept
    <2>1. PICK step \in {"unassign"}, S \in {call[h].listed \ {m}} : TRUE
      OBVIOUS
    <2>2. Run(h, pc[h], [call[h] EXCEPT !.listed = S]) /\ At(h, step)
      BY <1>0, <1>2, <2>1 DEF At, Run
    <2>3. QED
      BY <1>0, <2>1, <2>2, LoopOwns DEF Kept
  <1>3. QED
    BY <1>1, <1>2 DEF unassign

LEMMA UpdateChildrenOwns ==
    ASSUME FamiliesInv, SyncInv, sync, NEW h \in Handler, UpdateChildren(h)
    PROVE  Kept
  <1>0. /\ UNCHANGED devices /\ Erased /\ children \in [Child -> ChildRow \cup {None}]
        /\ None \notin Child \cup Device \cup ChildRow /\ Child \cap (Device \cup Member) = {}
    BY FamiliesAssumption DEF UpdateChildren, SyncInv, FamiliesInv, TablesOK
  <1> DEFINE new == CHOOSE x \in Child \ gone : children[x] = None
             there == children[call[h].child] # None
  <1>1. CASE /\ \E x \in Child \ gone : children[x] = None
             /\ Write(h, "createChild", [call[h] EXCEPT !.child = new])
             /\ children' = [children EXCEPT ![new] = [family |-> call[h].family, moved |-> FALSE]]
             /\ UNCHANGED gone
    <2>1. PICK k \in Child \ gone : k = new /\ children[k] = None
      BY <1>1
    <2>2. PICK c : c = [call[h] EXCEPT !.child = k]
      OBVIOUS
    <2>3. PICK ok, s : ok = TRUE /\ s = pc[h]
      OBVIOUS
    <2>4. Check(h, ok, c) /\ Head(s) = "createChild" /\ pc[h] # <<>> /\ turn \in {None, h}
      BY <1>1, <2>1, <2>2, <2>3 DEF Write, At, Check, GoOn, Run
    <2>5. call[h] \in CallRecord
      BY <2>4, HasCall
    <2>6. c.family = call[h].family /\ c.rest = call[h].rest
      BY <2>2, <2>5 DEF CallRecord
    <2>7. Finds(s, call[h], c) /\ Found(s, c)'
      BY <2>4, <2>6 DEF Finds, Found
    <2>8. \A x \in Child : x # k => children'[x] = children[x]
      BY <1>0, <1>1, <2>1
    <2>9. Steady
      BY <1>1, <2>1, <2>8 DEF Steady, Mine
    <2>10. Erased'
      BY <1>0, <1>1, <2>1, <2>8 DEF Erased
    <2>11. QED
      BY <2>3, <2>4, <2>7, <2>9, <2>10, CheckOwns DEF Kept
  <1>2. CASE /\ At(h, "insertChild") /\ Check(h, ~there, call[h])
             /\ children' = IF there THEN children
                            ELSE [children EXCEPT ![call[h].child] = [call[h].row EXCEPT !.moved = TRUE]]
             /\ UNCHANGED gone
    <2>1. pc[h] # <<>> /\ Head(pc[h]) = "insertChild"
      BY <1>2 DEF At
    <2>2. there
      BY <2>1 DEF SyncInv, SafeHead
    <2>3. Steady /\ Erased'
      BY <1>0, <1>2, <2>2, StoreKept
    <2>4. PICK c : c = call[h]
      OBVIOUS
    <2>5. PICK ok : ok = (~there)
      OBVIOUS
    <2>6. PICK step \in {"insertChild"} : At(h, step) /\ Check(h, ok, c)
      BY <1>2, <2>4, <2>5 DEF At, Check, GoOn, Run
    <2>7. QED
      BY <2>3, <2>4, <2>6, PlainOwns DEF Kept
  <1>3. CASE /\ Write(h, "dropChild", call[h])
             /\ children' = IF call[h].child \in ChildrenOf(call[h].family)
                            THEN Without(children, {call[h].child}) ELSE children
             /\ gone' = gone \cup {call[h].child}
    <2>1. PICK s, c : s = pc[h] /\ c = call[h]
      OBVIOUS
    <2>2. s # <<>> /\ Head(s) = "dropChild"
      BY <1>3, <2>1 DEF Write, At
    <2>3. s \in Seq(Step) /\ Facts(s) /\ c \in CallRecord /\ ErasesItsOwn(s, c)
      BY <2>1, <2>2, HasCall DEF SyncInv
    <2>4. ~Lacks(s, "dropChild") /\ Lacks(s, "findChild")
      BY <2>2, <2>3, NoneAfterTail, LacksTail DEF Facts
    <2>5. Mine(c.child, c.family)
      BY <2>3, <2>4 DEF ErasesItsOwn
    <2>6. /\ \A x \in Child : x # c.child => children'[x] = children[x]
          /\ c.child \in Child => children'[c.child] = None
      <3>1. CASE c.child \in ChildrenOf(c.family)
        BY <1>0, <1>3, <2>1, <3>1 DEF Without
      <3>2. CASE c.child \notin ChildrenOf(c.family)
        BY <1>3, <2>1, <2>5, <3>2 DEF Mine, ChildrenOf
      <3>3. QED
        BY <3>1, <3>2
    <2>7. Steady
      BY <1>3, <2>1, <2>6 DEF Steady, Mine
    <2>8. c.child \notin Device
      BY <1>0, <2>3 DEF CallRecord
    <2>9. Erased'
      BY <1>0, <1>3, <2>1, <2>6, <2>8 DEF Erased
    <2>10. PICK step \in {"dropChild"} : Write(h, step, call[h])
      BY <1>3 DEF Write, At, GoOn, Run
    <2>11. QED
      BY <2>7, <2>9, <2>10, PlainWriteOwns DEF Kept
  <1>4. QED
    BY <1>1, <1>2, <1>3 DEF UpdateChildren

LEMMA UpdateVersionsOwns ==
    ASSUME FamiliesInv, SyncInv, sync, NEW h \in Handler, UpdateVersions(h)
    PROVE  Kept
  <1>1. Steady /\ Erased'
    BY StoreKept DEF UpdateVersions, history
  <1>2. PICK step \in {"bump", "dropVersions", "sweepVersions"} : Write(h, step, call[h])
    BY DEF UpdateVersions, Write, At, GoOn, Run
  <1>3. QED
    BY <1>1, <1>2, PlainWriteOwns DEF Kept

LEMMA UpdateCodesOwns ==
    ASSUME FamiliesInv, SyncInv, sync, NEW h \in Handler, UpdateCodes(h)
    PROVE  Kept
  <1>1. Steady /\ Erased'
    BY StoreKept DEF UpdateCodes, history
  <1>2. PICK step \in {"createCode", "markCode", "sweepCodes"} : Write(h, step, call[h])
    BY DEF UpdateCodes, Write, At, GoOn, Run
  <1>3. QED
    BY <1>1, <1>2, PlainWriteOwns DEF Kept

LEMMA DropUserOwns ==
    ASSUME FamiliesInv, SyncInv, sync, NEW h \in Handler, dropUser(h)
    PROVE  Kept
  <1>1. Steady /\ Erased'
    BY StoreKept DEF dropUser, history
  <1>2. PICK step \in {"dropUser"} : Write(h, step, call[h])
    BY DEF dropUser, Write, At, GoOn, Run
  <1>3. QED
    BY <1>1, <1>2, PlainWriteOwns DEF Kept

\* Erasing devices erases them.
LEMMA WithoutErased ==
    ASSUME FamiliesInv, SyncInv, sync, NEW ids \in SUBSET (Device \cup Member \cup {None}),
           devices' = Without(devices, ids), gone' = gone \cup ids, UNCHANGED children
    PROVE  Steady /\ Erased'
  <1>1. /\ Erased /\ devices \in [Device -> DeviceRow \cup {None}]
        /\ None \notin Child /\ Child \cap (Device \cup Member) = {}
    BY FamiliesAssumption DEF SyncInv, FamiliesInv, TablesOK
  <1>2. \A d \in Device : devices'[d] = IF d \in ids THEN None ELSE devices[d]
    BY <1>1 DEF Without
  <1>3. Erased'
    BY <1>1, <1>2 DEF Erased
  <1>4. Steady
    BY DEF Steady, Mine
  <1>5. QED
    BY <1>3, <1>4

LEMMA UpdateDevicesOwns ==
    ASSUME FamiliesInv, SyncInv, sync, NEW h \in Handler, UpdateDevices(h)
    PROVE  Kept
  <1>0. UNCHANGED children /\ pc[h] # <<>> /\ call[h] \in CallRecord
    BY HasCall DEF UpdateDevices, Write, At
  <1>1. ASSUME NEW step \in {"dropDevice", "dropDevices", "sweepDevices"},
               Write(h, step, [call[h] EXCEPT !.listed = {}]),
               NEW ids \in SUBSET (Device \cup Member \cup {None}),
               devices' = Without(devices, ids), gone' = gone \cup ids
        PROVE  Kept
    <2>1. Steady /\ Erased'
      BY <1>0, <1>1, WithoutErased
    <2>2. PICK ok \in {TRUE} : TRUE
      OBVIOUS
    <2>3. PICK c : c = [call[h] EXCEPT !.listed = {}]
      OBVIOUS
    <2>4. Check(h, ok, c) /\ At(h, step)
      BY <1>1, <2>2, <2>3 DEF Write, Check, GoOn, Run
    <2>5. c.family = call[h].family /\ c.child = call[h].child /\ c.rest = call[h].rest
      BY <1>0, <2>3 DEF CallRecord
    <2>6. QED
      BY <1>1, <2>1, <2>4, <2>5, PlainOwns DEF Kept
  <1>2. CASE /\ Write(h, "dropDevice", [call[h] EXCEPT !.listed = {}])
             /\ devices' = Without(devices, {call[h].device}) /\ gone' = gone \cup {call[h].device}
    <2>1. PICK step \in {"dropDevice"} : Write(h, step, [call[h] EXCEPT !.listed = {}])
      BY <1>2 DEF Write, At, GoOn, Run
    <2>2. PICK ids \in SUBSET (Device \cup Member \cup {None}) : ids = {call[h].device}
      BY <1>0 DEF CallRecord
    <2>3. QED
      BY <1>1, <1>2, <2>1, <2>2
  <1>3. ASSUME At(h, "dropDevices"), NEW d \in call[h].listed,
               Run(h, pc[h], [call[h] EXCEPT !.listed = @ \ {d}]),
               devices' = Without(devices, {d}), gone' = gone \cup {d}
        PROVE  Kept
    <2>1. PICK ids \in SUBSET (Device \cup Member \cup {None}) : ids = {d}
      BY <1>0, <1>3 DEF CallRecord
    <2>2. Steady /\ Erased'
      BY <1>0, <1>3, <2>1, WithoutErased
    <2>3. PICK step \in {"dropDevices"}, S \in {call[h].listed \ {d}} : TRUE
      OBVIOUS
    <2>4. Run(h, pc[h], [call[h] EXCEPT !.listed = S]) /\ At(h, step)
      BY <1>3, <2>3 DEF At, Run
    <2>5. QED
      BY <2>2, <2>3, <2>4, LoopOwns DEF Kept
  <1>4. CASE /\ Write(h, "dropDevices", [call[h] EXCEPT !.listed = {}])
             /\ devices' = Without(devices, {}) /\ gone' = gone \cup {}
    <2>1. PICK step \in {"dropDevices"} : Write(h, step, [call[h] EXCEPT !.listed = {}])
      BY <1>4 DEF Write, At, GoOn, Run
    <2>2. PICK ids \in SUBSET (Device \cup Member \cup {None}) : ids = {}
      OBVIOUS
    <2>3. QED
      BY <1>1, <1>4, <2>1, <2>2
  <1>5. CASE /\ Write(h, "sweepDevices", [call[h] EXCEPT !.listed = {}])
             /\ devices' = Without(devices, DevicesIn(call[h].family))
             /\ gone' = gone \cup DevicesIn(call[h].family)
    <2>1. PICK step \in {"sweepDevices"} : Write(h, step, [call[h] EXCEPT !.listed = {}])
      BY <1>5 DEF Write, At, GoOn, Run
    <2>2. PICK ids \in SUBSET (Device \cup Member \cup {None}) :
                ids = DevicesIn(call[h].family)
      BY DEF DevicesIn
    <2>3. QED
      BY <1>1, <1>5, <2>1, <2>2
  <1>6. CASE /\ Write(h, "writeDevice", call[h])
             /\ devices' = [devices EXCEPT ![call[h].device] = call[h].row] /\ UNCHANGED gone
    <2>1. Erased /\ devices \in [Device -> DeviceRow \cup {None}]
      BY DEF SyncInv, FamiliesInv, TablesOK
    <2>2. Head(pc[h]) = "writeDevice"
      BY <1>6 DEF Write, At
    <2>3. devices[call[h].device] # None
      BY <1>0, <2>2 DEF SyncInv, SafeHead
    <2>4. Steady
      BY <1>0, <1>6 DEF Steady, Mine
    <2>5. \A d \in Device : devices'[d] # None => devices[d] # None
      BY <1>6, <2>1, <2>3
    <2>6. Erased'
      BY <1>0, <1>6, <2>1, <2>5 DEF Erased
    <2>7. PICK step \in {"writeDevice"} : Write(h, step, call[h])
      BY <1>6 DEF Write, At, GoOn, Run
    <2>8. QED
      BY <2>4, <2>6, <2>7, PlainWriteOwns DEF Kept
  <1>7. QED
    BY <1>2, <1>3, <1>4, <1>5, <1>6 DEF UpdateDevices

LEMMA CreateDeviceOwns ==
    ASSUME FamiliesInv, SyncInv, sync, NEW h \in Handler, createDevice(h)
    PROVE  Kept
  <1>1. PICK d \in Device \ gone : \E row : devices' = [devices EXCEPT ![d] = row]
    BY DEF createDevice
  <1>2. Erased /\ devices \in [Device -> DeviceRow \cup {None}] /\ UNCHANGED <<children, gone>>
    BY DEF SyncInv, FamiliesInv, TablesOK, createDevice
  <1>3. Steady /\ Erased'
    BY <1>1, <1>2 DEF Erased, Steady, Mine
  <1>4. PICK step \in {"createDevice"} : Write(h, step, call[h])
    BY DEF createDevice, Write, At, GoOn, Run
  <1>5. QED
    BY <1>3, <1>4, PlainWriteOwns DEF Kept

LEMMA FailOwns ==
    ASSUME FamiliesInv, SyncInv, sync, NEW h \in Handler, Fail(h)
    PROVE  Kept
  <1>1. /\ UNCHANGED <<tables, history>> /\ Break(h) /\ turn \in {None, h}
        /\ Ran(h, <<>>, NoCall)
    BY BreakRan DEF Fail, Break, FamiliesInv, Loop
  <1>2. Steady /\ Erased'
    BY <1>1, StillStored, StoreKept
  <1>3. ASSUME NEW g \in Handler, g # h PROVE Own(g)'
    <2>1. Own(g) /\ pc'[g] = pc[g] /\ call'[g] = call[g]
      BY <1>1, <1>3 DEF Ran, SyncInv, Own
    <2>2. QED
      BY <1>1, <1>2, <1>3, <2>1, OtherKeeps
  <1>4. Own(h)'
    BY <1>1 DEF Ran, Own
  <1>5. QED
    BY <1>2, <1>3, <1>4 DEF Kept

LEMMA ProgramStarts ==
    \A op \in Request :
        /\ Program[op] \in Seq(Step) /\ Program[op] # <<>> /\ Head(Program[op]) = "wait"
        /\ Lacks(Program[op], "dropChild") \/ ~Lacks(Program[op], "findChild")
        /\ Lacks(Program[op], "eraseChildren")
  <1>1. \A s \in {createFamily, addParent, addChild, setChildTimezone, removeChild,
                  createToken, redeem, heartbeat, remove, deleteAccount} :
            s # <<>> /\ Head(s) = "wait"
    BY DEF createFamily, addParent, addChild, setChildTimezone, removeChild, createToken,
           redeem, heartbeat, remove, deleteAccount, withBody, requireUser, deleteChildCascade
  <1>2. \A s \in {createFamily, addParent, addChild, setChildTimezone, removeChild,
                  createToken, redeem, heartbeat, remove, deleteAccount} :
            (Lacks(s, "dropChild") \/ ~Lacks(s, "findChild")) /\ Lacks(s, "eraseChildren")
    BY Absent1, Absent2, Absent3
  <1>3. \A op \in Request :
            Program[op] \in {createFamily, addParent, addChild, setChildTimezone, removeChild,
                            createToken, redeem, heartbeat, remove, deleteAccount}
    BY DEF Program, Request
  <1>4. ASSUME NEW op \in Request
        PROVE  /\ Program[op] \in Seq(Step) /\ Program[op] # <<>> /\ Head(Program[op]) = "wait"
               /\ Lacks(Program[op], "dropChild") \/ ~Lacks(Program[op], "findChild")
               /\ Lacks(Program[op], "eraseChildren")
    <2>1. PICK s \in {createFamily, addParent, addChild, setChildTimezone, removeChild,
                      createToken, redeem, heartbeat, remove, deleteAccount} : s = Program[op]
      BY <1>3
    <2>2. s # <<>> /\ Head(s) = "wait"
      BY <1>1
    <2>3. (Lacks(s, "dropChild") \/ ~Lacks(s, "findChild")) /\ Lacks(s, "eraseChildren")
      BY <1>2
    <2>4. s \in Seq(Step)
      BY ProgramFacts
    <2>5. QED
      BY <2>1, <2>2, <2>3, <2>4
  <1>5. QED
    BY <1>4

LEMMA SomethingAsked ==
    ASSUME NEW h \in Handler, ParentAsks(h) \/ DeviceAsks(h)
    PROVE  \E op \in Request : \E c : Start(h, Program[op], c) /\ UNCHANGED <<tables, history>>
  <1>1. \E op \in Request : \E c : Accept(h, op, c)
    BY DEF ParentAsks, DeviceAsks, AboutFamily, Request
  <1>2. QED
    BY <1>1 DEF Accept

LEMMA AsksOwns ==
    ASSUME FamiliesInv, SyncInv, sync, NEW h \in Handler, ParentAsks(h) \/ DeviceAsks(h)
    PROVE  Kept
  <1>1. PICK op \in Request : \E c : Start(h, Program[op], c) /\ UNCHANGED <<tables, history>>
    BY SomethingAsked
  <1>2. PICK c : Start(h, Program[op], c) /\ UNCHANGED <<tables, history>>
    BY <1>1
  <1>3. PICK s : s = Program[op]
    OBVIOUS
  <1>4. Run(h, s, c) /\ turn \in {None, h}
    BY <1>2, <1>3 DEF Start, Run
  <1>5. Steady /\ Erased'
    BY <1>2, StillStored, StoreKept
  <1>6. SafeHead(s, c)' /\ ErasesItsOwn(s, c)'
    BY <1>3, ProgramStarts DEF SafeHead, ErasesItsOwn
  <1>7. QED
    BY <1>4, <1>5, <1>6, RunOwns DEF Kept

-----------------------------------------------------------------------------
(* Codes. *)

\* Only the handler that runs can be about to mark a code.
LEMMA WhoMarks ==
    ASSUME FamiliesInv, sync, NEW h \in Handler, turn \in {None, h}, NEW k, Marking(k)
    PROVE  pc[h] # <<>> /\ Head(pc[h]) = "markCode" /\ call[h].code = k
  BY OthersWait DEF Marking, Waits

LEMMA CodesSame ==
    ASSUME FamiliesInv, SyncInv, sync, NEW h \in Handler, turn \in {None, h},
           pc[h] = <<>> \/ Head(pc[h]) # "markCode",
           UNCHANGED <<codes, enrolled, failures>>
    PROVE  CodesOK'
  <1>1. \A k \in Code : ~Marking(k)
    BY WhoMarks
  <1>2. \A k \in Code : enrolled[k] <= 1 + failures /\ (Live(codes, k) => enrolled[k] <= failures)
    BY <1>1 DEF SyncInv, CodesOK
  <1>3. QED
    BY <1>2 DEF CodesOK, Live

LEMMA UpdateCodesCodes ==
    ASSUME FamiliesInv, SyncInv, sync, NEW h \in Handler, UpdateCodes(h)
    PROVE  CodesOK'
  <1>1. /\ UNCHANGED enrolled /\ CodesOK /\ failures \in Nat
        /\ codes \in [Code -> CodeRow \cup {None}] /\ enrolled \in [Code -> Nat]
        /\ \A k \in Code : enrolled[k] > 0 => codes[k] # None
        /\ None \notin CodeRow
    BY FamiliesAssumption DEF UpdateCodes, history, SyncInv, FamiliesInv, TablesOK
  <1>2. UNCHANGED failures /\ pc[h] # <<>> /\ turn \in {None, h} /\ call[h] \in CallRecord
    BY HasCall DEF UpdateCodes, Write, At, GoOn, Run
  <1>3. ASSUME NEW k \in Code, Live(codes', k) => enrolled[k] <= failures
        PROVE  enrolled'[k] <= 1 + failures' /\ (Live(codes', k) /\ ~Marking(k)' => enrolled'[k] <= failures')
    BY <1>1, <1>2, <1>3 DEF CodesOK
  <1>4. ASSUME NEW k \in Code, Head(pc[h]) # "markCode" \/ call[h].code # k, Live(codes, k)
        PROVE  enrolled[k] <= failures
    BY <1>1, <1>2, <1>4, WhoMarks DEF CodesOK
  <1>5. CASE /\ HasFresh(codes) /\ Write(h, "createCode", call[h])
             /\ codes' = [codes EXCEPT ![Fresh(codes)] =
                             [family |-> call[h].family, child |-> call[h].child, live |-> TRUE]]
    <2>1. PICK new \in Code : new = Fresh(codes) /\ codes[new] = None
      BY <1>1, <1>5 DEF HasFresh, Fresh
    <2>2. Head(pc[h]) = "createCode"
      BY <1>5 DEF Write, At
    <2>3. enrolled[new] = 0
      BY <1>1, <2>1
    <2>4. \A k \in Code : k # new => codes'[k] = codes[k]
      BY <1>1, <1>5, <2>1
    <2>5. \A k \in Code : Live(codes', k) => enrolled[k] <= failures
      BY <1>1, <1>4, <2>2, <2>3, <2>4 DEF Live
    <2>6. QED
      BY <1>3, <2>5 DEF CodesOK, Live
  <1>6. ASSUME NEW ids \in SUBSET Code, codes' = Dead(codes, ids), \A k \in ids : codes[k] # None,
               Head(pc[h]) = "markCode" => call[h].code \in ids
        PROVE  CodesOK'
    <2>1. \A k \in ids : ~Live(codes', k)
      BY <1>1, <1>6 DEF Live, Dead, CodeRow
    <2>2. \A k \in Code \ ids : codes'[k] = codes[k]
      BY <1>1, <1>6 DEF Dead
    <2>3. \A k \in Code : Live(codes', k) => enrolled[k] <= failures
      BY <1>4, <1>6, <2>1, <2>2 DEF Live
    <2>4. QED
      BY <1>3, <2>3 DEF CodesOK, Live
  <1>7. CASE Write(h, "markCode", call[h]) /\ codes' = Dead(codes, {call[h].code})
    <2>1. Head(pc[h]) = "markCode"
      BY <1>7 DEF Write, At
    <2>2. call[h].code \in Code /\ codes[call[h].code] # None
      BY <1>2, <2>1, HasCall, LacksTail DEF HasCode, Needs, FamiliesInv, CodeKnown
    <2>3. PICK ids \in SUBSET Code : ids = {call[h].code}
      BY <2>2
    <2>4. QED
      BY <1>6, <1>7, <2>2, <2>3
  <1>8. CASE /\ Write(h, "sweepCodes", call[h])
             /\ codes' = Dead(codes, {k \in Code : codes[k] # None /\ codes[k].family = call[h].family})
    <2>1. Head(pc[h]) = "sweepCodes"
      BY <1>8 DEF Write, At
    <2>2. PICK ids \in SUBSET Code :
                ids = {k \in Code : codes[k] # None /\ codes[k].family = call[h].family}
      OBVIOUS
    <2>3. QED
      BY <1>6, <1>8, <2>1, <2>2
  <1>9. QED
    BY <1>5, <1>7, <1>8 DEF UpdateCodes

LEMMA CreateDeviceCodes ==
    ASSUME FamiliesInv, SyncInv, sync, NEW h \in Handler, createDevice(h)
    PROVE  CodesOK'
  <1>1. /\ UNCHANGED <<codes, failures>> /\ At(h, "createDevice") /\ GoOn(h, call[h])
        /\ enrolled' = [enrolled EXCEPT ![call[h].code] = @ + 1]
    BY DEF createDevice, Write, GoOn, Run
  <1>2. /\ CodesOK /\ failures \in Nat /\ enrolled \in [Code -> Nat]
        /\ pc[h] # <<>> /\ Head(pc[h]) = "createDevice" /\ turn \in {None, h}
    BY <1>1 DEF SyncInv, FamiliesInv, TablesOK, At
  <1>3. \A k \in Code : Live(codes, k) => enrolled[k] <= failures
    BY <1>2, WhoMarks DEF CodesOK
  <1>4. enrolled[call[h].code] <= failures
    BY <1>2 DEF SyncInv, SafeHead
  <1>5. pc'[h] # <<>> /\ Head(pc'[h]) = "markCode" /\ call'[h] = call[h]
    <2>1. PICK s, c : s = pc[h] /\ c = call[h]
      OBVIOUS
    <2>2. s \in Seq(Step) /\ s # <<>> /\ Facts(s) /\ Head(s) = "createDevice"
      BY <1>2, <2>1, HasCall
    <2>3. Tail(s) # <<>> /\ Head(Tail(s)) = "markCode"
      BY <2>2, FollowedTail DEF Facts
    <2>4. Run(h, Tail(s), c)
      BY <1>1, <2>1 DEF GoOn, Run
    <2>5. Ran(h, Tail(s), c)
      BY <2>4, RunRan DEF FamiliesInv, Loop
    <2>6. QED
      BY <2>1, <2>3, <2>5 DEF Ran
  <1>6. ASSUME NEW k \in Code
        PROVE  enrolled'[k] <= 1 + failures' /\ (Live(codes, k) /\ ~Marking(k)' => enrolled'[k] <= failures')
    <2>1. CASE k = call[h].code
      <3>1. enrolled'[k] = enrolled[k] + 1 /\ enrolled[k] <= failures /\ failures' = failures
        BY <1>1, <1>2, <1>4, <2>1
      <3>2. enrolled[k] \in Nat /\ failures \in Nat
        BY <1>2
      <3>3. enrolled'[k] <= 1 + failures'
        BY <3>1, <3>2
      <3>4. Marking(k)'
        BY <1>5, <2>1 DEF Marking
      <3>5. QED
        BY <3>3, <3>4
    <2>2. CASE k # call[h].code
      BY <1>1, <1>2, <1>3, <1>6, <2>2 DEF CodesOK
    <2>3. QED
      BY <2>1, <2>2
  <1>7. QED
    BY <1>1, <1>6 DEF CodesOK, Live

LEMMA ExpireCodes ==
    ASSUME FamiliesInv, SyncInv, sync, NEW i \in Code, Expire(i)
    PROVE  CodesOK'
  <1>1. /\ UNCHANGED enrolled /\ UNCHANGED control /\ codes' = Dead(codes, {i})
        /\ codes[i] # None /\ CodesOK /\ codes \in [Code -> CodeRow \cup {None}]
    BY DEF Expire, history, Live, SyncInv, FamiliesInv, TablesOK
  <1>2. ~Live(codes', i)
    BY <1>1 DEF Live, Dead, CodeRow
  <1>3. \A k \in Code : k # i => codes'[k] = codes[k]
    BY <1>1 DEF Dead
  <1>4. \A k \in Code : Marking(k)' <=> Marking(k)
    BY <1>1 DEF Marking, control
  <1>5. ASSUME NEW k \in Code
        PROVE  enrolled'[k] <= 1 + failures' /\ (Live(codes', k) /\ ~Marking(k)' => enrolled'[k] <= failures')
    BY <1>1, <1>2, <1>3, <1>4, <1>5 DEF CodesOK, Live, control
  <1>6. QED
    BY <1>5 DEF CodesOK, Live

LEMMA FailCodes ==
    ASSUME FamiliesInv, SyncInv, sync, NEW h \in Handler, Fail(h)
    PROVE  CodesOK'
  <1>1. /\ UNCHANGED <<codes, enrolled>> /\ failures' = failures + 1 /\ failures \in Nat
        /\ CodesOK /\ enrolled \in [Code -> Nat]
    BY DEF Fail, Break, tables, history, SyncInv, FamiliesInv, TablesOK
  <1>2. \A k \in Code : enrolled'[k] <= failures' /\ enrolled'[k] <= 1 + failures'
    BY <1>1 DEF CodesOK
  <1>3. QED
    BY <1>2 DEF CodesOK

LEMMA OtherCodes ==
    ASSUME FamiliesInv, SyncInv, sync, NEW h \in Handler,
           \/ ReadFamily(h) \/ ReadChild(h) \/ ReadDevice(h) \/ leaveFamilies(h) \/ eraseChildren(h)
           \/ UpdateFamilies(h) \/ UpdateMembers(h) \/ unassign(h) \/ UpdateChildren(h)
           \/ UpdateVersions(h) \/ UpdateDevices(h) \/ dropUser(h)
    PROVE  CodesOK'
  <1>1. ASSUME NEW step, At(h, step), step # "markCode", UNCHANGED <<codes, enrolled, failures>>
        PROVE  CodesOK'
    BY <1>1, CodesSame DEF At
  <1>2. CASE ReadFamily(h)
    BY <1>1, <1>2, StillStored DEF ReadFamily, Read, Check, GoOn, Run
  <1>3. CASE ReadChild(h)
    BY <1>1, <1>3, StillStored DEF ReadChild, Read, Check, GoOn, Run
  <1>4. CASE ReadDevice(h)
    BY <1>1, <1>4, StillStored DEF ReadDevice, Read, Check, GoOn, Run
  <1>5. CASE leaveFamilies(h)
    BY <1>1, <1>5, StillStored DEF leaveFamilies, GoOn, Run
  <1>6. CASE eraseChildren(h)
    BY <1>1, <1>6, StillStored DEF eraseChildren, GoOn, Run
  <1>7. CASE UpdateFamilies(h)
    BY <1>1, <1>7 DEF UpdateFamilies, Write, GoOn, Run
  <1>8. CASE UpdateMembers(h)
    BY <1>1, <1>8 DEF UpdateMembers, Write, GoOn, Run, history
  <1>9. CASE unassign(h)
    BY <1>1, <1>9 DEF unassign, GoOn, Run, history
  <1>10. CASE UpdateChildren(h)
    BY <1>1, <1>10 DEF UpdateChildren, Write, Check, GoOn, Run
  <1>11. CASE UpdateVersions(h)
    BY <1>1, <1>11 DEF UpdateVersions, Write, GoOn, Run, history
  <1>12. CASE UpdateDevices(h)
    BY <1>1, <1>12 DEF UpdateDevices, Write, GoOn, Run
  <1>13. CASE dropUser(h)
    BY <1>1, <1>13 DEF dropUser, Write, GoOn, Run, history
  <1>14. QED
    BY <1>2, <1>3, <1>4, <1>5, <1>6, <1>7, <1>8, <1>9, <1>10, <1>11, <1>12, <1>13

LEMMA AsksCodes ==
    ASSUME FamiliesInv, SyncInv, sync, NEW h \in Handler, ParentAsks(h) \/ DeviceAsks(h)
    PROVE  CodesOK'
  <1>1. PICK op \in Request : \E c : Start(h, Program[op], c) /\ UNCHANGED <<tables, history>>
    BY SomethingAsked
  <1>2. pc[h] = <<>> /\ turn \in {None, h} /\ UNCHANGED <<codes, enrolled, failures>>
    BY <1>1, StillStored DEF Start, Run
  <1>3. QED
    BY <1>2, CodesSame

-----------------------------------------------------------------------------
LEMMA SyncInit == Init => SyncInv
  BY DEF Init, HandlersInit, SyncInv, Erased, CodesOK

LEMMA StepControl ==
    ASSUME SyncInv, [Next]_vars
    PROVE  sync' = sync /\ failures' \in Nat
  <1>1. failures \in Nat
    BY DEF SyncInv
  <1>2. ASSUME NEW h \in Handler, ReadFamily(h) \/ ReadChild(h) \/ ReadDevice(h)
        PROVE  UNCHANGED <<sync, failures>>
    BY <1>2 DEF ReadFamily, ReadChild, ReadDevice, Read, Check, GoOn, Run
  <1>3. ASSUME NEW h \in Handler, leaveFamilies(h) \/ eraseChildren(h) \/ unassign(h)
        PROVE  UNCHANGED <<sync, failures>>
    BY <1>3 DEF leaveFamilies, eraseChildren, unassign, GoOn, Run
  <1>4. ASSUME NEW h \in Handler, UpdateFamilies(h) \/ UpdateMembers(h) \/ UpdateChildren(h)
        PROVE  UNCHANGED <<sync, failures>>
    BY <1>4 DEF UpdateFamilies, UpdateMembers, UpdateChildren, Write, Check, GoOn, Run
  <1>5. ASSUME NEW h \in Handler,
               UpdateVersions(h) \/ UpdateCodes(h) \/ UpdateDevices(h) \/ createDevice(h) \/ dropUser(h)
        PROVE  UNCHANGED <<sync, failures>>
    BY <1>5 DEF UpdateVersions, UpdateCodes, UpdateDevices, createDevice, dropUser, Write,
       GoOn, Run
  <1>6. ASSUME NEW h \in Handler, Fail(h) PROVE sync' = sync /\ failures' = failures + 1
    BY <1>6 DEF Fail, Break
  <1>7. ASSUME NEW h \in Handler, ParentAsks(h) \/ DeviceAsks(h) PROVE UNCHANGED <<sync, failures>>
    BY <1>7, SomethingAsked DEF Start, Run
  <1>8. ASSUME NEW k \in Code, Expire(k) PROVE UNCHANGED <<sync, failures>>
    BY <1>8 DEF Expire, control
  <1>9. CASE UNCHANGED vars
    BY <1>1, <1>9 DEF vars, control
  <1>10. QED
    BY <1>1, <1>2, <1>3, <1>4, <1>5, <1>6, <1>7, <1>8, <1>9 DEF Next, HandlerStep

LEMMA SyncStep == FamiliesInv /\ SyncInv /\ [Next]_vars => SyncInv'
  <1> SUFFICES ASSUME FamiliesInv, SyncInv, [Next]_vars PROVE SyncInv'
    OBVIOUS
  <1>1. sync' = sync /\ failures' \in Nat
    BY StepControl
  <1>2. ASSUME sync PROVE (\A h \in Handler : Own(h)') /\ Erased' /\ CodesOK'
    <2>1. CASE \E h \in Handler : HandlerStep(h)
      BY <1>2, <2>1, ReadFamilyOwns, ReadChildOwns, ReadDeviceOwns, LeaveOwns, EraseOwns,
         UpdateFamiliesOwns, UpdateMembersOwns, UnassignOwns, UpdateChildrenOwns,
         UpdateVersionsOwns, UpdateCodesOwns, UpdateDevicesOwns, CreateDeviceOwns, DropUserOwns,
         FailOwns, OtherCodes, UpdateCodesCodes, CreateDeviceCodes, FailCodes DEF HandlerStep, Kept
    <2>2. CASE \E h \in Handler : ParentAsks(h) \/ DeviceAsks(h)
      BY <1>2, <2>2, AsksOwns, AsksCodes DEF Kept
    <2>3. CASE \E k \in Code : Expire(k)
      <3>1. CodesOK'
        BY <1>2, <2>3, ExpireCodes
      <3>2. UNCHANGED control /\ UNCHANGED <<children, devices, gone, enrolled>>
        BY <2>3 DEF Expire, history
      <3>3. QED
        BY <1>2, <3>1, <3>2 DEF control, SyncInv, Own, SafeHead, ErasesItsOwn, Mine, Erased
    <2>4. CASE UNCHANGED vars
      BY <1>2, <2>4 DEF vars, tables, history, control, SyncInv, Own, SafeHead, ErasesItsOwn,
         Mine,
         Erased, CodesOK, Live, Marking
    <2>5. QED
      BY <2>1, <2>2, <2>3, <2>4 DEF Next
  <1>3. QED
    BY <1>1, <1>2 DEF SyncInv, Own

THEOREM SyncInvariant == Spec => []SyncInv
  <1>1. QED
    BY SyncInit, SyncStep, FamiliesInvariant, PTL DEF Spec

\* On a synchronous store no late heartbeat or edit writes an erased device or
\* child back, and what a cascade set out to erase is what it erases.
THEOREM ErasedStays == Spec => []ErasedStaysErased
  <1>1. SyncInv => ErasedStaysErased
    BY DEF SyncInv, Erased, ErasedStaysErased
  <1>2. QED
    BY <1>1, SyncInvariant, PTL

\* On a synchronous store nobody redeems a code between another's check and mark:
\* beyond its first device a code enrols one for every redemption that failed.
THEOREM CodesOnce == Spec => []CodeEnrolsOneDevice
  <1>1. SyncInv => CodeEnrolsOneDevice
    BY DEF SyncInv, CodesOK, CodeEnrolsOneDevice
  <1>2. QED
    BY <1>1, SyncInvariant, PTL

-----------------------------------------------------------------------------
(* More of the order of the steps. *)

Order(s) ==
    /\ Preceded(s, "mayManageParents", "findPerson") /\ Preceded(s, "findPerson", "notMember")
    /\ Preceded(s, "notMember", "findAssigned") /\ Preceded(s, "findAssigned", "addMember")
    /\ Preceded(s, "createFamily", "addOwner") /\ Preceded(s, "mayManagePolicy", "createChild")
    /\ Preceded(s, "sweepMembers", "sweepVersions") /\ Preceded(s, "sweepVersions", "dropFamily")
    /\ Preceded(s, "dropMemberships", "dropUser") /\ Preceded(s, "findChild", "createCode")
    /\ Preceded(s, "findDevice", "dropDevice") /\ Preceded(s, "listDevices", "dropDevices")
    /\ Preceded(s, "dropDevices", "dropVersions") /\ Preceded(s, "dropVersions", "dropChild")
    /\ PrecededBy(s, {"createChild", "dropDevice"}, "bump")
    /\ Followed(s, "listChildren", "eraseChildren") /\ Followed(s, "listOwned", "leaveFamilies")
    /\ Followed(s, "dropChild", "listAssigned") /\ Followed(s, "listAssigned", "unassign")
    /\ NoneAfter(s, "wait", "sweepMembers") /\ NoneAfter(s, "leaveFamilies", "sweepMembers")
    /\ NoneAfter(s, "createFamily", "sweepMembers") /\ NoneAfter(s, "createChild", "sweepMembers")
    /\ NoneAfter(s, "findDevice", "sweepMembers")
    /\ NoneAfter(s, "createFamily", "dropMemberships") /\ NoneAfter(s, "addOwner", "dropMemberships")
    /\ NoneAfter(s, "addMember", "dropMemberships") /\ NoneAfter(s, "dropMemberships", "dropMemberships")
    /\ NoneAfter(s, "eraseChildren", "dropChild") /\ NoneAfter(s, "dropChild", "dropChild")
    /\ NoneAfter(s, "sweepMembers", "listChildren") /\ NoneAfter(s, "sweepMembers", "eraseChildren")
    /\ NoneAfter(s, "sweepMembers", "dropChild") /\ NoneAfter(s, "dropMemberships", "listOwned")
    /\ NoneAfter(s, "dropMemberships", "leaveFamilies") /\ NoneAfter(s, "dropMemberships", "sweepMembers")
    /\ Preceded(s, "mayManagePolicy", "findChild")
    /\ NoneAfter(s, "sweepMembers", "sweepDevices") /\ NoneAfter(s, "sweepMembers", "sweepCodes")
    /\ NoneAfter(s, "leaveFamilies", "sweepDevices") /\ NoneAfter(s, "leaveFamilies", "sweepCodes")
    /\ NoneAfter(s, "createDevice", "sweepMembers") /\ NoneAfter(s, "writeDevice", "sweepMembers")
    /\ NoneAfter(s, "createCode", "sweepMembers")
    /\ Until(s, "wait", "listOwned", "dropMemberships")

OrderInv == \A h \in Handler : pc[h] # <<>> => Order(pc[h])

LEMMA OrderTail ==
    ASSUME NEW s \in Seq(Step), s # <<>>, Order(s)
    PROVE  Order(Tail(s))
  BY PrecededTail, PrecededByTail, FollowedTail, NoneAfterTail, UntilTail DEF Order

LEMMA UntilLacks == ASSUME NEW s, NEW a, NEW g, NEW b, Lacks(s, b) PROVE Until(s, a, g, b)
  BY DEF Lacks, Until

LEMMA ProgramOrder1 ==
    /\ Order(createFamily) /\ Order(addParent) /\ Order(addChild) /\ Order(setChildTimezone)
  <1>1. Order(createFamily)
    BY DEF createFamily, withBody, requireUser, Order, Preceded, PrecededBy, Followed, NoneAfter, Until
  <1>2. Order(addParent)
    BY DEF addParent, withBody, requireUser, Order, Preceded, PrecededBy, Followed, NoneAfter, Until
  <1>3. Order(addChild)
    BY DEF addChild, withBody, requireUser, Order, Preceded, PrecededBy, Followed, NoneAfter, Until
  <1>4. Order(setChildTimezone)
    BY DEF setChildTimezone, withBody, requireUser, Order, Preceded, PrecededBy, Followed, NoneAfter, Until
  <1>5. QED
    BY <1>1, <1>2, <1>3, <1>4

LEMMA ProgramOrder2 ==
    /\ Order(removeChild) /\ Order(createToken) /\ Order(redeem) /\ Order(heartbeat) /\ Order(remove)
  <1>1. Order(removeChild)
    BY DEF removeChild, deleteChildCascade, requireUser, Order, Preceded, PrecededBy, Followed, NoneAfter, Until
  <1>2. Order(createToken)
    BY DEF createToken, withBody, requireUser, Order, Preceded, PrecededBy, Followed, NoneAfter, Until
  <1>3. Order(redeem)
    BY DEF redeem, Order, Preceded, PrecededBy, Followed, NoneAfter, Until
  <1>4. Order(heartbeat)
    BY DEF heartbeat, Order, Preceded, PrecededBy, Followed, NoneAfter, Until
  <1>5. Order(remove)
    BY DEF remove, requireUser, Order, Preceded, PrecededBy, Followed, NoneAfter, Until
  <1>6. QED
    BY <1>1, <1>2, <1>3, <1>4, <1>5

LEMMA ProgramOrder3 ==
    Order(deleteAccount) /\ Order(deleteChildCascade) /\ Order(deleteFamilyCascade)
  <1>1. Until(deleteAccount, "wait", "listOwned", "dropMemberships")
    <2>1. Len(deleteAccount) = 9 /\ deleteAccount[6] = "listOwned"
          /\ \A i \in 1 .. 9 : deleteAccount[i] = "wait" => i < 6
      BY DEF deleteAccount, withBody, requireUser
    <2>2. QED
      BY <2>1 DEF Until
  <1>2. Order(deleteAccount)
    BY <1>1 DEF deleteAccount, withBody, requireUser, Order, Preceded, PrecededBy, Followed, NoneAfter
  <1>3. Order(deleteChildCascade)
    BY DEF deleteChildCascade, Order, Preceded, PrecededBy, Followed, NoneAfter, Until
  <1>4. Order(deleteFamilyCascade)
    BY DEF deleteFamilyCascade, Order, Preceded, PrecededBy, Followed, NoneAfter, Until
  <1>5. QED
    BY <1>2, <1>3, <1>4

LEMMA ProgramOrder == \A op \in Request : Program[op] \in Seq(Step) /\ Order(Program[op])
  <1>1. \A op \in Request :
            Program[op] \in {createFamily, addParent, addChild, setChildTimezone, removeChild,
                            createToken, redeem, heartbeat, remove, deleteAccount}
    BY DEF Program, Request
  <1>2. QED
    BY <1>1, ProgramOrder1, ProgramOrder2, ProgramOrder3, ProgramStarts

\* The cascades go in front of the program at two steps only.
LEMMA FamilyCascadeOrder ==
    ASSUME NEW s \in Seq(Step), s # <<>>, Facts(s), Order(s), Head(s) = "leaveFamilies"
    PROVE  deleteFamilyCascade \o s \in Seq(Step) /\ Order(deleteFamilyCascade \o s)
  <1> DEFINE q == deleteFamilyCascade
  <1>1. q \in Seq(Step) /\ Order(q)
    BY CascadeFacts, ProgramOrder3
  <1>2. /\ \A x \in {"wait", "leaveFamilies", "createFamily", "createChild", "findDevice", "addOwner",
                     "addMember", "dropMemberships", "dropChild", "bump", "createDevice", "writeDevice",
                     "createCode"} : Lacks(q, x)
    BY DEF deleteFamilyCascade, Lacks
  <1>3. \A x \in {"sweepMembers", "eraseChildren", "dropChild", "listChildren", "sweepDevices",
                    "sweepCodes"} : Lacks(s, x)
    BY NoneAfterTail, LacksTail DEF Facts, Order
  <1> HIDE DEF q
  <1>4. q \o s \in Seq(Step) /\ Until(q \o s, "wait", "listOwned", "dropMemberships")
        /\ PrecededBy(q \o s, {"createChild", "dropDevice"}, "bump")
    BY <1>1, <1>2, ConcatType, ConcatUntil, ConcatPrecededBy DEF Order
  <1>5. /\ Preceded(q \o s, "mayManageParents", "findPerson") /\ Preceded(q \o s, "findPerson", "notMember")
        /\ Preceded(q \o s, "notMember", "findAssigned") /\ Preceded(q \o s, "findAssigned", "addMember")
        /\ Preceded(q \o s, "createFamily", "addOwner") /\ Preceded(q \o s, "mayManagePolicy", "createChild")
        /\ Preceded(q \o s, "sweepMembers", "sweepVersions") /\ Preceded(q \o s, "sweepVersions", "dropFamily")
        /\ Preceded(q \o s, "dropMemberships", "dropUser") /\ Preceded(q \o s, "findChild", "createCode")
        /\ Preceded(q \o s, "findDevice", "dropDevice") /\ Preceded(q \o s, "listDevices", "dropDevices")
        /\ Preceded(q \o s, "dropDevices", "dropVersions") /\ Preceded(q \o s, "dropVersions", "dropChild")
        /\ Preceded(q \o s, "mayManagePolicy", "findChild")
    BY <1>1, ConcatPreceded DEF Order
  <1>6. /\ Followed(q \o s, "listChildren", "eraseChildren") /\ Followed(q \o s, "listOwned", "leaveFamilies")
        /\ Followed(q \o s, "dropChild", "listAssigned") /\ Followed(q \o s, "listAssigned", "unassign")
    BY <1>1, ConcatFollowed DEF Order
  <1>7. /\ NoneAfter(q \o s, "wait", "sweepMembers") /\ NoneAfter(q \o s, "leaveFamilies", "sweepMembers")
        /\ NoneAfter(q \o s, "createFamily", "sweepMembers") /\ NoneAfter(q \o s, "createChild", "sweepMembers")
        /\ NoneAfter(q \o s, "findDevice", "sweepMembers")
        /\ NoneAfter(q \o s, "createFamily", "dropMemberships") /\ NoneAfter(q \o s, "addOwner", "dropMemberships")
        /\ NoneAfter(q \o s, "addMember", "dropMemberships") /\ NoneAfter(q \o s, "dropMemberships", "dropMemberships")
        /\ NoneAfter(q \o s, "eraseChildren", "dropChild") /\ NoneAfter(q \o s, "dropChild", "dropChild")
        /\ NoneAfter(q \o s, "sweepMembers", "listChildren") /\ NoneAfter(q \o s, "sweepMembers", "eraseChildren")
        /\ NoneAfter(q \o s, "sweepMembers", "dropChild") /\ NoneAfter(q \o s, "dropMemberships", "listOwned")
        /\ NoneAfter(q \o s, "dropMemberships", "leaveFamilies")
        /\ NoneAfter(q \o s, "dropMemberships", "sweepMembers")
        /\ NoneAfter(q \o s, "sweepMembers", "sweepDevices") /\ NoneAfter(q \o s, "sweepMembers", "sweepCodes")
        /\ NoneAfter(q \o s, "leaveFamilies", "sweepDevices") /\ NoneAfter(q \o s, "leaveFamilies", "sweepCodes")
        /\ NoneAfter(q \o s, "createDevice", "sweepMembers") /\ NoneAfter(q \o s, "writeDevice", "sweepMembers")
        /\ NoneAfter(q \o s, "createCode", "sweepMembers")
    BY <1>1, <1>2, <1>3, ConcatNoneAfter DEF Order
  <1>8. Order(q \o s)
    BY <1>4, <1>5, <1>6, <1>7 DEF Order
  <1>9. QED
    BY <1>4, <1>8 DEF q

LEMMA ChildCascadeOrder ==
    ASSUME NEW s \in Seq(Step), s # <<>>, Order(s), Head(s) = "eraseChildren"
    PROVE  deleteChildCascade \o s \in Seq(Step) /\ Order(deleteChildCascade \o s)
  <1> DEFINE q == deleteChildCascade
  <1>1. q \in Seq(Step) /\ Order(q)
    BY CascadeFacts, ProgramOrder3
  <1>2. /\ \A x \in {"wait", "leaveFamilies", "createFamily", "createChild", "findDevice", "addOwner",
                     "addMember", "dropMemberships", "eraseChildren", "sweepMembers", "bump", "createDevice",
                     "writeDevice", "createCode"} : Lacks(q, x)
    BY DEF deleteChildCascade, Lacks
  <1>3. Lacks(s, "dropChild")
    BY NoneAfterTail, LacksTail DEF Order
  <1> HIDE DEF q
  <1>4. q \o s \in Seq(Step) /\ Until(q \o s, "wait", "listOwned", "dropMemberships")
        /\ PrecededBy(q \o s, {"createChild", "dropDevice"}, "bump")
    BY <1>1, <1>2, ConcatType, ConcatUntil, ConcatPrecededBy DEF Order
  <1>5. /\ Preceded(q \o s, "mayManageParents", "findPerson") /\ Preceded(q \o s, "findPerson", "notMember")
        /\ Preceded(q \o s, "notMember", "findAssigned") /\ Preceded(q \o s, "findAssigned", "addMember")
        /\ Preceded(q \o s, "createFamily", "addOwner") /\ Preceded(q \o s, "mayManagePolicy", "createChild")
        /\ Preceded(q \o s, "sweepMembers", "sweepVersions") /\ Preceded(q \o s, "sweepVersions", "dropFamily")
        /\ Preceded(q \o s, "dropMemberships", "dropUser") /\ Preceded(q \o s, "findChild", "createCode")
        /\ Preceded(q \o s, "findDevice", "dropDevice") /\ Preceded(q \o s, "listDevices", "dropDevices")
        /\ Preceded(q \o s, "dropDevices", "dropVersions") /\ Preceded(q \o s, "dropVersions", "dropChild")
        /\ Preceded(q \o s, "mayManagePolicy", "findChild")
    BY <1>1, ConcatPreceded DEF Order
  <1>6. /\ Followed(q \o s, "listChildren", "eraseChildren") /\ Followed(q \o s, "listOwned", "leaveFamilies")
        /\ Followed(q \o s, "dropChild", "listAssigned") /\ Followed(q \o s, "listAssigned", "unassign")
    BY <1>1, ConcatFollowed DEF Order
  <1>7. /\ NoneAfter(q \o s, "wait", "sweepMembers") /\ NoneAfter(q \o s, "leaveFamilies", "sweepMembers")
        /\ NoneAfter(q \o s, "createFamily", "sweepMembers") /\ NoneAfter(q \o s, "createChild", "sweepMembers")
        /\ NoneAfter(q \o s, "findDevice", "sweepMembers")
        /\ NoneAfter(q \o s, "createFamily", "dropMemberships") /\ NoneAfter(q \o s, "addOwner", "dropMemberships")
        /\ NoneAfter(q \o s, "addMember", "dropMemberships") /\ NoneAfter(q \o s, "dropMemberships", "dropMemberships")
        /\ NoneAfter(q \o s, "eraseChildren", "dropChild") /\ NoneAfter(q \o s, "dropChild", "dropChild")
        /\ NoneAfter(q \o s, "sweepMembers", "listChildren") /\ NoneAfter(q \o s, "sweepMembers", "eraseChildren")
        /\ NoneAfter(q \o s, "sweepMembers", "dropChild") /\ NoneAfter(q \o s, "dropMemberships", "listOwned")
        /\ NoneAfter(q \o s, "dropMemberships", "leaveFamilies")
        /\ NoneAfter(q \o s, "dropMemberships", "sweepMembers")
        /\ NoneAfter(q \o s, "sweepMembers", "sweepDevices") /\ NoneAfter(q \o s, "sweepMembers", "sweepCodes")
        /\ NoneAfter(q \o s, "leaveFamilies", "sweepDevices") /\ NoneAfter(q \o s, "leaveFamilies", "sweepCodes")
        /\ NoneAfter(q \o s, "createDevice", "sweepMembers") /\ NoneAfter(q \o s, "writeDevice", "sweepMembers")
        /\ NoneAfter(q \o s, "createCode", "sweepMembers")
    BY <1>1, <1>2, <1>3, ConcatNoneAfter DEF Order
  <1>8. Order(q \o s)
    BY <1>4, <1>5, <1>6, <1>7 DEF Order
  <1>9. QED
    BY <1>4, <1>8 DEF q

\* Where a handler may go on.
Rests(s) == {<<>>, s, Tail(s)}
            \cup (IF Head(s) = "leaveFamilies" THEN {deleteFamilyCascade \o s} ELSE {})
            \cup (IF Head(s) = "eraseChildren" THEN {deleteChildCascade \o s} ELSE {})

LEMMA RestsOrder ==
    ASSUME NEW s \in Seq(Step), s # <<>>, Facts(s), Order(s), NEW rest \in Rests(s), rest # <<>>
    PROVE  Order(rest)
  BY OrderTail, FamilyCascadeOrder, ChildCascadeOrder DEF Rests

\* Every step of a handler's program goes on at one of those.
GoesTo(h) == \E rest \in Rests(pc[h]) : pc' = [pc EXCEPT ![h] = rest]

LEMMA StepRests ==
    ASSUME FamiliesInv, NEW h \in Handler, HandlerStep(h)
    PROVE  pc[h] # <<>> /\ GoesTo(h)
  <1>0. /\ <<>> \in Rests(pc[h]) /\ pc[h] \in Rests(pc[h]) /\ Tail(pc[h]) \in Rests(pc[h])
        /\ Head(pc[h]) = "leaveFamilies" => deleteFamilyCascade \o pc[h] \in Rests(pc[h])
        /\ Head(pc[h]) = "eraseChildren" => deleteChildCascade \o pc[h] \in Rests(pc[h])
        /\ pc[h] \in Seq(Step)
    BY DEF Rests, FamiliesInv, Loop, ControlOK
  <1>1. ASSUME NEW step, NEW ok, NEW c, At(h, step), Check(h, ok, c)
        PROVE  pc[h] # <<>> /\ GoesTo(h)
    BY <1>0, <1>1 DEF At, Check, GoOn, Run, GoesTo
  <1>2. ASSUME NEW step, NEW c, Write(h, step, c)
        PROVE  pc[h] # <<>> /\ GoesTo(h)
    BY <1>0, <1>2 DEF Write, At, GoOn, Run, GoesTo
  <1>3. ASSUME NEW step, NEW rest \in Rests(pc[h]), NEW c, At(h, step), Run(h, rest, c)
        PROVE  pc[h] # <<>> /\ GoesTo(h)
    BY <1>3 DEF At, Run, GoesTo
  <1>4. CASE ReadFamily(h)
    BY <1>1, <1>4 DEF ReadFamily, Read
  <1>5. CASE ReadChild(h)
    BY <1>1, <1>5 DEF ReadChild, Read
  <1>6. CASE ReadDevice(h)
    BY <1>1, <1>6 DEF ReadDevice, Read
  <1>7. CASE leaveFamilies(h)
    <2>1. ASSUME NEW f, NEW c, At(h, "leaveFamilies"),
                 Run(h, (IF Owners(f) \ {call[h].user} # {} THEN <<>> ELSE deleteFamilyCascade) \o pc[h], c)
          PROVE  pc[h] # <<>> /\ GoesTo(h)
      <3>1. <<>> \o pc[h] = pc[h] /\ Head(pc[h]) = "leaveFamilies"
        BY <1>0, <2>1 DEF At
      <3>2. PICK rest : rest = (IF Owners(f) \ {call[h].user} # {} THEN <<>> ELSE deleteFamilyCascade) \o pc[h]
        OBVIOUS
      <3>3. rest \in Rests(pc[h])
        BY <1>0, <3>1, <3>2
      <3>4. Run(h, rest, c)
        BY <2>1, <3>2 DEF Run
      <3>5. QED
        BY <1>3, <2>1, <3>3, <3>4
    <2>2. ASSUME NEW c, At(h, "listOwned") \/ At(h, "leaveFamilies"), GoOn(h, c)
          PROVE  pc[h] # <<>> /\ GoesTo(h)
      BY <1>2, <2>2 DEF Write
    <2>3. QED
      BY <1>7, <2>1, <2>2 DEF leaveFamilies
  <1>8. CASE eraseChildren(h)
    <2>1. Head(pc[h]) = "eraseChildren"
      BY <1>8 DEF eraseChildren, At
    <2>2. ASSUME NEW c, GoOn(h, c) PROVE pc[h] # <<>> /\ GoesTo(h)
      BY <1>2, <1>8, <2>2 DEF Write, eraseChildren
    <2>3. ASSUME NEW c, Run(h, deleteChildCascade \o pc[h], c) PROVE pc[h] # <<>> /\ GoesTo(h)
      BY <1>0, <1>3, <1>8, <2>1, <2>3 DEF eraseChildren
    <2>4. QED
      BY <1>8, <2>2, <2>3 DEF eraseChildren
  <1>9. CASE UpdateFamilies(h)
    BY <1>2, <1>9 DEF UpdateFamilies
  <1>10. CASE UpdateMembers(h)
    BY <1>2, <1>10 DEF UpdateMembers
  <1>11. CASE unassign(h)
    BY <1>0, <1>2, <1>3, <1>11 DEF unassign, Write
  <1>12. CASE UpdateChildren(h)
    BY <1>1, <1>2, <1>12 DEF UpdateChildren
  <1>13. CASE UpdateVersions(h)
    BY <1>2, <1>13 DEF UpdateVersions
  <1>14. CASE UpdateCodes(h)
    BY <1>2, <1>14 DEF UpdateCodes
  <1>15. CASE UpdateDevices(h)
    BY <1>0, <1>2, <1>3, <1>15 DEF UpdateDevices
  <1>16. CASE createDevice(h)
    BY <1>2, <1>16 DEF createDevice
  <1>17. CASE dropUser(h)
    BY <1>2, <1>17 DEF dropUser
  <1>18. CASE Fail(h)
    BY <1>0, <1>18 DEF Fail, Break, GoesTo
  <1>19. QED
    BY <1>4, <1>5, <1>6, <1>7, <1>8, <1>9, <1>10, <1>11, <1>12, <1>13, <1>14, <1>15, <1>16, <1>17,
       <1>18 DEF HandlerStep

LEMMA OrderStep == FamiliesInv /\ OrderInv /\ [Next]_vars => OrderInv'
  <1> SUFFICES ASSUME FamiliesInv, OrderInv, [Next]_vars PROVE OrderInv'
    OBVIOUS
  <1>1. /\ DOMAIN pc = Handler
        /\ \A g \in Handler : pc[g] # <<>> => pc[g] \in Seq(Step) /\ Facts(pc[g]) /\ Order(pc[g])
    BY HasCall DEF FamiliesInv, Loop, ControlOK, OrderInv
  <1>2. ASSUME NEW h \in Handler, NEW rest, pc' = [pc EXCEPT ![h] = rest], rest # <<>> => Order(rest)
        PROVE  OrderInv'
    BY <1>1, <1>2 DEF OrderInv
  <1>3. ASSUME NEW h \in Handler, HandlerStep(h) PROVE OrderInv'
    <2>1. pc[h] # <<>> /\ GoesTo(h)
      BY <1>3, StepRests
    <2>2. PICK s : s = pc[h]
      OBVIOUS
    <2>3. PICK rest \in Rests(s) : pc' = [pc EXCEPT ![h] = rest]
      BY <2>1, <2>2 DEF GoesTo
    <2>4. rest # <<>> => Order(rest)
      BY <1>1, <2>1, <2>2, RestsOrder
    <2>5. QED
      BY <1>2, <2>3, <2>4
  <1>4. ASSUME NEW h \in Handler, ParentAsks(h) \/ DeviceAsks(h) PROVE OrderInv'
    <2>1. PICK op \in Request : \E c : Start(h, Program[op], c)
      BY <1>4, SomethingAsked
    <2>2. PICK rest : rest = Program[op]
      OBVIOUS
    <2>3. pc' = [pc EXCEPT ![h] = rest] /\ Order(rest)
      BY <2>1, <2>2, ProgramOrder DEF Start, Run
    <2>4. QED
      BY <1>2, <2>3
  <1>5. CASE UNCHANGED pc
    BY <1>5 DEF OrderInv
  <1>6. QED
    BY <1>3, <1>4, <1>5 DEF Next, Expire, control, vars

LEMMA OrderInit == Init => OrderInv
  BY DEF Init, HandlersInit, OrderInv

\* What a handler has left is in order, on either build.
THEOREM OrderInvariant == Spec => []OrderInv
  <1>1. QED
    BY OrderInit, OrderStep, FamiliesInvariant, PTL DEF Spec

-----------------------------------------------------------------------------
(* Owners. *)

\* Whoever erases memberships has listed each family its user alone owns, or is at
\* the one it took from the list.
Leaves(s, c) ==
    ~Lacks(s, "dropMemberships") /\ Lacks(s, "listOwned") =>
        \A f \in Family \ ghosts : c.user \in Owners(f) /\ Owners(f) \subseteq {c.user} =>
            \/ f \in c.owned /\ ~Lacks(s, "leaveFamilies")
            \/ f = c.family /\ ~Lacks(s, "sweepMembers")

\* Whoever erases a family's members has listed its children, or is at the one it took.
Erases(s, c) ==
    ~Lacks(s, "sweepMembers") /\ Lacks(s, "listChildren") =>
        \A k \in ChildrenOf(c.family) : \/ k \in c.rest /\ ~Lacks(s, "eraseChildren")
                                        \/ k = c.child /\ ~Lacks(s, "dropChild")

\* What the check before a step showed is still so.
AtHead(s, c) ==
    /\ Head(s) \in {"findPerson", "notMember", "findAssigned", "addMember", "createChild"} =>
            MembersOf(c.family) # {}
    /\ Head(s) \in {"notMember", "findAssigned", "addMember"} => c.person \in users
    /\ Head(s) = "addOwner" => c.family \in ghosts \/ c.user \in users
    /\ Head(s) = "dropUser" => RowsOf(c.user) = {}

Claim(s, c) == AtHead(s, c) /\ Leaves(s, c) /\ Erases(s, c)

\* What the step that is over leaves for the next one.
Shown(s, c) ==
    /\ Head(s) \in {"mayManageParents", "mayManagePolicy", "findPerson", "notMember", "findAssigned"} =>
            MembersOf(c.family) # {}
    /\ Head(s) \in {"findPerson", "notMember", "findAssigned"} => c.person \in users
    /\ Head(s) = "createFamily" => c.family \in ghosts \/ c.user \in users
    /\ Head(s) = "dropMemberships" => RowsOf(c.user) = {}

\* What the claims are for.
Owned == \A f \in Family \ ghosts :
            MembersOf(f) # {} \/ ChildrenOf(f) # {} => Owners(f) \cap users # {}
HaveAccounts == \A m \in Member : members[m] # None /\ members[m].family \notin ghosts =>
                    members[m].user \in users

HasClaim(h) == pc[h] # <<>> => Claim(pc[h], call[h])

OwnersInv == sync => /\ Owned /\ HaveAccounts
                     /\ \A h \in Handler : HasClaim(h)

\* Whoever waits claims nothing.
LEMMA WaitingClaims ==
    ASSUME NEW s \in Seq(Step), s # <<>>, Order(s), Head(s) = "wait", NEW c
    PROVE  Claim(s, c)'
  <1>1. Lacks(s, "sweepMembers")
    BY NoneAfterTail, LacksTail DEF Order
  <1>2. Lacks(s, "listOwned") => Lacks(s, "dropMemberships")
    BY UntilTail, LacksTail DEF Order
  <1>3. AtHead(s, c)'
    BY DEF AtHead
  <1>4. Leaves(s, c)' /\ Erases(s, c)'
    BY <1>1, <1>2 DEF Leaves, Erases
  <1>5. QED
    BY <1>3, <1>4 DEF Claim

LEMMA WaitIsStep == ASSUME NEW s \in Seq(Step), s # <<>>, Head(s) \in Waits PROVE Head(s) = "wait"
  <1>1. Head(s) \in Step
    BY TailSteps
  <1>2. QED
    BY <1>1 DEF Step, Waits

\* A handler that runs: what is left of its program, and the others.
LEMMA RunClaims ==
    ASSUME FamiliesInv, OrderInv, sync, NEW h \in Handler, turn \in {None, h}, NEW rest, NEW c,
           Run(h, rest, c), rest # <<>> => Claim(rest, c)'
    PROVE  \A g \in Handler : HasClaim(g)'
  <1>1. Ran(h, rest, c)
    BY RunRan DEF FamiliesInv, Loop
  <1>2. ASSUME NEW g \in Handler, g # h PROVE HasClaim(g)'
    <2>1. SUFFICES ASSUME pc[g] # <<>> PROVE HasClaim(g)'
      BY <1>1, <1>2 DEF Ran, HasClaim
    <2>2. PICK s, c0 : s = pc[g] /\ c0 = call[g] /\ s = pc'[g] /\ c0 = call'[g]
      BY <1>1, <1>2 DEF Ran
    <2>3. s \in Seq(Step) /\ s # <<>> /\ Order(s) /\ Head(s) \in Waits
      BY <1>2, <2>1, <2>2, HasCall, OthersWait DEF OrderInv
    <2>4. Claim(s, c0)'
      BY <2>3, WaitIsStep, WaitingClaims
    <2>5. QED
      BY <2>2, <2>4 DEF HasClaim, Claim, AtHead, Leaves, Erases
  <1>3. HasClaim(h)'
    <2>1. SUFFICES ASSUME rest # <<>> PROVE Claim(pc[h], call[h])'
      BY <1>1 DEF HasClaim, Ran
    <2>2. pc'[h] = rest /\ call'[h] = c
      BY <1>1, <2>1 DEF Ran
    <2>3. Claim(rest, c)'
      BY <2>1
    <2>4. QED
      BY <2>2, <2>3 DEF Claim, AtHead, Leaves, Erases
  <1>4. QED
    BY <1>2, <1>3

LEMMA TailHead ==
    ASSUME NEW s \in Seq(Step), s # <<>>, Order(s), Tail(s) # <<>>, NEW c, Shown(s, c)'
    PROVE  AtHead(Tail(s), c)'
  <1> DEFINE t == Tail(s)
  <1>1. /\ Head(t) = "findPerson" => Head(s) = "mayManageParents"
        /\ Head(t) = "notMember" => Head(s) = "findPerson"
        /\ Head(t) = "findAssigned" => Head(s) = "notMember"
        /\ Head(t) = "addMember" => Head(s) = "findAssigned"
        /\ Head(t) = "createChild" => Head(s) = "mayManagePolicy"
        /\ Head(t) = "addOwner" => Head(s) = "createFamily"
        /\ Head(t) = "dropUser" => Head(s) = "dropMemberships"
    BY PrecededTail DEF Order
  <1> HIDE DEF t
  <1>2. AtHead(t, c)'
    BY <1>1 DEF AtHead, Shown
  <1>3. QED
    BY <1>2 DEF t

LEMMA QuietLeaves ==
    ASSUME NEW s \in Seq(Step), s # <<>>, Order(s), NEW c, NEW c2, Leaves(s, c),
           Head(s) \notin {"listOwned", "leaveFamilies", "sweepMembers"},
           ~Lacks(Tail(s), "dropMemberships") =>
               /\ c2.user = c.user /\ c2.family = c.family /\ c2.owned = c.owned
               /\ ghosts \subseteq ghosts' /\ \A f \in Family : Owners(f)' = Owners(f)
    PROVE  Leaves(Tail(s), c2)'
  <1> DEFINE t == Tail(s)
  <1>1. \A x : Lacks(s, x) <=> Head(s) # x /\ Lacks(t, x)
    BY LacksTail
  <1> HIDE DEF t
  <1>2. ASSUME ~Lacks(t, "dropMemberships"), Lacks(t, "listOwned"), NEW f \in Family, f \notin ghosts',
               c2.user \in Owners(f)', Owners(f)' \subseteq {c2.user}
        PROVE  \/ f \in c2.owned /\ ~Lacks(t, "leaveFamilies")
               \/ f = c2.family /\ ~Lacks(t, "sweepMembers")
    <2>1. /\ c2.user = c.user /\ c2.family = c.family /\ c2.owned = c.owned
          /\ ghosts \subseteq ghosts' /\ Owners(f)' = Owners(f)
      BY <1>2 DEF t
    <2>2. ~Lacks(s, "dropMemberships") /\ Lacks(s, "listOwned") /\ f \notin ghosts
      BY <1>1, <1>2, <2>1
    <2>3. c.user \in Owners(f) /\ Owners(f) \subseteq {c.user}
      BY <1>2, <2>1
    <2>4. \/ f \in c.owned /\ ~Lacks(s, "leaveFamilies")
          \/ f = c.family /\ ~Lacks(s, "sweepMembers")
      BY <2>2, <2>3 DEF Leaves
    <2>5. QED
      BY <1>1, <2>1, <2>4
  <1>3. Leaves(t, c2)'
    BY <1>2 DEF Leaves
  <1>4. QED
    BY <1>3 DEF t

LEMMA QuietErases ==
    ASSUME NEW s \in Seq(Step), s # <<>>, NEW c, NEW c2, Erases(s, c),
           Head(s) \notin {"listChildren", "eraseChildren", "dropChild"},
           ~Lacks(Tail(s), "sweepMembers") =>
               /\ c2.family = c.family /\ c2.child = c.child /\ c2.rest = c.rest
               /\ ChildrenOf(c.family)' \subseteq ChildrenOf(c.family)
    PROVE  Erases(Tail(s), c2)'
  <1> DEFINE t == Tail(s)
  <1>1. \A x : Lacks(s, x) <=> Head(s) # x /\ Lacks(t, x)
    BY LacksTail
  <1> HIDE DEF t
  <1>2. ASSUME ~Lacks(t, "sweepMembers"), Lacks(t, "listChildren"), NEW k \in ChildrenOf(c2.family)'
        PROVE  \/ k \in c2.rest /\ ~Lacks(t, "eraseChildren")
               \/ k = c2.child /\ ~Lacks(t, "dropChild")
    <2>1. /\ c2.family = c.family /\ c2.child = c.child /\ c2.rest = c.rest
          /\ ChildrenOf(c.family)' \subseteq ChildrenOf(c.family)
      BY <1>2 DEF t
    <2>2. ChildrenOf(c2.family)' = ChildrenOf(c.family)'
      BY <2>1 DEF ChildrenOf
    <2>3. k \in ChildrenOf(c.family)
      BY <1>2, <2>1, <2>2
    <2>4. ~Lacks(s, "sweepMembers") /\ Lacks(s, "listChildren")
      BY <1>1, <1>2
    <2>5. \/ k \in c.rest /\ ~Lacks(s, "eraseChildren")
          \/ k = c.child /\ ~Lacks(s, "dropChild")
      BY <2>3, <2>4 DEF Erases
    <2>6. QED
      BY <1>1, <2>1, <2>5
  <1>3. Erases(t, c2)'
    BY <1>2 DEF Erases
  <1>4. QED
    BY <1>3 DEF t

LEMMA CheckClaims ==
    ASSUME FamiliesInv, OrderInv, sync, NEW h \in Handler, pc[h] # <<>>, turn \in {None, h},
           NEW s, s = pc[h], NEW ok, NEW c, Check(h, ok, c),
           ok => Shown(s, c)' /\ Leaves(Tail(s), c)' /\ Erases(Tail(s), c)'
    PROVE  \A g \in Handler : HasClaim(g)'
  <1>1. s \in Seq(Step) /\ s # <<>> /\ Order(s)
    BY HasCall DEF OrderInv
  <1>2. CASE ok
    <2>1. PICK rest : rest = Tail(s)
      OBVIOUS
    <2>2. Run(h, rest, c)
      BY <1>2, <2>1 DEF Check, GoOn, Run
    <2>3. rest # <<>> => AtHead(rest, c)'
      <3>1. Tail(s) # <<>> => AtHead(Tail(s), c)'
        BY <1>1, <1>2, TailHead
      <3>2. QED
        BY <2>1, <3>1 DEF AtHead
    <2>4. Leaves(rest, c)' /\ Erases(rest, c)'
      BY <1>2, <2>1 DEF Leaves, Erases
    <2>5. rest # <<>> => Claim(rest, c)'
      BY <2>3, <2>4 DEF Claim
    <2>6. QED
      BY <2>2, <2>5, RunClaims
  <1>3. CASE ~ok
    <2>1. PICK rest, n : rest = <<>> /\ n = NoCall
      OBVIOUS
    <2>2. Run(h, rest, n)
      BY <1>3, <2>1 DEF Check, Run
    <2>3. QED
      BY <2>1, <2>2, RunClaims
  <1>4. QED
    BY <1>2, <1>3

\* What a handler that runs claims before its step.
LEMMA Claims ==
    ASSUME FamiliesInv, OrderInv, OwnersInv, sync, NEW h \in Handler, pc[h] # <<>>
    PROVE  /\ pc[h] \in Seq(Step) /\ Facts(pc[h]) /\ Order(pc[h]) /\ call[h] \in CallRecord
           /\ AtHead(pc[h], call[h]) /\ Leaves(pc[h], call[h]) /\ Erases(pc[h], call[h])
  BY HasCall DEF OrderInv, OwnersInv, HasClaim, Claim

Still == UNCHANGED <<users, members, children, ghosts>>

LEMMA StillHas ==
    ASSUME Still
    PROVE  \A f : /\ MembersOf(f)' = MembersOf(f) /\ Owners(f)' = Owners(f)
                  /\ ChildrenOf(f)' = ChildrenOf(f)
  BY DEF Still, MembersOf, Owners, ChildrenOf

LEMMA StillOwned == ASSUME OwnersInv, sync, Still PROVE Owned' /\ HaveAccounts'
  BY DEF OwnersInv, Still, Owned, HaveAccounts, MembersOf, ChildrenOf, Owners

\* A step that finds out nothing of owners and children.
LEMMA QuietClaims ==
    ASSUME FamiliesInv, OrderInv, OwnersInv, sync, NEW h \in Handler, NEW step, At(h, step),
           step \notin {"mayManageParents", "mayManagePolicy", "findPerson", "notMember", "findAssigned",
                        "createFamily", "dropMemberships", "listOwned", "leaveFamilies",
                        "sweepMembers", "listChildren", "eraseChildren", "dropChild"},
           NEW ok, NEW c, Check(h, ok, c), ghosts \subseteq ghosts',
           \A f : Owners(f)' = Owners(f) /\ ChildrenOf(f)' \subseteq ChildrenOf(f),
           c.user = call[h].user, c.family = call[h].family, c.owned = call[h].owned,
           c.rest = call[h].rest, step # "findDevice" => c.child = call[h].child
    PROVE  \A g \in Handler : HasClaim(g)'
  <1>1. PICK s, c0 : s = pc[h] /\ c0 = call[h]
    OBVIOUS
  <1>2. pc[h] # <<>> /\ turn \in {None, h} /\ Head(s) = step
    BY <1>1 DEF At
  <1>3. s \in Seq(Step) /\ s # <<>> /\ Order(s) /\ Leaves(s, c0) /\ Erases(s, c0)
    BY <1>1, <1>2, Claims
  <1>4. Head(s) = "findDevice" => Lacks(Tail(s), "sweepMembers")
    BY <1>3, NoneAfterTail DEF Order
  <1>5. Shown(s, c)'
    BY <1>2 DEF Shown
  <1>6. Leaves(Tail(s), c)'
    BY <1>1, <1>2, <1>3, QuietLeaves
  <1>7. Erases(Tail(s), c)'
    <2>1. ~Lacks(Tail(s), "sweepMembers") =>
               /\ c.family = c0.family /\ c.child = c0.child /\ c.rest = c0.rest
               /\ ChildrenOf(c0.family)' \subseteq ChildrenOf(c0.family)
      BY <1>1, <1>2, <1>4
    <2>2. QED
      BY <1>2, <1>3, <2>1, QuietErases
  <1>8. QED
    BY <1>1, <1>2, <1>5, <1>6, <1>7, CheckClaims

\* What a step shows of owners: the claims, and that every family has one.
Claimed == Owned' /\ HaveAccounts' /\ \A g \in Handler : HasClaim(g)'

LEMMA StoreStill ==
    ASSUME UNCHANGED <<tables, history>>
    PROVE  Still
  BY DEF tables, history, Still

\* A step that reads who belongs to a family: its check shows what is asked.
LEMMA RoleClaims ==
    ASSUME FamiliesInv, OrderInv, OwnersInv, sync, NEW h \in Handler, Still,
           NEW step \in {"wait", "isUser", "mayManageParents", "mayManagePolicy", "findPerson",
                         "notMember", "findAssigned"},
           At(h, step), NEW ok \in BOOLEAN, Check(h, ok, call[h]),
           ok /\ step \in {"mayManageParents", "mayManagePolicy"} => MembersOf(call[h].family) # {},
           ok /\ step = "findPerson" => call[h].person \in users
    PROVE  Claimed
  <1>1. PICK s, c : s = pc[h] /\ c = call[h]
    OBVIOUS
  <1>2. pc[h] # <<>> /\ turn \in {None, h} /\ Head(s) = step /\ Check(h, ok, c)
    BY <1>1 DEF At, Check, GoOn, Run
  <1>3. s \in Seq(Step) /\ s # <<>> /\ Order(s) /\ AtHead(s, c) /\ Leaves(s, c) /\ Erases(s, c)
    BY <1>1, <1>2, Claims
  <1>4. ASSUME ok PROVE Shown(s, c)'
    <2>1. /\ step \in {"findPerson", "notMember", "findAssigned"} => MembersOf(c.family) # {}
          /\ step \in {"notMember", "findAssigned"} => c.person \in users
      BY <1>2, <1>3 DEF AtHead
    <2>2. Shown(s, c)
      BY <1>1, <1>2, <1>4, <2>1 DEF Shown
    <2>3. QED
      BY <2>2, StillHas DEF Shown, Still, RowsOf
  <1>5. Leaves(Tail(s), c)'
    BY <1>2, <1>3, QuietLeaves, StillHas DEF Still
  <1>6. Erases(Tail(s), c)'
    BY <1>2, <1>3, QuietErases, StillHas
  <1>7. \A g \in Handler : HasClaim(g)'
    BY <1>1, <1>2, <1>4, <1>5, <1>6, CheckClaims
  <1>8. QED
    BY <1>7, StillOwned DEF Claimed

LEMMA ReadFamilyClaims ==
    ASSUME FamiliesInv, OrderInv, OwnersInv, sync, NEW h \in Handler, ReadFamily(h)
    PROVE  Claimed
  <1>0. Still
    BY StoreStill DEF ReadFamily, Read
  <1>1. ASSUME NEW step \in {"wait", "isUser", "mayManageParents", "mayManagePolicy", "findPerson",
                             "notMember", "findAssigned"},
               NEW ok \in BOOLEAN, Read(h, step, ok, call[h]),
               ok /\ step \in {"mayManageParents", "mayManagePolicy"} => MembersOf(call[h].family) # {},
               ok /\ step = "findPerson" => call[h].person \in users
        PROVE  Claimed
    BY <1>0, <1>1, RoleClaims DEF Read
  <1>2. CASE Read(h, "wait", TRUE, call[h])
    <2>1. PICK ok \in BOOLEAN : ok
      OBVIOUS
    <2>2. Read(h, "wait", ok, call[h])
      BY <1>2, <2>1 DEF Read, Check, GoOn, Run
    <2>3. QED
      BY <1>1, <2>2
  <1>3. CASE Read(h, "isUser", call[h].user \in users, call[h])
    <2>1. PICK ok \in BOOLEAN : ok <=> call[h].user \in users
      OBVIOUS
    <2>2. Read(h, "isUser", ok, call[h])
      BY <1>3, <2>1 DEF Read, Check, GoOn, Run
    <2>3. QED
      BY <1>1, <2>2
  <1>4. ASSUME NEW step \in {"mayManageParents", "mayManagePolicy"}, NEW roles,
               Read(h, step, HasRole(call[h].family, call[h].user, roles), call[h])
        PROVE  Claimed
    <2>1. PICK ok \in BOOLEAN : ok <=> HasRole(call[h].family, call[h].user, roles)
      OBVIOUS
    <2>2. Read(h, step, ok, call[h])
      BY <1>4, <2>1 DEF Read, Check, GoOn, Run, HasRole
    <2>3. ok => MembersOf(call[h].family) # {}
      BY <2>1 DEF HasRole, RowOf
    <2>4. QED
      BY <1>1, <2>2, <2>3
  <1>5. CASE Read(h, "findPerson", call[h].person \in users, call[h])
    <2>1. PICK ok \in BOOLEAN : ok <=> call[h].person \in users
      OBVIOUS
    <2>2. Read(h, "findPerson", ok, call[h])
      BY <1>5, <2>1 DEF Read, Check, GoOn, Run
    <2>3. QED
      BY <1>1, <2>1, <2>2
  <1>6. CASE Read(h, "notMember", RowOf(call[h].family, call[h].person) = {}, call[h])
    <2>1. PICK ok \in BOOLEAN : ok <=> RowOf(call[h].family, call[h].person) = {}
      OBVIOUS
    <2>2. Read(h, "notMember", ok, call[h])
      BY <1>6, <2>1 DEF Read, Check, GoOn, Run
    <2>3. QED
      BY <1>1, <2>2
  <1>7. CASE Read(h, "findAssigned", call[h].assigned \subseteq ChildrenOf(call[h].family), call[h])
    <2>1. PICK ok \in BOOLEAN : ok <=> call[h].assigned \subseteq ChildrenOf(call[h].family)
      OBVIOUS
    <2>2. Read(h, "findAssigned", ok, call[h])
      BY <1>7, <2>1 DEF Read, Check, GoOn, Run
    <2>3. QED
      BY <1>1, <2>2
  <1>8. QED
    BY <1>2, <1>3, <1>4, <1>5, <1>6, <1>7 DEF ReadFamily

\* A step that leaves accounts, members and children alone.
LEMMA StillClaims ==
    ASSUME FamiliesInv, OrderInv, OwnersInv, sync, NEW h \in Handler, Still, NEW step, At(h, step),
           step \notin {"mayManageParents", "mayManagePolicy", "findPerson", "notMember", "findAssigned",
                        "createFamily", "dropMemberships", "listOwned", "leaveFamilies",
                        "sweepMembers", "listChildren", "eraseChildren", "dropChild"},
           NEW ok, NEW c, Check(h, ok, c),
           c.user = call[h].user, c.family = call[h].family, c.owned = call[h].owned,
           c.rest = call[h].rest, step # "findDevice" => c.child = call[h].child
    PROVE  Claimed
  <1>1. ghosts \subseteq ghosts' /\ \A f : Owners(f)' = Owners(f) /\ ChildrenOf(f)' \subseteq ChildrenOf(f)
    BY StillHas DEF Still
  <1>2. \A g \in Handler : HasClaim(g)'
    BY <1>1, QuietClaims
  <1>3. QED
    BY <1>2, StillOwned DEF Claimed

LEMMA WriteClaims ==
    ASSUME FamiliesInv, OrderInv, OwnersInv, sync, NEW h \in Handler, Still, NEW step,
           step \notin {"mayManageParents", "mayManagePolicy", "findPerson", "notMember", "findAssigned",
                        "createFamily", "dropMemberships", "listOwned", "leaveFamilies",
                        "sweepMembers", "listChildren", "eraseChildren", "dropChild"},
           NEW c, Write(h, step, c),
           c.user = call[h].user, c.family = call[h].family, c.owned = call[h].owned,
           c.rest = call[h].rest, step # "findDevice" => c.child = call[h].child
    PROVE  Claimed
  <1>1. PICK ok \in {TRUE} : TRUE
    OBVIOUS
  <1>2. At(h, step) /\ Check(h, ok, c)
    BY <1>1 DEF Write, Check
  <1>3. QED
    BY <1>2, StillClaims

LEMMA ReadChildClaims ==
    ASSUME FamiliesInv, OrderInv, OwnersInv, sync, NEW h \in Handler, ReadChild(h)
    PROVE  Claimed
  <1>0. Still /\ pc[h] # <<>> /\ turn \in {None, h} /\ call[h] \in CallRecord
    BY StoreStill, HasCall DEF ReadChild, Read, At
  <1>1. CASE Read(h, "findChild", call[h].child \in ChildrenOf(call[h].family),
                  [call[h] EXCEPT !.row = children[call[h].child]])
    <2>1. PICK c, ok, step : /\ c = [call[h] EXCEPT !.row = children[call[h].child]]
                             /\ ok = (call[h].child \in ChildrenOf(call[h].family))
                             /\ step = "findChild"
      OBVIOUS
    <2>2. At(h, step) /\ Check(h, ok, c)
      BY <1>1, <2>1 DEF Read, At, Check, GoOn, Run
    <2>3. /\ c.user = call[h].user /\ c.family = call[h].family /\ c.owned = call[h].owned
          /\ c.rest = call[h].rest /\ c.child = call[h].child
      BY <1>0, <2>1 DEF CallRecord
    <2>4. QED
      BY <1>0, <2>1, <2>2, <2>3, StillClaims
  <1>2. ASSUME NEW step \in {"listDevices", "listAssigned"}, NEW S, At(h, step),
               Check(h, TRUE, [call[h] EXCEPT !.listed = S])
        PROVE  Claimed
    <2>1. PICK c, ok : c = [call[h] EXCEPT !.listed = S] /\ ok = TRUE
      OBVIOUS
    <2>2. Check(h, ok, c)
      BY <1>2, <2>1 DEF Check, GoOn, Run
    <2>3. /\ c.user = call[h].user /\ c.family = call[h].family /\ c.owned = call[h].owned
          /\ c.rest = call[h].rest /\ c.child = call[h].child
      BY <1>0, <2>1 DEF CallRecord
    <2>4. QED
      BY <1>0, <1>2, <2>2, <2>3, StillClaims
  <1>3. CASE Read(h, "listDevices", TRUE, [call[h] EXCEPT !.listed =
                    DevicesOf(call[h].child) \cap DevicesIn(call[h].family)])
    <2>1. PICK step \in {"listDevices"}, S \in SUBSET Device :
               S = DevicesOf(call[h].child) \cap DevicesIn(call[h].family)
      BY DEF DevicesOf
    <2>2. At(h, step) /\ Check(h, TRUE, [call[h] EXCEPT !.listed = S])
      BY <1>3, <2>1 DEF Read, Check, GoOn, Run, At
    <2>3. QED
      BY <1>2, <2>2
  <1>4. CASE Read(h, "listAssigned", TRUE, [call[h] EXCEPT !.listed =
                    {m \in MembersOf(call[h].family) : call[h].child \in members[m].assigned}])
    <2>1. PICK step \in {"listAssigned"}, S \in SUBSET Member :
               S = {m \in MembersOf(call[h].family) : call[h].child \in members[m].assigned}
      BY DEF MembersOf
    <2>2. At(h, step) /\ Check(h, TRUE, [call[h] EXCEPT !.listed = S])
      BY <1>4, <2>1 DEF Read, Check, GoOn, Run, At
    <2>3. QED
      BY <1>2, <2>2
  <1>5. CASE Read(h, "listChildren", TRUE, [call[h] EXCEPT !.rest = ChildrenOf(call[h].family)])
    <2>1. PICK c, ok, s, c0 : /\ c = [call[h] EXCEPT !.rest = ChildrenOf(call[h].family)]
                              /\ ok = TRUE /\ s = pc[h] /\ c0 = call[h]
      OBVIOUS
    <2>2. Check(h, ok, c) /\ Head(s) = "listChildren"
      BY <1>5, <2>1 DEF Read, At, Check, GoOn, Run
    <2>3. /\ s \in Seq(Step) /\ s # <<>> /\ Order(s) /\ Leaves(s, c0) /\ c0 \in CallRecord
      BY <1>0, <2>1, Claims
    <2>4. /\ c.user = c0.user /\ c.family = c0.family /\ c.owned = c0.owned
          /\ c.rest = ChildrenOf(c.family)
      BY <2>1, <2>3 DEF CallRecord
    <2>5. ~Lacks(Tail(s), "eraseChildren")
      <3>1. Tail(s) # <<>> /\ Head(Tail(s)) = "eraseChildren" /\ Tail(s) \in Seq(Step)
        BY <2>2, <2>3, FollowedTail, TailSteps DEF Order
      <3>2. QED
        BY <3>1, LacksTail
    <2>6. Shown(s, c)'
      BY <2>2 DEF Shown
    <2>7. Leaves(Tail(s), c)'
      BY <1>0, <2>2, <2>3, <2>4, QuietLeaves, StillHas DEF Still
    <2>8. Erases(Tail(s), c)'
      <3>1. \A k \in ChildrenOf(c.family)' : k \in c.rest
        BY <1>0, <2>4, StillHas
      <3>2. QED
        BY <2>5, <3>1 DEF Erases
    <2>9. \A g \in Handler : HasClaim(g)'
      BY <1>0, <2>1, <2>2, <2>6, <2>7, <2>8, CheckClaims
    <2>10. QED
      BY <1>0, <2>9, StillOwned DEF Claimed
  <1>6. QED
    BY <1>1, <1>3, <1>4, <1>5 DEF ReadChild

LEMMA ReadDeviceClaims ==
    ASSUME FamiliesInv, OrderInv, OwnersInv, sync, NEW h \in Handler, ReadDevice(h)
    PROVE  Claimed
  <1>0. Still /\ pc[h] # <<>> /\ turn \in {None, h} /\ call[h] \in CallRecord
    BY StoreStill, HasCall DEF ReadDevice, Read, At
  <1>1. CASE Read(h, "findDevice", devices[call[h].device] # None
                                   /\ devices[call[h].device].family = call[h].family,
                  [call[h] EXCEPT !.child = devices[call[h].device].child])
    <2>1. PICK c, ok, step : /\ c = [call[h] EXCEPT !.child = devices[call[h].device].child]
                             /\ ok = (devices[call[h].device] # None
                                      /\ devices[call[h].device].family = call[h].family)
                             /\ step = "findDevice"
      OBVIOUS
    <2>2. At(h, step) /\ Check(h, ok, c)
      BY <1>1, <2>1 DEF Read, At, Check, GoOn, Run
    <2>3. /\ c.user = call[h].user /\ c.family = call[h].family /\ c.owned = call[h].owned
          /\ c.rest = call[h].rest
      BY <1>0, <2>1 DEF CallRecord
    <2>4. QED
      BY <1>0, <2>1, <2>2, <2>3, StillClaims
  <1>2. CASE Read(h, "readDevice", devices[call[h].device] # None,
                  [call[h] EXCEPT !.row = devices[call[h].device]])
    <2>1. PICK c, ok, step : /\ c = [call[h] EXCEPT !.row = devices[call[h].device]]
                             /\ ok = (devices[call[h].device] # None) /\ step = "readDevice"
      OBVIOUS
    <2>2. At(h, step) /\ Check(h, ok, c)
      BY <1>2, <2>1 DEF Read, At, Check, GoOn, Run
    <2>3. /\ c.user = call[h].user /\ c.family = call[h].family /\ c.owned = call[h].owned
          /\ c.rest = call[h].rest /\ c.child = call[h].child
      BY <1>0, <2>1 DEF CallRecord
    <2>4. QED
      BY <1>0, <2>1, <2>2, <2>3, StillClaims
  <1>3. CASE Read(h, "readCode", codes[call[h].code].live, call[h])
    <2>1. PICK c, ok, step : c = call[h] /\ ok = codes[call[h].code].live /\ step = "readCode"
      OBVIOUS
    <2>2. At(h, step) /\ Check(h, ok, c)
      BY <1>3, <2>1 DEF Read, At, Check, GoOn, Run
    <2>3. QED
      BY <1>0, <2>1, <2>2, StillClaims
  <1>4. QED
    BY <1>1, <1>2, <1>3 DEF ReadDevice

\* Rows of a set of families or users, seen from the rows.
LEMMA OwnersAre ==
    /\ \A f, u : u \in Owners(f) <=> \E m \in Member :
            /\ members[m] # None /\ members[m].family = f /\ members[m].role = "OWNER"
            /\ members[m].user = u
    /\ \A f, u : u \in Owners(f)' <=> \E m \in Member :
            /\ members'[m] # None /\ members'[m].family = f /\ members'[m].role = "OWNER"
            /\ members'[m].user = u
  BY DEF Owners, MembersOf

LEMMA LeaveClaims ==
    ASSUME FamiliesInv, OrderInv, OwnersInv, sync, NEW h \in Handler, leaveFamilies(h)
    PROVE  Claimed
  <1>0. Still /\ pc[h] # <<>> /\ turn \in {None, h}
    BY StoreStill DEF leaveFamilies, At
  <1>a. PICK s, c0 : s = pc[h] /\ c0 = call[h]
    OBVIOUS
  <1>b. /\ s \in Seq(Step) /\ s # <<>> /\ Order(s) /\ Facts(s) /\ c0 \in CallRecord
        /\ Leaves(s, c0) /\ Erases(s, c0)
    BY <1>0, <1>a, Claims
  <1> DEFINE owned == {members[m].family : m \in {x \in RowsOf(call[h].user) : members[x].role = "OWNER"}}
  <1>1. CASE At(h, "listOwned") /\ GoOn(h, [call[h] EXCEPT !.owned = owned])
    <2>1. PICK c, ok : c = [c0 EXCEPT !.owned = owned] /\ ok = TRUE
      OBVIOUS
    <2>2. Check(h, ok, c) /\ Head(s) = "listOwned"
      BY <1>1, <1>a, <2>1 DEF At, Check, GoOn, Run
    <2>3. /\ c.user = c0.user /\ c.family = c0.family /\ c.owned = owned
          /\ c.rest = c0.rest /\ c.child = c0.child
      BY <1>b, <2>1 DEF CallRecord
    <2>4. ~Lacks(Tail(s), "leaveFamilies")
      <3>1. Tail(s) # <<>> /\ Head(Tail(s)) = "leaveFamilies" /\ Tail(s) \in Seq(Step)
        BY <1>b, <2>2, FollowedTail, TailSteps DEF Order
      <3>2. QED
        BY <3>1, LacksTail
    <2>5. \A f : c0.user \in Owners(f) => f \in owned
      BY <1>a DEF Owners, MembersOf, RowsOf
    <2>6. \A f : c.user \in Owners(f)' => f \in c.owned
      BY <1>0, <2>3, <2>5, StillHas
    <2>7. Shown(s, c)' /\ Leaves(Tail(s), c)'
      BY <2>2, <2>4, <2>6 DEF Shown, Leaves
    <2>8. Erases(Tail(s), c)'
      BY <1>0, <1>b, <2>2, <2>3, QuietErases, StillHas
    <2>9. \A g \in Handler : HasClaim(g)'
      BY <1>0, <1>a, <2>2, <2>7, <2>8, CheckClaims
    <2>10. QED
      BY <1>0, <2>9, StillOwned DEF Claimed
  <1>c. ASSUME Head(s) = "leaveFamilies"
        PROVE  /\ Lacks(s, "sweepMembers")
               /\ ~Lacks(s, "leaveFamilies")
    BY <1>b, <1>c, NoneAfterTail, LacksTail DEF Order
  <1>2. CASE At(h, "leaveFamilies") /\ call[h].owned = {} /\ GoOn(h, call[h])
    <2>1. PICK c, ok : c = c0 /\ ok = TRUE
      OBVIOUS
    <2>2. Check(h, ok, c) /\ Head(s) = "leaveFamilies" /\ c.owned = {}
      BY <1>2, <1>a, <2>1 DEF At, Check, GoOn, Run
    <2>3. Shown(s, c)'
      BY <2>2 DEF Shown
    <2>4. Leaves(Tail(s), c)'
      <3>1. \A x : Lacks(s, x) <=> Head(s) # x /\ Lacks(Tail(s), x)
        BY <1>b, LacksTail
      <3>2. ASSUME ~Lacks(Tail(s), "dropMemberships"), Lacks(Tail(s), "listOwned"),
                   NEW f \in Family, f \notin ghosts', c.user \in Owners(f)', Owners(f)' \subseteq {c.user}
            PROVE  FALSE
        <4>1. ~Lacks(s, "dropMemberships") /\ Lacks(s, "listOwned")
          BY <2>2, <3>1, <3>2
        <4>2. f \notin ghosts /\ c.user \in Owners(f) /\ Owners(f) \subseteq {c.user}
          BY <1>0, <3>2, StillHas DEF Still
        <4>3. QED
          BY <1>b, <1>c, <2>1, <2>2, <4>1, <4>2 DEF Leaves
      <3>3. QED
        BY <3>2 DEF Leaves
    <2>5. Erases(Tail(s), c)'
      BY <1>0, <1>b, <2>1, <2>2, QuietErases, StillHas
    <2>6. \A g \in Handler : HasClaim(g)'
      BY <1>0, <1>a, <2>2, <2>3, <2>4, <2>5, CheckClaims
    <2>7. QED
      BY <1>0, <2>6, StillOwned DEF Claimed
  <1>3. ASSUME NEW f \in call[h].owned, At(h, "leaveFamilies"),
               Run(h, (IF Owners(f) \ {call[h].user} # {} THEN <<>> ELSE deleteFamilyCascade) \o pc[h],
                   [call[h] EXCEPT !.family = f, !.owned = @ \ {f}])
        PROVE  Claimed
    <2>1. PICK q \in {<<>>, deleteFamilyCascade} :
            q = IF Owners(f) \ {c0.user} # {} THEN <<>> ELSE deleteFamilyCascade
      OBVIOUS
    <2>2. PICK c : c = [c0 EXCEPT !.family = f, !.owned = @ \ {f}]
      OBVIOUS
    <2>3. PICK rest : rest = q \o s
      OBVIOUS
    <2>4. Run(h, rest, c) /\ Head(s) = "leaveFamilies"
      BY <1>3, <1>a, <2>1, <2>2, <2>3 DEF Run, At
    <2>5. c.user = c0.user /\ c.family = f /\ c.owned = c0.owned \ {f} /\ f \in Family
      BY <1>3, <1>a, <1>b, <2>2 DEF CallRecord
    <2>6. q \in Seq(Step) /\ \A x : Lacks(rest, x) <=> Lacks(q, x) /\ Lacks(s, x)
      <3>1. q \in Seq(Step)
        BY <2>1, CascadesFit
      <3>2. ASSUME NEW x PROVE Lacks(q \o s, x) <=> Lacks(q, x) /\ Lacks(s, x)
        BY <1>b, <3>1, ConcatLacks
      <3>3. QED
        BY <2>3, <3>1, <3>2
    <2>7. Head(rest) \in {"leaveFamilies", "listChildren"}
      <3>1. q = <<>> => rest = s
        BY <1>b, <2>3
      <3>2. q # <<>> => Head(rest) = Head(q)
        BY <1>b, <2>3, <2>6
      <3>3. QED
        BY <2>1, <2>4, <3>1, <3>2, Absent4
    <2>8. Erases(rest, c)'
      <3>1. Lacks(rest, "sweepMembers") \/ ~Lacks(rest, "listChildren")
        BY <1>c, <2>1, <2>4, <2>6, Absent4, EmptyLacks
      <3>2. QED
        BY <3>1 DEF Erases
    <2>9. Leaves(rest, c)'
      <3>1. ASSUME ~Lacks(rest, "dropMemberships"), Lacks(rest, "listOwned"),
                   NEW e \in Family, e \notin ghosts', c.user \in Owners(e)', Owners(e)' \subseteq {c.user}
            PROVE  \/ e \in c.owned /\ ~Lacks(rest, "leaveFamilies")
                   \/ e = c.family /\ ~Lacks(rest, "sweepMembers")
        <4>1. e \notin ghosts /\ c0.user \in Owners(e) /\ Owners(e) \subseteq {c0.user}
          BY <1>0, <2>5, <3>1, StillHas DEF Still
        <4>2. Lacks(q, "dropMemberships")
          BY <2>1, EmptyLacks DEF deleteFamilyCascade, Lacks
        <4>3. ~Lacks(s, "dropMemberships") /\ Lacks(s, "listOwned")
          BY <2>6, <3>1, <4>2
        <4>4. e \in c0.owned
          BY <1>b, <1>c, <2>4, <4>1, <4>3 DEF Leaves
        <4>5. CASE e = f
          <5>1. q = deleteFamilyCascade
            BY <2>1, <4>1, <4>5
          <5>2. ~Lacks(deleteFamilyCascade, "sweepMembers")
            BY DEF deleteFamilyCascade, Lacks
          <5>3. QED
            BY <2>5, <2>6, <4>5, <5>1, <5>2
        <4>6. CASE e # f
          BY <1>c, <2>4, <2>5, <2>6, <4>4, <4>6
        <4>7. QED
          BY <4>5, <4>6
      <3>2. QED
        BY <3>1 DEF Leaves
    <2>10. AtHead(rest, c)'
      BY <2>7 DEF AtHead
    <2>11. \A g \in Handler : HasClaim(g)'
      BY <1>0, <2>4, <2>8, <2>9, <2>10, RunClaims DEF Claim
    <2>12. QED
      BY <1>0, <2>11, StillOwned DEF Claimed
  <1>4. QED
    BY <1>1, <1>2, <1>3 DEF leaveFamilies

LEMMA EraseClaims ==
    ASSUME FamiliesInv, OrderInv, OwnersInv, sync, NEW h \in Handler, eraseChildren(h)
    PROVE  Claimed
  <1>0. Still /\ pc[h] # <<>> /\ turn \in {None, h}
    BY StoreStill DEF eraseChildren, At
  <1>a. PICK s, c0 : s = pc[h] /\ c0 = call[h]
    OBVIOUS
  <1>b. /\ s \in Seq(Step) /\ s # <<>> /\ Order(s) /\ Facts(s) /\ c0 \in CallRecord
        /\ Leaves(s, c0) /\ Erases(s, c0) /\ Head(s) = "eraseChildren"
    BY <1>0, <1>a, Claims DEF eraseChildren, At
  <1>c. Lacks(s, "dropChild") /\ ~Lacks(s, "eraseChildren")
    BY <1>b, NoneAfterTail, LacksTail DEF Order
  <1>1. CASE call[h].rest = {} /\ GoOn(h, call[h])
    <2>1. PICK c, ok : c = c0 /\ ok = TRUE
      OBVIOUS
    <2>2. Check(h, ok, c) /\ c.rest = {}
      BY <1>1, <1>a, <2>1 DEF Check, GoOn, Run
    <2>3. Shown(s, c)'
      BY <1>b DEF Shown
    <2>4. Leaves(Tail(s), c)'
      BY <1>0, <1>b, <2>1, QuietLeaves, StillHas DEF Still
    <2>5. Erases(Tail(s), c)'
      <3>1. \A x : Lacks(s, x) <=> Head(s) # x /\ Lacks(Tail(s), x)
        BY <1>b, LacksTail
      <3>2. ASSUME ~Lacks(Tail(s), "sweepMembers"), Lacks(Tail(s), "listChildren"),
                   NEW k \in ChildrenOf(c.family)'
            PROVE  FALSE
        <4>1. ~Lacks(s, "sweepMembers") /\ Lacks(s, "listChildren") /\ k \in ChildrenOf(c0.family)
          BY <1>0, <1>b, <2>1, <3>1, <3>2, StillHas
        <4>2. QED
          BY <1>b, <1>c, <2>1, <2>2, <4>1 DEF Erases
      <3>3. QED
        BY <3>2 DEF Erases
    <2>6. \A g \in Handler : HasClaim(g)'
      BY <1>0, <1>a, <2>2, <2>3, <2>4, <2>5, CheckClaims
    <2>7. QED
      BY <1>0, <2>6, StillOwned DEF Claimed
  <1>2. ASSUME NEW k \in call[h].rest,
               Run(h, deleteChildCascade \o pc[h], [call[h] EXCEPT !.child = k, !.rest = @ \ {k}])
        PROVE  Claimed
    <2>1. PICK c : c = [c0 EXCEPT !.child = k, !.rest = @ \ {k}]
      OBVIOUS
    <2>2. PICK rest : rest = deleteChildCascade \o s
      OBVIOUS
    <2>3. Run(h, rest, c)
      BY <1>2, <1>a, <2>1, <2>2 DEF Run
    <2>4. /\ c.user = c0.user /\ c.family = c0.family /\ c.owned = c0.owned
          /\ c.child = k /\ c.rest = c0.rest \ {k}
      BY <1>b, <2>1 DEF CallRecord
    <2>5. \A x : Lacks(rest, x) <=> Lacks(deleteChildCascade, x) /\ Lacks(s, x)
      BY <1>b, <2>2, CascadeFacts, ConcatLacks
    <2>6. /\ \A x \in {"dropMemberships", "listOwned", "leaveFamilies", "sweepMembers", "listChildren"} :
                Lacks(deleteChildCascade, x)
          /\ ~Lacks(deleteChildCascade, "dropChild")
      BY DEF deleteChildCascade, Lacks
    <2>7. Leaves(rest, c)'
      <3>1. ASSUME ~Lacks(rest, "dropMemberships"), Lacks(rest, "listOwned"),
                   NEW e \in Family, e \notin ghosts', c.user \in Owners(e)', Owners(e)' \subseteq {c.user}
            PROVE  \/ e \in c.owned /\ ~Lacks(rest, "leaveFamilies")
                   \/ e = c.family /\ ~Lacks(rest, "sweepMembers")
        <4>1. e \notin ghosts /\ c0.user \in Owners(e) /\ Owners(e) \subseteq {c0.user}
          BY <1>0, <2>4, <3>1, StillHas DEF Still
        <4>2. ~Lacks(s, "dropMemberships") /\ Lacks(s, "listOwned")
          BY <2>5, <2>6, <3>1
        <4>3. \/ e \in c0.owned /\ ~Lacks(s, "leaveFamilies")
              \/ e = c0.family /\ ~Lacks(s, "sweepMembers")
          BY <1>b, <4>1, <4>2 DEF Leaves
        <4>4. QED
          BY <2>4, <2>5, <4>3
      <3>2. QED
        BY <3>1 DEF Leaves
    <2>8. Erases(rest, c)'
      <3>1. ASSUME ~Lacks(rest, "sweepMembers"), Lacks(rest, "listChildren"),
                   NEW i \in ChildrenOf(c.family)'
            PROVE  \/ i \in c.rest /\ ~Lacks(rest, "eraseChildren")
                   \/ i = c.child /\ ~Lacks(rest, "dropChild")
        <4>1. ~Lacks(s, "sweepMembers") /\ Lacks(s, "listChildren")
          BY <2>5, <2>6, <3>1
        <4>2. i \in ChildrenOf(c0.family)
          BY <1>0, <2>4, <3>1, StillHas
        <4>3. i \in c0.rest
          BY <1>b, <1>c, <4>1, <4>2 DEF Erases
        <4>4. QED
          BY <1>c, <2>4, <2>5, <2>6, <4>3
      <3>2. QED
        BY <3>1 DEF Erases
    <2>9. Head(rest) = "listDevices"
      <3>1. deleteChildCascade \in Seq(Step) /\ deleteChildCascade # <<>>
            /\ Head(deleteChildCascade) = "listDevices"
        BY CascadeFacts, Absent4
      <3>2. QED
        BY <1>b, <2>2, <3>1
    <2>10. AtHead(rest, c)'
      BY <2>9 DEF AtHead
    <2>11. \A g \in Handler : HasClaim(g)'
      BY <1>0, <2>3, <2>7, <2>8, <2>10, RunClaims DEF Claim
    <2>12. QED
      BY <1>0, <2>11, StillOwned DEF Claimed
  <1>3. QED
    BY <1>1, <1>2 DEF eraseChildren

-----------------------------------------------------------------------------
(* Owners: the steps that write. *)

LEMMA NewMember ==
    ASSUME FamiliesInv, HasFresh(members), NEW row \in MemberRow,
           members' = [members EXCEPT ![Fresh(members)] = row]
    PROVE  \E m \in Member : /\ members[m] = None /\ members'[m] # None /\ members'[m] = row
                             /\ \A n \in Member \ {m} : members'[n] = members[n]
  <1>1. PICK m \in Member : m = Fresh(members) /\ members[m] = None
    BY DEF FamiliesInv, TablesOK, HasFresh, Fresh
  <1>2. row # None
    BY FamiliesAssumption
  <1>3. members'[m] = row /\ \A n \in Member \ {m} : members'[n] = members[n]
    BY <1>1 DEF FamiliesInv, TablesOK
  <1>4. QED
    BY <1>1, <1>2, <1>3

\* A new row leaves every family the owners it had, and the others theirs.
LEMMA NewMemberOwns ==
    ASSUME NEW m \in Member, NEW f, NEW u, members[m] = None, members'[m] # None,
           members'[m].family = f, members'[m].user = u,
           \A n \in Member \ {m} : members'[n] = members[n]
    PROVE  /\ \A g : g # f => MembersOf(g)' = MembersOf(g) /\ Owners(g)' = Owners(g)
           /\ \A g : Owners(g) \subseteq Owners(g)'
           /\ members'[m].role = "OWNER" => u \in Owners(f)'
  <1>1. ASSUME NEW g, g # f PROVE MembersOf(g)' = MembersOf(g)
    BY <1>1 DEF MembersOf
  <1>2. ASSUME NEW g, NEW v, v \in Owners(g) PROVE v \in Owners(g)'
    <2>1. PICK n \in Member : /\ members[n] # None /\ members[n].family = g
                              /\ members[n].role = "OWNER" /\ members[n].user = v
      BY <1>2, OwnersAre
    <2>2. n # m /\ members'[n] = members[n]
      BY <2>1
    <2>3. QED
      BY <2>1, <2>2, OwnersAre
  <1>3. ASSUME NEW g, g # f, NEW v, v \in Owners(g)' PROVE v \in Owners(g)
    <2>1. PICK n \in Member : /\ members'[n] # None /\ members'[n].family = g
                              /\ members'[n].role = "OWNER" /\ members'[n].user = v
      BY <1>3, OwnersAre
    <2>2. n # m /\ members'[n] = members[n]
      BY <1>3, <2>1
    <2>3. QED
      BY <2>1, <2>2, OwnersAre
  <1>4. \A g : Owners(g) \subseteq Owners(g)'
    BY <1>2
  <1>5. ASSUME NEW g, g # f PROVE Owners(g)' = Owners(g)
    <2>1. \A v : v \in Owners(g)' <=> v \in Owners(g)
      BY <1>2, <1>3, <1>5
    <2>2. QED
      BY <2>1
  <1>6. members'[m].role = "OWNER" => u \in Owners(f)'
    BY OwnersAre
  <1>7. QED
    BY <1>1, <1>4, <1>5, <1>6

\* A founder owns the family.
LEMMA AddOwnerClaims ==
    ASSUME FamiliesInv, OrderInv, OwnersInv, sync, NEW h \in Handler,
           HasFresh(members), Write(h, "addOwner", call[h]),
           members' = [members EXCEPT ![Fresh(members)] =
               [family |-> call[h].family, user |-> call[h].user, role |-> "OWNER", assigned |-> {}]],
           UNCHANGED <<users, children, ghosts>>
    PROVE  Claimed
  <1>1. PICK s, c : s = pc[h] /\ c = call[h]
    OBVIOUS
  <1>2. At(h, "addOwner") /\ pc[h] # <<>> /\ turn \in {None, h} /\ Head(s) = "addOwner" /\ GoOn(h, c)
    BY <1>1 DEF Write, At, GoOn, Run
  <1>3. /\ s \in Seq(Step) /\ s # <<>> /\ Order(s) /\ Facts(s) /\ c \in CallRecord
        /\ AtHead(s, c) /\ Leaves(s, c) /\ Erases(s, c) /\ Needs(s, c)
    BY <1>1, <1>2, Claims, HasCall
  <1>4. c.family \in Family /\ c.user \in User
    <2>1. ~Lacks(s, "addOwner") /\ Lacks(s, "createFamily")
      BY <1>2, <1>3, LacksTail, NoneAfterTail DEF Facts
    <2>2. QED
      BY <1>3, <2>1 DEF Needs
  <1>5. PICK m \in Member :
            /\ members[m] = None /\ members'[m] # None
            /\ members'[m].family = c.family /\ members'[m].user = c.user
            /\ members'[m].role = "OWNER"
            /\ \A n \in Member \ {m} : members'[n] = members[n]
    <2>1. PICK row : row = [family |-> c.family, user |-> c.user, role |-> "OWNER", assigned |-> {}]
      OBVIOUS
    <2>2. row \in MemberRow
      BY <1>4, <2>1 DEF MemberRow, Role
    <2>3. members' = [members EXCEPT ![Fresh(members)] = row]
      BY <1>1, <2>1
    <2>4. PICK m \in Member : /\ members[m] = None /\ members'[m] # None /\ members'[m] = row
                             /\ \A n \in Member \ {m} : members'[n] = members[n]
      BY <2>2, <2>3, NewMember
    <2>5. row.family = c.family /\ row.user = c.user /\ row.role = "OWNER"
      BY <2>1
    <2>6. QED
      BY <2>4, <2>5
  <1>6. /\ \A f : f # c.family => MembersOf(f)' = MembersOf(f) /\ Owners(f)' = Owners(f)
        /\ c.user \in Owners(c.family)'
        /\ \A f : ChildrenOf(f)' = ChildrenOf(f)
    <2>1. PICK f, u : f = c.family /\ u = c.user
      OBVIOUS
    <2>2. members'[m].family = f /\ members'[m].user = u
      BY <1>5, <2>1
    <2>3. /\ \A g : g # f => MembersOf(g)' = MembersOf(g) /\ Owners(g)' = Owners(g)
          /\ u \in Owners(f)'
      BY <1>5, <2>2, NewMemberOwns
    <2>4. c.user \in Owners(c.family)'
      BY <2>1, <2>3, OwnersAre
    <2>5. QED
      BY <2>1, <2>3, <2>4 DEF ChildrenOf
  <1>7. c.family \in ghosts \/ c.user \in users
    BY <1>2, <1>3 DEF AtHead
  <1>8. Owned'
    BY <1>6, <1>7 DEF Owned, OwnersInv
  <1>9. HaveAccounts'
    BY <1>5, <1>7 DEF HaveAccounts, OwnersInv
  <1>10. Lacks(Tail(s), "dropMemberships")
    BY <1>2, <1>3, NoneAfterTail DEF Order
  <1>11. Shown(s, c)' /\ Leaves(Tail(s), c)' /\ Erases(Tail(s), c)'
    <2>1. Shown(s, c)'
      BY <1>2 DEF Shown
    <2>2. Leaves(Tail(s), c)'
      BY <1>10 DEF Leaves
    <2>3. Erases(Tail(s), c)'
      BY <1>2, <1>3, <1>6, QuietErases
    <2>4. QED
      BY <2>1, <2>2, <2>3
  <1>12. PICK ok \in {TRUE} : Check(h, ok, c)
    BY <1>2 DEF Check
  <1>13. \A g \in Handler : HasClaim(g)'
    BY <1>1, <1>2, <1>11, <1>12, CheckClaims
  <1>14. QED
    BY <1>8, <1>9, <1>13 DEF Claimed

\* Only a family that has members, and so an owner, gets another.
LEMMA AddMemberClaims ==
    ASSUME FamiliesInv, OrderInv, OwnersInv, sync, NEW h \in Handler,
           HasFresh(members), Write(h, "addMember", call[h]),
           members' = [members EXCEPT ![Fresh(members)] =
               [family |-> call[h].family, user |-> call[h].person, role |-> call[h].role,
                assigned |-> call[h].assigned]],
           UNCHANGED <<users, children, ghosts>>
    PROVE  Claimed
  <1>1. PICK s, c : s = pc[h] /\ c = call[h]
    OBVIOUS
  <1>2. At(h, "addMember") /\ pc[h] # <<>> /\ turn \in {None, h} /\ Head(s) = "addMember" /\ GoOn(h, c)
    BY <1>1 DEF Write, At, GoOn, Run
  <1>3. /\ s \in Seq(Step) /\ s # <<>> /\ Order(s) /\ Facts(s) /\ c \in CallRecord
        /\ AtHead(s, c) /\ Leaves(s, c) /\ Erases(s, c) /\ Needs(s, c)
    BY <1>1, <1>2, Claims, HasCall
  <1>4. c.family \in Family /\ c.person \in User /\ c.role \in Role /\ c.assigned \in SUBSET Child
    BY <1>2, <1>3, LacksTail DEF Needs, CallRecord
  <1>5. PICK m \in Member :
            /\ members[m] = None /\ members'[m] # None
            /\ members'[m].family = c.family /\ members'[m].user = c.person
            /\ \A n \in Member \ {m} : members'[n] = members[n]
    <2>1. PICK row : row = [family |-> c.family, user |-> c.person, role |-> c.role,
                            assigned |-> c.assigned]
      OBVIOUS
    <2>2. row \in MemberRow
      BY <1>4, <2>1 DEF MemberRow
    <2>3. members' = [members EXCEPT ![Fresh(members)] = row]
      BY <1>1, <2>1
    <2>4. PICK m \in Member : /\ members[m] = None /\ members'[m] # None /\ members'[m] = row
                             /\ \A n \in Member \ {m} : members'[n] = members[n]
      BY <2>2, <2>3, NewMember
    <2>5. row.family = c.family /\ row.user = c.person
      BY <2>1
    <2>6. QED
      BY <2>4, <2>5
  <1>6. /\ \A f : f # c.family => MembersOf(f)' = MembersOf(f) /\ Owners(f)' = Owners(f)
        /\ \A f : Owners(f) \subseteq Owners(f)'
        /\ \A f : ChildrenOf(f)' = ChildrenOf(f)
    <2>1. PICK f, u : f = c.family /\ u = c.person
      OBVIOUS
    <2>2. members'[m].family = f /\ members'[m].user = u
      BY <1>5, <2>1
    <2>3. /\ \A g : g # f => MembersOf(g)' = MembersOf(g) /\ Owners(g)' = Owners(g)
          /\ \A g : Owners(g) \subseteq Owners(g)'
      BY <1>5, <2>2, NewMemberOwns
    <2>4. QED
      BY <2>1, <2>3 DEF ChildrenOf
  <1>7. MembersOf(c.family) # {} /\ c.person \in users
    BY <1>2, <1>3 DEF AtHead
  <1>8. Owned'
    <2>1. ASSUME NEW f \in Family \ ghosts, MembersOf(f)' # {} \/ ChildrenOf(f)' # {}
          PROVE  Owners(f)' \cap users # {}
      <3>1. MembersOf(f) # {} \/ ChildrenOf(f) # {}
        BY <1>6, <1>7, <2>1
      <3>2. Owners(f) \cap users # {}
        BY <3>1 DEF OwnersInv, Owned
      <3>3. QED
        BY <1>6, <3>2
    <2>2. QED
      BY <2>1 DEF Owned
  <1>9. HaveAccounts'
    BY <1>5, <1>7 DEF HaveAccounts, OwnersInv
  <1>10. Lacks(Tail(s), "dropMemberships")
    BY <1>2, <1>3, NoneAfterTail DEF Order
  <1>11. Shown(s, c)' /\ Leaves(Tail(s), c)' /\ Erases(Tail(s), c)'
    <2>1. Shown(s, c)'
      BY <1>2 DEF Shown
    <2>2. Leaves(Tail(s), c)'
      BY <1>10 DEF Leaves
    <2>3. Erases(Tail(s), c)'
      BY <1>2, <1>3, <1>6, QuietErases
    <2>4. QED
      BY <2>1, <2>2, <2>3
  <1>12. PICK ok \in {TRUE} : Check(h, ok, c)
    BY <1>2 DEF Check
  <1>13. \A g \in Handler : HasClaim(g)'
    BY <1>1, <1>2, <1>11, <1>12, CheckClaims
  <1>14. QED
    BY <1>8, <1>9, <1>13 DEF Claimed

\* The cascade takes a family's members when its children are gone.
LEMMA SweepClaims ==
    ASSUME FamiliesInv, OrderInv, OwnersInv, sync, NEW h \in Handler,
           Write(h, "sweepMembers", call[h]),
           members' = Without(members, MembersOf(call[h].family)),
           UNCHANGED <<users, children, ghosts>>
    PROVE  Claimed
  <1>1. PICK s, c : s = pc[h] /\ c = call[h]
    OBVIOUS
  <1>2. At(h, "sweepMembers") /\ pc[h] # <<>> /\ turn \in {None, h} /\ Head(s) = "sweepMembers" /\ GoOn(h, c)
    BY <1>1 DEF Write, At, GoOn, Run
  <1>3. /\ s \in Seq(Step) /\ s # <<>> /\ Order(s) /\ Leaves(s, c) /\ Erases(s, c)
    BY <1>1, <1>2, Claims
  <1>4. \A n \in Member : members'[n] = IF members[n] # None /\ members[n].family = c.family
                                        THEN None ELSE members[n]
    BY <1>1 DEF Without, MembersOf, FamiliesInv, TablesOK
  <1>5. /\ MembersOf(c.family)' = {} /\ Owners(c.family)' = {}
        /\ \A f : f # c.family => MembersOf(f)' = MembersOf(f) /\ Owners(f)' = Owners(f)
        /\ \A f : ChildrenOf(f)' = ChildrenOf(f)
    <2>1. MembersOf(c.family)' = {} /\ \A f : f # c.family => MembersOf(f)' = MembersOf(f)
      BY <1>4 DEF MembersOf
    <2>2. \A u : u \notin Owners(c.family)'
      BY <1>4, OwnersAre
    <2>6. Owners(c.family)' = {}
      BY <2>2
    <2>3. ASSUME NEW f, f # c.family PROVE Owners(f)' = Owners(f)
      <3>1. \A u : u \in Owners(f)' <=> u \in Owners(f)
        BY <1>4, <2>3, OwnersAre
      <3>2. QED
        BY <3>1
    <2>4. \A f : ChildrenOf(f)' = ChildrenOf(f)
      BY DEF ChildrenOf
    <2>5. QED
      BY <2>1, <2>3, <2>4, <2>6
  <1>6. ChildrenOf(c.family) = {}
    <2>1. /\ ~Lacks(s, "sweepMembers") /\ Lacks(s, "listChildren")
          /\ Lacks(s, "eraseChildren") /\ Lacks(s, "dropChild")
      BY <1>2, <1>3, LacksTail, NoneAfterTail DEF Order
    <2>2. QED
      BY <1>3, <2>1 DEF Erases
  <1>7. Owned'
    BY <1>5, <1>6 DEF Owned, OwnersInv
  <1>8. HaveAccounts'
    BY <1>4 DEF HaveAccounts, OwnersInv
  <1>9. Leaves(Tail(s), c)'
    <2>1. \A x : Lacks(s, x) <=> Head(s) # x /\ Lacks(Tail(s), x)
      BY <1>3, LacksTail
    <2>2. ASSUME ~Lacks(Tail(s), "dropMemberships"), Lacks(Tail(s), "listOwned"),
                 NEW f \in Family, f \notin ghosts', c.user \in Owners(f)', Owners(f)' \subseteq {c.user}
          PROVE  f \in c.owned /\ ~Lacks(Tail(s), "leaveFamilies")
      <3>1. f # c.family /\ f \notin ghosts /\ c.user \in Owners(f) /\ Owners(f) \subseteq {c.user}
        BY <1>5, <2>2
      <3>2. ~Lacks(s, "dropMemberships") /\ Lacks(s, "listOwned")
        BY <1>2, <2>1, <2>2
      <3>3. f \in c.owned /\ ~Lacks(s, "leaveFamilies")
        BY <1>3, <3>1, <3>2 DEF Leaves
      <3>4. QED
        BY <1>2, <2>1, <3>3
    <2>3. QED
      BY <2>2 DEF Leaves
  <1>10. Erases(Tail(s), c)'
    BY <1>2, <1>3, <1>5, QuietErases
  <1>11. Shown(s, c)'
    BY <1>2 DEF Shown
  <1>12. PICK ok \in {TRUE} : Check(h, ok, c)
    BY <1>2 DEF Check
  <1>13. \A g \in Handler : HasClaim(g)'
    BY <1>1, <1>2, <1>9, <1>10, <1>11, <1>12, CheckClaims
  <1>14. QED
    BY <1>7, <1>8, <1>13 DEF Claimed

\* Whoever leaves the families that are left leaves another owner in each.
LEMMA DropMembershipsClaims ==
    ASSUME FamiliesInv, OrderInv, OwnersInv, sync, NEW h \in Handler,
           Write(h, "dropMemberships", call[h]),
           members' = Without(members, RowsOf(call[h].user)),
           UNCHANGED <<users, children, ghosts>>
    PROVE  Claimed
  <1>1. PICK s, c : s = pc[h] /\ c = call[h]
    OBVIOUS
  <1>2. At(h, "dropMemberships") /\ pc[h] # <<>> /\ turn \in {None, h} /\ Head(s) = "dropMemberships" /\ GoOn(h, c)
    BY <1>1 DEF Write, At, GoOn, Run
  <1>3. /\ s \in Seq(Step) /\ s # <<>> /\ Order(s) /\ Leaves(s, c) /\ Erases(s, c)
    BY <1>1, <1>2, Claims
  <1>4. \A n \in Member : members'[n] = IF members[n] # None /\ members[n].user = c.user
                                        THEN None ELSE members[n]
    BY <1>1 DEF Without, RowsOf, FamiliesInv, TablesOK
  <1>5. /\ RowsOf(c.user)' = {}
        /\ \A f : MembersOf(f)' \subseteq MembersOf(f)
        /\ \A f : ChildrenOf(f)' = ChildrenOf(f)
    BY <1>4 DEF RowsOf, MembersOf, ChildrenOf
  <1>6. \A f, u : u # c.user /\ u \in Owners(f) => u \in Owners(f)'
    BY <1>4, OwnersAre
  <1>7. ASSUME NEW f \in Family \ ghosts, c.user \in Owners(f)
        PROVE  \E u \in Owners(f) : u # c.user
    <2>1. /\ ~Lacks(s, "dropMemberships") /\ Lacks(s, "listOwned")
          /\ Lacks(s, "leaveFamilies") /\ Lacks(s, "sweepMembers")
      BY <1>2, <1>3, LacksTail, NoneAfterTail DEF Order
    <2>2. ~(Owners(f) \subseteq {c.user})
      BY <1>3, <1>7, <2>1 DEF Leaves
    <2>3. QED
      BY <2>2
  <1>8. Owned'
    <2>1. ASSUME NEW f \in Family \ ghosts, MembersOf(f)' # {} \/ ChildrenOf(f)' # {}
          PROVE  Owners(f)' \cap users # {}
      <3>1. MembersOf(f) # {} \/ ChildrenOf(f) # {}
        BY <1>5, <2>1
      <3>2. PICK u \in Owners(f) : u \in users
        BY <3>1 DEF OwnersInv, Owned
      <3>3. CASE u # c.user
        BY <1>6, <3>2, <3>3
      <3>4. CASE u = c.user
        <4>1. PICK v \in Owners(f) : v # c.user
          BY <1>7, <3>2, <3>4
        <4>2. v \in users
          BY <4>1, OwnersAre DEF OwnersInv, HaveAccounts
        <4>3. QED
          BY <1>6, <4>1, <4>2
      <3>5. QED
        BY <3>3, <3>4
    <2>2. QED
      BY <2>1 DEF Owned
  <1>9. HaveAccounts'
    BY <1>4 DEF HaveAccounts, OwnersInv
  <1>10. Lacks(Tail(s), "dropMemberships")
    BY <1>2, <1>3, NoneAfterTail DEF Order
  <1>11. Shown(s, c)'
    BY <1>2, <1>5 DEF Shown
  <1>12. Leaves(Tail(s), c)'
    BY <1>10 DEF Leaves
  <1>13. Erases(Tail(s), c)'
    BY <1>2, <1>3, <1>5, QuietErases
  <1>14. PICK ok \in {TRUE} : Check(h, ok, c)
    BY <1>2 DEF Check
  <1>15. \A g \in Handler : HasClaim(g)'
    BY <1>1, <1>2, <1>11, <1>12, <1>13, <1>14, CheckClaims
  <1>16. QED
    BY <1>8, <1>9, <1>15 DEF Claimed

LEMMA UpdateMembersClaims ==
    ASSUME FamiliesInv, OrderInv, OwnersInv, sync, NEW h \in Handler, UpdateMembers(h)
    PROVE  Claimed
  <1>1. UNCHANGED <<users, children, ghosts>>
    BY DEF UpdateMembers, history
  <1>2. QED
    BY <1>1, AddOwnerClaims, AddMemberClaims, SweepClaims, DropMembershipsClaims DEF UpdateMembers

\* A step that is taken for one row after the other.
LEMMA LoopClaims ==
    ASSUME FamiliesInv, OrderInv, OwnersInv, sync, NEW h \in Handler,
           NEW step \in {"unassign", "dropDevices"}, At(h, step), NEW S,
           Run(h, pc[h], [call[h] EXCEPT !.listed = S]), UNCHANGED ghosts,
           \A f : Owners(f)' = Owners(f) /\ ChildrenOf(f)' = ChildrenOf(f)
    PROVE  \A g \in Handler : HasClaim(g)'
  <1>1. PICK s, c0 : s = pc[h] /\ c0 = call[h]
    OBVIOUS
  <1>2. PICK c : c = [c0 EXCEPT !.listed = S]
    OBVIOUS
  <1>3. Run(h, s, c) /\ Head(s) = step /\ pc[h] # <<>> /\ turn \in {None, h}
    BY <1>1, <1>2 DEF Run, At
  <1>4. c0 \in CallRecord /\ Leaves(s, c0) /\ Erases(s, c0)
    BY <1>1, <1>3, Claims
  <1>5. /\ c.user = c0.user /\ c.family = c0.family /\ c.owned = c0.owned
        /\ c.child = c0.child /\ c.rest = c0.rest
    BY <1>2, <1>4 DEF CallRecord
  <1>6. AtHead(s, c)'
    BY <1>3 DEF AtHead
  <1>7. Leaves(s, c)'
    BY <1>4, <1>5 DEF Leaves
  <1>8. Erases(s, c)'
    BY <1>4, <1>5 DEF Erases
  <1>9. QED
    BY <1>3, <1>6, <1>7, <1>8, RunClaims DEF Claim

LEMMA UpdateFamiliesClaims ==
    ASSUME FamiliesInv, OrderInv, OwnersInv, sync, NEW h \in Handler, UpdateFamilies(h)
    PROVE  Claimed
  <1>0. UNCHANGED <<users, members, children>>
    BY DEF UpdateFamilies
  <1>a. \A f : /\ Owners(f)' = Owners(f) /\ MembersOf(f)' = MembersOf(f)
               /\ ChildrenOf(f)' = ChildrenOf(f)
    BY <1>0 DEF Owners, MembersOf, ChildrenOf
  <1> DEFINE new == CHOOSE x \in Family : x \notin families
  <1>1. CASE /\ Write(h, "createFamily", [call[h] EXCEPT !.family = new])
             /\ ghosts' = IF call[h].user \in users THEN ghosts ELSE ghosts \cup {new}
    <2>1. PICK s, c0, f, ok : s = pc[h] /\ c0 = call[h] /\ f = new /\ ok = TRUE
      OBVIOUS
    <2>2. PICK c : c = [c0 EXCEPT !.family = f]
      OBVIOUS
    <2>3. Check(h, ok, c) /\ Head(s) = "createFamily" /\ pc[h] # <<>> /\ turn \in {None, h}
      BY <1>1, <2>1, <2>2 DEF Write, At, Check, GoOn, Run
    <2>4. s \in Seq(Step) /\ s # <<>> /\ Order(s) /\ c0 \in CallRecord
      BY <2>1, <2>3, Claims
    <2>5. c.user = c0.user /\ c.family = f
      BY <2>2, <2>4 DEF CallRecord
    <2>6. ghosts \subseteq ghosts' /\ (c.user \in users \/ c.family \in ghosts')
      BY <1>1, <2>1, <2>5
    <2>7. Lacks(Tail(s), "dropMemberships") /\ Lacks(Tail(s), "sweepMembers")
      BY <2>3, <2>4, NoneAfterTail DEF Order
    <2>8. Shown(s, c)'
      BY <1>0, <2>3, <2>6 DEF Shown
    <2>9. Leaves(Tail(s), c)' /\ Erases(Tail(s), c)'
      BY <2>7 DEF Leaves, Erases
    <2>10. \A g \in Handler : HasClaim(g)'
      BY <2>1, <2>3, <2>8, <2>9, CheckClaims
    <2>11. Owned' /\ HaveAccounts'
      BY <1>0, <1>a, <2>6 DEF OwnersInv, Owned, HaveAccounts
    <2>12. QED
      BY <2>10, <2>11 DEF Claimed
  <1>2. CASE Write(h, "dropFamily", call[h]) /\ UNCHANGED ghosts
    <2>1. PICK c, step : c = call[h] /\ step = "dropFamily"
      OBVIOUS
    <2>2. Write(h, step, c) /\ Still
      BY <1>0, <1>2, <2>1 DEF Still, Write, At, GoOn, Run
    <2>3. QED
      BY <2>1, <2>2, WriteClaims
  <1>3. QED
    BY <1>1, <1>2 DEF UpdateFamilies

\* A row keeps all but the child that is taken from it.
LEMMA UnassignRows ==
    ASSUME FamiliesInv, NEW m, NEW k,
           members' = IF members[m] = None THEN members
                      ELSE [members EXCEPT ![m].assigned = @ \ {k}],
           NEW n \in Member
    PROVE  /\ members'[n] = None <=> members[n] = None
           /\ members[n] # None =>
                  /\ members'[n].family = members[n].family /\ members'[n].user = members[n].user
                  /\ members'[n].role = members[n].role
                  /\ members'[n].assigned \subseteq members[n].assigned
                  /\ n = m => k \notin members'[n].assigned
  <1>1. members \in [Member -> MemberRow \cup {None}] /\ None \notin MemberRow
    BY FamiliesAssumption DEF FamiliesInv, TablesOK
  <1>2. CASE members[m] = None
    BY <1>2
  <1>3. CASE members[m] # None
    <2>1. members' = [members EXCEPT ![m].assigned = @ \ {k}]
      BY <1>3
    <2>2. CASE n # m
      BY <1>1, <2>1, <2>2
    <2>3. CASE n = m
      <3>1. PICK row : row = members[m]
        OBVIOUS
      <3>2. PICK new : new = [row EXCEPT !.assigned = @ \ {k}]
        OBVIOUS
      <3>3. row \in MemberRow
        BY <1>1, <1>3, <2>3, <3>1
      <3>4. members'[n] = new
        BY <1>1, <2>1, <2>3, <3>1, <3>2
      <3>5. /\ new \in MemberRow /\ new.family = row.family /\ new.user = row.user
            /\ new.role = row.role /\ new.assigned = row.assigned \ {k}
        BY <3>2, <3>3 DEF MemberRow
      <3>6. QED
        BY <1>1, <2>3, <3>1, <3>3, <3>4, <3>5
    <2>4. QED
      BY <2>2, <2>3
  <1>4. QED
    BY <1>2, <1>3

LEMMA UnassignClaims ==
    ASSUME FamiliesInv, OrderInv, OwnersInv, sync, NEW h \in Handler, unassign(h)
    PROVE  Claimed
  <1>0. At(h, "unassign") /\ UNCHANGED <<users, children, ghosts>>
    BY DEF unassign, history
  <1>1. CASE GoOn(h, call[h]) /\ UNCHANGED members
    <2>1. PICK c, step : c = call[h] /\ step = "unassign"
      OBVIOUS
    <2>2. Write(h, step, c) /\ Still
      BY <1>0, <1>1, <2>1 DEF Still, Write, GoOn, Run
    <2>3. QED
      BY <2>1, <2>2, WriteClaims
  <1>2. ASSUME NEW m \in call[h].listed,
               Run(h, pc[h], [call[h] EXCEPT !.listed = @ \ {m}]),
               members' = IF members[m] = None THEN members
                          ELSE [members EXCEPT ![m].assigned = @ \ {call[h].child}]
        PROVE  Claimed
    <2>1. PICK S : S = call[h].listed \ {m}
      OBVIOUS
    <2>2. Run(h, pc[h], [call[h] EXCEPT !.listed = S])
      BY <1>2, <2>1 DEF Run
    <2>3. \A n \in Member : /\ members'[n] = None <=> members[n] = None
                            /\ members[n] # None =>
                                  /\ members'[n].family = members[n].family
                                  /\ members'[n].user = members[n].user
                                  /\ members'[n].role = members[n].role
      <3>1. PICK k : k = call[h].child
        OBVIOUS
      <3>2. members' = IF members[m] = None THEN members
                       ELSE [members EXCEPT ![m].assigned = @ \ {k}]
        BY <1>2, <3>1
      <3>3. QED
        BY <3>2, UnassignRows
    <2>4. ASSUME NEW f PROVE MembersOf(f)' = MembersOf(f) /\ Owners(f)' = Owners(f)
      <3>1. MembersOf(f)' = MembersOf(f)
        BY <2>3 DEF MembersOf
      <3>2. \A u : u \in Owners(f)' <=> u \in Owners(f)
        BY <2>3, OwnersAre
      <3>3. QED
        BY <3>1, <3>2
    <2>5. \A f : ChildrenOf(f)' = ChildrenOf(f)
      BY <1>0 DEF ChildrenOf
    <2>6. \A g \in Handler : HasClaim(g)'
      BY <1>0, <2>2, <2>4, <2>5, LoopClaims
    <2>7. Owned'
      BY <1>0, <2>4, <2>5 DEF OwnersInv, Owned
    <2>8. HaveAccounts'
      BY <1>0, <2>3 DEF OwnersInv, HaveAccounts
    <2>9. QED
      BY <2>6, <2>7, <2>8 DEF Claimed
  <1>3. QED
    BY <1>1, <1>2 DEF unassign

LEMMA UpdateChildrenClaims ==
    ASSUME FamiliesInv, SyncInv, OrderInv, OwnersInv, sync, NEW h \in Handler, UpdateChildren(h)
    PROVE  Claimed
  <1>0. UNCHANGED <<users, members, ghosts>>
    BY DEF UpdateChildren
  <1>a. \A f : MembersOf(f)' = MembersOf(f) /\ Owners(f)' = Owners(f)
    BY <1>0 DEF MembersOf, Owners
  <1>b. HaveAccounts'
    BY <1>0 DEF OwnersInv, HaveAccounts
  <1>c. children \in [Child -> ChildRow \cup {None}] /\ None \notin ChildRow
    BY FamiliesAssumption DEF FamiliesInv, TablesOK
  <1> DEFINE new == CHOOSE x \in Child \ gone : children[x] = None
  <1>1. CASE /\ \E x \in Child \ gone : children[x] = None
             /\ Write(h, "createChild", [call[h] EXCEPT !.child = new])
             /\ children' = [children EXCEPT ![new] = [family |-> call[h].family, moved |-> FALSE]]
    <2>1. PICK k \in Child : k = new /\ children[k] = None
      BY <1>1
    <2>2. PICK s, c0, ok : s = pc[h] /\ c0 = call[h] /\ ok = TRUE
      OBVIOUS
    <2>3. PICK c : c = [c0 EXCEPT !.child = k]
      OBVIOUS
    <2>4. Check(h, ok, c) /\ Head(s) = "createChild" /\ pc[h] # <<>> /\ turn \in {None, h}
      BY <1>1, <2>1, <2>2, <2>3 DEF Write, At, Check, GoOn, Run
    <2>5. s \in Seq(Step) /\ s # <<>> /\ Order(s) /\ c0 \in CallRecord /\ AtHead(s, c0) /\ Leaves(s, c0)
      BY <2>2, <2>4, Claims
    <2>6. c.user = c0.user /\ c.family = c0.family /\ c.owned = c0.owned
      BY <2>3, <2>5 DEF CallRecord
    <2>7. Lacks(Tail(s), "sweepMembers")
      BY <2>4, <2>5, NoneAfterTail DEF Order
    <2>8. Shown(s, c)' /\ Erases(Tail(s), c)'
      BY <2>4, <2>7 DEF Shown, Erases
    <2>9. Leaves(Tail(s), c)'
      BY <1>0, <1>a, <2>4, <2>5, <2>6, QuietLeaves
    <2>10. \A g \in Handler : HasClaim(g)'
      BY <2>2, <2>4, <2>8, <2>9, CheckClaims
    <2>11. MembersOf(c0.family) # {}
      BY <2>4, <2>5 DEF AtHead
    <2>12. \A f : f # c0.family => ChildrenOf(f)' = ChildrenOf(f)
      <3>1. PICK row : row = [family |-> c0.family, moved |-> FALSE]
        OBVIOUS
      <3>2. children' = [children EXCEPT ![k] = row] /\ row.family = c0.family
        BY <1>1, <2>1, <2>2, <3>1
      <3>3. QED
        BY <1>c, <2>1, <3>2 DEF ChildrenOf
    <2>13. Owned'
      BY <1>0, <1>a, <2>11, <2>12 DEF OwnersInv, Owned
    <2>14. QED
      BY <1>b, <2>10, <2>13 DEF Claimed
  <1>2. CASE /\ At(h, "insertChild") /\ Check(h, ~(children[call[h].child] # None), call[h])
             /\ children' = IF children[call[h].child] # None THEN children
                            ELSE [children EXCEPT ![call[h].child] = [call[h].row EXCEPT !.moved = TRUE]]
    <2>1. children[call[h].child] # None
      BY <1>2 DEF At, SyncInv, SafeHead
    <2>2. PICK c, step, ok : /\ c = call[h] /\ step = "insertChild"
                             /\ ok = ~(children[call[h].child] # None)
      OBVIOUS
    <2>3. At(h, step) /\ Check(h, ok, c) /\ Still
      BY <1>0, <1>2, <2>1, <2>2 DEF Still, Check, GoOn, Run
    <2>4. QED
      BY <2>2, <2>3, StillClaims
  <1>3. CASE /\ Write(h, "dropChild", call[h])
             /\ children' = IF call[h].child \in ChildrenOf(call[h].family)
                            THEN Without(children, {call[h].child}) ELSE children
    <2>1. PICK s, c, ok : s = pc[h] /\ c = call[h] /\ ok = TRUE
      OBVIOUS
    <2>2. Check(h, ok, c) /\ Head(s) = "dropChild" /\ pc[h] # <<>> /\ turn \in {None, h}
      BY <1>3, <2>1 DEF Write, At, Check, GoOn, Run
    <2>3. /\ s \in Seq(Step) /\ s # <<>> /\ Order(s) /\ Leaves(s, c) /\ Erases(s, c)
      BY <2>1, <2>2, Claims
    <2>4. /\ \A f : ChildrenOf(f)' \subseteq ChildrenOf(f)
          /\ c.child \notin ChildrenOf(c.family)'
      BY <1>3, <1>c, <2>1 DEF ChildrenOf, Without
    <2>5. Shown(s, c)'
      BY <2>2 DEF Shown
    <2>6. Leaves(Tail(s), c)'
      BY <1>0, <1>a, <2>2, <2>3, QuietLeaves
    <2>7. Erases(Tail(s), c)'
      <3>1. \A x : Lacks(s, x) <=> Head(s) # x /\ Lacks(Tail(s), x)
        BY <2>3, LacksTail
      <3>2. ASSUME ~Lacks(Tail(s), "sweepMembers"), Lacks(Tail(s), "listChildren"),
                   NEW k \in ChildrenOf(c.family)'
            PROVE  k \in c.rest /\ ~Lacks(Tail(s), "eraseChildren")
        <4>1. ~Lacks(s, "sweepMembers") /\ Lacks(s, "listChildren")
          BY <2>2, <3>1, <3>2
        <4>2. k \in ChildrenOf(c.family) /\ k # c.child
          BY <2>4
        <4>3. k \in c.rest /\ ~Lacks(s, "eraseChildren")
          BY <2>3, <4>1, <4>2 DEF Erases
        <4>4. QED
          BY <2>2, <3>1, <4>3
      <3>3. QED
        BY <3>2 DEF Erases
    <2>8. \A g \in Handler : HasClaim(g)'
      BY <2>1, <2>2, <2>5, <2>6, <2>7, CheckClaims
    <2>9. Owned'
      <3>1. ASSUME NEW f \in Family \ ghosts, MembersOf(f)' # {} \/ ChildrenOf(f)' # {}
            PROVE  Owners(f)' \cap users # {}
        BY <1>a, <2>4, <3>1 DEF OwnersInv, Owned
      <3>2. QED
        BY <1>0, <3>1 DEF Owned
    <2>10. QED
      BY <1>b, <2>8, <2>9 DEF Claimed
  <1>4. QED
    BY <1>1, <1>2, <1>3 DEF UpdateChildren

LEMMA PlainClaims ==
    ASSUME FamiliesInv, OrderInv, OwnersInv, sync, NEW h \in Handler, Still,
           NEW step \in {"bump", "dropVersions", "sweepVersions", "createCode", "markCode",
                         "sweepCodes", "writeDevice", "createDevice"},
           Write(h, step, call[h])
    PROVE  Claimed
  <1>1. PICK c : c = call[h]
    OBVIOUS
  <1>2. Write(h, step, c)
    BY <1>1 DEF Write, GoOn, Run
  <1>3. QED
    BY <1>1, <1>2, WriteClaims

LEMMA UpdateVersionsClaims ==
    ASSUME FamiliesInv, OrderInv, OwnersInv, sync, NEW h \in Handler,
           UpdateVersions(h) \/ UpdateCodes(h) \/ createDevice(h)
    PROVE  Claimed
  <1>1. Still
    BY DEF UpdateVersions, UpdateCodes, createDevice, Still, history
  <1>2. PICK step \in {"bump", "dropVersions", "sweepVersions", "createCode", "markCode",
                       "sweepCodes", "createDevice"} : Write(h, step, call[h])
    BY DEF UpdateVersions, UpdateCodes, createDevice, Write, At, GoOn, Run
  <1>3. QED
    BY <1>1, <1>2, PlainClaims

LEMMA UpdateDevicesClaims ==
    ASSUME FamiliesInv, OrderInv, OwnersInv, sync, NEW h \in Handler, UpdateDevices(h)
    PROVE  Claimed
  <1>0. Still
    BY DEF UpdateDevices, Still
  <1>1. ASSUME NEW step \in {"dropDevice", "dropDevices", "sweepDevices"},
               Write(h, step, [call[h] EXCEPT !.listed = {}])
        PROVE  Claimed
    <2>1. PICK c, c0 : c = [call[h] EXCEPT !.listed = {}] /\ c0 = call[h]
      OBVIOUS
    <2>2. Write(h, step, c)
      BY <1>1, <2>1 DEF Write, GoOn, Run
    <2>3. c0 \in CallRecord
      BY <1>1, <2>1, HasCall DEF Write, At
    <2>4. /\ c.user = c0.user /\ c.family = c0.family /\ c.owned = c0.owned
          /\ c.rest = c0.rest /\ c.child = c0.child
      BY <2>1, <2>3 DEF CallRecord
    <2>5. QED
      BY <1>0, <2>1, <2>2, <2>4, WriteClaims
  <1>2. ASSUME NEW d \in call[h].listed, At(h, "dropDevices"),
               Run(h, pc[h], [call[h] EXCEPT !.listed = @ \ {d}])
        PROVE  Claimed
    <2>1. PICK step, S : /\ step \in {"unassign", "dropDevices"}
                          /\ step = "dropDevices" /\ S = call[h].listed \ {d}
      OBVIOUS
    <2>2. At(h, step) /\ Run(h, pc[h], [call[h] EXCEPT !.listed = S])
      BY <1>2, <2>1 DEF Run
    <2>3. UNCHANGED ghosts /\ \A f : Owners(f)' = Owners(f) /\ ChildrenOf(f)' = ChildrenOf(f)
      BY <1>0, StillHas DEF Still
    <2>4. \A g \in Handler : HasClaim(g)'
      BY <2>1, <2>2, <2>3, LoopClaims
    <2>5. QED
      BY <1>0, <2>4, StillOwned DEF Claimed
  <1>3. CASE Write(h, "writeDevice", call[h])
    <2>1. PICK step \in {"writeDevice"} : Write(h, step, call[h])
      BY <1>3 DEF Write, At, GoOn, Run
    <2>2. QED
      BY <1>0, <2>1, PlainClaims
  <1>4. QED
    BY <1>1, <1>2, <1>3 DEF UpdateDevices

\* The account goes when nothing of it is left in a family.
LEMMA DropUserClaims ==
    ASSUME FamiliesInv, OrderInv, OwnersInv, sync, NEW h \in Handler, dropUser(h)
    PROVE  Claimed
  <1>0. /\ UNCHANGED <<members, children, ghosts>> /\ users' = users \ {call[h].user}
    BY DEF dropUser, history
  <1>a. \A f : /\ Owners(f)' = Owners(f) /\ MembersOf(f)' = MembersOf(f)
               /\ ChildrenOf(f)' = ChildrenOf(f)
    BY <1>0 DEF Owners, MembersOf, ChildrenOf
  <1>1. PICK s, c, ok, step : s = pc[h] /\ c = call[h] /\ ok = TRUE /\ step = "dropUser"
    OBVIOUS
  <1>2. At(h, step) /\ Check(h, ok, c) /\ pc[h] # <<>> /\ Head(s) = "dropUser"
    BY <1>1 DEF dropUser, Write, At, Check, GoOn, Run
  <1>3. RowsOf(c.user) = {}
    BY <1>1, <1>2, Claims DEF AtHead
  <1>4. \A m \in Member : members[m] # None => members[m].user # c.user
    BY <1>3 DEF RowsOf
  <1>5. \A f : c.user \notin Owners(f)
    BY <1>4, OwnersAre
  <1>6. Owned'
    BY <1>0, <1>1, <1>5, <1>a DEF OwnersInv, Owned
  <1>7. HaveAccounts'
    BY <1>0, <1>1, <1>4 DEF OwnersInv, HaveAccounts
  <1>8. \A g \in Handler : HasClaim(g)'
    BY <1>0, <1>a, <1>1, <1>2, QuietClaims
  <1>9. QED
    BY <1>6, <1>7, <1>8 DEF Claimed

LEMMA FailClaims ==
    ASSUME FamiliesInv, OrderInv, OwnersInv, sync, NEW h \in Handler, Fail(h)
    PROVE  Claimed
  <1>1. Still /\ Ran(h, <<>>, NoCall) /\ turn \in {None, h}
    BY StoreStill, BreakRan DEF Fail, Break, FamiliesInv, Loop
  <1>2. ASSUME NEW g \in Handler, g # h, pc[g] # <<>> PROVE HasClaim(g)'
    <2>1. PICK s, c : s = pc[g] /\ c = call[g] /\ s = pc'[g] /\ c = call'[g]
      BY <1>1, <1>2 DEF Ran
    <2>2. s \in Seq(Step) /\ s # <<>> /\ Order(s) /\ Head(s) \in Waits
      BY <1>1, <1>2, <2>1, HasCall, OthersWait DEF OrderInv
    <2>3. Claim(s, c)'
      BY <2>2, WaitIsStep, WaitingClaims
    <2>4. QED
      BY <2>1, <2>3 DEF HasClaim, Claim, AtHead, Leaves, Erases
  <1>3. \A g \in Handler : HasClaim(g)'
    BY <1>1, <1>2 DEF Ran, HasClaim
  <1>4. QED
    BY <1>1, <1>3, StillOwned DEF Claimed

LEMMA AsksClaims ==
    ASSUME FamiliesInv, OrderInv, OwnersInv, sync, NEW h \in Handler, ParentAsks(h) \/ DeviceAsks(h)
    PROVE  Claimed
  <1>1. PICK op \in Request : \E c : Start(h, Program[op], c) /\ UNCHANGED <<tables, history>>
    BY SomethingAsked
  <1>2. PICK c : Start(h, Program[op], c) /\ UNCHANGED <<tables, history>>
    BY <1>1
  <1>3. PICK s : s = Program[op]
    OBVIOUS
  <1>4. Run(h, s, c) /\ turn \in {None, h} /\ Still
    BY <1>2, <1>3, StoreStill DEF Start, Run
  <1>5. s \in Seq(Step) /\ s # <<>> /\ Head(s) = "wait" /\ Order(s)
    BY <1>3, ProgramStarts, ProgramOrder
  <1>6. Claim(s, c)'
    BY <1>5, WaitingClaims
  <1>7. \A g \in Handler : HasClaim(g)'
    BY <1>4, <1>6, RunClaims
  <1>8. QED
    BY <1>4, <1>7, StillOwned DEF Claimed

LEMMA OwnersStep == FamiliesInv /\ SyncInv /\ OrderInv /\ OwnersInv /\ [Next]_vars => OwnersInv'
  <1> SUFFICES ASSUME FamiliesInv, SyncInv, OrderInv, OwnersInv, [Next]_vars PROVE OwnersInv'
    OBVIOUS
  <1>1. sync' = sync
    BY StepControl
  <1>2. ASSUME sync PROVE Claimed
    <2>1. CASE \E h \in Handler : HandlerStep(h)
      BY <1>2, <2>1, ReadFamilyClaims, ReadChildClaims, ReadDeviceClaims, LeaveClaims, EraseClaims,
         UpdateFamiliesClaims, UpdateMembersClaims, UnassignClaims, UpdateChildrenClaims,
         UpdateVersionsClaims, UpdateDevicesClaims, DropUserClaims, FailClaims DEF HandlerStep
    <2>2. CASE \E h \in Handler : ParentAsks(h) \/ DeviceAsks(h)
      BY <1>2, <2>2, AsksClaims
    <2>3. ASSUME Still, UNCHANGED <<pc, call>> PROVE Claimed
      <3>1. \A g \in Handler : HasClaim(g)'
        BY <1>2, <2>3, StillHas DEF Still, OwnersInv, HasClaim, Claim, AtHead, Leaves, Erases,
           MembersOf, RowsOf, ChildrenOf, Owners
      <3>2. QED
        BY <1>2, <2>3, <3>1, StillOwned DEF Claimed
    <2>4. CASE \E k \in Code : Expire(k)
      BY <2>3, <2>4 DEF Expire, Still, history, control
    <2>5. CASE UNCHANGED vars
      BY <2>3, <2>5, StoreStill DEF vars, control
    <2>6. QED
      BY <2>1, <2>2, <2>4, <2>5 DEF Next
  <1>3. QED
    BY <1>1, <1>2 DEF Claimed, OwnersInv

LEMMA OwnersInit == Init => OwnersInv
  <1> SUFFICES ASSUME Init PROVE OwnersInv
    OBVIOUS
  <1>1. mix \in Mixes /\ users = User /\ members = mix.members /\ children = mix.children /\ ghosts = {}
    BY DEF Init, HandlersInit
  <1>2. /\ members \in [Member -> MemberRow \cup {None}]
        /\ children \in [Child -> ChildRow \cup {None}]
    BY <1>1, FamiliesAssumption
  <1>3. \A h \in Handler : pc[h] = <<>>
    BY DEF Init, HandlersInit
  <1>4. ASSUME NEW f \in Family, MembersOf(f) # {} \/ ChildrenOf(f) # {}
        PROVE  Owners(f) \cap users # {}
    <2>1. PICK o \in Member : members[o] # None /\ members[o].family = f /\ members[o].role = "OWNER"
      BY <1>1, <1>4, StartAssumption DEF MembersOf, ChildrenOf
    <2>2. members[o].user \in Owners(f) /\ members[o].user \in User
      BY <1>2, <2>1, OwnersAre DEF MemberRow
    <2>3. QED
      BY <1>1, <2>2
  <1>5. Owned
    BY <1>1, <1>4 DEF Owned
  <1>6. HaveAccounts
    BY <1>1, <1>2 DEF HaveAccounts, MemberRow
  <1>7. QED
    BY <1>3, <1>5, <1>6 DEF OwnersInv, HasClaim

\* On a synchronous store a family with a member or a child has an owner with an
\* account, and the claims hold of whoever has the turn.
THEOREM OwnersInvariant == Spec => []OwnersInv
  <1>1. QED
    BY OwnersInit, OwnersStep, FamiliesInvariant, SyncInvariant, OrderInvariant, PTL DEF Spec

-----------------------------------------------------------------------------
(* The devices and the codes of a family that has members. *)

\* Only a family founded by an account that was being deleted may have nobody.
Home(f) == f \in ghosts \/ MembersOf(f) # {}

NoDevice(f) == \A d \in Device : devices[d] # None => devices[d].family # f
NoCode(f)   == \A k \in Code : Live(codes, k) => codes[k].family # f

Homed == /\ \A d \in Device : devices[d] # None => Home(devices[d].family)
         /\ \A k \in Code : Live(codes, k) => Home(codes[k].family)

\* What the check before a step showed is still so.
Housed(s, c) ==
    /\ Head(s) \in {"findChild", "createCode"} => Home(c.family)
    /\ Head(s) = "createDevice" => Home(codes[c.code].family)
    /\ Head(s) = "writeDevice" => Home(c.row.family)

\* Whoever is to erase a family's members has erased its devices and its codes.
Swept(s, c) ==
    ~Lacks(s, "sweepMembers") => /\ Lacks(s, "sweepDevices") => NoDevice(c.family)
                                 /\ Lacks(s, "sweepCodes") => NoCode(c.family)

HasHome(h) == pc[h] # <<>> => Housed(pc[h], call[h]) /\ Swept(pc[h], call[h])

HomesInv == sync => Homed /\ \A h \in Handler : HasHome(h)

\* What a step shows of homes.
HomesHold == Homed' /\ \A g \in Handler : HasHome(g)'

\* No device and no code comes in, and no home is lost.
FewerDevices == \A d \in Device : devices'[d] # None =>
                    devices[d] # None /\ devices'[d].family = devices[d].family
FewerCodes == \A k \in Code : Live(codes', k) => Live(codes, k) /\ codes'[k].family = codes[k].family
HomesStay == \A f : Home(f) => Home(f)'

LEMMA StoreHomes ==
    ASSUME UNCHANGED <<members, ghosts, devices, codes>>
    PROVE  FewerDevices /\ FewerCodes /\ HomesStay
  BY DEF FewerDevices, FewerCodes, HomesStay, Home, MembersOf, Live

LEMMA FewerHomed ==
    ASSUME HomesInv, sync, FewerDevices, FewerCodes, HomesStay
    PROVE  Homed'
  <1>1. ASSUME NEW d \in Device, devices'[d] # None PROVE Home(devices[d].family)'
    <2>1. PICK f : f = devices[d].family /\ devices'[d].family = f /\ Home(f)
      BY <1>1 DEF FewerDevices, HomesInv, Homed
    <2>2. Home(f)'
      BY <2>1 DEF HomesStay
    <2>3. QED
      BY <2>1, <2>2 DEF Home, MembersOf
  <1>2. ASSUME NEW k \in Code, Live(codes, k)' PROVE Home(codes[k].family)'
    <2>1. PICK f : f = codes[k].family /\ codes'[k].family = f /\ Home(f)
      BY <1>2 DEF FewerCodes, HomesInv, Homed, Live
    <2>2. Home(f)'
      BY <2>1 DEF HomesStay
    <2>3. QED
      BY <2>1, <2>2 DEF Home, MembersOf
  <1>3. QED
    BY <1>1, <1>2 DEF Homed

\* Only a family without devices and codes may lose its members.
LEMMA HomedKept ==
    ASSUME FamiliesInv, HomesInv, sync, UNCHANGED <<devices, codes>>,
           \A f \in Family : Home(f) /\ ~(NoDevice(f) /\ NoCode(f)) => Home(f)'
    PROVE  Homed'
  <1>1. ASSUME NEW d \in Device, devices'[d] # None PROVE Home(devices[d].family)'
    <2>1. PICK f \in Family : f = devices[d].family /\ Home(f) /\ ~NoDevice(f)
      BY <1>1 DEF HomesInv, Homed, NoDevice, FamiliesInv, TablesOK, DeviceRow
    <2>2. Home(f)'
      BY <2>1
    <2>3. QED
      BY <2>1, <2>2 DEF Home, MembersOf
  <1>2. ASSUME NEW k \in Code, Live(codes, k)' PROVE Home(codes[k].family)'
    <2>1. PICK f \in Family : f = codes[k].family /\ Home(f) /\ ~NoCode(f)
      BY <1>2 DEF HomesInv, Homed, NoCode, FamiliesInv, TablesOK, CodeRow, Live
    <2>2. Home(f)'
      BY <2>1
    <2>3. QED
      BY <2>1, <2>2 DEF Home, MembersOf
  <1>3. QED
    BY <1>1, <1>2 DEF Homed

LEMMA WaitingHomes ==
    ASSUME NEW s \in Seq(Step), s # <<>>, Order(s), Head(s) = "wait", NEW c
    PROVE  Housed(s, c)' /\ Swept(s, c)'
  <1>1. Lacks(s, "sweepMembers")
    BY NoneAfterTail, LacksTail DEF Order
  <1>2. QED
    BY <1>1 DEF Housed, Swept

\* A handler that runs: what is left of its program, and the others.
LEMMA RunHomes ==
    ASSUME FamiliesInv, OrderInv, sync, NEW h \in Handler, turn \in {None, h}, NEW rest, NEW c,
           Run(h, rest, c), rest # <<>> => Housed(rest, c)' /\ Swept(rest, c)'
    PROVE  \A g \in Handler : HasHome(g)'
  <1>1. Ran(h, rest, c)
    BY RunRan DEF FamiliesInv, Loop
  <1>2. ASSUME NEW g \in Handler, g # h PROVE HasHome(g)'
    <2>1. SUFFICES ASSUME pc[g] # <<>> PROVE HasHome(g)'
      BY <1>1, <1>2 DEF Ran, HasHome
    <2>2. PICK s, c0 : s = pc[g] /\ c0 = call[g] /\ s = pc'[g] /\ c0 = call'[g]
      BY <1>1, <1>2 DEF Ran
    <2>3. s \in Seq(Step) /\ s # <<>> /\ Order(s) /\ Head(s) \in Waits
      BY <1>2, <2>1, <2>2, HasCall, OthersWait DEF OrderInv
    <2>4. Housed(s, c0)' /\ Swept(s, c0)'
      BY <2>3, WaitIsStep, WaitingHomes
    <2>5. QED
      BY <2>2, <2>4 DEF HasHome, Housed, Swept, Home, MembersOf, NoDevice, NoCode, Live
  <1>3. HasHome(h)'
    <2>1. SUFFICES ASSUME rest # <<>> PROVE (Housed(pc[h], call[h]) /\ Swept(pc[h], call[h]))'
      BY <1>1 DEF HasHome, Ran
    <2>2. pc'[h] = rest /\ call'[h] = c
      BY <1>1, <2>1 DEF Ran
    <2>3. Housed(rest, c)' /\ Swept(rest, c)'
      BY <2>1
    <2>4. QED
      BY <2>2, <2>3 DEF Housed, Swept, Home, MembersOf, NoDevice, NoCode, Live
  <1>4. QED
    BY <1>2, <1>3

\* What step shows when it is over, and how it leaves what was swept.
Houses(step, c) ==
    /\ step \in {"mayManagePolicy", "findChild"} => Home(c.family)
    /\ step = "readCode" => Home(codes[c.code].family)
    /\ step = "readDevice" => Home(c.row.family)
    /\ step = "sweepDevices" => NoDevice(c.family)
    /\ step = "sweepCodes" => NoCode(c.family)

LEMMA TailHoused ==
    ASSUME NEW s \in Seq(Step), s # <<>>, Facts(s), Order(s), Tail(s) # <<>>, NEW c,
           Houses(Head(s), c)'
    PROVE  Housed(Tail(s), c)'
  <1> DEFINE t == Tail(s)
  <1>1. /\ Head(t) = "findChild" => Head(s) = "mayManagePolicy"
        /\ Head(t) = "createCode" => Head(s) = "findChild"
        /\ Head(t) = "createDevice" => Head(s) = "readCode"
        /\ Head(t) = "writeDevice" => Head(s) = "readDevice"
    BY PrecededTail DEF Order, Facts
  <1> HIDE DEF t
  <1>2. Housed(t, c)'
    BY <1>1 DEF Housed, Houses
  <1>3. QED
    BY <1>2 DEF t

LEMMA TailSwept ==
    ASSUME NEW s \in Seq(Step), s # <<>>, Order(s), NEW c0, NEW c, Swept(s, c0),
           Houses(Head(s), c)', Head(s) # "createFamily" => c.family = c0.family,
           Head(s) \notin {"createDevice", "writeDevice", "createCode"} => FewerDevices /\ FewerCodes
    PROVE  Swept(Tail(s), c)'
  <1> DEFINE t == Tail(s)
  <1>1. \A x : Lacks(s, x) <=> Head(s) # x /\ Lacks(t, x)
    BY LacksTail
  <1>2. Head(s) \in {"createFamily", "createDevice", "writeDevice", "createCode"} =>
            Lacks(t, "sweepMembers")
    BY NoneAfterTail DEF Order
  <1> HIDE DEF t
  <1>3. ASSUME ~Lacks(t, "sweepMembers"), Lacks(t, "sweepDevices") PROVE NoDevice(c.family)'
    <2>1. CASE Head(s) = "sweepDevices"
      BY <2>1 DEF Houses
    <2>2. CASE Head(s) # "sweepDevices"
      <3>1. NoDevice(c0.family) /\ FewerDevices /\ c.family = c0.family
        BY <1>1, <1>2, <1>3, <2>2 DEF Swept
      <3>2. QED
        BY <3>1 DEF NoDevice, FewerDevices
    <2>3. QED
      BY <2>1, <2>2
  <1>4. ASSUME ~Lacks(t, "sweepMembers"), Lacks(t, "sweepCodes") PROVE NoCode(c.family)'
    <2>1. CASE Head(s) = "sweepCodes"
      BY <2>1 DEF Houses
    <2>2. CASE Head(s) # "sweepCodes"
      <3>1. NoCode(c0.family) /\ FewerCodes /\ c.family = c0.family
        BY <1>1, <1>2, <1>4, <2>2 DEF Swept
      <3>2. QED
        BY <3>1 DEF NoCode, FewerCodes, Live
    <2>3. QED
      BY <2>1, <2>2
  <1>5. Swept(t, c)'
    BY <1>3, <1>4 DEF Swept
  <1>6. QED
    BY <1>5 DEF t

\* What a handler that runs knows before its step.
LEMMA Knows ==
    ASSUME FamiliesInv, OrderInv, HomesInv, sync, NEW h \in Handler, pc[h] # <<>>
    PROVE  /\ pc[h] \in Seq(Step) /\ Facts(pc[h]) /\ Order(pc[h]) /\ call[h] \in CallRecord
           /\ Housed(pc[h], call[h]) /\ Swept(pc[h], call[h])
  BY HasCall DEF OrderInv, HomesInv, HasHome

LEMMA StepHomes ==
    ASSUME FamiliesInv, OrderInv, HomesInv, sync, NEW h \in Handler, NEW step, At(h, step),
           NEW ok, NEW c, Check(h, ok, c), ok => Houses(step, c)',
           step # "createFamily" => c.family = call[h].family,
           step \notin {"createDevice", "writeDevice", "createCode"} => FewerDevices /\ FewerCodes
    PROVE  \A g \in Handler : HasHome(g)'
  <1>1. PICK s, c0 : s = pc[h] /\ c0 = call[h]
    OBVIOUS
  <1>2. pc[h] # <<>> /\ turn \in {None, h} /\ Head(s) = step
    BY <1>1 DEF At
  <1>3. s \in Seq(Step) /\ s # <<>> /\ Facts(s) /\ Order(s) /\ Swept(s, c0)
    BY <1>1, <1>2, Knows
  <1>4. CASE ok
    <2>1. PICK rest : rest = Tail(s)
      OBVIOUS
    <2>2. Run(h, rest, c)
      BY <1>1, <1>4, <2>1 DEF Check, GoOn, Run
    <2>3. Houses(Head(s), c)'
      BY <1>2, <1>4 DEF Houses
    <2>4. Tail(s) # <<>> => Housed(Tail(s), c)'
      BY <1>3, <2>3, TailHoused
    <2>5. Swept(Tail(s), c)'
      BY <1>1, <1>2, <1>3, <2>3, TailSwept
    <2>6. rest # <<>> => Housed(rest, c)' /\ Swept(rest, c)'
      BY <2>1, <2>4, <2>5 DEF Housed, Swept
    <2>7. QED
      BY <1>2, <2>2, <2>6, RunHomes
  <1>5. CASE ~ok
    <2>1. PICK rest, n : rest = <<>> /\ n = NoCall
      OBVIOUS
    <2>2. Run(h, rest, n)
      BY <1>5, <2>1 DEF Check, Run
    <2>3. QED
      BY <1>2, <2>1, <2>2, RunHomes
  <1>6. QED
    BY <1>4, <1>5

\* A step that shows nothing of homes.
LEMMA QuietHomes ==
    ASSUME FamiliesInv, OrderInv, HomesInv, sync, NEW h \in Handler, NEW step, At(h, step),
           step \notin {"mayManagePolicy", "findChild", "readCode", "readDevice", "sweepDevices", "sweepCodes"},
           NEW ok, NEW c, Check(h, ok, c), step # "createFamily" => c.family = call[h].family,
           FewerDevices, FewerCodes, HomesStay
    PROVE  HomesHold
  <1>1. Houses(step, c)'
    BY DEF Houses
  <1>2. \A g \in Handler : HasHome(g)'
    BY <1>1, StepHomes
  <1>3. QED
    BY <1>2, FewerHomed DEF HomesHold

LEMMA QuietWriteHomes ==
    ASSUME FamiliesInv, OrderInv, HomesInv, sync, NEW h \in Handler, NEW step,
           step \notin {"mayManagePolicy", "findChild", "readCode", "readDevice", "sweepDevices", "sweepCodes"},
           NEW c, Write(h, step, c), step # "createFamily" => c.family = call[h].family,
           FewerDevices, FewerCodes, HomesStay
    PROVE  HomesHold
  <1>1. PICK ok \in {TRUE} : TRUE
    OBVIOUS
  <1>2. At(h, step) /\ Check(h, ok, c)
    BY <1>1 DEF Write, Check
  <1>3. QED
    BY <1>2, QuietHomes

LEMMA ReadFamilyHomes ==
    ASSUME FamiliesInv, OrderInv, HomesInv, sync, NEW h \in Handler, ReadFamily(h)
    PROVE  HomesHold
  <1>0. FewerDevices /\ FewerCodes /\ HomesStay
    BY StoreHomes DEF ReadFamily, Read, tables, history
  <1>1. PICK c : c = call[h]
    OBVIOUS
  <1>2. ASSUME NEW step \in {"wait", "isUser", "mayManageParents", "findPerson", "notMember", "findAssigned"},
               NEW ok, Read(h, step, ok, call[h])
        PROVE  HomesHold
    <2>1. At(h, step) /\ Check(h, ok, c)
      BY <1>1, <1>2 DEF Read, At, Check, GoOn, Run
    <2>2. QED
      BY <1>0, <1>1, <2>1, QuietHomes
  <1>3. CASE Read(h, "mayManagePolicy", HasRole(call[h].family, call[h].user, {"OWNER", "PARENT"}), call[h])
    <2>1. PICK step, ok : /\ step = "mayManagePolicy"
                          /\ ok = HasRole(call[h].family, call[h].user, {"OWNER", "PARENT"})
      OBVIOUS
    <2>2. At(h, step) /\ Check(h, ok, c)
      BY <1>1, <1>3, <2>1 DEF Read, At, Check, GoOn, Run
    <2>3. ok => Home(c.family)
      BY <1>1, <2>1 DEF HasRole, RowOf, Home
    <2>4. ok => Houses(step, c)'
      BY <1>0, <2>1, <2>3 DEF Houses, HomesStay, Home, MembersOf
    <2>5. \A g \in Handler : HasHome(g)'
      BY <1>0, <1>1, <2>2, <2>4, StepHomes
    <2>6. QED
      BY <1>0, <2>5, FewerHomed DEF HomesHold
  <1>4. QED
    BY <1>2, <1>3 DEF ReadFamily

LEMMA ReadChildHomes ==
    ASSUME FamiliesInv, OrderInv, HomesInv, sync, NEW h \in Handler, ReadChild(h)
    PROVE  HomesHold
  <1>0. /\ FewerDevices /\ FewerCodes /\ HomesStay
        /\ pc[h] # <<>> /\ call[h] \in CallRecord
    BY StoreHomes, HasCall DEF ReadChild, Read, At, tables, history
  <1>1. ASSUME NEW step \in {"listDevices", "listAssigned", "listChildren"}, NEW S,
               \/ Read(h, step, TRUE, [call[h] EXCEPT !.listed = S])
               \/ Read(h, step, TRUE, [call[h] EXCEPT !.rest = S])
        PROVE  HomesHold
    <2>1. PICK c, ok : /\ ok = TRUE /\ Read(h, step, ok, c)
                       /\ c = [call[h] EXCEPT !.listed = S] \/ c = [call[h] EXCEPT !.rest = S]
      BY <1>1
    <2>2. At(h, step) /\ Check(h, ok, c) /\ c.family = call[h].family
      BY <1>0, <2>1 DEF Read, CallRecord
    <2>3. QED
      BY <1>0, <2>2, QuietHomes
  <1>2. CASE Read(h, "findChild", call[h].child \in ChildrenOf(call[h].family),
                  [call[h] EXCEPT !.row = children[call[h].child]])
    <2>1. PICK c, ok, step, s : /\ c = [call[h] EXCEPT !.row = children[call[h].child]]
                                /\ ok = (call[h].child \in ChildrenOf(call[h].family))
                                /\ step = "findChild" /\ s = pc[h]
      OBVIOUS
    <2>2. At(h, step) /\ Check(h, ok, c) /\ c.family = call[h].family /\ Head(s) = "findChild"
      BY <1>0, <1>2, <2>1 DEF Read, At, Check, GoOn, Run, CallRecord
    <2>3. Home(c.family)
      BY <1>0, <2>1, <2>2, Knows DEF Housed
    <2>4. Houses(step, c)'
      BY <1>0, <2>1, <2>3 DEF Houses, HomesStay, Home, MembersOf
    <2>5. \A g \in Handler : HasHome(g)'
      BY <1>0, <2>2, <2>4, StepHomes
    <2>6. QED
      BY <1>0, <2>5, FewerHomed DEF HomesHold
  <1>3. QED
    BY <1>1, <1>2 DEF ReadChild

LEMMA ReadDeviceHomes ==
    ASSUME FamiliesInv, OrderInv, HomesInv, sync, NEW h \in Handler, ReadDevice(h)
    PROVE  HomesHold
  <1>0. /\ FewerDevices /\ FewerCodes /\ HomesStay /\ UNCHANGED <<devices, codes>>
        /\ pc[h] # <<>> /\ call[h] \in CallRecord /\ Needs(pc[h], call[h]) /\ pc[h] \in Seq(Step)
    BY StoreHomes, HasCall DEF ReadDevice, Read, At, tables, history
  <1>1. CASE Read(h, "findDevice", devices[call[h].device] # None
                                   /\ devices[call[h].device].family = call[h].family,
                  [call[h] EXCEPT !.child = devices[call[h].device].child])
    <2>1. PICK c, ok, step : /\ c = [call[h] EXCEPT !.child = devices[call[h].device].child]
                             /\ ok = (devices[call[h].device] # None
                                      /\ devices[call[h].device].family = call[h].family)
                             /\ step = "findDevice"
      OBVIOUS
    <2>2. At(h, step) /\ Check(h, ok, c) /\ c.family = call[h].family
      BY <1>0, <1>1, <2>1 DEF Read, At, Check, GoOn, Run, CallRecord
    <2>3. QED
      BY <1>0, <2>1, <2>2, QuietHomes
  <1>2. CASE Read(h, "readDevice", devices[call[h].device] # None,
                  [call[h] EXCEPT !.row = devices[call[h].device]])
    <2>1. PICK c, ok, step, d : /\ c = [call[h] EXCEPT !.row = devices[call[h].device]]
                                /\ ok = (devices[call[h].device] # None) /\ step = "readDevice"
                                /\ d = call[h].device
      OBVIOUS
    <2>2. At(h, step) /\ Check(h, ok, c) /\ c.family = call[h].family /\ c.row = devices[d]
      BY <1>0, <1>2, <2>1 DEF Read, At, Check, GoOn, Run, CallRecord
    <2>3. d \in Device
      BY <1>0, <2>1, <2>2, LacksTail DEF At, Needs
    <2>4. ok => Home(c.row.family)
      BY <2>1, <2>2, <2>3 DEF HomesInv, Homed
    <2>5. ok => Houses(step, c)'
      BY <1>0, <2>1, <2>4 DEF Houses, HomesStay, Home, MembersOf
    <2>6. \A g \in Handler : HasHome(g)'
      BY <1>0, <2>1, <2>2, <2>5, StepHomes
    <2>7. QED
      BY <1>0, <2>6, FewerHomed DEF HomesHold
  <1>3. CASE Read(h, "readCode", codes[call[h].code].live, call[h])
    <2>1. PICK c, ok, step, k : /\ c = call[h] /\ ok = codes[call[h].code].live
                                /\ step = "readCode" /\ k = call[h].code
      OBVIOUS
    <2>2. At(h, step) /\ Check(h, ok, c)
      BY <1>3, <2>1 DEF Read, At, Check, GoOn, Run
    <2>3. ~Lacks(pc[h], "createDevice")
      <3>1. PICK s : s = pc[h]
        OBVIOUS
      <3>2. s \in Seq(Step) /\ s # <<>> /\ Facts(s) /\ Head(s) = "readCode"
        BY <1>0, <2>1, <2>2, <3>1, HasCall DEF At
      <3>3. Tail(s) # <<>> /\ Head(Tail(s)) = "createDevice" /\ Tail(s) \in Seq(Step)
        BY <3>2, FollowedTail, TailSteps DEF Facts
      <3>4. ~Lacks(s, "createDevice")
        BY <3>2, <3>3, LacksTail
      <3>5. QED
        BY <3>1, <3>4
    <2>4. k \in Code /\ codes[k] # None
      BY <1>0, <2>1, <2>3 DEF Needs, HasCode, FamiliesInv, CodeKnown
    <2>5. ok => Home(codes[k].family)
      BY <2>1, <2>4 DEF HomesInv, Homed, Live
    <2>6. ok => Houses(step, c)'
      BY <1>0, <2>1, <2>5 DEF Houses, HomesStay, Home, MembersOf
    <2>7. \A g \in Handler : HasHome(g)'
      BY <1>0, <2>1, <2>2, <2>6, StepHomes
    <2>8. QED
      BY <1>0, <2>7, FewerHomed DEF HomesHold
  <1>4. QED
    BY <1>1, <1>2, <1>3 DEF ReadDevice

LEMMA LeaveHomes ==
    ASSUME FamiliesInv, OrderInv, HomesInv, sync, NEW h \in Handler, leaveFamilies(h)
    PROVE  HomesHold
  <1>0. FewerDevices /\ FewerCodes /\ HomesStay /\ pc[h] # <<>> /\ turn \in {None, h}
    BY StoreHomes DEF leaveFamilies, At, tables, history
  <1>1. PICK s, c0 : s = pc[h] /\ c0 = call[h]
    OBVIOUS
  <1>2. s \in Seq(Step) /\ s # <<>> /\ Order(s) /\ c0 \in CallRecord
    BY <1>0, <1>1, Knows
  <1>3. ASSUME NEW step \in {"listOwned", "leaveFamilies"}, At(h, step), NEW c, GoOn(h, c),
               c.family = c0.family
        PROVE  HomesHold
    <2>1. Write(h, step, c)
      BY <1>3 DEF Write
    <2>2. QED
      BY <1>0, <1>1, <1>3, <2>1, QuietWriteHomes
  <1>4. ASSUME NEW q \in {<<>>, deleteFamilyCascade}, At(h, "leaveFamilies"), NEW c, Run(h, q \o pc[h], c)
        PROVE  HomesHold
    <2>1. PICK rest : rest = q \o s
      OBVIOUS
    <2>2. Run(h, rest, c) /\ Head(s) = "leaveFamilies"
      BY <1>1, <1>4, <2>1 DEF Run, At
    <2>3. Lacks(s, "sweepMembers")
      BY <1>2, <2>2, LacksTail, NoneAfterTail DEF Order
    <2>4. rest # <<>> => Housed(rest, c)' /\ Swept(rest, c)'
      <3>1. CASE q = <<>>
        <4>1. rest = s
          BY <1>2, <2>1, <3>1
        <4>2. QED
          BY <2>2, <2>3, <4>1 DEF Housed, Swept
      <3>2. CASE q = deleteFamilyCascade
        <4>1. Head(rest) = "listChildren"
          BY <1>2, <2>1, <3>2, CascadeFacts, Absent4
        <4>2. ~Lacks(q, "sweepDevices") /\ ~Lacks(q, "sweepCodes")
          BY <3>2 DEF deleteFamilyCascade, Lacks
        <4>3. ~Lacks(rest, "sweepDevices") /\ ~Lacks(rest, "sweepCodes")
          BY <1>2, <2>1, <3>2, <4>2, CascadeFacts, ConcatLacks
        <4>4. QED
          BY <4>1, <4>3 DEF Housed, Swept
      <3>3. QED
        BY <3>1, <3>2
    <2>5. \A g \in Handler : HasHome(g)'
      BY <1>0, <2>2, <2>4, RunHomes
    <2>6. QED
      BY <1>0, <2>5, FewerHomed DEF HomesHold
  <1>5. ASSUME At(h, "listOwned"), NEW S, GoOn(h, [c0 EXCEPT !.owned = S]) PROVE HomesHold
    <2>1. PICK c : c = [c0 EXCEPT !.owned = S]
      OBVIOUS
    <2>2. GoOn(h, c) /\ c.family = c0.family
      BY <1>2, <1>5, <2>1 DEF GoOn, Run, CallRecord
    <2>3. QED
      BY <1>3, <1>5, <2>2
  <1>6. ASSUME At(h, "leaveFamilies"), GoOn(h, call[h]) PROVE HomesHold
    <2>1. GoOn(h, c0)
      BY <1>1, <1>6 DEF GoOn, Run
    <2>2. QED
      BY <1>3, <1>6, <2>1
  <1>7. ASSUME NEW f \in call[h].owned, At(h, "leaveFamilies"),
               Run(h, (IF Owners(f) \ {call[h].user} # {} THEN <<>> ELSE deleteFamilyCascade) \o pc[h],
                   [call[h] EXCEPT !.family = f, !.owned = @ \ {f}])
        PROVE  HomesHold
    <2>1. PICK q \in {<<>>, deleteFamilyCascade} :
               q = IF Owners(f) \ {call[h].user} # {} THEN <<>> ELSE deleteFamilyCascade
      OBVIOUS
    <2>2. PICK c : c = [call[h] EXCEPT !.family = f, !.owned = @ \ {f}]
      OBVIOUS
    <2>3. Run(h, q \o pc[h], c)
      BY <1>7, <2>1, <2>2 DEF Run
    <2>4. QED
      BY <1>4, <1>7, <2>3
  <1>8. CASE At(h, "listOwned") /\ GoOn(h, [call[h] EXCEPT !.owned =
                {members[m].family : m \in {x \in RowsOf(call[h].user) : members[x].role = "OWNER"}}])
    <2>1. PICK S : S = {members[m].family : m \in {x \in RowsOf(call[h].user) : members[x].role = "OWNER"}}
      OBVIOUS
    <2>2. GoOn(h, [c0 EXCEPT !.owned = S])
      BY <1>1, <1>8, <2>1 DEF GoOn, Run
    <2>3. QED
      BY <1>5, <1>8, <2>2
  <1>9. QED
    BY <1>6, <1>7, <1>8 DEF leaveFamilies

\* A cascade for one child before the rest of the program; or one row after the other.
LEMMA PrefixHomes ==
    ASSUME FamiliesInv, OrderInv, HomesInv, sync, NEW h \in Handler,
           NEW step \in {"eraseChildren", "unassign", "dropDevices"}, At(h, step),
           NEW rest \in {pc[h], deleteChildCascade \o pc[h]}, NEW c, Run(h, rest, c),
           c.family = call[h].family, FewerDevices, FewerCodes, HomesStay
    PROVE  HomesHold
  <1>1. PICK s, c0 : s = pc[h] /\ c0 = call[h]
    OBVIOUS
  <1>2. pc[h] # <<>> /\ turn \in {None, h} /\ Head(s) = step
    BY <1>1 DEF At
  <1>3. s \in Seq(Step) /\ s # <<>> /\ Swept(s, c0)
    BY <1>1, <1>2, Knows
  <1>4. Swept(s, c)'
    <2>1. ASSUME ~Lacks(s, "sweepMembers"), Lacks(s, "sweepDevices") PROVE NoDevice(c.family)'
      BY <1>1, <1>3, <2>1 DEF Swept, NoDevice, FewerDevices
    <2>2. ASSUME ~Lacks(s, "sweepMembers"), Lacks(s, "sweepCodes") PROVE NoCode(c.family)'
      BY <1>1, <1>3, <2>2 DEF Swept, NoCode, FewerCodes, Live
    <2>3. QED
      BY <2>1, <2>2 DEF Swept
  <1>5. CASE rest = s
    <2>1. Housed(s, c)'
      BY <1>2 DEF Housed
    <2>2. rest # <<>> => Housed(rest, c)' /\ Swept(rest, c)'
      BY <1>4, <1>5, <2>1 DEF Housed, Swept
    <2>3. \A g \in Handler : HasHome(g)'
      BY <1>2, <2>2, RunHomes
    <2>4. QED
      BY <2>3, FewerHomed DEF HomesHold
  <1>6. CASE rest = deleteChildCascade \o s
    <2>1. PICK r : r = deleteChildCascade \o s
      OBVIOUS
    <2>2. \A x : Lacks(r, x) <=> Lacks(deleteChildCascade, x) /\ Lacks(s, x)
      BY <1>3, <2>1, CascadeFacts, ConcatLacks
    <2>3. \A x \in {"sweepMembers", "sweepDevices", "sweepCodes"} : Lacks(deleteChildCascade, x)
      BY DEF deleteChildCascade, Lacks
    <2>4. Head(r) = "listDevices"
      BY <1>3, <2>1, CascadeFacts, Absent4
    <2>5. Housed(r, c)'
      BY <2>4 DEF Housed
    <2>6. Swept(r, c)'
      BY <1>4, <2>2, <2>3 DEF Swept
    <2>7. Run(h, r, c)
      BY <1>6, <2>1 DEF Run
    <2>8. \A g \in Handler : HasHome(g)'
      BY <1>2, <2>5, <2>6, <2>7, RunHomes
    <2>9. QED
      BY <2>8, FewerHomed DEF HomesHold
  <1>7. QED
    BY <1>1, <1>5, <1>6

LEMMA EraseHomes ==
    ASSUME FamiliesInv, OrderInv, HomesInv, sync, NEW h \in Handler, eraseChildren(h)
    PROVE  HomesHold
  <1>0. /\ FewerDevices /\ FewerCodes /\ HomesStay /\ At(h, "eraseChildren")
        /\ pc[h] # <<>> /\ call[h] \in CallRecord
    BY StoreHomes, HasCall DEF eraseChildren, At, tables, history
  <1>1. CASE call[h].rest = {} /\ GoOn(h, call[h])
    <2>1. PICK c, step : c = call[h] /\ step = "eraseChildren"
      OBVIOUS
    <2>2. Write(h, step, c)
      BY <1>0, <1>1, <2>1 DEF Write, At, GoOn, Run
    <2>3. QED
      BY <1>0, <2>1, <2>2, QuietWriteHomes
  <1>2. ASSUME NEW k \in call[h].rest,
               Run(h, deleteChildCascade \o pc[h], [call[h] EXCEPT !.child = k, !.rest = @ \ {k}])
        PROVE  HomesHold
    <2>1. PICK c : c = [call[h] EXCEPT !.child = k, !.rest = @ \ {k}]
      OBVIOUS
    <2>2. PICK rest : rest = deleteChildCascade \o pc[h]
      OBVIOUS
    <2>3. PICK step \in {"eraseChildren", "unassign", "dropDevices"} : step = "eraseChildren"
      OBVIOUS
    <2>4. Run(h, rest, c) /\ c.family = call[h].family /\ At(h, step)
      BY <1>0, <1>2, <2>1, <2>2, <2>3 DEF Run, At, CallRecord
    <2>5. QED
      BY <1>0, <2>2, <2>4, PrefixHomes
  <1>3. QED
    BY <1>1, <1>2 DEF eraseChildren

LEMMA UpdateFamiliesHomes ==
    ASSUME FamiliesInv, OrderInv, HomesInv, sync, NEW h \in Handler, UpdateFamilies(h)
    PROVE  HomesHold
  <1>0. FewerDevices /\ FewerCodes /\ HomesStay
    BY DEF UpdateFamilies, FewerDevices, FewerCodes, HomesStay, Home, MembersOf, Live
  <1>1. PICK step, c : /\ step \in {"createFamily", "dropFamily"} /\ Write(h, step, c)
                       /\ step # "createFamily" => c = call[h]
    BY DEF UpdateFamilies
  <1>2. QED
    BY <1>0, <1>1, QuietWriteHomes

\* A family that has members has them still, but for one that loses its own.
LEMMA UpdateMembersHomes ==
    ASSUME FamiliesInv, OrderInv, OwnersInv, HomesInv, sync, NEW h \in Handler, UpdateMembers(h)
    PROVE  HomesHold
  <1>0. /\ FewerDevices /\ FewerCodes /\ UNCHANGED <<ghosts, devices, codes>>
        /\ members \in [Member -> MemberRow \cup {None}]
    BY DEF UpdateMembers, FewerDevices, FewerCodes, Live, history, FamiliesInv, TablesOK
  <1>1. PICK c, s : c = call[h] /\ s = pc[h]
    OBVIOUS
  <1>2. ASSUME NEW step \in {"addOwner", "addMember"}, Write(h, step, call[h]), HasFresh(members), NEW row,
               members' = [members EXCEPT ![Fresh(members)] = row]
        PROVE  HomesHold
    <2>1. PICK m \in Member : m = Fresh(members) /\ members[m] = None
      BY <1>0, <1>2 DEF HasFresh, Fresh
    <2>2. \A n \in Member : members[n] # None => members'[n] = members[n]
      BY <1>0, <1>2, <2>1
    <2>3. HomesStay
      BY <1>0, <2>2 DEF HomesStay, Home, MembersOf
    <2>4. Write(h, step, c)
      BY <1>1, <1>2 DEF Write, At, GoOn, Run
    <2>5. QED
      BY <1>0, <1>1, <2>3, <2>4, QuietWriteHomes
  <1>3. ASSUME NEW step \in {"sweepMembers", "dropMemberships"}, Write(h, step, call[h]), Homed'
        PROVE  HomesHold
    <2>1. PICK ok \in {TRUE} : TRUE
      OBVIOUS
    <2>2. At(h, step) /\ Check(h, ok, c)
      BY <1>1, <1>3, <2>1 DEF Write, At, Check, GoOn, Run
    <2>3. Houses(step, c)'
      BY DEF Houses
    <2>4. \A g \in Handler : HasHome(g)'
      BY <1>0, <1>1, <2>2, <2>3, StepHomes
    <2>5. QED
      BY <1>3, <2>4 DEF HomesHold
  <1>4. ASSUME NEW step, step \in {"sweepMembers", "dropMemberships"}, Write(h, step, call[h])
        PROVE  /\ pc[h] # <<>> /\ s \in Seq(Step) /\ s # <<>> /\ Order(s) /\ Head(s) = step
               /\ Swept(s, c) /\ Leaves(s, c)
    BY <1>1, <1>4, Knows, Claims DEF Write, At
  <1>5. CASE Write(h, "sweepMembers", call[h]) /\ members' = Without(members, MembersOf(call[h].family))
    <2>1. PICK step : step = "sweepMembers"
      OBVIOUS
    <2>2. Write(h, step, call[h]) /\ Head(s) = "sweepMembers"
      BY <1>4, <1>5, <2>1 DEF Write, At, GoOn, Run
    <2>3. s \in Seq(Step) /\ s # <<>> /\ Order(s) /\ Swept(s, c)
      BY <1>4, <2>1, <2>2
    <2>4. NoDevice(c.family) /\ NoCode(c.family)
      <3>1. ~Lacks(s, "sweepMembers") /\ Lacks(s, "sweepDevices") /\ Lacks(s, "sweepCodes")
        BY <2>2, <2>3, LacksTail, NoneAfterTail DEF Order
      <3>2. QED
        BY <2>3, <3>1 DEF Swept
    <2>5. \A f : f # c.family /\ Home(f) => Home(f)'
      BY <1>0, <1>1, <1>5 DEF Home, MembersOf, Without
    <2>6. Homed'
      BY <1>0, <2>4, <2>5, HomedKept
    <2>7. QED
      BY <1>3, <2>1, <2>2, <2>6
  <1>6. CASE Write(h, "dropMemberships", call[h]) /\ members' = Without(members, RowsOf(call[h].user))
    <2>1. PICK step : step = "dropMemberships"
      OBVIOUS
    <2>2. Write(h, step, call[h]) /\ Head(s) = "dropMemberships"
      BY <1>4, <1>6, <2>1 DEF Write, At, GoOn, Run
    <2>3. s \in Seq(Step) /\ s # <<>> /\ Order(s) /\ Leaves(s, c)
      BY <1>4, <2>1, <2>2
    <2>4. /\ ~Lacks(s, "dropMemberships") /\ Lacks(s, "listOwned")
          /\ Lacks(s, "leaveFamilies") /\ Lacks(s, "sweepMembers")
      BY <2>2, <2>3, LacksTail, NoneAfterTail DEF Order
    <2>5. ASSUME NEW f \in Family \ ghosts, MembersOf(f) # {} PROVE MembersOf(f)' # {}
      <3>1. PICK u \in Owners(f) : u # c.user
        <4>1. Owners(f) # {}
          BY <2>5 DEF OwnersInv, Owned
        <4>2. ~(Owners(f) \subseteq {c.user}) \/ c.user \notin Owners(f)
          BY <2>3, <2>4 DEF Leaves
        <4>3. QED
          BY <4>1, <4>2
      <3>2. PICK m \in Member : members[m] # None /\ members[m].family = f /\ members[m].user = u
        BY <3>1, OwnersAre
      <3>3. members'[m] = members[m]
        BY <1>0, <1>1, <1>6, <3>1, <3>2 DEF Without, RowsOf
      <3>4. QED
        BY <3>2, <3>3 DEF MembersOf
    <2>6. \A f \in Family : Home(f) => Home(f)'
      BY <1>0, <2>5 DEF Home
    <2>7. Homed'
      BY <1>0, <2>6, HomedKept
    <2>8. QED
      BY <1>3, <2>1, <2>2, <2>7
  <1>7. QED
    BY <1>2, <1>5, <1>6 DEF UpdateMembers

LEMMA UnassignHomes ==
    ASSUME FamiliesInv, OrderInv, HomesInv, sync, NEW h \in Handler, unassign(h)
    PROVE  HomesHold
  <1>0. /\ FewerDevices /\ FewerCodes /\ UNCHANGED <<ghosts>> /\ At(h, "unassign")
        /\ pc[h] # <<>> /\ call[h] \in CallRecord
    BY HasCall DEF unassign, FewerDevices, FewerCodes, Live, history, At
  <1>1. PICK step \in {"eraseChildren", "unassign", "dropDevices"} : step = "unassign" /\ At(h, step)
    BY <1>0
  <1>2. CASE call[h].listed = {} /\ GoOn(h, call[h]) /\ UNCHANGED members
    <2>1. PICK c : c = call[h]
      OBVIOUS
    <2>2. Write(h, step, c) /\ HomesStay
      BY <1>0, <1>1, <1>2, <2>1 DEF Write, GoOn, Run, HomesStay, Home, MembersOf
    <2>3. QED
      BY <1>0, <1>1, <2>1, <2>2, QuietWriteHomes
  <1>3. ASSUME NEW m \in call[h].listed, Run(h, pc[h], [call[h] EXCEPT !.listed = @ \ {m}]),
               members' = IF members[m] = None THEN members
                          ELSE [members EXCEPT ![m].assigned = @ \ {call[h].child}]
        PROVE  HomesHold
    <2>1. PICK c, k, rest : /\ c = [call[h] EXCEPT !.listed = @ \ {m}]
                            /\ k = call[h].child /\ rest = pc[h]
      OBVIOUS
    <2>2. Run(h, rest, c) /\ c.family = call[h].family
      BY <1>0, <1>3, <2>1 DEF Run, CallRecord
    <2>3. \A n \in Member : /\ members'[n] = None <=> members[n] = None
                            /\ members[n] # None => members'[n].family = members[n].family
      BY <1>3, <2>1, UnassignRows
    <2>4. HomesStay
      BY <1>0, <2>3 DEF HomesStay, Home, MembersOf
    <2>5. QED
      BY <1>0, <1>1, <2>1, <2>2, <2>4, PrefixHomes
  <1>4. QED
    BY <1>2, <1>3 DEF unassign

LEMMA UpdateChildrenHomes ==
    ASSUME FamiliesInv, OrderInv, HomesInv, sync, NEW h \in Handler, UpdateChildren(h)
    PROVE  HomesHold
  <1>0. FewerDevices /\ FewerCodes /\ HomesStay
    BY StoreHomes DEF UpdateChildren
  <1>1. ASSUME NEW k, Write(h, "createChild", [call[h] EXCEPT !.child = k]) PROVE HomesHold
    <2>1. PICK c, step : c = [call[h] EXCEPT !.child = k] /\ step = "createChild"
      OBVIOUS
    <2>2. call[h] \in CallRecord
      BY <1>1, HasCall DEF Write, At
    <2>3. Write(h, step, c) /\ c.family = call[h].family
      BY <1>1, <2>1, <2>2 DEF Write, At, GoOn, Run, CallRecord
    <2>4. QED
      BY <1>0, <2>1, <2>3, QuietWriteHomes
  <1>2. CASE At(h, "insertChild") /\ Check(h, ~(children[call[h].child] # None), call[h])
    <2>1. PICK c, step, ok : /\ c = call[h] /\ step = "insertChild"
                             /\ ok = ~(children[call[h].child] # None)
      OBVIOUS
    <2>2. At(h, step) /\ Check(h, ok, c)
      BY <1>2, <2>1 DEF At, Check, GoOn, Run
    <2>3. QED
      BY <1>0, <2>1, <2>2, QuietHomes
  <1>3. CASE Write(h, "dropChild", call[h])
    <2>1. PICK c, step : c = call[h] /\ step = "dropChild"
      OBVIOUS
    <2>2. Write(h, step, c)
      BY <1>3, <2>1 DEF Write, At, GoOn, Run
    <2>3. QED
      BY <1>0, <2>1, <2>2, QuietWriteHomes
  <1>4. QED
    BY <1>1, <1>2, <1>3 DEF UpdateChildren

LEMMA UpdateVersionsHomes ==
    ASSUME FamiliesInv, OrderInv, HomesInv, sync, NEW h \in Handler, UpdateVersions(h) \/ dropUser(h)
    PROVE  HomesHold
  <1>0. FewerDevices /\ FewerCodes /\ HomesStay
    BY StoreHomes DEF UpdateVersions, dropUser, history
  <1>1. PICK step, c : /\ step \in {"bump", "dropVersions", "sweepVersions", "dropUser"}
                       /\ c = call[h] /\ Write(h, step, c)
    BY DEF UpdateVersions, dropUser
  <1>2. QED
    BY <1>0, <1>1, QuietWriteHomes

\* Only a code made for a family with a member is new.
LEMMA UpdateCodesHomes ==
    ASSUME FamiliesInv, OrderInv, HomesInv, sync, NEW h \in Handler, UpdateCodes(h)
    PROVE  HomesHold
  <1>0. /\ FewerDevices /\ HomesStay /\ UNCHANGED <<members, ghosts, devices>>
        /\ codes \in [Code -> CodeRow \cup {None}] /\ None \notin CodeRow
    BY FamiliesAssumption DEF UpdateCodes, FewerDevices, HomesStay, Home, MembersOf, history, FamiliesInv, TablesOK
  <1>1. PICK c, s, ok : c = call[h] /\ s = pc[h] /\ ok = TRUE
    OBVIOUS
  <1>2. ASSUME NEW step \in {"createCode", "markCode", "sweepCodes"}, Write(h, step, call[h])
        PROVE  /\ At(h, step) /\ Check(h, ok, c) /\ pc[h] # <<>> /\ Head(s) = step
               /\ Housed(s, c) /\ Needs(s, c) /\ s \in Seq(Step)
    BY <1>1, <1>2, Knows, HasCall DEF Write, At, Check, GoOn, Run
  <1>3. CASE /\ HasFresh(codes) /\ Write(h, "createCode", call[h])
             /\ codes' = [codes EXCEPT ![Fresh(codes)] =
                             [family |-> call[h].family, child |-> call[h].child, live |-> TRUE]]
    <2>1. PICK step \in {"createCode", "markCode", "sweepCodes"} :
               step = "createCode" /\ Write(h, step, call[h])
      BY <1>3 DEF Write, At, GoOn, Run
    <2>2. /\ At(h, step) /\ Check(h, ok, c) /\ pc[h] # <<>> /\ Head(s) = "createCode"
          /\ Housed(s, c)
      BY <1>2, <2>1
    <2>3. Home(c.family)
      BY <2>2 DEF Housed
    <2>4. \A k \in Code : Live(codes', k) => Home(codes'[k].family)
      <3>1. PICK n \in Code : n = Fresh(codes)
        BY <1>0, <1>3 DEF HasFresh, Fresh
      <3>2. /\ codes'[n].family = c.family
            /\ \A k \in Code \ {n} : codes'[k] = codes[k]
        BY <1>0, <1>1, <1>3, <3>1
      <3>3. QED
        BY <2>3, <3>2 DEF HomesInv, Homed, Live
    <2>5. Homed'
      BY <1>0, <2>4 DEF HomesInv, Homed, Live, Home, MembersOf
    <2>6. Houses(step, c)'
      BY <2>1 DEF Houses
    <2>7. \A g \in Handler : HasHome(g)'
      BY <1>0, <1>1, <2>1, <2>2, <2>6, StepHomes
    <2>8. QED
      BY <2>5, <2>7 DEF HomesHold
  <1>4. ASSUME NEW ids, codes' = Dead(codes, ids), \A k \in ids : k \in Code /\ codes[k] # None
        PROVE  /\ FewerCodes /\ \A k \in Code \cap ids : ~Live(codes', k)
    <2>1. ASSUME NEW k \in Code, codes[k] # None
          PROVE  /\ codes'[k].family = codes[k].family
                 /\ codes'[k].live => codes[k].live
                 /\ k \in ids => ~codes'[k].live
      BY <1>0, <1>4, <2>1 DEF Dead, CodeRow
    <2>2. ASSUME NEW k \in Code, codes[k] = None PROVE codes'[k] = None
      BY <1>0, <1>4, <2>2 DEF Dead
    <2>3. QED
      BY <2>1, <2>2 DEF FewerCodes, Live
  <1>5. CASE Write(h, "markCode", call[h]) /\ codes' = Dead(codes, {call[h].code})
    <2>1. PICK step \in {"createCode", "markCode", "sweepCodes"} :
               step = "markCode" /\ Write(h, step, call[h])
      BY <1>5 DEF Write, At, GoOn, Run
    <2>2. PICK ids : ids = {call[h].code}
      OBVIOUS
    <2>3. At(h, step) /\ Check(h, ok, c) /\ pc[h] # <<>> /\ Head(s) = "markCode" /\ Needs(s, c)
          /\ s \in Seq(Step)
      BY <1>2, <2>1
    <2>4. c.code \in Code /\ codes[c.code] # None
      <3>1. HasCode(s)
        BY <1>1, <2>3, LacksTail DEF HasCode
      <3>2. QED
        BY <1>1, <2>3, <3>1 DEF Needs, FamiliesInv, CodeKnown
    <2>5. FewerCodes
      BY <1>1, <1>4, <1>5, <2>2, <2>4
    <2>6. QED
      BY <1>0, <1>1, <2>1, <2>3, <2>5, QuietHomes
  <1>6. CASE /\ Write(h, "sweepCodes", call[h])
             /\ codes' = Dead(codes, {k \in Code : codes[k] # None /\ codes[k].family = call[h].family})
    <2>1. PICK step \in {"createCode", "markCode", "sweepCodes"} :
               step = "sweepCodes" /\ Write(h, step, call[h])
      BY <1>6 DEF Write, At, GoOn, Run
    <2>2. PICK ids : ids = {k \in Code : codes[k] # None /\ codes[k].family = c.family}
      OBVIOUS
    <2>3. /\ At(h, step) /\ Check(h, ok, c) /\ FewerCodes
          /\ \A k \in Code \cap ids : ~Live(codes', k)
      <3>1. At(h, step) /\ Check(h, ok, c)
        BY <1>2, <2>1
      <3>2. codes' = Dead(codes, ids) /\ \A k \in ids : k \in Code /\ codes[k] # None
        BY <1>1, <1>6, <2>2
      <3>3. QED
        BY <1>4, <3>1, <3>2
    <2>4. \A k \in Code : Live(codes', k) => codes'[k].family # c.family
      BY <2>2, <2>3 DEF FewerCodes, Live
    <2>5. Houses(step, c)'
      BY <2>1, <2>4 DEF Houses, NoCode, Live
    <2>6. \A g \in Handler : HasHome(g)'
      BY <1>0, <1>1, <2>1, <2>3, <2>5, StepHomes
    <2>7. QED
      BY <1>0, <2>3, <2>6, FewerHomed DEF HomesHold
  <1>7. QED
    BY <1>3, <1>5, <1>6 DEF UpdateCodes

LEMMA UpdateDevicesHomes ==
    ASSUME FamiliesInv, OrderInv, HomesInv, sync, NEW h \in Handler, UpdateDevices(h)
    PROVE  HomesHold
  <1>0. /\ FewerCodes /\ HomesStay /\ UNCHANGED <<members, ghosts, codes>>
        /\ devices \in [Device -> DeviceRow \cup {None}]
    BY DEF UpdateDevices, FewerCodes, HomesStay, Home, MembersOf, Live, FamiliesInv, TablesOK
  <1>1. ASSUME NEW ids, devices' = Without(devices, ids)
        PROVE  FewerDevices /\ \A d \in Device \cap ids : devices'[d] = None
    BY <1>0, <1>1 DEF Without, FewerDevices
  <1>2. ASSUME NEW step \in {"dropDevice", "dropDevices", "sweepDevices"},
               Write(h, step, [call[h] EXCEPT !.listed = {}])
        PROVE  \E c : Write(h, step, c) /\ c.family = call[h].family
    <2>1. PICK c : c = [call[h] EXCEPT !.listed = {}]
      OBVIOUS
    <2>2. call[h] \in CallRecord
      BY <1>2, HasCall DEF Write, At
    <2>3. Write(h, step, c) /\ c.family = call[h].family
      BY <1>2, <2>1, <2>2 DEF Write, GoOn, Run, CallRecord
    <2>4. QED
      BY <2>3
  <1>3. ASSUME NEW step \in {"dropDevice", "dropDevices"}, NEW ids,
               Write(h, step, [call[h] EXCEPT !.listed = {}]), devices' = Without(devices, ids)
        PROVE  HomesHold
    <2>1. PICK c : Write(h, step, c) /\ c.family = call[h].family
      BY <1>2, <1>3
    <2>2. QED
      BY <1>0, <1>1, <1>3, <2>1, QuietWriteHomes
  <1>4. CASE /\ Write(h, "sweepDevices", [call[h] EXCEPT !.listed = {}])
             /\ devices' = Without(devices, DevicesIn(call[h].family))
    <2>1. PICK step \in {"dropDevice", "dropDevices", "sweepDevices"}, ok \in BOOLEAN, f \in {call[h].family} :
               /\ step = "sweepDevices" /\ ok = TRUE /\ f = call[h].family
      OBVIOUS
    <2>2. PICK c : Write(h, step, c) /\ c.family = f
      BY <1>2, <1>4, <2>1 DEF Write, At, GoOn, Run
    <2>3. At(h, step) /\ Check(h, ok, c)
      BY <2>1, <2>2 DEF Write, Check
    <2>4. FewerDevices /\ NoDevice(f)'
      <3>1. PICK ids : ids = DevicesIn(f)
        OBVIOUS
      <3>2. FewerDevices /\ \A d \in Device \cap ids : devices'[d] = None
        BY <1>1, <1>4, <2>1, <3>1
      <3>3. QED
        BY <3>1, <3>2 DEF FewerDevices, NoDevice, DevicesIn
    <2>5. Houses(step, c)'
      BY <2>1, <2>2, <2>4 DEF Houses, NoDevice
    <2>6. \A g \in Handler : HasHome(g)'
      BY <1>0, <2>1, <2>2, <2>3, <2>4, <2>5, StepHomes
    <2>7. QED
      BY <1>0, <2>4, <2>6, FewerHomed DEF HomesHold
  <1>5. ASSUME NEW d \in call[h].listed, At(h, "dropDevices"), devices' = Without(devices, {d}),
               Run(h, pc[h], [call[h] EXCEPT !.listed = @ \ {d}])
        PROVE  HomesHold
    <2>1. PICK c, rest : c = [call[h] EXCEPT !.listed = @ \ {d}] /\ rest = pc[h]
      OBVIOUS
    <2>2. PICK step \in {"eraseChildren", "unassign", "dropDevices"} : step = "dropDevices" /\ At(h, step)
      BY <1>5
    <2>3. call[h] \in CallRecord
      BY <1>5, HasCall DEF At
    <2>4. Run(h, rest, c) /\ c.family = call[h].family
      BY <1>5, <2>1, <2>3 DEF Run, CallRecord
    <2>5. FewerDevices
      BY <1>1, <1>5
    <2>6. QED
      BY <1>0, <2>1, <2>2, <2>4, <2>5, PrefixHomes
  <1>6. CASE Write(h, "writeDevice", call[h]) /\ devices' = [devices EXCEPT ![call[h].device] = call[h].row]
    <2>1. PICK c, step, ok : c = call[h] /\ step = "writeDevice" /\ ok = TRUE
      OBVIOUS
    <2>2. At(h, step) /\ Check(h, ok, c) /\ pc[h] # <<>>
      BY <1>6, <2>1 DEF Write, At, Check, GoOn, Run
    <2>3. Home(c.row.family)
      BY <2>1, <2>2, Knows DEF At, Housed
    <2>4. \A d \in Device : devices'[d] # None => Home(devices'[d].family)
      <3>1. ASSUME NEW d \in Device, devices'[d] # None PROVE Home(devices'[d].family)
        <4>1. CASE d = c.device
          BY <1>0, <1>6, <2>1, <2>3, <4>1
        <4>2. CASE d # c.device
          BY <1>0, <1>6, <2>1, <3>1, <4>2 DEF HomesInv, Homed
        <4>3. QED
          BY <4>1, <4>2
      <3>2. QED
        BY <3>1
    <2>5. Homed'
      BY <1>0, <2>4 DEF HomesInv, Homed, Live, Home, MembersOf
    <2>6. Houses(step, c)'
      BY <2>1 DEF Houses
    <2>7. \A g \in Handler : HasHome(g)'
      BY <1>0, <2>1, <2>2, <2>6, StepHomes
    <2>8. QED
      BY <2>5, <2>7 DEF HomesHold
  <1>7. QED
    BY <1>3, <1>4, <1>5, <1>6 DEF UpdateDevices

LEMMA CreateDeviceHomes ==
    ASSUME FamiliesInv, OrderInv, HomesInv, sync, NEW h \in Handler, createDevice(h)
    PROVE  HomesHold
  <1>0. /\ FewerCodes /\ HomesStay /\ UNCHANGED <<members, ghosts, codes>>
        /\ devices \in [Device -> DeviceRow \cup {None}]
    BY DEF createDevice, FewerCodes, HomesStay, Home, MembersOf, Live, FamiliesInv, TablesOK
  <1>1. PICK c, step, ok : c = call[h] /\ step = "createDevice" /\ ok = TRUE
    OBVIOUS
  <1>2. At(h, step) /\ Check(h, ok, c) /\ pc[h] # <<>>
    BY <1>1 DEF createDevice, Write, At, Check, GoOn, Run
  <1>3. Home(codes[c.code].family)
    BY <1>1, <1>2, Knows DEF At, Housed
  <1>4. PICK e : devices' = [devices EXCEPT ![e] = [family |-> codes[c.code].family,
                                                    child |-> codes[c.code].child]]
    BY <1>1 DEF createDevice
  <1>5. ASSUME NEW d \in Device, devices'[d] # None PROVE Home(devices'[d].family)
    <2>1. CASE d = e
      BY <1>0, <1>3, <1>4, <2>1
    <2>2. CASE d # e
      BY <1>0, <1>4, <1>5, <2>2 DEF HomesInv, Homed
    <2>3. QED
      BY <2>1, <2>2
  <1>6. Homed'
    BY <1>0, <1>5 DEF HomesInv, Homed, Live, Home, MembersOf
  <1>7. Houses(step, c)'
    BY <1>1 DEF Houses
  <1>8. \A g \in Handler : HasHome(g)'
    BY <1>0, <1>1, <1>2, <1>7, StepHomes
  <1>9. QED
    BY <1>6, <1>8 DEF HomesHold

LEMMA FailHomes ==
    ASSUME FamiliesInv, OrderInv, HomesInv, sync, NEW h \in Handler, Fail(h)
    PROVE  HomesHold
  <1>1. /\ FewerDevices /\ FewerCodes /\ HomesStay
        /\ Ran(h, <<>>, NoCall) /\ turn \in {None, h}
    BY StoreHomes, BreakRan DEF Fail, Break, FamiliesInv, Loop, tables, history
  <1>2. ASSUME NEW g \in Handler, g # h, pc[g] # <<>> PROVE HasHome(g)'
    <2>1. PICK s, c : s = pc[g] /\ c = call[g] /\ s = pc'[g] /\ c = call'[g]
      BY <1>1, <1>2 DEF Ran
    <2>2. s \in Seq(Step) /\ s # <<>> /\ Order(s) /\ Head(s) \in Waits
      BY <1>1, <1>2, <2>1, HasCall, OthersWait DEF OrderInv
    <2>3. Housed(s, c)' /\ Swept(s, c)'
      BY <2>2, WaitIsStep, WaitingHomes
    <2>4. QED
      BY <2>1, <2>3 DEF HasHome, Housed, Swept, Home, MembersOf, NoDevice, NoCode, Live
  <1>3. \A g \in Handler : HasHome(g)'
    BY <1>1, <1>2 DEF Ran, HasHome
  <1>4. QED
    BY <1>1, <1>3, FewerHomed DEF HomesHold

LEMMA AsksHomes ==
    ASSUME FamiliesInv, OrderInv, HomesInv, sync, NEW h \in Handler, ParentAsks(h) \/ DeviceAsks(h)
    PROVE  HomesHold
  <1>1. PICK op \in Request : \E c : Start(h, Program[op], c) /\ UNCHANGED <<tables, history>>
    BY SomethingAsked
  <1>2. PICK c : Start(h, Program[op], c) /\ UNCHANGED <<tables, history>>
    BY <1>1
  <1>3. PICK s : s = Program[op]
    OBVIOUS
  <1>4. Run(h, s, c) /\ turn \in {None, h} /\ FewerDevices /\ FewerCodes /\ HomesStay
    BY <1>2, <1>3, StoreHomes DEF Start, Run, tables, history
  <1>5. s \in Seq(Step) /\ s # <<>> /\ Head(s) = "wait" /\ Order(s)
    BY <1>3, ProgramStarts, ProgramOrder
  <1>6. Housed(s, c)' /\ Swept(s, c)'
    BY <1>5, WaitingHomes
  <1>7. \A g \in Handler : HasHome(g)'
    BY <1>4, <1>6, RunHomes
  <1>8. QED
    BY <1>4, <1>7, FewerHomed DEF HomesHold

\* A code that expires takes nobody's home: whoever is at it found it live before.
LEMMA RestHomes ==
    ASSUME FamiliesInv, HomesInv, sync, UNCHANGED <<members, ghosts, devices, pc, call>>,
           UNCHANGED codes \/ \E k \in Code : Expire(k)
    PROVE  HomesHold
  <1>0. \A k \in Code : codes[k] # None =>
            codes'[k].family = codes[k].family /\ (codes'[k].live => codes[k].live)
    <2>1. codes \in [Code -> CodeRow \cup {None}]
      BY DEF FamiliesInv, TablesOK
    <2>2. ASSUME NEW k \in Code, codes' = Dead(codes, {k}), NEW j \in Code, codes[j] # None
          PROVE  codes'[j].family = codes[j].family /\ (codes'[j].live => codes[j].live)
      BY <2>1, <2>2 DEF Dead, CodeRow
    <2>3. QED
      BY <2>2 DEF Expire
  <1>1. \A k \in Code : codes[k] = None => codes'[k] = None
    <2>1. ASSUME NEW k \in Code, Live(codes, k), codes' = Dead(codes, {k}), NEW j \in Code, codes[j] = None
          PROVE  codes'[j] = None
      BY <2>1 DEF Dead, Live, FamiliesInv, TablesOK
    <2>2. QED
      BY <2>1 DEF Expire
  <1>2. FewerDevices /\ FewerCodes /\ HomesStay
    BY <1>0, <1>1 DEF FewerDevices, FewerCodes, HomesStay, Home, MembersOf, Live
  <1>3. ASSUME NEW g \in Handler PROVE HasHome(g)'
    <2>1. SUFFICES ASSUME pc[g] # <<>> PROVE (Housed(pc[g], call[g]) /\ Swept(pc[g], call[g]))'
      BY DEF HasHome
    <2>2. PICK s, c : s = pc[g] /\ c = call[g] /\ s = pc'[g] /\ c = call'[g]
      OBVIOUS
    <2>3. Housed(s, c) /\ Swept(s, c) /\ s \in Seq(Step) /\ Needs(s, c)
          /\ (HasCode(s) => codes[c.code] # None /\ c.code \in Code)
      BY <2>1, <2>2, HasCall DEF HomesInv, HasHome, FamiliesInv, CodeKnown, Needs
    <2>4. Head(s) = "createDevice" => codes'[c.code].family = codes[c.code].family
      <3>1. Head(s) = "createDevice" => HasCode(s)
        BY <2>1, <2>2, <2>3, LacksTail DEF HasCode
      <3>2. QED
        BY <1>0, <2>3, <3>1
    <2>5. Housed(s, c)'
      BY <2>3, <2>4 DEF Housed, Home, MembersOf
    <2>6. Swept(s, c)'
      BY <1>2, <2>3 DEF Swept, NoDevice, NoCode, FewerDevices, FewerCodes, Live
    <2>7. QED
      BY <2>2, <2>5, <2>6 DEF Housed, Swept, Home, MembersOf, NoDevice, NoCode, Live
  <1>4. QED
    BY <1>2, <1>3, FewerHomed DEF HomesHold

LEMMA HomesStep == FamiliesInv /\ SyncInv /\ OrderInv /\ OwnersInv /\ HomesInv /\ [Next]_vars => HomesInv'
  <1> SUFFICES ASSUME FamiliesInv, SyncInv, OrderInv, OwnersInv, HomesInv, [Next]_vars PROVE HomesInv'
    OBVIOUS
  <1>1. sync' = sync
    BY StepControl
  <1>2. ASSUME sync PROVE HomesHold
    <2>1. CASE \E h \in Handler : HandlerStep(h)
      BY <1>2, <2>1, ReadFamilyHomes, ReadChildHomes, ReadDeviceHomes, LeaveHomes, EraseHomes,
         UpdateFamiliesHomes, UpdateMembersHomes, UnassignHomes, UpdateChildrenHomes, UpdateVersionsHomes,
         UpdateCodesHomes, UpdateDevicesHomes, CreateDeviceHomes, FailHomes DEF HandlerStep
    <2>2. CASE \E h \in Handler : ParentAsks(h) \/ DeviceAsks(h)
      BY <1>2, <2>2, AsksHomes
    <2>3. CASE \E k \in Code : Expire(k)
      BY <1>2, <2>3, RestHomes DEF Expire, history, control
    <2>4. CASE UNCHANGED vars
      BY <1>2, <2>4, RestHomes DEF vars, tables, history, control
    <2>5. QED
      BY <2>1, <2>2, <2>3, <2>4 DEF Next
  <1>3. QED
    BY <1>1, <1>2 DEF HomesHold, HomesInv

LEMMA HomesInit == Init => HomesInv
  <1> SUFFICES ASSUME Init PROVE HomesInv
    OBVIOUS
  <1>1. /\ mix \in Mixes /\ members = mix.members /\ children = mix.children
        /\ devices = mix.devices /\ codes = [k \in Code |-> None]
    BY DEF Init, HandlersInit
  <1>2. devices \in [Device -> DeviceRow \cup {None}]
    BY <1>1, FamiliesAssumption
  <1>3. ASSUME NEW d \in Device, devices[d] # None PROVE Home(devices[d].family)
    <2>1. /\ devices[d].child \in Child
          /\ children[devices[d].child] # None /\ children[devices[d].child].family = devices[d].family
      BY <1>1, <1>2, <1>3, StartAssumption DEF DeviceRow
    <2>2. PICK o \in Member : members[o] # None /\ members[o].family = devices[d].family
      BY <1>1, <2>1, StartAssumption
    <2>3. QED
      BY <2>2 DEF Home, MembersOf
  <1>4. \A k \in Code : ~Live(codes, k)
    BY <1>1 DEF Live
  <1>5. \A h \in Handler : pc[h] = <<>>
    BY DEF Init, HandlersInit
  <1>6. QED
    BY <1>3, <1>4, <1>5 DEF HomesInv, Homed, HasHome

\* On a synchronous store no device and no code outlives its family's members.
THEOREM HomesInvariant == Spec => []HomesInv
  <1>1. QED
    BY HomesInit, HomesStep, FamiliesInvariant, SyncInvariant, OrderInvariant, OwnersInvariant, PTL DEF Spec

\* On a synchronous store, whoever joins, leaves, deletes an account or fails on the
\* way, a family with a member, a child or a device has an owner who has an account.
THEOREM FamiliesAreOwned == Spec => []EveryFamilyHasAnOwner
  <1>1. ASSUME OwnersInv, HomesInv PROVE EveryFamilyHasAnOwner
    <2>1. ASSUME sync, NEW f \in Family \ ghosts, DevicesIn(f) # {} PROVE MembersOf(f) # {}
      BY <1>1, <2>1 DEF HomesInv, Homed, Home, DevicesIn
    <2>2. QED
      BY <1>1, <2>1 DEF OwnersInv, Owned, EveryFamilyHasAnOwner
  <1>2. QED
    BY <1>1, OwnersInvariant, HomesInvariant, PTL

-----------------------------------------------------------------------------
(* Names. *)

\* What the check before a step found is so, and what a cascade has erased is gone.
Names(s, c) ==
    /\ Head(s) = "addOwner" => c.family \in families /\ MembersOf(c.family) = {}
    /\ Head(s) \in {"sweepVersions", "dropFamily"} => MembersOf(c.family) = {}
    /\ Head(s) \in {"findAssigned", "addMember"} => RowOf(c.family, c.person) = {}
    /\ Head(s) = "addMember" => c.assigned \subseteq ChildrenOf(c.family)
    /\ Head(s) = "writeDevice" => devices[c.device] = c.row
    /\ Head(s) \in {"dropDevice", "bump"} /\ late = {} => c.child \in ChildrenOf(c.family)
    /\ Head(s) = "dropDevices" =>
            \A d \in DevicesOf(c.child) : devices[d].family = c.family => d \in c.listed
    /\ Head(s) \in {"dropVersions", "dropChild"} =>
            \A d \in DevicesOf(c.child) : devices[d].family # c.family
    /\ Head(s) = "dropChild" => <<c.family, c.child>> \notin versions
    /\ Head(s) = "createCode" => c.child \in ChildrenOf(c.family)

\* What the step that is over leaves for the next one.
Left(s, c) ==
    /\ Head(s) = "createFamily" => c.family \in families /\ MembersOf(c.family) = {}
    /\ Head(s) \in {"sweepMembers", "sweepVersions"} => MembersOf(c.family) = {}
    /\ Head(s) \in {"notMember", "findAssigned"} => RowOf(c.family, c.person) = {}
    /\ Head(s) = "findAssigned" => c.assigned \subseteq ChildrenOf(c.family)
    /\ Head(s) = "readDevice" => devices[c.device] = c.row
    /\ Head(s) \in {"findDevice", "createChild", "dropDevice"} /\ late = {} =>
            c.child \in ChildrenOf(c.family)
    /\ Head(s) = "listDevices" =>
            \A d \in DevicesOf(c.child) : devices[d].family = c.family => d \in c.listed
    /\ Head(s) \in {"dropDevices", "dropVersions"} =>
            \A d \in DevicesOf(c.child) : devices[d].family # c.family
    /\ Head(s) = "dropVersions" => <<c.family, c.child>> \notin versions
    /\ Head(s) = "findChild" => c.child \in ChildrenOf(c.family)

Founded == \A m \in Member : members[m] # None => members[m].family \in families

OneRowEach == \A m, n \in Member :
    (/\ members[m] # None /\ members[n] # None
     /\ members[m].family = members[n].family /\ members[m].user = members[n].user) => m = n

CodesNameTheirs == \A k \in Code : codes[k] # None => Mine(codes[k].child, codes[k].family)

Store == Founded /\ OneRowEach /\ CodesNameTheirs /\ DevicesHaveChildren

\* A cascade that has erased the child is about to take it from the guardian.
Unassigns(s, c, m, k) ==
    /\ s # <<>> /\ c.child = k /\ c.family = members[m].family
    /\ \/ Head(s) = "listAssigned"
       \/ Head(s) = "unassign" /\ m \in c.listed

Assigned(s, c) ==
    \A m \in Member : members[m] # None => \A k \in members[m].assigned :
        k \in ChildrenOf(members[m].family) \/ Unassigns(s, c, m, k)

AllAssigned == \A m \in Member : members[m] # None =>
                    members[m].assigned \subseteq ChildrenOf(members[m].family)

HasNames(h) == pc[h] # <<>> => Names(pc[h], call[h])

\* Guardians keep what an interrupted cascade left: failures = 0.
Guardians == failures = 0 => /\ turn = None => AllAssigned
                             /\ \A h \in Handler : turn = h => Assigned(pc[h], call[h])

NamesInv == sync => /\ Store /\ Guardians
                    /\ \A h \in Handler : HasNames(h)

LEMMA TailNames ==
    ASSUME NEW s \in Seq(Step), s # <<>>, Facts(s), Order(s), Tail(s) # <<>>, NEW c, Left(s, c)'
    PROVE  Names(Tail(s), c)'
  <1> DEFINE t == Tail(s)
  <1>1. /\ Head(t) = "addOwner" => Head(s) = "createFamily"
        /\ Head(t) = "sweepVersions" => Head(s) = "sweepMembers"
        /\ Head(t) = "dropFamily" => Head(s) = "sweepVersions"
        /\ Head(t) = "findAssigned" => Head(s) = "notMember"
        /\ Head(t) = "addMember" => Head(s) = "findAssigned"
        /\ Head(t) = "dropDevice" => Head(s) = "findDevice"
        /\ Head(t) = "dropDevices" => Head(s) = "listDevices"
        /\ Head(t) = "dropVersions" => Head(s) = "dropDevices"
        /\ Head(t) = "dropChild" => Head(s) = "dropVersions"
        /\ Head(t) = "createCode" => Head(s) = "findChild"
    BY PrecededTail DEF Order
  <1>2. Head(t) = "writeDevice" => Head(s) = "readDevice"
    BY PrecededTail DEF Facts
  <1>3. Head(t) = "bump" => Head(s) \in {"createChild", "dropDevice"}
    BY PrecededByTail DEF Order
  <1> HIDE DEF t
  <1>4. Names(t, c)'
    BY <1>1, <1>2, <1>3 DEF Names, Left
  <1>5. QED
    BY <1>4 DEF t

\* Whoever has the turn leaves the others where they wait: they rely on nothing.
LEMMA RunNames ==
    ASSUME FamiliesInv, sync, NEW h \in Handler, turn \in {None, h}, NEW rest, NEW c,
           Run(h, rest, c), rest # <<>> => Names(rest, c)'
    PROVE  \A g \in Handler : HasNames(g)'
  <1>1. Ran(h, rest, c)
    BY RunRan DEF FamiliesInv, Loop
  <1>2. ASSUME NEW g \in Handler, g # h PROVE HasNames(g)'
    <2>1. SUFFICES ASSUME pc[g] # <<>> PROVE HasNames(g)'
      BY <1>1, <1>2 DEF Ran, HasNames
    <2>2. PICK s, c0 : s = pc[g] /\ c0 = call[g] /\ s = pc'[g] /\ c0 = call'[g]
      BY <1>1, <1>2 DEF Ran
    <2>3. s \in Seq(Step) /\ s # <<>> /\ Head(s) \in Waits
      BY <1>2, <2>1, <2>2, HasCall, OthersWait
    <2>4. Head(s) = "wait"
      BY <2>3, WaitIsStep
    <2>5. Names(s, c0)'
      BY <2>4 DEF Names
    <2>6. QED
      BY <2>2, <2>5 DEF HasNames, Names
  <1>3. HasNames(h)'
    <2>1. SUFFICES ASSUME rest # <<>> PROVE Names(pc[h], call[h])'
      BY <1>1 DEF HasNames, Ran
    <2>2. pc'[h] = rest /\ call'[h] = c
      BY <1>1, <2>1 DEF Ran
    <2>3. Names(rest, c)'
      BY <2>1
    <2>4. QED
      BY <2>2, <2>3 DEF Names
  <1>4. QED
    BY <1>2, <1>3

LEMMA RunGuardians ==
    ASSUME FamiliesInv, sync, NEW h \in Handler, NEW rest, NEW c, Run(h, rest, c),
           failures = 0 => Assigned(rest, c)'
    PROVE  Guardians'
  <1>1. Ran(h, rest, c) /\ h # None
    BY RunRan, HandlersAssumption DEF FamiliesInv, Loop
  <1>2. SUFFICES ASSUME failures = 0
                 PROVE  (turn = None => AllAssigned)'
                        /\ (\A g \in Handler : turn = g => Assigned(pc[g], call[g]))'
    BY DEF Run, Guardians
  <1>3. turn' = IF rest # <<>> /\ Head(rest) \notin Waits THEN h ELSE None
    BY DEF Run
  <1>4. Assigned(rest, c)'
    BY <1>2
  <1>5. ASSUME turn' = None PROVE AllAssigned'
    <2>1. rest = <<>> \/ Head(rest) \in Waits
      BY <1>1, <1>3, <1>5
    <2>2. \A m, k : ~Unassigns(rest, c, m, k)'
      BY <2>1 DEF Unassigns, Waits
    <2>3. QED
      BY <1>4, <2>2 DEF Assigned, AllAssigned
  <1>6. ASSUME NEW g \in Handler, turn' = g PROVE Assigned(pc[g], call[g])'
    <2>1. g = h /\ rest # <<>>
      BY <1>1, <1>3, <1>6, HandlersAssumption
    <2>2. pc'[h] = rest /\ call'[h] = c
      BY <1>1, <2>1 DEF Ran
    <2>3. QED
      BY <1>4, <2>1, <2>2 DEF Assigned, Unassigns
  <1>7. QED
    BY <1>5, <1>6

\* What a handler that runs knows before its step.
LEMMA NamesHold ==
    ASSUME FamiliesInv, OrderInv, NamesInv, sync, NEW h \in Handler, pc[h] # <<>>, turn \in {None, h}
    PROVE  /\ pc[h] \in Seq(Step) /\ Facts(pc[h]) /\ Order(pc[h]) /\ call[h] \in CallRecord
           /\ Needs(pc[h], call[h]) /\ Names(pc[h], call[h]) /\ Store
           /\ failures = 0 => Assigned(pc[h], call[h])
  <1>1. /\ pc[h] \in Seq(Step) /\ Facts(pc[h]) /\ Order(pc[h]) /\ call[h] \in CallRecord
        /\ Needs(pc[h], call[h]) /\ Names(pc[h], call[h]) /\ Store
    BY HasCall DEF OrderInv, NamesInv, HasNames
  <1>2. AllAssigned => Assigned(pc[h], call[h])
    BY DEF AllAssigned, Assigned
  <1>3. failures = 0 => Assigned(pc[h], call[h])
    BY <1>2 DEF NamesInv, Guardians
  <1>4. QED
    BY <1>1, <1>3

\* What a step shows of names.
Named == Store' /\ Guardians' /\ \A g \in Handler : HasNames(g)'

LEMMA AssignedAll ==
    ASSUME NEW s, NEW c, Head(s) \notin {"listAssigned", "unassign"}, Assigned(s, c)
    PROVE  AllAssigned
  BY DEF Assigned, AllAssigned, Unassigns

\* Rows may go, and what there is keeps its names.
Fewer ==
    /\ families \subseteq families' /\ UNCHANGED children
    /\ gone \subseteq gone' /\ late \subseteq late' /\ versions' \subseteq versions
    /\ \A m \in Member : members'[m] # None =>
            /\ members[m] # None
            /\ members'[m].family = members[m].family /\ members'[m].user = members[m].user
            /\ members'[m].assigned \subseteq members[m].assigned
    /\ \A k \in Code : codes'[k] # None =>
            /\ codes[k] # None
            /\ codes'[k].family = codes[k].family /\ codes'[k].child = codes[k].child
    /\ \A d \in Device : devices'[d] \in {devices[d], None}

LEMMA FewerStore ==
    ASSUME Store, Fewer
    PROVE  Store'
  <1>1. Founded'
    BY DEF Store, Founded, Fewer
  <1>2. OneRowEach'
    BY DEF Store, OneRowEach, Fewer
  <1>3. CodesNameTheirs'
    BY DEF Store, CodesNameTheirs, Fewer, Mine
  <1>4. DevicesHaveChildren'
    BY DEF Store, DevicesHaveChildren, Fewer, ChildrenOf
  <1>5. QED
    BY <1>1, <1>2, <1>3, <1>4 DEF Store

LEMMA FewerAssigned ==
    ASSUME AllAssigned, Fewer
    PROVE  AllAssigned'
  BY DEF AllAssigned, Fewer, ChildrenOf

\* A step that adds nothing, in front of any rest.
LEMMA FewerNames ==
    ASSUME FamiliesInv, OrderInv, NamesInv, sync, NEW h \in Handler, NEW step, At(h, step),
           step \notin {"listAssigned", "unassign"}, Fewer,
           NEW rest, NEW c, Run(h, rest, c), rest # <<>> => Names(rest, c)'
    PROVE  Named
  <1>1. pc[h] # <<>> /\ turn \in {None, h} /\ Head(pc[h]) = step
    BY DEF At
  <1>2. Store /\ (failures = 0 => AllAssigned)
    BY <1>1, NamesHold, AssignedAll
  <1>3. failures = 0 => Assigned(rest, c)'
    BY <1>2, FewerAssigned DEF AllAssigned, Assigned
  <1>4. QED
    BY <1>1, <1>2, <1>3, FewerStore, RunNames, RunGuardians DEF Named

\* The same when it goes on, or ends with an error.
LEMMA CheckNames ==
    ASSUME FamiliesInv, OrderInv, NamesInv, sync, NEW h \in Handler, NEW step, At(h, step),
           step \notin {"listAssigned", "unassign"}, Fewer,
           NEW ok, NEW c, Check(h, ok, c), NEW s, s = pc[h], ok => Left(s, c)'
    PROVE  Named
  <1>1. s \in Seq(Step) /\ s # <<>> /\ Facts(s) /\ Order(s)
    BY NamesHold DEF At
  <1>2. CASE ok
    <2>1. PICK rest : rest = Tail(s)
      OBVIOUS
    <2>2. Run(h, rest, c)
      BY <1>2, <2>1 DEF Check, GoOn, Run
    <2>3. rest # <<>> => Names(rest, c)'
      <3>1. Tail(s) # <<>> => Names(Tail(s), c)'
        BY <1>1, <1>2, TailNames
      <3>2. QED
        BY <2>1, <3>1 DEF Names
    <2>4. QED
      BY <2>2, <2>3, FewerNames
  <1>3. CASE ~ok
    <2>1. PICK rest, n : rest = <<>> /\ n = NoCall
      OBVIOUS
    <2>2. Run(h, rest, n)
      BY <1>3, <2>1 DEF Check, Run
    <2>3. QED
      BY <2>1, <2>2, FewerNames
  <1>4. QED
    BY <1>2, <1>3

-----------------------------------------------------------------------------
(* Names: the steps that read. *)

LEMMA ReadFewer ==
    ASSUME UNCHANGED <<tables, history>>
    PROVE  Fewer
  BY DEF tables, history, Fewer

\* A step that reads: what its check shows is what is left.
LEMMA ReadNames ==
    ASSUME FamiliesInv, OrderInv, NamesInv, sync, NEW h \in Handler, NEW step, At(h, step),
           step \notin {"listAssigned", "unassign"}, UNCHANGED <<tables, history>>,
           NEW ok, NEW c, Check(h, ok, c), NEW s, s = pc[h], ok => Left(s, c)
    PROVE  Named
  <1>1. ok => Left(s, c)'
    BY DEF Left, tables, history, MembersOf, RowOf, RowsOf, ChildrenOf, DevicesOf
  <1>2. QED
    BY <1>1, ReadFewer, CheckNames

LEMMA ReadFamilyNames ==
    ASSUME FamiliesInv, OrderInv, NamesInv, sync, NEW h \in Handler, ReadFamily(h)
    PROVE  Named
  <1>0. PICK s, c : s = pc[h] /\ c = call[h]
    OBVIOUS
  <1>1. ASSUME NEW step \in {"wait", "isUser", "mayManageParents", "mayManagePolicy", "findPerson",
                             "notMember", "findAssigned"},
               NEW ok \in BOOLEAN, Read(h, step, ok, c),
               ok /\ step = "notMember" => RowOf(c.family, c.person) = {},
               ok /\ step = "findAssigned" => c.assigned \subseteq ChildrenOf(c.family)
        PROVE  Named
    <2>1. At(h, step) /\ Check(h, ok, c) /\ UNCHANGED <<tables, history>>
      BY <1>1 DEF Read
    <2>2. pc[h] # <<>> /\ turn \in {None, h} /\ Head(s) = step
      BY <1>0, <2>1 DEF At
    <2>3. step = "findAssigned" => RowOf(c.family, c.person) = {}
      BY <1>0, <2>2, NamesHold DEF Names
    <2>4. ok => Left(s, c)
      BY <1>1, <2>2, <2>3 DEF Left
    <2>5. QED
      BY <1>0, <2>1, <2>4, ReadNames
  <1>2. ASSUME NEW step, NEW ok, Read(h, step, ok, call[h])
        PROVE  Read(h, step, ok, c)
    BY <1>0, <1>2 DEF Read, Check, GoOn, Run
  <1>3. CASE Read(h, "wait", TRUE, call[h])
    <2>1. PICK ok \in BOOLEAN : ok
      OBVIOUS
    <2>2. Read(h, "wait", ok, call[h])
      BY <1>3, <2>1 DEF Read, Check, GoOn, Run
    <2>3. QED
      BY <1>1, <1>2, <2>2
  <1>4. CASE Read(h, "isUser", call[h].user \in users, call[h])
    <2>1. PICK ok \in BOOLEAN : ok <=> call[h].user \in users
      OBVIOUS
    <2>2. Read(h, "isUser", ok, call[h])
      BY <1>4, <2>1 DEF Read, Check, GoOn, Run
    <2>3. QED
      BY <1>1, <1>2, <2>2
  <1>5. ASSUME NEW step \in {"mayManageParents", "mayManagePolicy"}, NEW roles,
               Read(h, step, HasRole(call[h].family, call[h].user, roles), call[h])
        PROVE  Named
    <2>1. PICK ok \in BOOLEAN : ok <=> HasRole(call[h].family, call[h].user, roles)
      OBVIOUS
    <2>2. Read(h, step, ok, call[h])
      BY <1>5, <2>1 DEF Read, Check, GoOn, Run, HasRole
    <2>3. QED
      BY <1>1, <1>2, <2>2
  <1>6. CASE Read(h, "findPerson", call[h].person \in users, call[h])
    <2>1. PICK ok \in BOOLEAN : ok <=> call[h].person \in users
      OBVIOUS
    <2>2. Read(h, "findPerson", ok, call[h])
      BY <1>6, <2>1 DEF Read, Check, GoOn, Run
    <2>3. QED
      BY <1>1, <1>2, <2>2
  <1>7. CASE Read(h, "notMember", RowOf(call[h].family, call[h].person) = {}, call[h])
    <2>1. PICK ok \in BOOLEAN : ok <=> RowOf(call[h].family, call[h].person) = {}
      OBVIOUS
    <2>2. Read(h, "notMember", ok, call[h])
      BY <1>7, <2>1 DEF Read, Check, GoOn, Run
    <2>3. QED
      BY <1>0, <1>1, <1>2, <2>1, <2>2
  <1>8. CASE Read(h, "findAssigned", call[h].assigned \subseteq ChildrenOf(call[h].family), call[h])
    <2>1. PICK ok \in BOOLEAN : ok <=> call[h].assigned \subseteq ChildrenOf(call[h].family)
      OBVIOUS
    <2>2. Read(h, "findAssigned", ok, call[h])
      BY <1>8, <2>1 DEF Read, Check, GoOn, Run
    <2>3. QED
      BY <1>0, <1>1, <1>2, <2>1, <2>2
  <1>9. QED
    BY <1>3, <1>4, <1>5, <1>6, <1>7, <1>8 DEF ReadFamily

\* listAssigned: the guardians who have the child are those who are listed.
LEMMA ListAssignedNames ==
    ASSUME FamiliesInv, OrderInv, NamesInv, sync, NEW h \in Handler, At(h, "listAssigned"),
           UNCHANGED <<tables, history>>, NEW S,
           S = {m \in MembersOf(call[h].family) : call[h].child \in members[m].assigned},
           GoOn(h, [call[h] EXCEPT !.listed = S])
    PROVE  Named
  <1>1. PICK s, c0, rest, c : /\ s = pc[h] /\ c0 = call[h] /\ rest = Tail(s)
                              /\ c = [c0 EXCEPT !.listed = S]
    OBVIOUS
  <1>2. pc[h] # <<>> /\ turn \in {None, h} /\ Head(s) = "listAssigned" /\ Run(h, rest, c)
    BY <1>1 DEF At, GoOn, Run
  <1>3. /\ s \in Seq(Step) /\ s # <<>> /\ Order(s) /\ c0 \in CallRecord /\ Store
        /\ failures = 0 => Assigned(s, c0)
    BY <1>1, <1>2, NamesHold
  <1>4. rest # <<>> /\ Head(rest) = "unassign"
    BY <1>1, <1>2, <1>3, FollowedTail DEF Order
  <1>5. c.child = c0.child /\ c.family = c0.family /\ c.listed = S
    BY <1>1, <1>3 DEF CallRecord
  <1>6. ASSUME failures = 0 PROVE Assigned(rest, c)
    <2>1. SUFFICES ASSUME NEW m \in Member, members[m] # None, NEW k \in members[m].assigned,
                          k \notin ChildrenOf(members[m].family)
                   PROVE  Unassigns(rest, c, m, k)
      BY DEF Assigned
    <2>2. c0.child = k /\ c0.family = members[m].family
      BY <1>2, <1>3, <1>6, <2>1 DEF Assigned, Unassigns
    <2>3. m \in S
      BY <1>1, <2>1, <2>2 DEF MembersOf
    <2>4. QED
      BY <1>4, <1>5, <2>2, <2>3 DEF Unassigns
  <1>7. failures = 0 => Assigned(rest, c)'
    BY <1>6 DEF Assigned, Unassigns, ChildrenOf, tables
  <1>8. rest # <<>> => Names(rest, c)'
    BY <1>4 DEF Names
  <1>9. QED
    BY <1>2, <1>3, <1>7, <1>8, ReadFewer, FewerStore, RunNames, RunGuardians DEF Named

LEMMA ReadChildNames ==
    ASSUME FamiliesInv, OrderInv, NamesInv, sync, NEW h \in Handler, ReadChild(h)
    PROVE  Named
  <1>0. UNCHANGED <<tables, history>> /\ call[h] \in CallRecord
    BY NamesHold DEF ReadChild, Read, At
  <1>1. CASE Read(h, "findChild", call[h].child \in ChildrenOf(call[h].family),
                  [call[h] EXCEPT !.row = children[call[h].child]])
    <2>1. PICK c, ok, step, s : /\ c = [call[h] EXCEPT !.row = children[call[h].child]]
                                /\ ok = (call[h].child \in ChildrenOf(call[h].family))
                                /\ step = "findChild" /\ s = pc[h]
      OBVIOUS
    <2>2. At(h, step) /\ Check(h, ok, c) /\ Head(s) = "findChild"
      BY <1>1, <2>1 DEF Read, At, Check, GoOn, Run
    <2>3. c.child = call[h].child /\ c.family = call[h].family
      BY <1>0, <2>1 DEF CallRecord
    <2>4. ok => Left(s, c)
      BY <2>1, <2>2, <2>3 DEF Left
    <2>5. QED
      BY <1>0, <2>1, <2>2, <2>4, ReadNames
  <1>2. CASE Read(h, "listDevices", TRUE, [call[h] EXCEPT !.listed =
                    DevicesOf(call[h].child) \cap DevicesIn(call[h].family)])
    <2>1. PICK S, step, s, ok :
              /\ S = DevicesOf(call[h].child) \cap DevicesIn(call[h].family)
              /\ step = "listDevices" /\ s = pc[h] /\ ok = TRUE
      OBVIOUS
    <2>2. PICK c : c = [call[h] EXCEPT !.listed = S]
      OBVIOUS
    <2>3. At(h, step) /\ Check(h, ok, c) /\ Head(s) = "listDevices"
      BY <1>2, <2>1, <2>2 DEF Read, At, Check, GoOn, Run
    <2>4. c.child = call[h].child /\ c.family = call[h].family /\ c.listed = S
      BY <1>0, <2>2 DEF CallRecord
    <2>5. \A d \in DevicesOf(c.child) : devices[d].family = c.family => d \in c.listed
      BY <2>1, <2>4 DEF DevicesOf, DevicesIn
    <2>6. Left(s, c)
      BY <2>3, <2>5 DEF Left
    <2>7. QED
      BY <1>0, <2>1, <2>3, <2>6, ReadNames
  <1>3. CASE Read(h, "listAssigned", TRUE, [call[h] EXCEPT !.listed =
                    {m \in MembersOf(call[h].family) : call[h].child \in members[m].assigned}])
    <2>1. PICK S : S = {m \in MembersOf(call[h].family) : call[h].child \in members[m].assigned}
      OBVIOUS
    <2>2. At(h, "listAssigned") /\ GoOn(h, [call[h] EXCEPT !.listed = S])
      BY <1>3, <2>1 DEF Read, At, Check, GoOn, Run
    <2>3. QED
      BY <1>0, <2>1, <2>2, ListAssignedNames
  <1>4. CASE Read(h, "listChildren", TRUE, [call[h] EXCEPT !.rest = ChildrenOf(call[h].family)])
    <2>1. PICK c, ok, step, s : /\ c = [call[h] EXCEPT !.rest = ChildrenOf(call[h].family)]
                                /\ ok = TRUE /\ step = "listChildren" /\ s = pc[h]
      OBVIOUS
    <2>2. At(h, step) /\ Check(h, ok, c) /\ Head(s) = "listChildren"
      BY <1>4, <2>1 DEF Read, At, Check, GoOn, Run
    <2>3. Left(s, c)
      BY <2>2 DEF Left
    <2>4. QED
      BY <1>0, <2>1, <2>2, <2>3, ReadNames
  <1>5. QED
    BY <1>1, <1>2, <1>3, <1>4 DEF ReadChild

LEMMA ReadDeviceNames ==
    ASSUME FamiliesInv, OrderInv, NamesInv, sync, NEW h \in Handler, ReadDevice(h)
    PROVE  Named
  <1>0. /\ UNCHANGED <<tables, history>> /\ call[h] \in CallRecord /\ Store
        /\ pc[h] \in Seq(Step) /\ pc[h] # <<>> /\ Needs(pc[h], call[h])
    BY NamesHold DEF ReadDevice, Read, At
  <1>1. CASE Read(h, "findDevice", devices[call[h].device] # None
                                   /\ devices[call[h].device].family = call[h].family,
                  [call[h] EXCEPT !.child = devices[call[h].device].child])
    <2>1. PICK c, ok, step, s : /\ c = [call[h] EXCEPT !.child = devices[call[h].device].child]
                                /\ ok = (devices[call[h].device] # None
                                         /\ devices[call[h].device].family = call[h].family)
                                /\ step = "findDevice" /\ s = pc[h]
      OBVIOUS
    <2>2. At(h, step) /\ Check(h, ok, c) /\ Head(s) = "findDevice"
      BY <1>1, <2>1 DEF Read, At, Check, GoOn, Run
    <2>3. PICK d : d = call[h].device
      OBVIOUS
    <2>4. c.child = devices[d].child /\ c.family = call[h].family
      BY <1>0, <2>1, <2>3 DEF CallRecord
    <2>5. d \in Device
      <3>1. ~Lacks(s, "findDevice")
        BY <1>0, <2>1, <2>2, LacksTail
      <3>2. QED
        BY <1>0, <2>1, <2>3, <3>1 DEF Needs
    <2>6. ok /\ late = {} => c.child \in ChildrenOf(c.family)
      BY <1>0, <2>1, <2>3, <2>4, <2>5 DEF Store, DevicesHaveChildren
    <2>7. ok => Left(s, c)
      BY <2>2, <2>6 DEF Left
    <2>8. QED
      BY <1>0, <2>1, <2>2, <2>7, ReadNames
  <1>2. CASE Read(h, "readDevice", devices[call[h].device] # None,
                  [call[h] EXCEPT !.row = devices[call[h].device]])
    <2>1. PICK c, ok, step, s : /\ c = [call[h] EXCEPT !.row = devices[call[h].device]]
                                /\ ok = (devices[call[h].device] # None) /\ step = "readDevice"
                                /\ s = pc[h]
      OBVIOUS
    <2>2. At(h, step) /\ Check(h, ok, c) /\ Head(s) = "readDevice"
      BY <1>2, <2>1 DEF Read, At, Check, GoOn, Run
    <2>3. devices[c.device] = c.row
      BY <1>0, <2>1 DEF CallRecord
    <2>4. Left(s, c)
      BY <2>2, <2>3 DEF Left
    <2>5. QED
      BY <1>0, <2>1, <2>2, <2>4, ReadNames
  <1>3. CASE Read(h, "readCode", codes[call[h].code].live, call[h])
    <2>1. PICK c, ok, step, s : /\ c = call[h] /\ ok = codes[call[h].code].live
                                /\ step = "readCode" /\ s = pc[h]
      OBVIOUS
    <2>2. At(h, step) /\ Check(h, ok, c) /\ Head(s) = "readCode"
      BY <1>3, <2>1 DEF Read, At, Check, GoOn, Run
    <2>3. Left(s, c)
      BY <2>2 DEF Left
    <2>4. QED
      BY <1>0, <2>1, <2>2, <2>3, ReadNames
  <1>4. QED
    BY <1>1, <1>2, <1>3 DEF ReadDevice

LEMMA LeaveNames ==
    ASSUME FamiliesInv, OrderInv, NamesInv, sync, NEW h \in Handler, leaveFamilies(h)
    PROVE  Named
  <1>1. UNCHANGED <<tables, history>> /\ Fewer /\ pc[h] # <<>> /\ turn \in {None, h}
    BY ReadFewer DEF leaveFamilies, At
  <1>2. ASSUME NEW step \in {"listOwned", "leaveFamilies"}, At(h, step), NEW c, GoOn(h, c)
        PROVE  Named
    <2>1. PICK s, ok : s = pc[h] /\ ok = TRUE
      OBVIOUS
    <2>2. Check(h, ok, c) /\ Head(s) = step
      BY <1>2, <2>1 DEF Check, At
    <2>3. Left(s, c)
      BY <2>2 DEF Left
    <2>4. QED
      BY <1>1, <1>2, <2>1, <2>2, <2>3, ReadNames
  <1>3. ASSUME At(h, "leaveFamilies"), NEW f, NEW c,
               Run(h, (IF Owners(f) \ {call[h].user} # {} THEN <<>> ELSE deleteFamilyCascade)
                       \o pc[h], c)
        PROVE  Named
    <2>1. PICK rest, step : /\ step = "leaveFamilies"
                            /\ rest = (IF Owners(f) \ {call[h].user} # {} THEN <<>>
                                       ELSE deleteFamilyCascade) \o pc[h]
      OBVIOUS
    <2>2. At(h, step) /\ Run(h, rest, c)
      BY <1>3, <2>1 DEF At, Run
    <2>3. pc[h] \in Seq(Step) /\ pc[h] # <<>> /\ Head(pc[h]) = "leaveFamilies"
      BY <1>1, <1>3, NamesHold DEF At
    <2>4. Head(rest) \in {"leaveFamilies", "listChildren"}
      <3>1. CASE Owners(f) \ {call[h].user} # {}
        BY <2>1, <2>3, <3>1
      <3>2. CASE ~(Owners(f) \ {call[h].user} # {})
        <4>1. rest = deleteFamilyCascade \o pc[h]
          BY <2>1, <3>2
        <4>2. QED
          BY <2>3, <4>1 DEF deleteFamilyCascade
      <3>3. QED
        BY <3>1, <3>2
    <2>5. Names(rest, c)'
      BY <2>4 DEF Names
    <2>6. QED
      BY <1>1, <2>1, <2>2, <2>5, FewerNames
  <1>4. QED
    BY <1>2, <1>3 DEF leaveFamilies

LEMMA EraseNames ==
    ASSUME FamiliesInv, OrderInv, NamesInv, sync, NEW h \in Handler, eraseChildren(h)
    PROVE  Named
  <1>1. /\ UNCHANGED <<tables, history>> /\ Fewer /\ pc[h] # <<>> /\ turn \in {None, h}
        /\ At(h, "eraseChildren")
    BY ReadFewer DEF eraseChildren, At
  <1>2. CASE GoOn(h, call[h])
    <2>1. PICK s, ok, c, step : /\ s = pc[h] /\ ok = TRUE /\ c = call[h] /\ step = "eraseChildren"
      OBVIOUS
    <2>2. At(h, step) /\ Check(h, ok, c) /\ Head(s) = step
      BY <1>1, <1>2, <2>1 DEF Check, At, GoOn, Run
    <2>3. Left(s, c)
      BY <2>1, <2>2 DEF Left
    <2>4. QED
      BY <1>1, <2>1, <2>2, <2>3, ReadNames
  <1>3. ASSUME NEW c, Run(h, deleteChildCascade \o pc[h], c)
        PROVE  Named
    <2>1. PICK rest, step : step = "eraseChildren" /\ rest = deleteChildCascade \o pc[h]
      OBVIOUS
    <2>2. At(h, step) /\ Run(h, rest, c) /\ pc[h] \in Seq(Step)
      BY <1>1, <1>3, <2>1, NamesHold DEF At, Run
    <2>3. Head(rest) = "listDevices"
      BY <2>1, <2>2 DEF deleteChildCascade
    <2>4. Names(rest, c)'
      BY <2>3 DEF Names
    <2>5. QED
      BY <1>1, <2>1, <2>2, <2>4, FewerNames
  <1>4. QED
    BY <1>2, <1>3 DEF eraseChildren

-----------------------------------------------------------------------------
(* Names: families and members. *)

\* A step that adds what is named rightly, and goes on.
LEMMA WriteNames ==
    ASSUME FamiliesInv, OrderInv, NamesInv, sync, NEW h \in Handler, NEW step, NEW c,
           Write(h, step, c), Store', NEW s, s = pc[h], failures = 0 => Assigned(Tail(s), c)',
           Left(s, c)'
    PROVE  Named
  <1>1. PICK rest : rest = Tail(s)
    OBVIOUS
  <1>2. pc[h] # <<>> /\ turn \in {None, h} /\ Run(h, rest, c)
    BY <1>1 DEF Write, At, GoOn, Run
  <1>3. s \in Seq(Step) /\ s # <<>> /\ Facts(s) /\ Order(s)
    BY <1>2, NamesHold
  <1>4. rest # <<>> => Names(rest, c)'
    <2>1. Tail(s) # <<>> => Names(Tail(s), c)'
      BY <1>3, TailNames
    <2>2. QED
      BY <1>1, <2>1 DEF Names
  <1>5. failures = 0 => Assigned(rest, c)'
    BY <1>1 DEF Assigned, Unassigns
  <1>6. QED
    BY <1>2, <1>4, <1>5, RunNames, RunGuardians DEF Named

LEMMA UpdateFamiliesNames ==
    ASSUME FamiliesInv, OrderInv, NamesInv, sync, NEW h \in Handler, UpdateFamilies(h)
    PROVE  Named
  <1>0. /\ UNCHANGED <<members, children, versions, codes, devices, gone, late>>
        /\ failures \in {failures'}
    BY DEF UpdateFamilies, Write, GoOn, Run
  <1> DEFINE new == CHOOSE x \in Family : x \notin families
  <1>1. CASE /\ families # Family /\ Write(h, "createFamily", [call[h] EXCEPT !.family = new])
             /\ families' = families \cup {new}
    <2>1. PICK s, c0, f, ok, step : /\ s = pc[h] /\ c0 = call[h] /\ f = new /\ ok = TRUE
                                    /\ step = "createFamily"
      OBVIOUS
    <2>2. PICK c : c = [c0 EXCEPT !.family = f]
      OBVIOUS
    <2>3. At(h, step) /\ Check(h, ok, c) /\ Head(s) = step
      BY <1>1, <2>1, <2>2 DEF Write, At, Check, GoOn, Run
    <2>4. c0 \in CallRecord /\ Store
      BY <2>1, <2>3, NamesHold DEF At
    <2>5. c.family = f
      BY <2>2, <2>4 DEF CallRecord
    <2>6. f \in Family /\ f \notin families
      BY <1>1, <2>1 DEF FamiliesInv, TablesOK
    <2>7. MembersOf(f)' = {}
      BY <1>0, <2>4, <2>6 DEF Store, Founded, MembersOf
    <2>8. MembersOf(c.family)' = {} /\ c.family \in families'
      BY <1>1, <2>1, <2>5, <2>7 DEF MembersOf
    <2>9. Left(s, c)'
      BY <2>1, <2>3, <2>8 DEF Left
    <2>10. Fewer
      BY <1>0, <1>1 DEF Fewer
    <2>11. QED
      BY <2>1, <2>3, <2>9, <2>10, CheckNames
  <1>2. CASE Write(h, "dropFamily", call[h]) /\ families' = families \ {call[h].family}
    <2>1. PICK c, s, step : c = call[h] /\ s = pc[h] /\ step = "dropFamily"
      OBVIOUS
    <2>2. Write(h, step, c) /\ Head(s) = step /\ pc[h] # <<>> /\ turn \in {None, h}
      BY <1>2, <2>1 DEF Write, At, GoOn, Run
    <2>3. /\ Names(s, c) /\ Store /\ (failures = 0 => Assigned(s, c))
      BY <2>1, <2>2, NamesHold
    <2>4. MembersOf(c.family) = {}
      BY <2>1, <2>2, <2>3 DEF Names
    <2>5. Founded'
      BY <1>0, <1>2, <2>1, <2>3, <2>4 DEF Store, Founded, MembersOf
    <2>6. OneRowEach' /\ CodesNameTheirs' /\ DevicesHaveChildren'
      BY <1>0, <2>3 DEF Store, OneRowEach, CodesNameTheirs, Mine, DevicesHaveChildren, ChildrenOf
    <2>7. failures = 0 => AllAssigned
      BY <2>1, <2>2, <2>3, AssignedAll
    <2>8. failures = 0 => Assigned(Tail(s), c)'
      BY <1>0, <2>7 DEF AllAssigned, Assigned, ChildrenOf
    <2>9. Left(s, c)'
      BY <2>1, <2>2 DEF Left
    <2>10. Store'
      BY <2>5, <2>6 DEF Store
    <2>11. QED
      BY <2>1, <2>2, <2>8, <2>9, <2>10, WriteNames
  <1>3. QED
    BY <1>1, <1>2 DEF UpdateFamilies

\* A new row of a family that there is, of somebody who does not belong to it yet.
LEMMA NewMemberNames ==
    ASSUME FamiliesInv, Store, HasFresh(members), NEW row \in MemberRow,
           members' = [members EXCEPT ![Fresh(members)] = row],
           row.family \in families, RowOf(row.family, row.user) = {},
           row.assigned \subseteq ChildrenOf(row.family),
           UNCHANGED <<families, children, versions, codes, devices, gone, late>>
    PROVE  Store' /\ (AllAssigned => AllAssigned')
  <1>1. PICK m \in Member : /\ members[m] = None /\ members'[m] # None /\ members'[m] = row
                            /\ \A n \in Member \ {m} : members'[n] = members[n]
    BY NewMember
  <1>2. Founded'
    BY <1>1 DEF Store, Founded
  <1>3. OneRowEach'
    <2>1. \A n \in Member \ {m} :
              ~(members[n] # None /\ members[n].family = row.family /\ members[n].user = row.user)
      BY DEF RowOf, MembersOf, RowsOf
    <2>2. QED
      BY <1>1, <2>1 DEF Store, OneRowEach
  <1>4. CodesNameTheirs' /\ DevicesHaveChildren'
    BY DEF Store, CodesNameTheirs, Mine, DevicesHaveChildren, ChildrenOf
  <1>5. AllAssigned => AllAssigned'
    BY <1>1 DEF AllAssigned, ChildrenOf
  <1>6. QED
    BY <1>2, <1>3, <1>4, <1>5 DEF Store

LEMMA AddOwnerNames ==
    ASSUME FamiliesInv, OrderInv, NamesInv, sync, NEW h \in Handler,
           HasFresh(members), Write(h, "addOwner", call[h]),
           members' = [members EXCEPT ![Fresh(members)] =
               [family |-> call[h].family, user |-> call[h].user, role |-> "OWNER", assigned |-> {}]],
           UNCHANGED <<families, children, versions, codes, devices, gone, late>>
    PROVE  Named
  <1>1. PICK s, c, step : s = pc[h] /\ c = call[h] /\ step = "addOwner"
    OBVIOUS
  <1>2. Write(h, step, c) /\ pc[h] # <<>> /\ turn \in {None, h} /\ Head(s) = step
    BY <1>1 DEF Write, At, GoOn, Run
  <1>3. /\ s \in Seq(Step) /\ s # <<>> /\ Facts(s) /\ Names(s, c) /\ Store /\ Needs(s, c)
        /\ failures = 0 => Assigned(s, c)
    BY <1>1, <1>2, NamesHold
  <1>4. c.family \in Family /\ c.user \in User
    <2>1. ~Lacks(s, "addOwner") /\ Lacks(s, "createFamily")
      BY <1>1, <1>2, <1>3, LacksTail, NoneAfterTail DEF Facts
    <2>2. QED
      BY <1>3, <2>1 DEF Needs
  <1>5. c.family \in families /\ MembersOf(c.family) = {}
    BY <1>1, <1>2, <1>3 DEF Names
  <1>6. PICK row : row = [family |-> c.family, user |-> c.user, role |-> "OWNER", assigned |-> {}]
    OBVIOUS
  <1>7. /\ row \in MemberRow /\ row.family = c.family /\ row.user = c.user /\ row.assigned = {}
        /\ members' = [members EXCEPT ![Fresh(members)] = row]
    BY <1>1, <1>4, <1>6 DEF MemberRow, Role
  <1>8. RowOf(row.family, row.user) = {}
    BY <1>5, <1>7 DEF RowOf
  <1>9. Store' /\ (AllAssigned => AllAssigned')
    BY <1>3, <1>5, <1>7, <1>8, NewMemberNames
  <1>10. failures = 0 => Assigned(Tail(s), c)'
    BY <1>1, <1>2, <1>3, <1>9, AssignedAll DEF AllAssigned, Assigned
  <1>11. Left(s, c)'
    BY <1>1, <1>2 DEF Left
  <1>12. QED
    BY <1>1, <1>2, <1>9, <1>10, <1>11, WriteNames

LEMMA AddMemberNames ==
    ASSUME FamiliesInv, OrderInv, OwnersInv, NamesInv, sync, NEW h \in Handler,
           HasFresh(members), Write(h, "addMember", call[h]),
           members' = [members EXCEPT ![Fresh(members)] =
               [family |-> call[h].family, user |-> call[h].person, role |-> call[h].role,
                assigned |-> call[h].assigned]],
           UNCHANGED <<families, children, versions, codes, devices, gone, late>>
    PROVE  Named
  <1>1. PICK s, c, step : s = pc[h] /\ c = call[h] /\ step = "addMember"
    OBVIOUS
  <1>2. Write(h, step, c) /\ pc[h] # <<>> /\ turn \in {None, h} /\ Head(s) = step
    BY <1>1 DEF Write, At, GoOn, Run
  <1>3. /\ s \in Seq(Step) /\ s # <<>> /\ Names(s, c) /\ Store /\ Needs(s, c)
        /\ c \in CallRecord /\ AtHead(s, c)
        /\ failures = 0 => Assigned(s, c)
    BY <1>1, <1>2, NamesHold, Claims
  <1>4. c.family \in Family /\ c.person \in User /\ c.role \in Role /\ c.assigned \in SUBSET Child
    BY <1>1, <1>2, <1>3, LacksTail DEF Needs, CallRecord
  <1>5. /\ RowOf(c.family, c.person) = {} /\ c.assigned \subseteq ChildrenOf(c.family)
        /\ MembersOf(c.family) # {}
    BY <1>1, <1>2, <1>3 DEF Names, AtHead
  <1>6. c.family \in families
    BY <1>3, <1>5 DEF MembersOf, Store, Founded
  <1>7. PICK row : row = [family |-> c.family, user |-> c.person, role |-> c.role,
                          assigned |-> c.assigned]
    OBVIOUS
  <1>8. /\ row \in MemberRow /\ row.family = c.family /\ row.user = c.person
        /\ row.assigned = c.assigned /\ members' = [members EXCEPT ![Fresh(members)] = row]
    BY <1>1, <1>4, <1>7 DEF MemberRow
  <1>9. Store' /\ (AllAssigned => AllAssigned')
    BY <1>3, <1>5, <1>6, <1>8, NewMemberNames
  <1>10. failures = 0 => Assigned(Tail(s), c)'
    BY <1>1, <1>2, <1>3, <1>9, AssignedAll DEF AllAssigned, Assigned
  <1>11. Left(s, c)'
    BY <1>1, <1>2 DEF Left
  <1>12. QED
    BY <1>1, <1>2, <1>9, <1>10, <1>11, WriteNames

\* Rows that go take no name from what is left.
LEMMA DropRowsNames ==
    ASSUME FamiliesInv, OrderInv, NamesInv, sync, NEW h \in Handler,
           NEW step \in {"sweepMembers", "dropMemberships"}, Write(h, step, call[h]),
           NEW ids, members' = Without(members, ids),
           step = "sweepMembers" => ids = MembersOf(call[h].family),
           UNCHANGED <<families, children, versions, codes, devices, gone, late>>
    PROVE  Named
  <1>1. PICK s, c, ok : s = pc[h] /\ c = call[h] /\ ok = TRUE
    OBVIOUS
  <1>2. At(h, step) /\ Check(h, ok, c) /\ Head(s) = step
    BY <1>1 DEF Write, At, Check, GoOn, Run
  <1>3. \A n \in Member : members'[n] = IF n \in ids THEN None ELSE members[n]
    BY DEF Without, FamiliesInv, TablesOK
  <1>4. Fewer
    BY <1>3 DEF Fewer
  <1>5. step = "sweepMembers" => MembersOf(c.family)' = {}
    BY <1>1, <1>3 DEF MembersOf
  <1>6. Left(s, c)'
    BY <1>2, <1>5 DEF Left
  <1>7. QED
    BY <1>1, <1>2, <1>4, <1>6, CheckNames

LEMMA UpdateMembersNames ==
    ASSUME FamiliesInv, OrderInv, OwnersInv, NamesInv, sync, NEW h \in Handler, UpdateMembers(h)
    PROVE  Named
  <1>1. UNCHANGED <<families, children, versions, codes, devices, gone, late>>
    BY DEF UpdateMembers, history
  <1>2. ASSUME Write(h, "sweepMembers", call[h]), members' = Without(members, MembersOf(call[h].family))
        PROVE  Named
    <2>1. PICK step \in {"sweepMembers", "dropMemberships"} : step = "sweepMembers"
      OBVIOUS
    <2>2. PICK ids : ids = MembersOf(call[h].family)
      OBVIOUS
    <2>3. Write(h, step, call[h]) /\ members' = Without(members, ids)
      BY <1>2, <2>1, <2>2 DEF Write, At
    <2>4. QED
      BY <1>1, <2>2, <2>3, DropRowsNames
  <1>3. ASSUME Write(h, "dropMemberships", call[h]), members' = Without(members, RowsOf(call[h].user))
        PROVE  Named
    <2>1. PICK step \in {"sweepMembers", "dropMemberships"} : step = "dropMemberships"
      OBVIOUS
    <2>2. PICK ids : ids = RowsOf(call[h].user)
      OBVIOUS
    <2>3. Write(h, step, call[h]) /\ members' = Without(members, ids)
      BY <1>3, <2>1, <2>2 DEF Write, At
    <2>4. QED
      BY <1>1, <2>1, <2>3, DropRowsNames
  <1>4. QED
    BY <1>1, <1>2, <1>3, AddOwnerNames, AddMemberNames DEF UpdateMembers

\* The cascade is done with the guardians it takes off the list.
LEMMA UnassignNames ==
    ASSUME FamiliesInv, OrderInv, NamesInv, sync, NEW h \in Handler, unassign(h)
    PROVE  Named
  <1>0. PICK s, c0 : s = pc[h] /\ c0 = call[h]
    OBVIOUS
  <1>1. /\ pc[h] # <<>> /\ turn \in {None, h} /\ Head(s) = "unassign"
        /\ UNCHANGED <<families, children, versions, codes, devices, gone, late>>
    BY <1>0 DEF unassign, At, history
  <1>2. s \in Seq(Step) /\ s # <<>> /\ c0 \in CallRecord /\ Store /\ (failures = 0 => Assigned(s, c0))
    BY <1>0, <1>1, NamesHold
  <1>3. CASE c0.listed = {} /\ GoOn(h, c0) /\ UNCHANGED members
    <2>1. PICK step : step = "unassign"
      OBVIOUS
    <2>2. Write(h, step, c0)
      BY <1>0, <1>3, <2>1 DEF unassign, Write, At
    <2>3. Fewer
      BY <1>1, <1>3 DEF Fewer
    <2>4. Assigned(s, c0) => AllAssigned
      BY <1>1, <1>3 DEF Assigned, AllAssigned, Unassigns
    <2>5. failures = 0 => Assigned(Tail(s), c0)'
      BY <1>2, <2>3, <2>4, FewerAssigned DEF AllAssigned, Assigned
    <2>6. Left(s, c0)'
      BY <1>1 DEF Left
    <2>7. QED
      BY <1>0, <1>2, <2>2, <2>3, <2>5, <2>6, FewerStore, WriteNames
  <1>4. ASSUME NEW m \in c0.listed, Run(h, s, [c0 EXCEPT !.listed = @ \ {m}]),
               members' = IF members[m] = None THEN members
                          ELSE [members EXCEPT ![m].assigned = @ \ {c0.child}]
        PROVE  Named
    <2>1. PICK c : c = [c0 EXCEPT !.listed = @ \ {m}]
      OBVIOUS
    <2>2. Run(h, s, c)
      BY <1>4, <2>1 DEF Run
    <2>3. c.child = c0.child /\ c.family = c0.family /\ c.listed = c0.listed \ {m}
      BY <1>2, <2>1 DEF CallRecord
    <2>4. PICK k : k = c0.child
      OBVIOUS
    <2>5. ASSUME NEW n \in Member
          PROVE  /\ members'[n] = None <=> members[n] = None
                 /\ members[n] # None =>
                        /\ members'[n].family = members[n].family
                        /\ members'[n].user = members[n].user
                        /\ members'[n].assigned \subseteq members[n].assigned
                        /\ n = m => k \notin members'[n].assigned
      <3>1. members' = IF members[m] = None THEN members
                       ELSE [members EXCEPT ![m].assigned = @ \ {k}]
        BY <1>4, <2>4
      <3>2. QED
        BY <3>1, UnassignRows
    <2>6. Fewer
      BY <1>1, <2>5 DEF Fewer
    <2>7. ASSUME failures = 0 PROVE Assigned(s, c)'
      <3>1. SUFFICES ASSUME NEW n \in Member, members'[n] # None, NEW j \in members'[n].assigned,
                            NEW f, f = members'[n].family, j \notin ChildrenOf(f)'
                     PROVE  Unassigns(s, c, n, j)'
        BY DEF Assigned, ChildrenOf
      <3>2. f = members[n].family
        BY <2>5, <3>1
      <3>3. j \in members[n].assigned /\ members[n] # None /\ (n = m => j # k)
        BY <2>5, <3>1
      <3>4. j \notin ChildrenOf(members[n].family)
        BY <1>1, <3>1, <3>2 DEF ChildrenOf
      <3>5. Unassigns(s, c0, n, j)
        BY <1>2, <2>7, <3>3, <3>4 DEF Assigned
      <3>6. c.child = j /\ c.family = f /\ n \in c.listed
        BY <1>1, <2>3, <2>4, <3>2, <3>3, <3>5 DEF Unassigns
      <3>7. QED
        BY <1>1, <1>2, <3>1, <3>2, <3>6 DEF Unassigns
    <2>8. s # <<>> => Names(s, c)'
      BY <1>1 DEF Names
    <2>9. QED
      BY <1>1, <1>2, <2>2, <2>6, <2>7, <2>8, FewerStore, RunNames, RunGuardians DEF Named
  <1>5. QED
    BY <1>0, <1>3, <1>4 DEF unassign

-----------------------------------------------------------------------------
(* Names: children, versions, codes and devices. *)

\* A new child is not one that somebody names already.
LEMMA CreateChildNames ==
    ASSUME FamiliesInv, OrderInv, NamesInv, sync, NEW h \in Handler,
           NEW k \in Child, k \notin gone, children[k] = None,
           Write(h, "createChild", [call[h] EXCEPT !.child = k]),
           children' = [children EXCEPT ![k] = [family |-> call[h].family, moved |-> FALSE]],
           UNCHANGED <<families, members, versions, codes, devices, gone, late>>
    PROVE  Named
  <1>1. PICK s, c0, step : s = pc[h] /\ c0 = call[h] /\ step = "createChild"
    OBVIOUS
  <1>2. PICK c : c = [c0 EXCEPT !.child = k]
    OBVIOUS
  <1>3. Write(h, step, c) /\ Head(s) = step /\ pc[h] # <<>> /\ turn \in {None, h}
    BY <1>1, <1>2 DEF Write, At, GoOn, Run
  <1>4. /\ s \in Seq(Step) /\ s # <<>> /\ c0 \in CallRecord /\ Store /\ Needs(s, c0)
        /\ failures = 0 => Assigned(s, c0)
    BY <1>1, <1>3, NamesHold
  <1>5. c.child = k /\ c.family = c0.family
    BY <1>2, <1>4 DEF CallRecord
  <1>6. c0.family \in Family
    BY <1>1, <1>3, <1>4, LacksTail DEF Needs
  <1>7. PICK row : row = [family |-> c0.family, moved |-> FALSE]
    OBVIOUS
  <1>8. row # None /\ row.family = c0.family
    <2>1. row \in ChildRow
      BY <1>6, <1>7 DEF ChildRow
    <2>2. QED
      BY <1>7, <2>1, FamiliesAssumption
  <1>9. children' = [children EXCEPT ![k] = row]
    BY <1>1, <1>7
  <1>10. children'[k] = row /\ \A x \in Child \ {k} : children'[x] = children[x]
    BY <1>9 DEF FamiliesInv, TablesOK
  <1>11. ASSUME NEW f PROVE ChildrenOf(f) \subseteq ChildrenOf(f)'
    BY <1>10 DEF ChildrenOf
  <1>12. Founded' /\ OneRowEach'
    BY <1>4 DEF Store, Founded, OneRowEach
  <1>13. CodesNameTheirs'
    BY <1>4, <1>10 DEF Store, CodesNameTheirs, Mine
  <1>14. DevicesHaveChildren'
    BY <1>4, <1>10 DEF Store, DevicesHaveChildren, ChildrenOf
  <1>15. AllAssigned => AllAssigned'
    BY <1>10 DEF AllAssigned, ChildrenOf
  <1>16. failures = 0 => Assigned(Tail(s), c)'
    BY <1>1, <1>3, <1>4, <1>15, AssignedAll DEF AllAssigned, Assigned
  <1>17. c.child \in ChildrenOf(c.family)'
    BY <1>5, <1>8, <1>10 DEF ChildrenOf
  <1>18. Left(s, c)'
    BY <1>1, <1>3, <1>17 DEF Left
  <1>19. Store'
    BY <1>12, <1>13, <1>14 DEF Store
  <1>20. QED
    BY <1>1, <1>3, <1>16, <1>18, <1>19, WriteNames

\* The child goes after its devices and its version, and before its guardians' row.
LEMMA DropChildNames ==
    ASSUME FamiliesInv, OrderInv, NamesInv, sync, NEW h \in Handler, Write(h, "dropChild", call[h]),
           children' = IF call[h].child \in ChildrenOf(call[h].family)
                       THEN Without(children, {call[h].child}) ELSE children,
           gone' = gone \cup {call[h].child},
           UNCHANGED <<families, members, versions, codes, devices, late>>
    PROVE  Named
  <1>1. PICK s, c, step, k, f : /\ s = pc[h] /\ c = call[h] /\ step = "dropChild"
                                /\ k = c.child /\ f = c.family
    OBVIOUS
  <1>2. Write(h, step, c) /\ Head(s) = step /\ pc[h] # <<>> /\ turn \in {None, h}
    BY <1>1 DEF Write, At, GoOn, Run
  <1>3. /\ s \in Seq(Step) /\ s # <<>> /\ Order(s) /\ Names(s, c) /\ Store
        /\ failures = 0 => Assigned(s, c)
    BY <1>1, <1>2, NamesHold
  <1>4. \A x \in Child : children'[x] = IF x = k /\ k \in ChildrenOf(f) THEN None ELSE children[x]
    BY <1>1 DEF Without, FamiliesInv, TablesOK
  <1>5. /\ \A d \in DevicesOf(k) : devices[d].family # f
        /\ <<f, k>> \notin versions
    BY <1>1, <1>2, <1>3 DEF Names
  <1>6. ASSUME NEW x, NEW g, x \in ChildrenOf(g), x \notin ChildrenOf(g)'
        PROVE  x = k /\ g = f
    BY <1>4, <1>6 DEF ChildrenOf
  <1>7. Founded' /\ OneRowEach'
    BY <1>3 DEF Store, Founded, OneRowEach
  <1>8. CodesNameTheirs'
    BY <1>1, <1>3, <1>4 DEF Store, CodesNameTheirs, Mine
  <1>9. DevicesHaveChildren'
    <2>1. ASSUME NEW d \in Device \ late, devices[d] # None, NEW x, NEW g,
                 x = devices[d].child, g = devices[d].family
          PROVE  x \in ChildrenOf(g)'
      <3>1. x \in ChildrenOf(g)
        BY <1>3, <2>1 DEF Store, DevicesHaveChildren
      <3>2. ~(x = k /\ g = f)
        BY <1>5, <2>1 DEF DevicesOf
      <3>3. QED
        BY <1>6, <3>1, <3>2
    <2>2. ASSUME late = {}, NEW v \in versions, NEW x, NEW g, x = v[2], g = v[1]
          PROVE  x \in ChildrenOf(g)'
      <3>1. x \in ChildrenOf(g)
        BY <1>3, <2>2 DEF Store, DevicesHaveChildren
      <3>2. v = <<g, x>>
        BY <2>2 DEF FamiliesInv, TablesOK
      <3>3. QED
        BY <1>5, <1>6, <2>2, <3>1, <3>2
    <2>3. ASSUME NEW d \in Device \ late, devices[d] # None
          PROVE  /\ devices[d].child \in Child /\ children'[devices[d].child] # None
                 /\ children'[devices[d].child].family = devices[d].family
      BY <2>1, <2>3 DEF ChildrenOf
    <2>4. ASSUME late = {}, NEW v \in versions
          PROVE  v[2] \in Child /\ children'[v[2]] # None /\ children'[v[2]].family = v[1]
      BY <2>2, <2>4 DEF ChildrenOf
    <2>5. QED
      BY <2>3, <2>4 DEF DevicesHaveChildren, ChildrenOf
  <1>10. Head(Tail(s)) = "listAssigned" /\ Tail(s) # <<>>
    BY <1>1, <1>2, <1>3, FollowedTail DEF Order
  <1>11. PICK rest : rest = Tail(s)
    OBVIOUS
  <1>12. ASSUME failures = 0 PROVE Assigned(rest, c)'
    <2>1. AllAssigned
      BY <1>1, <1>2, <1>3, <1>12, AssignedAll
    <2>2. SUFFICES ASSUME NEW m \in Member, members[m] # None, NEW j \in members[m].assigned,
                          NEW g, g = members[m].family, j \notin ChildrenOf(g)'
                   PROVE  Unassigns(rest, c, m, j)'
      BY DEF Assigned, ChildrenOf
    <2>3. j = k /\ g = f
      BY <1>6, <2>1, <2>2 DEF AllAssigned
    <2>4. QED
      BY <1>1, <1>10, <1>11, <2>2, <2>3 DEF Unassigns
  <1>13. failures = 0 => Assigned(Tail(s), c)'
    BY <1>11, <1>12 DEF Assigned, Unassigns
  <1>14. Left(s, c)'
    BY <1>1, <1>2 DEF Left
  <1>15. Store'
    BY <1>7, <1>8, <1>9 DEF Store
  <1>16. QED
    BY <1>1, <1>2, <1>13, <1>14, <1>15, WriteNames

LEMMA UpdateChildrenNames ==
    ASSUME FamiliesInv, SyncInv, OrderInv, NamesInv, sync, NEW h \in Handler, UpdateChildren(h)
    PROVE  Named
  <1>0. UNCHANGED <<families, members, versions, codes, devices, late>>
    BY DEF UpdateChildren
  <1> DEFINE new == CHOOSE x \in Child \ gone : children[x] = None
  <1>1. CASE /\ \E x \in Child \ gone : children[x] = None
             /\ Write(h, "createChild", [call[h] EXCEPT !.child = new])
             /\ children' = [children EXCEPT ![new] = [family |-> call[h].family, moved |-> FALSE]]
             /\ UNCHANGED gone
    <2>1. PICK k \in Child : k = new /\ k \notin gone /\ children[k] = None
      BY <1>1
    <2>2. /\ Write(h, "createChild", [call[h] EXCEPT !.child = k])
          /\ children' = [children EXCEPT ![k] = [family |-> call[h].family, moved |-> FALSE]]
      BY <1>1, <2>1
    <2>3. QED
      BY <1>0, <1>1, <2>1, <2>2, CreateChildNames
  <1>2. CASE /\ At(h, "insertChild") /\ Check(h, ~(children[call[h].child] # None), call[h])
             /\ children' = IF children[call[h].child] # None THEN children
                            ELSE [children EXCEPT ![call[h].child] = [call[h].row EXCEPT !.moved = TRUE]]
             /\ UNCHANGED gone
    <2>1. children[call[h].child] # None
      BY <1>2 DEF At, SyncInv, SafeHead
    <2>2. PICK s, c, step, ok : /\ s = pc[h] /\ c = call[h] /\ step = "insertChild"
                                /\ ok = ~(children[call[h].child] # None)
      OBVIOUS
    <2>3. At(h, step) /\ Check(h, ok, c)
      BY <1>2, <2>2 DEF Check, GoOn, Run
    <2>4. Fewer
      BY <1>0, <1>2, <2>1 DEF Fewer
    <2>5. ok => Left(s, c)'
      BY <2>1, <2>2
    <2>6. QED
      BY <2>2, <2>3, <2>4, <2>5, CheckNames
  <1>3. CASE /\ Write(h, "dropChild", call[h])
             /\ children' = IF call[h].child \in ChildrenOf(call[h].family)
                            THEN Without(children, {call[h].child}) ELSE children
             /\ gone' = gone \cup {call[h].child}
    BY <1>0, <1>3, DropChildNames
  <1>4. QED
    BY <1>1, <1>2, <1>3 DEF UpdateChildren

\* A step that takes versions or codes, with the variables it has.
LEMMA DropNames ==
    ASSUME FamiliesInv, OrderInv, NamesInv, sync, NEW h \in Handler, NEW step,
           step \notin {"listAssigned", "unassign"}, NEW s, s = pc[h], NEW c, c = call[h],
           Write(h, step, c), Fewer, Left(s, c)'
    PROVE  Named
  <1>1. PICK ok : ok = TRUE
    OBVIOUS
  <1>2. At(h, step) /\ Check(h, ok, c)
    BY <1>1 DEF Write, Check
  <1>3. QED
    BY <1>2, CheckNames

LEMMA UpdateVersionsNames ==
    ASSUME FamiliesInv, OrderInv, NamesInv, sync, NEW h \in Handler, UpdateVersions(h)
    PROVE  Named
  <1>0. UNCHANGED <<families, members, children, codes, devices, gone, late>>
    BY DEF UpdateVersions, history
  <1>1. PICK s, c : s = pc[h] /\ c = call[h]
    OBVIOUS
  <1>2. ASSUME NEW step, Write(h, step, call[h])
        PROVE  /\ Write(h, step, c) /\ Head(s) = step /\ pc[h] # <<>> /\ turn \in {None, h}
               /\ Names(s, c) /\ Store /\ (failures = 0 => Assigned(s, c))
    <2>1. Write(h, step, c) /\ Head(s) = step /\ pc[h] # <<>> /\ turn \in {None, h}
      BY <1>1, <1>2 DEF Write, At, GoOn, Run
    <2>2. QED
      BY <1>1, <2>1, NamesHold
  <1>3. CASE Write(h, "bump", call[h]) /\ versions' = versions \cup {<<call[h].family, call[h].child>>}
    <2>1. PICK step : step = "bump"
      OBVIOUS
    <2>2. /\ Write(h, step, c) /\ Head(s) = step /\ Names(s, c) /\ Store
          /\ failures = 0 => Assigned(s, c)
      BY <1>2, <1>3, <2>1
    <2>3. late = {} => c.child \in ChildrenOf(c.family)
      BY <2>1, <2>2 DEF Names
    <2>4. Founded' /\ OneRowEach' /\ CodesNameTheirs'
      BY <1>0, <2>2 DEF Store, Founded, OneRowEach, CodesNameTheirs, Mine
    <2>5. DevicesHaveChildren'
      <3>1. \A v \in versions' : v \in versions \/ (v[1] = c.family /\ v[2] = c.child)
        BY <1>1, <1>3
      <3>2. late = {} => \A v \in versions' : v[2] \in ChildrenOf(v[1])
        BY <2>2, <2>3, <3>1 DEF Store, DevicesHaveChildren
      <3>3. QED
        BY <1>0, <2>2, <3>2 DEF Store, DevicesHaveChildren, ChildrenOf
    <2>6. failures = 0 => Assigned(Tail(s), c)'
      BY <1>0, <2>1, <2>2, AssignedAll DEF AllAssigned, Assigned, ChildrenOf
    <2>7. Left(s, c)'
      BY <2>1, <2>2 DEF Left
    <2>8. Store'
      BY <2>4, <2>5 DEF Store
    <2>9. QED
      BY <1>1, <2>2, <2>6, <2>7, <2>8, WriteNames
  <1>4. CASE Write(h, "dropVersions", call[h]) /\ versions' = versions \ {<<call[h].family, call[h].child>>}
    <2>1. PICK step : step = "dropVersions"
      OBVIOUS
    <2>2. Write(h, step, c) /\ Head(s) = step /\ Names(s, c)
      BY <1>2, <1>4, <2>1
    <2>3. \A d \in DevicesOf(c.child) : devices[d].family # c.family
      BY <2>1, <2>2 DEF Names
    <2>4. Left(s, c)'
      BY <1>0, <1>1, <1>4, <2>1, <2>2, <2>3 DEF Left, DevicesOf
    <2>5. Fewer
      BY <1>0, <1>4 DEF Fewer
    <2>6. QED
      BY <1>1, <2>1, <2>2, <2>4, <2>5, DropNames
  <1>5. CASE Write(h, "sweepVersions", call[h]) /\ versions' = versions \ ({call[h].family} \X Child)
    <2>1. PICK step : step = "sweepVersions"
      OBVIOUS
    <2>2. Write(h, step, c) /\ Head(s) = step /\ Names(s, c)
      BY <1>2, <1>5, <2>1
    <2>3. MembersOf(c.family) = {}
      BY <2>1, <2>2 DEF Names
    <2>4. Left(s, c)'
      BY <1>0, <2>1, <2>2, <2>3 DEF Left, MembersOf
    <2>5. Fewer
      BY <1>0, <1>5 DEF Fewer
    <2>6. QED
      BY <1>1, <2>1, <2>2, <2>4, <2>5, DropNames
  <1>6. QED
    BY <1>3, <1>4, <1>5 DEF UpdateVersions

\* A dead code names what it named.
LEMMA DeadNames ==
    ASSUME FamiliesInv, NEW ids, \A k \in Code \cap ids : codes[k] # None, NEW k \in Code
    PROVE  /\ Dead(codes, ids)[k] # None => codes[k] # None
           /\ codes[k] # None => /\ Dead(codes, ids)[k].family = codes[k].family
                                 /\ Dead(codes, ids)[k].child = codes[k].child
  <1>1. codes \in [Code -> CodeRow \cup {None}]
    BY DEF FamiliesInv, TablesOK
  <1>2. Dead(codes, ids)[k] = IF k \in ids THEN [codes[k] EXCEPT !.live = FALSE] ELSE codes[k]
    BY <1>1 DEF Dead
  <1>3. PICK row : row = codes[k]
    OBVIOUS
  <1>4. CASE k \in ids
    <2>1. row \in CodeRow
      BY <1>1, <1>3, <1>4
    <2>2. PICK new : new = [row EXCEPT !.live = FALSE]
      OBVIOUS
    <2>3. new.family = row.family /\ new.child = row.child
      BY <2>1, <2>2 DEF CodeRow
    <2>4. Dead(codes, ids)[k] = new
      BY <1>2, <1>3, <1>4, <2>2
    <2>5. QED
      BY <1>3, <1>4, <2>3, <2>4
  <1>5. CASE k \notin ids
    BY <1>2, <1>5
  <1>6. QED
    BY <1>4, <1>5

LEMMA UpdateCodesNames ==
    ASSUME FamiliesInv, OrderInv, NamesInv, sync, NEW h \in Handler, UpdateCodes(h)
    PROVE  Named
  <1>0. UNCHANGED <<families, members, children, versions, devices, gone, late>>
    BY DEF UpdateCodes, history
  <1>1. PICK s, c : s = pc[h] /\ c = call[h]
    OBVIOUS
  <1>2. ASSUME NEW step, Write(h, step, call[h])
        PROVE  /\ Write(h, step, c) /\ Head(s) = step /\ pc[h] # <<>> /\ turn \in {None, h}
               /\ s \in Seq(Step) /\ Needs(s, c)
               /\ Names(s, c) /\ Store /\ (failures = 0 => Assigned(s, c))
    <2>1. Write(h, step, c) /\ Head(s) = step /\ pc[h] # <<>> /\ turn \in {None, h}
      BY <1>1, <1>2 DEF Write, At, GoOn, Run
    <2>2. QED
      BY <1>1, <2>1, NamesHold
  <1>3. CASE /\ HasFresh(codes) /\ Write(h, "createCode", call[h])
             /\ codes' = [codes EXCEPT ![Fresh(codes)] =
                             [family |-> call[h].family, child |-> call[h].child, live |-> TRUE]]
    <2>1. PICK step : step = "createCode"
      OBVIOUS
    <2>2. /\ Write(h, step, c) /\ Head(s) = step /\ Names(s, c) /\ Store
          /\ failures = 0 => Assigned(s, c)
      BY <1>2, <1>3, <2>1
    <2>3. c.child \in ChildrenOf(c.family)
      BY <2>1, <2>2 DEF Names
    <2>4. PICK row : row = [family |-> c.family, child |-> c.child, live |-> TRUE]
      OBVIOUS
    <2>5. codes' = [codes EXCEPT ![Fresh(codes)] = row] /\ row.family = c.family /\ row.child = c.child
      BY <1>1, <1>3, <2>4
    <2>6. \A k \in Code : codes'[k] = codes[k] \/ codes'[k] = row
      BY <2>5 DEF FamiliesInv, TablesOK
    <2>7. Mine(row.child, row.family)
      BY <2>3, <2>5 DEF ChildrenOf, Mine
    <2>8. CodesNameTheirs'
      BY <1>0, <2>2, <2>6, <2>7 DEF Store, CodesNameTheirs, Mine
    <2>9. Founded' /\ OneRowEach' /\ DevicesHaveChildren'
      BY <1>0, <2>2 DEF Store, Founded, OneRowEach, DevicesHaveChildren, ChildrenOf
    <2>10. failures = 0 => Assigned(Tail(s), c)'
      BY <1>0, <2>1, <2>2, AssignedAll DEF AllAssigned, Assigned, ChildrenOf
    <2>11. Left(s, c)'
      BY <2>1, <2>2 DEF Left
    <2>12. Store'
      BY <2>8, <2>9 DEF Store
    <2>13. QED
      BY <1>1, <2>2, <2>10, <2>11, <2>12, WriteNames
  <1>4. ASSUME NEW step \in {"markCode", "sweepCodes"}, Write(h, step, call[h]),
               NEW ids, codes' = Dead(codes, ids), \A k \in Code \cap ids : codes[k] # None
        PROVE  Named
    <2>1. Write(h, step, c) /\ Head(s) = step
      BY <1>2, <1>4
    <2>2. Fewer
      BY <1>0, <1>4, DeadNames DEF Fewer
    <2>3. Left(s, c)'
      BY <2>1 DEF Left
    <2>4. QED
      BY <1>1, <2>1, <2>2, <2>3, DropNames
  <1>5. CASE Write(h, "markCode", call[h]) /\ codes' = Dead(codes, {call[h].code})
    <2>1. PICK step \in {"markCode", "sweepCodes"} : step = "markCode"
      OBVIOUS
    <2>2. PICK ids : ids = {c.code}
      OBVIOUS
    <2>3. Write(h, step, call[h]) /\ codes' = Dead(codes, ids)
      BY <1>1, <1>5, <2>1, <2>2 DEF Write, At
    <2>4. codes[c.code] # None
      <3>1. pc[h] # <<>> /\ s \in Seq(Step) /\ Head(s) = "markCode"
        BY <1>2, <1>5
      <3>2. HasCode(s)
        BY <1>1, <3>1, LacksTail DEF HasCode
      <3>3. QED
        BY <1>1, <3>1, <3>2 DEF FamiliesInv, CodeKnown
    <2>5. QED
      BY <1>4, <2>2, <2>3, <2>4
  <1>6. CASE /\ Write(h, "sweepCodes", call[h])
             /\ codes' = Dead(codes, {k \in Code : codes[k] # None /\ codes[k].family = call[h].family})
    <2>1. PICK step \in {"markCode", "sweepCodes"} : step = "sweepCodes"
      OBVIOUS
    <2>2. PICK ids : ids = {k \in Code : codes[k] # None /\ codes[k].family = call[h].family}
      OBVIOUS
    <2>3. Write(h, step, call[h]) /\ codes' = Dead(codes, ids)
      BY <1>6, <2>1, <2>2 DEF Write, At
    <2>4. QED
      BY <1>4, <2>2, <2>3
  <1>7. QED
    BY <1>3, <1>5, <1>6 DEF UpdateCodes

\* Devices that go take no name from what is left; the last one listed was all there was.
LEMMA UpdateDevicesNames ==
    ASSUME FamiliesInv, OrderInv, NamesInv, sync, NEW h \in Handler, UpdateDevices(h)
    PROVE  Named
  <1>0. /\ UNCHANGED <<families, members, children, versions, codes, late>>
        /\ pc[h] # <<>> /\ turn \in {None, h}
    BY DEF UpdateDevices, Write, At
  <1>1. PICK s, c0 : s = pc[h] /\ c0 = call[h]
    OBVIOUS
  <1>2. /\ s \in Seq(Step) /\ s # <<>> /\ c0 \in CallRecord /\ Names(s, c0) /\ Store
        /\ Needs(s, c0) /\ Facts(s)
    BY <1>0, <1>1, NamesHold
  <1>3. ASSUME NEW ids, devices' = Without(devices, ids)
        PROVE  \A d \in Device : devices'[d] = IF d \in ids THEN None ELSE devices[d]
    BY <1>3 DEF Without, FamiliesInv, TablesOK
  <1>4. ASSUME NEW ids, devices' = Without(devices, ids), gone' = gone \cup ids
        PROVE  Fewer
    BY <1>0, <1>3, <1>4 DEF Fewer
  <1>5. ASSUME NEW step \in {"dropDevice", "dropDevices", "sweepDevices"},
               Write(h, step, [c0 EXCEPT !.listed = {}]), NEW ids,
               devices' = Without(devices, ids), gone' = gone \cup ids,
               step = "dropDevices" => c0.listed = {} /\ ids = {}
        PROVE  Named
    <2>1. PICK c, ok : c = [c0 EXCEPT !.listed = {}] /\ ok = TRUE
      OBVIOUS
    <2>2. At(h, step) /\ Check(h, ok, c) /\ Head(s) = step
      BY <1>1, <1>5, <2>1 DEF Write, At, Check, GoOn, Run
    <2>3. c.family = c0.family /\ c.child = c0.child
      BY <1>2, <2>1 DEF CallRecord
    <2>4. step = "dropDevice" => (late = {} => c.child \in ChildrenOf(c.family))
      BY <1>2, <2>2, <2>3 DEF Names
    <2>5. step = "dropDevices" => \A d \in DevicesOf(c.child)' : devices'[d].family # c.family
      <3>1. SUFFICES ASSUME step = "dropDevices"
                     PROVE  \A d \in DevicesOf(c.child)' : devices'[d].family # c.family
        OBVIOUS
      <3>2. \A d \in Device : devices'[d] = devices[d]
        BY <1>3, <1>5, <3>1
      <3>3. \A d \in DevicesOf(c.child) : devices[d].family # c.family
        BY <1>2, <1>5, <2>2, <2>3, <3>1 DEF Names
      <3>4. QED
        BY <3>2, <3>3 DEF DevicesOf
    <2>6. Left(s, c)'
      BY <1>0, <2>2, <2>4, <2>5 DEF Left, ChildrenOf
    <2>7. QED
      BY <1>1, <1>4, <1>5, <2>2, <2>6, CheckNames
  <1>6. ASSUME NEW d \in c0.listed, At(h, "dropDevices"),
               Run(h, s, [c0 EXCEPT !.listed = @ \ {d}]),
               devices' = Without(devices, {d}), gone' = gone \cup {d}
        PROVE  Named
    <2>1. PICK c, step : c = [c0 EXCEPT !.listed = @ \ {d}] /\ step = "dropDevices"
      OBVIOUS
    <2>2. Run(h, s, c) /\ At(h, step) /\ Head(s) = "dropDevices"
      BY <1>1, <1>6, <2>1 DEF Run, At
    <2>3. c.family = c0.family /\ c.child = c0.child /\ c.listed = c0.listed \ {d}
      BY <1>2, <2>1 DEF CallRecord
    <2>4. \A x \in DevicesOf(c0.child) : devices[x].family = c0.family => x \in c0.listed
      BY <1>2, <2>2 DEF Names
    <2>5. \A x \in Device : devices'[x] = IF x = d THEN None ELSE devices[x]
      BY <1>3, <1>6
    <2>6. \A x \in DevicesOf(c.child)' : devices'[x].family = c.family => x \in c.listed
      BY <2>3, <2>4, <2>5 DEF DevicesOf
    <2>7. Names(s, c)'
      BY <2>2, <2>6 DEF Names
    <2>8. Fewer
      BY <1>4, <1>6
    <2>9. QED
      BY <2>1, <2>2, <2>7, <2>8, FewerNames
  <1>7. CASE /\ Write(h, "writeDevice", call[h])
             /\ devices' = [devices EXCEPT ![call[h].device] = call[h].row]
             /\ UNCHANGED gone
    <2>1. PICK step : step = "writeDevice"
      OBVIOUS
    <2>2. Write(h, step, c0) /\ Head(s) = step
      BY <1>1, <1>7, <2>1 DEF Write, At, GoOn, Run
    <2>3. devices[c0.device] = c0.row
      BY <1>2, <2>1, <2>2 DEF Names
    <2>4. \A d \in Device : devices'[d] = devices[d]
      BY <1>1, <1>7, <2>3 DEF FamiliesInv, TablesOK
    <2>5. Fewer
      BY <1>0, <1>7, <2>4 DEF Fewer
    <2>6. Left(s, c0)'
      BY <2>1, <2>2 DEF Left
    <2>7. QED
      BY <1>1, <2>1, <2>2, <2>5, <2>6, DropNames
  <1>8. CASE /\ Write(h, "dropDevice", [call[h] EXCEPT !.listed = {}])
             /\ devices' = Without(devices, {call[h].device}) /\ gone' = gone \cup {call[h].device}
    <2>1. PICK step \in {"dropDevice", "dropDevices", "sweepDevices"} : step = "dropDevice"
      OBVIOUS
    <2>2. PICK ids : ids = {call[h].device}
      OBVIOUS
    <2>3. Write(h, step, [c0 EXCEPT !.listed = {}])
      BY <1>1, <1>8, <2>1 DEF Write, At, GoOn, Run
    <2>4. QED
      BY <1>5, <1>8, <2>1, <2>2, <2>3
  <1>9. CASE /\ At(h, "dropDevices") /\ call[h].listed = {}
             /\ Write(h, "dropDevices", [call[h] EXCEPT !.listed = {}])
             /\ devices' = Without(devices, {}) /\ gone' = gone \cup {}
    <2>1. PICK step \in {"dropDevice", "dropDevices", "sweepDevices"} : step = "dropDevices"
      OBVIOUS
    <2>2. PICK ids : ids = {}
      OBVIOUS
    <2>3. Write(h, step, [c0 EXCEPT !.listed = {}])
      BY <1>1, <1>9, <2>1 DEF Write, At, GoOn, Run
    <2>4. QED
      BY <1>1, <1>5, <1>9, <2>1, <2>2, <2>3
  <1>10. CASE \E ids : /\ Write(h, "sweepDevices", [call[h] EXCEPT !.listed = {}])
                       /\ devices' = Without(devices, ids) /\ gone' = gone \cup ids
    <2>1. PICK ids : /\ Write(h, "sweepDevices", [call[h] EXCEPT !.listed = {}])
                     /\ devices' = Without(devices, ids) /\ gone' = gone \cup ids
      BY <1>10
    <2>2. PICK step \in {"dropDevice", "dropDevices", "sweepDevices"} : step = "sweepDevices"
      OBVIOUS
    <2>3. Write(h, step, [c0 EXCEPT !.listed = {}])
      BY <1>1, <2>1, <2>2 DEF Write, At, GoOn, Run
    <2>4. QED
      BY <1>5, <2>1, <2>2, <2>3
  <1>11. CASE /\ At(h, "dropDevices")
              /\ \E d \in call[h].listed :
                    /\ Run(h, pc[h], [call[h] EXCEPT !.listed = @ \ {d}])
                    /\ devices' = Without(devices, {d})
                    /\ gone' = gone \cup {d}
    BY <1>1, <1>6, <1>11
  <1>12. QED
    BY <1>7, <1>8, <1>9, <1>10, <1>11 DEF UpdateDevices

\* A device is enrolled for the child that the code names, or late for one that is gone.
LEMMA CreateDeviceNames ==
    ASSUME FamiliesInv, OrderInv, NamesInv, sync, NEW h \in Handler, createDevice(h)
    PROVE  Named
  <1>0. UNCHANGED <<families, members, children, versions, codes, gone>>
    BY DEF createDevice
  <1>1. PICK s, c, step, k : s = pc[h] /\ c = call[h] /\ step = "createDevice" /\ k = call[h].code
    OBVIOUS
  <1>2. Write(h, step, c) /\ Head(s) = step /\ pc[h] # <<>> /\ turn \in {None, h}
    BY <1>1 DEF createDevice, Write, At, GoOn, Run
  <1>3. /\ s \in Seq(Step) /\ s # <<>> /\ Store /\ Needs(s, c)
        /\ failures = 0 => Assigned(s, c)
    BY <1>1, <1>2, NamesHold
  <1>4. k \in Code /\ codes[k] # None
    <2>1. HasCode(s)
      BY <1>1, <1>2, <1>3, LacksTail DEF HasCode
    <2>2. QED
      BY <1>1, <1>2, <1>3, <2>1 DEF Needs, FamiliesInv, CodeKnown
  <1>5. PICK x, f : x = codes[k].child /\ f = codes[k].family
    OBVIOUS
  <1>6. x \in Child /\ (children[x] # None => x \in ChildrenOf(f))
    <2>1. codes[k] \in CodeRow
      BY <1>4 DEF FamiliesInv, TablesOK
    <2>2. x \in Child /\ Mine(x, f)
      BY <1>3, <1>4, <1>5, <2>1 DEF CodeRow, Store, CodesNameTheirs
    <2>3. QED
      BY <2>2 DEF Mine, ChildrenOf
  <1>7. PICK d \in Device : /\ devices' = [devices EXCEPT ![d] = [family |-> f, child |-> x]]
                            /\ late' = IF children[x] = None THEN late \cup {d} ELSE late
    BY <1>1, <1>5 DEF createDevice
  <1>8. PICK row : row = [family |-> f, child |-> x]
    OBVIOUS
  <1>9. /\ devices'[d] = row /\ row.child = x /\ row.family = f
        /\ \A y \in Device \ {d} : devices'[y] = devices[y]
    BY <1>7, <1>8 DEF FamiliesInv, TablesOK
  <1>10. DevicesHaveChildren'
    <2>1. d \notin late' => x \in ChildrenOf(f)
      BY <1>6, <1>7
    <2>2. late \subseteq late'
      BY <1>7
    <2>3. \A y \in Device \ late' : devices'[y] # None =>
              devices'[y].child \in {z \in Child : /\ children[z] # None
                                                   /\ children[z].family = devices'[y].family}
      BY <1>3, <1>9, <2>1, <2>2 DEF Store, DevicesHaveChildren, ChildrenOf
    <2>4. late' = {} => \A v \in versions : v[2] \in ChildrenOf(v[1])
      BY <1>3, <2>2 DEF Store, DevicesHaveChildren
    <2>5. QED
      BY <1>0, <2>3, <2>4 DEF DevicesHaveChildren, ChildrenOf
  <1>11. Founded' /\ OneRowEach' /\ CodesNameTheirs'
    BY <1>0, <1>3 DEF Store, Founded, OneRowEach, CodesNameTheirs, Mine
  <1>12. failures = 0 => Assigned(Tail(s), c)'
    BY <1>0, <1>1, <1>2, <1>3, AssignedAll DEF AllAssigned, Assigned, ChildrenOf
  <1>13. Left(s, c)'
    BY <1>1, <1>2 DEF Left
  <1>14. Store'
    BY <1>10, <1>11 DEF Store
  <1>15. QED
    BY <1>1, <1>2, <1>12, <1>13, <1>14, WriteNames

LEMMA DropUserNames ==
    ASSUME FamiliesInv, OrderInv, NamesInv, sync, NEW h \in Handler, dropUser(h)
    PROVE  Named
  <1>1. PICK s, c, step : s = pc[h] /\ c = call[h] /\ step = "dropUser"
    OBVIOUS
  <1>2. Write(h, step, c) /\ Head(s) = step
    BY <1>1 DEF dropUser, Write, At, GoOn, Run
  <1>3. Fewer
    BY DEF dropUser, history, Fewer
  <1>4. Left(s, c)'
    BY <1>1, <1>2 DEF Left
  <1>5. QED
    BY <1>1, <1>2, <1>3, <1>4, DropNames

\* Whoever is cut off leaves what it was about to do; guardians may keep the child.
LEMMA FailNames ==
    ASSUME FamiliesInv, SyncInv, NamesInv, sync, NEW h \in Handler, Fail(h)
    PROVE  Named
  <1>1. /\ UNCHANGED <<tables, history>> /\ Ran(h, <<>>, NoCall) /\ turn \in {None, h}
        /\ failures' = failures + 1
    BY BreakRan DEF Fail, Break, FamiliesInv, Loop
  <1>2. ASSUME NEW g \in Handler, g # h, pc[g] # <<>> PROVE HasNames(g)'
    <2>1. PICK s, c : s = pc[g] /\ c = call[g] /\ s = pc'[g] /\ c = call'[g]
      BY <1>1, <1>2 DEF Ran
    <2>2. s \in Seq(Step) /\ s # <<>> /\ Head(s) \in Waits
      BY <1>1, <1>2, <2>1, HasCall, OthersWait
    <2>3. Head(s) = "wait"
      BY <2>2, WaitIsStep
    <2>4. Names(s, c)'
      BY <2>3 DEF Names
    <2>5. QED
      BY <2>1, <2>4 DEF HasNames, Names
  <1>3. \A g \in Handler : HasNames(g)'
    BY <1>1, <1>2 DEF Ran, HasNames
  <1>t. failures' # 0
    BY <1>1 DEF SyncInv
  <1>4. Guardians'
    BY <1>t DEF Guardians
  <1>5. Store'
    BY <1>1, ReadFewer, FewerStore DEF NamesInv
  <1>6. QED
    BY <1>3, <1>4, <1>5 DEF Named

LEMMA AsksNames ==
    ASSUME FamiliesInv, NamesInv, sync, NEW h \in Handler, ParentAsks(h) \/ DeviceAsks(h)
    PROVE  Named
  <1>1. PICK op \in Request : \E c : Start(h, Program[op], c) /\ UNCHANGED <<tables, history>>
    BY SomethingAsked
  <1>2. PICK c : Start(h, Program[op], c) /\ UNCHANGED <<tables, history>>
    BY <1>1
  <1>3. PICK s : s = Program[op]
    OBVIOUS
  <1>4. Run(h, s, c) /\ turn = None /\ Fewer
    BY <1>2, <1>3, ReadFewer DEF Start, Run
  <1>5. Head(s) = "wait"
    BY <1>3, ProgramStarts
  <1>6. Names(s, c)'
    BY <1>5 DEF Names
  <1>7. failures = 0 => Assigned(s, c)'
    BY <1>4, FewerAssigned DEF NamesInv, Guardians, AllAssigned, Assigned
  <1>8. Store'
    BY <1>4, FewerStore DEF NamesInv
  <1>9. QED
    BY <1>4, <1>6, <1>7, <1>8, RunNames, RunGuardians DEF Named

LEMMA NamesStep ==
    FamiliesInv /\ SyncInv /\ OrderInv /\ OwnersInv /\ NamesInv /\ [Next]_vars => NamesInv'
  <1> SUFFICES ASSUME FamiliesInv, SyncInv, OrderInv, OwnersInv, NamesInv, [Next]_vars
               PROVE  NamesInv'
    OBVIOUS
  <1>1. sync' = sync
    BY StepControl
  <1>2. ASSUME sync PROVE Named
    <2>1. CASE \E h \in Handler : HandlerStep(h)
      BY <1>2, <2>1, ReadFamilyNames, ReadChildNames, ReadDeviceNames, LeaveNames, EraseNames,
         UpdateFamiliesNames, UpdateMembersNames, UnassignNames, UpdateChildrenNames,
         UpdateVersionsNames, UpdateCodesNames, UpdateDevicesNames, CreateDeviceNames,
         DropUserNames, FailNames DEF HandlerStep
    <2>2. CASE \E h \in Handler : ParentAsks(h) \/ DeviceAsks(h)
      BY <1>2, <2>2, AsksNames
    <2>3. ASSUME NEW k \in Code, Expire(k) PROVE Named
      <3>1. UNCHANGED <<families, members, children, versions, devices, gone, late, control>>
        BY <2>3 DEF Expire, history
      <3>2. PICK ids : ids = {k}
        OBVIOUS
      <3>3. codes' = Dead(codes, ids) /\ \A i \in Code \cap ids : codes[i] # None
        BY <2>3, <3>2 DEF Expire, Live
      <3>4. Fewer
        BY <3>1, <3>3, DeadNames DEF Fewer
      <3>5. Guardians'
        BY <1>2, <3>1 DEF NamesInv, Guardians, AllAssigned, Assigned, Unassigns, ChildrenOf, control
      <3>6. \A g \in Handler : HasNames(g)'
        BY <1>2, <3>1 DEF NamesInv, HasNames, Names, MembersOf, RowOf, RowsOf, ChildrenOf,
           DevicesOf, control
      <3>7. QED
        BY <1>2, <3>4, <3>5, <3>6, FewerStore DEF NamesInv, Named
    <2>4. CASE UNCHANGED vars
      <3>1. UNCHANGED <<tables, history, control>>
        BY <2>4 DEF vars
      <3>2. Guardians'
        BY <1>2, <3>1 DEF NamesInv, Guardians, AllAssigned, Assigned, Unassigns, ChildrenOf,
           control, tables
      <3>3. \A g \in Handler : HasNames(g)'
        BY <1>2, <3>1 DEF NamesInv, HasNames, Names, MembersOf, RowOf, RowsOf, ChildrenOf,
           DevicesOf, control, tables, history
      <3>4. QED
        BY <1>2, <3>1, <3>2, <3>3, ReadFewer, FewerStore DEF NamesInv, Named
    <2>5. QED
      BY <2>1, <2>2, <2>3, <2>4 DEF Next
  <1>3. QED
    BY <1>1, <1>2 DEF Named, NamesInv

LEMMA NamesInit == Init => NamesInv
  <1> SUFFICES ASSUME Init PROVE NamesInv
    OBVIOUS
  <1>1. /\ mix \in Mixes /\ members = mix.members /\ children = mix.children
        /\ devices = mix.devices /\ gone = {} /\ late = {}
        /\ families = {members[m].family : m \in {x \in Member : members[x] # None}}
        /\ versions = {v \in Family \X Child : v[2] \in ChildrenOf(v[1])}
        /\ codes = [k \in Code |-> None]
    BY DEF Init, HandlersInit
  <1>2. (\A h \in Handler : pc[h] = <<>>) /\ turn = None
    BY DEF Init, HandlersInit
  <1>3. Founded
    BY <1>1 DEF Founded
  <1>4. OneRowEach
    BY <1>1, StartAssumption DEF OneRowEach
  <1>5. CodesNameTheirs
    BY <1>1 DEF CodesNameTheirs
  <1>6. DevicesHaveChildren
    <2>1. ASSUME NEW d \in Device, devices[d] # None
          PROVE  devices[d].child \in ChildrenOf(devices[d].family)
      <3>1. devices[d] \in DeviceRow
        BY <1>1, <2>1, FamiliesAssumption
      <3>2. QED
        BY <1>1, <2>1, <3>1, StartAssumption DEF ChildrenOf, DeviceRow
    <2>2. QED
      BY <1>1, <2>1 DEF DevicesHaveChildren
  <1>7. AllAssigned
    <2>1. ASSUME NEW m \in Member, members[m] # None, NEW k \in members[m].assigned
          PROVE  k \in ChildrenOf(members[m].family)
      <3>1. members[m] \in MemberRow
        BY <1>1, <2>1, FamiliesAssumption
      <3>2. k \in Child
        BY <2>1, <3>1 DEF MemberRow
      <3>3. QED
        BY <1>1, <2>1, <3>2, StartAssumption DEF ChildrenOf
    <2>2. QED
      BY <2>1 DEF AllAssigned
  <1>8. Guardians
    BY <1>2, <1>7, HandlersAssumption DEF Guardians
  <1>9. QED
    BY <1>2, <1>3, <1>4, <1>5, <1>6, <1>8 DEF NamesInv, Store, HasNames

\* On a synchronous store the names hold of whoever has the turn and of the tables.
THEOREM NamesInvariant == Spec => []NamesInv
  <1>1. QED
    BY NamesInit, NamesStep, FamiliesInvariant, SyncInvariant, OrderInvariant, OwnersInvariant,
       PTL DEF Spec

\* On a synchronous store, between requests and while no call has failed, guardians are
\* assigned to children of their family and belong to it once, and devices and versions
\* belong to children there are, but for a device enrolled with a code that was older.
THEOREM NothingDangles == Spec => []NothingNamesTheGone
  <1>1. NamesInv => NothingNamesTheGone
    <2>1. SUFFICES ASSUME NamesInv, Settled PROVE AssignmentsNameChildren /\ DevicesHaveChildren
      BY DEF NothingNamesTheGone
    <2>2. AllAssigned /\ Store
      BY <2>1 DEF NamesInv, Settled, Guardians
    <2>3. ASSUME NEW m \in Member, members[m] # None
          PROVE  RowOf(members[m].family, members[m].user) = {m}
      BY <2>2, <2>3 DEF Store, OneRowEach, RowOf, MembersOf, RowsOf
    <2>4. QED
      BY <2>2, <2>3 DEF Store, AllAssigned, AssignmentsNameChildren
  <1>2. QED
    BY <1>1, NamesInvariant, PTL
===============================================================================
