------------------------------- MODULE Families -------------------------------
(***************************************************************************)
(* FamilyService, EnrollmentService and DeviceService with the routes that *)
(* call them: families, who belongs to them, their children, the codes     *)
(* that enrol a device and the devices.  Every request runs its program on *)
(* Handlers.  The tables are SqlStore's; the sessions of a user are those  *)
(* of Accounts, the policy of a child PolicyServer's.                      *)
(***************************************************************************)
EXTENDS Handlers

CONSTANTS User, Family, Member, Child, Code, Device      \* ids

Role == {"OWNER", "PARENT", "LIMITED_GUARDIAN"}

MemberRow == [family : Family, user : User, role : Role, assigned : SUBSET Child]
ChildRow  == [family : Family, moved : BOOLEAN]      \* moved: the new time zone
CodeRow   == [family : Family, child : Child, live : BOOLEAN]
DeviceRow == [family : Family, child : Child]

Request == {"createFamily", "addParent", "addChild", "setTimezone", "removeChild",
            "enroll", "redeem", "heartbeat", "removeDevice", "deleteAccount"}

\* A mix says which requests meet, from whom, how many are made and how many calls
\* fail, and what is there before.
ASSUME FamiliesAssumption ==
    /\ None \notin User \cup Family \cup Member \cup Child \cup Code \cup Device
    /\ None \notin MemberRow \cup ChildRow \cup CodeRow \cup DeviceRow
    /\ Child \cap (Device \cup Member) = {}
    /\ \A m \in Mixes :
        /\ m.requests \subseteq Request /\ m.actors \subseteq User /\ m.limit \in Nat
        /\ m.members \in [Member -> MemberRow \cup {None}]
        /\ m.children \in [Child -> ChildRow \cup {None}]
        /\ m.devices \in [Device -> DeviceRow \cup {None}]

\* And what is there before is what requests leave: a family has an owner, nobody
\* belongs to one twice, guardians and devices have children of their family.
ASSUME StartAssumption == \A m \in Mixes :
    LET rows == {x \in Member : m.members[x] # None}
        Owned(f) == \E o \in rows : m.members[o].family = f /\ m.members[o].role = "OWNER"
        IsChild(k, f) == m.children[k] # None /\ m.children[k].family = f
    IN
    /\ \A x \in rows : /\ Owned(m.members[x].family)
                       /\ \A k \in m.members[x].assigned : IsChild(k, m.members[x].family)
                       /\ \A y \in rows \ {x} : \/ m.members[y].family # m.members[x].family
                                               \/ m.members[y].user # m.members[x].user
    /\ \A k \in Child : m.children[k] # None => Owned(m.children[k].family)
    /\ \A d \in Device : m.devices[d] # None => IsChild(m.devices[d].child, m.devices[d].family)

VARIABLES
    users,          \* the accounts there are
    families,       \* the families there are
    members,        \* id |-> row or None
    children,       \* id |-> row or None
    versions,       \* the rows of policy_versions: of which family and child
    codes,          \* id |-> row or None
    devices,        \* id |-> row or None
    \* Auxiliary: no action decides by them.
    enrolled,       \* code |-> devices it enrolled
    gone,           \* devices and children that were erased
    ghosts,         \* families founded by an account that was being deleted
    late,           \* devices enrolled for a child that was erased
    asked           \* how many requests were made

tables  == <<users, families, members, children, versions, codes, devices>>
history == <<enrolled, gone, ghosts, late>>
vars    == <<tables, history, control, asked>>

MembersOf(f) == {m \in Member : members[m] # None /\ members[m].family = f}
RowsOf(u)    == {m \in Member : members[m] # None /\ members[m].user = u}
RowOf(f, u)  == MembersOf(f) \cap RowsOf(u)
ChildrenOf(f) == {c \in Child : children[c] # None /\ children[c].family = f}
DevicesIn(f)  == {d \in Device : devices[d] # None /\ devices[d].family = f}
DevicesOf(c)  == {d \in Device : devices[d] # None /\ devices[d].child = c}
Owners(f) == {members[m].user : m \in {x \in MembersOf(f) : members[x].role = "OWNER"}}

\* getMembership, canManagePolicy, canManageParents.
HasRole(f, u, roles) == \E m \in RowOf(f, u) : members[m].role \in roles

-----------------------------------------------------------------------------
(* The programs, named for the functions they translate. *)

\* The token, the account; the body of a POST or PUT comes after them.
requireUser == <<"wait", "isUser">>
withBody    == requireUser \o <<"wait">>

createFamily == withBody \o <<"createFamily", "addOwner">>

addParent == withBody \o <<"mayManageParents", "findPerson", "notMember",
                           "findAssigned", "addMember">>

addChild == withBody \o <<"mayManagePolicy", "createChild", "bump">>

setChildTimezone == withBody \o <<"mayManagePolicy", "findChild", "insertChild">>

\* Mutant: the assignments of guardians are left alone.
childCascadeOnly == <<"listDevices", "dropDevices", "dropVersions", "dropChild">>

deleteChildCascade == <<"listDevices", "dropDevices", "dropVersions", "dropChild",
                        "listAssigned", "unassign">>

removeChild == requireUser \o <<"mayManagePolicy", "findChild">> \o deleteChildCascade

createToken == withBody \o <<"mayManagePolicy", "findChild", "createCode">>

\* Mutant: the token is issued before the code is marked.
redeemThenMark == <<"wait", "readCode", "createDevice", "wait", "markCode">>

redeem == <<"wait", "readCode", "createDevice", "markCode">>

\* Mutant: the row that requireDevice read is the one written back.
heartbeatOfCaller == <<"wait", "readDevice", "wait", "writeDevice">>

\* requireDevice, the snapshot to sign, and then the device as it is by now.
heartbeat == <<"wait", "readDevice", "wait", "readDevice", "writeDevice">>

\* Mutant: the child is taken from a device nobody looked up.
removeUnread == requireUser \o <<"mayManagePolicy", "dropDevice", "bump">>

remove == requireUser \o <<"mayManagePolicy", "findDevice", "dropDevice", "bump">>

\* Mutant: the families go before their children.
familyFirst == <<"sweepMembers", "listChildren", "eraseChildren", "sweepDevices",
                 "sweepCodes", "sweepVersions", "dropFamily">>

deleteFamilyCascade == <<"listChildren", "eraseChildren", "sweepDevices", "sweepCodes",
                         "sweepMembers", "sweepVersions", "dropFamily">>

deleteAccount == withBody \o <<"isUser", "wait", "listOwned", "leaveFamilies",
                               "dropMemberships", "dropUser">>

Program == [
    createFamily |-> createFamily, addParent |-> addParent, addChild |-> addChild,
    setTimezone |-> setChildTimezone, removeChild |-> removeChild,
    enroll |-> createToken, redeem |-> redeem, heartbeat |-> heartbeat,
    removeDevice |-> remove, deleteAccount |-> deleteAccount]

-----------------------------------------------------------------------------
(* Requests: the path and the body name any family, child, device or code. *)

\* Who asks, what the request names, and the rows read.
Blank == [op |-> "none", user |-> None, family |-> None, child |-> None,
          device |-> None, code |-> None, person |-> None, role |-> None,
          assigned |-> {}, row |-> None, listed |-> {}, rest |-> {}, owned |-> {}]

Accept(h, op, c) == /\ op \in mix.requests /\ asked < mix.limit
                    /\ asked' = asked + 1
                    /\ Start(h, Program[op], [c EXCEPT !.op = op])
                    /\ UNCHANGED <<tables, history>>

AboutFamily(h, c) ==
    \/ \E p \in User, r \in Role, S \in SUBSET Child :
            /\ Cardinality(S) <= 1
            /\ r # "LIMITED_GUARDIAN" => S = {}
            /\ Accept(h, "addParent", [c EXCEPT !.person = p, !.role = r, !.assigned = S])
    \/ Accept(h, "addChild", c)
    \/ \E op \in {"setTimezone", "removeChild", "enroll"}, k \in Child :
            children[k] # None /\ Accept(h, op, [c EXCEPT !.child = k])
    \/ \E d \in Device :
            devices[d] # None /\ Accept(h, "removeDevice", [c EXCEPT !.device = d])

ParentAsks(h) ==
    \E u \in users \cap mix.actors :
        \/ \E op \in {"createFamily", "deleteAccount"} : Accept(h, op, [Blank EXCEPT !.user = u])
        \/ \E f \in families : AboutFamily(h, [Blank EXCEPT !.user = u, !.family = f])

DeviceAsks(h) ==
    \/ \E k \in Code :
        codes[k] # None /\ Accept(h, "redeem", [Blank EXCEPT !.code = k])
    \/ \E d \in Device :
        devices[d] # None /\ Accept(h, "heartbeat", [Blank EXCEPT !.device = d])

-----------------------------------------------------------------------------
(* Steps that read and check. *)

Read(h, step, ok, c) == At(h, step) /\ Check(h, ok, c) /\ UNCHANGED <<tables, history>>

ReadFamily(h) ==
    LET c == call[h] IN
    \/ Read(h, "wait", TRUE, c)
    \/ Read(h, "isUser", c.user \in users, c)
    \/ Read(h, "mayManageParents", HasRole(c.family, c.user, {"OWNER"}), c)
    \/ Read(h, "mayManagePolicy", HasRole(c.family, c.user, {"OWNER", "PARENT"}), c)
    \/ Read(h, "findPerson", c.person \in users, c)
    \/ Read(h, "notMember", RowOf(c.family, c.person) = {}, c)
    \/ Read(h, "findAssigned", c.assigned \subseteq ChildrenOf(c.family), c)

ReadChild(h) ==
    LET c == call[h] IN
    \/ Read(h, "findChild", c.child \in ChildrenOf(c.family),
            [c EXCEPT !.row = children[c.child]])
    \/ Read(h, "listDevices", TRUE, [c EXCEPT !.listed =
            DevicesOf(c.child) \cap DevicesIn(c.family)])
    \/ Read(h, "listAssigned", TRUE, [c EXCEPT !.listed =
            {m \in MembersOf(c.family) : c.child \in members[m].assigned}])
    \/ Read(h, "listChildren", TRUE, [c EXCEPT !.rest = ChildrenOf(c.family)])

ReadDevice(h) ==
    LET c == call[h] IN
    \/ Read(h, "findDevice", devices[c.device] # None /\ devices[c.device].family = c.family,
            [c EXCEPT !.child = devices[c.device].child])
    \/ Read(h, "readDevice", devices[c.device] # None, [c EXCEPT !.row = devices[c.device]])
    \/ Read(h, "readCode", codes[c.code].live, c)

\* deleteAccount: family by family, then the account.
leaveFamilies(h) ==
    LET c == call[h]
        owned == {members[m].family : m \in {x \in RowsOf(c.user) : members[x].role = "OWNER"}}
    IN
    /\ \/ At(h, "listOwned") /\ GoOn(h, [c EXCEPT !.owned = owned])
       \/ /\ At(h, "leaveFamilies") /\ c.owned = {}
          /\ GoOn(h, c)
       \/ /\ At(h, "leaveFamilies")
          /\ \E f \in c.owned :
                Run(h, (IF Owners(f) \ {c.user} # {} THEN <<>> ELSE deleteFamilyCascade)
                       \o pc[h],
                    [c EXCEPT !.family = f, !.owned = @ \ {f}])
    /\ UNCHANGED <<tables, history>>

\* deleteFamilyCascade: child by child.
eraseChildren(h) ==
    LET c == call[h] IN
    /\ At(h, "eraseChildren")
    /\ \/ c.rest = {} /\ GoOn(h, c)
       \/ \E k \in c.rest :
            Run(h, deleteChildCascade \o pc[h], [c EXCEPT !.child = k, !.rest = @ \ {k}])
    /\ UNCHANGED <<tables, history>>

-----------------------------------------------------------------------------
(* Steps that write. *)

Write(h, step, c) == At(h, step) /\ GoOn(h, c)

UpdateFamilies(h) ==
    LET c == call[h]
        f == CHOOSE x \in Family : x \notin families IN
    /\ \/ /\ families # Family
          /\ Write(h, "createFamily", [c EXCEPT !.family = f])
          /\ families' = families \cup {f}
          /\ ghosts' = IF c.user \in users THEN ghosts ELSE ghosts \cup {f}
       \/ /\ Write(h, "dropFamily", c)
          /\ families' = families \ {c.family}
          /\ UNCHANGED ghosts
    /\ UNCHANGED <<users, members, children, versions, codes, devices, enrolled, gone, late>>

Without(table, ids) == [i \in DOMAIN table |-> IF i \in ids THEN None ELSE table[i]]

UpdateMembers(h) ==
    LET c == call[h]
        Add(step, u, role, assigned) ==
            /\ HasFresh(members)
            /\ Write(h, step, c)
            /\ members' = [members EXCEPT ![Fresh(members)] =
                   [family |-> c.family, user |-> u, role |-> role, assigned |-> assigned]]
    IN
    /\ \/ Add("addOwner", c.user, "OWNER", {})
       \/ Add("addMember", c.person, c.role, c.assigned)
       \/ Write(h, "sweepMembers", c) /\ members' = Without(members, MembersOf(c.family))
       \/ Write(h, "dropMemberships", c) /\ members' = Without(members, RowsOf(c.user))
    /\ UNCHANGED <<users, families, children, versions, codes, devices, history>>

\* The guardians that were listed lose the child one by one.
unassign(h) ==
    LET c == call[h] IN
    /\ At(h, "unassign")
    /\ \/ c.listed = {} /\ GoOn(h, c) /\ UNCHANGED members
       \/ \E m \in c.listed :
            /\ Run(h, pc[h], [c EXCEPT !.listed = @ \ {m}])
            /\ members' = IF members[m] = None THEN members
                          ELSE [members EXCEPT ![m].assigned = @ \ {c.child}]
    /\ UNCHANGED <<users, families, children, versions, codes, devices, history>>

\* setChildTimezone INSERTs a row that is there: the primary key makes it throw.
UpdateChildren(h) ==
    LET c == call[h]
        k == CHOOSE x \in Child \ gone : children[x] = None
        there == children[c.child] # None IN
    /\ \/ /\ \E x \in Child \ gone : children[x] = None
          /\ Write(h, "createChild", [c EXCEPT !.child = k])
          /\ children' = [children EXCEPT ![k] = [family |-> c.family, moved |-> FALSE]]
          /\ UNCHANGED gone
       \/ /\ At(h, "insertChild")
          /\ Check(h, ~there, c)
          /\ children' = IF there THEN children
                         ELSE [children EXCEPT ![c.child] = [c.row EXCEPT !.moved = TRUE]]
          /\ UNCHANGED gone
       \/ /\ Write(h, "dropChild", c)
          /\ children' = IF c.child \in ChildrenOf(c.family)
                         THEN Without(children, {c.child}) ELSE children
          /\ gone' = gone \cup {c.child}
    /\ UNCHANGED <<users, families, members, versions, codes, devices, enrolled, ghosts, late>>

UpdateVersions(h) ==
    LET c == call[h] IN
    /\ \/ Write(h, "bump", c) /\ versions' = versions \cup {<<c.family, c.child>>}
       \/ Write(h, "dropVersions", c) /\ versions' = versions \ {<<c.family, c.child>>}
       \/ Write(h, "sweepVersions", c) /\ versions' = versions \ ({c.family} \X Child)
    /\ UNCHANGED <<users, families, members, children, codes, devices, history>>

UpdateCodes(h) ==
    LET c == call[h] IN
    /\ \/ /\ HasFresh(codes)
          /\ Write(h, "createCode", c)
          /\ codes' = [codes EXCEPT ![Fresh(codes)] =
                          [family |-> c.family, child |-> c.child, live |-> TRUE]]
       \/ Write(h, "markCode", c) /\ codes' = Dead(codes, {c.code})
       \/ /\ Write(h, "sweepCodes", c)
          /\ codes' = Dead(codes, {k \in Code : codes[k] # None /\ codes[k].family = c.family})
    /\ UNCHANGED <<users, families, members, children, versions, devices, history>>

UpdateDevices(h) ==
    LET c == call[h]
        Drop(step, ids) == /\ Write(h, step, [c EXCEPT !.listed = {}])
                           /\ devices' = Without(devices, ids)
                           /\ gone' = gone \cup ids IN
    /\ \/ Drop("dropDevice", {c.device})
       \/ /\ At(h, "dropDevices") /\ c.listed # {}      \* one after the other
          /\ \E d \in c.listed :
                /\ Run(h, pc[h], [c EXCEPT !.listed = @ \ {d}])
                /\ devices' = Without(devices, {d})
                /\ gone' = gone \cup {d}
       \/ At(h, "dropDevices") /\ c.listed = {} /\ Drop("dropDevices", {})
       \/ Drop("sweepDevices", DevicesIn(c.family))
       \/ /\ Write(h, "writeDevice", c)                 \* an upsert
          /\ devices' = [devices EXCEPT ![c.device] = c.row]
          /\ UNCHANGED gone
    /\ UNCHANGED <<users, families, members, children, versions, codes, enrolled, ghosts, late>>

createDevice(h) ==
    LET c == call[h]
        new == {x \in Device \ gone : devices[x] = None}
        d == CHOOSE x \in new : TRUE
        code == codes[c.code] IN
    /\ new # {}
    /\ Write(h, "createDevice", c)
    /\ devices' = [devices EXCEPT ![d] = [family |-> code.family, child |-> code.child]]
    /\ enrolled' = [enrolled EXCEPT ![c.code] = @ + 1]
    /\ late' = IF children[code.child] = None THEN late \cup {d} ELSE late
    /\ UNCHANGED <<users, families, members, children, versions, codes, gone, ghosts>>

dropUser(h) ==
    /\ Write(h, "dropUser", call[h])
    /\ users' = users \ {call[h].user}
    /\ UNCHANGED <<families, members, children, versions, codes, devices, history>>

\* A code's fifteen minutes are over.
Expire(k) ==
    /\ Live(codes, k)
    /\ codes' = Dead(codes, {k})
    /\ UNCHANGED <<users, families, members, children, versions, devices, history, control>>

Fail(h) == Break(h) /\ UNCHANGED <<tables, history>>

-----------------------------------------------------------------------------
Init ==
    /\ HandlersInit
    /\ users = User
    /\ members = mix.members /\ children = mix.children /\ devices = mix.devices
    /\ families = {members[m].family : m \in {x \in Member : members[x] # None}}
    /\ versions = {v \in Family \X Child : v[2] \in ChildrenOf(v[1])}
    /\ codes = [k \in Code |-> None]
    /\ enrolled = [k \in Code |-> 0]
    /\ gone = {} /\ ghosts = {} /\ late = {} /\ asked = 0

HandlerStep(h) ==
    \/ ReadFamily(h) \/ ReadChild(h) \/ ReadDevice(h)
    \/ leaveFamilies(h) \/ eraseChildren(h)
    \/ UpdateFamilies(h) \/ UpdateMembers(h) \/ unassign(h) \/ UpdateChildren(h)
    \/ UpdateVersions(h) \/ UpdateCodes(h) \/ UpdateDevices(h)
    \/ createDevice(h) \/ dropUser(h) \/ Fail(h)

Next ==
    \/ \E h \in Handler : ParentAsks(h) \/ DeviceAsks(h)
    \/ /\ \/ \E h \in Handler : HandlerStep(h)
          \/ \E k \in Code : Expire(k)
       /\ UNCHANGED asked

Spec == Init /\ [][Next]_vars

-----------------------------------------------------------------------------
(* Properties. *)

\* Types, and: a session's turn belongs to a handler, an enrolment to a code.
TypeOK ==
    /\ users \subseteq User /\ families \subseteq Family
    /\ members \in [Member -> MemberRow \cup {None}]
    /\ children \in [Child -> ChildRow \cup {None}]
    /\ versions \subseteq Family \X Child
    /\ codes \in [Code -> CodeRow \cup {None}]
    /\ devices \in [Device -> DeviceRow \cup {None}]
    /\ \A k \in Code : enrolled[k] > 0 => codes[k] # None
    /\ TurnOK

\* With a synchronous store, whoever leaves and whatever fails on the way, a
\* family that still has a member, a child or a device has an owner with an
\* account ("a family nobody can administer" is what deleteAccount avoids); the
\* exception is a family founded while its founder's account was deleted.
EveryFamilyHasAnOwner ==
    sync /\ turn = None => \A f \in Family \ ghosts :
        MembersOf(f) # {} \/ ChildrenOf(f) # {} \/ DevicesIn(f) # {} =>
            Owners(f) \cap users # {}

\* With a synchronous store a code enrols one device, and one more at most for
\* every redemption that failed between the device and the mark.
CodeEnrolsOneDevice == sync => \A k \in Code : enrolled[k] <= 1 + failures

\* With a synchronous store an erased device or child does not come back: no
\* late heartbeat or edit writes back the row it read.
ErasedStaysErased ==
    sync => /\ \A d \in Device \cap gone : devices[d] = None
            /\ \A c \in Child \cap gone : children[c] = None

Settled == sync /\ turn = None /\ failures = 0

AssignmentsNameChildren ==
    \A m \in Member : members[m] # None =>
        /\ members[m].assigned \subseteq ChildrenOf(members[m].family)
        /\ RowOf(members[m].family, members[m].user) = {m}

DevicesHaveChildren ==
    /\ \A d \in Device \ late : devices[d] # None => devices[d].child \in ChildrenOf(devices[d].family)
    /\ late = {} => \A v \in versions : v[2] \in ChildrenOf(v[1])

\* Once the work is done nothing names a child that is gone ("no dangling ids"):
\* guardians are assigned to children there are and belong to a family once, and
\* a device, or a version that is kept, belongs to a child of its family, except
\* for a device enrolled with a code older than the erasure.
NothingNamesTheGone == Settled => AssignmentsNameChildren /\ DevicesHaveChildren
===============================================================================
