--------------------------------- MODULE Asks ---------------------------------
(***************************************************************************)
(* What the approval flow promises a family, apart from how it keeps it:   *)
(* an ask is filed once and has one open row; an answer takes effect before *)
(* it is announced, and says what was last put into effect; an ask that is *)
(* answered or has aged out stays that way and gets no further rule.       *)
(*                                                                         *)
(* effect[r] lists the actions of the rules made for row r, in order.  It  *)
(* grows by more than one only where an attempt to answer failed half way. *)
(***************************************************************************)
EXTENDS Naturals, Sequences

CONSTANTS Row,      \* requests
          Ask,      \* what can be asked: a device and a target
          NoAsk     \* the ask of a row that was never filed

VARIABLES ask,      \* row |-> what it asks for
          status,   \* row |-> where it stands
          effect    \* row |-> the actions of the rules made for it

asksVars == <<ask, status, effect>>

AskAction == {"ALLOW", "BLOCK"}

\* The status that announces an action.
Announces(action) == IF action = "ALLOW" THEN "APPROVED" ELSE "DENIED"

Open(r) == ask[r] # NoAsk /\ status[r] = "PENDING"

AsksInit ==
    /\ ask = [r \in Row |-> NoAsk]
    /\ status = [r \in Row |-> "PENDING"]
    /\ effect = [r \in Row |-> <<>>]

\* A child asks, and nothing it asked before is still waiting with this ask.
File(r, a) ==
    /\ ask[r] = NoAsk
    /\ \A q \in Row : Open(q) => ask[q] # a
    /\ ask' = [ask EXCEPT ![r] = a]
    /\ UNCHANGED <<status, effect>>

\* A parent's answer takes effect ...
TakeEffect(r, action) ==
    /\ Open(r)
    /\ effect' = [effect EXCEPT ![r] = Append(@, action)]
    /\ UNCHANGED <<ask, status>>

\* ... and is announced.
Announce(r) ==
    /\ Open(r) /\ effect[r] # <<>>
    /\ status' = [status EXCEPT ![r] = Announces(effect[r][Len(effect[r])])]
    /\ UNCHANGED <<ask, effect>>

\* Nobody answered for three days.
AgeOut(r) ==
    /\ Open(r)
    /\ status' = [status EXCEPT ![r] = "EXPIRED"]
    /\ UNCHANGED <<ask, effect>>

AsksNext ==
    \E r \in Row : \/ \E a \in Ask : File(r, a)
                   \/ \E action \in AskAction : TakeEffect(r, action)
                   \/ Announce(r) \/ AgeOut(r)

AsksSpec == AsksInit /\ [][AsksNext]_asksVars

===============================================================================
