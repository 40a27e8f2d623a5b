------------------------------- MODULE Handlers -------------------------------
(***************************************************************************)
(* Request handlers that share one event loop and one store.               *)
(*                                                                         *)
(* A handler runs a program, a sequence of steps: one per repository call, *)
(* and one per real wait (a body, a digest, a password or a signature to   *)
(* verify).  With a synchronous store a handler keeps the event loop from  *)
(* one wait to the next; with D1 handlers interleave at every step.  A     *)
(* step whose check fails ends the program, as a throw does.               *)
(***************************************************************************)
EXTENDS Naturals, Sequences, FiniteSets

CONSTANTS
    Handler,
    None,
    Builds,         \* subset of BOOLEAN: TRUE is a synchronous store, FALSE D1
    Mixes           \* the requests explored together, and how many calls may fail

ASSUME HandlersAssumption ==
    /\ None \notin Handler
    /\ Builds \subseteq BOOLEAN
    /\ \A m \in Mixes : m.failures \in Nat

VARIABLES
    pc,             \* handler |-> the steps it still has to take
    call,           \* handler |-> its variables
    turn,           \* the handler inside a synchronous turn of the loop
    sync, mix,      \* the build, and the requests explored: fixed at the start
    failures        \* calls that failed

control == <<pc, call, turn, sync, mix, failures>>

NoCall == [op |-> "none"]

Waits == {"wait", "verifyPassword", "verifyAssertion", "verifyAttestation"}

At(h, step) == /\ pc[h] # <<>> /\ Head(pc[h]) = step
               /\ turn \in {None, h}

\* h goes on with the steps "rest" and the variables c; a synchronous store lets
\* it keep the loop unless it waits next.
Run(h, rest, c) ==
    /\ pc' = [pc EXCEPT ![h] = rest]
    /\ call' = [call EXCEPT ![h] = IF rest = <<>> THEN NoCall ELSE c]
    /\ turn' = IF sync /\ rest # <<>> /\ Head(rest) \notin Waits THEN h ELSE None
    /\ UNCHANGED <<sync, mix, failures>>

Start(h, program, c) == turn = None /\ pc[h] = <<>> /\ Run(h, program, c)

GoOn(h, c)      == Run(h, Tail(pc[h]), c)
Check(h, ok, c) == IF ok THEN GoOn(h, c) ELSE Run(h, <<>>, NoCall)

\* A call throws, or the process dies under the handler.
Break(h) ==
    /\ pc[h] # <<>> /\ turn \in {None, h}
    /\ failures < mix.failures
    /\ failures' = failures + 1
    /\ pc' = [pc EXCEPT ![h] = <<>>]
    /\ call' = [call EXCEPT ![h] = NoCall]
    /\ turn' = None
    /\ UNCHANGED <<sync, mix>>

HandlersInit ==
    /\ sync \in Builds /\ mix \in Mixes
    /\ pc = [h \in Handler |-> <<>>]
    /\ call = [h \in Handler |-> NoCall]
    /\ turn = None
    /\ failures = 0

\* A synchronous turn belongs to a handler that has steps to take.
TurnOK == /\ turn \in Handler \cup {None}
          /\ turn # None => sync /\ pc[turn] # <<>>

-----------------------------------------------------------------------------
(* Tables: id |-> row or None. *)

\* uid() and the like: which new id it is makes no difference.
HasFresh(table) == \E i \in DOMAIN table : table[i] = None
Fresh(table)    == CHOOSE i \in DOMAIN table : table[i] = None

\* Rows that were used, invalidated, erased or have expired are dead: every
\* reader treats these alike.
Live(table, id) == table[id] # None /\ table[id].live
Dead(table, ids) == [i \in DOMAIN table |-> IF i \in ids
                                            THEN [table[i] EXCEPT !.live = FALSE]
                                            ELSE table[i]]
===============================================================================
