--------------------------- MODULE SerialCommands ---------------------------
(***************************************************************************)
(* What a chain of promises - an SFTP session's (queueTail), a terminal's  *)
(* (enqueueTerminal) - promises its callers about a command, with nothing  *)
(* said about sockets, frames, shells or the server: a call is answered at *)
(* once (refused, or served from the list cache) or accepted, accepted     *)
(* commands settle one at a time in the order in which they were accepted, *)
(* and none is settled twice or forgotten.                                 *)
(***************************************************************************)
EXTENDS Sequences

CONSTANT Op           \* the calls; each is made at most once

VARIABLES todo,       \* accepted and not settled yet, oldest first
          outcome     \* what the caller's promise holds

vars == <<todo, outcome>>

Settled == {"resolved", "rejected"}

Init == /\ todo = <<>>
        /\ outcome = [o \in Op |-> "new"]

Answer(o) == /\ outcome[o] = "new"
             /\ \E r \in Settled : outcome' = [outcome EXCEPT ![o] = r]
             /\ UNCHANGED todo

Accept(o) == /\ outcome[o] = "new"
             /\ outcome' = [outcome EXCEPT ![o] = "accepted"]
             /\ todo' = Append(todo, o)

Finish == /\ todo # <<>>
          /\ \E r \in Settled : outcome' = [outcome EXCEPT ![Head(todo)] = r]
          /\ todo' = Tail(todo)

Next == Finish \/ \E o \in Op : Answer(o) \/ Accept(o)

Spec == Init /\ [][Next]_vars

\* A chain that keeps finishing what it accepted.
FairSpec == Spec /\ WF_vars(Finish)

=============================================================================
