---------------------------- MODULE MCAgentTools ----------------------------
(* Small instances of AgentTools. The durations keep the order of the code's,  *)
(* and which sums of them exceed the hub's deadline.                           *)
EXTENDS AgentTools

CONSTANTS w1, w2, t1, t2, c1, c2

\* Both terminals in one window: the hub's other window has none.
TogetherHome == [t \in Term |-> w1]

\* Each window has a terminal.
ApartHome == [t \in Term |-> IF t = t1 THEN w1 ELSE w2]

\* One call is for the active terminal, with a timeout above the limit.
NamedByEach == [c \in Call |-> IF c = c1 THEN None ELSE t1]
AskedByEach == [c \in Call |-> IF c = c1 THEN MaxTimeout + 2 ELSE 0]

=============================================================================
