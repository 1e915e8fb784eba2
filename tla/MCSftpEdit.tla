------------------------------ MODULE MCSftpEdit ------------------------------
(* Small instances of SftpEdit. *)
EXTENDS SftpEdit

\* An empty file and texts of one size, the first change of somebody else among
\* them; any further change has a size of its own.
MCSize == [t \in Text |-> IF t = 0 THEN 0 ELSE IF t <= Saves + 1 THEN 1 ELSE t]

\* Every text has a size of its own.
MCDistinct == [t \in Text |-> t]

=============================================================================
