--------------------------- MODULE MCTerminalPanel ---------------------------
(* A small instance of TerminalPanel. *)
EXTENDS TerminalPanel

MCGen == 0..MaxGen

=============================================================================
