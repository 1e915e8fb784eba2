----------------------------- MODULE MCSftpManager -----------------------------
(* Small instances of SftpManager. *)
EXTENDS SftpManager

CONSTANTS t1, t2, o1, o2

=============================================================================
