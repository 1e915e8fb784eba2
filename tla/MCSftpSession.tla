---------------------------- MODULE MCSftpSession ----------------------------
(* Small instances of SftpSession. *)
EXTENDS SftpSession

CONSTANTS dir, dot      \* a directory and '.', which resolves to it

MCPath == {dir, dot}
MCResolve == [p \in MCPath |-> dir]

Command(kind, p, bypass, nav) == [kind |-> kind, path |-> p, bypass |-> bypass, cwd |-> nav]

\* Listings under both names, through the cache or past it, and changes.
ListCommands == {Command("list", dot, FALSE, TRUE), Command("list", dir, FALSE, FALSE),
                 Command("list", dir, TRUE, TRUE),
                 Command("mutate", dir, FALSE, FALSE), Command("upload", dir, FALSE, FALSE)}

\* The three kinds of download, and both kinds of change.
AllCommands == {Command(k, dir, FALSE, FALSE) : k \in Downloads \cup Mutations}

=============================================================================
