----------------------------- MODULE AssetListing -----------------------------
(***************************************************************************)
(* The paging of JumpServerClient (src/src/jumpserver): listAllAssets, of  *)
(* which RestClient has one request only, and getPaginated.  A listing is  *)
(* a function of what the server answers, so it is written as one and      *)
(* compared with what it should return.                                    *)
(*                                                                         *)
(* A server has the rows 1..rows.  It answers a page with the count, with  *)
(* a link to the next page, with both, or with the bare rows; it may       *)
(* answer fewer rows than it is asked for; and other users may insert a    *)
(* row in front or remove the first one, which only some requests see.     *)
(***************************************************************************)
EXTENDS Integers, Sequences, SequencesExt

Smaller(a, b) == IF a < b THEN a ELSE b
Unknown == -1           \* no count, no next page

\* External: page number k, of at most limit rows from offset on.
Answered(server, k, limit, offset) ==
    LET first == [i \in 1..server.rows |-> i]
        rows == IF k \notin server.shifted THEN first
                ELSE IF server.shift = "insert" THEN <<server.rows + 1>> \o first ELSE Tail(first)
        end == offset + Smaller(limit, server.width)
    IN [records |-> SubSeq(rows, offset + 1, Smaller(end, Len(rows))),
        total   |-> IF server.style \in {"count", "both"} THEN Len(rows) ELSE Unknown,
        next    |-> IF server.style \in {"links", "both"} /\ end < Len(rows) THEN end ELSE Unknown]

\* The walk after a page: an empty page or one that was there before ends it.
Taken(walk, page) ==
    IF page.records = <<>> \/ page.records \in walk.seen THEN [walk EXCEPT !.stop = TRUE]
    ELSE [records |-> walk.records \o page.records, seen |-> walk.seen \cup {page.records},
          next |-> page.next, last |-> Len(page.records), pages |-> walk.pages + 1, stop |-> FALSE]

Started(page) ==
    [records |-> page.records, seen |-> {page.records}, next |-> page.next,
     last |-> Len(page.records), pages |-> 1, stop |-> FALSE]

\* Without a count: the links, one after the other.
FollowLinks(server, first, size, max) ==
    FoldLeft(LAMBDA walk, k :
                 IF walk.stop \/ walk.next = Unknown \/ Len(walk.records) >= max THEN walk
                 ELSE Taken(walk, Answered(server, k, size, walk.next)),
             Started(first), [i \in 1..max |-> i + 1])

\* Without a count and links: until a page is short.
UntilShort(server, first, size, max) ==
    FoldLeft(LAMBDA walk, k :
                 IF walk.stop \/ walk.last # size \/ Len(walk.records) >= max THEN walk
                 ELSE Taken(walk, Answered(server, k, size, (k - 1) * size)),
             Started(first), [i \in 1..max |-> i + 1])

\* With a count: every page up to it, in batches whose answers are taken in order.
ByCount(server, first, size, max) ==
    LET wanted == Smaller(first.total, max)
    IN FoldLeft(LAMBDA walk, k :
                    IF walk.stop \/ (k - 1) * size >= wanted THEN walk
                    ELSE Taken(walk, Answered(server, k, size, (k - 1) * size)),
                Started(first), [i \in 1..max |-> i + 1])

Deduped(records) ==
    FoldLeft(LAMBDA assets, a : IF Contains(assets, a) THEN assets ELSE Append(assets, a),
             <<>>, records)

listAllAssets(server, size, max) ==
    LET first  == Answered(server, 1, size, 0)
        walk   == IF first.total # Unknown THEN ByCount(server, first, size, max)
                  ELSE IF first.next # Unknown THEN FollowLinks(server, first, size, max)
                  ELSE UntilShort(server, first, size, max)
        once   == Deduped(walk.records)
        assets == SubSeq(once, 1, Smaller(Len(once), max))
        total  == IF first.total > Len(assets) THEN first.total ELSE Len(assets)
    IN [assets |-> assets, total |-> total, truncated |-> Len(assets) < total]

Rounds == 2             \* bound on the pages of organisations, in lists of the server
\* The organisations: pages as long as the first, which has the server's length.
getPaginated(server) ==
    LET first == Answered(server, 1, server.width, 0)
        size  == Len(first.records)
        rest  == FoldLeft(LAMBDA walk, k :
                     IF walk.stop \/ (k - 1) * size >= first.total THEN walk
                     ELSE Taken(walk, Answered(server, k, size, (k - 1) * size)),
                     Started(first), [i \in 1..server.rows |-> i + 1])
    IN IF first.next # Unknown
       THEN FollowLinks(server, first, server.width, Rounds * server.rows).records
       ELSE IF size > 0 THEN rest.records ELSE <<>>

-----------------------------------------------------------------------------
(* What the listings should return                                          *)

Rows(n) == [i \in 1..n |-> i]
Steady(server) == server.shifted = {}

\* Of a list that does not change while it is read, and a server that answers
\* as many rows as it is asked for, every asset is listed up to the cap, in
\* order, however the server pages; and the count is not lost.
SteadyListsAreWhole(server, size, max) ==
    (Steady(server) /\ server.width >= size) =>
        LET listed == listAllAssets(server, size, max)
        IN /\ listed.assets = Rows(Smaller(server.rows, max))
           /\ server.style \in {"count", "both"} =>
                                        /\ listed.total = server.rows
                                        /\ listed.truncated <=> server.rows > max

\* Whatever the server does between two pages: no asset is listed twice or
\* invented, the cap holds, and a listing that is not reported as truncated has
\* as many assets as the server has counted.
ListsAreSound(server, size, max) ==
    LET listed == listAllAssets(server, size, max)
    IN /\ \A i, j \in DOMAIN listed.assets : listed.assets[i] = listed.assets[j] => i = j
       /\ Len(listed.assets) <= max
       /\ ToSet(listed.assets) \subseteq 1..(server.rows + 1)
       /\ (server.style \in {"count", "both"} /\ ~listed.truncated) =>
              Len(listed.assets) >= Answered(server, 1, size, 0).total

\* A short page of the server's own making loses no organisation.
OrganisationsAreWhole(server) ==
    (Steady(server) /\ (server.style = "bare" => server.width >= server.rows)) =>
        getPaginated(server) = Rows(server.rows)

\* "True when a safety cap stopped paging before the end": it does not hold of
\* a server that sends no count, see the README.
TruncationIsTold(server, size, max) ==
    (Steady(server) /\ server.width >= size) =>
        (listAllAssets(server, size, max).truncated <=> server.rows > max)

=============================================================================
