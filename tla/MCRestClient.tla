----------------------------- MODULE MCRestClient -----------------------------
(* Instances of RestClient for TLC, and of the paging that it abstracts.    *)
EXTENDS RestClient, TLC

Paging == INSTANCE AssetListing

Servers == [rows : 0..5, style : {"count", "links", "both", "bare"}, width : 1..3,
            shift : {"insert", "remove"}, shifted : SUBSET {2, 3}]
Listable == {s \in Servers : s.shift = "remove" /\ s.rows = 0 => s.shifted = {}}

ASSUME PagingIsRight ==
    \A server \in Listable :
        /\ Paging!OrganisationsAreWhole(server)
        /\ \A size \in 1..3, max \in 1..4 :
              /\ Paging!SteadyListsAreWhole(server, size, max)
              /\ Paging!ListsAreSound(server, size, max)
=============================================================================
