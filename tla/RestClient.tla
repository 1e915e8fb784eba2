------------------------------ MODULE RestClient ------------------------------
(***************************************************************************)
(* The REST half of JumpServerClient (src/src/jumpserver), one client of   *)
(* the pool, shared by every connect, prefetch, refresh and validation of  *)
(* a bastion.  They share a bearer and its login, the cached asset details *)
(* and their fetches under way, the smart endpoint, and the organisation   *)
(* each request is sent in.                                                *)
(*                                                                         *)
(* A call is the list of the requests it has yet to make.  What it does    *)
(* between two awaits that are answered by the network or the user runs    *)
(* in one turn of the event loop: a call whose step is "ready" runs before *)
(* anything else happens (Quiet).                                          *)
(***************************************************************************)
EXTENDS Naturals, Sequences, SequencesExt

CONSTANTS Calls,        \* calls in the life of the client, each made once
          Kinds,        \* the kinds of calls that are made
          Assets,       \* asset ids
          Orgs,         \* organisations a profile may name
          DetailLimit,  \* ASSET_DETAIL_CACHE_LIMIT
          MaxExpiries,  \* bound on how often JumpServer forgets its bearers
          None          \* no bearer, no fetch, no call

ASSUME RestAssumption ==
    /\ Kinds \subseteq {"connect", "reconnect", "prefetch", "endpoint", "validate", "refresh"}
    /\ DetailLimit \in Nat \ {0} /\ MaxExpiries \in Nat
    /\ None \notin Nat /\ None \notin Calls

Global == "global"      \* GLOBAL_ORG_ID
Unset == "unset"        \* an empty org id: no X-JMS-ORG header
AnyOrg == Orgs \cup {Global, Unset}
RetryLimit == 3         \* LISTING_RETRY_LIMIT

VARIABLES bearer,       \* authToken, by when JumpServer issued it
          login,        \* authInflight: its attempt, and when it was started
          orgId,
          details,      \* assetDetails, least recently stored first
          fetching,     \* detailInflight: the call that fetches each asset
          endpoint,     \* is smartEndpoint known?
          call,         \* the state of each call
          expiries      \* how often JumpServer has forgotten its bearers

vars == <<bearer, login, orgId, details, fetching, endpoint, call, expiries>>
Caches == <<details, fetching, endpoint>>

Requests == {"fetch", "token", "lookup", "profile", "global", "unset", "nodes", "page"}
Stages == Requests \cup {"detail", "endpoint", "orgs"}
Settled == {"ok", "failed", "refused"}
NoLogin == [attempt |-> "none", since |-> 0]
NoCall == [kind |-> "prefetch", asset |-> None, org |-> Unset, todo |-> <<>>, step |-> "idle",
           bearer |-> None, good |-> FALSE, second |-> FALSE, tries |-> 1, since |-> 0,
           prev |-> Unset, on |-> None, mixed |-> FALSE]

\* What the extension asks of the client, in order.  A saved organisation is
\* trusted as it is (ensureOrgContext); getSmartEndpointForAsset runs beside the
\* token request of its connect and is a call of its own here.
Connect == <<"detail", "token">>
OrgContext(org) == IF org = Unset THEN <<"orgs">> ELSE <<>>
Validate(org) == <<"profile">> \o OrgContext(org)
Refresh(org) == OrgContext(org) \o <<"nodes", "page">>
Todo(kind, org) ==
    CASE kind \in {"connect", "reconnect"} -> Connect
      [] kind = "prefetch" -> <<"detail">>
      [] kind = "endpoint" -> <<"endpoint">>
      [] kind = "validate" -> Validate(org)
      [] kind = "refresh"  -> Refresh(org)

Init ==
    /\ bearer = None /\ login = NoLogin
    /\ orgId = Unset
    /\ details = <<>> /\ fetching = [a \in Assets |-> None] /\ endpoint = FALSE
    /\ call = [c \in Calls |-> NoCall]
    /\ expiries = 0

Running(c) == call[c].step \notin Settled \cup {"idle"}
Quiet == \A c \in Calls : call[c].step # "ready"
Stage(c) == Head(call[c].todo)
ListsOrgs(c) == Running(c) /\ call[c].todo # <<>> /\ Stage(c) \in {"global", "unset"}

-----------------------------------------------------------------------------
(* Starting calls                                                           *)

AssetOf(kind) == IF kind \in {"connect", "reconnect", "prefetch"} THEN Assets ELSE {None}

\* Call c begins in a client that is then in organisation `now`: it is mixed up with
\* others from the start if that is not its own, or if organisations are listed.
Begun(c, kind, asset, org, now) ==
    [d \in Calls |->
        IF d = c
        THEN [NoCall EXCEPT !.kind = kind, !.asset = asset, !.org = org, !.step = "ready",
                            !.todo = Todo(kind, org),
                            !.mixed = org # now \/ \E e \in Calls : ListsOrgs(e)]
        ELSE [call[d] EXCEPT !.mixed = @ \/ (Running(d) /\ now # orgId)]]

\* Mutant: a client that is reused keeps the organisation it was in.
AcquireAsItIs(c) ==
    /\ Quiet /\ call[c].step = "idle"
    /\ \E kind \in Kinds \cap {"connect", "validate", "refresh"}, org \in Orgs \cup {Unset} :
           \E a \in AssetOf(kind) : call' = Begun(c, kind, a, org, org)
    /\ UNCHANGED <<bearer, login, orgId, Caches, expiries>>

\* createClient: the pool hands out the one client and sets its organisation.
Acquire(c) ==
    /\ Quiet /\ call[c].step = "idle"
    /\ \E kind \in Kinds \cap {"connect", "validate", "refresh"}, org \in Orgs \cup {Unset} :
           /\ orgId' = org
           /\ \E a \in AssetOf(kind) : call' = Begun(c, kind, a, org, org)
    /\ UNCHANGED <<bearer, login, Caches, expiries>>

\* prefetchAssetDetail peeks at the pool, and a connect looks its endpoint up.
Peek(c) ==
    /\ Quiet /\ call[c].step = "idle"
    /\ \E kind \in Kinds \cap {"prefetch", "endpoint"} :
           \E a \in AssetOf(kind) : call' = Begun(c, kind, a, orgId, orgId)
    /\ UNCHANGED <<bearer, login, orgId, Caches, expiries>>

\* TerminalPanel.reconnect: the terminal, opened in some organisation, has kept the
\* client, and connects again in whatever organisation that is in by now.
Reconnect(c) ==
    /\ Quiet /\ call[c].step = "idle" /\ \E d \in Calls : call[d].step # "idle"
    /\ \E kind \in Kinds \cap {"reconnect"}, org \in Orgs \cup {Unset} :
           \E a \in AssetOf(kind) : call' = Begun(c, kind, a, org, orgId)
    /\ UNCHANGED <<bearer, login, orgId, Caches, expiries>>

-----------------------------------------------------------------------------
(* Between two awaits                                                       *)

\* What is left of a call that has returned.
Ended(how) == [NoCall EXCEPT !.step = how]

\* The call r after its current stage.
Advanced(r) ==
    IF Len(r.todo) = 1 THEN Ended("ok")
    ELSE [r EXCEPT !.todo = Tail(r.todo), !.step = "ready", !.bearer = None, !.good = FALSE,
                   !.second = FALSE, !.tries = 1, !.since = 0, !.on = None]

Become(r, stage) == [r EXCEPT !.todo = <<stage>> \o Tail(r.todo), !.step = "ready"]

\* Mutant: only the cache is looked at, not the fetch under way.
GetAssetDetailUnjoined(c) ==
    /\ call[c].step = "ready" /\ Stage(c) = "detail"
    /\ IF Contains(details, call[c].asset)
       THEN call' = [call EXCEPT ![c] = Advanced(@)] /\ UNCHANGED fetching
       ELSE call' = [call EXCEPT ![c] = Become(@, "fetch")]
            /\ fetching' = [fetching EXCEPT ![call[c].asset] = c]
    /\ UNCHANGED <<bearer, login, orgId, details, endpoint, expiries>>

\* getAssetDetail: from the cache, or with the fetch under way, or by a new one.
GetAssetDetail(c) ==
    /\ call[c].step = "ready" /\ Stage(c) = "detail"
    /\ LET a == call[c].asset IN
       \/ /\ Contains(details, a)
          /\ call' = [call EXCEPT ![c] = Advanced(@)]
          /\ UNCHANGED fetching
       \/ /\ ~Contains(details, a) /\ fetching[a] # None
          /\ call' = [call EXCEPT ![c].step = "joined", ![c].on = fetching[a]]
          /\ UNCHANGED fetching
       \/ /\ ~Contains(details, a) /\ fetching[a] = None
          /\ call' = [call EXCEPT ![c] = Become(@, "fetch")]
          /\ fetching' = [fetching EXCEPT ![a] = c]
    /\ UNCHANGED <<bearer, login, orgId, details, endpoint, expiries>>

\* getSmartEndpoint, getSmartEndpointForAsset
GetSmartEndpoint(c) ==
    /\ call[c].step = "ready" /\ Stage(c) = "endpoint"
    /\ call' = [call EXCEPT ![c] = IF endpoint THEN Advanced(@) ELSE Become(@, "lookup")]
    /\ UNCHANGED <<bearer, login, orgId, Caches, expiries>>

\* listAccessibleOrgs moves the client to the global organisation.
ListAccessibleOrgs(c) ==
    /\ call[c].step = "ready" /\ Stage(c) = "orgs"
    /\ orgId' = Global
    /\ call' = [d \in Calls |->
                   IF d = c THEN [Become(call[c], "global") EXCEPT !.prev = orgId]
                   ELSE [call[d] EXCEPT !.mixed = @ \/ Running(d)]]
    /\ UNCHANGED <<bearer, login, Caches, expiries>>

\* ensureAuthToken without a bearer: the login under way, or a new one.
EnsureAuthToken(c) ==
    /\ call[c].step = "ready" /\ Stage(c) \in Requests /\ bearer = None
    /\ call' = [call EXCEPT ![c].step = "login"]
    /\ login' = IF login = NoLogin THEN [attempt |-> "first", since |-> expiries] ELSE login
    /\ UNCHANGED <<bearer, orgId, Caches, expiries>>

\* The request goes out with the bearer and the organisation that the client
\* has at that moment (restHeaders).
Send(c) ==
    /\ call[c].step = "ready" /\ Stage(c) \in Requests /\ bearer # None
    /\ call' = [call EXCEPT ![c].step = "sent", ![c].bearer = bearer,
                            ![c].good = bearer = expiries,
                            ![c].since = IF call[c].second THEN @ ELSE expiries]
    /\ UNCHANGED <<bearer, login, orgId, Caches, expiries>>

Turn(c) ==
    \/ GetAssetDetail(c) \/ GetSmartEndpoint(c) \/ ListAccessibleOrgs(c)
    \/ EnsureAuthToken(c) \/ Send(c)

-----------------------------------------------------------------------------
(* Settling                                                                 *)

JoinedOn(cs) == {d \in Calls : call[d].step = "joined" /\ call[d].on \in cs}
FetchedBy(cs) == {call[c].asset : c \in {d \in cs : Stage(d) = "fetch"}}

\* The "finally" of getAssetDetail drops the entry of the asset, whoever made it.
DropFetches(cs) == [a \in Assets |-> IF a \in FetchedBy(cs) THEN None ELSE fetching[a]]

\* The "finally" of listAccessibleOrgs; of several, the last one counts.
RestoreOrg(cs) ==
    IF \E c \in cs : ListsOrgs(c)
    THEN \E c \in cs : ListsOrgs(c) /\ orgId' = call[c].prev
    ELSE UNCHANGED orgId

\* The calls cs end without an answer, and so do those that joined them.
Fail(cs, how) ==
    /\ call' = [c \in Calls |-> IF c \in cs \cup JoinedOn(cs) THEN Ended(how)
                                ELSE call[c]]
    /\ fetching' = DropFetches(cs)
    /\ RestoreOrg(cs)
    /\ UNCHANGED <<details, endpoint>>

-----------------------------------------------------------------------------
(* loginRestBearer                                                          *)

InLogin == {c \in Calls : call[c].step = "login"}

\* JumpServer may have issued the bearer at any time since it was asked.
LoginGranted ==
    /\ Quiet /\ login # NoLogin
    /\ \E issued \in login.since..expiries : bearer' = issued
    /\ login' = NoLogin
    /\ call' = [c \in Calls |-> IF c \in InLogin THEN [call[c] EXCEPT !.step = "ready"] ELSE call[c]]
    /\ UNCHANGED <<orgId, Caches, expiries>>

\* The first encoding is refused, and the credentials are posted in the other.
TryOtherEncoding ==
    /\ Quiet /\ login.attempt = "first"
    /\ login' = [login EXCEPT !.attempt = "last"]
    /\ UNCHANGED <<bearer, orgId, Caches, call, expiries>>

\* Refused in both encodings, or no answer before the deadline.
LoginFailed ==
    /\ Quiet /\ login # NoLogin
    /\ login' = NoLogin
    /\ Fail(InLogin, "failed")
    /\ UNCHANGED <<bearer, expiries>>

-----------------------------------------------------------------------------
(* Answers                                                                  *)

Others == <<bearer, login, expiries>>

\* Mutant: a full cache is not trimmed.
StoreDetailUnbounded(a) == Append(Remove(details, a), a)

\* cacheAssetDetail
StoreDetail(a) ==
    LET others == IF Contains(details, a)
                  THEN RemoveAt(details, CHOOSE i \in 1..Len(details) : details[i] = a)
                  ELSE details
        stored == Append(others, a)
    IN IF Len(stored) > DetailLimit THEN Tail(stored) ELSE stored

FetchDone(c) ==
    /\ details' = StoreDetail(call[c].asset)
    /\ fetching' = DropFetches({c})
    /\ call' = [d \in Calls |-> IF d \in {c} \cup JoinedOn({c}) THEN Advanced(call[d]) ELSE call[d]]
    /\ UNCHANGED <<orgId, endpoint>>

\* The organisations are listed; ensureOrgContext picks one or asks the user.
OrgsListed(c) ==
    /\ orgId' = call[c].prev
    /\ call' = [call EXCEPT ![c].step = "picking"]
    /\ UNCHANGED Caches

\* A request is answered with success.
Answer(c) ==
    /\ Quiet /\ call[c].step = "sent"
    /\ call[c].good \/ call[c].bearer = expiries
    /\ CASE Stage(c) = "fetch" -> FetchDone(c)
         [] ListsOrgs(c) -> OrgsListed(c)
         [] OTHER -> /\ call' = [call EXCEPT ![c] = Advanced(@)]
                     /\ endpoint' = (endpoint \/ Stage(c) = "lookup")
                     /\ UNCHANGED <<orgId, details, fetching>>
    /\ UNCHANGED Others

\* Mutant: resetRestAuth keeps the bearer.
ResetRestAuthKeepsBearer ==
    /\ details' = <<>> /\ fetching' = [a \in Assets |-> None] /\ endpoint' = FALSE
    /\ UNCHANGED bearer

\* resetRestAuth
ResetRestAuth ==
    /\ bearer' = None
    /\ details' = <<>> /\ fetching' = [a \in Assets |-> None] /\ endpoint' = FALSE

\* 401: the first one resets the client and the request is sent once more.
Unauthorized(c) ==
    /\ Quiet /\ call[c].step = "sent" /\ call[c].bearer < expiries
    /\ \/ /\ ~call[c].second
          /\ ResetRestAuth
          /\ call' = [call EXCEPT ![c].step = "ready", ![c].second = TRUE]
          /\ UNCHANGED orgId
       \/ /\ call[c].second
          /\ Fail({c}, "refused")
          /\ UNCHANGED bearer
    /\ UNCHANGED <<login, expiries>>

\* 403 to the organisations of the global one: asked again without one.
AskWithoutOrg(c) ==
    /\ Quiet /\ call[c].step = "sent" /\ Stage(c) = "global"
    /\ orgId' = Unset
    /\ call' = [call EXCEPT ![c] = [Become(@, "unset") EXCEPT !.second = FALSE]]
    /\ UNCHANGED <<Caches, Others>>

\* Mutant: the attempts are not counted.
ThrottledForever(c) ==
    /\ Quiet /\ call[c].step = "sent" /\ Stage(c) = "page"
    /\ call' = [call EXCEPT ![c].step = "asleep", ![c].second = FALSE,
                            ![c].bearer = None, ![c].good = FALSE, ![c].since = 0]
    /\ UNCHANGED <<orgId, Caches, Others>>

\* 429 to a page: asked again after a pause.
Throttled(c) ==
    /\ Quiet /\ call[c].step = "sent" /\ Stage(c) = "page" /\ call[c].tries < RetryLimit
    /\ call' = [call EXCEPT ![c].step = "asleep", ![c].tries = @ + 1, ![c].second = FALSE,
                            ![c].bearer = None, ![c].good = FALSE, ![c].since = 0]
    /\ UNCHANGED <<orgId, Caches, Others>>

Wake(c) ==
    /\ Quiet /\ call[c].step = "asleep"
    /\ call' = [call EXCEPT ![c].step = "ready"]
    /\ UNCHANGED <<orgId, Caches, Others>>

\* Any other status, a broken connection, or the deadline of the request.
RequestFailed(c) ==
    /\ Quiet /\ call[c].step = "sent"
    /\ Fail({c}, "failed")
    /\ UNCHANGED Others

Answered(c) ==
    Answer(c) \/ Unauthorized(c) \/ AskWithoutOrg(c) \/ Throttled(c) \/ RequestFailed(c)

\* An organisation is chosen, or the user cancels; setOrgId.
Pick(c) ==
    /\ Quiet /\ call[c].step = "picking"
    /\ \/ \E org \in Orgs :
              /\ orgId' = org
              /\ call' = [d \in Calls |->
                    IF d = c THEN [Advanced(call[c]) EXCEPT !.org = org]
                    ELSE [call[d] EXCEPT !.mixed = @ \/ (Running(d) /\ org # orgId)]]
       \/ call' = [call EXCEPT ![c] = Ended("ok")] /\ UNCHANGED orgId
    /\ UNCHANGED <<Caches, Others>>

\* JumpServer ends its sessions, at any moment.
Expire ==
    /\ expiries < MaxExpiries
    /\ expiries' = expiries + 1
    /\ UNCHANGED <<bearer, login, orgId, Caches, call>>

Next ==
    \/ Expire \/ LoginGranted \/ TryOtherEncoding \/ LoginFailed
    \/ \E c \in Calls : Acquire(c) \/ Peek(c) \/ Reconnect(c)
    \/ \E c \in Calls : Turn(c) \/ Answered(c) \/ Wake(c) \/ Pick(c)

Spec == Init /\ [][Next]_vars

\* The event loop runs what is ready; a request is answered or runs into its
\* deadline (withDeadline); a pause ends.  The user may leave the picker open.
FairSpec ==
    /\ Spec
    /\ WF_vars(LoginGranted \/ TryOtherEncoding \/ LoginFailed)
    /\ \A c \in Calls : WF_vars(Turn(c)) /\ WF_vars(Answered(c)) /\ WF_vars(Wake(c))

-----------------------------------------------------------------------------
(* Properties                                                               *)

TypeOK ==
    /\ bearer \in 0..MaxExpiries \cup {None}
    /\ login \in [attempt : {"none", "first", "last"}, since : 0..MaxExpiries]
    /\ orgId \in AnyOrg
    /\ details \in Seq(Assets) /\ Len(details) <= DetailLimit
    /\ fetching \in [Assets -> Calls \cup {None}]
    /\ endpoint \in BOOLEAN
    /\ \A c \in Calls :
          /\ call[c].todo \in Seq(Stages) /\ call[c].org \in AnyOrg /\ call[c].prev \in AnyOrg
          /\ call[c].asset \in Assets \cup {None}
          /\ call[c].on \in Calls \cup {None}
          /\ call[c].tries \in 1..RetryLimit
          /\ call[c].step \in Settled \cup {"idle", "ready", "login", "sent", "joined", "asleep", "picking"}
    /\ expiries \in 0..MaxExpiries

\* A bearer that has died is never seen by a caller: a request ends as
\* unauthorised only when JumpServer has ended its sessions again since it was
\* first sent.  Other calls may be refused late, throw away the new bearer, or
\* have a login under way meanwhile.
ExpiryIsSurvived ==
    [][\A c \in Calls :
          (call[c].step = "sent" /\ call'[c].step = "refused") => expiries > call[c].since]_vars

\* "The second caller must join the first fetch instead of firing its own": no
\* two fetches of one asset are under way, as long as no 401 has emptied the
\* table of fetches.
FetchesAreShared ==
    \/ expiries > 0
    \/ \A c, d \in Calls : (/\ call[c].step \in {"login", "sent"} /\ Stage(c) = "fetch"
                            /\ call[d].step \in {"login", "sent"} /\ Stage(d) = "fetch"
                            /\ call[c].asset = call[d].asset) => c = d

\* Does the step send a request of the call's own organisation?
SendsInOrg(c) ==
    /\ call[c].step = "ready" /\ call'[c].step = "sent"
    /\ call[c].kind \notin {"prefetch", "endpoint"} /\ ~ListsOrgs(c)

\* A call that no listing of organisations and no call for another one overlaps
\* sends its requests in its own organisation: one that gets the client from the
\* pool, whatever was left before it; a terminal that connects again, if it finds
\* the client in the organisation it was opened in.
AloneStaysInItsOrg ==
    [][\A c \in Calls : (SendsInOrg(c) /\ ~call[c].mixed) => orgId = call[c].org]_vars

\* The same without the proviso, as the pool has it: "Org is not part of the
\* identity: setOrgId is enough".  It does not hold: see the README.
RequestsInTheirOrg ==
    [][\A c \in Calls : SendsInOrg(c) => orgId = call[c].org]_vars

\* Call d is fetching the details of its asset.
InFetch(d) ==
    call[d].step \in {"ready", "login", "sent"} /\ call[d].todo # <<>> /\ Stage(d) = "fetch"

\* Nobody waits in vain: a call that has joined a fetch waits for one that goes on,
\* of its own asset, also when a 401 or another's end has emptied the table since;
\* and who waits for a login waits for one that is under way.
JoinersAreServed ==
    \A c \in Calls :
        /\ call[c].step = "joined" =>
              InFetch(call[c].on) /\ call[call[c].on].asset = call[c].asset
        /\ call[c].step = "login" => login # NoLogin

\* Every call returns, or waits for the user to pick an organisation.
EveryCallSettles ==
    \A c \in Calls : Running(c) ~> (~Running(c) \/ call[c].step = "picking")

=============================================================================
