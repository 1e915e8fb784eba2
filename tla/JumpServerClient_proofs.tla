------------------------ MODULE JumpServerClient_proofs ------------------------
(***************************************************************************)
(* Theorems about the two halves of JumpServerClient.  RestClient, for     *)
(* every number of calls, assets, organisations and expiries, and every    *)
(* limit of the detail cache; WebSession, for every number of calls and of *)
(* ended sessions.                                                         *)
(***************************************************************************)
EXTENDS RestClient, WebSession, SequenceTheorems, TLAPS

(***************************************************************************)
(* RestClient                                                              *)
(***************************************************************************)

Idle == Settled \cup {"idle"}
Step == Idle \cup {"ready", "login", "sent", "joined", "asleep", "picking"}

\* What a call may still have to do after its current stage.
Later == {"token", "orgs", "nodes", "page"}
Listing == {"global", "unset"}
OwnOrg == {"connect", "reconnect", "validate", "refresh"}

Record == [kind : OwnOrg \cup {"prefetch", "endpoint"}, asset : Assets \cup {None}, org : AnyOrg,
           todo : Seq(Stages), step : Step, bearer : Nat \cup {None}, good : BOOLEAN,
           second : BOOLEAN, tries : 1..RetryLimit, since : Nat, prev : AnyOrg,
           on : Calls \cup {None}, mixed : BOOLEAN]

\* A call that runs has a stage, and an asset to fetch the detail of; the calls
\* that list organisations have one of their own, and the picker is open after a
\* list only.
Sound(r) ==
    /\ r \in Record
    /\ r.step \notin Idle => r.todo # <<>>
    /\ \A i \in 2..Len(r.todo) : r.todo[i] \in Later
    /\ \A i \in 1..Len(r.todo) : r.todo[i] \in Listing \cup {"orgs"} => r.kind \in OwnOrg
    /\ r.todo # <<>> => (r.todo[1] \in {"detail", "fetch"} => r.asset \in Assets)
    /\ r.step = "sent" => r.bearer \in Nat
    /\ r.step = "picking" => r.todo[1] \in Listing
    /\ r.step = "joined" => r.todo[1] = "detail"

Types ==
    /\ bearer \in 0..MaxExpiries \cup {None}
    /\ login \in [attempt : {"none", "first", "last"}, since : 0..MaxExpiries]
    /\ orgId \in AnyOrg
    /\ details \in Seq(Assets) /\ Len(details) <= DetailLimit
    /\ fetching \in [Assets -> Calls \cup {None}]
    /\ endpoint \in BOOLEAN
    /\ expiries \in 0..MaxExpiries
    /\ call \in [Calls -> Record]
    /\ \A c \in Calls : Sound(call[c])

\* A login is under way only without a bearer, and neither it nor the bearer is
\* older than a request that has been sent, or refused once, under its rule.
Timely(c) ==
    /\ call[c].since <= expiries
    /\ call[c].second \/ call[c].step = "sent" =>
          (login # NoLogin => login.since >= call[c].since)
    /\ call[c].second => /\ bearer # None => bearer >= call[c].since
                         /\ call[c].step = "sent" => call[c].bearer >= call[c].since
Logins == login # NoLogin => bearer = None

\* As long as no 401 has emptied it, the table of fetches knows each of them.
Fetches(c) ==
    expiries = 0 /\ Running(c) /\ Stage(c) = "fetch" => fetching[call[c].asset] = c

\* The organisation of a call that nothing has disturbed.
Keeps(c) ==
    Running(c) /\ ~call[c].mixed =>
        /\ \A e \in Calls : ListsOrgs(e) => e = c
        /\ call[c].kind \in OwnOrg =>
              IF ListsOrgs(c) /\ call[c].step # "picking" THEN call[c].prev = call[c].org
              ELSE orgId = call[c].org

\* The inductive invariant.
RInv ==
    /\ Types /\ Logins
    /\ \A c \in Calls : Timely(c) /\ Fetches(c) /\ Keeps(c)

----------------------------------------------------------------------------
\* The records of calls.

LEMMA EndedSound ==
    ASSUME NEW how \in Settled
    PROVE  /\ Sound(Ended(how)) /\ Ended(how).step = how /\ Ended(how).step \in Idle
           /\ Ended(how).since = 0 /\ Ended(how).second = FALSE
  <1>1. NoCall \in Record
    BY RestAssumption DEF NoCall, Record, Step, Idle, AnyOrg, RetryLimit, OwnOrg
  <1>2. Ended(how) \in Record
    BY <1>1 DEF Ended, Record, Step, Idle
  <1> QED
    BY <1>1, <1>2 DEF Sound, Ended, NoCall, Idle, Settled

LEMMA NoCallSound ==
    /\ Sound(NoCall) /\ NoCall.step \in Idle /\ NoCall.since = 0 /\ NoCall.second = FALSE
    /\ NoCall.step = "idle"
  BY RestAssumption DEF NoCall, Record, Step, Idle, AnyOrg, RetryLimit, OwnOrg, Sound, Settled

LEMMA TodoTail ==
    ASSUME NEW r, Sound(r), r.step \notin Idle, Len(r.todo) # 1
    PROVE  /\ Tail(r.todo) \in Seq(Stages) /\ Tail(r.todo) # <<>> /\ Tail(r.todo)[1] \in Later
           /\ \A i \in 2..Len(Tail(r.todo)) : Tail(r.todo)[i] \in Later
  <1>1. r.todo \in Seq(Stages) /\ r.todo # <<>>
    BY DEF Sound, Record
  <1>2. Len(r.todo) \in Nat /\ Len(r.todo) >= 2
    <2>1. Len(r.todo) \in Nat /\ Len(r.todo) # 0
      BY <1>1
    <2>2. \A n \in Nat : n # 0 /\ n # 1 => n >= 2
      OBVIOUS
    <2>3. Len(r.todo) # 1
      OBVIOUS
    <2> QED
      BY <2>1, <2>2, <2>3, Zenon
  <1>3. /\ Len(Tail(r.todo)) = Len(r.todo) - 1 /\ Tail(r.todo) \in Seq(Stages)
        /\ \A i \in 1..Len(r.todo) - 1 : Tail(r.todo)[i] = r.todo[i + 1]
    BY <1>1, HeadTailProperties
  <1>4. ASSUME NEW i \in 1..Len(Tail(r.todo))
        PROVE  Tail(r.todo)[i] \in Later
    <2>1. i + 1 \in 2..Len(r.todo) /\ Tail(r.todo)[i] = r.todo[i + 1]
      BY <1>2, <1>3
    <2> QED
      BY <2>1 DEF Sound
  <1>5. 1 \in 1..Len(Tail(r.todo)) /\ Tail(r.todo) # <<>>
    <2>1. PICK t \in Seq(Stages) : t = Tail(r.todo)
      BY <1>3
    <2>2. Len(t) >= 1
      BY <1>2, <1>3, <2>1
    <2>3. 1 \in 1..Len(t) /\ t # <<>>
      BY <2>2
    <2> QED
      BY <2>1, <2>3, Zenon
  <1> QED
    BY <1>2, <1>3, <1>4, <1>5

\* What a call has become after its stage.
Moved(r, s) ==
    /\ s.step = "ready" /\ s.since = 0 /\ ~s.second
    /\ s.todo # <<>> /\ s.todo[1] \in Later
    /\ s.kind = r.kind /\ s.asset = r.asset /\ s.org = r.org /\ s.prev = r.prev
    /\ s.mixed = r.mixed

LEMMA AdvancedSound ==
    ASSUME NEW r, Sound(r), r.step \notin Idle
    PROVE  /\ Sound(Advanced(r))
           /\ Advanced(r) = Ended("ok") \/ Moved(r, Advanced(r))
  <1>1. CASE Len(r.todo) = 1
    BY <1>1, EndedSound DEF Advanced, Settled
  <1>2. CASE Len(r.todo) # 1
    <2>1. /\ Tail(r.todo) \in Seq(Stages) /\ Tail(r.todo) # <<>> /\ Tail(r.todo)[1] \in Later
          /\ \A i \in 2..Len(Tail(r.todo)) : Tail(r.todo)[i] \in Later
      BY <1>2, TodoTail
    <2> DEFINE s == [r EXCEPT !.todo = Tail(r.todo), !.step = "ready", !.bearer = None,
                              !.good = FALSE, !.second = FALSE, !.tries = 1, !.since = 0,
                              !.on = None]
    <2>2. Advanced(r) = s
      BY <1>2 DEF Advanced
    <2>3. r \in Record
      BY DEF Sound
    <2>4. s \in Record
      <3>1. [r EXCEPT !.todo = Tail(r.todo), !.step = "ready"] \in Record
        BY <2>1, <2>3 DEF Record, Step
      <3>2. \A t \in Record : [t EXCEPT !.bearer = None, !.good = FALSE, !.second = FALSE]
                                 \in Record
        BY DEF Record
      <3>3. \A t \in Record : [t EXCEPT !.since = 0, !.on = None] \in Record
        BY DEF Record
      <3>4. 1 \in 1..RetryLimit
        BY DEF RetryLimit
      <3>5. \A t \in Record : [t EXCEPT !.tries = 1] \in Record
        BY <3>4 DEF Record
      <3> QED
        BY <3>1, <3>2, <3>3, <3>5
    <2>5. /\ s.todo = Tail(r.todo) /\ s.step = "ready" /\ s.second = FALSE /\ s.since = 0
          /\ s.kind = r.kind /\ s.asset = r.asset /\ s.org = r.org /\ s.prev = r.prev
          /\ s.mixed = r.mixed
      BY <2>3 DEF Record
    <2> HIDE DEF s
    <2> QED
      BY <2>1, <2>2, <2>4, <2>5 DEF Sound, Moved, Idle, Settled, Later
  <1> QED
    BY <1>1, <1>2

LEMMA BecomeSound ==
    ASSUME NEW r, Sound(r), r.step \notin Idle, NEW stage \in Requests,
           stage = "fetch" => r.asset \in Assets, stage \in Listing => r.kind \in OwnOrg,
           NEW s, s = Become(r, stage)
    PROVE  /\ Sound(s) /\ s.step = "ready" /\ s.todo # <<>> /\ s.todo[1] = stage
           /\ s.kind = r.kind /\ s.asset = r.asset /\ s.org = r.org /\ s.prev = r.prev
           /\ s.mixed = r.mixed /\ s.since = r.since /\ s.second = r.second
  <1> DEFINE q == <<stage>> \o Tail(r.todo)
  <1>1. r.todo \in Seq(Stages) /\ r.todo # <<>> /\ r \in Record
    BY DEF Sound, Record
  <1>2. stage \in Stages
    BY DEF Stages
  <1>3. /\ Len(Tail(r.todo)) = Len(r.todo) - 1 /\ Tail(r.todo) \in Seq(Stages)
        /\ \A i \in 1..Len(r.todo) - 1 : Tail(r.todo)[i] = r.todo[i + 1]
    BY <1>1, HeadTailProperties
  <1>4. /\ q \in Seq(Stages) /\ Len(q) = Len(r.todo) /\ q # <<>> /\ q[1] = stage
        /\ \A i \in 2..Len(q) : q[i] = r.todo[i]
    BY <1>1, <1>2, <1>3
  <1>7. s = [r EXCEPT !.todo = q, !.step = "ready"]
    BY DEF Become
  <1> HIDE DEF q
  <1>5. s \in Record
    BY <1>1, <1>4, <1>7 DEF Record, Step
  <1>6. /\ s.todo = q /\ s.step = "ready" /\ s.kind = r.kind /\ s.asset = r.asset
        /\ s.org = r.org /\ s.prev = r.prev /\ s.mixed = r.mixed /\ s.since = r.since
        /\ s.second = r.second
    BY <1>1, <1>7 DEF Record
  <1>8. Sound(s)
    BY <1>1, <1>4, <1>5, <1>6 DEF Sound, Idle, Settled, Requests, Listing
  <1> QED
    BY <1>4, <1>6, <1>8

\* The call that begins.
Fresh(kind, a, org, mixed) ==
    [NoCall EXCEPT !.kind = kind, !.asset = a, !.org = org, !.step = "ready",
                   !.todo = Todo(kind, org), !.mixed = mixed]

Ready(s, kind, org, mixed) ==
    /\ Sound(s) /\ s.step = "ready" /\ s.since = 0 /\ s.second = FALSE /\ s.kind = kind
    /\ s.org = org /\ s.mixed = mixed /\ s.todo # <<>>
    /\ s.todo[1] \notin {"fetch"} \cup Listing

LEMMA BegunSound ==
    ASSUME NEW kind \in Kinds, NEW a \in AssetOf(kind), NEW org \in AnyOrg,
           NEW mixed \in BOOLEAN
    PROVE  Ready(Fresh(kind, a, org, mixed), kind, org, mixed)
  <1>0. PICK s : s = Fresh(kind, a, org, mixed)
    OBVIOUS
  <1> USE <1>0 DEF Fresh
  <1> DEFINE t == Todo(kind, org)
  <1>1. kind \in OwnOrg \cup {"prefetch", "endpoint"} /\ a \in Assets \cup {None}
    BY RestAssumption DEF OwnOrg, AssetOf
  <1>2. /\ t \in Seq(Stages) /\ t # <<>> /\ \A i \in 2..Len(t) : t[i] \in Later
        /\ t[1] \in {"detail", "fetch"} => kind \in {"connect", "reconnect", "prefetch"}
        /\ t[1] \notin {"fetch"} \cup Listing
        /\ \A i \in 1..Len(t) : t[i] \in Listing \cup {"orgs"} => kind \in OwnOrg
    <2>1. CASE kind \in {"connect", "reconnect"}
      <3>1. t = <<"detail", "token">>
        BY <2>1 DEF Todo, Connect
      <3> HIDE DEF t
      <3> QED
        BY <2>1, <3>1 DEF Stages, Requests, Later, Listing, OwnOrg
    <2>2. CASE kind = "prefetch"
      BY <2>2 DEF Todo, Stages, Requests, Later, Listing, OwnOrg
    <2>5. CASE kind = "endpoint"
      BY <2>5 DEF Todo, Stages, Requests, Later, Listing, OwnOrg
    <2>3. CASE kind = "validate"
      <3>1. CASE org = Unset
        BY <2>3, <3>1 DEF Todo, Validate, OrgContext, Stages, Requests, Later, Listing, OwnOrg
      <3>2. CASE org # Unset
        BY <2>3, <3>2 DEF Todo, Validate, OrgContext, Stages, Requests, Later, Listing, OwnOrg
      <3> QED
        BY <3>1, <3>2
    <2>4. CASE kind = "refresh"
      <3>1. CASE org = Unset
        BY <2>4, <3>1 DEF Todo, Refresh, OrgContext, Stages, Requests, Later, Listing, OwnOrg
      <3>2. CASE org # Unset
        BY <2>4, <3>2 DEF Todo, Refresh, OrgContext, Stages, Requests, Later, Listing, OwnOrg
      <3> QED
        BY <3>1, <3>2
    <2> QED
      BY <1>1, <2>1, <2>2, <2>3, <2>4, <2>5 DEF OwnOrg
  <1> HIDE DEF t
  <1>3. NoCall \in Record
    BY NoCallSound DEF Sound
  <1>4. s \in Record
    BY <1>1, <1>2, <1>3 DEF Record, Step, t
  <1>5. /\ s.step = "ready" /\ s.since = 0 /\ s.second = FALSE /\ s.kind = kind /\ s.org = org
        /\ s.mixed = mixed /\ s.todo = t /\ s.asset = a
    BY DEF NoCall, t
  <1>6. Sound(s)
    BY <1>2, <1>4, <1>5 DEF Sound, Idle, Settled, AssetOf
  <1>7. Ready(s, kind, org, mixed)
    BY <1>2, <1>5, <1>6 DEF Ready
  <1> QED
    BY <1>7, Zenon

----------------------------------------------------------------------------
\* What a step may do with a call: nothing, end it, or carry it on in the
\* organisation it was in.
Stays(d) == call'[d] = call[d]
Ends(d) == call'[d].step \in Settled /\ call'[d].since = 0 /\ ~call'[d].second
Goes(d) ==
    /\ Running(d) /\ call[d].step # "picking"
    /\ call'[d].step \in {"ready", "login", "joined", "asleep"}
    /\ call'[d].kind = call[d].kind /\ call'[d].org = call[d].org
    /\ call'[d].prev = call[d].prev /\ call'[d].mixed = call[d].mixed
    /\ ListsOrgs(d)' <=> ListsOrgs(d)
    /\ \/ call'[d].since = call[d].since /\ call'[d].second = call[d].second
       \/ call'[d].since = 0 /\ ~call'[d].second
Calm(d) == Stays(d) \/ Ends(d) \/ Goes(d)

\* The fetch that a call makes after the step, it made before it, and the table
\* still knows it.
FetchesOn(d) ==
    Running(d)' /\ Stage(d)' = "fetch" =>
        /\ Running(d) /\ Stage(d) = "fetch" /\ call'[d].asset = call[d].asset
        /\ fetching'[call[d].asset] = fetching[call[d].asset]

LEMMA SameCall ==
    ASSUME NEW d, call'[d] = call[d]
    PROVE  /\ Running(d)' <=> Running(d)
           /\ ListsOrgs(d)' <=> ListsOrgs(d)
           /\ Stage(d)' = Stage(d)
  BY DEF Running, ListsOrgs, Stage

LEMMA StageIs ==
    ASSUME NEW r, Sound(r), r.todo # <<>>
    PROVE  Head(r.todo) = r.todo[1] /\ r.todo[1] \in Stages
  BY DEF Sound, Record

LEMMA HasStage ==
    ASSUME NEW d \in Calls, Types, Running(d)
    PROVE  /\ Sound(call[d]) /\ call[d].step \notin Idle /\ call[d].todo # <<>>
           /\ Stage(d) = call[d].todo[1] /\ Stage(d) \in Stages
           /\ ListsOrgs(d) <=> Stage(d) \in Listing
  BY StageIs DEF Types, Running, Stage, Sound, Idle, ListsOrgs, Listing

LEMMA CalmKeeps ==
    ASSUME \A d \in Calls : Keeps(d), orgId' = orgId, \A d \in Calls : Calm(d)
    PROVE  \A d \in Calls : Keeps(d)'
  <1>1. \A d \in Calls : Ends(d) => ~Running(d)' /\ ~ListsOrgs(d)'
    BY DEF Ends, Running, ListsOrgs
  <1>2. \A d \in Calls : Stays(d) => /\ Running(d)' <=> Running(d)
                                     /\ ListsOrgs(d)' <=> ListsOrgs(d)
    BY SameCall DEF Stays
  <1>3. \A e \in Calls : ListsOrgs(e)' => ListsOrgs(e)
    BY <1>1, <1>2 DEF Calm, Goes
  <1>4. ASSUME NEW d \in Calls PROVE Keeps(d)'
    <2>1. CASE Ends(d)
      BY <1>1, <2>1 DEF Keeps
    <2>2. CASE Stays(d)
      BY <1>2, <1>3, <2>2 DEF Keeps, Stays
    <2>3. CASE Goes(d)
      BY <1>3, <2>3 DEF Keeps, Goes
    <2> QED
      BY <2>1, <2>2, <2>3 DEF Calm
  <1> QED
    BY <1>4

LEMMA CalmTimely ==
    ASSUME Types, \A d \in Calls : Timely(d), \A d \in Calls : Calm(d),
           bearer' = bearer, login' \in {login, NoLogin}, expiries' = expiries
    PROVE  \A d \in Calls : Timely(d)'
  <1> SUFFICES ASSUME NEW d \in Calls PROVE Timely(d)'
    OBVIOUS
  <1>1. Timely(d) /\ expiries \in Nat
    BY DEF Types
  <1>2. CASE Stays(d)
    BY <1>1, <1>2 DEF Timely, Stays
  <1>3. CASE Ends(d)
    BY <1>1, <1>3 DEF Timely, Ends, Settled
  <1>4. CASE Goes(d)
    BY <1>1, <1>4 DEF Timely, Goes
  <1> QED
    BY <1>2, <1>3, <1>4 DEF Calm

LEMMA FetchesKept ==
    ASSUME Types, \A d \in Calls : Fetches(d), expiries' >= expiries, expiries' \in Nat,
           \A d \in Calls : FetchesOn(d)
    PROVE  \A d \in Calls : Fetches(d)'
  <1>1. expiries \in Nat
    BY DEF Types
  <1> QED
    BY <1>1 DEF Fetches, FetchesOn

\* A step that changes the record of one call.
LEMMA OneCall ==
    ASSUME Types, NEW c \in Calls, NEW s, Sound(s), call' = [call EXCEPT ![c] = s]
    PROVE  /\ call'[c] = s /\ \A d \in Calls \ {c} : call'[d] = call[d]
           /\ call' \in [Calls -> Record] /\ \A d \in Calls : Sound(call'[d])
  <1>1. call'[c] = s /\ \A d \in Calls \ {c} : call'[d] = call[d]
    BY DEF Types
  <1>2. call' \in [Calls -> Record]
    BY DEF Types, Sound
  <1>3. \A d \in Calls : Sound(call'[d])
    BY <1>1 DEF Types
  <1> QED
    BY <1>1, <1>2, <1>3

LEMMA SoundAgain ==
    ASSUME NEW r, Sound(r), NEW s \in Record, s.todo = r.todo, s.kind = r.kind,
           s.asset = r.asset, s.step \notin Idle => r.step \notin Idle,
           s.step = "sent" => s.bearer \in Nat,
           s.step = "picking" => r.todo[1] \in Listing,
           s.step = "joined" => r.todo[1] = "detail"
    PROVE  Sound(s)
  BY DEF Sound

\* A step that may change the records of all calls.
LEMMA AllCalls ==
    ASSUME call' = [d \in Calls |-> call'[d]], \A d \in Calls : Sound(call'[d])
    PROVE  call' \in [Calls -> Record]
  <1>1. \A d \in Calls : call'[d] \in Record
    BY DEF Sound
  <1> QED
    BY <1>1

\* An advance is calm, and no fetch comes of it.
LEMMA AdvanceIsCalm ==
    ASSUME Types, NEW d \in Calls, Running(d), ~ListsOrgs(d), call[d].step # "picking",
           call'[d] = Advanced(call[d])
    PROVE  Calm(d) /\ FetchesOn(d) /\ Sound(call'[d]) /\ call'[d].step \in {"ok", "ready"}
  <1>1. Sound(call[d]) /\ call[d].step \notin Idle
    BY HasStage
  <1>2. Sound(call'[d])
    BY <1>1, AdvancedSound
  <1>3. CASE call'[d] = Ended("ok")
    <2>1. call'[d].step = "ok" /\ call'[d].since = 0 /\ call'[d].second = FALSE
      BY <1>3, EndedSound DEF Settled
    <2> QED
      BY <2>1, <1>2 DEF Calm, Ends, FetchesOn, Running, Settled
  <1>4. CASE Moved(call[d], call'[d])
    <2>1. Head(call'[d].todo) = call'[d].todo[1]
      BY <1>2, <1>4, StageIs DEF Moved
    <2>2. Stage(d)' \in Later
      BY <2>1, <1>4 DEF Moved, Stage
    <2>3. ~ListsOrgs(d)' /\ FetchesOn(d)
      BY <2>2 DEF ListsOrgs, FetchesOn, Later
    <2>4. Goes(d)
      BY <2>3, <1>4 DEF Goes, Moved
    <2> QED
      BY <2>3, <2>4, <1>2, <1>4 DEF Calm, Moved
  <1> QED
    BY <1>1, <1>3, <1>4, AdvancedSound

\* What the two action properties say of one call.
Honest(d) ==
    /\ call[d].step = "sent" /\ call'[d].step = "refused" => expiries > call[d].since
    /\ SendsInOrg(d) /\ ~call[d].mixed => orgId = call[d].org

LEMMA CalmIsHonest ==
    ASSUME NEW d \in Calls, Calm(d), call[d].step = "sent" => call'[d].step # "refused"
    PROVE  Honest(d)
  BY DEF Calm, Stays, Ends, Goes, Honest, SendsInOrg, Settled

\* A call whose record becomes s without a change of its requests is calm.
LEMMA PauseIsCalm ==
    ASSUME Types, NEW d \in Calls, Running(d), call[d].step # "picking",
           call'[d].step \in {"ready", "login", "joined", "asleep"},
           call'[d].todo = call[d].todo, call'[d].kind = call[d].kind,
           call'[d].asset = call[d].asset, call'[d].org = call[d].org,
           call'[d].prev = call[d].prev, call'[d].mixed = call[d].mixed,
           \/ call'[d].since = call[d].since /\ call'[d].second = call[d].second
           \/ call'[d].since = 0 /\ ~call'[d].second,
           fetching' = fetching
    PROVE  Calm(d) /\ FetchesOn(d) /\ Honest(d)
  <1>1. Running(d)'
    BY DEF Running, Settled
  <1>2. (ListsOrgs(d)' <=> ListsOrgs(d)) /\ Stage(d)' = Stage(d)
    BY <1>1 DEF ListsOrgs, Stage
  <1>3. FetchesOn(d)
    BY <1>1, <1>2 DEF FetchesOn
  <1>4. Goes(d)
    BY <1>2 DEF Goes
  <1>5. call'[d].step # "refused"
    OBVIOUS
  <1> QED
    BY <1>3, <1>4, <1>5, CalmIsHonest DEF Calm

LEMMA SameIsCalm ==
    ASSUME NEW d \in Calls, call'[d] = call[d], fetching' = fetching
    PROVE  Calm(d) /\ FetchesOn(d) /\ Honest(d)
  <1>1. Calm(d)
    BY DEF Calm, Stays
  <1>2. FetchesOn(d)
    BY SameCall DEF FetchesOn
  <1> QED
    BY <1>1, <1>2, CalmIsHonest

\* All that a calm step owes.
LEMMA CalmStep ==
    ASSUME RInv, \A d \in Calls : Calm(d) /\ FetchesOn(d) /\ Honest(d),
           orgId' = orgId, bearer' = bearer, login' = login, expiries' = expiries,
           details' \in Seq(Assets), Len(details') <= DetailLimit,
           fetching' \in [Assets -> Calls \cup {None}], endpoint' \in BOOLEAN,
           call' \in [Calls -> Record], \A d \in Calls : Sound(call'[d])
    PROVE  RInv' /\ \A d \in Calls : Honest(d)
  <1>1. Types'
    BY DEF RInv, Types
  <1>2. Logins'
    BY DEF RInv, Logins
  <1>3. \A d \in Calls : Timely(d)'
    BY CalmTimely DEF RInv
  <1>4. \A d \in Calls : Keeps(d)'
    BY CalmKeeps DEF RInv
  <1>5. \A d \in Calls : Fetches(d)'
    <2>1. expiries' \in Nat /\ expiries' >= expiries
      BY DEF RInv, Types
    <2> QED
      BY <2>1, FetchesKept DEF RInv
  <1> QED
    BY <1>1, <1>2, <1>3, <1>4, <1>5 DEF RInv

----------------------------------------------------------------------------
\* The calls that begin.

LEMMA BeginsWell ==
    ASSUME RInv, NEW c \in Calls, call[c].step = "idle", NEW kind \in Kinds,
           NEW a \in AssetOf(kind), NEW org \in AnyOrg, NEW now \in AnyOrg, orgId' = now,
           call' = Begun(c, kind, a, org, now),
           bearer' = bearer, login' = login, details' = details, fetching' = fetching,
           endpoint' = endpoint, expiries' = expiries
    PROVE  RInv' /\ \A d \in Calls : Honest(d)
  <1> USE DEF RInv
  <1>1. PICK m \in BOOLEAN : m = (org # now \/ \E e \in Calls : ListsOrgs(e))
    OBVIOUS
  <1>0. PICK s : s = Fresh(kind, a, org, m)
    OBVIOUS
  <1> DEFINE t(d) == [call[d] EXCEPT !.mixed = @ \/ (Running(d) /\ now # orgId)]
  <1>2. /\ call'[c] = s /\ \A d \in Calls \ {c} : call'[d] = t(d)
        /\ call' = [d \in Calls |-> call'[d]]
    BY <1>0, <1>1 DEF Begun, Fresh
  <1>3. /\ Sound(s) /\ s.step = "ready" /\ s.since = 0 /\ s.second = FALSE /\ s.kind = kind
        /\ s.org = org /\ s.mixed = m /\ s.todo # <<>>
        /\ s.todo[1] \notin {"fetch"} \cup Listing
    <2>1. kind \in Kinds /\ a \in AssetOf(kind) /\ org \in AnyOrg /\ m \in BOOLEAN
      BY <1>1
    <2>2. Ready(Fresh(kind, a, org, m), kind, org, m)
      BY <2>1, BegunSound, Zenon
    <2> QED
      BY <1>0, <2>2 DEF Ready
  <1>4. ASSUME NEW d \in Calls
        PROVE  /\ Sound(t(d)) /\ t(d).step = call[d].step /\ t(d).todo = call[d].todo
               /\ t(d).since = call[d].since /\ t(d).second = call[d].second
               /\ t(d).bearer = call[d].bearer /\ t(d).asset = call[d].asset
               /\ t(d).kind = call[d].kind /\ t(d).org = call[d].org
               /\ t(d).prev = call[d].prev
               /\ ~t(d).mixed => ~call[d].mixed /\ (Running(d) => now = orgId)
    <2>1. Sound(call[d]) /\ call[d] \in Record
      BY DEF Types, Sound
    <2>2. PICK b \in BOOLEAN : b = (call[d].mixed \/ (Running(d) /\ now # orgId))
      OBVIOUS
    <2>3. t(d) = [call[d] EXCEPT !.mixed = b]
      BY <2>2
    <2>4. t(d) \in Record
      BY <2>1, <2>3 DEF Record
    <2>5. /\ t(d).step = call[d].step /\ t(d).todo = call[d].todo
          /\ t(d).since = call[d].since /\ t(d).second = call[d].second
          /\ t(d).bearer = call[d].bearer /\ t(d).asset = call[d].asset
          /\ t(d).kind = call[d].kind /\ t(d).org = call[d].org
          /\ t(d).prev = call[d].prev /\ t(d).mixed = b
      BY <2>1, <2>3 DEF Record
    <2> HIDE DEF t
    <2>6. Sound(t(d))
      BY <2>1, <2>4, <2>5 DEF Sound
    <2> QED
      BY <2>2, <2>5, <2>6
  <1> HIDE DEF t
  <1>5. \A d \in Calls \ {c} : /\ Running(d)' <=> Running(d)
                               /\ Stage(d)' = Stage(d)
                               /\ ListsOrgs(d)' <=> ListsOrgs(d)
    BY <1>2, <1>4 DEF Running, Stage, ListsOrgs
  <1>6. /\ Running(c)' /\ ~ListsOrgs(c)' /\ Stage(c)' # "fetch"
    <2>1. Head(s.todo) = s.todo[1]
      BY <1>3, StageIs
    <2> QED
      BY <1>2, <1>3, <2>1 DEF Running, Stage, ListsOrgs, Settled, Listing
  <1>7. ~Running(c) /\ ~ListsOrgs(c)
    BY DEF Running, ListsOrgs
  <1>8. \A d \in Calls : Sound(call'[d])
    BY <1>2, <1>3, <1>4
  <1>9. call' \in [Calls -> Record]
    BY <1>2, <1>8, AllCalls
  <1>10. Types'
    BY <1>8, <1>9 DEF Types
  <1>11. Logins'
    BY DEF Logins
  <1>12. ASSUME NEW d \in Calls PROVE Timely(d)'
    <2>1. CASE d = c
      BY <1>2, <1>3, <2>1 DEF Timely, Types
    <2>2. CASE d # c
      BY <1>2, <1>4, <2>2 DEF Timely
    <2> QED
      BY <2>1, <2>2
  <1>13. ASSUME NEW d \in Calls PROVE Fetches(d)'
    <2>1. CASE d = c
      BY <1>6, <2>1 DEF Fetches
    <2>2. CASE d # c
      BY <1>2, <1>4, <1>5, <2>2 DEF Fetches
    <2> QED
      BY <2>1, <2>2
  <1>14. ASSUME NEW d \in Calls PROVE Keeps(d)'
    <2>0. \A e \in Calls : ListsOrgs(e)' => ListsOrgs(e)
      BY <1>5, <1>6
    <2>1. CASE d = c
      <3>1. ~call'[c].mixed => org = now /\ ~ \E e \in Calls : ListsOrgs(e)
        BY <1>1, <1>2, <1>3
      <3>2. call'[c].org = org
        BY <1>2, <1>3
      <3> QED
        BY <1>6, <2>0, <2>1, <3>1, <3>2 DEF Keeps
    <2>2. CASE d # c
      <3>1. ASSUME Running(d)', ~call'[d].mixed
            PROVE  /\ Running(d) /\ ~call[d].mixed /\ orgId' = orgId
                   /\ call'[d].step = call[d].step /\ call'[d].kind = call[d].kind
                   /\ call'[d].org = call[d].org /\ call'[d].prev = call[d].prev
        BY <1>2, <1>4, <1>5, <2>2, <3>1
      <3> QED
        BY <1>5, <2>0, <2>2, <3>1 DEF Keeps
    <2> QED
      BY <2>1, <2>2
  <1>15. ASSUME NEW d \in Calls PROVE Honest(d)
    <2>1. CASE d = c
      BY <2>1 DEF Honest, SendsInOrg
    <2>2. CASE d # c
      BY <1>2, <1>4, <2>2 DEF Honest, SendsInOrg
    <2> QED
      BY <2>1, <2>2
  <1> QED
    BY <1>10, <1>11, <1>12, <1>13, <1>14, <1>15

LEMMA AcquireStep ==
    ASSUME RInv, NEW c \in Calls, Acquire(c)
    PROVE  RInv' /\ \A d \in Calls : Honest(d)
  <1>1. PICK kind \in Kinds \cap {"connect", "validate", "refresh"}, org \in Orgs \cup {Unset} :
           orgId' = org /\ \E a \in AssetOf(kind) : call' = Begun(c, kind, a, org, org)
    BY DEF Acquire
  <1>2. PICK a \in AssetOf(kind) : call' = Begun(c, kind, a, org, org)
    BY <1>1
  <1>3. kind \in Kinds /\ org \in AnyOrg
    BY DEF AnyOrg
  <1> QED
    BY <1>1, <1>2, <1>3, BeginsWell DEF Acquire, Caches

LEMMA PeekStep ==
    ASSUME RInv, NEW c \in Calls, Peek(c)
    PROVE  RInv' /\ \A d \in Calls : Honest(d)
  <1>1. PICK kind \in Kinds \cap {"prefetch", "endpoint"} :
           \E a \in AssetOf(kind) : call' = Begun(c, kind, a, orgId, orgId)
    BY DEF Peek
  <1>2. PICK a \in AssetOf(kind) : call' = Begun(c, kind, a, orgId, orgId)
    BY <1>1
  <1>3. kind \in Kinds /\ orgId \in AnyOrg /\ orgId' = orgId
    BY DEF Peek, RInv, Types
  <1>4. PICK org \in AnyOrg : org = orgId
    BY <1>3
  <1> QED
    BY <1>2, <1>3, <1>4, BeginsWell DEF Peek, Caches

LEMMA ReconnectStep ==
    ASSUME RInv, NEW c \in Calls, Reconnect(c)
    PROVE  RInv' /\ \A d \in Calls : Honest(d)
  <1>1. PICK kind \in Kinds \cap {"reconnect"}, org \in Orgs \cup {Unset} :
           \E a \in AssetOf(kind) : call' = Begun(c, kind, a, org, orgId)
    BY DEF Reconnect
  <1>2. PICK a \in AssetOf(kind) : call' = Begun(c, kind, a, org, orgId)
    BY <1>1
  <1>3. kind \in Kinds /\ org \in AnyOrg /\ orgId \in AnyOrg /\ orgId' = orgId
    BY DEF Reconnect, RInv, Types, AnyOrg
  <1>4. PICK now \in AnyOrg : now = orgId
    BY <1>3
  <1> QED
    BY <1>2, <1>3, <1>4, BeginsWell DEF Reconnect, Caches

----------------------------------------------------------------------------
\* What a call does in its turn.

LEMMA BecomeIsCalm ==
    ASSUME Types, NEW d \in Calls, call[d].step = "ready", ~ListsOrgs(d),
           NEW stage \in Requests \ Listing, stage = "fetch" => call[d].asset \in Assets,
           call'[d] = Become(call[d], stage)
    PROVE  /\ Calm(d) /\ Honest(d) /\ Sound(call'[d]) /\ call'[d].asset = call[d].asset
           /\ Running(d)' /\ Stage(d)' = stage
  <1>1. Running(d) /\ Sound(call[d]) /\ call[d].step \notin Idle
    BY DEF Types, Running, Idle, Settled
  <1>2. PICK s : s = Become(call[d], stage)
    OBVIOUS
  <1>3. /\ Sound(s) /\ s.step = "ready" /\ s.todo # <<>> /\ s.todo[1] = stage
        /\ s.kind = call[d].kind /\ s.asset = call[d].asset /\ s.org = call[d].org
        /\ s.prev = call[d].prev /\ s.mixed = call[d].mixed /\ s.since = call[d].since
        /\ s.second = call[d].second
    BY <1>1, <1>2, BecomeSound
  <1>4. call'[d] = s
    BY <1>2
  <1>5. Stage(d)' = stage /\ Running(d)' /\ ~ListsOrgs(d)'
    BY <1>3, <1>4, StageIs DEF Stage, Running, Settled, ListsOrgs, Listing
  <1>6. Goes(d)
    BY <1>1, <1>3, <1>4, <1>5 DEF Goes
  <1>7. Calm(d)
    BY <1>6 DEF Calm
  <1>8. Honest(d)
    BY <1>3, <1>4, <1>7, CalmIsHonest
  <1> QED
    BY <1>3, <1>4, <1>5, <1>7, <1>8

LEMMA GetAssetDetailStep ==
    ASSUME RInv, NEW c \in Calls, GetAssetDetail(c)
    PROVE  RInv' /\ \A d \in Calls : Honest(d)
  <1>1. /\ Types /\ call[c].step = "ready" /\ Running(c) /\ Stage(c) = "detail"
        /\ call[c].step \notin Idle
    BY DEF RInv, GetAssetDetail, Running, Settled, Idle
  <1>2. /\ Sound(call[c]) /\ ~ListsOrgs(c) /\ call[c].asset \in Assets /\ call[c].todo # <<>>
        /\ call[c].todo[1] = "detail"
    BY <1>1, HasStage DEF Sound, Listing
  <1>3. /\ bearer' = bearer /\ login' = login /\ orgId' = orgId /\ details' = details
        /\ endpoint' = endpoint /\ expiries' = expiries
        /\ details' \in Seq(Assets) /\ Len(details') <= DetailLimit /\ endpoint' \in BOOLEAN
    BY <1>1 DEF GetAssetDetail, Types
  <1>4. CASE /\ call' = [call EXCEPT ![c] = Advanced(@)]
             /\ UNCHANGED fetching
    <2>1. PICK s : s = Advanced(call[c])
      OBVIOUS
    <2>2. Sound(s) /\ call' = [call EXCEPT ![c] = s]
      BY <1>1, <1>2, <1>4, <2>1, AdvancedSound
    <2>3. /\ call'[c] = s /\ \A d \in Calls \ {c} : call'[d] = call[d]
          /\ call' \in [Calls -> Record] /\ \A d \in Calls : Sound(call'[d])
      BY <1>1, <2>2, OneCall
    <2>4. Calm(c) /\ FetchesOn(c) /\ call'[c].step \in {"ok", "ready"}
      BY <1>1, <1>2, <2>1, <2>3, AdvanceIsCalm
    <2>5. Honest(c)
      BY <1>1, <2>4, CalmIsHonest
    <2>6. \A d \in Calls : Calm(d) /\ FetchesOn(d) /\ Honest(d)
      BY <1>4, <2>3, <2>4, <2>5, SameIsCalm
    <2> QED
      BY <1>1, <1>3, <1>4, <2>3, <2>6, CalmStep DEF Types
  <1>5. CASE /\ call' = [call EXCEPT ![c].step = "joined", ![c].on = fetching[call[c].asset]]
             /\ UNCHANGED fetching
    <2>1. PICK s : s = [call[c] EXCEPT !.step = "joined", !.on = fetching[call[c].asset]]
      OBVIOUS
    <2>2. s \in Record
      BY <1>1, <1>2, <2>1 DEF Types, Sound, Record, Step
    <2>3. /\ s.todo = call[c].todo /\ s.kind = call[c].kind /\ s.asset = call[c].asset
          /\ s.org = call[c].org /\ s.prev = call[c].prev /\ s.mixed = call[c].mixed
          /\ s.since = call[c].since /\ s.second = call[c].second /\ s.step = "joined"
      BY <1>2, <2>1 DEF Sound, Record
    <2>4. Sound(s)
      BY <1>1, <1>2, <2>2, <2>3, SoundAgain
    <2>5. call' = [call EXCEPT ![c] = s]
      BY <1>5, <2>1
    <2>6. /\ call'[c] = s /\ \A d \in Calls \ {c} : call'[d] = call[d]
          /\ call' \in [Calls -> Record] /\ \A d \in Calls : Sound(call'[d])
      BY <1>1, <2>4, <2>5, OneCall
    <2>7. Calm(c) /\ FetchesOn(c) /\ Honest(c)
      BY <1>1, <1>5, <2>3, <2>6, PauseIsCalm
    <2>8. \A d \in Calls : Calm(d) /\ FetchesOn(d) /\ Honest(d)
      BY <1>5, <2>6, <2>7, SameIsCalm
    <2> QED
      BY <1>1, <1>3, <1>5, <2>6, <2>8, CalmStep DEF Types
  <1>6. CASE /\ fetching[call[c].asset] = None
             /\ call' = [call EXCEPT ![c] = Become(@, "fetch")]
             /\ fetching' = [fetching EXCEPT ![call[c].asset] = c]
    <2>1. PICK s : s = Become(call[c], "fetch")
      OBVIOUS
    <2>2. "fetch" \in Requests \ Listing
      BY DEF Requests, Listing
    <2>3. Sound(s) /\ call' = [call EXCEPT ![c] = s]
      BY <1>1, <1>2, <1>6, <2>1, <2>2, BecomeSound DEF Listing
    <2>4. /\ call'[c] = s /\ \A d \in Calls \ {c} : call'[d] = call[d]
          /\ call' \in [Calls -> Record] /\ \A d \in Calls : Sound(call'[d])
      BY <1>1, <2>3, OneCall
    <2>5. /\ Calm(c) /\ Honest(c) /\ call'[c].asset = call[c].asset
          /\ Running(c)' /\ Stage(c)' = "fetch"
      BY <1>1, <1>2, <2>1, <2>2, <2>4, BecomeIsCalm
    <2>6. \A d \in Calls \ {c} : Calm(d)
      BY <2>4 DEF Calm, Stays
    <2>7. \A d \in Calls : Honest(d)
      BY <2>4, <2>5, <2>6, CalmIsHonest
    <2>8. \A d \in Calls : Calm(d)
      BY <2>5, <2>6
    <2>9. /\ fetching' \in [Assets -> Calls \cup {None}] /\ fetching'[call[c].asset] = c
          /\ \A b \in Assets \ {call[c].asset} : fetching'[b] = fetching[b]
      BY <1>1, <1>2, <1>6 DEF Types
    <2>10. ASSUME NEW d \in Calls PROVE Fetches(d)'
      <3>1. CASE d = c
        BY <2>5, <2>9, <3>1 DEF Fetches
      <3>2. CASE d # c
        <4>1. SUFFICES ASSUME expiries' = 0, Running(d)', Stage(d)' = "fetch"
                       PROVE  fetching'[call'[d].asset] = d
          BY DEF Fetches
        <4>2. Running(d) /\ Stage(d) = "fetch" /\ call'[d] = call[d]
          BY <2>4, <3>2, <4>1, SameCall
        <4>3. fetching[call[d].asset] = d
          BY <1>3, <4>1, <4>2 DEF RInv, Fetches
        <4>4. call[d].asset \in Assets
          BY <1>1, <4>2, HasStage DEF Sound
        <4>5. d # None
          BY RestAssumption
        <4> QED
          BY <1>6, <2>9, <4>2, <4>3, <4>4, <4>5
      <3> QED
        BY <3>1, <3>2
    <2>11. Types' /\ Logins'
      BY <1>1, <1>3, <2>4, <2>9 DEF RInv, Types, Logins
    <2>12. \A d \in Calls : Timely(d)'
      BY <1>1, <1>3, <2>8, CalmTimely DEF RInv
    <2>13. \A d \in Calls : Keeps(d)'
      BY <1>1, <1>3, <2>8, CalmKeeps DEF RInv
    <2> QED
      BY <2>7, <2>10, <2>11, <2>12, <2>13 DEF RInv
  <1> QED
    BY <1>4, <1>5, <1>6 DEF GetAssetDetail

LEMMA GetSmartEndpointStep ==
    ASSUME RInv, NEW c \in Calls, GetSmartEndpoint(c)
    PROVE  RInv' /\ \A d \in Calls : Honest(d)
  <1>1. /\ Types /\ call[c].step = "ready" /\ Running(c) /\ Stage(c) = "endpoint"
        /\ call[c].step \notin Idle
    BY DEF RInv, GetSmartEndpoint, Running, Settled, Idle
  <1>2. Sound(call[c]) /\ ~ListsOrgs(c)
    BY <1>1, HasStage DEF Listing
  <1>3. /\ bearer' = bearer /\ login' = login /\ orgId' = orgId /\ details' = details
        /\ endpoint' = endpoint /\ expiries' = expiries /\ fetching' = fetching
    BY DEF GetSmartEndpoint, Caches
  <1>4. PICK s : s = IF endpoint THEN Advanced(call[c]) ELSE Become(call[c], "lookup")
    OBVIOUS
  <1>5. "lookup" \in Requests \ Listing
    BY DEF Requests, Listing
  <1>6. Sound(s) /\ call' = [call EXCEPT ![c] = s]
    <2>1. Sound(Advanced(call[c]))
      BY <1>1, <1>2, AdvancedSound
    <2>2. Sound(Become(call[c], "lookup"))
      BY <1>1, <1>2, <1>5, BecomeSound DEF Listing
    <2> QED
      BY <1>4, <2>1, <2>2 DEF GetSmartEndpoint
  <1>7. /\ call'[c] = s /\ \A d \in Calls \ {c} : call'[d] = call[d]
        /\ call' \in [Calls -> Record] /\ \A d \in Calls : Sound(call'[d])
    BY <1>1, <1>6, OneCall
  <1>8. Calm(c) /\ FetchesOn(c) /\ Honest(c)
    <2>1. CASE endpoint
      <3>1. Calm(c) /\ FetchesOn(c)
        BY <1>1, <1>2, <1>4, <1>7, <2>1, AdvanceIsCalm
      <3> QED
        BY <1>1, <3>1, CalmIsHonest
    <2>2. CASE ~endpoint
      <3>1. Calm(c) /\ Honest(c) /\ Stage(c)' = "lookup"
        BY <1>1, <1>2, <1>4, <1>5, <1>7, <2>2, BecomeIsCalm
      <3> QED
        BY <3>1 DEF FetchesOn
    <2> QED
      BY <2>1, <2>2
  <1>9. \A d \in Calls : Calm(d) /\ FetchesOn(d) /\ Honest(d)
    BY <1>3, <1>7, <1>8, SameIsCalm
  <1> QED
    BY <1>1, <1>3, <1>7, <1>9, CalmStep DEF Types

\* A call that is marked, because the organisation moves under it.
Marked(r, s) ==
    /\ Sound(s) /\ s.step = r.step /\ s.todo = r.todo /\ s.since = r.since
    /\ s.second = r.second /\ s.bearer = r.bearer /\ s.asset = r.asset /\ s.kind = r.kind
    /\ s.org = r.org /\ s.prev = r.prev

LEMMA MarkSound ==
    ASSUME NEW r, Sound(r), NEW b \in BOOLEAN
    PROVE  Marked(r, [r EXCEPT !.mixed = b]) /\ [r EXCEPT !.mixed = b].mixed = b
  <1> DEFINE s == [r EXCEPT !.mixed = b]
  <1>1. s \in Record
    BY DEF Sound, Record
  <1>2. /\ s.step = r.step /\ s.todo = r.todo /\ s.since = r.since
        /\ s.second = r.second /\ s.bearer = r.bearer /\ s.asset = r.asset
        /\ s.kind = r.kind /\ s.org = r.org /\ s.prev = r.prev
    BY DEF Sound, Record
  <1>3. s.mixed = b
    BY DEF Sound, Record
  <1> HIDE DEF s
  <1>4. Marked(r, s)
    BY <1>1, <1>2 DEF Marked, Sound
  <1> QED
    BY <1>3, <1>4 DEF s

LEMMA MarkedCall ==
    ASSUME NEW d \in Calls, Marked(call[d], call'[d])
    PROVE  /\ Running(d)' <=> Running(d)
           /\ Stage(d)' = Stage(d)
           /\ ListsOrgs(d)' <=> ListsOrgs(d)
  BY DEF Marked, Running, Stage, ListsOrgs

LEMMA ListAccessibleOrgsStep ==
    ASSUME RInv, NEW c \in Calls, ListAccessibleOrgs(c)
    PROVE  RInv' /\ \A d \in Calls : Honest(d)
  <1>1. /\ Types /\ call[c].step = "ready" /\ Running(c) /\ Stage(c) = "orgs"
        /\ call[c].step \notin Idle
    BY DEF RInv, ListAccessibleOrgs, Running, Settled, Idle
  <1>2. /\ Sound(call[c]) /\ ~ListsOrgs(c) /\ call[c].todo # <<>> /\ call[c].kind \in OwnOrg
    <2>1. Sound(call[c]) /\ ~ListsOrgs(c) /\ call[c].todo # <<>> /\ call[c].todo[1] = "orgs"
      BY <1>1, HasStage DEF Listing
    <2>2. call[c].todo \in Seq(Stages)
      BY <2>1 DEF Sound, Record
    <2>3. 1 \in 1..Len(call[c].todo)
      BY <2>1, <2>2
    <2> QED
      BY <2>1, <2>3 DEF Sound, Listing
  <1>3. /\ bearer' = bearer /\ login' = login /\ orgId' = Global /\ details' = details
        /\ endpoint' = endpoint /\ expiries' = expiries /\ fetching' = fetching
    BY DEF ListAccessibleOrgs, Caches
  <1>4. /\ call'[c] = [Become(call[c], "global") EXCEPT !.prev = orgId]
        /\ \A d \in Calls \ {c} : call'[d] = [call[d] EXCEPT !.mixed = @ \/ Running(d)]
        /\ call' = [d \in Calls |-> call'[d]]
    BY DEF ListAccessibleOrgs
  <1>5. PICK s : s = Become(call[c], "global")
    OBVIOUS
  <1>6. /\ Sound(s) /\ s.step = "ready" /\ s.todo # <<>> /\ s.todo[1] = "global"
        /\ s.kind = call[c].kind /\ s.asset = call[c].asset /\ s.org = call[c].org
        /\ s.mixed = call[c].mixed /\ s.since = call[c].since /\ s.second = call[c].second
    <2>1. "global" \in Requests
      BY DEF Requests
    <2> QED
      BY <1>1, <1>2, <1>5, <2>1, BecomeSound
  <1>7. PICK t : t = [s EXCEPT !.prev = orgId]
    OBVIOUS
  <1>8. t \in Record
    BY <1>1, <1>6, <1>7 DEF Sound, Record, Types
  <1>9. /\ t.step = "ready" /\ t.todo = s.todo /\ t.kind = s.kind /\ t.asset = s.asset
        /\ t.org = s.org /\ t.mixed = s.mixed /\ t.since = s.since /\ t.second = s.second
        /\ t.prev = orgId
    BY <1>6, <1>7 DEF Sound, Record
  <1>10. Sound(t)
    BY <1>6, <1>8, <1>9, SoundAgain DEF Idle, Settled
  <1>11. call'[c] = t
    BY <1>4, <1>5, <1>7
  <1>12. ASSUME NEW d \in Calls \ {c}
         PROVE  Marked(call[d], call'[d]) /\ (Running(d) => call'[d].mixed)
    <2>1. PICK b \in BOOLEAN : b = (call[d].mixed \/ Running(d))
      OBVIOUS
    <2>2. call'[d] = [call[d] EXCEPT !.mixed = b]
      BY <1>4, <2>1
    <2>3. Sound(call[d])
      BY <1>1 DEF Types
    <2>4. Marked(call[d], [call[d] EXCEPT !.mixed = b]) /\ [call[d] EXCEPT !.mixed = b].mixed = b
      BY <2>1, <2>3, MarkSound, Zenon
    <2> QED
      BY <2>1, <2>2, <2>4
  <1>13. Running(c)' /\ Stage(c)' = "global"
    BY <1>6, <1>9, <1>10, <1>11, StageIs DEF Running, Stage, Settled
  <1>14. \A d \in Calls : Sound(call'[d])
    BY <1>10, <1>11, <1>12 DEF Marked
  <1>15. Types'
    <2>1. call' \in [Calls -> Record]
      BY <1>4, <1>14, AllCalls
    <2>2. Global \in AnyOrg
      BY DEF AnyOrg
    <2> QED
      BY <1>1, <1>3, <1>14, <2>1, <2>2 DEF Types
  <1>16. Logins'
    BY <1>3 DEF RInv, Logins
  <1>17. ASSUME NEW d \in Calls PROVE Timely(d)' /\ Fetches(d)' /\ Keeps(d)' /\ Honest(d)
    <2>1. Timely(d) /\ Fetches(d)
      BY DEF RInv
    <2>2. CASE d = c
      <3>1. Timely(d)'
        BY <1>1, <1>3, <1>6, <1>9, <1>11, <2>1, <2>2 DEF Timely
      <3>2. Fetches(d)'
        BY <1>13, <2>2 DEF Fetches
      <3>3. Keeps(d)'
        <4>1. SUFFICES ASSUME ~call'[c].mixed
                       PROVE  /\ \A e \in Calls : ListsOrgs(e)' => e = c
                              /\ call'[c].prev = call'[c].org /\ call'[c].step # "picking"
                              /\ ListsOrgs(c)'
          BY <2>2 DEF Keeps
        <4>2. /\ \A e \in Calls : ListsOrgs(e) => e = c
              /\ orgId = call[c].org
          BY <1>1, <1>2, <1>6, <1>9, <1>11, <4>1 DEF RInv, Keeps
        <4>3. \A e \in Calls \ {c} : ListsOrgs(e)' <=> ListsOrgs(e)
          BY <1>12, MarkedCall
        <4>4. ListsOrgs(c)'
          BY <1>6, <1>9, <1>11, <1>13 DEF ListsOrgs
        <4> QED
          BY <1>6, <1>9, <1>11, <4>2, <4>3, <4>4
      <3>4. Honest(d)
        BY <1>1, <1>9, <1>11, <2>2 DEF Honest, SendsInOrg
      <3> QED
        BY <3>1, <3>2, <3>3, <3>4
    <2>3. CASE d # c
      <3>1. Marked(call[d], call'[d]) /\ (Running(d) => call'[d].mixed)
        BY <1>12, <2>3
      <3>2. Timely(d)'
        BY <1>3, <2>1, <3>1 DEF Timely, Marked
      <3>3. Fetches(d)'
        BY <1>3, <2>1, <3>1, MarkedCall DEF Fetches, Marked
      <3>4. Keeps(d)'
        BY <3>1, MarkedCall DEF Keeps
      <3>5. Honest(d)
        BY <3>1 DEF Honest, SendsInOrg, Marked
      <3> QED
        BY <3>2, <3>3, <3>4, <3>5
    <2> QED
      BY <2>2, <2>3
  <1> QED
    BY <1>15, <1>16, <1>17 DEF RInv

LEMMA EnsureAuthTokenStep ==
    ASSUME RInv, NEW c \in Calls, EnsureAuthToken(c)
    PROVE  RInv' /\ \A d \in Calls : Honest(d)
  <1>1. /\ Types /\ call[c].step = "ready" /\ Running(c) /\ call[c].step \notin Idle
        /\ Sound(call[c])
    BY DEF RInv, EnsureAuthToken, Running, Settled, Idle, Types
  <1>2. /\ bearer' = bearer /\ orgId' = orgId /\ details' = details /\ bearer = None
        /\ endpoint' = endpoint /\ expiries' = expiries /\ fetching' = fetching
        /\ login' = IF login = NoLogin THEN [attempt |-> "first", since |-> expiries] ELSE login
    BY DEF EnsureAuthToken, Caches
  <1>3. PICK s : s = [call[c] EXCEPT !.step = "login"]
    OBVIOUS
  <1>4. s \in Record
    BY <1>1, <1>3 DEF Sound, Record, Step
  <1>5. /\ s.todo = call[c].todo /\ s.kind = call[c].kind /\ s.asset = call[c].asset
        /\ s.org = call[c].org /\ s.prev = call[c].prev /\ s.mixed = call[c].mixed
        /\ s.since = call[c].since /\ s.second = call[c].second /\ s.step = "login"
    BY <1>1, <1>3 DEF Sound, Record
  <1>6. Sound(s)
    BY <1>1, <1>4, <1>5, SoundAgain
  <1>7. call' = [call EXCEPT ![c] = s]
    BY <1>3 DEF EnsureAuthToken
  <1>8. /\ call'[c] = s /\ \A d \in Calls \ {c} : call'[d] = call[d]
        /\ call' \in [Calls -> Record] /\ \A d \in Calls : Sound(call'[d])
    BY <1>1, <1>6, <1>7, OneCall
  <1>9. Calm(c) /\ FetchesOn(c) /\ Honest(c)
    BY <1>1, <1>2, <1>5, <1>8, PauseIsCalm
  <1>10. \A d \in Calls : Calm(d) /\ FetchesOn(d) /\ Honest(d)
    BY <1>2, <1>8, <1>9, SameIsCalm
  <1>11. login' \in [attempt : {"none", "first", "last"}, since : 0..MaxExpiries]
    BY <1>1, <1>2 DEF Types
  <1>12. Types' /\ Logins'
    BY <1>1, <1>2, <1>8, <1>11 DEF Types, Logins
  <1>13. ASSUME NEW d \in Calls PROVE Timely(d)'
    <2>1. Timely(d) /\ expiries \in Nat /\ call[d].since \in Nat
      BY <1>1 DEF RInv, Types, Sound, Record
    <2>2. /\ call'[d].since = call[d].since /\ call'[d].second = call[d].second
          /\ call'[d].step = "sent" => call'[d] = call[d]
      BY <1>5, <1>8
    <2>3. CASE login = NoLogin
      <3>1. login'.since = expiries
        BY <1>2, <2>3
      <3> QED
        BY <1>2, <2>1, <2>2, <3>1 DEF Timely
    <2>4. CASE login # NoLogin
      BY <1>2, <2>1, <2>2, <2>4 DEF Timely
    <2> QED
      BY <2>3, <2>4
  <1>14. \A d \in Calls : Keeps(d)'
    BY <1>2, <1>10, CalmKeeps DEF RInv
  <1>15. \A d \in Calls : Fetches(d)'
    <2>1. expiries' \in Nat /\ expiries' >= expiries
      BY <1>1, <1>2 DEF Types
    <2> QED
      BY <1>1, <1>10, <2>1, FetchesKept DEF RInv
  <1> QED
    BY <1>10, <1>12, <1>13, <1>14, <1>15 DEF RInv

LEMMA SendStep ==
    ASSUME RInv, NEW c \in Calls, Send(c)
    PROVE  RInv' /\ \A d \in Calls : Honest(d)
  <1>1. /\ Types /\ call[c].step = "ready" /\ Running(c) /\ call[c].step \notin Idle
        /\ Sound(call[c]) /\ bearer # None /\ bearer \in Nat /\ expiries \in Nat
    BY DEF RInv, Send, Running, Settled, Idle, Types
  <1>2. /\ bearer' = bearer /\ orgId' = orgId /\ details' = details /\ login' = login
        /\ endpoint' = endpoint /\ expiries' = expiries /\ fetching' = fetching
    BY DEF Send, Caches
  <1>3. PICK g \in BOOLEAN : g = (bearer = expiries)
    OBVIOUS
  <1>4. PICK n \in Nat : n = IF call[c].second THEN call[c].since ELSE expiries
    BY <1>1 DEF Sound, Record
  <1>5. PICK s : s = [call[c] EXCEPT !.step = "sent", !.bearer = bearer, !.good = g,
                                     !.since = n]
    OBVIOUS
  <1>6. s \in Record
    <2>1. PICK r : r = [call[c] EXCEPT !.step = "sent", !.bearer = bearer, !.since = n]
      OBVIOUS
    <2>2. r \in Record
      BY <1>1, <1>4, <2>1 DEF Sound, Record, Step
    <2>3. s = [r EXCEPT !.good = g]
      BY <1>5, <2>1
    <2> QED
      BY <1>3, <2>2, <2>3 DEF Record
  <1>7. /\ s.todo = call[c].todo /\ s.kind = call[c].kind /\ s.asset = call[c].asset
        /\ s.org = call[c].org /\ s.prev = call[c].prev /\ s.mixed = call[c].mixed
        /\ s.since = n /\ s.second = call[c].second /\ s.step = "sent" /\ s.bearer = bearer
    BY <1>1, <1>5 DEF Sound, Record
  <1>8. Sound(s)
    BY <1>1, <1>6, <1>7, SoundAgain
  <1>9. call' = [call EXCEPT ![c] = s]
    BY <1>3, <1>4, <1>5 DEF Send
  <1>10. /\ call'[c] = s /\ \A d \in Calls \ {c} : call'[d] = call[d]
         /\ call' \in [Calls -> Record] /\ \A d \in Calls : Sound(call'[d])
    BY <1>1, <1>8, <1>9, OneCall
  <1>11. Types' /\ Logins'
    BY <1>1, <1>2, <1>10 DEF RInv, Types, Logins
  <1>12. \A d \in Calls : /\ Running(d)' <=> Running(d)
                          /\ Stage(d)' = Stage(d)
                          /\ ListsOrgs(d)' <=> ListsOrgs(d)
    <2>1. /\ Running(c)' <=> Running(c)
          /\ Stage(c)' = Stage(c)
          /\ ListsOrgs(c)' <=> ListsOrgs(c)
      BY <1>1, <1>7, <1>10 DEF Running, Stage, ListsOrgs, Settled
    <2> QED
      BY <1>10, <2>1, SameCall
  <1>13. ASSUME NEW d \in Calls PROVE Timely(d)' /\ Fetches(d)' /\ Keeps(d)' /\ Honest(d)
    <2>1. Timely(d) /\ Fetches(d) /\ Keeps(d)
      BY DEF RInv
    <2>2. CASE d = c
      <3>1. Timely(d)'
        <4>1. login = NoLogin
          BY <1>1 DEF RInv, Logins
        <4> QED
          BY <1>1, <1>2, <1>4, <1>7, <1>10, <2>1, <2>2, <4>1 DEF Timely
      <3>2. Fetches(d)'
        BY <1>2, <1>7, <1>10, <1>12, <2>1, <2>2 DEF Fetches
      <3>3. Keeps(d)'
        BY <1>1, <1>2, <1>7, <1>10, <1>12, <2>1, <2>2 DEF Keeps
      <3>4. Honest(d)
        <4>1. SendsInOrg(c) => call[c].kind \in OwnOrg
          BY <1>1 DEF SendsInOrg, Sound, Record
        <4> QED
          BY <1>1, <2>1, <2>2, <4>1 DEF Honest, SendsInOrg, Keeps
      <3> QED
        BY <3>1, <3>2, <3>3, <3>4
    <2>3. CASE d # c
      <3>1. call'[d] = call[d]
        BY <1>10, <2>3
      <3> QED
        BY <1>2, <1>12, <2>1, <3>1 DEF Timely, Fetches, Keeps, Honest, SendsInOrg
    <2> QED
      BY <2>2, <2>3
  <1> QED
    BY <1>11, <1>13 DEF RInv

----------------------------------------------------------------------------
\* The calls that end.

LEMMA DropKeeps ==
    ASSUME RInv, NEW cs \in SUBSET Calls, \A c \in cs : Running(c),
           fetching' = DropFetches(cs), expiries' = expiries,
           \A d \in Calls : Running(d)' /\ Stage(d)' = "fetch" =>
               /\ Running(d) /\ Stage(d) = "fetch" /\ d \notin cs
               /\ call'[d].asset = call[d].asset
    PROVE  /\ \A d \in Calls : Fetches(d)'
           /\ fetching' \in [Assets -> Calls \cup {None}]
  <1>1. fetching' \in [Assets -> Calls \cup {None}]
    BY DEF DropFetches, RInv, Types
  <1>2. ASSUME NEW d \in Calls PROVE Fetches(d)'
    <2>1. SUFFICES ASSUME expiries' = 0, Running(d)', Stage(d)' = "fetch"
                   PROVE  fetching'[call'[d].asset] = d
      BY DEF Fetches
    <2>2. /\ Running(d) /\ Stage(d) = "fetch" /\ d \notin cs
          /\ call'[d].asset = call[d].asset /\ fetching[call[d].asset] = d
      BY <2>1 DEF RInv, Fetches
    <2>3. call[d].asset \in Assets
      BY <2>2, HasStage DEF Sound, RInv
    <2>4. call[d].asset \notin FetchedBy(cs)
      <3>1. \A c \in cs : Stage(c) = "fetch" => fetching[call[c].asset] = c
        BY <2>1 DEF RInv, Fetches
      <3> QED
        BY <2>2, <3>1 DEF FetchedBy
    <2> QED
      BY <2>2, <2>3, <2>4 DEF DropFetches
  <1> QED
    BY <1>1, <1>2

LEMMA FailStep ==
    ASSUME RInv, NEW cs \in SUBSET Calls, NEW how \in Settled, Fail(cs, how),
           \A c \in cs : Running(c), bearer' = bearer, login' \in {login, NoLogin},
           expiries' = expiries,
           \A c \in cs : call[c].step = "sent" /\ how = "refused" => expiries > call[c].since
    PROVE  RInv' /\ \A d \in Calls : Honest(d)
  <1> DEFINE over == cs \cup JoinedOn(cs)
  <1>1. Types
    BY DEF RInv
  <1>2. /\ \A d \in Calls : call'[d] = IF d \in over THEN Ended(how) ELSE call[d]
        /\ call' = [d \in Calls |-> call'[d]]
        /\ details' = details /\ endpoint' = endpoint /\ fetching' = DropFetches(cs)
    BY DEF Fail
  <1>3. \A d \in JoinedOn(cs) : d \in Calls /\ call[d].step = "joined"
    BY DEF JoinedOn
  <1>4. over \subseteq Calls
    BY <1>3
  <1> HIDE DEF over
  <1>5. \A d \in Calls : Sound(call'[d])
    BY <1>1, <1>2, EndedSound DEF Types
  <1>6. call' \in [Calls -> Record]
    BY <1>2, <1>5, AllCalls
  <1>7. \A d \in over : /\ call'[d].step = how /\ call'[d].since = 0 /\ call'[d].second = FALSE
                        /\ ~Running(d)' /\ Ends(d)
    BY <1>2, <1>4, EndedSound DEF Running, Ends, Settled
  <1>8. \A d \in Calls \ over : call'[d] = call[d]
    BY <1>2
  <1>9. \A d \in Calls : Calm(d)
    BY <1>7, <1>8 DEF Calm, Stays
  <1>10. ASSUME NEW d \in Calls PROVE Honest(d)
    <2>1. CASE d \in cs
      <3>1. d \in over
        BY <2>1 DEF over
      <3> QED
        BY <1>7, <2>1, <3>1 DEF Honest, SendsInOrg, Settled
    <2>2. CASE d \in JoinedOn(cs)
      BY <1>3, <1>9, <2>2, CalmIsHonest
    <2>3. CASE d \notin over
      BY <1>8, <1>9, <2>3, CalmIsHonest
    <2> QED
      BY <2>1, <2>2, <2>3 DEF over
  <1>11. (\A d \in Calls : Fetches(d)') /\ fetching' \in [Assets -> Calls \cup {None}]
    <2>1. ASSUME NEW d \in Calls, Running(d)', Stage(d)' = "fetch"
          PROVE  /\ Running(d) /\ Stage(d) = "fetch" /\ d \notin cs
                 /\ call'[d].asset = call[d].asset
      <3>1. d \notin over
        BY <1>7, <2>1
      <3>2. call'[d] = call[d]
        BY <1>8, <3>1
      <3> QED
        BY <2>1, <3>1, <3>2, SameCall DEF over
    <2> QED
      BY <1>2, <2>1, DropKeeps
  <1>12. /\ orgId' \in AnyOrg /\ \A d \in Calls : Keeps(d)'
    <2>1. CASE \E c \in cs : ListsOrgs(c)
      <3>1. PICK c \in cs : ListsOrgs(c) /\ orgId' = call[c].prev
        BY <2>1 DEF Fail, RestoreOrg
      <3>2. orgId' \in AnyOrg
        BY <1>1, <3>1 DEF Types, Record
      <3>3. ASSUME NEW d \in Calls PROVE Keeps(d)'
        <4>1. CASE d \in over
          BY <1>7, <4>1 DEF Keeps
        <4>2. CASE d \notin over
          <5>1. d # c /\ call'[d] = call[d]
            BY <1>8, <3>1, <4>2 DEF over
          <5>2. Running(d) => call[d].mixed
            BY <3>1, <5>1 DEF RInv, Keeps
          <5> QED
            BY <5>1, <5>2, SameCall DEF Keeps
        <4> QED
          BY <4>1, <4>2
      <3> QED
        BY <3>2, <3>3
    <2>2. CASE ~ \E c \in cs : ListsOrgs(c)
      <3>1. orgId' = orgId
        BY <2>2 DEF Fail, RestoreOrg
      <3> QED
        BY <1>1, <1>9, <3>1, CalmKeeps DEF RInv, Types
    <2> QED
      BY <2>1, <2>2
  <1>13. \A d \in Calls : Timely(d)'
    BY <1>1, <1>9, CalmTimely DEF RInv
  <1>14. NoLogin \in [attempt : {"none", "first", "last"}, since : 0..MaxExpiries]
    BY RestAssumption DEF NoLogin
  <1>15. Types' /\ Logins'
    BY <1>1, <1>2, <1>5, <1>6, <1>11, <1>12, <1>14 DEF Types, RInv, Logins
  <1> QED
    BY <1>10, <1>11, <1>12, <1>13, <1>15 DEF RInv

LEMMA LoginFailedStep ==
    ASSUME RInv, LoginFailed
    PROVE  RInv' /\ \A d \in Calls : Honest(d)
  <1>1. \A c \in InLogin : Running(c) /\ call[c].step # "sent"
    BY DEF InLogin, Running, Settled
  <1>2. InLogin \in SUBSET Calls /\ "failed" \in Settled
    BY DEF InLogin, Settled
  <1> QED
    BY <1>1, <1>2, FailStep DEF LoginFailed

LEMMA RequestFailedStep ==
    ASSUME RInv, NEW c \in Calls, RequestFailed(c)
    PROVE  RInv' /\ \A d \in Calls : Honest(d)
  <1>1. Running(c) /\ {c} \in SUBSET Calls /\ "failed" \in Settled
    BY DEF RequestFailed, Running, Settled
  <1> QED
    BY <1>1, FailStep DEF RequestFailed, Others

LEMMA UnauthorizedStep ==
    ASSUME RInv, NEW c \in Calls, Unauthorized(c)
    PROVE  RInv' /\ \A d \in Calls : Honest(d)
  <1>1. /\ Types /\ call[c].step = "sent" /\ Running(c) /\ call[c].step \notin Idle
        /\ Sound(call[c]) /\ call[c].bearer \in Nat /\ call[c].bearer < expiries
        /\ expiries \in Nat /\ login' = login /\ expiries' = expiries
    BY DEF RInv, Unauthorized, Running, Settled, Idle, Types, Sound
  <1>2. CASE /\ ~call[c].second
             /\ ResetRestAuth
             /\ call' = [call EXCEPT ![c].step = "ready", ![c].second = TRUE]
             /\ UNCHANGED orgId
    <2>1. PICK s : s = [call[c] EXCEPT !.step = "ready", !.second = TRUE]
      OBVIOUS
    <2>2. s \in Record
      BY <1>1, <2>1 DEF Sound, Record, Step
    <2>3. /\ s.todo = call[c].todo /\ s.kind = call[c].kind /\ s.asset = call[c].asset
          /\ s.org = call[c].org /\ s.prev = call[c].prev /\ s.mixed = call[c].mixed
          /\ s.since = call[c].since /\ s.step = "ready" /\ s.second = TRUE
      BY <1>1, <2>1 DEF Sound, Record
    <2>4. Sound(s)
      BY <1>1, <2>2, <2>3, SoundAgain
    <2>5. call' = [call EXCEPT ![c] = s]
      BY <1>2, <2>1
    <2>6. /\ call'[c] = s /\ \A d \in Calls \ {c} : call'[d] = call[d]
          /\ call' \in [Calls -> Record] /\ \A d \in Calls : Sound(call'[d])
      BY <1>1, <2>4, <2>5, OneCall
    <2>7. /\ bearer' = None /\ details' = <<>> /\ fetching' = [a \in Assets |-> None]
          /\ endpoint' = FALSE /\ orgId' = orgId
      BY <1>2 DEF ResetRestAuth
    <2>8. details' \in Seq(Assets) /\ Len(details') <= DetailLimit
      BY <2>7, RestAssumption
    <2>9. fetching' \in [Assets -> Calls \cup {None}]
      BY <2>7
    <2>10. Types' /\ Logins'
      BY <1>1, <2>6, <2>7, <2>8, <2>9 DEF Types, Logins
    <2>11. expiries' # 0
      BY <1>1
    <2>12. \A d \in Calls : /\ Running(d)' <=> Running(d)
                            /\ ListsOrgs(d)' <=> ListsOrgs(d)
      <3>1. Running(c)' /\ (ListsOrgs(c)' <=> ListsOrgs(c))
        BY <1>1, <2>3, <2>6 DEF Running, ListsOrgs, Stage, Settled
      <3> QED
        BY <1>1, <2>6, <3>1, SameCall
    <2>13. ASSUME NEW d \in Calls PROVE Timely(d)' /\ Fetches(d)' /\ Keeps(d)' /\ Honest(d)
      <3>1. Timely(d) /\ Keeps(d)
        BY DEF RInv
      <3>2. Fetches(d)'
        BY <2>11 DEF Fetches
      <3>3. CASE d = c
        <4>1. Timely(d)'
          BY <1>1, <2>3, <2>6, <2>7, <3>1, <3>3 DEF Timely
        <4>2. Keeps(d)'
          BY <1>1, <2>3, <2>6, <2>7, <2>12, <3>1, <3>3 DEF Keeps
        <4>3. Honest(d)
          BY <1>1, <2>3, <2>6, <3>3 DEF Honest, SendsInOrg
        <4> QED
          BY <3>2, <4>1, <4>2, <4>3
      <3>4. CASE d # c
        <4>1. call'[d] = call[d]
          BY <2>6, <3>4
        <4>2. Timely(d)'
          BY <1>1, <2>7, <3>1, <4>1 DEF Timely
        <4>3. Keeps(d)'
          BY <2>7, <2>12, <3>1, <4>1 DEF Keeps
        <4>4. Honest(d)
          BY <4>1 DEF Honest, SendsInOrg
        <4> QED
          BY <3>2, <4>2, <4>3, <4>4
      <3> QED
        BY <3>3, <3>4
    <2> QED
      BY <2>10, <2>13 DEF RInv
  <1>3. CASE /\ call[c].second
             /\ Fail({c}, "refused")
             /\ UNCHANGED bearer
    <2>1. call[c].since \in Nat
      BY <1>1 DEF Sound, Record
    <2>2. expiries > call[c].since
      BY <1>1, <1>3, <2>1 DEF RInv, Timely
    <2>3. {c} \in SUBSET Calls /\ "refused" \in Settled
      BY DEF Settled
    <2> QED
      BY <1>1, <1>3, <2>2, <2>3, FailStep
  <1> QED
    BY <1>2, <1>3 DEF Unauthorized

----------------------------------------------------------------------------
\* The login.

LEMMA LoginGrantedStep ==
    ASSUME RInv, LoginGranted
    PROVE  RInv' /\ \A d \in Calls : Honest(d)
  <1>1. /\ Types /\ login # NoLogin /\ login.since \in 0..MaxExpiries
        /\ expiries \in 0..MaxExpiries
    BY DEF RInv, Types, LoginGranted
  <1>2. PICK issued \in login.since..expiries : bearer' = issued
    BY DEF LoginGranted
  <1>3. /\ orgId' = orgId /\ details' = details /\ login' = NoLogin
        /\ endpoint' = endpoint /\ expiries' = expiries /\ fetching' = fetching
    BY DEF LoginGranted, Caches
  <1>4. /\ call' = [d \in Calls |-> call'[d]]
        /\ \A d \in Calls : call'[d] = IF d \in InLogin THEN [call[d] EXCEPT !.step = "ready"]
                                       ELSE call[d]
    BY DEF LoginGranted
  <1>5. ASSUME NEW d \in Calls
        PROVE  /\ Calm(d) /\ FetchesOn(d) /\ Honest(d) /\ Sound(call'[d])
               /\ call'[d].since = call[d].since /\ call'[d].second = call[d].second
               /\ call'[d].step = "sent" => call'[d] = call[d]
    <2>1. Sound(call[d])
      BY <1>1 DEF Types
    <2>2. CASE d \in InLogin
      <3>1. call[d].step = "login" /\ Running(d) /\ call[d].step \notin Idle
        BY <2>2 DEF InLogin, Running, Settled, Idle
      <3>2. PICK s : s = [call[d] EXCEPT !.step = "ready"]
        OBVIOUS
      <3>3. s \in Record
        BY <2>1, <3>2 DEF Sound, Record, Step
      <3>4. /\ s.todo = call[d].todo /\ s.kind = call[d].kind /\ s.asset = call[d].asset
            /\ s.org = call[d].org /\ s.prev = call[d].prev /\ s.mixed = call[d].mixed
            /\ s.since = call[d].since /\ s.second = call[d].second /\ s.step = "ready"
        BY <2>1, <3>2 DEF Sound, Record
      <3>5. Sound(s)
        BY <2>1, <3>1, <3>3, <3>4, SoundAgain
      <3>6. call'[d] = s
        BY <1>4, <2>2, <3>2
      <3>7. Calm(d) /\ FetchesOn(d) /\ Honest(d)
        BY <1>1, <1>3, <3>1, <3>4, <3>6, PauseIsCalm
      <3> QED
        BY <3>4, <3>5, <3>6, <3>7
    <2>3. CASE d \notin InLogin
      <3>1. call'[d] = call[d]
        BY <1>4, <2>3
      <3> QED
        BY <1>3, <2>1, <3>1, SameIsCalm
    <2> QED
      BY <2>2, <2>3
  <1>6. Types'
    <2>1. call' \in [Calls -> Record]
      BY <1>4, <1>5, AllCalls
    <2>2. bearer' \in 0..MaxExpiries
      BY <1>1, <1>2, RestAssumption
    <2>3. NoLogin \in [attempt : {"none", "first", "last"}, since : 0..MaxExpiries]
      BY RestAssumption DEF NoLogin
    <2> QED
      BY <1>1, <1>3, <1>5, <2>1, <2>2, <2>3 DEF Types
  <1>7. Logins'
    BY <1>3 DEF Logins
  <1>8. ASSUME NEW d \in Calls PROVE Timely(d)'
    <2>1. Timely(d) /\ call[d].since \in Nat
      BY <1>1 DEF RInv, Types, Sound, Record
    <2>2. call[d].second => login.since >= call[d].since
      BY <1>1, <2>1 DEF Timely
    <2>3. bearer' \in Nat /\ bearer' >= login.since
      BY <1>1, <1>2
    <2> QED
      BY <1>1, <1>3, <1>5, <2>1, <2>2, <2>3 DEF Timely
  <1>9. \A d \in Calls : Keeps(d)'
    BY <1>3, <1>5, CalmKeeps DEF RInv
  <1>10. \A d \in Calls : Fetches(d)'
    <2>1. expiries' \in Nat /\ expiries' >= expiries
      BY <1>1, <1>3
    <2> QED
      BY <1>1, <1>5, <2>1, FetchesKept DEF RInv
  <1> QED
    BY <1>5, <1>6, <1>7, <1>8, <1>9, <1>10 DEF RInv

LEMMA TryOtherEncodingStep ==
    ASSUME RInv, TryOtherEncoding
    PROVE  RInv' /\ \A d \in Calls : Honest(d)
  <1>1. /\ orgId' = orgId /\ details' = details /\ bearer' = bearer /\ call' = call
        /\ endpoint' = endpoint /\ expiries' = expiries /\ fetching' = fetching
        /\ login' = [login EXCEPT !.attempt = "last"] /\ login.attempt = "first"
    BY DEF TryOtherEncoding, Caches
  <1>2. /\ login' \in [attempt : {"none", "first", "last"}, since : 0..MaxExpiries]
        /\ login'.since = login.since /\ login # NoLogin
    BY <1>1 DEF RInv, Types, NoLogin
  <1>3. Types' /\ Logins'
    BY <1>1, <1>2 DEF RInv, Types, Logins
  <1>4. \A d \in Calls : Timely(d)'
    BY <1>1, <1>2 DEF RInv, Timely
  <1>5. \A d \in Calls : Calm(d) /\ FetchesOn(d) /\ Honest(d)
    BY <1>1, SameIsCalm
  <1>6. \A d \in Calls : Keeps(d)'
    BY <1>1, <1>5, CalmKeeps DEF RInv
  <1>7. \A d \in Calls : Fetches(d)'
    <2>1. expiries' \in Nat /\ expiries' >= expiries
      BY <1>1 DEF RInv, Types
    <2> QED
      BY <1>5, <2>1, FetchesKept DEF RInv
  <1> QED
    BY <1>3, <1>4, <1>5, <1>6, <1>7 DEF RInv

LEMMA ExpireStep ==
    ASSUME RInv, Expire
    PROVE  RInv' /\ \A d \in Calls : Honest(d)
  <1>1. /\ orgId' = orgId /\ details' = details /\ bearer' = bearer /\ call' = call
        /\ endpoint' = endpoint /\ expiries' = expiries + 1 /\ fetching' = fetching
        /\ login' = login /\ expiries < MaxExpiries /\ expiries \in 0..MaxExpiries
    BY DEF Expire, Caches, RInv, Types
  <1>2. Types' /\ Logins'
    BY <1>1, RestAssumption DEF RInv, Types, Logins
  <1>3. ASSUME NEW d \in Calls PROVE Timely(d)'
    <2>1. Timely(d) /\ call[d].since \in Nat
      BY DEF RInv, Types, Sound, Record
    <2> QED
      BY <1>1, <2>1 DEF Timely
  <1>4. \A d \in Calls : Calm(d) /\ FetchesOn(d) /\ Honest(d)
    BY <1>1, SameIsCalm
  <1>5. \A d \in Calls : Keeps(d)'
    BY <1>1, <1>4, CalmKeeps DEF RInv
  <1>6. \A d \in Calls : Fetches(d)'
    <2>1. expiries' # 0
      BY <1>1
    <2> QED
      BY <2>1 DEF Fetches
  <1> QED
    BY <1>2, <1>3, <1>4, <1>5, <1>6 DEF RInv

----------------------------------------------------------------------------
\* The answers.

\* cacheAssetDetail keeps its limit.
LEMMA StoreDetailBounded ==
    ASSUME Types, NEW a \in Assets
    PROVE  StoreDetail(a) \in Seq(Assets) /\ Len(StoreDetail(a)) <= DetailLimit
  <1>1. details \in Seq(Assets) /\ Len(details) \in Nat /\ Len(details) <= DetailLimit
    BY DEF Types
  <1> DEFINE others == IF Contains(details, a)
                       THEN RemoveAt(details, CHOOSE i \in 1..Len(details) : details[i] = a)
                       ELSE details
  <1>3. others \in Seq(Assets) /\ Len(others) <= Len(details)
    <2>1. CASE Contains(details, a)
      <3>1. PICK i \in 1..Len(details) : others = RemoveAt(details, i)
        BY <2>1 DEF Contains
      <3>2. SubSeq(details, 1, i - 1) \in Seq(Assets) /\ Len(SubSeq(details, 1, i - 1)) = i - 1
        BY <1>1, <3>1
      <3>3. /\ SubSeq(details, i + 1, Len(details)) \in Seq(Assets)
            /\ Len(SubSeq(details, i + 1, Len(details))) = Len(details) - i
        BY <1>1, <3>1
      <3>4. others = SubSeq(details, 1, i - 1) \o SubSeq(details, i + 1, Len(details))
        BY <3>1 DEF RemoveAt
      <3> HIDE DEF others
      <3>5. others \in Seq(Assets) /\ Len(others) = i - 1 + (Len(details) - i)
        <4>1. PICK before \in Seq(Assets) : before = SubSeq(details, 1, i - 1)
          BY <3>2
        <4>2. PICK after \in Seq(Assets) : after = SubSeq(details, i + 1, Len(details))
          BY <3>3
        <4>3. others = before \o after
          BY <3>4, <4>1, <4>2
        <4>4. Len(before) = i - 1 /\ Len(after) = Len(details) - i
          BY <3>2, <3>3, <4>1, <4>2
        <4> QED
          <5>1. before \in Seq(Assets) /\ after \in Seq(Assets)
            BY <4>1, <4>2
          <5>2. /\ before \o after \in Seq(Assets)
                /\ Len(before \o after) = Len(before) + Len(after)
            BY <5>1, ConcatProperties
          <5> QED
            BY <4>3, <4>4, <5>2
      <3> QED
        BY <1>1, <3>1, <3>5
    <2>2. CASE ~Contains(details, a)
      BY <1>1, <2>2
    <2> QED
      BY <2>1, <2>2
  <1>4. StoreDetail(a) = IF Len(Append(others, a)) > DetailLimit THEN Tail(Append(others, a))
                         ELSE Append(others, a)
    BY DEF StoreDetail
  <1> HIDE DEF others
  <1> DEFINE stored == Append(others, a)
  <1>5. stored \in Seq(Assets) /\ Len(stored) = Len(others) + 1 /\ stored # <<>>
    BY <1>3, AppendProperties
  <1>6. StoreDetail(a) = IF Len(stored) > DetailLimit THEN Tail(stored) ELSE stored
    BY <1>4
  <1> HIDE DEF stored
  <1>7. Tail(stored) \in Seq(Assets) /\ Len(Tail(stored)) = Len(stored) - 1
    BY <1>5
  <1>8. Len(others) \in Nat /\ DetailLimit \in Nat
    BY <1>3, RestAssumption
  <1> QED
    BY <1>1, <1>3, <1>5, <1>6, <1>7, <1>8

LEMMA FetchDoneStep ==
    ASSUME RInv, NEW c \in Calls, call[c].step = "sent", Stage(c) = "fetch", FetchDone(c),
           bearer' = bearer, login' = login, expiries' = expiries
    PROVE  RInv' /\ \A d \in Calls : Honest(d)
  <1> DEFINE over == {c} \cup JoinedOn({c})
  <1>1. Types /\ Running(c) /\ Stage(c) = "fetch"
    BY DEF RInv, Running, Settled
  <1>2. call[c].asset \in Assets
    BY <1>1, HasStage DEF Sound
  <1>3. /\ details' = StoreDetail(call[c].asset) /\ fetching' = DropFetches({c})
        /\ orgId' = orgId /\ endpoint' = endpoint
        /\ call' = [d \in Calls |-> call'[d]]
        /\ \A d \in Calls : call'[d] = IF d \in over THEN Advanced(call[d]) ELSE call[d]
    BY DEF FetchDone
  <1>4. \A d \in over : /\ d \in Calls /\ Running(d) /\ ~ListsOrgs(d)
                        /\ call[d].step # "picking"
    <2>1. ~ListsOrgs(c)
      BY <1>1, HasStage DEF Listing
    <2>2. ASSUME NEW d \in JoinedOn({c})
          PROVE  d \in Calls /\ Running(d) /\ ~ListsOrgs(d) /\ call[d].step # "picking"
      <3>1. d \in Calls /\ call[d].step = "joined"
        BY DEF JoinedOn
      <3>2. Running(d)
        BY <3>1 DEF Running, Settled
      <3>3. Stage(d) = "detail"
        BY <1>1, <3>1, <3>2, HasStage DEF Sound
      <3> QED
        BY <1>1, <3>1, <3>2, <3>3, HasStage DEF Listing
    <2> QED
      BY <1>1, <2>1, <2>2
  <1>5. c \in over
    OBVIOUS
  <1> HIDE DEF over
  <1>6. \A d \in over : /\ Calm(d) /\ FetchesOn(d) /\ Sound(call'[d])
                        /\ call'[d].step \in {"ok", "ready"}
    BY <1>1, <1>3, <1>4, AdvanceIsCalm
  <1>7. \A d \in Calls \ over : call'[d] = call[d]
    BY <1>3
  <1>8. \A d \in Calls : Calm(d) /\ Honest(d) /\ Sound(call'[d])
    <2>1. \A d \in over : Honest(d)
      BY <1>4, <1>6, CalmIsHonest
    <2>2. \A d \in Calls \ over : Calm(d) /\ Honest(d) /\ Sound(call'[d])
      BY <1>1, <1>7, CalmIsHonest DEF Types, Calm, Stays
    <2> QED
      BY <1>6, <2>1, <2>2
  <1>9. (\A d \in Calls : Fetches(d)') /\ fetching' \in [Assets -> Calls \cup {None}]
    <2>1. ASSUME NEW d \in Calls, Running(d)', Stage(d)' = "fetch"
          PROVE  /\ Running(d) /\ Stage(d) = "fetch" /\ d \notin {c}
                 /\ call'[d].asset = call[d].asset
      <3>1. CASE d \in over
        <4>1. Advanced(call[d]) = Ended("ok") \/ Moved(call[d], Advanced(call[d]))
          BY <1>1, <1>4, <3>1, HasStage, AdvancedSound
        <4>2. Moved(call[d], call'[d])
          BY <1>3, <2>1, <3>1, <4>1, EndedSound DEF Running, Settled
        <4>3. Head(call'[d].todo) = call'[d].todo[1]
          BY <1>8, <4>2, StageIs DEF Moved
        <4> QED
          BY <2>1, <4>2, <4>3 DEF Moved, Stage, Later
      <3>2. CASE d \notin over
        BY <1>5, <1>7, <2>1, <3>2, SameCall
      <3> QED
        BY <3>1, <3>2
    <2> QED
      BY <1>1, <1>3, <2>1, DropKeeps
  <1>10. Types'
    <2>1. call' \in [Calls -> Record]
      BY <1>3, <1>8, AllCalls
    <2>2. details' \in Seq(Assets) /\ Len(details') <= DetailLimit
      BY <1>1, <1>2, <1>3, StoreDetailBounded
    <2> QED
      BY <1>1, <1>3, <1>8, <1>9, <2>1, <2>2 DEF Types
  <1>11. Logins'
    BY DEF RInv, Logins
  <1>12. \A d \in Calls : Timely(d)'
    BY <1>1, <1>8, CalmTimely DEF RInv
  <1>13. \A d \in Calls : Keeps(d)'
    BY <1>3, <1>8, CalmKeeps DEF RInv
  <1> QED
    BY <1>8, <1>9, <1>10, <1>11, <1>12, <1>13 DEF RInv

\* What a call that lists organisations means for the other calls.
LEMMA OthersAreMixed ==
    ASSUME RInv, NEW c \in Calls, ListsOrgs(c), NEW d \in Calls \ {c}, Running(d)
    PROVE  call[d].mixed
  BY DEF RInv, Keeps

\* A request that lists organisations is made by a call that has one of its own.
LEMMA ListerHasAnOrg ==
    ASSUME Types, NEW c \in Calls, ListsOrgs(c)
    PROVE  Running(c) /\ Sound(call[c]) /\ call[c].todo[1] \in Listing /\ call[c].kind \in OwnOrg
  <1>1. Running(c)
    BY DEF ListsOrgs
  <1>2. Sound(call[c]) /\ call[c].todo # <<>> /\ call[c].todo[1] \in Listing
    BY <1>1, HasStage
  <1>3. call[c].todo \in Seq(Stages)
    BY <1>2 DEF Sound, Record
  <1>4. 1 \in 1..Len(call[c].todo)
    BY <1>2, <1>3
  <1> QED
    BY <1>1, <1>2, <1>4 DEF Sound

LEMMA OrgsListedStep ==
    ASSUME RInv, NEW c \in Calls, call[c].step = "sent", ListsOrgs(c), OrgsListed(c),
           bearer' = bearer, login' = login, expiries' = expiries
    PROVE  RInv' /\ \A d \in Calls : Honest(d)
  <1>1. /\ Types /\ Sound(call[c]) /\ call[c].step \notin Idle /\ call[c].kind \in OwnOrg
        /\ call[c].todo[1] \in Listing /\ Running(c)
    BY ListerHasAnOrg DEF RInv, Idle, Settled
  <1>2. /\ orgId' = call[c].prev /\ details' = details /\ fetching' = fetching
        /\ endpoint' = endpoint
    BY DEF OrgsListed, Caches
  <1>3. PICK s : s = [call[c] EXCEPT !.step = "picking"]
    OBVIOUS
  <1>4. s \in Record
    BY <1>1, <1>3 DEF Sound, Record, Step
  <1>5. /\ s.todo = call[c].todo /\ s.kind = call[c].kind /\ s.asset = call[c].asset
        /\ s.org = call[c].org /\ s.prev = call[c].prev /\ s.mixed = call[c].mixed
        /\ s.since = call[c].since /\ s.second = call[c].second /\ s.step = "picking"
    BY <1>1, <1>3 DEF Sound, Record
  <1>6. Sound(s)
    BY <1>1, <1>4, <1>5, SoundAgain
  <1>7. call' = [call EXCEPT ![c] = s]
    BY <1>3 DEF OrgsListed
  <1>8. /\ call'[c] = s /\ \A d \in Calls \ {c} : call'[d] = call[d]
        /\ call' \in [Calls -> Record] /\ \A d \in Calls : Sound(call'[d])
    BY <1>1, <1>6, <1>7, OneCall
  <1>9. Types' /\ Logins'
    <2>1. orgId' \in AnyOrg
      BY <1>1, <1>2 DEF Sound, Record
    <2> QED
      BY <1>1, <1>2, <1>8, <2>1 DEF RInv, Types, Logins
  <1>10. \A d \in Calls : /\ Running(d)' <=> Running(d)
                          /\ Stage(d)' = Stage(d)
                          /\ ListsOrgs(d)' <=> ListsOrgs(d)
    <2>1. /\ Running(c)' <=> Running(c)
          /\ Stage(c)' = Stage(c)
          /\ ListsOrgs(c)' <=> ListsOrgs(c)
      BY <1>1, <1>5, <1>8 DEF Running, Stage, ListsOrgs, Settled
    <2> QED
      BY <1>8, <2>1, SameCall
  <1>11. ASSUME NEW d \in Calls PROVE Timely(d)' /\ Fetches(d)' /\ Keeps(d)' /\ Honest(d)
    <2>1. Timely(d) /\ Fetches(d) /\ Keeps(d)
      BY DEF RInv
    <2>2. CASE d = c
      <3>1. Timely(d)'
        BY <1>5, <1>8, <2>1, <2>2 DEF Timely
      <3>2. Fetches(d)'
        BY <1>2, <1>5, <1>8, <1>10, <2>1, <2>2 DEF Fetches
      <3>3. Keeps(d)'
        BY <1>1, <1>2, <1>5, <1>8, <1>10, <2>1, <2>2 DEF Keeps
      <3>4. Honest(d)
        BY <1>5, <1>8, <2>2 DEF Honest, SendsInOrg
      <3> QED
        BY <3>1, <3>2, <3>3, <3>4
    <2>3. CASE d # c
      <3>1. call'[d] = call[d] /\ (Running(d) => call[d].mixed)
        BY <1>8, <2>3, OthersAreMixed
      <3> QED
        BY <1>2, <1>10, <2>1, <3>1 DEF Timely, Fetches, Keeps, Honest, SendsInOrg
    <2> QED
      BY <2>2, <2>3
  <1> QED
    BY <1>9, <1>11 DEF RInv

LEMMA AnswerStep ==
    ASSUME RInv, NEW c \in Calls, Answer(c)
    PROVE  RInv' /\ \A d \in Calls : Honest(d)
  <1>1. /\ Types /\ call[c].step = "sent" /\ Running(c) /\ call[c].step \notin Idle
        /\ Sound(call[c]) /\ bearer' = bearer /\ login' = login /\ expiries' = expiries
    BY DEF RInv, Answer, Running, Settled, Idle, Types, Others
  <1>2. CASE Stage(c) = "fetch"
    <2>1. ~ListsOrgs(c)
      BY <1>1, <1>2, HasStage DEF Listing
    <2>2. FetchDone(c)
      BY <1>2, <2>1 DEF Answer
    <2> QED
      BY <1>1, <1>2, <2>2, FetchDoneStep
  <1>3. CASE Stage(c) # "fetch" /\ ListsOrgs(c)
    BY <1>1, <1>3, OrgsListedStep DEF Answer
  <1>4. CASE Stage(c) # "fetch" /\ ~ListsOrgs(c)
    <2>1. /\ call' = [call EXCEPT ![c] = Advanced(call[c])]
          /\ endpoint' = (endpoint \/ Stage(c) = "lookup")
          /\ orgId' = orgId /\ details' = details /\ fetching' = fetching
      BY <1>4 DEF Answer
    <2>2. PICK s : s = Advanced(call[c])
      OBVIOUS
    <2>3. Sound(s) /\ call' = [call EXCEPT ![c] = s]
      BY <1>1, <2>1, <2>2, AdvancedSound
    <2>4. /\ call'[c] = s /\ \A d \in Calls \ {c} : call'[d] = call[d]
          /\ call' \in [Calls -> Record] /\ \A d \in Calls : Sound(call'[d])
      BY <1>1, <2>3, OneCall
    <2>5. Calm(c) /\ FetchesOn(c) /\ call'[c].step \in {"ok", "ready"}
      BY <1>1, <1>4, <2>2, <2>4, AdvanceIsCalm
    <2>6. Honest(c)
      BY <2>5, CalmIsHonest
    <2>7. \A d \in Calls : Calm(d) /\ FetchesOn(d) /\ Honest(d)
      BY <2>1, <2>4, <2>5, <2>6, SameIsCalm
    <2>8. endpoint' \in BOOLEAN
      BY <1>1, <2>1 DEF Types
    <2> QED
      BY <1>1, <2>1, <2>4, <2>7, <2>8, CalmStep DEF Types
  <1> QED
    BY <1>2, <1>3, <1>4

LEMMA AskWithoutOrgStep ==
    ASSUME RInv, NEW c \in Calls, AskWithoutOrg(c)
    PROVE  RInv' /\ \A d \in Calls : Honest(d)
  <1>1. /\ Types /\ call[c].step = "sent" /\ Running(c) /\ call[c].step \notin Idle
        /\ Sound(call[c]) /\ Stage(c) = "global"
    BY DEF RInv, AskWithoutOrg, Running, Settled, Idle, Types
  <1>2. ListsOrgs(c) /\ call[c].kind \in OwnOrg
    <2>1. ListsOrgs(c)
      BY <1>1, HasStage DEF Listing
    <2> QED
      BY <1>1, <2>1, ListerHasAnOrg
  <1>3. /\ orgId' = Unset /\ details' = details /\ fetching' = fetching
        /\ endpoint' = endpoint /\ bearer' = bearer /\ login' = login /\ expiries' = expiries
    BY DEF AskWithoutOrg, Caches, Others
  <1>4. PICK s : s = Become(call[c], "unset")
    OBVIOUS
  <1>5. /\ Sound(s) /\ s.step = "ready" /\ s.todo # <<>> /\ s.todo[1] = "unset"
        /\ s.kind = call[c].kind /\ s.asset = call[c].asset /\ s.org = call[c].org
        /\ s.prev = call[c].prev /\ s.mixed = call[c].mixed /\ s.since = call[c].since
    <2>1. "unset" \in Requests
      BY DEF Requests
    <2> QED
      BY <1>1, <1>2, <1>4, <2>1, BecomeSound
  <1>6. PICK t : t = [s EXCEPT !.second = FALSE]
    OBVIOUS
  <1>7. t \in Record
    BY <1>5, <1>6 DEF Sound, Record
  <1>8. /\ t.step = "ready" /\ t.todo = s.todo /\ t.kind = s.kind /\ t.asset = s.asset
        /\ t.org = s.org /\ t.mixed = s.mixed /\ t.since = s.since /\ t.second = FALSE
        /\ t.prev = s.prev
    BY <1>5, <1>6 DEF Sound, Record
  <1>9. Sound(t)
    BY <1>5, <1>7, <1>8, SoundAgain DEF Idle, Settled
  <1>10. call' = [call EXCEPT ![c] = t]
    BY <1>4, <1>6 DEF AskWithoutOrg
  <1>11. /\ call'[c] = t /\ \A d \in Calls \ {c} : call'[d] = call[d]
         /\ call' \in [Calls -> Record] /\ \A d \in Calls : Sound(call'[d])
    BY <1>1, <1>9, <1>10, OneCall
  <1>12. Running(c)' /\ Stage(c)' = "unset" /\ ListsOrgs(c)'
    <2>1. Running(c)' /\ Stage(c)' = "unset"
      BY <1>5, <1>8, <1>9, <1>11, StageIs DEF Running, Stage, Settled
    <2> QED
      BY <1>5, <1>8, <1>11, <2>1 DEF ListsOrgs
  <1>13. \A d \in Calls \ {c} : /\ Running(d)' <=> Running(d)
                                /\ Stage(d)' = Stage(d)
                                /\ ListsOrgs(d)' <=> ListsOrgs(d)
    BY <1>11, SameCall
  <1>14. Types' /\ Logins'
    <2>1. Unset \in AnyOrg
      BY DEF AnyOrg
    <2> QED
      BY <1>1, <1>3, <1>11, <2>1 DEF RInv, Types, Logins
  <1>15. ASSUME NEW d \in Calls PROVE Timely(d)' /\ Fetches(d)' /\ Keeps(d)' /\ Honest(d)
    <2>1. Timely(d) /\ Fetches(d) /\ Keeps(d)
      BY DEF RInv
    <2>2. CASE d = c
      <3>1. Timely(d)'
        BY <1>3, <1>5, <1>8, <1>11, <2>1, <2>2 DEF Timely
      <3>2. Fetches(d)'
        BY <1>12, <2>2 DEF Fetches
      <3>3. Keeps(d)'
        BY <1>1, <1>2, <1>5, <1>8, <1>11, <1>12, <1>13, <2>1, <2>2 DEF Keeps
      <3>4. Honest(d)
        BY <1>1, <1>8, <1>11, <2>2 DEF Honest, SendsInOrg
      <3> QED
        BY <3>1, <3>2, <3>3, <3>4
    <2>3. CASE d # c
      <3>1. call'[d] = call[d] /\ (Running(d) => call[d].mixed)
        BY <1>2, <1>11, <2>3, OthersAreMixed
      <3> QED
        BY <1>3, <1>13, <2>1, <2>3, <3>1 DEF Timely, Fetches, Keeps, Honest, SendsInOrg
    <2> QED
      BY <2>2, <2>3
  <1> QED
    BY <1>14, <1>15 DEF RInv

LEMMA ThrottledStep ==
    ASSUME RInv, NEW c \in Calls, Throttled(c)
    PROVE  RInv' /\ \A d \in Calls : Honest(d)
  <1>1. /\ Types /\ call[c].step = "sent" /\ Running(c) /\ call[c].step \notin Idle
        /\ Sound(call[c]) /\ call[c].tries < RetryLimit
    BY DEF RInv, Throttled, Running, Settled, Idle, Types
  <1>2. /\ orgId' = orgId /\ details' = details /\ fetching' = fetching
        /\ endpoint' = endpoint /\ bearer' = bearer /\ login' = login /\ expiries' = expiries
    BY DEF Throttled, Caches, Others
  <1>3. PICK r : r = [call[c] EXCEPT !.step = "asleep", !.tries = @ + 1, !.second = FALSE]
    OBVIOUS
  <1>4. r \in Record
    <2>1. PICK n : n = call[c].tries + 1
      OBVIOUS
    <2>2. n \in 1..RetryLimit
      BY <1>1, <2>1 DEF Sound, Record, RetryLimit
    <2>3. r = [call[c] EXCEPT !.step = "asleep", !.tries = n, !.second = FALSE]
      BY <1>3, <2>1
    <2> QED
      BY <1>1, <2>2, <2>3 DEF Sound, Record, Step
  <1>5. PICK s : s = [r EXCEPT !.bearer = None, !.good = FALSE, !.since = 0]
    OBVIOUS
  <1>6. s \in Record
    BY <1>4, <1>5 DEF Record
  <1>7. /\ s.todo = call[c].todo /\ s.kind = call[c].kind /\ s.asset = call[c].asset
        /\ s.org = call[c].org /\ s.prev = call[c].prev /\ s.mixed = call[c].mixed
        /\ s.since = 0 /\ s.second = FALSE /\ s.step = "asleep"
    BY <1>1, <1>3, <1>4, <1>5 DEF Sound, Record
  <1>8. Sound(s)
    BY <1>1, <1>6, <1>7, SoundAgain
  <1>9. call' = [call EXCEPT ![c] = s]
    BY <1>1, <1>3, <1>5 DEF Throttled, Sound, Record
  <1>10. /\ call'[c] = s /\ \A d \in Calls \ {c} : call'[d] = call[d]
         /\ call' \in [Calls -> Record] /\ \A d \in Calls : Sound(call'[d])
    BY <1>1, <1>8, <1>9, OneCall
  <1>11. Calm(c) /\ FetchesOn(c) /\ Honest(c)
    BY <1>1, <1>2, <1>7, <1>10, PauseIsCalm
  <1>12. \A d \in Calls : Calm(d) /\ FetchesOn(d) /\ Honest(d)
    BY <1>2, <1>10, <1>11, SameIsCalm
  <1> QED
    BY <1>1, <1>2, <1>10, <1>12, CalmStep DEF Types

LEMMA WakeStep ==
    ASSUME RInv, NEW c \in Calls, Wake(c)
    PROVE  RInv' /\ \A d \in Calls : Honest(d)
  <1>1. /\ Types /\ call[c].step = "asleep" /\ Running(c) /\ call[c].step \notin Idle
        /\ Sound(call[c])
    BY DEF RInv, Wake, Running, Settled, Idle, Types
  <1>2. /\ orgId' = orgId /\ details' = details /\ fetching' = fetching
        /\ endpoint' = endpoint /\ bearer' = bearer /\ login' = login /\ expiries' = expiries
    BY DEF Wake, Caches, Others
  <1>3. PICK s : s = [call[c] EXCEPT !.step = "ready"]
    OBVIOUS
  <1>4. s \in Record
    BY <1>1, <1>3 DEF Sound, Record, Step
  <1>5. /\ s.todo = call[c].todo /\ s.kind = call[c].kind /\ s.asset = call[c].asset
        /\ s.org = call[c].org /\ s.prev = call[c].prev /\ s.mixed = call[c].mixed
        /\ s.since = call[c].since /\ s.second = call[c].second /\ s.step = "ready"
    BY <1>1, <1>3 DEF Sound, Record
  <1>6. Sound(s)
    BY <1>1, <1>4, <1>5, SoundAgain
  <1>7. call' = [call EXCEPT ![c] = s]
    BY <1>3 DEF Wake
  <1>8. /\ call'[c] = s /\ \A d \in Calls \ {c} : call'[d] = call[d]
        /\ call' \in [Calls -> Record] /\ \A d \in Calls : Sound(call'[d])
    BY <1>1, <1>6, <1>7, OneCall
  <1>9. Calm(c) /\ FetchesOn(c) /\ Honest(c)
    BY <1>1, <1>2, <1>5, <1>8, PauseIsCalm
  <1>10. \A d \in Calls : Calm(d) /\ FetchesOn(d) /\ Honest(d)
    BY <1>2, <1>8, <1>9, SameIsCalm
  <1> QED
    BY <1>1, <1>2, <1>8, <1>10, CalmStep DEF Types

LEMMA PickStep ==
    ASSUME RInv, NEW c \in Calls, Pick(c)
    PROVE  RInv' /\ \A d \in Calls : Honest(d)
  <1>1. /\ Types /\ call[c].step = "picking" /\ Running(c) /\ call[c].step \notin Idle
        /\ Sound(call[c]) /\ call[c].todo # <<>> /\ ListsOrgs(c) /\ call[c].kind \in OwnOrg
    <2>1. /\ Types /\ call[c].step = "picking" /\ Running(c) /\ call[c].step \notin Idle
          /\ Sound(call[c])
      BY DEF RInv, Pick, Running, Settled, Idle, Types
    <2>2. call[c].todo # <<>> /\ ListsOrgs(c)
      BY <2>1, HasStage DEF Sound
    <2> QED
      BY <2>1, <2>2, ListerHasAnOrg
  <1>2. /\ details' = details /\ fetching' = fetching
        /\ endpoint' = endpoint /\ bearer' = bearer /\ login' = login /\ expiries' = expiries
    BY DEF Pick, Caches, Others
  <1>3. ASSUME NEW org \in Orgs, orgId' = org,
               call' = [d \in Calls |->
                    IF d = c THEN [Advanced(call[c]) EXCEPT !.org = org]
                    ELSE [call[d] EXCEPT !.mixed = @ \/ (Running(d) /\ org # orgId)]]
        PROVE  RInv' /\ \A d \in Calls : Honest(d)
    <2>1. PICK s : s = Advanced(call[c])
      OBVIOUS
    <2>2. Sound(s) /\ (s = Ended("ok") \/ Moved(call[c], s))
      BY <1>1, <2>1, AdvancedSound
    <2>3. PICK t : t = [s EXCEPT !.org = org]
      OBVIOUS
    <2>4. t \in Record
      BY <2>2, <2>3 DEF Sound, Record, AnyOrg
    <2>5. /\ t.step = s.step /\ t.todo = s.todo /\ t.kind = s.kind /\ t.asset = s.asset
          /\ t.mixed = s.mixed /\ t.since = s.since /\ t.second = s.second
          /\ t.org = org /\ t.bearer = s.bearer
      BY <2>2, <2>3 DEF Sound, Record
    <2>6. Sound(t)
      BY <2>2, <2>4, <2>5 DEF Sound
    <2>7. /\ call'[c] = t
          /\ \A d \in Calls \ {c} :
                 call'[d] = [call[d] EXCEPT !.mixed = @ \/ (Running(d) /\ org # orgId)]
          /\ call' = [d \in Calls |-> call'[d]]
      BY <1>3, <2>1, <2>3
    <2>8. ASSUME NEW d \in Calls \ {c}
          PROVE  Marked(call[d], call'[d]) /\ (Running(d) => call'[d].mixed)
      <3>1. PICK b \in BOOLEAN : b = (call[d].mixed \/ (Running(d) /\ org # orgId))
        OBVIOUS
      <3>2. call'[d] = [call[d] EXCEPT !.mixed = b]
        BY <2>7, <3>1
      <3>3. Sound(call[d])
        BY <1>1 DEF Types
      <3>4. Marked(call[d], [call[d] EXCEPT !.mixed = b]) /\ [call[d] EXCEPT !.mixed = b].mixed = b
        BY <3>1, <3>3, MarkSound, Zenon
      <3>5. Running(d) => b
        BY <1>1, <3>1, OthersAreMixed
      <3> QED
        BY <3>2, <3>4, <3>5
    <2>9. /\ t.step \in {"ok", "ready"} /\ t.since = 0 /\ ~t.second
          /\ t.step = "ready" => t.todo # <<>> /\ t.todo[1] \in Later /\ t.mixed = call[c].mixed
      <3>1. CASE s = Ended("ok")
        BY <2>5, <3>1, EndedSound DEF Settled
      <3>2. CASE Moved(call[c], s)
        BY <2>5, <3>2 DEF Moved
      <3> QED
        BY <2>2, <3>1, <3>2
    <2>10. ~ListsOrgs(c)' /\ ~(Running(c)' /\ Stage(c)' = "fetch")
           /\ (Running(c)' => t.step = "ready")
      <3>1. CASE t.step = "ok"
        BY <2>7, <3>1 DEF ListsOrgs, Running, Settled
      <3>2. CASE t.step = "ready"
        <4>1. Stage(c)' = t.todo[1]
          BY <2>6, <2>7, <2>9, <3>2, StageIs DEF Stage
        <4> QED
          BY <2>9, <3>2, <4>1 DEF ListsOrgs, Later
      <3> QED
        BY <2>9, <3>1, <3>2
    <2>11. \A d \in Calls : Sound(call'[d])
      BY <2>6, <2>7, <2>8 DEF Marked
    <2>12. Types'
      <3>1. call' \in [Calls -> Record]
        BY <2>7, <2>11, AllCalls
      <3>2. org \in AnyOrg
        BY DEF AnyOrg
      <3> QED
        BY <1>1, <1>2, <1>3, <2>11, <3>1, <3>2 DEF Types
    <2>13. Logins'
      BY <1>2 DEF RInv, Logins
    <2>14. ASSUME NEW d \in Calls PROVE Timely(d)' /\ Fetches(d)' /\ Keeps(d)' /\ Honest(d)
      <3>1. Timely(d) /\ Fetches(d) /\ Keeps(d)
        BY DEF RInv
      <3>2. CASE d = c
        <4>1. Timely(d)'
          BY <1>1, <1>2, <2>7, <2>9, <3>2 DEF Timely, Types
        <4>2. Fetches(d)'
          BY <2>10, <3>2 DEF Fetches
        <4>3. Keeps(d)'
          <5>1. SUFFICES ASSUME Running(c)', ~call'[c].mixed
                         PROVE  /\ \A e \in Calls : ListsOrgs(e)' => e = c
                                /\ ~ListsOrgs(c)' /\ orgId' = call'[c].org
            BY <3>2 DEF Keeps
          <5>2. ~call[c].mixed
            BY <2>7, <2>9, <2>10, <5>1
          <5>3. \A e \in Calls : ListsOrgs(e) => e = c
            BY <1>1, <5>2 DEF RInv, Keeps
          <5>4. \A e \in Calls \ {c} : ListsOrgs(e)' <=> ListsOrgs(e)
            BY <2>8, MarkedCall
          <5> QED
            BY <1>3, <2>5, <2>7, <2>10, <5>3, <5>4
        <4>4. Honest(d)
          BY <1>1, <3>2 DEF Honest, SendsInOrg
        <4> QED
          BY <4>1, <4>2, <4>3, <4>4
      <3>3. CASE d # c
        <4>1. Marked(call[d], call'[d]) /\ (Running(d) => call'[d].mixed)
          BY <2>8, <3>3
        <4>2. Timely(d)'
          BY <1>2, <3>1, <4>1 DEF Timely, Marked
        <4>3. Fetches(d)'
          BY <1>2, <3>1, <4>1, MarkedCall DEF Fetches, Marked
        <4>4. Keeps(d)'
          BY <4>1, MarkedCall DEF Keeps
        <4>5. Honest(d)
          BY <4>1 DEF Honest, SendsInOrg, Marked
        <4> QED
          BY <4>2, <4>3, <4>4, <4>5
      <3> QED
        BY <3>2, <3>3
    <2> QED
      BY <2>12, <2>13, <2>14 DEF RInv
  <1>4. CASE call' = [call EXCEPT ![c] = Ended("ok")] /\ UNCHANGED orgId
    <2>1. PICK s : s = Ended("ok")
      OBVIOUS
    <2>2. Sound(s) /\ s.step = "ok" /\ s.since = 0 /\ s.second = FALSE
      BY <2>1, EndedSound DEF Settled
    <2>3. call' = [call EXCEPT ![c] = s]
      BY <1>4, <2>1
    <2>4. /\ call'[c] = s /\ \A d \in Calls \ {c} : call'[d] = call[d]
          /\ call' \in [Calls -> Record] /\ \A d \in Calls : Sound(call'[d])
      BY <1>1, <2>2, <2>3, OneCall
    <2>5. Calm(c) /\ FetchesOn(c)
      BY <2>2, <2>4 DEF Calm, Ends, FetchesOn, Running, Settled
    <2>6. Honest(c)
      BY <1>1, <2>5, CalmIsHonest
    <2>7. \A d \in Calls : Calm(d) /\ FetchesOn(d) /\ Honest(d)
      BY <1>2, <2>4, <2>5, <2>6, SameIsCalm
    <2> QED
      BY <1>1, <1>2, <1>4, <2>4, <2>7, CalmStep DEF Types
  <1> QED
    BY <1>3, <1>4 DEF Pick

----------------------------------------------------------------------------
\* The invariant is one.

LEMMA InitRInv == Init => RInv
  <1> SUFFICES ASSUME Init PROVE RInv
    OBVIOUS
  <1>1. \A c \in Calls : call[c] = NoCall
    BY DEF Init
  <1>2. \A c \in Calls : /\ Sound(call[c]) /\ call[c].step = "idle"
                         /\ call[c].since = 0 /\ call[c].second = FALSE /\ ~Running(c)
    BY <1>1, NoCallSound DEF Running
  <1>3. call \in [Calls -> Record]
    BY NoCallSound DEF Init, Sound
  <1>4. details \in Seq(Assets) /\ Len(details) <= DetailLimit
    BY RestAssumption DEF Init
  <1>5. fetching \in [Assets -> Calls \cup {None}]
    BY DEF Init
  <1>6. login \in [attempt : {"none", "first", "last"}, since : 0..MaxExpiries]
    BY RestAssumption DEF Init, NoLogin
  <1>7. Types
    <2>1. orgId \in AnyOrg
      BY DEF Init, AnyOrg
    <2>2. bearer = None /\ endpoint = FALSE
      BY DEF Init
    <2>3. expiries \in 0..MaxExpiries
      <3>1. expiries = 0
        BY DEF Init
      <3> QED
        BY <3>1, RestAssumption
    <2> QED
      BY <1>2, <1>3, <1>4, <1>5, <1>6, <2>1, <2>2, <2>3 DEF Types
  <1>8. \A c \in Calls : Timely(c) /\ Fetches(c) /\ Keeps(c)
    BY <1>2 DEF Timely, Fetches, Keeps, Init
  <1> QED
    BY <1>7, <1>8 DEF RInv, Logins, Init

\* Every step keeps the invariant, and is honest to every call.
LEMMA NextRInv ==
    ASSUME RInv, [Next]_vars
    PROVE  RInv' /\ \A d \in Calls : Honest(d)
  <1>1. CASE UNCHANGED vars
    <2>1. /\ orgId' = orgId /\ details' = details /\ bearer' = bearer /\ call' = call
          /\ endpoint' = endpoint /\ expiries' = expiries /\ fetching' = fetching
          /\ login' = login
      BY <1>1 DEF vars
    <2>2. \A d \in Calls : Calm(d) /\ FetchesOn(d) /\ Honest(d)
      BY <2>1, SameIsCalm
    <2> QED
      BY <2>1, <2>2, CalmStep DEF RInv, Types
  <1>2. CASE Expire \/ LoginGranted \/ TryOtherEncoding \/ LoginFailed
    BY <1>2, ExpireStep, LoginGrantedStep, TryOtherEncodingStep, LoginFailedStep
  <1>3. ASSUME NEW c \in Calls, Acquire(c) \/ Peek(c) \/ Reconnect(c) \/ Wake(c) \/ Pick(c)
        PROVE  RInv' /\ \A d \in Calls : Honest(d)
    BY <1>3, AcquireStep, PeekStep, ReconnectStep, WakeStep, PickStep
  <1>4. ASSUME NEW c \in Calls, Turn(c)
        PROVE  RInv' /\ \A d \in Calls : Honest(d)
    BY <1>4, GetAssetDetailStep, GetSmartEndpointStep, ListAccessibleOrgsStep,
       EnsureAuthTokenStep, SendStep DEF Turn
  <1>5. ASSUME NEW c \in Calls, Answered(c)
        PROVE  RInv' /\ \A d \in Calls : Honest(d)
    BY <1>5, AnswerStep, UnauthorizedStep, AskWithoutOrgStep, ThrottledStep,
       RequestFailedStep DEF Answered
  <1> QED
    BY <1>1, <1>2, <1>3, <1>4, <1>5 DEF Next

LEMMA Invariance == Spec => []RInv
  <1>1. RInv /\ [Next]_vars => RInv'
    BY NextRInv
  <1> QED
    BY <1>1, InitRInv, PTL DEF Spec

----------------------------------------------------------------------------
\* The theorems.

\* The variables of the client have their types; the cache of details keeps its
\* limit, and a call has no more than RetryLimit attempts (cacheAssetDetail,
\* LISTING_RETRY_LIMIT).
THEOREM TypeCorrect == Spec => []TypeOK
  <1>1. RInv => TypeOK
    <2> SUFFICES ASSUME RInv PROVE TypeOK
      OBVIOUS
    <2>1. Types
      BY DEF RInv
    <2>2. \A c \in Calls :
            /\ call[c].todo \in Seq(Stages) /\ call[c].org \in AnyOrg /\ call[c].prev \in AnyOrg
            /\ call[c].asset \in Assets \cup {None} /\ call[c].on \in Calls \cup {None}
            /\ call[c].tries \in 1..RetryLimit /\ call[c].step \in Step
      BY <2>1 DEF Types, Sound, Record
    <2> QED
      BY <2>1, <2>2 DEF Types, TypeOK, Step, Idle
  <1> QED
    BY <1>1, Invariance, PTL

\* As long as no 401 has emptied the table of fetches, no two fetches of one
\* asset are under way (getAssetDetail, detailInflight).
THEOREM FetchesShared == Spec => []FetchesAreShared
  <1>1. RInv => FetchesAreShared
    <2> SUFFICES ASSUME RInv, ~(expiries > 0), NEW c \in Calls, NEW d \in Calls,
                        call[c].step \in {"login", "sent"}, Stage(c) = "fetch",
                        call[d].step \in {"login", "sent"}, Stage(d) = "fetch",
                        call[c].asset = call[d].asset
                 PROVE  c = d
      BY Zenon DEF FetchesAreShared
    <2>0. expiries = 0
      BY DEF RInv, Types
    <2>1. Running(c) /\ Running(d)
      BY DEF Running, Settled
    <2>2. fetching[call[c].asset] = c /\ fetching[call[d].asset] = d
      BY <2>0, <2>1 DEF RInv, Fetches
    <2> QED
      BY <2>2
  <1> QED
    BY <1>1, Invariance, PTL

\* A caller sees a 401 only when JumpServer has ended its sessions again since
\* the request was first sent (requestJson, resetRestAuth, loginRestBearer).
THEOREM ExpirySurvived == Spec => ExpiryIsSurvived
  <1>1. RInv /\ [Next]_vars =>
            [\A c \in Calls : (call[c].step = "sent" /\ call'[c].step = "refused")
                                  => expiries > call[c].since]_vars
    BY NextRInv DEF Honest
  <1> QED
    BY <1>1, Invariance, PTL DEF Spec, ExpiryIsSurvived

\* A call that no listing of organisations and no call for another organisation
\* overlaps sends its requests in its own (setOrgId, listAccessibleOrgs): always, if it
\* got the client from the pool (createClient); a terminal that connects again with
\* the client it has kept (reconnect), only if that is in its organisation by then.
THEOREM AloneInItsOrg == Spec => AloneStaysInItsOrg
  <1>1. RInv /\ [Next]_vars =>
            [\A c \in Calls : (SendsInOrg(c) /\ ~call[c].mixed) => orgId = call[c].org]_vars
    BY NextRInv DEF Honest
  <1> QED
    BY <1>1, Invariance, PTL DEF Spec, AloneStaysInItsOrg

----------------------------------------------------------------------------
\* Who waits for whom.

\* The table of fetches and those that joined point to calls that fetch the details of
\* the asset; who waits for a login waits for the one that is under way.
Tabled(a) ==
    fetching[a] # None => InFetch(fetching[a]) /\ call[fetching[a]].asset = a
Follows(c) ==
    call[c].step = "joined" => /\ call[c].on \in Calls /\ InFetch(call[c].on)
                               /\ call[call[c].on].asset = call[c].asset
Awaits(c) == call[c].step = "login" => login # NoLogin

ServedInv ==
    /\ \A a \in Assets : Tabled(a)
    /\ \A c \in Calls : Follows(c) /\ Awaits(c)

\* A fetch goes on, or nobody counts on it any more.
Proceeds(d) == InFetch(d) => InFetch(d)' /\ call'[d].asset = call[d].asset
Released(d) ==
    /\ \A a \in Assets : fetching'[a] # d
    /\ \A e \in Calls : call'[e].step = "joined" => call'[e].on # d

\* What concerns the fetches stays as it is.
Alike(d) ==
    /\ call'[d].step = call[d].step /\ call'[d].todo = call[d].todo
    /\ call'[d].asset = call[d].asset /\ call'[d].on = call[d].on

LEMMA AlikeProceeds == ASSUME NEW d, Alike(d) PROVE Proceeds(d)
  BY DEF Alike, Proceeds, InFetch, Stage

LEMMA ServesOn ==
    ASSUME Types, ServedInv,
           \A d \in Calls : Proceeds(d) \/ Released(d),
           \A a \in Assets : \/ fetching'[a] \in {None, fetching[a]}
                             \/ \E d \in Calls : /\ fetching'[a] = d /\ InFetch(d)'
                                                 /\ call'[d].asset = a,
           \A c \in Calls :
               call'[c].step = "joined" =>
                   \/ /\ call[c].step = "joined" /\ call'[c].on = call[c].on
                      /\ call'[c].asset = call[c].asset
                   \/ \E d \in Calls : /\ call'[c].on = d /\ InFetch(d)'
                                       /\ call'[d].asset = call'[c].asset,
           \A c \in Calls : call'[c].step = "login" => login' # NoLogin
    PROVE  ServedInv'
  <1>1. ASSUME NEW a \in Assets PROVE Tabled(a)'
    <2>1. CASE fetching'[a] = None
      BY <2>1 DEF Tabled
    <2>2. CASE fetching'[a] # None /\ fetching'[a] = fetching[a]
      <3>1. PICK d \in Calls : fetching[a] = d
        BY <2>2 DEF Types
      <3>2. InFetch(d) /\ call[d].asset = a
        BY <2>2, <3>1 DEF ServedInv, Tabled
      <3>3. Proceeds(d)
        BY <2>2, <3>1 DEF Released
      <3>4. InFetch(d)' /\ call'[d].asset = a
        BY <3>2, <3>3 DEF Proceeds
      <3> QED
        BY <2>2, <3>1, <3>4 DEF Tabled, InFetch, Stage
    <2>3. CASE \E d \in Calls : fetching'[a] = d /\ InFetch(d)' /\ call'[d].asset = a
      BY <2>3 DEF Tabled, InFetch, Stage
    <2> QED
      BY <2>1, <2>2, <2>3
  <1>2. ASSUME NEW c \in Calls PROVE Follows(c)'
    <2> SUFFICES ASSUME call'[c].step = "joined"
                 PROVE  \E d \in Calls : /\ call'[c].on = d /\ InFetch(d)'
                                         /\ call'[d].asset = call'[c].asset
      BY DEF Follows, InFetch, Stage
    <2>1. CASE /\ call[c].step = "joined" /\ call'[c].on = call[c].on
               /\ call'[c].asset = call[c].asset
      <3>1. PICK d \in Calls : call[c].on = d
        BY <2>1 DEF ServedInv, Follows
      <3>2. InFetch(d) /\ call[d].asset = call[c].asset
        BY <2>1, <3>1 DEF ServedInv, Follows
      <3>3. Proceeds(d)
        BY <2>1, <3>1 DEF Released
      <3> QED
        BY <2>1, <3>1, <3>2, <3>3 DEF Proceeds
    <2> QED
      BY <2>1
  <1> QED
    BY <1>1, <1>2 DEF ServedInv, Awaits

\* A step of one call that neither joins a fetch nor starts one.
LEMMA OneServes ==
    ASSUME Types, ServedInv, NEW c \in Calls, \A d \in Calls \ {c} : Alike(d),
           call'[c].step # "joined", Proceeds(c),
           \/ login' = login /\ call'[c].step # "login"
           \/ login' # NoLogin,
           fetching' = fetching \/ \A a \in Assets : fetching'[a] = None
    PROVE  ServedInv'
  <1>1. \A d \in Calls : Proceeds(d)
    BY AlikeProceeds
  <1>2. \A d \in Calls : call'[d].step = "joined" =>
            /\ call[d].step = "joined" /\ call'[d].on = call[d].on
            /\ call'[d].asset = call[d].asset
    BY DEF Alike
  <1>3. \A d \in Calls : call'[d].step = "login" => login' # NoLogin
    BY DEF Alike, ServedInv, Awaits
  <1> QED
    BY <1>1, <1>2, <1>3, ServesOn

\* The calls that fail let go of their fetches, and take with them who joined them.
LEMMA FailServes ==
    ASSUME Types, ServedInv, NEW cs \in SUBSET Calls, NEW how \in Settled, Fail(cs, how),
           login' = login \/ cs = InLogin
    PROVE  ServedInv'
  <1>0. /\ \A d \in Calls : call'[d] = IF d \in cs \cup JoinedOn(cs) THEN Ended(how) ELSE call[d]
        /\ \A a \in Assets : fetching'[a] = IF a \in FetchedBy(cs) THEN None ELSE fetching[a]
    BY DEF Fail, DropFetches
  <1>1. Ended(how).step \notin {"joined", "login"}
    BY EndedSound DEF Idle, Settled
  <1>2. ASSUME NEW d \in Calls PROVE Proceeds(d) \/ Released(d)
    <2>1. CASE d \in cs
      <3>1. ASSUME NEW a \in Assets, fetching'[a] = d PROVE FALSE
        <4>1. d # None
          BY RestAssumption
        <4>2. fetching[a] = d /\ a \notin FetchedBy(cs)
          BY <1>0, <3>1, <4>1
        <4>3. InFetch(d) /\ call[d].asset = a
          BY <4>1, <4>2 DEF ServedInv, Tabled
        <4> QED
          BY <2>1, <4>2, <4>3 DEF FetchedBy, InFetch
      <3>2. ASSUME NEW e \in Calls, call'[e].step = "joined" PROVE call'[e].on # d
        <4>1. e \notin cs \cup JoinedOn(cs) /\ call'[e] = call[e]
          BY <1>0, <1>1, <3>2
        <4> QED
          BY <2>1, <3>2, <4>1 DEF JoinedOn
      <3> QED
        BY <3>1, <3>2 DEF Released
    <2>2. CASE d \in JoinedOn(cs)
      BY <2>2 DEF JoinedOn, Proceeds, InFetch
    <2>3. CASE d \notin cs \cup JoinedOn(cs)
      BY <1>0, <2>3, AlikeProceeds DEF Alike
    <2> QED
      BY <2>1, <2>2, <2>3
  <1>3. \A c \in Calls : call'[c].step = "joined" =>
            /\ call[c].step = "joined" /\ call'[c].on = call[c].on
            /\ call'[c].asset = call[c].asset
    BY <1>0, <1>1
  <1>4. \A c \in Calls : call'[c].step = "login" => login' # NoLogin
    <2> SUFFICES ASSUME NEW c \in Calls, call'[c].step = "login" PROVE login' # NoLogin
      OBVIOUS
    <2>1. c \notin cs /\ call[c].step = "login"
      BY <1>0, <1>1
    <2> QED
      BY <2>1 DEF InLogin, ServedInv, Awaits
  <1> QED
    BY <1>0, <1>2, <1>3, <1>4, ServesOn

LEMMA BeginServes ==
    ASSUME RInv, ServedInv, NEW c \in Calls, Acquire(c) \/ Peek(c) \/ Reconnect(c)
    PROVE  ServedInv'
  <1>1. Types /\ call[c].step = "idle" /\ login' = login /\ fetching' = fetching
    BY DEF RInv, Acquire, Peek, Reconnect, Caches
  <1>2. \E kind, a, org, now : call' = Begun(c, kind, a, org, now)
    BY DEF Acquire, Peek, Reconnect
  <1>3. ASSUME NEW d \in Calls \ {c} PROVE Alike(d)
    <2>1. PICK now : call'[d] = [call[d] EXCEPT !.mixed = @ \/ (Running(d) /\ now # orgId)]
      BY <1>2 DEF Begun
    <2>2. call[d] \in Record
      BY <1>1 DEF Types
    <2> QED
      BY <2>1, <2>2 DEF Alike, Record
  <1>4. call'[c].step = "ready"
    BY <1>2 DEF Begun, NoCall
  <1>5. Proceeds(c)
    BY <1>1 DEF Proceeds, InFetch
  <1> QED
    BY <1>1, <1>3, <1>4, <1>5, OneServes

LEMMA AdvancedStep ==
    ASSUME NEW r, Sound(r), r.step \notin Idle
    PROVE  Advanced(r).step \notin {"joined", "login"}
  BY AdvancedSound, EndedSound DEF Moved, Settled

LEMMA GetAssetDetailServes ==
    ASSUME RInv, ServedInv, NEW c \in Calls, GetAssetDetail(c)
    PROVE  ServedInv'
  <1>1. /\ Types /\ call[c].step = "ready" /\ Running(c) /\ Stage(c) = "detail"
        /\ call[c].step \notin Idle /\ login' = login
    BY DEF RInv, GetAssetDetail, Running, Settled, Idle
  <1>2. Sound(call[c]) /\ call[c].asset \in Assets /\ ~InFetch(c)
    BY <1>1, HasStage DEF Sound, InFetch
  <1> DEFINE a == call[c].asset
  <1>3. CASE call' = [call EXCEPT ![c] = Advanced(@)] /\ UNCHANGED fetching
    <2>1. \A d \in Calls \ {c} : Alike(d)
      BY <1>3 DEF Alike
    <2>2. call'[c].step \notin {"joined", "login"}
      BY <1>1, <1>2, <1>3, AdvancedStep DEF Types
    <2> QED
      BY <1>1, <1>2, <1>3, <2>1, <2>2, OneServes DEF Proceeds
  <1>4. CASE /\ fetching[a] # None /\ UNCHANGED fetching
             /\ call' = [call EXCEPT ![c].step = "joined", ![c].on = fetching[a]]
    <2>1. PICK e \in Calls : fetching[a] = e
      BY <1>1, <1>2, <1>4 DEF Types
    <2>2. InFetch(e) /\ call[e].asset = a /\ e # c
      BY <1>2, <1>4, <2>1 DEF ServedInv, Tabled
    <2>3. /\ \A d \in Calls \ {c} : Alike(d)
          /\ call'[c].step = "joined" /\ call'[c].on = e /\ call'[c].asset = a
      BY <1>1, <1>4, <2>1 DEF Alike, Types, Record
    <2>4. \A d \in Calls : Proceeds(d)
      BY <1>2, <2>3, AlikeProceeds DEF Proceeds
    <2>5. InFetch(e)' /\ call'[e].asset = a
      BY <2>2, <2>4 DEF Proceeds
    <2>6. \A d \in Calls \ {c} : call'[d].step = "joined" =>
              /\ call[d].step = "joined" /\ call'[d].on = call[d].on
              /\ call'[d].asset = call[d].asset
      BY <2>3 DEF Alike
    <2>7. \A d \in Calls : call'[d].step = "login" => login' # NoLogin
      BY <1>1, <2>3 DEF Alike, ServedInv, Awaits
    <2>8. \A d \in Calls :
              call'[d].step = "joined" =>
                  \/ /\ call[d].step = "joined" /\ call'[d].on = call[d].on
                     /\ call'[d].asset = call[d].asset
                  \/ \E x \in Calls : /\ call'[d].on = x /\ InFetch(x)'
                                      /\ call'[x].asset = call'[d].asset
      <3> SUFFICES ASSUME NEW d \in Calls, call'[d].step = "joined"
                   PROVE  \/ /\ call[d].step = "joined" /\ call'[d].on = call[d].on
                             /\ call'[d].asset = call[d].asset
                          \/ \E x \in Calls : /\ call'[d].on = x /\ InFetch(x)'
                                              /\ call'[x].asset = call'[d].asset
        OBVIOUS
      <3>1. CASE d = c
        BY <2>3, <2>5, <3>1
      <3> QED
        BY <2>6, <3>1
    <2> QED
      BY <1>1, <1>4, <2>4, <2>7, <2>8, ServesOn
  <1>5. CASE /\ call' = [call EXCEPT ![c] = Become(@, "fetch")]
             /\ fetching' = [fetching EXCEPT ![a] = c]
    <2>1. /\ call'[c].step = "ready" /\ call'[c].todo # <<>> /\ call'[c].todo[1] = "fetch"
          /\ call'[c].asset = a /\ Sound(call'[c])
      <3>1. PICK s : s = Become(call[c], "fetch")
        OBVIOUS
      <3>2. call'[c] = s
        BY <1>1, <1>5, <3>1 DEF Types
      <3>3. "fetch" \in Requests /\ "fetch" \notin Listing
        BY DEF Requests, Listing
      <3> QED
        BY <1>1, <1>2, <3>1, <3>2, <3>3, BecomeSound
    <2>2. InFetch(c)'
      BY <2>1, StageIs DEF InFetch, Stage
    <2>3. \A d \in Calls \ {c} : Alike(d)
      BY <1>5 DEF Alike
    <2>4. \A d \in Calls : Proceeds(d)
      BY <1>2, <2>3, AlikeProceeds DEF Proceeds
    <2>5. \A d \in Calls : call'[d].step = "joined" =>
              /\ call[d].step = "joined" /\ call'[d].on = call[d].on
              /\ call'[d].asset = call[d].asset
      BY <2>1, <2>3 DEF Alike
    <2>6. \A d \in Calls : call'[d].step = "login" => login' # NoLogin
      BY <1>1, <2>1, <2>3 DEF Alike, ServedInv, Awaits
    <2>7. \A b \in Assets : \/ fetching'[b] \in {None, fetching[b]}
                            \/ \E d \in Calls : /\ fetching'[b] = d /\ InFetch(d)'
                                                /\ call'[d].asset = b
      <3> SUFFICES ASSUME NEW b \in Assets, fetching'[b] # fetching[b]
                   PROVE  \E d \in Calls : fetching'[b] = d /\ InFetch(d)' /\ call'[d].asset = b
        OBVIOUS
      <3>1. b = a /\ fetching'[b] = c
        BY <1>1, <1>5 DEF Types
      <3> QED
        BY <2>1, <2>2, <3>1
    <2> QED
      BY <1>1, <2>4, <2>5, <2>6, <2>7, ServesOn
  <1> QED
    BY <1>3, <1>4, <1>5 DEF GetAssetDetail

LEMMA TurnServes ==
    ASSUME RInv, ServedInv, NEW c \in Calls, Turn(c)
    PROVE  ServedInv'
  <1>1. Types /\ call[c].step = "ready" /\ Running(c) /\ call[c].step \notin Idle
    BY DEF RInv, Turn, GetAssetDetail, GetSmartEndpoint, ListAccessibleOrgs, EnsureAuthToken,
           Send, Running, Settled, Idle
  <1>2. Sound(call[c]) /\ call[c] \in Record
    BY <1>1 DEF Types
  <1>3. CASE GetAssetDetail(c)
    BY <1>3, GetAssetDetailServes
  <1>4. CASE GetSmartEndpoint(c)
    <2>1. PICK s : s = Become(call[c], "lookup")
      OBVIOUS
    <2>2. s.step = "ready"
      BY <1>2, <2>1 DEF Become, Record
    <2>3. call'[c] = IF endpoint THEN Advanced(call[c]) ELSE s
      BY <1>1, <1>4, <2>1 DEF GetSmartEndpoint, Types
    <2>4. /\ call'[c].step \notin {"joined", "login"} /\ \A d \in Calls \ {c} : Alike(d)
          /\ login' = login /\ fetching' = fetching /\ ~InFetch(c)
      <3>1. call'[c].step \notin {"joined", "login"}
        BY <1>1, <1>2, <2>2, <2>3, AdvancedStep
      <3>2. /\ \A d \in Calls \ {c} : Alike(d)
            /\ login' = login /\ fetching' = fetching /\ ~InFetch(c)
        BY <1>4 DEF GetSmartEndpoint, Caches, Alike, InFetch
      <3> QED
        BY <3>1, <3>2
    <2> QED
      BY <1>1, <2>4, OneServes DEF Proceeds
  <1>5. CASE ListAccessibleOrgs(c)
    <2>1. PICK s : s = Become(call[c], "global")
      OBVIOUS
    <2>2. s.step = "ready" /\ s = [call[c] EXCEPT !.todo = <<"global">> \o Tail(call[c].todo),
                                                  !.step = "ready"]
      BY <1>2, <2>1 DEF Become, Record
    <2>3. call'[c].step = "ready"
      BY <1>2, <1>5, <2>1, <2>2 DEF ListAccessibleOrgs, Record
    <2>4. \A d \in Calls \ {c} : Alike(d)
      BY <1>1, <1>5 DEF ListAccessibleOrgs, Alike, Types, Record
    <2>5. login' = login /\ fetching' = fetching /\ ~InFetch(c)
      BY <1>5 DEF ListAccessibleOrgs, Caches, InFetch
    <2> QED
      BY <1>1, <2>3, <2>4, <2>5, OneServes DEF Proceeds
  <1>6. CASE EnsureAuthToken(c)
    <2>1. /\ call'[c].step = "login" /\ call'[c].todo = call[c].todo
          /\ call'[c].asset = call[c].asset /\ \A d \in Calls \ {c} : Alike(d)
          /\ fetching' = fetching
      BY <1>1, <1>2, <1>6 DEF EnsureAuthToken, Caches, Types, Record, Alike
    <2>2. login' # NoLogin
      BY <1>6 DEF EnsureAuthToken, NoLogin
    <2>3. Proceeds(c)
      BY <2>1 DEF Proceeds, InFetch, Stage
    <2> QED
      BY <1>1, <2>1, <2>2, <2>3, OneServes
  <1>7. CASE Send(c)
    <2>1. /\ call'[c].step = "sent" /\ call'[c].todo = call[c].todo
          /\ call'[c].asset = call[c].asset /\ \A d \in Calls \ {c} : Alike(d)
          /\ fetching' = fetching /\ login' = login
      BY <1>1, <1>2, <1>7 DEF Send, Caches, Types, Record, Alike
    <2>2. Proceeds(c)
      BY <2>1 DEF Proceeds, InFetch, Stage
    <2> QED
      BY <1>1, <2>1, <2>2, OneServes
  <1> QED
    BY <1>3, <1>4, <1>5, <1>6, <1>7 DEF Turn

\* A fetch that is answered carries on who joined it.
LEMMA FetchDoneServes ==
    ASSUME RInv, ServedInv, NEW c \in Calls, call[c].step = "sent", Stage(c) = "fetch",
           FetchDone(c), login' = login
    PROVE  ServedInv'
  <1> DEFINE on == {c} \cup JoinedOn({c})
  <1>0. /\ Types /\ \A d \in Calls : call'[d] = IF d \in on THEN Advanced(call[d]) ELSE call[d]
        /\ \A a \in Assets : fetching'[a] = IF a \in FetchedBy({c}) THEN None ELSE fetching[a]
    BY DEF RInv, FetchDone, DropFetches
  <1>1. \A d \in on : d \in Calls /\ call'[d].step \notin {"joined", "login"}
    <2> TAKE d \in on
    <2>1. d \in Calls /\ call[d].step \in {"sent", "joined"} /\ call[d].step \notin Idle
      BY DEF JoinedOn, Idle, Settled
    <2>2. Sound(call[d])
      BY <1>0, <2>1 DEF Types
    <2> QED
      BY <1>0, <2>1, <2>2, AdvancedStep
  <1>2. ASSUME NEW d \in Calls PROVE Proceeds(d) \/ Released(d)
    <2>1. CASE d = c
      <3>1. ASSUME NEW a \in Assets, fetching'[a] = d PROVE FALSE
        <4>1. d # None
          BY RestAssumption
        <4>2. fetching[a] = d /\ a \notin FetchedBy({c})
          BY <1>0, <3>1, <4>1
        <4>3. call[d].asset = a
          BY <4>1, <4>2 DEF ServedInv, Tabled
        <4> QED
          BY <2>1, <4>2, <4>3 DEF FetchedBy
      <3>2. ASSUME NEW e \in Calls, call'[e].step = "joined" PROVE call'[e].on # d
        <4>1. e \notin on /\ call'[e] = call[e]
          BY <1>0, <1>1, <3>2
        <4> QED
          BY <2>1, <3>2, <4>1 DEF JoinedOn
      <3> QED
        BY <3>1, <3>2 DEF Released
    <2>2. CASE d \in JoinedOn({c})
      BY <2>2 DEF JoinedOn, Proceeds, InFetch
    <2>3. CASE d \notin on
      BY <1>0, <2>3, AlikeProceeds DEF Alike
    <2> QED
      BY <2>1, <2>2, <2>3
  <1>3. \A d \in Calls : call'[d].step = "joined" =>
            /\ call[d].step = "joined" /\ call'[d].on = call[d].on
            /\ call'[d].asset = call[d].asset
    BY <1>0, <1>1
  <1>4. \A d \in Calls : call'[d].step = "login" => login' # NoLogin
    BY <1>0, <1>1 DEF ServedInv, Awaits
  <1> QED
    BY <1>0, <1>2, <1>3, <1>4, ServesOn

LEMMA AnsweredServes ==
    ASSUME RInv, ServedInv, NEW c \in Calls, Answered(c)
    PROVE  ServedInv'
  <1>1. Types /\ call[c].step = "sent" /\ Running(c) /\ call[c].step \notin Idle
    BY DEF RInv, Answered, Answer, Unauthorized, AskWithoutOrg, Throttled, RequestFailed,
           Running, Settled, Idle
  <1>2. Sound(call[c]) /\ call[c] \in Record
    BY <1>1 DEF Types
  <1>3. CASE Answer(c)
    <2>0. login' = login
      BY <1>3 DEF Answer, Others
    <2>1. CASE Stage(c) = "fetch"
      <3>1. FetchDone(c)
        BY <1>3, <2>1 DEF Answer, ListsOrgs
      <3> QED
        BY <1>1, <2>0, <2>1, <3>1, FetchDoneServes
    <2>2. CASE Stage(c) # "fetch" /\ ListsOrgs(c)
      <3>1. OrgsListed(c)
        BY <1>3, <2>2 DEF Answer
      <3>2. /\ call'[c].step = "picking" /\ \A d \in Calls \ {c} : Alike(d)
            /\ fetching' = fetching
        BY <1>1, <1>2, <3>1 DEF OrgsListed, Caches, Types, Record, Alike
      <3> QED
        BY <1>1, <2>0, <2>2, <3>2, OneServes DEF Proceeds, InFetch
    <2>3. CASE Stage(c) # "fetch" /\ ~ListsOrgs(c)
      <3>1. call' = [call EXCEPT ![c] = Advanced(@)] /\ fetching' = fetching
        BY <1>3, <2>3 DEF Answer
      <3>2. call'[c].step \notin {"joined", "login"} /\ \A d \in Calls \ {c} : Alike(d)
        BY <1>1, <1>2, <3>1, AdvancedStep DEF Types, Alike
      <3> QED
        BY <1>1, <2>0, <2>3, <3>1, <3>2, OneServes DEF Proceeds, InFetch
    <2> QED
      BY <2>1, <2>2, <2>3
  <1>4. CASE Unauthorized(c)
    <2>0. login' = login
      BY <1>4 DEF Unauthorized
    <2>1. CASE /\ ResetRestAuth
               /\ call' = [call EXCEPT ![c].step = "ready", ![c].second = TRUE]
      <3>1. /\ call'[c].step = "ready" /\ call'[c].todo = call[c].todo
            /\ call'[c].asset = call[c].asset /\ \A d \in Calls \ {c} : Alike(d)
        BY <1>1, <1>2, <2>1 DEF Types, Record, Alike
      <3>2. \A a \in Assets : fetching'[a] = None
        BY <2>1 DEF ResetRestAuth
      <3>3. Proceeds(c)
        BY <3>1 DEF Proceeds, InFetch, Stage
      <3> QED
        BY <1>1, <2>0, <3>1, <3>2, <3>3, OneServes
    <2>2. CASE Fail({c}, "refused")
      <3>1. "refused" \in Settled /\ {c} \in SUBSET Calls
        BY DEF Settled
      <3> QED
        BY <1>1, <2>0, <2>2, <3>1, FailServes
    <2> QED
      BY <1>4, <2>1, <2>2 DEF Unauthorized
  <1>5. CASE AskWithoutOrg(c)
    <2>1. PICK s : s = Become(call[c], "unset")
      OBVIOUS
    <2>2. s = [call[c] EXCEPT !.todo = <<"unset">> \o Tail(call[c].todo), !.step = "ready"]
      BY <2>1 DEF Become
    <2>3. call'[c] = [s EXCEPT !.second = FALSE]
      BY <1>1, <1>5, <2>1 DEF AskWithoutOrg, Types
    <2>4. call'[c].step = "ready"
      BY <1>2, <2>2, <2>3 DEF Record
    <2>5. /\ \A d \in Calls \ {c} : Alike(d)
          /\ fetching' = fetching /\ login' = login /\ ~InFetch(c)
      BY <1>5 DEF AskWithoutOrg, Caches, Others, Alike, InFetch
    <2> QED
      BY <1>1, <2>4, <2>5, OneServes DEF Proceeds
  <1>6. CASE Throttled(c)
    <2>1. /\ call'[c].step = "asleep" /\ \A d \in Calls \ {c} : Alike(d)
          /\ fetching' = fetching /\ login' = login /\ ~InFetch(c)
      BY <1>1, <1>2, <1>6 DEF Throttled, Caches, Others, Alike, InFetch, Types, Record
    <2> QED
      BY <1>1, <2>1, OneServes DEF Proceeds
  <1>7. CASE RequestFailed(c)
    <2>1. "failed" \in Settled /\ {c} \in SUBSET Calls /\ login' = login
      BY <1>7 DEF Settled, RequestFailed, Others
    <2> QED
      BY <1>1, <1>7, <2>1, FailServes DEF RequestFailed
  <1> QED
    BY <1>3, <1>4, <1>5, <1>6, <1>7 DEF Answered

LEMMA PauseServes ==
    ASSUME RInv, ServedInv, NEW c \in Calls, Wake(c) \/ Pick(c)
    PROVE  ServedInv'
  <1>1. /\ Types /\ call[c].step \in {"asleep", "picking"} /\ call[c].step \notin Idle
        /\ ~InFetch(c) /\ login' = login /\ fetching' = fetching
    BY DEF RInv, Wake, Pick, Idle, Settled, InFetch, Caches, Others
  <1>2. Sound(call[c]) /\ call[c] \in Record
    BY <1>1 DEF Types
  <1>3. \A d \in Calls \ {c} : Alike(d)
    BY <1>1 DEF Wake, Pick, Types, Record, Alike
  <1>4. call'[c].step \notin {"joined", "login"}
    <2>1. CASE Wake(c)
      BY <1>1, <1>2, <2>1 DEF Wake, Types, Record
    <2>2. CASE call' = [call EXCEPT ![c] = Ended("ok")]
      BY <1>1, <2>2, EndedSound DEF Types, Settled
    <2>3. ASSUME NEW org, call'[c] = [Advanced(call[c]) EXCEPT !.org = org]
          PROVE  call'[c].step \notin {"joined", "login"}
      <3>1. PICK s : s = Advanced(call[c])
        OBVIOUS
      <3>2. s \in Record /\ s.step \notin {"joined", "login"}
        BY <1>1, <1>2, <3>1, AdvancedSound, AdvancedStep DEF Sound
      <3>3. call'[c].step = s.step
        BY <2>3, <3>1, <3>2 DEF Record
      <3> QED
        BY <3>2, <3>3
    <2> QED
      BY <2>1, <2>2, <2>3 DEF Pick
  <1> QED
    BY <1>1, <1>3, <1>4, OneServes DEF Proceeds

LEMMA LoginServes ==
    ASSUME RInv, ServedInv, LoginGranted \/ TryOtherEncoding \/ LoginFailed
    PROVE  ServedInv'
  <1>0. Types
    BY DEF RInv
  <1>1. CASE LoginGranted
    <2>1. /\ fetching' = fetching
          /\ \A d \in Calls : /\ call'[d].todo = call[d].todo /\ call'[d].asset = call[d].asset
                              /\ call'[d].on = call[d].on
                              /\ call'[d].step = IF call[d].step = "login" THEN "ready"
                                                 ELSE call[d].step
      BY <1>0, <1>1 DEF LoginGranted, Caches, InLogin, Types, Record
    <2>2. \A d \in Calls : Proceeds(d)
      BY <2>1 DEF Proceeds, InFetch, Stage
    <2> QED
      BY <1>0, <2>1, <2>2, ServesOn
  <1>2. CASE TryOtherEncoding
    <2>1. call' = call /\ fetching' = fetching
      BY <1>2 DEF TryOtherEncoding, Caches
    <2>2. login'.attempt = "last"
      BY <1>0, <1>2 DEF TryOtherEncoding, Types
    <2>3. login' # NoLogin
      BY <2>2 DEF NoLogin
    <2>4. \A d \in Calls : Proceeds(d)
      BY <2>1 DEF Proceeds, InFetch, Stage
    <2> QED
      BY <1>0, <2>1, <2>3, <2>4, ServesOn
  <1>3. CASE LoginFailed
    <2>1. "failed" \in Settled /\ InLogin \in SUBSET Calls
      BY DEF Settled, InLogin
    <2> QED
      BY <1>0, <1>3, <2>1, FailServes DEF LoginFailed
  <1> QED
    BY <1>1, <1>2, <1>3

LEMMA SameServes ==
    ASSUME ServedInv, call' = call, login' = login, fetching' = fetching
    PROVE  ServedInv'
  BY DEF ServedInv, Tabled, Follows, Awaits, InFetch, Stage

LEMMA StepServes ==
    ASSUME RInv, ServedInv, [Next]_vars
    PROVE  ServedInv'
  <1>1. CASE UNCHANGED vars \/ Expire
    BY <1>1, SameServes DEF vars, Expire, Caches
  <1>2. ASSUME NEW c \in Calls,
               Acquire(c) \/ Peek(c) \/ Reconnect(c) \/ Turn(c) \/ Answered(c) \/ Wake(c) \/ Pick(c)
        PROVE  ServedInv'
    BY <1>2, BeginServes, TurnServes, AnsweredServes, PauseServes
  <1> QED
    BY <1>1, <1>2, LoginServes DEF Next

\* Who has joined a fetch waits for a call that is making it, whatever 401s, failures
\* and further fetches of the asset have done to the table meanwhile, and who waits for
\* a login for one that is under way (detailInflight, authInflight): with the deadlines
\* of the requests that is why every call settles.
THEOREM WaitersAreServed == Spec => []JoinersAreServed
  <1>1. Init => ServedInv
    BY DEF Init, NoCall, ServedInv, Tabled, Follows, Awaits
  <1>2. ServedInv => JoinersAreServed
    BY DEF ServedInv, Follows, Awaits, JoinersAreServed
  <1>3. RInv /\ ServedInv /\ [Next]_vars => ServedInv'
    BY StepServes
  <1> QED
    BY <1>1, <1>2, <1>3, Invariance, PTL DEF Spec

(***************************************************************************)
(* WebSession                                                              *)
(***************************************************************************)

WebSteps == {"idle"} \cup Waits \cup Asks \cup Stores \cup Outcomes
WebRec == [kind : {"ensure", "open"}, step : WebSteps, task : Tasks,
           waits : WebCalls \cup {Nothing}, sent : Session, good : BOOLEAN,
           since : 0..MaxEnds]
Trying == {"first", "second"}

\* A call is in a routine as long as its step belongs to one; an ensureWebSession
\* has no warmup, an openKokoSocket no background login.
Suits(r) ==
    /\ r.task = "none" => r.step \notin {"page", "form", "hop", "again"} \cup Stores
    /\ r.task # "none" => r.step \in {"page", "form", "hop", "again"} \cup Stores
    /\ r.task = "background" => r.step \notin {"page", "again", "invalidating"}
    /\ r.task = "joined" => r.step \notin Stores
    /\ r.step = "invalidating" => r.task = "first"
    /\ r.step = "clearing" => r.task # "first"
    /\ r.task = "background" => r.kind = "ensure"
    /\ r.step \in {"handshake", "lastHandshake", "awaitWarmup"} \/ r.task \in Trying \cup {"joined"} =>
          r.kind = "open"
    /\ r.waits # Nothing <=> r.step \in {"awaitLogin", "awaitWarmup"}

WebTypes ==
    /\ jar \in Session /\ store \in Session
    /\ restore \in {"absent", "loading", "done"}
    /\ background \in WebCalls \cup {Nothing} /\ warming \in WebCalls \cup {Nothing}
    /\ web \in [WebCalls -> WebRec]
    /\ onHop \in BOOLEAN /\ troubled \subseteq WebCalls
    /\ ends \in 0..MaxEnds

\* What the promises in flight stand for.
Owned ==
    /\ \A c \in WebCalls : background = c <=> web[c].task = "background"
    /\ warming # Nothing => web[warming].task \in Trying

\* A call waits for one that is in the routine it waits for, or has just left it
\* and not moved since.
WaitsRight(c) ==
    /\ web[c].step = "awaitLogin" =>
          \/ web[web[c].waits].task = "background"
          \/ web[web[c].waits].step \in Outcomes
    /\ web[c].step = "awaitWarmup" =>
          \/ web[web[c].waits].task \in Trying
          \/ web[web[c].waits].step \in {"lastHandshake", "failed"}

\* No session is newer than JumpServer's current ones.
Current(s) == s # Nothing => s <= ends
Issued ==
    /\ Current(jar) /\ Current(store)
    /\ \A c \in WebCalls : Current(web[c].sent) /\ web[c].since <= ends

\* What troubles one call troubles all that overlap with it.
Shared ==
    /\ \A c \in WebCalls : web[c].step = "idle" => c \notin troubled
    /\ \A c, d \in WebCalls : Underway(c) /\ Underway(d) /\ c \in troubled => d \in troubled

\* A session that is at least as new as the warmup of the call that uses it.
NewFor(s, r) == s # Nothing /\ s >= r.since

\* A call that nothing has troubled: no login ends without a session, the jar is not
\* emptied, and what its warmup proves is no older than the warmup.
Clean(c) ==
    Underway(c) /\ c \notin troubled /\ ~onHop =>
       /\ web[c].step \notin {"hop", "again", "invalidating", "clearing"}
       /\ web[c].task # "second"
       /\ web[c].step = "awaitWarmup" => web[web[c].waits].step # "failed"
       /\ web[c].step = "page" =>
             /\ web[c].sent # Nothing => jar # Nothing /\ jar >= web[c].sent
             /\ web[c].good => NewFor(web[c].sent, web[c])
       /\ web[c].step = "saving" /\ web[c].task = "first" => NewFor(jar, web[c])
       /\ web[c].step = "lastHandshake" => NewFor(web[c].sent, web[c])

WebInv ==
    /\ WebTypes /\ Owned /\ Issued /\ Shared
    /\ \A c \in WebCalls : Suits(web[c]) /\ WaitsRight(c) /\ Clean(c)

LEMMA WebTypesAgree == WebTypes /\ Owned <=> WebTypeOK
  BY WebAssumption DEF WebTypes, Owned, WebTypeOK, WebRec, WebSteps, Trying, WebCalls

----------------------------------------------------------------------------
\* What every step of a call c does: it moves only itself, hands a routine over or
\* leaves it, and lets no other call down unless that one is troubled.

OnlyMoves(c) ==
    /\ web' \in [WebCalls -> WebRec]
    /\ \A d \in WebCalls : d # c => web'[d] = web[d]

\* The two promises in flight.
Hands(c) ==
    /\ background' = IF web'[c].task = "background" THEN c
                     ELSE IF web[c].task = "background" THEN Nothing ELSE background
    /\ web'[c].task = "background" => background \in {c, Nothing}
    /\ warming' \in {c, warming, Nothing}
    /\ warming' = c => web'[c].task \in Trying

\* Who waits for it, waits right after the step too.
LetsGo(c) ==
    /\ web[c].step \notin Outcomes
    /\ web[c].task = "background" =>
          web'[c].task = "background" \/ web'[c].step \in Outcomes
    /\ web[c].task \in Trying =>
          web'[c].task \in Trying \/ web'[c].step \in {"lastHandshake", "failed"}
    /\ web[c].step = "lastHandshake" => NoneDue

Troubles(c) ==
    \/ Underway(c) /\ NoTrouble
    \/ Underway(c) /\ Trouble
    \/ /\ web[c].step = "idle"
       /\ troubled' = troubled \cup (IF \E d \in troubled : Underway(d) THEN {c} ELSE {})

\* The jar is not emptied, nor is its session replaced by an older one, no warmup
\* fails, and an open only if JumpServer has ended its sessions since its warmup.
Spares(c) ==
    /\ jar # Nothing => jar' # Nothing /\ jar' >= jar
    /\ web[c].task \in Trying => web'[c].step # "failed"
    /\ web[c].kind = "open" /\ web'[c].step = "failed" => ends > web[c].since

WebStep(c) ==
    /\ OnlyMoves(c) /\ Hands(c) /\ LetsGo(c) /\ Troubles(c)
    /\ Suits(web'[c]) /\ WaitsRight(c)' /\ web'[c].step # "idle"
    /\ jar' \in Session /\ store' \in Session /\ UNCHANGED <<restore, Fixed>>
    /\ Current(jar)' /\ Current(store)' /\ Current(web'[c].sent) /\ web'[c].since <= ends
    /\ Clean(c)'
    /\ ~onHop /\ c \notin troubled' => Spares(c)

LEMMA StepOwned ==
  ASSUME WebInv, NEW c \in WebCalls, WebStep(c)
  PROVE  WebTypes' /\ Owned'
  <1>1. WebTypes'
    BY DEF WebInv, WebTypes, WebStep, OnlyMoves, Hands, Troubles, Fixed, Trouble, NoTrouble
  <1>2. Nothing \notin WebCalls
    BY WebAssumption DEF WebCalls
  <1>3. ASSUME NEW d \in WebCalls
        PROVE  background' = d <=> web'[d].task = "background"
    BY <1>2 DEF WebInv, WebTypes, Owned, WebStep, OnlyMoves, Hands
  <1>4. warming' # Nothing => web'[warming'].task \in Trying
    BY <1>2 DEF WebInv, WebTypes, Owned, WebStep, OnlyMoves, Hands
  <1>5. QED
    BY <1>1, <1>3, <1>4 DEF Owned

LEMMA StepWaits ==
  ASSUME WebInv, NEW c \in WebCalls, WebStep(c), NEW d \in WebCalls
  PROVE  Suits(web'[d]) /\ WaitsRight(d)'
  <1>1. CASE d = c
    BY <1>1 DEF WebStep
  <1>2. CASE d # c
    <2>1. web'[d] = web[d] /\ Suits(web[d]) /\ WaitsRight(d)
      BY <1>2 DEF WebInv, WebStep, OnlyMoves
    <2>2. web[d].step \in {"awaitLogin", "awaitWarmup"} => web[d].waits \in WebCalls
      BY <2>1 DEF Suits, WebInv, WebTypes, WebRec
    <2>3. web[d].step = "awaitLogin" /\ web[d].waits # c => WaitsRight(d)'
      BY <2>1, <2>2 DEF WaitsRight, WebStep, OnlyMoves
    <2>4. web[d].step = "awaitWarmup" /\ web[d].waits # c => WaitsRight(d)'
      BY <2>1, <2>2 DEF WaitsRight, WebStep, OnlyMoves
    <2>5. web[d].step = "awaitLogin" /\ web[d].waits = c => WaitsRight(d)'
      BY <2>1, <2>2 DEF WaitsRight, WebStep, LetsGo
    <2>6. web[d].step = "awaitWarmup" /\ web[d].waits = c => WaitsRight(d)'
      BY <2>1, <2>2 DEF WaitsRight, WebStep, LetsGo, NoneDue, WarmupOver, WebInv, Suits, Trying,
            Outcomes
    <2>7. QED
      BY <2>1, <2>3, <2>4, <2>5, <2>6 DEF WaitsRight
  <1>3. QED
    BY <1>1, <1>2

LEMMA StepShared ==
  ASSUME WebInv, NEW c \in WebCalls, WebStep(c)
  PROVE  Issued' /\ Shared' /\ (\A d \in WebCalls : Underway(d)' /\ d # c => Underway(d))
  <1>1. \A d \in WebCalls : Underway(d)' /\ d # c => Underway(d)
    BY DEF Underway, WebStep, OnlyMoves
  <1>2. Issued'
    BY DEF WebInv, Issued, WebStep, OnlyMoves, Current, Fixed
  <1>3. Shared'
    <2>1. ASSUME NEW d \in WebCalls, web'[d].step = "idle"
          PROVE  d \notin troubled'
      BY <2>1 DEF WebInv, Shared, WebStep, OnlyMoves, Troubles, Trouble, NoTrouble, Underway
    <2>2. ASSUME NEW d \in WebCalls, NEW e \in WebCalls, Underway(d)', Underway(e)', d \in troubled'
          PROVE  e \in troubled'
      <3>1. /\ \A x, y \in WebCalls : Underway(x) /\ Underway(y) /\ x \in troubled => y \in troubled
            /\ \A x \in WebCalls : Underway(x)' /\ x # c => Underway(x)
            /\ troubled \subseteq WebCalls
        BY <1>1 DEF WebInv, Shared, WebTypes
      <3>2. CASE Underway(c) /\ NoTrouble
        BY <2>2, <3>1, <3>2 DEF NoTrouble
      <3>3. CASE Underway(c) /\ Trouble
        BY <2>2, <3>1, <3>3 DEF Trouble
      <3>4. CASE /\ web[c].step = "idle"
                 /\ troubled' = troubled \cup (IF \E x \in troubled : Underway(x) THEN {c} ELSE {})
        <4>1. c \notin troubled
          BY <3>4 DEF WebInv, Shared
        <4>2. CASE \E x \in troubled : Underway(x)
          <5>1. \A y \in WebCalls : Underway(y) => y \in troubled
            BY <3>1, <4>2
          <5>2. QED
            BY <2>2, <3>1, <3>4, <4>2, <5>1
        <4>3. CASE ~\E x \in troubled : Underway(x)
          BY <2>2, <3>1, <3>4, <4>1, <4>3
        <4>4. QED
          BY <4>2, <4>3
      <3>5. QED
        BY <3>2, <3>3, <3>4 DEF WebStep, Troubles
    <2>3. QED
      BY <2>1, <2>2 DEF Shared
  <1>4. QED
    BY <1>1, <1>2, <1>3

LEMMA StepClean ==
  ASSUME WebInv, NEW c \in WebCalls, WebStep(c), NEW d \in WebCalls
  PROVE  Clean(d)'
  <1>1. CASE d = c
    BY <1>1 DEF WebStep
  <1>2. CASE d # c
    <2> SUFFICES ASSUME Underway(d)', d \notin troubled', ~onHop
                 PROVE  Clean(d)'
      BY DEF Clean, WebStep, Fixed
    <2>1. /\ web'[d] = web[d] /\ Underway(d)
          /\ UNCHANGED <<onHop, ends>>
      BY <1>2 DEF WebStep, OnlyMoves, Underway, Fixed
    <2>2. d \notin troubled /\ c \notin troubled'
      <3>1. d \notin troubled /\ ~Trouble
        BY <2>1 DEF WebStep, Troubles, Trouble, NoTrouble
      <3>2. CASE Underway(c) /\ NoTrouble
        BY <2>1, <3>1, <3>2 DEF WebInv, Shared, NoTrouble
      <3>3. CASE /\ web[c].step = "idle"
                 /\ troubled' = troubled \cup (IF \E x \in troubled : Underway(x) THEN {c} ELSE {})
        BY <2>1, <3>1, <3>3 DEF WebInv, Shared, WebTypes
      <3>4. QED
        BY <3>1, <3>2, <3>3 DEF WebStep, Troubles
    <2>3. Spares(c)
      BY <2>2 DEF WebStep
    <2>4. Clean(d) /\ Suits(web[d]) /\ WaitsRight(d) /\ web[d] \in WebRec
      BY DEF WebInv, WebTypes
    <2>5. web[d].step = "awaitWarmup" => web'[web[d].waits].step # "failed"
      <3>1. SUFFICES ASSUME web[d].step = "awaitWarmup", web[d].waits = c
                     PROVE  web'[c].step # "failed"
        BY <2>1, <2>2, <2>4 DEF Clean, WebStep, OnlyMoves, WebRec, Suits
      <3>2. web[c].task \in Trying \/ web[c].step = "lastHandshake"
        BY <2>1, <2>2, <2>4, <3>1 DEF Clean, WaitsRight
      <3>3. web[c].step = "lastHandshake" => web[c].task \in Trying
        BY <3>1 DEF WebStep, LetsGo, NoneDue, WarmupOver, Trying
      <3>4. QED
        BY <2>3, <3>2, <3>3 DEF Spares
    <2>6. jar \in Session /\ jar' \in Session
      BY DEF WebInv, WebTypes, WebStep
    <2>7. ASSUME NEW s \in Nat, jar # Nothing, jar >= s
          PROVE  jar' # Nothing /\ jar' >= s
      BY <2>3, <2>6, <2>7, WebAssumption DEF Spares, Session
    <2>8. web[d].step = "page" /\ web[d].sent # Nothing => jar' # Nothing /\ jar' >= web[d].sent
      BY <2>1, <2>2, <2>4, <2>7 DEF Clean, WebRec, Session
    <2>9. web[d].step = "saving" /\ web[d].task = "first" => jar' # Nothing /\ jar' >= web[d].since
      BY <2>1, <2>2, <2>4, <2>7 DEF Clean, WebRec, NewFor
    <2>10. QED
      BY <2>1, <2>2, <2>4, <2>5, <2>8, <2>9 DEF Clean, NewFor
  <1>3. QED
    BY <1>1, <1>2

LEMMA StepKeepsInv ==
  ASSUME WebInv, NEW c \in WebCalls, WebStep(c)
  PROVE  WebInv'
  BY StepOwned, StepWaits, StepShared, StepClean DEF WebInv

----------------------------------------------------------------------------
\* The records the actions make.

LEMMA AskIs ==
  ASSUME WebTypes, NEW r \in WebRec, NEW step \in WebSteps, NEW task \in Tasks
  PROVE  /\ Ask(r, step, task) \in WebRec
         /\ Ask(r, step, task).step = step /\ Ask(r, step, task).task = task
         /\ Ask(r, step, task).waits = Nothing /\ Ask(r, step, task).sent = jar
         /\ Ask(r, step, task).good <=> jar = ends
         /\ Ask(r, step, task).kind = r.kind /\ Ask(r, step, task).since = r.since
  BY DEF Ask, WebRec, WebTypes

LEMMA AtIs ==
  ASSUME WebTypes, NEW c \in WebCalls, NEW step \in WebSteps
  PROVE  /\ At(c, step) \in WebRec
         /\ At(c, step).step = step /\ At(c, step).task = web[c].task
         /\ At(c, step).waits = web[c].waits /\ At(c, step).sent = Nothing
         /\ At(c, step).good = FALSE
         /\ At(c, step).kind = web[c].kind /\ At(c, step).since = web[c].since
  BY DEF At, WebRec, WebTypes, Session

Blank(kind, step) == [NoWebCall EXCEPT !.kind = kind, !.step = step]

LEMMA BlankIs ==
  ASSUME NEW kind \in {"ensure", "open"}, NEW step \in WebSteps
  PROVE  /\ Blank(kind, step) \in WebRec
         /\ Blank(kind, step).step = step /\ Blank(kind, step).task = "none"
         /\ Blank(kind, step).waits = Nothing /\ Blank(kind, step).sent = Nothing
         /\ Blank(kind, step).kind = kind /\ Blank(kind, step).since = 0
  <1>1. NoWebCall \in WebRec
    BY WebAssumption DEF NoWebCall, WebRec, WebSteps, Session, Tasks
  <1>2. /\ NoWebCall.task = "none" /\ NoWebCall.waits = Nothing /\ NoWebCall.sent = Nothing
        /\ NoWebCall.since = 0
    BY DEF NoWebCall
  <1>3. QED
    BY <1>1, <1>2 DEF Blank, WebRec

LEMMA OverIs ==
  ASSUME WebTypes, NEW c \in WebCalls, NEW how \in Outcomes
  PROVE  /\ Over(c, how) \in WebRec
         /\ Over(c, how).step = how /\ Over(c, how).task = "none"
         /\ Over(c, how).waits = Nothing /\ Over(c, how).sent = Nothing
         /\ Over(c, how).kind = web[c].kind /\ Over(c, how).since = 0
  <1>1. web[c].kind \in {"ensure", "open"} /\ how \in WebSteps
    BY DEF WebTypes, WebRec, WebSteps
  <1>2. QED
    <2>1. Over(c, how) = Blank(web[c].kind, how)
      BY DEF Over, Blank
    <2>2. QED
      BY <1>1, <2>1, BlankIs

LEMMA MovesTo ==
  ASSUME WebTypes, NEW c \in WebCalls, NEW r \in WebRec, Moves(c, r)
  PROVE  OnlyMoves(c) /\ web'[c] = r
  BY DEF WebTypes, OnlyMoves, Moves

\* What a call does that asks for the connect page, or waits for another's warmup.
LEMMA WarmupIs ==
  ASSUME WebInv, NEW c \in WebCalls, web[c].task = "none" \/ web[c].task = "joined", RunWarmup(c)
  PROVE  /\ OnlyMoves(c) /\ warming' = c
         /\ web'[c].step = "page" /\ web'[c].task = "first" /\ web'[c].waits = Nothing
         /\ web'[c].sent = jar /\ (web'[c].good <=> jar = ends) /\ web'[c].since = ends
         /\ web'[c].kind = web[c].kind
  <1> DEFINE r == [web[c] EXCEPT !.since = ends]
  <1>1. WebTypes /\ r \in WebRec /\ r.kind = web[c].kind /\ r.since = ends
    BY DEF WebInv, WebTypes, WebRec
  <1>2. "page" \in WebSteps /\ "first" \in Tasks
    BY DEF WebSteps, Asks, Tasks
  <1> HIDE DEF r
  <1>3. /\ Ask(r, "page", "first") \in WebRec
        /\ Ask(r, "page", "first").step = "page" /\ Ask(r, "page", "first").task = "first"
        /\ Ask(r, "page", "first").waits = Nothing /\ Ask(r, "page", "first").sent = jar
        /\ Ask(r, "page", "first").good <=> jar = ends
        /\ Ask(r, "page", "first").kind = r.kind /\ Ask(r, "page", "first").since = r.since
    BY <1>1, <1>2, AskIs
  <1>4. Moves(c, Ask(r, "page", "first")) /\ warming' = c
    BY DEF RunWarmup, r
  <1>5. OnlyMoves(c) /\ web'[c] = Ask(r, "page", "first")
    BY <1>1, <1>3, <1>4, MovesTo
  <1>6. QED
    BY <1>1, <1>3, <1>4, <1>5

----------------------------------------------------------------------------
\* Each step of a call.

LEMMA StartStep ==
  ASSUME WebInv, NEW c \in WebCalls, Start(c)
  PROVE  WebStep(c)
  <1>1. PICK kind \in WebKinds(c) :
               Moves(c, [NoWebCall EXCEPT !.kind = kind, !.step = "restoring"])
    BY DEF Start
  <1> DEFINE r == Blank(kind, "restoring")
  <1>2. kind \in {"ensure", "open"} /\ "restoring" \in WebSteps
    BY DEF WebKinds, WebSteps, Waits
  <1>3. /\ r \in WebRec
        /\ r.step = "restoring" /\ r.task = "none" /\ r.waits = Nothing /\ r.sent = Nothing
        /\ r.kind = kind /\ r.since = 0
    BY <1>2, BlankIs
  <1> HIDE DEF r
  <1>4. OnlyMoves(c) /\ web'[c] = r
    BY <1>1, <1>3, MovesTo DEF WebInv, r, Blank
  <1>5. /\ web[c].step = "idle" /\ web[c].task = "none"
        /\ UNCHANGED <<jar, store, restore, background, warming, Fixed>>
        /\ troubled' = troubled \cup (IF \E d \in troubled : Underway(d) THEN {c} ELSE {})
    BY DEF Start, WebInv, Suits, Stores
  <1>6. Hands(c) /\ LetsGo(c) /\ Troubles(c)
    <2>1. c # warming
      BY <1>5, WebAssumption DEF WebInv, Owned, Trying, WebCalls
    <2>2. web'[c].task = "none"
      BY <1>3, <1>4
    <2>3. Hands(c)
      BY <1>5, <2>1, <2>2 DEF Hands
    <2>4. LetsGo(c) /\ Troubles(c)
      BY <1>5 DEF LetsGo, Troubles, Outcomes, Trying
    <2>5. QED
      BY <2>3, <2>4
  <1>7. Suits(web'[c]) /\ WaitsRight(c)' /\ Clean(c)' /\ web'[c].step # "idle"
    BY <1>3, <1>4 DEF Suits, WaitsRight, Clean, Stores, Trying
  <1>8. Current(jar)' /\ Current(store)' /\ Current(web'[c].sent) /\ web'[c].since <= ends
    BY <1>3, <1>4, <1>5 DEF Current, Fixed, WebInv, Issued, WebTypes
  <1>9. jar' \in Session /\ store' \in Session
    BY <1>5 DEF WebInv, WebTypes
  <1>10. Spares(c)
    BY <1>3, <1>4, <1>5, WebAssumption DEF Spares, WebInv, WebTypes, Session, Trying
  <1>11. QED
    BY <1>4, <1>5, <1>6, <1>7, <1>8, <1>9, <1>10 DEF WebStep

\* A step that leaves the jar and the store alone.
LEMMA SameJar ==
  ASSUME WebInv, NEW c \in WebCalls, UNCHANGED <<jar, store, restore, Fixed>>
  PROVE  /\ jar' \in Session /\ store' \in Session /\ UNCHANGED <<restore, Fixed>>
         /\ Current(jar)' /\ Current(store)'
         /\ jar # Nothing => jar' # Nothing /\ jar' >= jar
  BY WebAssumption DEF WebInv, WebTypes, Issued, Current, Fixed, Session

\* A call without a routine, or that has tried after another's warmup.
LEMMA RunWarmupStep ==
  ASSUME WebInv, NEW c \in WebCalls, web[c].kind = "open", web[c].task \in {"none", "joined"},
         Underway(c), web[c].step # "lastHandshake", RunWarmup(c),
         UNCHANGED <<jar, store, restore, background, Fixed>>, Troubles(c)
  PROVE  WebStep(c)
  <1>1. /\ OnlyMoves(c) /\ warming' = c
        /\ web'[c].step = "page" /\ web'[c].task = "first" /\ web'[c].waits = Nothing
        /\ web'[c].sent = jar /\ (web'[c].good <=> jar = ends) /\ web'[c].since = ends
        /\ web'[c].kind = "open"
    BY WarmupIs
  <1>2. Hands(c) /\ LetsGo(c)
    BY <1>1 DEF Hands, LetsGo, Underway, Trying
  <1>3. Suits(web'[c]) /\ WaitsRight(c)' /\ web'[c].step # "idle"
    BY <1>1 DEF Suits, WaitsRight, Stores, Trying
  <1>4. ends \in Nat /\ jar \in Session /\ Current(jar) /\ UNCHANGED <<jar, ends>>
    BY WebAssumption DEF WebInv, WebTypes, Issued, Fixed
  <1>5. Current(web'[c].sent) /\ web'[c].since <= ends
    BY <1>1, <1>4 DEF Current
  <1>6. Clean(c)'
    <2>1. jar # Nothing => jar >= jar
      BY <1>4, WebAssumption DEF Session
    <2>2. jar = ends => NewFor(web'[c].sent, web'[c])
      BY <1>1, <1>4, WebAssumption DEF NewFor
    <2>3. QED
      BY <1>1, <1>4, <2>1, <2>2 DEF Clean
  <1>7. web'[c].step # "failed"
    BY <1>1
  <1>8. QED
    BY <1>1, <1>2, <1>3, <1>5, <1>6, <1>7, SameJar DEF WebStep, Spares

LEMMA JoinWarmupStep ==
  ASSUME WebInv, NEW c \in WebCalls, web[c].kind = "open", web[c].task = "none",
         Underway(c), web[c].step # "lastHandshake", warming # Nothing,
         Moves(c, [At(c, "awaitWarmup") EXCEPT !.waits = warming, !.since = ends]),
         UNCHANGED <<jar, store, restore, background, warming, Fixed>>, Troubles(c)
  PROVE  WebStep(c)
  <1> DEFINE r == [At(c, "awaitWarmup") EXCEPT !.waits = warming, !.since = ends]
  <1>1. /\ r \in WebRec /\ r.step = "awaitWarmup" /\ r.task = "none" /\ r.waits = warming
        /\ r.since = ends /\ r.sent = Nothing /\ r.kind = "open"
    <2>1. "awaitWarmup" \in WebSteps /\ WebTypes
      BY DEF WebSteps, Waits, WebInv
    <2>2. warming \in WebCalls \cup {Nothing} /\ ends \in 0..MaxEnds
      BY <2>1 DEF WebTypes
    <2>3. At(c, "awaitWarmup") \in WebRec /\ At(c, "awaitWarmup").step = "awaitWarmup"
          /\ At(c, "awaitWarmup").task = "none" /\ At(c, "awaitWarmup").sent = Nothing
          /\ At(c, "awaitWarmup").kind = "open"
      BY <2>1, AtIs
    <2>4. QED
      BY <2>2, <2>3 DEF WebRec
  <1> HIDE DEF r
  <1>2. OnlyMoves(c) /\ web'[c] = r
    BY <1>1, MovesTo DEF WebInv, r
  <1>3. warming \in WebCalls /\ web[warming].task \in Trying /\ warming # c
    BY DEF WebInv, WebTypes, Owned, Trying
  <1>4. web'[warming] = web[warming] /\ Suits(web[warming])
    BY <1>2, <1>3 DEF OnlyMoves, WebInv
  <1>5. Hands(c) /\ LetsGo(c)
    BY <1>1, <1>2, <1>3 DEF Hands, LetsGo, Underway, Trying
  <1>6. Suits(web'[c]) /\ WaitsRight(c)' /\ web'[c].step # "idle"
    BY <1>1, <1>2, <1>3, <1>4 DEF Suits, WaitsRight, Stores, Trying
  <1>7. Clean(c)'
    BY <1>1, <1>2, <1>3, <1>4 DEF Clean, Suits, Trying, Stores
  <1>8. ends \in Nat
    BY WebAssumption DEF WebInv, WebTypes
  <1>9. Current(web'[c].sent) /\ web'[c].since <= ends /\ web'[c].step # "failed"
    BY <1>1, <1>2, <1>8 DEF Current
  <1>10. QED
    BY <1>2, <1>5, <1>6, <1>7, <1>9, SameJar DEF WebStep, Spares

LEMMA WarmupStep ==
  ASSUME WebInv, NEW c \in WebCalls, web[c].kind = "open", web[c].task = "none",
         Underway(c), web[c].step # "lastHandshake", Warmup(c),
         UNCHANGED <<jar, store, restore, background, Fixed>>, Troubles(c)
  PROVE  WebStep(c)
  BY RunWarmupStep, JoinWarmupStep DEF Warmup

\* A step after which the call asks with the cookie in the jar, in the routine `task`.
LEMMA AsksStep ==
  ASSUME WebInv, NEW c \in WebCalls, NEW step \in Asks, NEW task \in Tasks,
         Moves(c, Ask(web[c], step, task)),
         web[c].kind = "open",
         web[c].task # "background" /\ task # "background",
         step = "page" => task \in Trying \cup {"joined"},
         step \in {"handshake", "lastHandshake"} => task = "none",
         step \in {"page", "handshake", "lastHandshake"},
         web[c].task \in Trying => task \in Trying \/ step = "lastHandshake",
         warming' \in {warming, Nothing}, warming' = c => task \in Trying,
         Underway(c), web[c].step # "lastHandshake",
         UNCHANGED <<jar, store, restore, background, Fixed>>, Troubles(c),
         ~onHop /\ c \notin troubled' =>
            /\ task # "second"
            /\ step = "lastHandshake" => NewFor(jar, web[c])
  PROVE  WebStep(c)
  <1>1. web[c] \in WebRec /\ step \in WebSteps /\ WebTypes
    BY DEF WebInv, WebTypes, WebSteps
  <1>2. /\ OnlyMoves(c)
        /\ web'[c].step = step /\ web'[c].task = task /\ web'[c].waits = Nothing
        /\ web'[c].sent = jar /\ (web'[c].good <=> jar = ends) /\ web'[c].kind = "open"
        /\ web'[c].since = web[c].since
    BY <1>1, AskIs, MovesTo
  <1>3. Hands(c) /\ LetsGo(c)
    BY <1>2 DEF Hands, LetsGo, Underway, Trying
  <1>4. Suits(web'[c]) /\ WaitsRight(c)' /\ web'[c].step # "idle"
    BY <1>2 DEF Suits, WaitsRight, Stores, Trying
  <1>5. /\ ends \in Nat /\ jar \in Session /\ Current(jar) /\ UNCHANGED <<jar, ends, onHop>>
        /\ web[c].since \in Nat /\ web[c].since <= ends
    BY <1>1, WebAssumption DEF WebInv, WebTypes, Issued, Fixed, WebRec
  <1>6. Current(web'[c].sent) /\ web'[c].since <= ends /\ web'[c].step # "failed"
    BY <1>2, <1>5 DEF Current
  <1>7. Clean(c)'
    <2>1. jar # Nothing => jar >= jar
      BY <1>5, WebAssumption DEF Session
    <2>2. jar = ends => NewFor(web'[c].sent, web'[c])
      BY <1>2, <1>5, WebAssumption DEF NewFor
    <2>3. NewFor(jar, web[c]) => NewFor(web'[c].sent, web'[c])
      BY <1>2 DEF NewFor
    <2>4. QED
      BY <1>2, <1>5, <2>1, <2>2, <2>3 DEF Clean
  <1>8. QED
    BY <1>2, <1>3, <1>4, <1>6, <1>7, SameJar DEF WebStep, Spares

\* A call ends.
LEMMA OverStep ==
  ASSUME WebInv, NEW c \in WebCalls, NEW how \in Outcomes, Moves(c, Over(c, how)), Cleared(c),
         Underway(c), web[c].step = "lastHandshake" => NoneDue,
         web[c].task \in Trying => how = "failed" /\ (onHop \/ c \in troubled'),
         ~onHop /\ c \notin troubled' =>
            (web[c].kind = "open" /\ how = "failed" => ends > web[c].since),
         jar' = jar, restore' = restore, store' \in {store, Nothing}, UNCHANGED Fixed, Troubles(c)
  PROVE  WebStep(c)
  <1>1. /\ OnlyMoves(c)
        /\ web'[c].step = how /\ web'[c].task = "none" /\ web'[c].waits = Nothing
        /\ web'[c].sent = Nothing /\ web'[c].since = 0
    BY OverIs, MovesTo DEF WebInv
  <1>2. Hands(c)
    <2>1. warming' = c => FALSE
      BY WebAssumption DEF Cleared, Trying, WebInv, Owned, WebCalls
    <2>2. QED
      BY <1>1, <2>1 DEF Hands, Cleared
  <1>3. LetsGo(c)
    BY <1>1 DEF LetsGo, Underway, Outcomes
  <1>4. Suits(web'[c]) /\ WaitsRight(c)' /\ Clean(c)' /\ web'[c].step # "idle"
    BY <1>1 DEF Suits, WaitsRight, Clean, Underway, Outcomes, Stores, Trying
  <1>5. /\ jar' \in Session /\ store' \in Session /\ Current(jar)' /\ Current(store)'
        /\ UNCHANGED <<restore, Fixed>>
    BY DEF WebInv, WebTypes, Issued, Current, Fixed, Session
  <1>6. Current(web'[c].sent) /\ web'[c].since <= ends
    BY <1>1, WebAssumption DEF Current, WebInv, WebTypes
  <1>7. ~onHop /\ c \notin troubled' => Spares(c)
    BY <1>1, WebAssumption DEF Spares, WebInv, WebTypes, Session
  <1>8. QED
    BY <1>1, <1>2, <1>3, <1>4, <1>5, <1>6, <1>7 DEF WebStep

\* A call waits for the background login in flight.
LEMMA AwaitLoginStep ==
  ASSUME WebInv, NEW c \in WebCalls, web[c].step = "restoring", background # Nothing,
         Moves(c, [At(c, "awaitLogin") EXCEPT !.waits = background]),
         UNCHANGED <<jar, store, restore, background, warming, troubled, Fixed>>
  PROVE  WebStep(c)
  <1> DEFINE r == [At(c, "awaitLogin") EXCEPT !.waits = background]
  <1>1. web[c].task = "none" /\ Underway(c) /\ WebTypes /\ background \in WebCalls
    BY DEF WebInv, WebTypes, Suits, Underway, Outcomes, Stores
  <1>2. /\ r \in WebRec /\ r.step = "awaitLogin" /\ r.task = "none" /\ r.waits = background
        /\ r.since = web[c].since /\ r.sent = Nothing /\ r.kind = web[c].kind
    <2>1. "awaitLogin" \in WebSteps
      BY DEF WebSteps, Waits
    <2>2. At(c, "awaitLogin") \in WebRec /\ At(c, "awaitLogin").step = "awaitLogin"
          /\ At(c, "awaitLogin").task = "none" /\ At(c, "awaitLogin").sent = Nothing
          /\ At(c, "awaitLogin").kind = web[c].kind /\ At(c, "awaitLogin").since = web[c].since
      BY <1>1, <2>1, AtIs
    <2>3. QED
      BY <1>1, <2>2 DEF WebRec
  <1> HIDE DEF r
  <1>3. OnlyMoves(c) /\ web'[c] = r
    BY <1>1, <1>2, MovesTo DEF r
  <1>4. web[background].task = "background" /\ background # c /\ warming # c
    BY <1>1, WebAssumption DEF WebInv, Owned, Trying, WebCalls
  <1>5. web'[background] = web[background]
    BY <1>1, <1>3, <1>4 DEF OnlyMoves
  <1>6. Hands(c) /\ LetsGo(c) /\ Troubles(c)
    BY <1>1, <1>2, <1>3, <1>4 DEF Hands, LetsGo, Troubles, NoTrouble, Underway, Trying
  <1>7. Suits(web'[c]) /\ WaitsRight(c)' /\ Clean(c)' /\ web'[c].step # "idle"
    BY <1>1, <1>2, <1>3, <1>4, <1>5 DEF Suits, WaitsRight, Clean, Stores, Trying
  <1>8. Current(web'[c].sent) /\ web'[c].since <= ends /\ web'[c].step # "failed"
    BY <1>2, <1>3 DEF Current, WebInv, Issued
  <1>9. QED
    BY <1>3, <1>6, <1>7, <1>8, SameJar DEF WebStep, Spares

\* ... or starts it.
LEMMA BackgroundStep ==
  ASSUME WebInv, NEW c \in WebCalls, web[c].step = "restoring", web[c].kind = "ensure",
         background = Nothing,
         Moves(c, [web[c] EXCEPT !.step = "form", !.task = "background"]), background' = c,
         UNCHANGED <<jar, store, restore, warming, troubled, Fixed>>
  PROVE  WebStep(c)
  <1> DEFINE r == [web[c] EXCEPT !.step = "form", !.task = "background"]
  <1>1. web[c].task = "none" /\ web[c].waits = Nothing /\ Underway(c) /\ WebTypes
    BY DEF WebInv, WebTypes, Suits, Underway, Outcomes, Stores
  <1>2. /\ r \in WebRec /\ r.step = "form" /\ r.task = "background" /\ r.waits = Nothing
        /\ r.since = web[c].since /\ r.sent = web[c].sent /\ r.kind = "ensure"
    BY <1>1 DEF WebTypes, WebRec, WebSteps, Asks, Tasks
  <1> HIDE DEF r
  <1>3. OnlyMoves(c) /\ web'[c] = r
    BY <1>1, <1>2, MovesTo DEF r
  <1>4. warming # c
    BY <1>1, WebAssumption DEF WebInv, Owned, Trying, WebCalls
  <1>5. Hands(c) /\ LetsGo(c) /\ Troubles(c)
    BY <1>1, <1>2, <1>3, <1>4 DEF Hands, LetsGo, Troubles, NoTrouble, Underway, Trying
  <1>6. Suits(web'[c]) /\ WaitsRight(c)' /\ Clean(c)' /\ web'[c].step # "idle"
    BY <1>1, <1>2, <1>3 DEF Suits, WaitsRight, Clean, Stores, Trying
  <1>7. Current(web'[c].sent) /\ web'[c].since <= ends /\ web'[c].step # "failed"
    BY <1>2, <1>3 DEF WebInv, Issued
  <1>8. QED
    BY <1>3, <1>5, <1>6, <1>7, SameJar DEF WebStep, Spares

LEMMA OpenSocketStep ==
  ASSUME WebInv, NEW c \in WebCalls, web[c].kind = "open",
         web[c].step \in {"restoring", "awaitLogin"}, OpenSocket(c),
         UNCHANGED <<jar, store, restore, troubled, Fixed>>
  PROVE  WebStep(c)
  <1>1. web[c].task = "none" /\ Underway(c) /\ Troubles(c) /\ UNCHANGED background
    BY DEF WebInv, Suits, Underway, Outcomes, Stores, Troubles, NoTrouble, OpenSocket
  <1>2. CASE Moves(c, Ask(web[c], "handshake", "none")) /\ UNCHANGED warming
    <2>1. warming # c
      BY <1>1, WebAssumption DEF WebInv, Owned, Trying, WebCalls
    <2>2. "handshake" \in Asks /\ "none" \in Tasks
      BY DEF Asks, Tasks
    <2>3. QED
      BY <1>1, <1>2, <2>1, <2>2, AsksStep DEF Trying
  <1>3. CASE Warmup(c)
    BY <1>1, <1>3, WarmupStep
  <1>4. QED
    BY <1>2, <1>3 DEF OpenSocket

LEMMA AfterRestoreStep ==
  ASSUME WebInv, NEW c \in WebCalls, AfterRestore(c)
  PROVE  WebStep(c)
  <1>1. /\ web[c].step = "restoring"
        /\ UNCHANGED <<jar, store, restore, troubled, Fixed>>
    BY DEF AfterRestore
  <1>2. CASE web[c].kind = "ensure" /\ EnsureWebSession(c)
    <2>1. CASE Moves(c, Over(c, "ok")) /\ UNCHANGED <<background, warming>>
      <3>1. web[c].task = "none" /\ Underway(c)
        BY <1>1 DEF WebInv, Suits, Underway, Outcomes, Stores
      <3>2. Cleared(c) /\ Troubles(c) /\ "ok" \in Outcomes
        BY <1>1, <2>1, <3>1 DEF Cleared, Troubles, NoTrouble, Outcomes
      <3>3. QED
        BY <1>1, <2>1, <3>1, <3>2, OverStep DEF Trying
    <2>2. QED
      BY <1>1, <1>2, <2>1, AwaitLoginStep, BackgroundStep DEF EnsureWebSession
  <1>3. CASE web[c].kind = "open" /\ OpenSocket(c)
    BY <1>1, <1>3, OpenSocketStep
  <1>4. QED
    BY <1>1, <1>2, <1>3, AwaitLoginStep DEF AfterRestore

LEMMA AfterLoginStep ==
  ASSUME WebInv, NEW c \in WebCalls, AfterLogin(c)
  PROVE  WebStep(c)
  <1>1. /\ LoginOver(c) /\ web[c].step = "awaitLogin"
        /\ UNCHANGED <<jar, store, restore, troubled, Fixed>>
    BY DEF AfterLogin, LoginOver
  <1>2. CASE web[c].kind = "open" /\ OpenSocket(c)
    BY <1>1, <1>2, OpenSocketStep
  <1>3. CASE /\ web[c].kind = "ensure"
             /\ Moves(c, Over(c, web[web[c].waits].step)) /\ UNCHANGED <<background, warming>>
    <2>1. web[c].task = "none" /\ Underway(c)
      BY <1>1 DEF WebInv, Suits, Underway, Outcomes, Stores
    <2>2. Cleared(c) /\ Troubles(c) /\ web[web[c].waits].step \in Outcomes
      BY <1>1, <1>3, <2>1 DEF Cleared, Troubles, NoTrouble, LoginOver, WebInv, WaitsRight
    <2>3. QED
      BY <1>1, <1>3, <2>1, <2>2, OverStep DEF Trying
  <1>4. QED
    BY <1>2, <1>3 DEF AfterLogin

LEMMA AfterWarmupStep ==
  ASSUME WebInv, NEW c \in WebCalls, AfterWarmup(c)
  PROVE  WebStep(c)
  <1>1. /\ web[c].step = "awaitWarmup" /\ web[c].task = "none" /\ web[c].kind = "open"
        /\ Underway(c)
        /\ UNCHANGED <<jar, store, restore, background, warming, troubled, Fixed>>
    BY DEF AfterWarmup, WarmupOver, WebInv, Suits, Underway, Outcomes, Stores
  <1>2. Cleared(c) /\ Troubles(c) /\ warming # c
    BY <1>1, WebAssumption DEF Cleared, Troubles, NoTrouble, WebInv, Owned, Trying, WebCalls
  <1>3. CASE Moves(c, Ask(web[c], "page", "joined"))
    <2>1. "page" \in Asks /\ "joined" \in Tasks
      BY DEF Asks, Tasks
    <2>2. QED
      BY <1>1, <1>2, <1>3, <2>1, AsksStep DEF Trying
  <1>4. CASE web[web[c].waits].step # "lastHandshake" /\ Moves(c, Over(c, "failed"))
    <2>1. "failed" \in Outcomes
      BY DEF Outcomes
    <2>2. web[web[c].waits].step = "failed"
      BY <1>1, <1>4 DEF AfterWarmup, WarmupOver, WebInv, WaitsRight, Trying
    <2>3. onHop \/ c \in troubled'
      BY <1>1, <2>2 DEF WebInv, Clean
    <2>4. QED
      BY <1>1, <1>2, <1>4, <2>1, <2>3, OverStep DEF Trying
  <1>5. QED
    BY <1>3, <1>4 DEF AfterWarmup

\* A call goes on in its routine, without a request that carries the cookie.
LEMMA AtStep ==
  ASSUME WebInv, NEW c \in WebCalls, NEW step \in {"form", "hop", "again"} \cup Stores,
         Moves(c, At(c, step)), web[c].task # "none",
         step \in {"again", "invalidating"} => web[c].task # "background",
         step \in Stores => web[c].task # "joined",
         step = "invalidating" => web[c].task = "first",
         step = "clearing" => web[c].task # "first",
         UNCHANGED <<background, warming, restore, Fixed>>, Troubles(c),
         jar' \in Session, store' \in Session, Current(jar)', Current(store)',
         ~onHop /\ c \notin troubled' =>
            /\ step \in {"form", "saving"}
            /\ jar # Nothing => jar' # Nothing /\ jar' >= jar
            /\ step = "saving" /\ web[c].task = "first" => NewFor(jar', web[c])
  PROVE  WebStep(c)
  <1>1. WebTypes /\ step \in WebSteps /\ Suits(web[c]) /\ web[c].waits = Nothing
    BY DEF WebInv, WebSteps, Stores, Asks, Suits
  <1>2. /\ OnlyMoves(c)
        /\ web'[c].step = step /\ web'[c].task = web[c].task /\ web'[c].waits = Nothing
        /\ web'[c].sent = Nothing /\ web'[c].good = FALSE
        /\ web'[c].kind = web[c].kind /\ web'[c].since = web[c].since
    <2>1. /\ At(c, step) \in WebRec
          /\ At(c, step).step = step /\ At(c, step).task = web[c].task
          /\ At(c, step).waits = Nothing /\ At(c, step).sent = Nothing
          /\ At(c, step).good = FALSE
          /\ At(c, step).kind = web[c].kind /\ At(c, step).since = web[c].since
      BY <1>1, AtIs
    <2>2. OnlyMoves(c) /\ web'[c] = At(c, step)
      BY <1>1, <2>1, MovesTo
    <2>3. QED
      BY <2>1, <2>2
  <1>3. /\ web[c].step # "idle" /\ Underway(c)
        /\ web[c].step # "lastHandshake"
    BY <1>1 DEF Suits, Underway, Outcomes, Stores
  <1>4. Hands(c)
    <2>1. background = c <=> web[c].task = "background"
      BY DEF WebInv, Owned
    <2>2. warming = c => web[c].task \in Trying
      BY WebAssumption DEF WebInv, Owned, WebCalls
    <2>3. QED
      BY <1>2, <2>1, <2>2 DEF Hands
  <1>5. LetsGo(c)
    BY <1>2, <1>3 DEF LetsGo, Underway
  <1>6. Suits(web'[c]) /\ WaitsRight(c)' /\ web'[c].step # "idle" /\ web'[c].step # "failed"
    BY <1>1, <1>2 DEF Suits, WaitsRight, Stores, Trying
  <1>7. Current(web'[c].sent) /\ web'[c].since <= ends
    BY <1>2 DEF Current, WebInv, Issued
  <1>8. Clean(c)'
    <2>1. c \notin troubled' /\ ~onHop => web[c].task # "second"
      BY <1>3 DEF Troubles, Trouble, NoTrouble, WebInv, Clean
    <2>2. NewFor(jar', web[c]) => NewFor(jar', web'[c])
      BY <1>2 DEF NewFor
    <2>3. QED
      BY <1>2, <2>1, <2>2 DEF Clean, Stores, Fixed
  <1>9. QED
    BY <1>2, <1>4, <1>5, <1>6, <1>7, <1>8 DEF WebStep, Spares

\* The routine has found the session s in the jar, or put it there.
LEMMA ProvenStep ==
  ASSUME WebInv, NEW c \in WebCalls, NEW s \in Session, Proven(c, s), jar' = s, Current(s),
         web[c].task # "none", UNCHANGED <<restore, Fixed>>, Troubles(c),
         ~onHop /\ c \notin troubled' =>
            NewFor(s, web[c]) /\ (jar # Nothing => s # Nothing /\ s >= jar)
  PROVE  WebStep(c)
  <1>1. Current(jar)' /\ UNCHANGED ends
    BY DEF Current, Fixed
  <1>2. CASE web[c].task = "joined"
    <2> DEFINE r == [web[c] EXCEPT !.step = "lastHandshake", !.task = "none", !.sent = s,
                                   !.good = s = ends]
    <2>1. /\ Moves(c, r) /\ UNCHANGED <<store, background, warming>>
      BY <1>2 DEF Proven
    <2>2. WebTypes /\ web[c] \in WebRec /\ Suits(web[c]) /\ web[c].waits = Nothing
      BY <1>2 DEF WebInv, WebTypes, Suits, Stores
    <2>3. /\ r \in WebRec /\ r.step = "lastHandshake" /\ r.task = "none" /\ r.waits = Nothing
          /\ r.sent = s /\ r.kind = "open" /\ r.since = web[c].since
      BY <1>2, <2>2 DEF WebRec, WebSteps, Asks, Tasks, Suits
    <2> HIDE DEF r
    <2>4. OnlyMoves(c) /\ web'[c] = r
      BY <2>1, <2>2, <2>3, MovesTo
    <2>5. Underway(c) /\ web[c].step # "lastHandshake" /\ warming # c
      BY <1>2, <2>2, WebAssumption DEF Suits, Underway, Outcomes, Stores, WebInv, Owned, Trying, WebCalls
    <2>6. Hands(c) /\ LetsGo(c)
      BY <1>2, <2>1, <2>3, <2>4, <2>5 DEF Hands, LetsGo, Underway, Trying
    <2>7. Suits(web'[c]) /\ WaitsRight(c)' /\ web'[c].step # "idle" /\ web'[c].step # "failed"
      BY <2>3, <2>4 DEF Suits, WaitsRight, Stores, Trying
    <2>8. Current(web'[c].sent) /\ web'[c].since <= ends
      BY <2>3, <2>4 DEF WebInv, Issued
    <2>9. Clean(c)'
      BY <2>3, <2>4 DEF Clean, NewFor, Fixed
    <2>10. store' \in Session /\ Current(store)'
      BY <1>1, <2>1 DEF WebInv, WebTypes, Issued, Current
    <2>11. QED
      BY <1>1, <2>4, <2>6, <2>7, <2>8, <2>9, <2>10 DEF WebStep, Spares
  <1>3. CASE web[c].task # "joined"
    <2>1. /\ Moves(c, At(c, "saving")) /\ UNCHANGED <<background, warming>>
          /\ store' \in {store, s}
      BY <1>3 DEF Proven, Save
    <2>2. store' \in Session /\ Current(store)'
      BY <1>1, <2>1 DEF WebInv, WebTypes, Issued, Current
    <2>3. "saving" \in {"form", "hop", "again"} \cup Stores
      BY DEF Stores
    <2>4. QED
      BY <1>1, <1>3, <2>1, <2>2, <2>3, AtStep
  <1>4. QED
    BY <1>2, <1>3

LEMMA UnprovenStep ==
  ASSUME WebInv, NEW c \in WebCalls, web[c].step = "again", Unproven(c),
         UNCHANGED <<restore, Fixed>>, NoTrouble
  PROVE  WebStep(c)
  <1>1. Underway(c) /\ Troubles(c) /\ Suits(web[c]) /\ web[c].task # "none"
    BY DEF Underway, Outcomes, Troubles, NoTrouble, WebInv, Suits
  <1>2. onHop \/ c \in troubled'
    BY <1>1 DEF NoTrouble, WebInv, Clean
  <1>3. ASSUME Clear
        PROVE  store' \in Session /\ Current(store)'
    BY <1>3 DEF Clear, WebInv, WebTypes, Issued, Current, Session, Fixed
  <1>4. CASE web[c].task = "first"
    <2>1. jar' = Nothing /\ Clear /\ Moves(c, At(c, "invalidating")) /\ UNCHANGED <<background, warming>>
      BY <1>4 DEF Unproven
    <2>2. jar' \in Session /\ Current(jar)'
      BY <2>1 DEF Session, Current
    <2>3. "invalidating" \in {"form", "hop", "again"} \cup Stores
      BY DEF Stores
    <2>4. QED
      BY <1>1, <1>2, <1>3, <1>4, <2>1, <2>2, <2>3, AtStep
  <1>5. CASE web[c].task = "second"
    <2>1. jar' = jar /\ Clear /\ Moves(c, At(c, "clearing")) /\ UNCHANGED <<background, warming>>
      BY <1>5 DEF Unproven
    <2>2. jar' \in Session /\ Current(jar)'
      BY <2>1 DEF WebInv, WebTypes, Issued, Current, Fixed
    <2>3. "clearing" \in {"form", "hop", "again"} \cup Stores
      BY DEF Stores
    <2>4. QED
      BY <1>1, <1>2, <1>3, <1>5, <2>1, <2>2, <2>3, AtStep
  <1>6. CASE web[c].task = "joined"
    <2>1. RunWarmup(c) /\ UNCHANGED <<jar, store, background>> /\ web[c].kind = "open"
      BY <1>1, <1>6 DEF Unproven, Suits
    <2>2. QED
      BY <1>1, <1>6, <2>1, RunWarmupStep
  <1>7. QED
    BY <1>4, <1>5, <1>6 DEF Unproven

\* loginWebForm has left the session s: JumpServer's own, or the one that was there.
LEMMA LoggedInStep ==
  ASSUME WebInv, NEW c \in WebCalls, NEW s \in Session, LoggedIn(c, s), Current(s),
         web[c].step \in {"form", "hop"}, UNCHANGED <<restore, Fixed>>,
         NoTrouble \/ Trouble, Trouble \/ onHop \/ s = ends
  PROVE  WebStep(c)
  <1>1. Underway(c) /\ Troubles(c) /\ Suits(web[c]) /\ web[c].task # "none" /\ jar' = s
    BY DEF Underway, Outcomes, Troubles, WebInv, Suits, LoggedIn
  <1>2. Trouble => c \in troubled'
    BY <1>1 DEF Trouble
  <1>3. /\ ends \in Nat /\ web[c].since \in Nat /\ web[c].since <= ends
        /\ jar \in Session /\ Current(jar) /\ UNCHANGED ends
    BY WebAssumption DEF WebInv, WebTypes, WebRec, Issued, Fixed
  <1>4. ~onHop /\ c \notin troubled' =>
           s # Nothing /\ NewFor(s, web[c]) /\ (jar # Nothing => s >= jar)
    <2>1. SUFFICES ASSUME s = ends
                   PROVE  s # Nothing /\ NewFor(s, web[c]) /\ (jar # Nothing => s >= jar)
      BY <1>2
    <2>2. QED
      BY <1>3, <2>1, WebAssumption DEF NewFor, Current, Session
  <1>5. CASE s # Nothing /\ Proven(c, s)
    BY <1>1, <1>4, <1>5, ProvenStep
  <1>6. CASE s = Nothing /\ web[c].task = "background"
    <2>1. Clear /\ Moves(c, At(c, "clearing")) /\ UNCHANGED <<background, warming>>
      BY <1>6 DEF LoggedIn
    <2>2. store' \in Session /\ Current(store)' /\ Current(jar)'
      BY <1>1, <1>6, <2>1 DEF Clear, WebInv, WebTypes, Issued, Current, Session, Fixed
    <2>3. "clearing" \in {"form", "hop", "again"} \cup Stores
      BY DEF Stores
    <2>4. QED
      BY <1>1, <1>4, <1>6, <2>1, <2>2, <2>3, AtStep
  <1>7. CASE s = Nothing /\ web[c].task # "background"
    <2>1. Moves(c, At(c, "again")) /\ UNCHANGED <<store, background, warming>>
      BY <1>7 DEF LoggedIn
    <2>2. store' \in Session /\ Current(store)' /\ Current(jar)'
      BY <1>1, <1>7, <2>1 DEF WebInv, WebTypes, Issued, Current, Session, Fixed
    <2>3. "again" \in {"form", "hop", "again"} \cup Stores
      OBVIOUS
    <2>4. "again" \notin Stores
      BY DEF Stores
    <2>5. QED
      BY <1>1, <1>4, <1>7, <2>1, <2>2, <2>3, <2>4, AtStep
  <1>8. QED
    BY <1>5, <1>6, <1>7 DEF LoggedIn

LEMMA StoredStep ==
  ASSUME WebInv, NEW c \in WebCalls, Stored(c)
  PROVE  WebStep(c)
  <1>1. /\ UNCHANGED <<jar, store, restore, troubled, Fixed>> /\ NoneDue
        /\ web[c].step \in Stores /\ Suits(web[c]) /\ Clean(c)
    BY DEF Stored, Stores, WebInv
  <1>2. /\ Underway(c) /\ Troubles(c) /\ web[c].step # "lastHandshake" /\ web[c].task # "none"
    BY <1>1 DEF Underway, Outcomes, Stores, Troubles, NoTrouble, Suits
  <1>3. "ok" \in Outcomes /\ "failed" \in Outcomes
    BY DEF Outcomes
  <1>4. ASSUME web[c].step = "saving", web[c].task = "background", Moves(c, Over(c, "ok")), Cleared(c)
        PROVE  WebStep(c)
    BY <1>1, <1>2, <1>3, <1>4, OverStep DEF Trying
  <1>5. ASSUME web[c].step = "saving", web[c].task # "background",
               Moves(c, Ask(web[c], "lastHandshake", "none")), Cleared(c)
        PROVE  WebStep(c)
    <2>1. web[c].task \in Trying /\ web[c].kind = "open"
      BY <1>1, <1>2, <1>5 DEF Suits, Stores, WebInv, WebTypes, WebRec, Tasks, Trying
    <2>2. warming' = Nothing /\ warming' # c /\ UNCHANGED background
      BY <1>5, <2>1, WebAssumption DEF Cleared, Trying, WebCalls
    <2>3. ~onHop /\ c \notin troubled' => NewFor(jar, web[c])
      BY <1>1, <1>2, <1>5, <2>1 DEF Clean, Trying
    <2>4. "lastHandshake" \in Asks /\ "none" \in Tasks
      BY DEF Asks, Tasks
    <2>5. QED
      BY <1>1, <1>2, <1>5, <2>1, <2>2, <2>3, <2>4, AsksStep
  <1>6. ASSUME web[c].step = "invalidating", Moves(c, Ask(web[c], "page", "second")),
               UNCHANGED <<background, warming>>
        PROVE  WebStep(c)
    <2>1. web[c].task = "first" /\ web[c].kind = "open"
      BY <1>1, <1>6 DEF Suits, Trying
    <2>2. onHop \/ c \in troubled'
      BY <1>1, <1>2, <1>6 DEF Clean
    <2>3. "page" \in Asks /\ "second" \in Tasks /\ "second" \in Trying /\ "first" \in Trying
      BY DEF Asks, Tasks, Trying
    <2>4. QED
      BY <1>1, <1>2, <1>6, <2>1, <2>2, <2>3, AsksStep
  <1>7. ASSUME web[c].step = "clearing", Moves(c, Over(c, "failed")), Cleared(c)
        PROVE  WebStep(c)
    <2>1. onHop \/ c \in troubled'
      BY <1>1, <1>2, <1>7 DEF Clean
    <2>2. QED
      BY <1>1, <1>2, <1>3, <1>7, <2>1, OverStep
  <1>8. QED
    BY <1>4, <1>5, <1>6, <1>7 DEF Stored

LEMMA PageStep ==
  ASSUME WebInv, NEW c \in WebCalls, Page(c), UNCHANGED <<restore, Fixed>>
  PROVE  WebStep(c)
  <1>1. /\ web[c].step = "page" /\ UNCHANGED jar /\ NoTrouble
        /\ web[c].task # "none" /\ Underway(c) /\ Troubles(c)
    BY DEF Page, WebInv, Suits, Underway, Outcomes, Troubles
  <1>2. jar \in Session /\ Current(jar) /\ Current(jar)' /\ store \in Session /\ Current(store)
    BY <1>1 DEF WebInv, WebTypes, Issued, Fixed, Current
  <1>3. CASE Alive(c) /\ Proven(c, jar)
    <2>1. ASSUME ~onHop, c \notin troubled'
          PROVE  NewFor(jar, web[c]) /\ (jar # Nothing => jar >= jar)
      <3>1. /\ web[c].sent # Nothing => jar # Nothing /\ jar >= web[c].sent
            /\ web[c].good => NewFor(web[c].sent, web[c])
        BY <1>1, <2>1 DEF NoTrouble, WebInv, Clean
      <3>2. web[c].sent = ends => NewFor(web[c].sent, web[c])
        BY WebAssumption DEF NewFor, WebInv, WebTypes, Issued
      <3>3. NewFor(web[c].sent, web[c])
        BY <1>3, <3>1, <3>2 DEF Alive
      <3>4. jar \in Nat /\ web[c].sent \in Nat /\ web[c].since \in Nat
        BY <1>2, <3>1, <3>3, WebAssumption DEF NewFor, Session, WebInv, WebTypes, WebRec
      <3>5. QED
        BY <3>1, <3>3, <3>4 DEF NewFor
    <2>2. QED
      BY <1>1, <1>2, <1>3, <2>1, ProvenStep
  <1>4. CASE Moves(c, At(c, "form")) /\ UNCHANGED <<store, background, warming>>
    <2>1. "form" \in {"form", "hop", "again"} \cup Stores /\ "form" \notin Stores
      BY DEF Stores
    <2>2. jar # Nothing => jar >= jar
      BY <1>2, WebAssumption DEF Session
    <2>3. store' \in Session /\ Current(store)'
      BY <1>2, <1>4 DEF Current, Fixed
    <2>4. QED
      BY <1>1, <1>2, <1>4, <2>1, <2>2, <2>3, AtStep
  <1>5. QED
    BY <1>3, <1>4 DEF Page

LEMMA FormStep ==
  ASSUME WebInv, NEW c \in WebCalls, Form(c), UNCHANGED <<restore, Fixed>>
  PROVE  WebStep(c)
  <1>1. /\ ends \in Session /\ Current(ends) /\ jar \in Session /\ Current(jar)
        /\ store \in Session /\ Current(store)
    BY WebAssumption DEF WebInv, WebTypes, Issued, Current, Session
  <1>2. CASE onHop /\ NoTrouble /\ Moves(c, At(c, "hop")) /\ UNCHANGED <<jar, store, background, warming>>
    <2>1. "hop" \in {"form", "hop", "again"} \cup Stores /\ "hop" \notin Stores
      BY DEF Stores
    <2>2. web[c].task # "none" /\ Underway(c) /\ Troubles(c)
      BY <1>2 DEF Form, WebInv, Suits, Underway, Outcomes, Troubles
    <2>3. jar' \in Session /\ store' \in Session /\ Current(jar)' /\ Current(store)'
      BY <1>1, <1>2 DEF Current, Fixed
    <2>4. QED
      BY <1>2, <2>1, <2>2, <2>3, AtStep
  <1>3. QED
    BY <1>1, <1>2, LoggedInStep DEF Form

LEMMA HopStep ==
  ASSUME WebInv, NEW c \in WebCalls, Hop(c), UNCHANGED <<restore, Fixed>>
  PROVE  WebStep(c)
  <1>1. ends \in Session /\ Current(ends) /\ jar \in Session /\ Current(jar)
    BY WebAssumption DEF WebInv, WebTypes, Issued, Current, Session
  <1>2. QED
    BY <1>1, LoggedInStep DEF Hop

LEMMA AgainStep ==
  ASSUME WebInv, NEW c \in WebCalls, Again(c), UNCHANGED <<restore, Fixed>>
  PROVE  WebStep(c)
  <1>1. /\ web[c].step = "again" /\ NoTrouble /\ web[c].task # "none" /\ Troubles(c)
    BY DEF Again, WebInv, Suits, Underway, Outcomes, Troubles
  <1>2. jar \in Session /\ Current(jar) /\ (onHop \/ c \in troubled')
    BY <1>1 DEF WebInv, WebTypes, Issued, Clean, NoTrouble, Underway, Outcomes
  <1>3. CASE Proven(c, jar) /\ UNCHANGED jar
    BY <1>1, <1>2, <1>3, ProvenStep
  <1>4. CASE Unproven(c)
    BY <1>1, <1>4, UnprovenStep
  <1>5. QED
    BY <1>3, <1>4 DEF Again

LEMMA HandshakeStep ==
  ASSUME WebInv, NEW c \in WebCalls, NoneDue, Handshake(c), UNCHANGED <<restore, Fixed>>
  PROVE  WebStep(c)
  <1>1. /\ web[c].step \in {"handshake", "lastHandshake"} /\ NoTrouble
        /\ UNCHANGED <<jar, store, background>>
        /\ web[c].task = "none" /\ web[c].kind = "open" /\ Underway(c) /\ Troubles(c)
    BY DEF Handshake, WebInv, Suits, Stores, Underway, Outcomes, Troubles
  <1>2. ASSUME NEW how \in Outcomes, Moves(c, Over(c, how)), UNCHANGED warming,
               how = "failed" => web[c].step = "lastHandshake" /\ Dead(c)
        PROVE  WebStep(c)
    <2>1. ASSUME ~onHop, c \notin troubled', web[c].step = "lastHandshake", Dead(c)
          PROVE  ends > web[c].since
      <3>1. NewFor(web[c].sent, web[c])
        BY <1>1, <2>1 DEF WebInv, Clean, NoTrouble
      <3>2. web[c].sent <= ends /\ web[c].sent \in Nat /\ ends \in Nat /\ web[c].since \in Nat
        BY <3>1, WebAssumption DEF NewFor, WebInv, WebTypes, WebRec, Session, Issued, Current
      <3>3. QED
        BY <2>1, <3>1, <3>2 DEF NewFor, Dead
    <2>2. QED
      BY <1>1, <1>2, <2>1, OverStep DEF Cleared, Trying
  <1>3. CASE web[c].step = "handshake" /\ Warmup(c)
    BY <1>1, <1>3, WarmupStep
  <1>4. "ok" \in Outcomes /\ "failed" \in Outcomes
    BY DEF Outcomes
  <1>5. QED
    BY <1>2, <1>3, <1>4 DEF Handshake

LEMMA BrokenStep ==
  ASSUME WebInv, NEW c \in WebCalls, NoneDue, Broken(c), UNCHANGED <<restore, Fixed>>
  PROVE  WebStep(c)
  <1>1. /\ web[c].step \in Asks /\ Trouble /\ UNCHANGED jar /\ Underway(c) /\ Troubles(c)
        /\ c \in troubled'
    BY DEF Broken, Asks, Underway, Outcomes, Troubles, Trouble
  <1>2. CASE Throw(c)
    <2>1. "failed" \in Outcomes /\ Moves(c, Over(c, "failed")) /\ Cleared(c) /\ UNCHANGED store
      BY <1>2 DEF Throw, Outcomes
    <2>2. QED
      BY <1>1, <2>1, OverStep
  <1>3. CASE web[c].step = "handshake" /\ Warmup(c) /\ UNCHANGED <<store, background>>
    <2>1. web[c].task = "none" /\ web[c].kind = "open"
      BY <1>3 DEF WebInv, Suits, Stores
    <2>2. QED
      BY <1>1, <1>3, <2>1, WarmupStep
  <1>4. QED
    BY <1>2, <1>3 DEF Broken

LEMMA CallStep ==
  ASSUME WebInv, NEW c \in WebCalls, Start(c) \/ Continue(c)
  PROVE  WebStep(c)
  BY StartStep, AfterRestoreStep, AfterLoginStep, AfterWarmupStep, StoredStep, PageStep,
     FormStep, HopStep, AgainStep, HandshakeStep, BrokenStep DEF Continue, Replied

----------------------------------------------------------------------------
\* The other steps, and the theorems.

LEMMA RestoredKeepsInv ==
  ASSUME WebInv, Restored
  PROVE  WebInv'
  <1>1. /\ jar # Nothing => jar' = jar
        /\ jar' \in {jar, store}
        /\ restore' = "done"
        /\ UNCHANGED <<store, background, warming, web, troubled, onHop, ends>>
    BY DEF Restored, Fixed
  <1>2. WebTypes' /\ Owned' /\ Issued' /\ Shared'
    BY <1>1 DEF WebInv, WebTypes, Owned, Issued, Shared, Current, Underway
  <1>3. ASSUME NEW c \in WebCalls
        PROVE  Suits(web'[c]) /\ WaitsRight(c)' /\ Clean(c)'
    BY <1>1 DEF WebInv, WaitsRight, Clean, Underway, NewFor
  <1>4. QED
    BY <1>2, <1>3 DEF WebInv

LEMMA AttachKeepsInv ==
  ASSUME WebInv, Attach
  PROVE  WebInv'
  <1>1. /\ restore' = "loading"
        /\ UNCHANGED <<jar, store, background, warming, web, troubled, onHop, ends>>
    BY DEF Attach, Fixed
  <1>2. WebTypes' /\ Owned' /\ Issued' /\ Shared'
    BY <1>1 DEF WebInv, WebTypes, Owned, Issued, Shared, Current, Underway
  <1>3. ASSUME NEW c \in WebCalls
        PROVE  Suits(web'[c]) /\ WaitsRight(c)' /\ Clean(c)'
    BY <1>1 DEF WebInv, WaitsRight, Clean, Underway, NewFor
  <1>4. QED
    BY <1>2, <1>3 DEF WebInv

LEMMA EndSessionsKeepsInv ==
  ASSUME WebInv, EndSessions
  PROVE  WebInv'
  <1>1. /\ ends \in Nat /\ ends' = ends + 1 /\ ends' \in 0..MaxEnds
        /\ UNCHANGED <<jar, store, restore, background, warming, web, troubled, onHop>>
    BY WebAssumption DEF EndSessions, WebInv, WebTypes
  <1>2. ASSUME NEW s \in Session, Current(s)
        PROVE  Current(s)'
    BY <1>1, <1>2, WebAssumption DEF Current, Session
  <1>3. WebTypes' /\ Owned' /\ Shared'
    BY <1>1 DEF WebInv, WebTypes, Owned, Shared, Underway
  <1>4. Issued'
    <2>1. Current(jar)' /\ Current(store)'
      BY <1>1, <1>2 DEF WebInv, WebTypes, Issued, Current
    <2>2. ASSUME NEW c \in WebCalls
          PROVE  Current(web[c].sent)' /\ (web[c].since <= ends)'
      <3>1. web[c].sent \in Session /\ Current(web[c].sent) /\ web[c].since \in Nat /\ web[c].since <= ends
        BY WebAssumption DEF WebInv, WebTypes, WebRec, Issued
      <3>2. QED
        BY <1>1, <1>2, <3>1 DEF Current
    <2>3. QED
      BY <2>1, <2>2 DEF Issued
  <1>5. ASSUME NEW c \in WebCalls
        PROVE  Suits(web'[c]) /\ WaitsRight(c)' /\ Clean(c)'
    BY <1>1 DEF WebInv, WaitsRight, Clean, Underway, NewFor
  <1>6. QED
    BY <1>3, <1>4, <1>5 DEF WebInv

LEMMA WebInitInv == WebInit => WebInv
  <1> SUFFICES ASSUME WebInit
               PROVE  WebInv
    OBVIOUS
  <1>1. /\ NoWebCall \in WebRec /\ NoWebCall.step = "idle" /\ NoWebCall.task = "none"
        /\ NoWebCall.sent = Nothing /\ NoWebCall.since = 0 /\ NoWebCall.waits = Nothing
        /\ NoWebCall.kind = "ensure"
    BY WebAssumption DEF NoWebCall, WebRec, WebSteps, Session, Tasks
  <1>2. \A c \in WebCalls : web[c] = NoWebCall
    BY DEF WebInit
  <1>3. WebTypes
    BY <1>1, WebAssumption DEF WebInit, WebTypes, Session
  <1>4. Owned /\ Shared
    BY <1>1, <1>2, WebAssumption DEF WebInit, Owned, Shared, WebCalls
  <1>5. Issued
    BY <1>1, <1>2, WebAssumption DEF WebInit, Issued, Current
  <1>6. ASSUME NEW c \in WebCalls
        PROVE  Suits(web[c]) /\ WaitsRight(c) /\ Clean(c)
    BY <1>1, <1>2 DEF Suits, WaitsRight, Clean, Underway, Stores, Trying
  <1>7. QED
    BY <1>3, <1>4, <1>5, <1>6 DEF WebInv

LEMMA WebNextInv == WebInv /\ [WebNext]_webVars => WebInv'
  <1> SUFFICES ASSUME WebInv, [WebNext]_webVars
               PROVE  WebInv'
    OBVIOUS
  <1>1. CASE Attach \/ Restored \/ EndSessions
    BY <1>1, AttachKeepsInv, RestoredKeepsInv, EndSessionsKeepsInv
  <1>2. ASSUME NEW c \in WebCalls, Start(c) \/ Continue(c)
        PROVE  WebInv'
    BY <1>2, CallStep, StepKeepsInv
  <1>3. CASE UNCHANGED webVars
    <2>1. WebTypes' /\ Owned' /\ Issued' /\ Shared'
      BY <1>3 DEF webVars, WebInv, WebTypes, Owned, Issued, Shared, Current, Underway
    <2>2. ASSUME NEW c \in WebCalls
          PROVE  Suits(web'[c]) /\ WaitsRight(c)' /\ Clean(c)'
      BY <1>3 DEF webVars, WebInv, WaitsRight, Clean, Underway, NewFor
    <2>3. QED
      BY <2>1, <2>2 DEF WebInv
  <1>4. QED
    BY <1>1, <1>2, <1>3 DEF WebNext

LEMMA WebInvariance == WebSpec => []WebInv
  BY WebInitInv, WebNextInv, PTL DEF WebSpec

\* The types, and that what is in flight is somebody's: at most one background
\* login at a time, which is the one webSessionInflight stands for, and a warmup
\* in flight only while the call that set it runs it.
THEOREM WebTypeCorrect == WebSpec => []WebTypeOK
  <1>1. WebInv => WebTypeOK
    BY WebTypesAgree DEF WebInv
  <1>2. QED
    BY <1>1, WebInvariance, PTL

\* Nobody waits for somebody who waits: the login or the warmup awaited is run by a
\* call that has a request, a handshake or a save of its own, or that is over.
NobodyWaitsInTurn ==
    \A c \in WebCalls :
       web[c].step \in {"awaitLogin", "awaitWarmup"} =>
          /\ web[c].waits \in WebCalls \ {c}
          /\ web[web[c].waits].step \in (Asks \cup Stores \cup Outcomes) \ {"handshake"}

\* The waits of EveryConnectSettles have no circle.
THEOREM WaitsEnd == WebSpec => []NobodyWaitsInTurn
  <1>1. ASSUME WebInv, NEW c \in WebCalls, web[c].step \in {"awaitLogin", "awaitWarmup"}
        PROVE  /\ web[c].waits \in WebCalls \ {c}
               /\ web[web[c].waits].step \in (Asks \cup Stores \cup Outcomes) \ {"handshake"}
    <2> DEFINE w == web[c].waits
    <2>1. w \in WebCalls /\ web[c].task = "none"
      BY <1>1 DEF WebInv, WebTypes, WebRec, Suits, Stores
    <2> HIDE DEF w
    <2>2. Suits(web[w]) /\ web[w].task # "none" => web[w].step \in {"page", "form", "hop", "again"} \cup Stores
      BY DEF Suits
    <2>3. \/ web[w].task \in {"background"} \cup Trying
          \/ web[w].step \in {"lastHandshake", "failed"} \cup Outcomes
      BY <1>1 DEF WebInv, WaitsRight, w
    <2>4. web[w].task \in {"background"} \cup Trying => web[w].step \in {"page", "form", "hop", "again"} \cup Stores
      BY <1>1, <2>1, <2>2 DEF WebInv, Trying
    <2>5. w # c
      BY <1>1, <2>1, <2>3 DEF Trying, Outcomes
    <2>6. web[w].step \in (Asks \cup Stores \cup Outcomes) \ {"handshake"}
      BY <2>3, <2>4 DEF Asks, Stores, Outcomes
    <2>7. QED
      BY <2>1, <2>5, <2>6 DEF w
  <1>2. WebInv => NobodyWaitsInTurn
    BY <1>1 DEF NobodyWaitsInTurn
  <1>3. QED
    BY <1>2, WebInvariance, PTL

\* For any number of calls, logins and restarts of the server's sessions: an open
\* that met no failed request fails only when JumpServer has ended its sessions
\* again since its warmup began.
THEOREM StaleReplaced == WebSpec => StaleSessionsAreReplaced
  <1> DEFINE Right == \A c \in WebCalls :
                (/\ web[c].kind = "open" /\ Underway(c) /\ web'[c].step = "failed"
                 /\ c \notin troubled' /\ ~onHop) => ends > web[c].since
  <1>1. ASSUME WebInv, [WebNext]_webVars
        PROVE  Right
    <2> SUFFICES ASSUME NEW c \in WebCalls,
                        web[c].kind = "open", Underway(c), web'[c].step = "failed",
                        c \notin troubled', ~onHop
                 PROVE  ends > web[c].since
      OBVIOUS
    <2>1. web[c].step # "failed"
      BY DEF Underway, Outcomes
    <2>2. ASSUME NEW d \in WebCalls, Start(d) \/ Continue(d)
          PROVE  ends > web[c].since
      <3>1. WebStep(d)
        BY <1>1, <2>2, CallStep
      <3>2. d = c
        BY <2>1, <3>1 DEF WebStep, OnlyMoves
      <3>3. QED
        BY <3>1, <3>2 DEF WebStep, Spares
    <2>3. ~(Attach \/ Restored \/ EndSessions) /\ ~UNCHANGED webVars
      BY <2>1 DEF Attach, Restored, EndSessions, webVars
    <2>4. QED
      BY <1>1, <2>2, <2>3 DEF WebNext
  <1>2. WebInv /\ [WebNext]_webVars => [Right]_webVars
    BY <1>1
  <1>3. QED
    BY <1>2, WebInvariance, PTL DEF WebSpec, StaleSessionsAreReplaced

=============================================================================
