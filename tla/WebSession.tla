----------------------------- MODULE WebSession -----------------------------
(***************************************************************************)
(* The web half of JumpServerClient (src/src/jumpserver): the Django       *)
(* session whose cookie opens KoKo's WebSockets.  It is restored from the  *)
(* secret store, logged in for in the background (ensureWebSession), tried *)
(* in a handshake, warmed up when that fails, and saved again.  All of it  *)
(* is shared by the connects of a bastion, which overlap at every await.   *)
(*                                                                         *)
(* A session is the number of times JumpServer had ended its sessions when *)
(* it was issued: it is alive as long as that is the current number.       *)
(***************************************************************************)
EXTENDS Naturals

CONSTANTS Ensures,      \* calls that may be ensureWebSession
          Opens,        \* calls that may be openKokoSocket; each is made once
          MaxEnds,      \* bound on how often JumpServer ends its sessions
          Nothing       \* no cookie, no call

ASSUME WebAssumption ==
    /\ MaxEnds \in Nat
    /\ Nothing \notin Nat /\ Nothing \notin Ensures \cup Opens

WebCalls == Ensures \cup Opens

VARIABLES jar,          \* the sessionid cookie of the client
          store,        \* the one in SecretStorage
          restore,      \* webSessionRestore
          background,   \* webSessionInflight: the call whose login it is
          warming,      \* warmupInflight: the call whose warmup it is
          web,          \* the state of each call
          onHop,        \* does JumpServer set the cookie on a redirect after the POST?
          troubled,     \* history: calls that met a failed request: their own, or one
                        \* of a call that overlapped them
          ends

webVars == <<jar, store, restore, background, warming, web, onHop, troubled, ends>>
Fixed == <<onHop, ends>>

Session == 0..MaxEnds \cup {Nothing}
\* Which routine a request belongs to: runWebSessionLogin, the two tries of
\* runWarmup, or the try of a call that has waited for another's warmup.
Tasks == {"none", "background", "first", "second", "joined"}
Waits == {"restoring", "awaitLogin", "awaitWarmup"}
Asks == {"handshake", "page", "form", "hop", "again", "lastHandshake"}
Stores == {"saving", "invalidating", "clearing"}
Outcomes == {"ok", "failed"}
NoWebCall == [kind |-> "ensure", step |-> "idle", task |-> "none", waits |-> Nothing,
              sent |-> Nothing, good |-> FALSE, since |-> 0]

WebInit ==
    /\ jar = Nothing /\ store \in {Nothing, 0}
    /\ restore \in {"absent", "loading"}
    /\ background = Nothing /\ warming = Nothing
    /\ web = [c \in WebCalls |-> NoWebCall]
    /\ onHop \in BOOLEAN
    /\ troubled = {} /\ ends = 0

Underway(c) == web[c].step \notin Outcomes \cup {"idle"}
Over(c, how) == [NoWebCall EXCEPT !.kind = web[c].kind, !.step = how]

\* Has the promise the call awaits settled?  Its continuation runs before
\* anything else happens.
WarmupOver(c) == web[c].step = "awaitWarmup" /\ web[web[c].waits].task \notin {"first", "second"}
LoginOver(c) == web[c].step = "awaitLogin" /\ web[web[c].waits].task # "background"
NoneDue == \A c \in WebCalls : ~WarmupOver(c) /\ ~LoginOver(c)

\* A request or handshake that carries the cookie in the jar.
Ask(r, step, task) == [r EXCEPT !.step = step, !.task = task, !.waits = Nothing,
                                !.sent = jar, !.good = jar = ends]
Alive(c) == web[c].good \/ web[c].sent = ends
Dead(c) == web[c].sent # ends

At(c, step) == [web[c] EXCEPT !.step = step, !.sent = Nothing, !.good = FALSE]
Moves(c, r) == web' = [web EXCEPT ![c] = r]
NoTrouble == UNCHANGED troubled
Trouble == troubled' = troubled \cup {c \in WebCalls : Underway(c)}

-----------------------------------------------------------------------------
(* attachWebSessionStore, restoreWebSession and SecretStorage               *)

Attach ==
    /\ restore = "absent"
    /\ restore' = "loading"
    /\ UNCHANGED <<jar, store, background, warming, web, troubled, Fixed>>

\* Mutant: the stored cookie replaces the one in the jar.
RestoredOver ==
    /\ NoneDue /\ restore = "loading"
    /\ jar' \in {jar, IF store = Nothing THEN jar ELSE store}
    /\ restore' = "done"
    /\ UNCHANGED <<store, background, warming, web, troubled, Fixed>>

\* The stored cookie joins the jar unless there is one; or the load fails.
Restored ==
    /\ NoneDue /\ restore = "loading"
    /\ jar' \in {jar, IF jar = Nothing THEN store ELSE jar}
    /\ restore' = "done"
    /\ UNCHANGED <<store, background, warming, web, troubled, Fixed>>

\* persistWebSession of the session s; a failed save is ignored.
Save(s) == store' \in (IF restore = "absent" THEN {store} ELSE {store, s})

\* clearStoredWebSession
Clear == store' \in (IF restore = "absent" THEN {store} ELSE {store, Nothing})

-----------------------------------------------------------------------------
(* Calls                                                                    *)

WebKinds(c) == {kind \in {"ensure", "open"} : c \in IF kind = "ensure" THEN Ensures ELSE Opens}

Start(c) ==
    /\ web[c].step = "idle"
    /\ \E kind \in WebKinds(c) : Moves(c, [NoWebCall EXCEPT !.kind = kind, !.step = "restoring"])
    /\ troubled' = troubled \cup (IF \E d \in troubled : Underway(d) THEN {c} ELSE {})
    /\ UNCHANGED <<jar, store, restore, background, warming, Fixed>>

\* ensureWebSession, once the stored session has been restored.
EnsureWebSession(c) ==
    /\ \/ jar # Nothing /\ Moves(c, Over(c, "ok")) /\ UNCHANGED background
       \/ /\ jar = Nothing /\ background # Nothing
          /\ Moves(c, [At(c, "awaitLogin") EXCEPT !.waits = background])
          /\ UNCHANGED background
       \/ /\ jar = Nothing /\ background = Nothing
          /\ Moves(c, [web[c] EXCEPT !.step = "form", !.task = "background"])
          /\ background' = c
    /\ UNCHANGED warming

RunWarmup(c) ==
    /\ Moves(c, Ask([web[c] EXCEPT !.since = ends], "page", "first"))
    /\ warming' = c

\* warmupKokoConnectPage
Warmup(c) ==
    \/ /\ warming # Nothing
       /\ Moves(c, [At(c, "awaitWarmup") EXCEPT !.waits = warming, !.since = ends])
       /\ UNCHANGED warming
    \/ warming = Nothing /\ RunWarmup(c)

\* openKokoSocket: the cookie in the jar is tried first.
OpenSocket(c) ==
    /\ \/ jar # Nothing /\ Moves(c, Ask(web[c], "handshake", "none")) /\ UNCHANGED warming
       \/ jar = Nothing /\ Warmup(c)
    /\ UNCHANGED background

AfterRestore(c) ==
    /\ NoneDue /\ web[c].step = "restoring" /\ restore # "loading"
    /\ \/ web[c].kind = "ensure" /\ EnsureWebSession(c)
       \/ /\ web[c].kind = "open" /\ background # Nothing
          /\ Moves(c, [At(c, "awaitLogin") EXCEPT !.waits = background])
          /\ UNCHANGED <<background, warming>>
       \/ web[c].kind = "open" /\ background = Nothing /\ OpenSocket(c)
    /\ UNCHANGED <<jar, store, restore, troubled, Fixed>>

\* An open goes on however the login ended; a joined ensureWebSession ends as it did.
AfterLogin(c) ==
    /\ LoginOver(c)
    /\ \/ web[c].kind = "open" /\ OpenSocket(c)
       \/ /\ web[c].kind = "ensure"
          /\ Moves(c, Over(c, web[web[c].waits].step))
          /\ UNCHANGED <<background, warming>>
    /\ UNCHANGED <<jar, store, restore, troubled, Fixed>>

\* The warmup waited for has succeeded: tryWarmupKokoConnectPage again.  It has
\* failed: so has this call.
AfterWarmup(c) ==
    /\ WarmupOver(c)
    /\ Moves(c, IF web[web[c].waits].step = "lastHandshake"
                  THEN Ask(web[c], "page", "joined") ELSE Over(c, "failed"))
    /\ UNCHANGED <<jar, store, restore, background, warming, troubled, Fixed>>

-----------------------------------------------------------------------------
(* Results of the routines                                                  *)

\* Mutant: a failed login stays in flight.
ClearedOnSuccess(c) ==
    /\ UNCHANGED background
    /\ warming' = IF web[c].task \in {"first", "second"} THEN Nothing ELSE warming

\* The "finally" of runWebSessionLogin and of runWarmup.
Cleared(c) ==
    /\ background' = IF web[c].task = "background" THEN Nothing ELSE background
    /\ warming' = IF web[c].task \in {"first", "second"} THEN Nothing ELSE warming

\* The routine throws, and the call with it.
Throw(c) == Moves(c, Over(c, "failed")) /\ Cleared(c) /\ UNCHANGED store

\* tryWarmupKokoConnectPage or the background login returns true, with the
\* session s in the jar.
Proven(c, s) ==
    \/ /\ web[c].task = "joined"
       /\ Moves(c, [web[c] EXCEPT !.step = "lastHandshake", !.task = "none", !.sent = s,
                                    !.good = s = ends])
       /\ UNCHANGED <<store, background, warming>>
    \/ /\ web[c].task # "joined"
       /\ Moves(c, At(c, "saving"))
       /\ IF s = Nothing THEN UNCHANGED store ELSE Save(s)
       /\ UNCHANGED <<background, warming>>

\* tryWarmupKokoConnectPage returns false.
Unproven(c) ==
    \/ /\ web[c].task = "first"        \* invalidateWebSession, then the second try
       /\ jar' = Nothing /\ Clear
       /\ Moves(c, At(c, "invalidating"))
       /\ UNCHANGED <<background, warming>>
    \/ /\ web[c].task = "second"
       /\ Clear /\ Moves(c, At(c, "clearing"))
       /\ UNCHANGED <<jar, background, warming>>
    \/ /\ web[c].task = "joined"       \* a warmup of its own
       /\ RunWarmup(c)
       /\ UNCHANGED <<jar, store, background>>

\* loginWebForm returns whether there is a session in the jar.
LoggedIn(c, s) ==
    /\ jar' = s
    /\ \/ s # Nothing /\ Proven(c, s)
       \/ /\ s = Nothing /\ web[c].task = "background"
          /\ Clear /\ Moves(c, At(c, "clearing"))
          /\ UNCHANGED <<background, warming>>
       \/ /\ s = Nothing /\ web[c].task # "background"
          /\ Moves(c, At(c, "again"))
          /\ UNCHANGED <<store, background, warming>>

\* SecretStorage has answered.
Stored(c) ==
    /\ NoneDue
    /\ \/ /\ web[c].step = "saving"
          /\ Moves(c, IF web[c].task = "background" THEN Over(c, "ok")
                        ELSE Ask(web[c], "lastHandshake", "none"))
          /\ Cleared(c)
       \/ /\ web[c].step = "invalidating"
          /\ Moves(c, Ask(web[c], "page", "second"))
          /\ UNCHANGED <<background, warming>>
       \/ /\ web[c].step = "clearing"
          /\ Moves(c, Over(c, "failed"))
          /\ Cleared(c)
    /\ UNCHANGED <<jar, store, restore, troubled, Fixed>>

-----------------------------------------------------------------------------
(* Answers of JumpServer and KoKo                                           *)

\* The connect page is shown to a live session. Of JumpServer it is assumed that it
\* redirects others to the login page: a redirect elsewhere would count as logged in.
Page(c) ==
    /\ web[c].step = "page"
    /\ \/ Alive(c) /\ Proven(c, jar)
       \/ /\ Dead(c)
          /\ Moves(c, At(c, "form"))
          /\ UNCHANGED <<store, background, warming>>
    /\ UNCHANGED jar /\ NoTrouble

\* The login form is posted and accepted; it is refused with no redirect.
Form(c) ==
    /\ web[c].step = "form"
    /\ \/ ~onHop /\ LoggedIn(c, ends) /\ NoTrouble
       \/ onHop /\ jar # Nothing /\ LoggedIn(c, jar) /\ NoTrouble
       \/ /\ onHop /\ jar = Nothing /\ NoTrouble
          /\ Moves(c, At(c, "hop"))
          /\ UNCHANGED <<jar, store, background, warming>>
       \/ LoggedIn(c, jar) /\ Trouble

\* A redirect brings the cookie; or the redirects end without one.
Hop(c) ==
    /\ web[c].step = "hop"
    /\ \/ LoggedIn(c, ends) /\ NoTrouble
       \/ LoggedIn(c, jar) /\ Trouble

\* After a login without a session: the profile, and the connect page again.
Again(c) ==
    /\ web[c].step = "again" /\ NoTrouble
    /\ \/ jar = ends /\ Proven(c, jar) /\ UNCHANGED jar
       \/ Unproven(c)

\* Mutant: the handshake after a warmup falls back to a warmup, too.
HandshakeForever(c) ==
    /\ web[c].step \in {"handshake", "lastHandshake"} /\ NoTrouble
    /\ \/ Alive(c) /\ Moves(c, Over(c, "ok")) /\ UNCHANGED warming
       \/ Dead(c) /\ Warmup(c)
    /\ UNCHANGED <<jar, store, background>>

\* KoKo accepts a live session and refuses others.
Handshake(c) ==
    /\ web[c].step \in {"handshake", "lastHandshake"} /\ NoTrouble
    /\ \/ /\ Alive(c) /\ Moves(c, Over(c, "ok"))
          /\ UNCHANGED warming
       \/ /\ Dead(c) /\ web[c].step = "handshake"
          /\ Warmup(c)
       \/ /\ Dead(c) /\ web[c].step = "lastHandshake"
          /\ Moves(c, Over(c, "failed")) /\ UNCHANGED warming
    /\ UNCHANGED <<jar, store, background>>

\* A request gets an error or no answer before its deadline; a handshake too
\* (defaultWebSocketFactory).
Broken(c) ==
    /\ web[c].step \in Asks /\ Trouble
    /\ \/ web[c].step # "handshake" /\ Throw(c)
       \/ web[c].step = "handshake" /\ Warmup(c) /\ UNCHANGED <<store, background>>
    /\ UNCHANGED jar

Replied(c) ==
    /\ NoneDue
    /\ Page(c) \/ Form(c) \/ Hop(c) \/ Again(c) \/ Handshake(c) \/ Broken(c)
    /\ UNCHANGED <<restore, Fixed>>

EndSessions ==
    /\ ends < MaxEnds
    /\ ends' = ends + 1
    /\ UNCHANGED <<jar, store, restore, background, warming, web, onHop, troubled>>

Continue(c) == AfterRestore(c) \/ AfterLogin(c) \/ AfterWarmup(c) \/ Stored(c) \/ Replied(c)

WebNext ==
    \/ Attach \/ Restored \/ EndSessions
    \/ \E c \in WebCalls : Start(c) \/ Continue(c)

WebSpec == WebInit /\ [][WebNext]_webVars

\* SecretStorage answers; requests and handshakes are answered or run into
\* their deadlines (withDeadline, defaultWebSocketFactory).
FairWebSpec == WebSpec /\ WF_webVars(Restored) /\ \A c \in WebCalls : WF_webVars(Continue(c))

-----------------------------------------------------------------------------
(* Properties                                                               *)

\* The types, and what the two in-flight promises stand for: webSessionInflight
\* is set exactly while one call runs the background login, which is therefore
\* shared, and warmupInflight only while the call it names runs its warmup.
WebTypeOK ==
    /\ jar \in Session /\ store \in Session
    /\ restore \in {"absent", "loading", "done"}
    /\ background \in WebCalls \cup {Nothing}
    /\ \A c \in WebCalls : background = c <=> web[c].task = "background"
    /\ warming \in {c \in WebCalls : web[c].task \in {"first", "second"}} \cup {Nothing}
    /\ web \in [WebCalls -> [kind : {"ensure", "open"},
                            step : {"idle"} \cup Waits \cup Asks \cup Stores \cup Outcomes,
                            task : Tasks, waits : WebCalls \cup {Nothing}, sent : Session,
                            good : BOOLEAN, since : 0..MaxEnds]]
    /\ onHop \in BOOLEAN /\ troubled \subseteq WebCalls
    /\ ends \in 0..MaxEnds

\* A dead session, from the jar or from the store, never makes a connect fail:
\* without a failed request an open fails only when JumpServer has ended its
\* sessions again since its warmup began - whatever logins, warmups and
\* restores of other calls overlap with it.  Where the cookie is set by the
\* answer to the POST.
StaleSessionsAreReplaced ==
    [][\A c \in WebCalls :
          (/\ web[c].kind = "open" /\ Underway(c) /\ web'[c].step = "failed"
           /\ c \notin troubled' /\ ~onHop) => ends > web[c].since]_webVars

\* The same for every deployment, as loginWebForm has it: "Some deployments
\* only hand the session cookie out on a redirect hop".  It does not hold: see
\* the README.
StaleSessionsAreReplacedOnHops ==
    [][\A c \in WebCalls :
          (/\ web[c].kind = "open" /\ Underway(c) /\ web'[c].step = "failed"
           /\ c \notin troubled') => ends > web[c].since]_webVars

\* Every call settles, also one that waits for the login or the warmup of
\* another, and whatever happens to that one.
EveryConnectSettles == \A c \in WebCalls : Underway(c) ~> ~Underway(c)

=============================================================================
