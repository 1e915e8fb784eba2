--------------------------- MODULE TerminalSession ---------------------------
(***************************************************************************)
(* Terminal sessions (src/jumpserver/JumpServerSession.ts): connecting     *)
(* over REST and a WebSocket to KoKo, the heartbeat that notices a peer    *)
(* that has gone silent, and the end of a session from either side.  A     *)
(* terminal panel replaces its session when it reconnects, and the one it  *)
(* has dropped lives on until its last event: a session is an index g.     *)
(*                                                                         *)
(* Operators that change a session leave it to the panel to say what the   *)
(* session's events do there.                                              *)
(***************************************************************************)
EXTENDS Naturals

CONSTANT Gen         \* the sessions, by the connectionGeneration of their birth

VARIABLES
    stage,       \* where connect() awaits, or how it ended
    wire,        \* the WebSocket's own state
    bound,       \* this.socket is set
    up,          \* connected
    dead,        \* unavailableReason is set
    reported,    \* disconnectReported
    heart,       \* heartbeatTimer is armed
    pong,        \* pongTimer is armed
    gone,        \* disposed
    silent       \* the other end answers nothing any more

session == <<stage, wire, bound, up, dead, reported, heart, pong, gone, silent>>
link == <<wire, bound, up, dead, reported, heart, pong, gone, silent>>

Ended == {"resolved", "rejected"}
Usable(g) == bound[g] /\ ~dead[g]

\* One session is made, and connects.
SessionInit(first) ==
    /\ stage = [g \in Gen |-> IF g = first THEN "detail" ELSE "new"]
    /\ wire = [g \in Gen |-> "none"]
    /\ bound = [g \in Gen |-> FALSE] /\ up = [g \in Gen |-> FALSE]
    /\ dead = [g \in Gen |-> FALSE] /\ reported = [g \in Gen |-> FALSE]
    /\ heart = [g \in Gen |-> FALSE] /\ pong = [g \in Gen |-> FALSE]
    /\ gone = [g \in Gen |-> FALSE] /\ silent = [g \in Gen |-> FALSE]

----------------------------------------------------------------------------
\* connect()

StageAfter == [detail |-> "token", token |-> "opening"]

\* The asset detail, and later the token with the endpoint: the call fails, the
\* session was disposed meanwhile and connect() returns, or it goes on.
RestAnswers(g) ==
    /\ stage[g] \in {"detail", "token"}
    /\ stage' = [stage EXCEPT ![g] = IF gone[g] THEN "resolved" ELSE StageAfter[@]]
    /\ UNCHANGED link

ConnectFails(g) ==
    /\ stage[g] \in {"detail", "token", "opening"}
    /\ stage' = [stage EXCEPT ![g] = "rejected"]
    /\ UNCHANGED link

\* Mutant: connect() binds whatever socket the handshake brings.
KeepAlways(g) == TRUE

\* Whether connect() binds the socket that has just opened.
Keeps(g) == ~gone[g]

\* The handshake is over: discardSocket, or bindSocket and startHeartbeat.
SocketArrives(g) ==
    /\ stage[g] = "opening"
    /\ stage' = [stage EXCEPT ![g] = "resolved"]
    /\ IF Keeps(g)
       THEN /\ bound' = [bound EXCEPT ![g] = TRUE]
            /\ wire' = [wire EXCEPT ![g] = "open"]
            /\ heart' = [heart EXCEPT ![g] = TRUE]
       ELSE /\ wire' = [wire EXCEPT ![g] = "closed"]
            /\ UNCHANGED <<bound, heart>>
    /\ UNCHANGED <<up, dead, reported, pong, gone, silent>>

----------------------------------------------------------------------------
\* Messages and the heartbeat

Listening(g) == wire[g] \in {"open", "closing"} /\ ~silent[g]

\* CONNECT is taken at any time, also by a session that has been given up.
ReceiveConnect(g) ==
    /\ Listening(g) /\ ~up[g]
    /\ up' = [up EXCEPT ![g] = TRUE]
    /\ UNCHANGED <<stage, wire, bound, dead, reported, heart, pong, gone, silent>>

ReceivePong(g) ==
    /\ Listening(g) /\ pong[g]
    /\ pong' = [pong EXCEPT ![g] = FALSE]
    /\ UNCHANGED <<stage, wire, bound, up, dead, reported, heart, gone, silent>>

\* The peer is lost without a close: a half-open socket (external).
GoSilent(g) ==
    /\ wire[g] = "open" /\ ~silent[g]
    /\ silent' = [silent EXCEPT ![g] = TRUE]
    /\ UNCHANGED <<stage, wire, bound, up, dead, reported, heart, pong, gone>>

StopHeartbeat(g) ==
    /\ heart' = [heart EXCEPT ![g] = FALSE]
    /\ pong' = [pong EXCEPT ![g] = FALSE]

\* A tick of the interval pings, unless a ping is still unanswered.
SendHeartbeat(g) ==
    /\ heart[g] /\ bound[g] /\ ~dead[g] /\ ~pong[g]
    /\ pong' = [pong EXCEPT ![g] = TRUE]
    /\ UNCHANGED <<stage, wire, bound, up, dead, reported, heart, gone, silent>>

\* Mutant: the loss is reported now and again when the socket closes.
FailHeartbeatUnreported(g) ==
    /\ ~dead[g]
    /\ StopHeartbeat(g)
    /\ dead' = [dead EXCEPT ![g] = TRUE]
    /\ up' = [up EXCEPT ![g] = FALSE]
    /\ bound' = [bound EXCEPT ![g] = FALSE]
    /\ wire' = [wire EXCEPT ![g] = IF @ = "open" THEN "terminated" ELSE @]
    /\ UNCHANGED <<stage, reported, gone, silent>>

\* failHeartbeat: no pong in time, or the ping could not be sent at all. The
\* socket is terminated; a status is emitted.
FailHeartbeat(g) ==
    /\ ~dead[g]
    /\ StopHeartbeat(g)
    /\ dead' = [dead EXCEPT ![g] = TRUE]
    /\ up' = [up EXCEPT ![g] = FALSE]
    /\ reported' = [reported EXCEPT ![g] = TRUE]
    /\ bound' = [bound EXCEPT ![g] = FALSE]
    /\ wire' = [wire EXCEPT ![g] = IF @ = "open" THEN "terminated" ELSE @]
    /\ UNCHANGED <<stage, gone, silent>>

----------------------------------------------------------------------------
\* The end

\* The socket's close event. It emits a status unless one was emitted.
SocketClosed(g) ==
    /\ wire[g] \in {"open", "closing", "terminated"}
    /\ wire' = [wire EXCEPT ![g] = "closed"]
    /\ StopHeartbeat(g)
    /\ up' = [up EXCEPT ![g] = FALSE]
    /\ dead' = [dead EXCEPT ![g] = TRUE]
    /\ reported' = [reported EXCEPT ![g] = TRUE]
    /\ UNCHANGED <<stage, bound, gone, silent>>

\* Mutant: dispose() leaves the heartbeat running.
DisposeBeating(g) ==
    /\ gone' = [gone EXCEPT ![g] = TRUE]
    /\ dead' = [dead EXCEPT ![g] = TRUE]
    /\ wire' = [wire EXCEPT ![g] = IF bound[g] /\ @ = "open" THEN "closing" ELSE @]
    /\ bound' = [bound EXCEPT ![g] = FALSE]
    /\ up' = [up EXCEPT ![g] = FALSE]
    /\ UNCHANGED <<reported, heart, pong, silent>>

\* dispose(): close() waits for the peer, or for the library's own timeout.
DisposeSession(g) ==
    /\ gone' = [gone EXCEPT ![g] = TRUE]
    /\ StopHeartbeat(g)
    /\ dead' = [dead EXCEPT ![g] = TRUE]
    /\ wire' = [wire EXCEPT ![g] = IF bound[g] /\ @ = "open" THEN "closing" ELSE @]
    /\ bound' = [bound EXCEPT ![g] = FALSE]
    /\ up' = [up EXCEPT ![g] = FALSE]
    /\ UNCHANGED <<reported, silent>>

----------------------------------------------------------------------------
\* Properties

SessionTypeOK ==
    /\ stage \in [Gen -> {"new", "detail", "token", "opening"} \cup Ended]
    /\ wire \in [Gen -> {"none", "open", "closing", "terminated", "closed"}]
    /\ bound \in [Gen -> BOOLEAN] /\ up \in [Gen -> BOOLEAN] /\ dead \in [Gen -> BOOLEAN]
    /\ reported \in [Gen -> BOOLEAN] /\ heart \in [Gen -> BOOLEAN]
    /\ pong \in [Gen -> BOOLEAN] /\ gone \in [Gen -> BOOLEAN] /\ silent \in [Gen -> BOOLEAN]

\* A session that carries no traffic any more leaves nothing behind: no timer
\* is armed for it, and once its connect() is over no socket of it stays open.
NothingLeftBehind ==
    \A g \in Gen :
        /\ heart[g] \/ pong[g] => Usable(g)
        /\ gone[g] /\ stage[g] \in Ended => wire[g] # "open"

=============================================================================
