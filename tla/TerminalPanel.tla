---------------------------- MODULE TerminalPanel ----------------------------
(***************************************************************************)
(* A terminal panel (src/webview/TerminalPanel.ts) over the sessions it    *)
(* makes: connect, reconnect, disconnect, the idle disconnect and the end  *)
(* of the panel, at any moment of a connect that is under way and of the   *)
(* sessions that were dropped before.  connectionGeneration tells a late   *)
(* outcome from a current one.  `context` is the panel's entry in the      *)
(* terminal context registry (src/terminal/TerminalContext.ts), which is   *)
(* what the agent tools see.                                               *)
(***************************************************************************)
EXTENDS TerminalSession

CONSTANTS MaxGen,     \* the last generation a reconnect or disconnect reaches
          IdleMinutes \* idleDisconnectMinutes; 0 switches the idle disconnect off

ASSUME PanelAssumption ==
    /\ MaxGen \in Nat /\ IdleMinutes \in Nat
    /\ Gen = 0..MaxGen

VARIABLES
    gen,         \* connectionGeneration
    cur,         \* this.session, by the generation it was made in
    connected,
    closed,      \* disposed: the panel is gone
    idle,        \* idleDisconnectTimer is armed
    touched,     \* there was activity since it was armed
    context,     \* the registry's entry: "absent", or whether it is connected
    notices      \* history: disconnect notices printed for each session

panel == <<gen, cur, connected, closed, idle, touched, context, notices>>
vars == <<session, panel>>

\* The constructor, bind(), publishContext() and the start of connect().
Init ==
    /\ SessionInit(0)
    /\ gen = 0 /\ cur = 0
    /\ connected = FALSE /\ closed = FALSE
    /\ idle = FALSE /\ touched = FALSE
    /\ context = "disconnected"
    /\ notices = [g \in Gen |-> 0]

----------------------------------------------------------------------------
\* What an outcome does to the panel

Mark(state) == context' = IF context = "absent" THEN context ELSE state

\* Mutant: the idle deadline outlives the connection.
KeepDeadline == UNCHANGED <<idle, touched>>

Arm == idle' = (IdleMinutes > 0) /\ touched' = FALSE
Disarm == idle' = FALSE /\ touched' = FALSE

\* connect() of session g resolved: in the current generation it counts.
Connected(g) ==
    /\ IF g = gen
       THEN connected' = TRUE /\ Mark("connected") /\ Arm
       ELSE UNCHANGED <<connected, context, idle, touched>>
    /\ UNCHANGED <<gen, cur, closed, notices>>

\* Mutant: the generation is not looked at.
NotConnectedAnyway(g) ==
    /\ connected' = FALSE /\ Mark("disconnected") /\ Disarm
    /\ UNCHANGED <<gen, cur, closed, notices>>

\* connect() of session g failed.
NotConnected(g) ==
    /\ IF g = gen
       THEN connected' = FALSE /\ Mark("disconnected") /\ Disarm
       ELSE UNCHANGED <<connected, context, idle, touched>>
    /\ UNCHANGED <<gen, cur, closed, notices>>

\* Mutant: the loss is printed, but the panel goes on as connected.
LostPrintedOnly(g) ==
    /\ notices' = [notices EXCEPT ![g] = IF g = gen THEN @ + 1 ELSE @]
    /\ UNCHANGED <<gen, cur, closed, connected, context, idle, touched>>

\* handleSessionStatus for a "Disconnected" status of session g.
Lost(g) ==
    /\ IF g = gen
       THEN /\ connected' = FALSE /\ Mark("disconnected") /\ Disarm
            /\ notices' = [notices EXCEPT ![g] = @ + 1]
       ELSE UNCHANGED <<connected, context, idle, touched, notices>>
    /\ UNCHANGED <<gen, cur, closed>>

----------------------------------------------------------------------------
\* The sessions' steps, with what they do to the panel

Rest(g) ==
    /\ RestAnswers(g)
    /\ IF stage'[g] = "resolved" THEN Connected(g) ELSE UNCHANGED panel

Refused(g) == ConnectFails(g) /\ NotConnected(g)

Opened(g) == SocketArrives(g) /\ Connected(g)

\* The pong deadline has passed, or ping() threw.
HeartbeatLost(g) ==
    /\ heart[g]
    /\ FailHeartbeat(g)
    /\ Lost(g)

Gone(g) ==
    /\ SocketClosed(g)
    /\ IF reported[g] THEN UNCHANGED panel ELSE Lost(g)

Ping(g) == SendHeartbeat(g) /\ UNCHANGED panel

Peer(g) == (ReceiveConnect(g) \/ ReceivePong(g) \/ GoSilent(g)) /\ UNCHANGED panel

----------------------------------------------------------------------------
\* The panel's own steps

\* Input, a resize, an agent's write or output is activity.
Activity ==
    /\ idle /\ ~touched
    /\ touched' = TRUE
    /\ UNCHANGED <<session, gen, cur, connected, closed, idle, context, notices>>

\* reconnect(): the old session is disposed, the flags stay as they are until
\* the new one has connected or failed.
Reconnect ==
    /\ ~closed /\ gen < MaxGen
    /\ gen' = gen + 1 /\ cur' = gen + 1
    /\ DisposeSession(cur)
    /\ stage' = [stage EXCEPT ![gen + 1] = "detail"]
    /\ touched' \in IF idle THEN {TRUE, touched} ELSE {touched}
    /\ UNCHANGED <<connected, closed, idle, context, notices>>

DisconnectNow ==
    /\ gen' = gen + 1
    /\ DisposeSession(cur)
    /\ Disarm
    /\ connected' = FALSE
    /\ Mark("disconnected")
    /\ UNCHANGED <<stage, cur, closed, notices>>

\* disconnect(), by command, for all panels, or when the extension stops.
Disconnect == ~closed /\ gen < MaxGen /\ DisconnectNow

\* The idle deadline: re-armed if there was activity, or else a disconnect.
IdleFires ==
    /\ idle
    /\ IF touched
       THEN Arm /\ UNCHANGED <<session, gen, cur, connected, closed, context, notices>>
       ELSE gen < MaxGen /\ DisconnectNow

\* onDidDispose
Close ==
    /\ ~closed
    /\ closed' = TRUE
    /\ gen' = gen + 1
    /\ DisposeSession(cur)
    /\ Disarm
    /\ connected' = FALSE
    /\ context' = "absent"
    /\ UNCHANGED <<stage, cur, notices>>

----------------------------------------------------------------------------

User == Activity \/ Reconnect \/ Disconnect \/ Close

Next ==
    \/ User
    \/ IdleFires
    \/ \E g \in Gen : \/ Rest(g) \/ Refused(g) \/ Opened(g)
                      \/ Ping(g) \/ HeartbeatLost(g) \/ Gone(g) \/ Peer(g)

Spec == Init /\ [][Next]_vars

\* The interval of the heartbeat fires, and so does the deadline of a ping that
\* no pong has met. REST calls and the peer's answers are not promised.
FairSpec ==
    Spec /\ \A g \in Gen : WF_vars(Ping(g)) /\ WF_vars(pong[g] /\ HeartbeatLost(g))

----------------------------------------------------------------------------
\* Properties

\* The types of the panel and of its sessions; and a connected terminal is always
\* being watched for idleness, no deadline is left over from a connection that
\* is gone, whichever activity, losses and disconnects have come in between.
TypeOK ==
    /\ SessionTypeOK
    /\ gen \in 0..MaxGen + 1 /\ cur \in Gen
    /\ connected \in BOOLEAN /\ closed \in BOOLEAN
    /\ idle \in BOOLEAN /\ touched \in BOOLEAN
    /\ context \in {"absent", "connected", "disconnected"}
    /\ notices \in [Gen -> Nat]
    /\ connected /\ IdleMinutes > 0 <=> idle

\* What the panel and the registry say of the terminal is true of the session
\* that its writes go to, whichever connects, losses and disconnects of this
\* and of earlier sessions have come in between: once its connect() is over,
\* the terminal is called connected exactly while that session can be used.
PanelTellsTheTruth ==
    /\ stage[cur] \in Ended => connected = Usable(cur)
    /\ context = IF closed THEN "absent" ELSE IF connected THEN "connected" ELSE "disconnected"

\* The loss of a session is printed once, though the heartbeat that gives it up
\* and the close event that follows both report it.
OneNoticePerLoss == \A g \in Gen : notices[g] <= 1

\* A terminal that is called connected is watched by the heartbeat of the session
\* that its writes go to, or that session is still connecting: whichever reconnects
\* and late outcomes have come in between, no silence goes unheard.
ConnectedMeansWatched == connected => heart[cur] \/ stage[cur] \notin Ended

\* A terminal whose peer has fallen silent does not stay connected for ever.
HalfOpenIsNoticed ==
    \A g \in Gen : silent[g] /\ gen = g /\ connected ~> ~connected \/ gen # g

=============================================================================
