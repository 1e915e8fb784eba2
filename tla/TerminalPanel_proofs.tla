------------------------- MODULE TerminalPanel_proofs -------------------------
(***************************************************************************)
(* Theorems about TerminalPanel and the sessions it makes, for every       *)
(* number of reconnects and every idle limit.                              *)
(***************************************************************************)
EXTENDS TerminalPanel, TLAPS

----------------------------------------------------------------------------
\* The inductive invariant.

\* A session g: it has no socket and no timer before its connect() is over, nor
\* after its end; as long as it can be used its heartbeat is armed.
SessionFits(g) ==
    /\ stage[g] \notin Ended =>
          wire[g] = "none" /\ ~bound[g] /\ ~heart[g] /\ ~pong[g] /\ (dead[g] => gone[g])
    /\ stage[g] = "new" => ~gone[g]
    /\ wire[g] = "open" => bound[g]
    /\ gone[g] => dead[g] /\ ~bound[g] /\ ~heart[g] /\ ~pong[g]
    /\ heart[g] \/ pong[g] => Usable(g)
    /\ Usable(g) => heart[g]
    /\ reported[g] => dead[g]

Noticed(g) == notices[g] <= 1 /\ (notices[g] = 1 => reported[g])

\* The panel: later generations have no session yet, and a generation that is not
\* the session's own means that the session has been given up.
PanelFits ==
    /\ cur <= gen
    /\ gen = cur <=> ~gone[cur]
    /\ gen # cur => ~connected
    /\ closed => gen # cur
    /\ ~closed => gen <= MaxGen
    /\ stage[cur] # "new" /\ \A g \in Gen : g > cur => stage[g] = "new"

TInv ==
    /\ TypeOK
    /\ \A g \in Gen : SessionFits(g) /\ Noticed(g)
    /\ PanelFits
    /\ PanelTellsTheTruth

----------------------------------------------------------------------------
\* The steps of a session.

Same(g) ==
    /\ stage'[g] = stage[g] /\ wire'[g] = wire[g] /\ bound'[g] = bound[g] /\ up'[g] = up[g]
    /\ dead'[g] = dead[g] /\ reported'[g] = reported[g] /\ heart'[g] = heart[g]
    /\ pong'[g] = pong[g] /\ gone'[g] = gone[g] /\ silent'[g] = silent[g]

\* A step of session g alone, which is neither made nor given up by it.
Alone(g) ==
    /\ SessionTypeOK'
    /\ gone' = gone
    /\ \A h \in Gen \ {g} : Same(h)
    /\ stage[g] # "new" /\ stage'[g] # "new"
    /\ SessionFits(g)'

LEMMA RestAlone ==
    ASSUME SessionTypeOK, NEW g \in Gen, SessionFits(g), RestAnswers(g)
    PROVE  /\ Alone(g) /\ UNCHANGED link
           /\ stage'[g] = "resolved" => gone[g]
           /\ stage'[g] \in Ended => stage'[g] = "resolved"
  BY DEF SessionTypeOK, SessionFits, RestAnswers, StageAfter, link, Alone, Same, Ended, Usable

LEMMA RefusedAlone ==
    ASSUME SessionTypeOK, NEW g \in Gen, SessionFits(g), ConnectFails(g)
    PROVE  Alone(g) /\ UNCHANGED link /\ ~Usable(g)'
  BY DEF SessionTypeOK, SessionFits, ConnectFails, link, Alone, Same, Ended, Usable

LEMMA ArrivesAlone ==
    ASSUME SessionTypeOK, NEW g \in Gen, SessionFits(g), SocketArrives(g)
    PROVE  /\ Alone(g) /\ (~gone[g] => Usable(g)') /\ UNCHANGED <<dead, reported>>
           /\ gone[g] => ~Usable(g)'
  BY DEF SessionTypeOK, SessionFits, SocketArrives, Keeps, link, Alone, Same, Ended, Usable

LEMMA QuietAlone ==
    ASSUME SessionTypeOK, NEW g \in Gen, SessionFits(g),
           SendHeartbeat(g) \/ ReceiveConnect(g) \/ ReceivePong(g) \/ GoSilent(g)
    PROVE  /\ Alone(g) /\ UNCHANGED <<stage, bound, dead, reported>>
  <1>1. CASE SendHeartbeat(g)
    BY <1>1 DEF SessionTypeOK, SessionFits, SendHeartbeat, Alone, Same, Ended, Usable
  <1>2. CASE ReceiveConnect(g)
    BY <1>2 DEF SessionTypeOK, SessionFits, ReceiveConnect, Listening, Alone, Same, Ended, Usable
  <1>3. CASE ReceivePong(g)
    BY <1>3 DEF SessionTypeOK, SessionFits, ReceivePong, Listening, Alone, Same, Ended, Usable
  <1>4. CASE GoSilent(g)
    BY <1>4 DEF SessionTypeOK, SessionFits, GoSilent, Alone, Same, Ended, Usable
  <1> QED BY <1>1, <1>2, <1>3, <1>4

LEMMA HeartbeatAlone ==
    ASSUME SessionTypeOK, NEW g \in Gen, SessionFits(g), heart[g], FailHeartbeat(g)
    PROVE  /\ Alone(g) /\ UNCHANGED stage /\ ~Usable(g)' /\ reported'[g] /\ ~reported[g]
  BY DEF SessionTypeOK, SessionFits, FailHeartbeat, StopHeartbeat, Alone, Same, Ended, Usable

LEMMA ClosedAlone ==
    ASSUME SessionTypeOK, NEW g \in Gen, SessionFits(g), SocketClosed(g)
    PROVE  /\ Alone(g) /\ UNCHANGED stage /\ ~Usable(g)' /\ reported'[g]
           /\ reported[g] => ~Usable(g)
  BY DEF SessionTypeOK, SessionFits, SocketClosed, StopHeartbeat, Alone, Same, Ended, Usable

LEMMA DisposeLeaves ==
    ASSUME SessionTypeOK, NEW g \in Gen, SessionFits(g), DisposeSession(g),
           stage' \in [Gen -> {"new", "detail", "token", "opening"} \cup Ended],
           stage'[g] = stage[g], stage[g] # "new"
    PROVE  /\ SessionTypeOK' /\ SessionFits(g)' /\ gone'[g] /\ ~Usable(g)'
           /\ reported' = reported
           /\ \A h \in Gen \ {g} :
                 /\ wire'[h] = wire[h] /\ bound'[h] = bound[h] /\ up'[h] = up[h]
                 /\ dead'[h] = dead[h] /\ heart'[h] = heart[h]
                 /\ pong'[h] = pong[h] /\ gone'[h] = gone[h] /\ silent'[h] = silent[h]
  BY DEF SessionTypeOK, SessionFits, DisposeSession, StopHeartbeat, Ended, Usable

LEMMA SameFits ==
    ASSUME NEW h \in Gen, Same(h), SessionFits(h)
    PROVE  SessionFits(h)' /\ (Usable(h)' <=> Usable(h))
  BY DEF Same, SessionFits, Usable

----------------------------------------------------------------------------
\* What a step of a session does to the panel.

PanelTypes ==
    /\ gen \in 0..MaxGen + 1 /\ cur \in Gen
    /\ connected \in BOOLEAN /\ closed \in BOOLEAN
    /\ idle \in BOOLEAN /\ touched \in BOOLEAN
    /\ context \in {"absent", "connected", "disconnected"}
    /\ notices \in [Gen -> Nat]
    /\ connected /\ IdleMinutes > 0 <=> idle

LEMMA TypesSplit ==
    /\ TypeOK <=> SessionTypeOK /\ PanelTypes
    /\ TypeOK' <=> SessionTypeOK' /\ PanelTypes'
  BY DEF TypeOK, PanelTypes

\* What an outcome of session g may leave of the panel: it counts only in its own
\* generation, and the deadline, the registry and the panel agree.
Outcome(g) ==
    /\ UNCHANGED <<gen, cur, closed>>
    /\ PanelTypes'
    /\ context' = IF closed THEN "absent" ELSE IF connected' THEN "connected" ELSE "disconnected"
    /\ g # gen => connected' = connected
    /\ \A h \in Gen \ {g} : notices'[h] = notices[h]

LEMMA OutcomeKeeps ==
    ASSUME TInv, NEW g \in Gen, Alone(g), Outcome(g),
           Noticed(g)',
           g = cur => connected' = Usable(g)' \/ stage'[g] \notin Ended
    PROVE  TInv'
  <1>1. /\ SessionTypeOK' /\ gone' = gone /\ stage[g] # "new" /\ stage'[g] # "new"
        /\ \A h \in Gen \ {g} : Same(h)
        /\ SessionFits(g)'
    BY DEF Alone
  <1>2. /\ UNCHANGED <<gen, cur, closed>> /\ PanelTypes'
        /\ g # gen => connected' = connected
        /\ \A h \in Gen \ {g} : notices'[h] = notices[h]
    BY DEF Outcome
  <1>3. PanelTypes /\ PanelFits /\ cur \in Gen /\ gen \in Nat
        /\ (stage[cur] \in Ended => connected = Usable(cur))
    BY TypesSplit, PanelAssumption DEF TInv, PanelTypes, PanelTellsTheTruth
  <1>4. TypeOK'
    BY <1>1, <1>2, TypesSplit
  <1>5. \A h \in Gen : SessionFits(h)' /\ Noticed(h)'
    <2> TAKE h \in Gen
    <2>1. CASE h = g
      BY <2>1, <1>1
    <2>2. CASE h # g
      <3>1. Same(h) /\ notices'[h] = notices[h] /\ SessionFits(h) /\ Noticed(h)
        BY <2>2, <1>1, <1>2 DEF TInv
      <3> QED BY <3>1, SameFits DEF Noticed, Same
    <2> QED BY <2>1, <2>2
  <1>6. g = gen => gen = cur
    BY <1>1, <1>3, PanelAssumption DEF PanelFits
  <1>7. PanelFits'
    <2>1. stage'[cur] # "new" /\ \A h \in Gen : h > cur => stage'[h] = "new"
      BY <1>1, <1>3 DEF PanelFits, Same
    <2>2. gen # cur => ~connected'
      BY <1>2, <1>3, <1>6 DEF PanelFits
    <2> QED BY <2>1, <2>2, <1>1, <1>2, <1>3 DEF PanelFits
  <1>8. stage'[cur] \in Ended => connected' = Usable(cur)'
    <2>1. CASE g = cur
      BY <2>1, <1>2
    <2>2. CASE g # cur
      <3>1. Same(cur) /\ SessionFits(cur)
        BY <2>2, <1>1, <1>3 DEF TInv
      <3>2. Usable(cur)' <=> Usable(cur)
        BY <3>1, <1>2, <1>3, SameFits DEF Same, Usable
      <3>3. connected' = connected
        BY <2>2, <1>2, <1>6
      <3>4. Usable(cur)' \in BOOLEAN /\ Usable(cur) \in BOOLEAN
        BY DEF Usable
      <3>5. Usable(cur)' = Usable(cur)
        BY <3>2, <3>4
      <3> QED BY <3>1, <3>3, <3>5, <1>3 DEF Same
    <2> QED BY <2>1, <2>2
  <1>9. PanelTellsTheTruth'
    BY <1>2, <1>8 DEF PanelTellsTheTruth, Outcome
  <1> QED BY <1>4, <1>5, <1>7, <1>9 DEF TInv

LEMMA PanelFacts ==
    ASSUME TInv
    PROVE  /\ SessionTypeOK /\ PanelTypes /\ PanelFits
           /\ context = IF closed THEN "absent"
                        ELSE IF connected THEN "connected" ELSE "disconnected"
           /\ \A g \in Gen : SessionFits(g) /\ Noticed(g)
  BY TypesSplit DEF TInv, PanelTellsTheTruth

\* The generation's own session is the current one, and the panel is open.
LEMMA OwnGeneration ==
    ASSUME TInv, NEW g \in Gen, stage[g] # "new", g = gen
    PROVE  g = cur /\ ~closed /\ ~gone[g]
  BY PanelFacts, PanelAssumption DEF PanelFits, PanelTypes

LEMMA UnchangedOutcome ==
    ASSUME TInv, NEW g \in Gen, UNCHANGED panel
    PROVE  Outcome(g) /\ connected' = connected /\ notices' = notices
  BY PanelFacts DEF panel, Outcome, PanelTypes

LEMMA ConnectedOutcome ==
    ASSUME TInv, NEW g \in Gen, stage[g] # "new", Connected(g)
    PROVE  Outcome(g) /\ notices' = notices /\ (g = gen => connected' = TRUE)
                      /\ (g # gen => connected' = connected)
  <1>1. CASE g = gen
    <2>1. /\ connected' = TRUE /\ touched' = FALSE /\ UNCHANGED <<gen, cur, closed, notices>>
          /\ context' = IF context = "absent" THEN context ELSE "connected"
          /\ idle' = (IdleMinutes > 0)
      BY <1>1 DEF Connected, Mark, Arm
    <2>2. PanelTypes /\ ~closed /\ context # "absent"
      BY <1>1, PanelFacts, OwnGeneration
    <2>3. idle' \in BOOLEAN /\ (connected' /\ IdleMinutes > 0 <=> idle')
      <3>1. (IdleMinutes > 0) = TRUE \/ (IdleMinutes > 0) = FALSE
        OBVIOUS
      <3> QED BY <2>1, <3>1, Zenon
    <2>4. PanelTypes'
      BY <2>1, <2>2, <2>3 DEF PanelTypes
    <2> QED BY <1>1, <2>1, <2>2, <2>4 DEF Outcome
  <1>2. CASE g # gen
    BY <1>2, PanelFacts DEF Connected, Outcome, PanelTypes
  <1> QED BY <1>1, <1>2

LEMMA NotConnectedOutcome ==
    ASSUME TInv, NEW g \in Gen, stage[g] # "new", NotConnected(g)
    PROVE  Outcome(g) /\ notices' = notices /\ (g = gen => connected' = FALSE)
                      /\ (g # gen => connected' = connected)
  <1>1. CASE g = gen
    BY <1>1, PanelFacts, OwnGeneration
    DEF NotConnected, Mark, Disarm, Outcome, PanelTypes
  <1>2. CASE g # gen
    BY <1>2, PanelFacts DEF NotConnected, Outcome, PanelTypes
  <1> QED BY <1>1, <1>2

LEMMA LostOutcome ==
    ASSUME TInv, NEW g \in Gen, stage[g] # "new", Lost(g)
    PROVE  /\ Outcome(g) /\ notices'[g] \in {notices[g], notices[g] + 1}
           /\ (g = gen => connected' = FALSE) /\ (g # gen => connected' = connected)
  <1>1. CASE g = gen
    <2>1. notices \in [Gen -> Nat] /\ notices' = [notices EXCEPT ![g] = notices[g] + 1]
      BY <1>1, PanelFacts DEF Lost, PanelTypes
    <2>2. /\ notices' \in [Gen -> Nat] /\ notices'[g] = notices[g] + 1
          /\ \A h \in Gen \ {g} : notices'[h] = notices[h]
      BY <2>1
    <2>3. connected' = FALSE /\ Mark("disconnected") /\ Disarm /\ UNCHANGED <<gen, cur, closed>>
      BY <1>1 DEF Lost
    <2>4. PanelTypes'
      BY <2>2, <2>3, PanelFacts, OwnGeneration DEF Mark, Disarm, PanelTypes
    <2>5. context' = IF closed THEN "absent"
                     ELSE IF connected' THEN "connected" ELSE "disconnected"
      BY <1>1, <2>3, PanelFacts, OwnGeneration DEF Mark
    <2> QED BY <1>1, <2>2, <2>3, <2>4, <2>5 DEF Outcome
  <1>2. CASE g # gen
    BY <1>2, PanelFacts DEF Lost, Outcome, PanelTypes
  <1> QED BY <1>1, <1>2

\* A session of an earlier generation that could still be used is not the current.
LEMMA StrangerIsGone ==
    ASSUME TInv, cur # gen
    PROVE  gone[cur] /\ connected = FALSE
  BY PanelFacts DEF PanelFits, PanelTypes

LEMMA SessionStepKeeps ==
    ASSUME TInv, NEW g \in Gen,
           Rest(g) \/ Refused(g) \/ Opened(g) \/ Ping(g) \/ HeartbeatLost(g) \/ Gone(g) \/ Peer(g)
    PROVE  TInv'
  <1>1. /\ SessionTypeOK /\ SessionFits(g) /\ Noticed(g) /\ notices[g] \in Nat
        /\ connected \in BOOLEAN
        /\ stage[cur] \in Ended => connected = Usable(cur)
    BY PanelFacts DEF PanelTypes, TInv, PanelTellsTheTruth
  <1>2. CASE Rest(g)
    <2>1. /\ Alone(g) /\ UNCHANGED link /\ stage[g] # "new"
          /\ stage'[g] = "resolved" => gone[g]
          /\ stage'[g] \in Ended => stage'[g] = "resolved"
      BY <1>1, <1>2, RestAlone DEF Rest, Alone
    <2>2. CASE stage'[g] = "resolved"
      <3>1. Outcome(g) /\ notices' = notices /\ g # gen /\ connected' = connected
        BY <1>2, <2>1, <2>2, ConnectedOutcome, OwnGeneration DEF Rest
      <3>2. g = cur => connected' = FALSE /\ Usable(g)' = FALSE
        BY <3>1, <2>1, <2>2, <1>1, StrangerIsGone DEF SessionFits, Usable, link
      <3>3. Noticed(g)'
        BY <3>1, <2>1, <1>1 DEF Noticed, link
      <3> QED BY <3>1, <3>2, <3>3, <2>1, OutcomeKeeps
    <2>3. CASE stage'[g] # "resolved"
      <3>1. Outcome(g) /\ notices' = notices
        BY <1>2, <2>3, UnchangedOutcome DEF Rest
      <3>2. Noticed(g)'
        BY <3>1, <2>1, <1>1 DEF Noticed, link
      <3> QED BY <3>1, <3>2, <2>1, <2>3, OutcomeKeeps
    <2> QED BY <2>2, <2>3
  <1>3. CASE Refused(g)
    <2>1. Alone(g) /\ UNCHANGED link /\ ~Usable(g)' /\ stage[g] # "new"
      BY <1>1, <1>3, RefusedAlone DEF Refused, Alone
    <2>2. Outcome(g) /\ notices' = notices /\ (g = gen => connected' = FALSE)
          /\ (g # gen => connected' = connected)
      BY <1>3, <2>1, NotConnectedOutcome DEF Refused
    <2>3. Noticed(g)'
      BY <2>1, <2>2, <1>1 DEF Noticed, link
    <2>4. g = cur => connected' = FALSE
      BY <2>2, StrangerIsGone
    <2>5. Usable(g)' = FALSE
      BY <2>1 DEF Usable
    <2> QED BY <2>1, <2>2, <2>3, <2>4, <2>5, OutcomeKeeps
  <1>4. CASE Opened(g)
    <2>1. /\ Alone(g) /\ stage[g] # "new" /\ UNCHANGED <<dead, reported>>
          /\ ~gone[g] => Usable(g)'
          /\ gone[g] => ~Usable(g)'
      BY <1>1, <1>4, ArrivesAlone DEF Opened, Alone
    <2>2. Outcome(g) /\ notices' = notices /\ (g = gen => connected' = TRUE)
          /\ (g # gen => connected' = connected)
      BY <1>4, <2>1, ConnectedOutcome DEF Opened
    <2>3. Noticed(g)'
      BY <2>1, <2>2, <1>1 DEF Noticed
    <2>4. CASE g = gen
      <3>1. Usable(g)' = TRUE
        BY <2>1, <2>4, OwnGeneration DEF Usable
      <3> QED BY <3>1, <2>1, <2>2, <2>3, <2>4, OutcomeKeeps
    <2>5. CASE g # gen
      <3>1. g = cur => connected' = FALSE /\ Usable(g)' = FALSE
        BY <2>1, <2>2, <2>5, StrangerIsGone DEF Usable
      <3> QED BY <3>1, <2>1, <2>2, <2>3, OutcomeKeeps
    <2> QED BY <2>4, <2>5
  <1>5. CASE Ping(g) \/ Peer(g)
    <2>1. Alone(g) /\ UNCHANGED <<stage, bound, dead, reported>>
      BY <1>1, <1>5, QuietAlone DEF Ping, Peer
    <2>2. Outcome(g) /\ connected' = connected /\ notices' = notices
      BY <1>5, UnchangedOutcome DEF Ping, Peer
    <2>3. Noticed(g)'
      BY <2>1, <2>2, <1>1 DEF Noticed
    <2>4. Usable(g)' = Usable(g)
      BY <2>1 DEF Usable
    <2>5. g = cur => connected' = Usable(g)' \/ stage'[g] \notin Ended
      BY <2>1, <2>2, <2>4, <1>1
    <2> QED BY <2>1, <2>2, <2>3, <2>5, OutcomeKeeps
  <1>6. CASE HeartbeatLost(g)
    <2>1. /\ Alone(g) /\ UNCHANGED stage /\ ~Usable(g)' /\ reported'[g] /\ ~reported[g]
          /\ stage[g] # "new"
      BY <1>1, <1>6, HeartbeatAlone DEF HeartbeatLost, Alone
    <2>2. /\ Outcome(g) /\ notices'[g] \in {notices[g], notices[g] + 1}
          /\ (g = gen => connected' = FALSE) /\ (g # gen => connected' = connected)
      BY <1>6, <2>1, LostOutcome DEF HeartbeatLost
    <2>3. Noticed(g)'
      BY <2>1, <2>2, <1>1 DEF Noticed
    <2>4. g = cur => connected' = FALSE
      BY <2>2, StrangerIsGone
    <2>5. Usable(g)' = FALSE
      BY <2>1 DEF Usable
    <2> QED BY <2>1, <2>2, <2>3, <2>4, <2>5, OutcomeKeeps
  <1>7. CASE Gone(g)
    <2>1. /\ Alone(g) /\ UNCHANGED stage /\ ~Usable(g)' /\ reported'[g] /\ stage[g] # "new"
          /\ reported[g] => ~Usable(g)
      BY <1>1, <1>7, ClosedAlone DEF Gone, Alone
    <2>2. Usable(g)' = FALSE
      BY <2>1 DEF Usable
    <2>3. CASE reported[g]
      <3>1. Outcome(g) /\ connected' = connected /\ notices' = notices
        BY <1>7, <2>3, UnchangedOutcome DEF Gone
      <3>2. Noticed(g)'
        BY <3>1, <2>1, <1>1 DEF Noticed
      <3>3. Usable(g) = FALSE
        BY <2>1, <2>3 DEF Usable
      <3>4. g = cur => connected' = Usable(g)' \/ stage'[g] \notin Ended
        BY <3>1, <3>3, <2>1, <2>2, <1>1
      <3> QED BY <3>1, <3>2, <3>4, <2>1, OutcomeKeeps
    <2>4. CASE ~reported[g]
      <3>1. /\ Outcome(g) /\ notices'[g] \in {notices[g], notices[g] + 1}
            /\ (g = gen => connected' = FALSE) /\ (g # gen => connected' = connected)
        BY <1>7, <2>1, <2>4, LostOutcome DEF Gone
      <3>2. Noticed(g)'
        BY <3>1, <2>1, <2>4, <1>1 DEF Noticed
      <3>3. g = cur => connected' = FALSE
        BY <3>1, StrangerIsGone
      <3> QED BY <3>1, <3>2, <3>3, <2>1, <2>2, OutcomeKeeps
    <2> QED BY <2>3, <2>4
  <1> QED BY <1>2, <1>3, <1>4, <1>5, <1>6, <1>7

----------------------------------------------------------------------------
\* The panel's own steps.

\* What giving up the current session g leaves, when no other session is touched
\* but one that is made.
LEMMA GivenUp ==
    ASSUME TInv, NEW g \in Gen, g = cur, DisposeSession(g),
           stage' \in [Gen -> {"new", "detail", "token", "opening"} \cup Ended],
           stage'[g] = stage[g],
           \A h \in Gen \ {g} : \/ stage'[h] = stage[h]
                                \/ stage[h] = "new" /\ stage'[h] = "detail",
           notices' = notices
    PROVE  /\ SessionTypeOK' /\ gone'[g] /\ ~Usable(g)'
           /\ \A h \in Gen \ {g} : gone'[h] = gone[h]
           /\ \A h \in Gen : SessionFits(h)' /\ Noticed(h)'
  <1>1. /\ SessionTypeOK /\ stage[g] # "new"
        /\ \A h \in Gen : SessionFits(h) /\ Noticed(h)
    BY PanelFacts DEF PanelFits
  <1>2. /\ SessionTypeOK' /\ SessionFits(g)' /\ gone'[g] /\ ~Usable(g)'
        /\ reported' = reported
        /\ \A h \in Gen \ {g} :
              /\ wire'[h] = wire[h] /\ bound'[h] = bound[h] /\ up'[h] = up[h]
              /\ dead'[h] = dead[h] /\ heart'[h] = heart[h]
              /\ pong'[h] = pong[h] /\ gone'[h] = gone[h] /\ silent'[h] = silent[h]
    BY <1>1, DisposeLeaves
  <1>3. ASSUME NEW h \in Gen, h # g PROVE SessionFits(h)'
    <2>1. SessionFits(h) /\ (stage'[h] = stage[h] \/ (stage[h] = "new" /\ stage'[h] = "detail"))
      BY <1>1, <1>3
    <2> QED BY <2>1, <1>2, <1>3 DEF SessionFits, Usable, Ended
  <1> QED BY <1>1, <1>2, <1>3 DEF Noticed

LEMMA ReconnectKeeps ==
    ASSUME TInv, Reconnect
    PROVE  TInv'
  <1>1. /\ SessionTypeOK /\ PanelTypes /\ PanelFits /\ gen \in Nat /\ cur \in Gen /\ MaxGen \in Nat
        /\ context = IF closed THEN "absent"
                     ELSE IF connected THEN "connected" ELSE "disconnected"
    BY PanelFacts, PanelAssumption DEF PanelTypes
  <1>2. PICK g \in Gen : g = cur
    BY <1>1
  <1>3. PICK n \in Gen : n = gen + 1
    BY <1>1, PanelAssumption DEF Reconnect
  <1>4. /\ gen' = n /\ cur' = n /\ n # g /\ g < n /\ gen < n /\ gen < MaxGen
        /\ DisposeSession(g)
        /\ stage' = [stage EXCEPT ![n] = "detail"]
        /\ touched' \in BOOLEAN
        /\ UNCHANGED <<connected, closed, idle, context, notices>> /\ ~closed
    <2>1. /\ gen' = n /\ cur' = n /\ gen < MaxGen /\ DisposeSession(g)
          /\ stage' = [stage EXCEPT ![n] = "detail"]
          /\ UNCHANGED <<connected, closed, idle, context, notices>> /\ ~closed
      BY <1>2, <1>3 DEF Reconnect
    <2>2. touched' \in BOOLEAN
      BY <1>1 DEF Reconnect, PanelTypes
    <2>3. g \in Nat /\ g <= gen
      BY <1>1, <1>2, PanelAssumption DEF PanelFits
    <2>4. n # g /\ g < n /\ gen < n
      BY <2>3, <1>1, <1>3
    <2> QED BY <2>1, <2>2, <2>4
  <1>5. stage[n] = "new" /\ ~gone[n]
    <2>1. stage[n] = "new"
      BY <1>1, <1>2, <1>4 DEF PanelFits
    <2> QED BY <2>1, PanelFacts DEF SessionFits
  <1>6. /\ stage' \in [Gen -> {"new", "detail", "token", "opening"} \cup Ended]
        /\ stage'[n] = "detail" /\ \A h \in Gen \ {n} : stage'[h] = stage[h]
    BY <1>1, <1>4 DEF SessionTypeOK
  <1>7. /\ SessionTypeOK' /\ \A h \in Gen \ {g} : gone'[h] = gone[h]
        /\ \A h \in Gen : SessionFits(h)' /\ Noticed(h)'
    BY <1>2, <1>4, <1>5, <1>6, GivenUp
  <1>8. TypeOK'
    <2>1. gen' \in 0..MaxGen + 1
      BY <1>1, <1>3, <1>4
    <2>2. PanelTypes'
      BY <2>1, <1>1, <1>4 DEF PanelTypes
    <2> QED BY <2>2, <1>7, TypesSplit
  <1>9. PanelFits'
    <2>1. \A h \in Gen : h > n => stage'[h] = "new"
      BY <1>1, <1>2, <1>4, <1>6, PanelAssumption DEF PanelFits
    <2>2. n <= MaxGen /\ n \in Nat
      BY <1>1, <1>3, <1>4
    <2>3. gone'[n] = gone[n]
      BY <1>4, <1>7
    <2>4. stage'[cur'] # "new" /\ ~gone'[cur']
      BY <2>3, <1>4, <1>5, <1>6
    <2> QED BY <2>1, <2>2, <2>4, <1>4 DEF PanelFits
  <1>10. PanelTellsTheTruth'
    BY <1>1, <1>4, <1>6 DEF PanelTellsTheTruth, Ended
  <1> QED BY <1>7, <1>8, <1>9, <1>10 DEF TInv

\* disconnect(), the idle deadline and the end of the panel.
LEMMA StopKeeps ==
    ASSUME TInv, Disconnect \/ Close \/ (IdleFires /\ ~touched)
    PROVE  TInv'
  <1>1. /\ SessionTypeOK /\ PanelTypes /\ PanelFits /\ gen \in Nat /\ cur \in Gen /\ MaxGen \in Nat
        /\ context = IF closed THEN "absent"
                     ELSE IF connected THEN "connected" ELSE "disconnected"
    BY PanelFacts, PanelAssumption DEF PanelTypes
  <1>2. PICK g \in Gen : g = cur
    BY <1>1
  <1>3. /\ gen' = gen + 1 /\ cur' = g /\ DisposeSession(g) /\ idle' = FALSE /\ touched' = FALSE
        /\ connected' = FALSE /\ UNCHANGED <<stage, notices>>
        /\ closed' \in BOOLEAN
        /\ ~closed' => gen < MaxGen
        /\ gen <= MaxGen
        /\ context' = IF closed' THEN "absent" ELSE "disconnected"
    <2>1. CASE Close
      BY <2>1, <1>1, <1>2 DEF Close, Disarm, PanelFits
    <2>2. CASE Disconnect \/ (IdleFires /\ ~touched)
      <3>1. gen < MaxGen /\ DisconnectNow
        BY <2>2 DEF Disconnect, IdleFires
      <3> QED BY <3>1, <1>1, <1>2 DEF DisconnectNow, Disarm, Mark, PanelTypes
    <2> QED BY <2>1, <2>2
  <1>4. /\ SessionTypeOK' /\ gone'[g] /\ ~Usable(g)'
        /\ \A h \in Gen : SessionFits(h)' /\ Noticed(h)'
    <2>1. stage' \in [Gen -> {"new", "detail", "token", "opening"} \cup Ended]
          /\ \A h \in Gen : stage'[h] = stage[h]
      BY <1>1, <1>3 DEF SessionTypeOK
    <2> QED BY <2>1, <1>2, <1>3, GivenUp
  <1>5. TypeOK'
    <2>1. gen' \in 0..MaxGen + 1
      BY <1>1, <1>3
    <2>2. PanelTypes'
      BY <2>1, <1>1, <1>3 DEF PanelTypes
    <2> QED BY <2>2, <1>4, TypesSplit
  <1>6. PanelFits'
    <2>1. g \in Nat /\ g <= gen /\ gen' # g /\ g <= gen'
      BY <1>1, <1>2, <1>3, PanelAssumption DEF PanelFits
    <2>2. ~closed' => gen' <= MaxGen
      BY <1>1, <1>3
    <2>3. stage'[cur'] # "new" /\ \A h \in Gen : h > cur' => stage'[h] = "new"
      BY <1>1, <1>2, <1>3 DEF PanelFits
    <2> QED BY <2>1, <2>2, <2>3, <1>3, <1>4 DEF PanelFits
  <1>7. PanelTellsTheTruth'
    <2>1. Usable(cur)' = FALSE
      BY <1>3, <1>4 DEF Usable
    <2> QED BY <2>1, <1>3 DEF PanelTellsTheTruth
  <1> QED BY <1>4, <1>5, <1>6, <1>7 DEF TInv

LEMMA QuietKeeps ==
    ASSUME TInv, Activity \/ (IdleFires /\ touched) \/ UNCHANGED vars
    PROVE  TInv'
  <1>1. /\ UNCHANGED <<session, gen, cur, connected, closed, context, notices>>
        /\ touched' \in BOOLEAN /\ (idle' <=> idle) /\ idle' \in BOOLEAN
    <2>1. PanelTypes
      BY PanelFacts
    <2>2. CASE Activity \/ UNCHANGED vars
      <3>1. touched \in BOOLEAN /\ idle \in BOOLEAN
        BY <2>1 DEF PanelTypes
      <3>2. CASE Activity
        BY <3>1, <3>2 DEF Activity
      <3>3. CASE UNCHANGED vars
        BY <3>1, <3>3 DEF vars, panel
      <3> QED BY <2>2, <3>2, <3>3
    <2>3. CASE IdleFires /\ touched
      <3>1. /\ UNCHANGED <<session, gen, cur, connected, closed, context, notices>>
            /\ idle /\ idle' = (IdleMinutes > 0) /\ touched' = FALSE
        BY <2>3 DEF IdleFires, Arm
      <3>2. IdleMinutes > 0
        BY <2>1, <3>1 DEF PanelTypes
      <3>3. (IdleMinutes > 0) = TRUE
        BY <3>2
      <3>4. idle' = TRUE
        BY <3>1, <3>3, Zenon
      <3> QED BY <3>1, <3>4
    <2> QED BY <2>2, <2>3
  <1>2. TypeOK'
    <2>1. PanelTypes'
      BY <1>1, PanelFacts DEF PanelTypes
    <2>2. SessionTypeOK'
      BY <1>1, PanelFacts DEF SessionTypeOK, session
    <2> QED BY <2>1, <2>2, TypesSplit
  <1>3. \A g \in Gen : SessionFits(g)' /\ Noticed(g)'
    BY <1>1, PanelFacts DEF SessionFits, Noticed, Usable, session
  <1>4. PanelFits' /\ PanelTellsTheTruth'
    BY <1>1 DEF TInv, PanelFits, PanelTellsTheTruth, Usable, session
  <1> QED BY <1>2, <1>3, <1>4 DEF TInv

----------------------------------------------------------------------------
\* The theorems.

LEMMA TInvInit == Init => TInv
  <1> SUFFICES ASSUME Init PROVE TInv
    OBVIOUS
  <1>1. 0 \in Gen /\ MaxGen \in Nat
    BY PanelAssumption
  <1>2. SessionTypeOK
    BY DEF Init, SessionInit, SessionTypeOK
  <1>3. PanelTypes
    <2>1. notices \in [Gen -> Nat] /\ gen \in 0..MaxGen + 1
      BY <1>1 DEF Init
    <2> QED BY <2>1, <1>1 DEF Init, PanelTypes
  <1>4. \A g \in Gen : SessionFits(g) /\ Noticed(g)
    <2> TAKE g \in Gen
    <2>1. /\ wire[g] = "none" /\ ~bound[g] /\ ~heart[g] /\ ~pong[g] /\ ~dead[g] /\ ~gone[g]
          /\ ~reported[g] /\ notices[g] = 0
      BY DEF Init, SessionInit
    <2> QED BY <2>1 DEF SessionFits, Noticed, Usable
  <1>5. PanelFits
    BY <1>1, PanelAssumption DEF Init, SessionInit, PanelFits
  <1>6. PanelTellsTheTruth
    BY <1>1 DEF Init, SessionInit, PanelTellsTheTruth, Ended
  <1> QED BY <1>2, <1>3, <1>4, <1>5, <1>6, TypesSplit DEF TInv

LEMMA TInvNext == TInv /\ [Next]_vars => TInv'
  <1> SUFFICES ASSUME TInv, [Next]_vars PROVE TInv'
    OBVIOUS
  <1> QED BY SessionStepKeeps, ReconnectKeeps, StopKeeps, QuietKeeps DEF Next, User

LEMMA TInvariance == Spec => []TInv
  BY TInvInit, TInvNext, PTL DEF Spec

\* The panel and its sessions keep their shape, and the idle deadline is armed
\* exactly while the panel is connected.
THEOREM TypeCorrect == Spec => []TypeOK
  <1>1. TInv => TypeOK
    BY DEF TInv
  <1> QED BY <1>1, TInvariance, PTL

\* No session, current or dropped, leaves a timer armed or a socket open behind it.
THEOREM SessionsCleanUp == Spec => []NothingLeftBehind
  <1>1. TInv => NothingLeftBehind
    BY DEF TInv, SessionFits, NothingLeftBehind
  <1> QED BY <1>1, TInvariance, PTL

\* The panel and the registry call the terminal connected exactly while the
\* session that writes go to can be used.
THEOREM PanelIsTruthful == Spec => []PanelTellsTheTruth
  <1>1. TInv => PanelTellsTheTruth
    BY DEF TInv
  <1> QED BY <1>1, TInvariance, PTL

\* The loss of a session is printed at most once.
THEOREM LossesAreNoticedOnce == Spec => []OneNoticePerLoss
  <1>1. TInv => OneNoticePerLoss
    BY DEF TInv, Noticed, OneNoticePerLoss
  <1> QED BY <1>1, TInvariance, PTL

\* A terminal that is called connected is watched by the heartbeat of the session that
\* its writes go to, unless that session is still connecting: it is a usable one, and
\* a usable session has a heartbeat from the binding of its socket to its end.  With
\* the fairness of the heartbeat that is why a silent peer is noticed.
THEOREM ConnectedIsWatched == Spec => []ConnectedMeansWatched
  <1>1. TInv => ConnectedMeansWatched
    BY DEF TInv, TypeOK, SessionFits, PanelTellsTheTruth, ConnectedMeansWatched
  <1> QED BY <1>1, TInvariance, PTL

=============================================================================
