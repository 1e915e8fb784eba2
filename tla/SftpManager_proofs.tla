-------------------------- MODULE SftpManager_proofs --------------------------
(***************************************************************************)
(* Theorems about SftpManager, for every set of terminals and of calls.    *)
(***************************************************************************)
EXTENDS SftpManager, TLAPS

\* A connection keeps a session of its own terminal that has been connected.
Cells == \A t \in Term : cell[t] # None => cell[t][1] = t /\ sock[cell[t]] \in {"live", "closed"}

\* What a connection waits for is being connected, and it is registered.
Pendings == \A t \in Term : pending[t] # None =>
                pending[t][1] = t /\ InFlight(pending[t]) /\ t \in conn /\ cell[t] = None

\* What is disposed when it connects belongs to a terminal that is gone.
Doomed == /\ conn \subseteq opened
          /\ \A s \in doomed : s[1] \in opened /\ s[1] \notin conn

\* A call with a session has looked up the session's own terminal.
HasSession(c) == c.at \in {"wait", "ready", "sent"} =>
                     c.term \in Term /\ c.sess \in Session /\ c.sess[1] = c.term
Calls == \A o \in Op : HasSession(call[o])

IInv == /\ TypeOK
        /\ Cells /\ Pendings /\ Doomed /\ Calls
        /\ SessionsBelong /\ FilesFollowTheTerminal

\* A call that is about to go on with a session finds it, or another one, on its
\* connection, even if that has been removed.
Handy ==
    \A o \in Op : MustResume(o) =>
        \/ call[o].at = "wait" /\ sock[call[o].sess] = "failed"
        \/ cell[call[o].term] # None

----------------------------------------------------------------------------

LEMMA NoCallIsCall == NoCall \in Call
  <1>1. 0 \in 0..Files
    BY ManagerAssumption
  <1> QED BY <1>1 DEF NoCall, Call, Kind

LEMMA InitEstablishes == Init => IInv
  <1> SUFFICES ASSUME Init PROVE IInv
    OBVIOUS
  <1>1. TypeOK
    BY NoCallIsCall DEF Init, TypeOK
  <1>2. Cells /\ Pendings /\ Doomed /\ SessionsBelong /\ FilesFollowTheTerminal
    BY DEF Init, Cells, Pendings, Doomed, SessionsBelong, InFlight, FilesFollowTheTerminal
  <1>3. Calls
    BY DEF Init, Calls, HasSession, NoCall
  <1> QED BY <1>1, <1>2, <1>3 DEF IInv

----------------------------------------------------------------------------
\* Terminals

LEMMA OpenKeeps ==
    ASSUME IInv, NEW t \in Term, OpenTerminal(t) PROVE IInv'
  <1> USE DEF OpenTerminal, sessions
  <1>1. TypeOK'
    BY DEF IInv, TypeOK, selectTerminal
  <1>2. Cells' /\ Pendings' /\ Doomed'
    BY DEF IInv, TypeOK, Cells, Pendings, Doomed, InFlight
  <1>3. Calls'
    BY DEF IInv, Calls, HasSession
  <1>4. SessionsBelong'
    BY DEF IInv, TypeOK, SessionsBelong, InFlight
  <1>5. FilesFollowTheTerminal'
    BY DEF FilesFollowTheTerminal, selectTerminal
  <1> QED BY <1>1, <1>2, <1>3, <1>4, <1>5 DEF IInv

LEMMA FocusKeeps ==
    ASSUME IInv, NEW t \in Term, Focus(t) PROVE IInv'
  <1> USE DEF Focus, sessions
  <1>1. TypeOK'
    BY DEF IInv, TypeOK, selectTerminal
  <1>2. Cells' /\ Pendings' /\ Doomed' /\ SessionsBelong'
    BY DEF IInv, Cells, Pendings, Doomed, SessionsBelong, InFlight
  <1>3. Calls'
    BY DEF IInv, Calls, HasSession
  <1>4. FilesFollowTheTerminal'
    BY DEF FilesFollowTheTerminal, selectTerminal
  <1> QED BY <1>1, <1>2, <1>3, <1>4 DEF IInv

\* Removing connections leaves every session of theirs closed or doomed.
LEMMA DisposeConnectionsKeeps ==
    ASSUME IInv, NEW ts \in SUBSET conn, DisposeConnections(ts),
           conn' = conn \ ts, UNCHANGED <<opened, call>>
    PROVE  /\ Cells' /\ Pendings' /\ Doomed' /\ SessionsBelong'
           /\ sock' \in [Session -> {"none", "making", "connecting", "failed", "live", "closed"}]
           /\ cell' \in [Term -> Session \cup {None}]
           /\ pending' \in [Term -> Session \cup {None}]
           /\ doomed' \subseteq Session
  <1> USE DEF DisposeConnections
  <1>0. /\ cell \in [Term -> Session \cup {None}] /\ pending \in [Term -> Session \cup {None}]
        /\ conn \subseteq Term /\ doomed \subseteq Session
        /\ sock \in [Session -> {"none", "making", "connecting", "failed", "live", "closed"}]
        /\ Cells /\ Pendings /\ Doomed /\ SessionsBelong
    BY DEF IInv, TypeOK
  <1>1. Cells'
    BY <1>0 DEF Cells
  <1>2. Pendings'
    BY <1>0 DEF Pendings, InFlight, Cells
  <1>3. Doomed'
    BY <1>0 DEF Doomed, Pendings
  <1>4. SessionsBelong'
    <2> SUFFICES ASSUME NEW s \in Session
                 PROVE  /\ InFlight(s)' => (s \in doomed \/ (s[1] \in conn /\ pending[s[1]] = s))'
                        /\ (sock[s] = "live")' => (s \in doomed \/ (s[1] \in conn /\ cell[s[1]] = s))'
      BY DEF SessionsBelong
    <2>0. s[1] \in Term
      BY DEF Session
    <2>1. CASE s[1] \in ts
      <3>1. s # None
        BY ManagerAssumption
      <3>2. pending[s[1]] = s => s \in doomed'
        BY <2>1, <3>1
      <3>3. sock'[s] # "live"
        BY <1>0, <2>0, <2>1 DEF SessionsBelong, Doomed
      <3>4. InFlight(s)' => InFlight(s)
        BY DEF InFlight
      <3> QED BY <1>0, <3>2, <3>3, <3>4 DEF SessionsBelong
    <2>2. CASE s[1] \notin ts
      BY <1>0, <2>0, <2>2 DEF SessionsBelong, InFlight
    <2> QED BY <2>1, <2>2
  <1>5. /\ sock' \in [Session -> {"none", "making", "connecting", "failed", "live", "closed"}]
        /\ cell' \in [Term -> Session \cup {None}]
        /\ pending' \in [Term -> Session \cup {None}]
        /\ doomed' \subseteq Session
    BY <1>0
  <1> QED BY <1>1, <1>2, <1>3, <1>4, <1>5

LEMMA CloseKeeps ==
    ASSUME IInv, NEW t \in Term, Close(t) PROVE IInv'
  <1>0. /\ t \in known /\ known' = known \ {t} /\ conn' = conn \ {t}
        /\ IF t \in conn THEN DisposeConnections({t}) ELSE UNCHANGED sessions
        /\ front' = IF front = t THEN None ELSE front
        /\ active' = IF active = t \/ front = t THEN None ELSE active
        /\ UNCHANGED <<opened, disposed, rooted, call>>
    BY DEF Close
  <1>1. /\ Cells' /\ Pendings' /\ Doomed' /\ SessionsBelong'
        /\ sock' \in [Session -> {"none", "making", "connecting", "failed", "live", "closed"}]
        /\ cell' \in [Term -> Session \cup {None}]
        /\ pending' \in [Term -> Session \cup {None}]
        /\ doomed' \subseteq Session
    <2>1. CASE t \in conn
      BY <1>0, <2>1, DisposeConnectionsKeeps
    <2>2. CASE t \notin conn
      <3>1. conn' = conn
        BY <1>0, <2>2
      <3> QED
        BY <1>0, <2>2, <3>1
        DEF IInv, TypeOK, sessions, Cells, Pendings, Doomed, SessionsBelong, InFlight
    <2> QED BY <2>1, <2>2
  <1>2. TypeOK'
    BY <1>0, <1>1 DEF IInv, TypeOK
  <1>3. Calls'
    BY <1>0 DEF IInv, Calls, HasSession
  <1>4. FilesFollowTheTerminal'
    BY <1>0, ManagerAssumption DEF IInv, TypeOK, FilesFollowTheTerminal
  <1> QED BY <1>1, <1>2, <1>3, <1>4 DEF IInv

LEMMA DisposeKeeps == IInv /\ Dispose => IInv'
  <1> SUFFICES ASSUME IInv, Dispose PROVE IInv'
    OBVIOUS
  <1>0. /\ disposed' = TRUE /\ conn' = {} /\ active' = None
        /\ DisposeConnections(conn) /\ UNCHANGED <<opened, known, front, rooted, call>>
    BY DEF Dispose
  <1>1. /\ Cells' /\ Pendings' /\ Doomed' /\ SessionsBelong'
        /\ sock' \in [Session -> {"none", "making", "connecting", "failed", "live", "closed"}]
        /\ cell' \in [Term -> Session \cup {None}]
        /\ pending' \in [Term -> Session \cup {None}]
        /\ doomed' \subseteq Session
    <2>1. conn' = conn \ conn
      BY <1>0
    <2> QED BY <1>0, <2>1, DisposeConnectionsKeeps
  <1>2. TypeOK'
    BY <1>0, <1>1 DEF IInv, TypeOK
  <1>3. Calls'
    BY <1>0 DEF IInv, Calls, HasSession
  <1>4. FilesFollowTheTerminal'
    BY <1>0 DEF FilesFollowTheTerminal
  <1> QED BY <1>1, <1>2, <1>3, <1>4 DEF IInv

----------------------------------------------------------------------------
\* Calls

\* A call that ends, sends or awaits a dialog touches nothing else.
LEMMA GoesKeeps ==
    ASSUME IInv, NEW o \in Op, NEW c \in Call, Goes(o, c), HasSession(c),
           rooted' \subseteq Term, UNCHANGED <<terminals, lookup, sessions>>
    PROVE  IInv'
  <1> USE DEF Goes, terminals, lookup, sessions
  <1>1. TypeOK'
    BY DEF IInv, TypeOK
  <1>2. Cells' /\ Pendings' /\ Doomed' /\ SessionsBelong' /\ FilesFollowTheTerminal'
    BY DEF IInv, Cells, Pendings, Doomed, SessionsBelong, InFlight, FilesFollowTheTerminal
  <1>3. Calls'
    BY DEF IInv, TypeOK, Calls, HasSession
  <1> QED BY <1>1, <1>2, <1>3 DEF IInv

LEMMA EndsKeeps ==
    ASSUME IInv, NEW o \in Op, Ends(o), rooted' \subseteq Term,
           UNCHANGED <<terminals, lookup, sessions>>
    PROVE  IInv'
  <1>1. [NoCall EXCEPT !.at = "over"] \in Call /\ HasSession([NoCall EXCEPT !.at = "over"])
    BY NoCallIsCall DEF Call, HasSession
  <1> QED BY <1>1, GoesKeeps DEF Ends

\* ensureSession, on a registered connection or on one that keeps a session.
LEMMA EnsureSessionKeeps ==
    ASSUME IInv, NEW o \in Op, NEW c \in Call, NEW t \in Term, EnsureSession(o, c, t),
           t \in conn \/ cell[t] # None,
           rooted' \subseteq Term, UNCHANGED <<terminals, lookup, cell, doomed>>
    PROVE  IInv'
  <1>0. cell[t] \in Session \cup {None} /\ pending[t] \in Session \cup {None}
    BY DEF IInv, TypeOK
  <1>1. CASE cell[t] # None
    <2> DEFINE d == [c EXCEPT !.at = "ready", !.term = t, !.sess = cell[t]]
    <2>1. Goes(o, d) /\ UNCHANGED <<pending, sock>>
      BY <1>1 DEF EnsureSession
    <2>2. d \in Call /\ HasSession(d)
      BY <1>0, <1>1 DEF Call, HasSession, IInv, Cells
    <2> QED BY <2>1, <2>2, GoesKeeps DEF sessions
  <1>2. CASE cell[t] = None /\ pending[t] # None
    <2> DEFINE d == [c EXCEPT !.at = "wait", !.term = t, !.sess = pending[t]]
    <2>1. Goes(o, d) /\ UNCHANGED <<pending, sock>>
      BY <1>2 DEF EnsureSession
    <2>2. d \in Call /\ HasSession(d)
      BY <1>0, <1>2 DEF Call, HasSession, IInv, Pendings
    <2> QED BY <2>1, <2>2, GoesKeeps DEF sessions
  <1>3. CASE cell[t] = None /\ pending[t] = None
    <2> DEFINE s == <<t, o>>
               d == [c EXCEPT !.at = "wait", !.term = t, !.sess = s]
    <2>1. /\ Goes(o, d) /\ pending' = [pending EXCEPT ![t] = s]
          /\ sock' = [sock EXCEPT ![s] = "making"]
      BY <1>3 DEF EnsureSession
    <2>2. s \in Session /\ s[1] = t
      BY DEF Session
    <2>3. d \in Call /\ HasSession(d)
      BY <2>2 DEF Call, HasSession
    <2> HIDE DEF s, d
    <2>4. TypeOK'
      BY <2>1, <2>2, <2>3 DEF IInv, TypeOK, Goes, terminals, lookup
    <2>5. Calls'
      BY <2>1, <2>3 DEF IInv, TypeOK, Calls, HasSession, Goes
    <2>6. Cells'
      BY <1>3, <2>1, <2>2 DEF IInv, TypeOK, Cells
    <2>7. Pendings'
      <3>1. t \in conn
        BY <1>3
      <3>2. s # None
        BY <2>2, ManagerAssumption
      <3> QED BY <1>3, <2>1, <2>2, <3>1, <3>2 DEF IInv, TypeOK, Pendings, InFlight, lookup
    <2>8. SessionsBelong'
      <3> SUFFICES ASSUME NEW x \in Session
                   PROVE  /\ InFlight(x)' => (x \in doomed \/ (x[1] \in conn /\ pending[x[1]] = x))'
                          /\ (sock[x] = "live")' => (x \in doomed \/ (x[1] \in conn /\ cell[x[1]] = x))'
        BY DEF SessionsBelong
      <3>1. t \in conn /\ x[1] \in Term
        BY <1>3 DEF Session
      <3>2. CASE x = s
        BY <2>1, <2>2, <3>1, <3>2 DEF IInv, TypeOK, InFlight, lookup
      <3>3. CASE x # s
        <4>1. sock'[x] = sock[x]
          BY <2>1, <3>3
        <4>2. InFlight(x) => pending'[x[1]] = pending[x[1]] \/ x \in doomed
          BY <1>3, <2>1, <3>1, ManagerAssumption DEF IInv, TypeOK, SessionsBelong
        <4> QED BY <4>1, <4>2 DEF IInv, SessionsBelong, InFlight, lookup
      <3> QED BY <3>2, <3>3
    <2>9. Doomed' /\ FilesFollowTheTerminal'
      BY DEF IInv, Doomed, FilesFollowTheTerminal, terminals, lookup
    <2> QED BY <2>4, <2>5, <2>6, <2>7, <2>8, <2>9 DEF IInv
  <1> QED BY <1>1, <1>2, <1>3

LEMMA EnterKeeps ==
    ASSUME IInv, NEW o \in Op, NEW c \in Call, Enter(o, c),
           UNCHANGED <<terminals, lookup, rooted, cell, doomed>>
    PROVE  IInv'
  <1> DEFINE t == IF c.key # None THEN c.key ELSE active
  <1>0. rooted' \subseteq Term
    BY DEF IInv, TypeOK
  <1>1. CASE t \notin conn
    BY <1>0, <1>1, EndsKeeps DEF Enter, sessions
  <1>2. CASE t \in conn
    <2> DEFINE d == [c EXCEPT !.phase = FirstPhase(c.kind, t)]
    <2>1. EnsureSession(o, d, t)
      BY <1>2 DEF Enter
    <2>2. t \in Term /\ FirstPhase(c.kind, t) \in {"drop", "root", "main"}
      BY <1>2 DEF IInv, TypeOK, FirstPhase
    <2>3. d \in Call
      BY <2>2 DEF Call
    <2> HIDE DEF d, t
    <2> QED BY <1>0, <1>2, <2>1, <2>2, <2>3, EnsureSessionKeeps
  <1> QED BY <1>1, <1>2

LEMMA AskKeeps ==
    ASSUME IInv, NEW o \in Op, Ask(o) PROVE IInv'
  <1>1. PICK k \in Kinds, t \in known \cup {None} :
          LET c == [NoCall EXCEPT !.kind = k, !.key = t,
                                  !.left = IF k = "upload" THEN Files ELSE 1,
                                  !.asked = IF t # None THEN t ELSE active] IN
          IF k \in {"command", "upload"}
          THEN Goes(o, [c EXCEPT !.at = "dialog"]) /\ UNCHANGED <<pending, sock>>
          ELSE Enter(o, c)
    BY DEF Ask
  <1> DEFINE c == [NoCall EXCEPT !.kind = k, !.key = t,
                                 !.left = IF k = "upload" THEN Files ELSE 1,
                                 !.asked = IF t # None THEN t ELSE active]
             d == [c EXCEPT !.at = "dialog"]
  <1>2. UNCHANGED <<terminals, lookup, rooted, cell, doomed>>
    BY DEF Ask
  <1>3. c \in Call /\ d \in Call /\ HasSession(d)
    <2>1. k \in Kind /\ t \in Term \cup {None} /\ active \in Term \cup {None}
      BY ManagerAssumption DEF IInv, TypeOK
    <2>2. (IF k = "upload" THEN Files ELSE 1) \in 0..Files
      BY ManagerAssumption
    <2>3. c \in Call
      BY <2>1, <2>2, NoCallIsCall DEF Call
    <2> HIDE DEF c
    <2> QED BY <2>3 DEF Call, HasSession
  <1>4. CASE k \in {"command", "upload"}
    <2>1. Goes(o, d) /\ UNCHANGED <<pending, sock>>
      BY <1>1, <1>4
    <2>2. rooted' \subseteq Term
      BY <1>2 DEF IInv, TypeOK
    <2> HIDE DEF d
    <2> QED BY <1>2, <1>3, <2>1, <2>2, GoesKeeps DEF sessions
  <1>5. CASE k \notin {"command", "upload"}
    <2>1. Enter(o, c)
      BY <1>1, <1>5
    <2> HIDE DEF c
    <2> QED BY <1>2, <1>3, <2>1, EnterKeeps
  <1> QED BY <1>4, <1>5

LEMMA AnsweredKeeps ==
    ASSUME IInv, NEW o \in Op, Answered(o) PROVE IInv'
  <1>0. call[o] \in Call /\ rooted' \subseteq Term
        /\ UNCHANGED <<terminals, lookup, rooted, cell, doomed>>
    BY DEF Answered, IInv, TypeOK
  <1>1. CASE Enter(o, call[o])
    BY <1>0, <1>1, EnterKeeps
  <1>2. CASE Ends(o) /\ UNCHANGED <<pending, sock>>
    BY <1>0, <1>2, EndsKeeps DEF sessions
  <1> QED BY <1>1, <1>2 DEF Answered

LEMMA ResumeKeeps ==
    ASSUME IInv, Handy, NEW o \in Op, Resume(o) PROVE IInv'
  <1> DEFINE c == call[o]
             list == [c EXCEPT !.kind = "list"]
             main == [c EXCEPT !.phase = "main"]
             sent == [c EXCEPT !.at = "sent"]
  <1>0. /\ c \in Call /\ HasSession(c) /\ c.at \in {"wait", "ready"} /\ rooted \subseteq Term
        /\ c.term \in Term /\ UNCHANGED <<terminals, lookup, cell, doomed>>
    BY DEF Resume, MustResume, IInv, TypeOK, Calls, HasSession
  <1>4. CASE /\ sock[c.sess] # "failed" /\ rooted' = rooted \cup {c.term}
             /\ EnsureSession(o, main, c.term)
    <2>1. main \in Call
      BY <1>0 DEF Call
    <2>2. cell[c.term] # None
      BY <1>4 DEF Handy, Resume
    <2> HIDE DEF main
    <2> QED BY <1>0, <1>4, <2>1, <2>2, EnsureSessionKeeps
  <1>1. CASE Enter(o, list) /\ UNCHANGED rooted
    <2>1. list \in Call
      BY <1>0 DEF Call, Kind
    <2> HIDE DEF list
    <2> QED BY <1>0, <1>1, <2>1, EnterKeeps
  <1>2. CASE Goes(o, sent) /\ UNCHANGED <<rooted, pending, sock>>
    <2>1. sent \in Call /\ HasSession(sent)
      BY <1>0 DEF Call, HasSession
    <2> HIDE DEF sent
    <2> QED BY <1>0, <1>2, <2>1, GoesKeeps DEF sessions
  <1>3. CASE Ends(o) /\ UNCHANGED <<rooted, pending, sock>>
    BY <1>0, <1>3, EndsKeeps DEF sessions
  <1> QED BY <1>1, <1>2, <1>3, <1>4 DEF Resume

\* A live session that nothing is about to dispose is the one of its registered
\* connection.
LEMMA LiveIsKept ==
    ASSUME IInv, NEW s \in Session, sock[s] = "live", ~MustDiscard(s)
    PROVE  s[1] \in conn /\ cell[s[1]] = s
  BY DEF IInv, SessionsBelong, MustDiscard

LEMMA CommandEndsKeeps ==
    ASSUME IInv, NEW o \in Op, CommandEnds(o) PROVE IInv'
  <1> DEFINE c == call[o]
             next == [c EXCEPT !.at = "dialog", !.left = @ - 1]
  <1>0. /\ c \in Call /\ c.term \in Term /\ rooted \subseteq Term
        /\ UNCHANGED <<terminals, lookup, sessions>>
    BY DEF CommandEnds, IInv, TypeOK, Calls, HasSession
  <1>1. rooted' \subseteq Term
    BY <1>0 DEF CommandEnds, CommandAnswered
  <1>2. CASE Ends(o)
    BY <1>0, <1>1, <1>2, EndsKeeps
  <1>3. CASE c.left > 1 /\ Goes(o, next)
    <2>1. c.left - 1 \in 0..Files
      BY <1>0, <1>3, ManagerAssumption DEF Call
    <2>2. next \in Call /\ HasSession(next)
      BY <1>0, <2>1 DEF Call, HasSession
    <2> HIDE DEF next
    <2> QED BY <1>0, <1>1, <1>3, <2>2, GoesKeeps
  <1> QED BY <1>2, <1>3 DEF CommandEnds, CommandAnswered

----------------------------------------------------------------------------
\* Sessions

LEMMA SessionStepKeeps ==
    ASSUME IInv, NEW s \in Session, Settle(s) \/ ServerCloses(s) PROVE IInv'
  <1>0. /\ UNCHANGED <<terminals, lookup, rooted, doomed, call>>
        /\ s[1] \in Term /\ s # None
        /\ cell \in [Term -> Session \cup {None}] /\ pending \in [Term -> Session \cup {None}]
        /\ sock \in [Session -> {"none", "making", "connecting", "failed", "live", "closed"}]
        /\ Cells /\ Pendings /\ Doomed /\ SessionsBelong
    BY ManagerAssumption
    DEF Settle, Made, Connected, ConnectFails, Discard, ServerCloses, Session, IInv, TypeOK
  <1>1. Calls' /\ Doomed' /\ FilesFollowTheTerminal'
    BY <1>0 DEF IInv, Calls, HasSession, Doomed, FilesFollowTheTerminal, terminals, lookup
  <1>2. TypeOK'
    BY <1>0 DEF IInv, TypeOK, Settle, Made, Connected, ConnectFails, Discard, ServerCloses,
                terminals, lookup
  <1>3. CASE Made(s)
    <2>1. Cells' /\ Pendings'
      BY <1>0, <1>3 DEF Made, Cells, Pendings, InFlight, lookup
    <2>2. SessionsBelong'
      BY <1>0, <1>3 DEF Made, SessionsBelong, InFlight, lookup
    <2> QED BY <1>1, <1>2, <2>1, <2>2 DEF IInv
  <1>4. CASE Connected(s)
    <2>1. Cells'
      BY <1>0, <1>4 DEF Connected, Cells
    <2>2. Pendings'
      <3> SUFFICES ASSUME NEW t \in Term, pending'[t] # None
                   PROVE  /\ pending'[t][1] = t /\ InFlight(pending[t])'
                          /\ t \in conn' /\ cell'[t] = None
        BY DEF Pendings
      <3>1. pending'[t] = pending[t] /\ pending[t] # s
        BY <1>0, <1>4 DEF Connected, Pendings
      <3>2. t # s[1]
        BY <1>0, <1>4, <3>1 DEF Connected, Pendings, SessionsBelong, Doomed, InFlight
      <3> QED BY <1>0, <1>4, <3>1, <3>2 DEF Connected, Pendings, InFlight, lookup
    <2>3. SessionsBelong'
      <3> SUFFICES ASSUME NEW x \in Session
                   PROVE  /\ InFlight(x)' => (x \in doomed \/ (x[1] \in conn /\ pending[x[1]] = x))'
                          /\ (sock[x] = "live")' => (x \in doomed \/ (x[1] \in conn /\ cell[x[1]] = x))'
        BY DEF SessionsBelong
      <3>0. x[1] \in Term
        BY DEF Session
      <3>1. CASE x = s
        BY <1>0, <1>4, <3>1 DEF Connected, SessionsBelong, InFlight, lookup
      <3>2. CASE x # s
        <4>1. sock'[x] = sock[x]
          BY <1>0, <1>4, <3>2 DEF Connected
        <4>2. InFlight(x) => x \in doomed \/ (x[1] \in conn /\ pending'[x[1]] = x)
          BY <1>0, <1>4, <3>0, <3>2 DEF Connected, SessionsBelong
        <4>3. sock[x] = "live" => x \in doomed \/ (x[1] \in conn /\ cell'[x[1]] = x)
          <5> SUFFICES ASSUME sock[x] = "live", x \notin doomed
                       PROVE  x[1] \in conn /\ cell'[x[1]] = x
            OBVIOUS
          <5>1. x[1] \in conn /\ cell[x[1]] = x
            BY <1>0 DEF SessionsBelong
          <5>2. x # None
            BY ManagerAssumption
          <5>3. x[1] # s[1]
            BY <1>0, <1>4, <5>1, <5>2
            DEF Connected, SessionsBelong, Pendings, Doomed, InFlight
          <5> QED BY <1>0, <1>4, <3>0, <5>1, <5>3 DEF Connected
        <4> QED BY <1>0, <4>1, <4>2, <4>3 DEF InFlight, lookup
      <3> QED BY <3>1, <3>2
    <2> QED BY <1>1, <1>2, <2>1, <2>2, <2>3 DEF IInv
  <1>5. CASE ConnectFails(s)
    <2>1. Cells'
      BY <1>0, <1>5 DEF ConnectFails, Cells, InFlight
    <2>2. Pendings'
      BY <1>0, <1>5 DEF ConnectFails, Pendings, InFlight, lookup
    <2>3. SessionsBelong'
      <3> SUFFICES ASSUME NEW x \in Session, x # s
                   PROVE  /\ InFlight(x)' => (x \in doomed \/ (x[1] \in conn /\ pending[x[1]] = x))'
                          /\ (sock[x] = "live")' => (x \in doomed \/ (x[1] \in conn /\ cell[x[1]] = x))'
        BY <1>0, <1>5 DEF ConnectFails, SessionsBelong, InFlight
      <3>1. sock'[x] = sock[x] /\ x[1] \in Term
        BY <1>0, <1>5 DEF ConnectFails, Session
      <3>2. pending[x[1]] = x => pending'[x[1]] = x
        BY <1>0, <1>5, <3>1 DEF ConnectFails
      <3> QED BY <1>0, <1>5, <3>1, <3>2 DEF ConnectFails, SessionsBelong, InFlight, lookup
    <2> QED BY <1>1, <1>2, <2>1, <2>2, <2>3 DEF IInv
  <1>6. CASE Discard(s) \/ ServerCloses(s)
    <2>0. sock[s] = "live" /\ sock' = [sock EXCEPT ![s] = "closed"] /\ UNCHANGED <<cell, pending>>
      BY <1>6 DEF Discard, ServerCloses, MustDiscard
    <2>1. Cells' /\ Pendings'
      BY <1>0, <2>0 DEF Cells, Pendings, InFlight, lookup
    <2>2. SessionsBelong'
      BY <1>0, <2>0 DEF SessionsBelong, InFlight, lookup
    <2> QED BY <1>1, <1>2, <2>1, <2>2 DEF IInv
  <1> QED BY <1>3, <1>4, <1>5, <1>6 DEF Settle

----------------------------------------------------------------------------
\* The results

LEMMA StutterKeeps == IInv /\ UNCHANGED vars => IInv'
  BY DEF IInv, TypeOK, Cells, Pendings, Doomed, Calls, HasSession, SessionsBelong, InFlight,
         FilesFollowTheTerminal, vars, terminals, lookup, sessions

\* No terminal is removed while a call is about to go on.
LEMMA HandyNext ==
    ASSUME IInv, Handy, [Next]_vars PROVE Handy'
  <1>0. /\ call \in [Op -> Call] /\ conn \subseteq Term
        /\ cell \in [Term -> Session \cup {None}] /\ None \notin Session
        /\ sock \in [Session -> {"none", "making", "connecting", "failed", "live", "closed"}]
        /\ \A o \in Op : HasSession(call[o])
    BY ManagerAssumption DEF IInv, TypeOK, Calls
  <1>1. CASE UNCHANGED <<call, sock, cell>>
    BY <1>1 DEF Handy, MustResume, InFlight
  <1>2. ASSUME NEW ts \in SUBSET conn, DisposeConnections(ts), JobsDrained, UNCHANGED call
        PROVE  Handy'
    <2>1. \A s \in Session : InFlight(s) => sock'[s] = sock[s]
      BY <1>0, <1>2 DEF DisposeConnections, IInv, Cells, InFlight, Session
    <2>2. \A o \in Op : call[o].at # "ready" /\ (call[o].at = "wait" => InFlight(call[o].sess))
      BY <1>2 DEF JobsDrained, MustResume
    <2>3. ASSUME NEW o \in Op PROVE ~MustResume(o)'
      <3>1. call[o].at = "wait" => call[o].sess \in Session
        BY <1>0 DEF HasSession
      <3> QED BY <1>2, <2>1, <2>2, <3>1 DEF MustResume, InFlight
    <2> QED BY <2>3 DEF Handy
  <1>3. CASE Dispose
    BY <1>2, <1>3 DEF Dispose
  <1>4. ASSUME NEW t \in Term, OpenTerminal(t) \/ Focus(t) \/ Close(t) PROVE Handy'
    BY <1>1, <1>2, <1>4 DEF OpenTerminal, Focus, Close, sessions
  <1>5. ASSUME NEW s \in Session, Settle(s) \/ ServerCloses(s) PROVE Handy'
    <2>0. s[1] \in Term /\ s # None
      BY <1>0 DEF Session
    <2>1. CASE Discard(s)
      BY <1>0, <2>1 DEF Discard, MustDiscard, Handy, MustResume, InFlight, HasSession
    <2>2. CASE ~Discard(s)
      <3>1. JobsDrained /\ call' = call
        BY <1>5, <2>2 DEF Settle, Made, Connected, ConnectFails, ServerCloses
      <3>2. \A o \in Op : call[o].at # "ready" /\ (call[o].at = "wait" => InFlight(call[o].sess))
        BY <3>1 DEF JobsDrained, MustResume
      <3>3. ASSUME NEW o \in Op, MustResume(o)'
            PROVE  (call[o].at = "wait" /\ sock'[call[o].sess] = "failed") \/ cell'[call[o].term] # None
        <4>1. /\ call[o].at = "wait" /\ InFlight(call[o].sess) /\ ~InFlight(call[o].sess)'
              /\ call[o].sess \in Session /\ call[o].sess[1] = call[o].term
          BY <1>0, <3>1, <3>2, <3>3 DEF MustResume, HasSession, InFlight
        <4>2. call[o].sess = s /\ (ConnectFails(s) \/ Connected(s))
          BY <1>0, <1>5, <2>2, <4>1
          DEF Settle, Made, Connected, ConnectFails, ServerCloses, InFlight
        <4> QED BY <1>0, <2>0, <4>1, <4>2 DEF ConnectFails, Connected
      <3> QED BY <3>1, <3>3 DEF Handy
    <2> QED BY <2>1, <2>2
  <1>6. ASSUME NEW o \in Op, Ask(o) \/ Advance(o) PROVE Handy'
    <2>0. cell' = cell
      BY <1>6 DEF Ask, Advance, Answered, Resume, CommandEnds, sessions
    <2>1. ASSUME NEW c, Goes(o, c), UNCHANGED sock, c.at \notin {"wait", "ready"}
          PROVE  Handy'
      BY <1>0, <2>0, <2>1 DEF Goes, Handy, MustResume, InFlight
    <2>2. Ends(o) /\ UNCHANGED sock => Handy'
      BY <2>1 DEF Ends, NoCall
    <2>3. ASSUME NEW c \in Call, NEW t \in Term, EnsureSession(o, c, t)
          PROVE  Handy'
      <3>1. <<t, o>> \in Session
        BY DEF Session
      <3>2. \A x \in Op \ {o} : call'[x] = call[x]
        BY <1>0, <2>3 DEF EnsureSession, Goes
      <3>3. \/ sock' = sock
            \/ cell[t] = None /\ sock' = [sock EXCEPT ![<<t, o>>] = "making"]
        BY <2>3 DEF EnsureSession
      <3>4. ASSUME NEW x \in Op \ {o}, MustResume(x)'
            PROVE  \/ call'[x].at = "wait" /\ sock'[call'[x].sess] = "failed"
                   \/ cell[call'[x].term] # None
        <4>1. call'[x] = call[x] /\ call[x].at \in {"wait", "ready"}
          BY <3>2, <3>4 DEF MustResume
        <4>2. /\ call[x].sess \in Session /\ call[x].sess[1] = call[x].term
              /\ sock'[call[x].sess] = "making" => ~MustResume(x)' \/ call[x].at = "ready"
          BY <1>0, <4>1 DEF HasSession, MustResume, InFlight
        <4>3. CASE sock'[call[x].sess] = sock[call[x].sess]
          <5>1. MustResume(x)
            BY <3>4, <4>1, <4>3 DEF MustResume, InFlight
          <5> QED BY <4>1, <4>3, <5>1 DEF Handy
        <4>4. CASE /\ call[x].sess = <<t, o>> /\ cell[t] = None
                   /\ sock'[call[x].sess] = "making"
          <5>1. call[x].at = "ready" /\ call[x].term = t
            BY <3>4, <4>2, <4>4
          <5>2. MustResume(x)
            BY <5>1 DEF MustResume
          <5> QED BY <4>4, <5>1, <5>2 DEF Handy
        <4> QED BY <1>0, <3>1, <3>3, <4>2, <4>3, <4>4
      <3>5. MustResume(o)' => cell[call'[o].term] # None
        <4>1. CASE cell[t] # None
          <5> DEFINE d == [c EXCEPT !.at = "ready", !.term = t, !.sess = cell[t]]
          <5>1. call'[o] = d /\ d.term = t
            BY <1>0, <2>3, <4>1 DEF EnsureSession, Goes, Call
          <5> QED BY <4>1, <5>1
        <4>2. CASE cell[t] = None /\ pending[t] # None
          <5> DEFINE d == [c EXCEPT !.at = "wait", !.term = t, !.sess = pending[t]]
          <5>1. sock' = sock /\ InFlight(pending[t])
            BY <2>3, <4>2 DEF EnsureSession, IInv, Pendings
          <5>2. call'[o] = d
            BY <1>0, <2>3, <4>2 DEF EnsureSession, Goes
          <5>3. d.at = "wait" /\ d.sess = pending[t]
            BY DEF Call
          <5> HIDE DEF d
          <5> QED BY <5>1, <5>2, <5>3 DEF MustResume, InFlight
        <4>3. CASE cell[t] = None /\ pending[t] = None
          <5> DEFINE d == [c EXCEPT !.at = "wait", !.term = t, !.sess = <<t, o>>]
          <5>1. sock'[<<t, o>>] = "making"
            BY <1>0, <2>3, <3>1, <4>3 DEF EnsureSession
          <5>2. call'[o] = d
            BY <1>0, <2>3, <4>3 DEF EnsureSession, Goes
          <5>3. d.at = "wait" /\ d.sess = <<t, o>>
            BY DEF Call
          <5> HIDE DEF d
          <5> QED BY <5>1, <5>2, <5>3 DEF MustResume, InFlight
        <4> QED BY <4>1, <4>2, <4>3
      <3> QED BY <2>0, <3>4, <3>5 DEF Handy
    <2>4. ASSUME NEW c \in Call, Enter(o, c) PROVE Handy'
      <3> DEFINE t == IF c.key # None THEN c.key ELSE active
                 d == [c EXCEPT !.phase = FirstPhase(c.kind, t)]
      <3>1. CASE t \notin conn
        BY <2>2, <2>4, <3>1 DEF Enter
      <3>2. CASE t \in conn
        <4>1. EnsureSession(o, d, t) /\ t \in Term
          BY <1>0, <2>4, <3>2 DEF Enter
        <4>2. d \in Call
          BY DEF Call, FirstPhase
        <4> HIDE DEF d, t
        <4> QED BY <4>1, <4>2, <2>3
      <3> QED BY <3>1, <3>2
    <2>5. CASE Ask(o)
      <3>1. PICK k \in Kinds, t \in known \cup {None} :
              LET c == [NoCall EXCEPT !.kind = k, !.key = t,
                                      !.left = IF k = "upload" THEN Files ELSE 1,
                                      !.asked = IF t # None THEN t ELSE active] IN
              IF k \in {"command", "upload"}
              THEN Goes(o, [c EXCEPT !.at = "dialog"]) /\ UNCHANGED <<pending, sock>>
              ELSE Enter(o, c)
        BY <2>5 DEF Ask
      <3> DEFINE c == [NoCall EXCEPT !.kind = k, !.key = t,
                                     !.left = IF k = "upload" THEN Files ELSE 1,
                                     !.asked = IF t # None THEN t ELSE active]
      <3>2. c \in Call
        <4>1. k \in Kind /\ t \in Term \cup {None} /\ active \in Term \cup {None}
          BY ManagerAssumption DEF IInv, TypeOK
        <4>2. (IF k = "upload" THEN Files ELSE 1) \in 0..Files
          BY ManagerAssumption
        <4> QED BY <4>1, <4>2, NoCallIsCall DEF Call
      <3>3. (Goes(o, [c EXCEPT !.at = "dialog"]) /\ UNCHANGED sock) \/ Enter(o, c)
        BY <3>1
      <3> HIDE DEF c
      <3>4. [c EXCEPT !.at = "dialog"].at = "dialog"
        BY <3>2 DEF Call
      <3> QED BY <2>1, <2>4, <3>2, <3>3, <3>4
    <2>6. CASE Answered(o)
      BY <1>0, <2>2, <2>4, <2>6 DEF Answered
    <2>7. CASE Resume(o)
      <3> DEFINE c == call[o]
      <3>1. /\ c \in Call /\ [c EXCEPT !.kind = "list"] \in Call /\ [c EXCEPT !.phase = "main"] \in Call
            /\ [c EXCEPT !.at = "sent"].at = "sent" /\ c.term \in Term
        BY <1>0, <2>7 DEF Call, Kind, Resume, MustResume, HasSession
      <3>2. \/ Enter(o, [c EXCEPT !.kind = "list"])
            \/ EnsureSession(o, [c EXCEPT !.phase = "main"], c.term)
            \/ Goes(o, [c EXCEPT !.at = "sent"]) /\ UNCHANGED sock
            \/ Ends(o) /\ UNCHANGED sock
        BY <2>7 DEF Resume
      <3> QED BY <2>1, <2>2, <2>3, <2>4, <3>1, <3>2
    <2>8. CASE CommandEnds(o)
      <3> DEFINE d == [call[o] EXCEPT !.at = "dialog", !.left = @ - 1]
      <3>1. d.at = "dialog"
        BY <1>0 DEF Call
      <3>2. UNCHANGED sock /\ (Goes(o, d) \/ Ends(o))
        BY <2>8 DEF CommandEnds, CommandAnswered, sessions
      <3> HIDE DEF d
      <3> QED BY <2>1, <2>2, <3>1, <3>2
    <2> QED BY <1>6, <2>5, <2>6, <2>7, <2>8 DEF Advance
  <1> QED BY <1>1, <1>3, <1>4, <1>5, <1>6 DEF Next, vars, sessions

\* The inductive invariant of the manager.
THEOREM Invariance == Spec => [](IInv /\ Handy)
  <1>1. IInv /\ Handy /\ [Next]_vars => IInv'
    <2> SUFFICES ASSUME IInv, Handy, Next PROVE IInv'
      BY StutterKeeps
    <2>1. ASSUME NEW t \in Term, OpenTerminal(t) \/ Focus(t) \/ Close(t) PROVE IInv'
      BY <2>1, OpenKeeps, FocusKeeps, CloseKeeps
    <2>2. CASE Dispose
      BY <2>2, DisposeKeeps
    <2>3. ASSUME NEW o \in Op, Ask(o) \/ Advance(o) PROVE IInv'
      BY <2>3, AskKeeps, AnsweredKeeps, ResumeKeeps, CommandEndsKeeps DEF Advance
    <2>4. ASSUME NEW s \in Session, Settle(s) \/ ServerCloses(s) PROVE IInv'
      BY <2>4, SessionStepKeeps
    <2> QED BY <2>1, <2>2, <2>3, <2>4 DEF Next
  <1>2. Init => Handy
    BY DEF Init, Handy, MustResume, NoCall
  <1>3. IInv /\ Handy /\ [Next]_vars => Handy'
    BY HandyNext
  <1> QED BY <1>1, <1>2, <1>3, InitEstablishes, PTL DEF Spec

\* The state of the manager is always well typed.
THEOREM TypeCorrect == Spec => []TypeOK
  <1>1. IInv => TypeOK
    BY DEF IInv
  <1> QED BY <1>1, Invariance, PTL

\* No websocket without an owner, in whatever order connects end and terminals
\* are removed (ensureSession, disposeConnection).
THEOREM NoOrphans == Spec => []SessionsBelong
  <1>1. IInv => SessionsBelong
    BY DEF IInv
  <1> QED BY <1>1, Invariance, PTL

\* The manager's active terminal follows the registry's.
THEOREM ActiveFollows == Spec => []FilesFollowTheTerminal
  <1>1. IInv => FilesFollowTheTerminal
    BY DEF IInv
  <1> QED BY <1>1, Invariance, PTL

----------------------------------------------------------------------------
\* What the steps of calls do to the calls.

\* What a step does to one call: it leaves it alone or ends it, sends it to a
\* dialog, gives it a session, or makes it wait for a connect under way.
Gentle(x) ==
    \/ call'[x] = call[x]
    \/ call'[x].at \in {"over", "dialog"}
    \/ call'[x].at = "ready" /\ sock'[call'[x].sess] \in {"live", "closed"}
    \/ call'[x].at = "wait" /\ sock'[call'[x].sess] \in {"making", "connecting"}

LEMMA EndsGently ==
    ASSUME IInv, NEW o \in Op, Ends(o), NEW x \in Op PROVE Gentle(x)
  BY DEF IInv, TypeOK, Ends, Goes, NoCall, Gentle

LEMMA EnsureSessionGently ==
    ASSUME IInv, NEW o \in Op, NEW c \in Call, NEW t \in Term, EnsureSession(o, c, t),
           NEW x \in Op
    PROVE  Gentle(x)
  <1>0. /\ call \in [Op -> Call] /\ <<t, o>> \in Session
        /\ sock \in [Session -> {"none", "making", "connecting", "failed", "live", "closed"}]
    BY DEF IInv, TypeOK, Session
  <1>1. CASE cell[t] # None
    <2> DEFINE d == [c EXCEPT !.at = "ready", !.term = t, !.sess = cell[t]]
    <2>1. call' = [call EXCEPT ![o] = d] /\ sock' = sock
      BY <1>1 DEF EnsureSession, Goes
    <2>2. d.at = "ready" /\ d.sess = cell[t]
      BY DEF Call
    <2>3. sock[cell[t]] \in {"live", "closed"}
      BY <1>1 DEF IInv, Cells
    <2> HIDE DEF d
    <2> QED BY <1>0, <2>1, <2>2, <2>3 DEF Gentle
  <1>2. CASE cell[t] = None /\ pending[t] # None
    <2> DEFINE d == [c EXCEPT !.at = "wait", !.term = t, !.sess = pending[t]]
    <2>1. call' = [call EXCEPT ![o] = d] /\ sock' = sock
      BY <1>2 DEF EnsureSession, Goes
    <2>2. d.at = "wait" /\ d.sess = pending[t]
      BY DEF Call
    <2>3. sock[pending[t]] \in {"making", "connecting"}
      BY <1>2 DEF IInv, Pendings, InFlight
    <2> HIDE DEF d
    <2> QED BY <1>0, <2>1, <2>2, <2>3 DEF Gentle
  <1>3. CASE cell[t] = None /\ pending[t] = None
    <2> DEFINE s == <<t, o>>
               d == [c EXCEPT !.at = "wait", !.term = t, !.sess = s]
    <2>1. call' = [call EXCEPT ![o] = d] /\ sock' = [sock EXCEPT ![s] = "making"]
      BY <1>3 DEF EnsureSession, Goes
    <2>2. d.at = "wait" /\ d.sess = s /\ s \in Session
      BY <1>0 DEF Call
    <2> HIDE DEF d, s
    <2> QED BY <1>0, <2>1, <2>2 DEF Gentle
  <1> QED BY <1>1, <1>2, <1>3

LEMMA EnterGently ==
    ASSUME IInv, NEW o \in Op, NEW c \in Call, Enter(o, c), NEW x \in Op
    PROVE  Gentle(x)
  <1> DEFINE t == IF c.key # None THEN c.key ELSE active
             d == [c EXCEPT !.phase = FirstPhase(c.kind, t)]
  <1>1. CASE t \notin conn
    BY <1>1, EndsGently DEF Enter
  <1>2. CASE t \in conn
    <2>1. EnsureSession(o, d, t)
      BY <1>2 DEF Enter
    <2>2. t \in Term /\ FirstPhase(c.kind, t) \in {"drop", "root", "main"}
      BY <1>2 DEF IInv, TypeOK, FirstPhase
    <2>3. d \in Call
      BY <2>2 DEF Call
    <2> HIDE DEF d, t
    <2> QED BY <2>1, <2>2, <2>3, EnsureSessionGently
  <1> QED BY <1>1, <1>2

\* A call that has just waited for its session sends only on a live session.
SendsLive(x) ==
    /\ call'[x].at = "sent" /\ call'[x].term = call[x].term /\ UNCHANGED <<conn, sock>>
    /\ call'[x].sess = call[x].sess
    /\ call[x].at \in {"wait", "ready"} /\ sock[call[x].sess] = "live"
    /\ ~MustDiscard(call[x].sess)

LEMMA StepShapes ==
    ASSUME IInv, [Next]_vars, NEW x \in Op
    PROVE  Gentle(x) \/ SendsLive(x)
  <1>0. call \in [Op -> Call]
    BY DEF IInv, TypeOK
  <1>1. CASE call' = call
    BY <1>1 DEF Gentle
  <1>2. ASSUME NEW o \in Op, Ask(o) PROVE Gentle(x)
    <2>1. PICK k \in Kinds, t \in known \cup {None} :
            LET c == [NoCall EXCEPT !.kind = k, !.key = t,
                                    !.left = IF k = "upload" THEN Files ELSE 1,
                                    !.asked = IF t # None THEN t ELSE active] IN
            IF k \in {"command", "upload"}
            THEN Goes(o, [c EXCEPT !.at = "dialog"]) /\ UNCHANGED <<pending, sock>>
            ELSE Enter(o, c)
      BY <1>2 DEF Ask
    <2> DEFINE c == [NoCall EXCEPT !.kind = k, !.key = t,
                                   !.left = IF k = "upload" THEN Files ELSE 1,
                                   !.asked = IF t # None THEN t ELSE active]
    <2>2. c \in Call
      <3>1. k \in Kind /\ t \in Term \cup {None} /\ active \in Term \cup {None}
        BY ManagerAssumption DEF IInv, TypeOK
      <3>2. (IF k = "upload" THEN Files ELSE 1) \in 0..Files
        BY ManagerAssumption
      <3> QED BY <3>1, <3>2, NoCallIsCall DEF Call
    <2>3. Goes(o, [c EXCEPT !.at = "dialog"]) \/ Enter(o, c)
      BY <2>1
    <2> HIDE DEF c
    <2>4. Goes(o, [c EXCEPT !.at = "dialog"]) => Gentle(x)
      BY <1>0, <2>2 DEF Goes, Gentle, Call
    <2> QED BY <2>2, <2>3, <2>4, EnterGently
  <1>3. ASSUME NEW o \in Op, Answered(o) PROVE Gentle(x)
    BY <1>0, <1>3, EnterGently, EndsGently DEF Answered
  <1>4. ASSUME NEW o \in Op, Resume(o) PROVE Gentle(x) \/ SendsLive(x)
    <2> DEFINE c == call[o]
    <2>0. c \in Call /\ [c EXCEPT !.kind = "list"] \in Call /\ [c EXCEPT !.phase = "main"] \in Call
          /\ HasSession(c) /\ c.at \in {"wait", "ready"}
      BY <1>0, <1>4 DEF Call, Kind, IInv, Calls, Resume, MustResume
    <2>4. CASE EnsureSession(o, [c EXCEPT !.phase = "main"], c.term)
      BY <2>0, <2>4, EnsureSessionGently DEF HasSession
    <2>1. CASE Enter(o, [c EXCEPT !.kind = "list"])
      BY <2>0, <2>1, EnterGently
    <2>2. CASE Ends(o)
      BY <2>2, EndsGently
    <2>3. CASE /\ sock[c.sess] = "live" /\ UNCHANGED sock
               /\ Goes(o, [c EXCEPT !.at = "sent"])
      <3>1. c.sess \in Session /\ ~MustDiscard(c.sess)
        BY <1>4, <2>0 DEF Resume, HasSession
      <3>2. UNCHANGED conn
        BY <1>4 DEF Resume, lookup
      <3>3. CASE x = o
        BY <1>0, <2>0, <2>3, <3>1, <3>2, <3>3 DEF Goes, SendsLive, Call
      <3>4. CASE x # o
        BY <1>0, <2>3, <3>4 DEF Goes, Gentle
      <3> QED BY <3>3, <3>4
    <2> QED BY <1>4, <2>1, <2>2, <2>3, <2>4 DEF Resume
  <1>5. ASSUME NEW o \in Op, CommandEnds(o) PROVE Gentle(x)
    <2> DEFINE c == call[o]
    <2>1. CASE Ends(o)
      BY <2>1, EndsGently
    <2>2. CASE Goes(o, [c EXCEPT !.at = "dialog", !.left = @ - 1])
      BY <1>0, <2>2 DEF Goes, Gentle, Call
    <2> QED BY <1>5, <2>1, <2>2 DEF CommandEnds, CommandAnswered
  <1> QED
    BY <1>1, <1>2, <1>3, <1>4, <1>5
    DEF Next, Advance, OpenTerminal, Focus, Close, Dispose, Settle, Made, Connected,
        ConnectFails, Discard, ServerCloses, vars

\* A call that has waited sends nothing for a terminal that is gone: the
\* disposal of its session comes before it.
THEOREM Silence == Spec => RemovedTerminalsAreSilent
  <1>1. IInv /\ [Next]_vars => [\A o \in Op : Sends(o) => call'[o].term \in conn']_vars
    <2> SUFFICES ASSUME IInv, [Next]_vars, NEW o \in Op, Sends(o)
                 PROVE  call'[o].term \in conn'
      OBVIOUS
    <2>1. SendsLive(o)
      BY StepShapes DEF Sends, Gentle
    <2>2. call[o].sess \in Session /\ call[o].sess[1] = call[o].term
      BY <2>1 DEF SendsLive, IInv, Calls, HasSession
    <2> QED BY <2>1, <2>2, LiveIsKept DEF SendsLive
  <1> QED BY <1>1, Invariance, PTL DEF Spec, RemovedTerminalsAreSilent

\* No call waits for a connect that is over.
THEOREM FreshConnects == Spec => FinishedConnectsAreNotJoined
  <1>1. IInv /\ [Next]_vars =>
          [\A o \in Op : Waits(o) => sock'[call'[o].sess] \in {"making", "connecting"}]_vars
    <2> SUFFICES ASSUME IInv, [Next]_vars, NEW o \in Op, Waits(o)
                 PROVE  sock'[call'[o].sess] \in {"making", "connecting"}
      OBVIOUS
    <2> QED BY StepShapes DEF Waits, Gentle, SendsLive
  <1> QED BY <1>1, Invariance, PTL DEF Spec, FinishedConnectsAreNotJoined

----------------------------------------------------------------------------
\* Nobody waits in vain.

\* A session that has been connected stays its connection's, or that is gone: the
\* name of a session is not used for another one.
Kept ==
    \A s \in Session :
        sock[s] \in {"live", "closed"} =>
            cell[s[1]] = s \/ (s[1] \in opened /\ s[1] \notin conn)

Served(x) ==
    /\ call[x].at = "wait" => sock[call[x].sess] # "none"
    /\ call[x].at \in {"ready", "sent"} => sock[call[x].sess] \in {"live", "closed"}

ServedInv == Kept /\ \A x \in Op : Served(x)

\* A session that was begun stays so, and one that was connected as well.
Ages ==
    \A s \in Session : /\ sock[s] # "none" => sock'[s] # "none"
                       /\ sock[s] \in {"live", "closed"} => sock'[s] \in {"live", "closed"}

LEMMA EnsureSessionAges ==
    ASSUME IInv, Kept, NEW o \in Op, NEW c \in Call, NEW t \in Term, EnsureSession(o, c, t),
           t \in conn \/ cell[t] # None, UNCHANGED <<cell, conn, opened>>
    PROVE  Ages /\ Kept'
  <1>0. sock \in [Session -> {"none", "making", "connecting", "failed", "live", "closed"}]
    BY DEF IInv, TypeOK
  <1>1. CASE UNCHANGED sock
    BY <1>1 DEF Ages, Kept
  <1>2. CASE cell[t] = None /\ sock' = [sock EXCEPT ![<<t, o>>] = "making"]
    <2>1. <<t, o>> \in Session /\ <<t, o>>[1] = t /\ <<t, o>> # None
      BY ManagerAssumption DEF Session
    <2>2. sock[<<t, o>>] \notin {"live", "closed"}
      BY <1>2, <2>1 DEF Kept
    <2> QED BY <1>0, <1>2, <2>1, <2>2 DEF Ages, Kept
  <1> QED BY <1>1, <1>2 DEF EnsureSession

LEMMA EnterAges ==
    ASSUME IInv, Kept, NEW o \in Op, NEW c \in Call, Enter(o, c), UNCHANGED <<cell, conn, opened>>
    PROVE  Ages /\ Kept'
  <1> DEFINE t == IF c.key # None THEN c.key ELSE active
             d == [c EXCEPT !.phase = FirstPhase(c.kind, t)]
  <1>1. CASE t \notin conn
    BY <1>1 DEF Enter, Ages, Kept
  <1>2. CASE t \in conn
    <2>1. EnsureSession(o, d, t)
      BY <1>2 DEF Enter
    <2>2. t \in Term /\ FirstPhase(c.kind, t) \in {"drop", "root", "main"}
      BY <1>2 DEF IInv, TypeOK, FirstPhase
    <2>3. d \in Call
      BY <2>2 DEF Call
    <2> HIDE DEF d, t
    <2> QED BY <1>2, <2>1, <2>2, <2>3, EnsureSessionAges
  <1> QED BY <1>1, <1>2

LEMMA CallAges ==
    ASSUME IInv, Handy, Kept, NEW o \in Op, Ask(o) \/ Advance(o)
    PROVE  Ages /\ Kept'
  <1>0. UNCHANGED <<cell, conn, opened>> /\ call[o] \in Call
    BY DEF Ask, Advance, Answered, Resume, CommandEnds, terminals, lookup, sessions, IInv, TypeOK
  <1>1. CASE UNCHANGED sock
    BY <1>0, <1>1 DEF Ages, Kept
  <1>2. CASE Ask(o)
    <2>1. PICK k \in Kinds, t \in known \cup {None} :
            LET c == [NoCall EXCEPT !.kind = k, !.key = t,
                                    !.left = IF k = "upload" THEN Files ELSE 1,
                                    !.asked = IF t # None THEN t ELSE active] IN
            IF k \in {"command", "upload"}
            THEN Goes(o, [c EXCEPT !.at = "dialog"]) /\ UNCHANGED <<pending, sock>>
            ELSE Enter(o, c)
      BY <1>2 DEF Ask
    <2> DEFINE c == [NoCall EXCEPT !.kind = k, !.key = t,
                                   !.left = IF k = "upload" THEN Files ELSE 1,
                                   !.asked = IF t # None THEN t ELSE active]
    <2>2. c \in Call
      <3>1. k \in Kind /\ t \in Term \cup {None} /\ active \in Term \cup {None}
        BY ManagerAssumption DEF IInv, TypeOK
      <3>2. (IF k = "upload" THEN Files ELSE 1) \in 0..Files
        BY ManagerAssumption
      <3> QED BY <3>1, <3>2, NoCallIsCall DEF Call
    <2>3. UNCHANGED sock \/ Enter(o, c)
      BY <2>1
    <2> HIDE DEF c
    <2> QED BY <1>0, <1>1, <2>2, <2>3, EnterAges
  <1>3. CASE Answered(o)
    BY <1>0, <1>1, <1>3, EnterAges DEF Answered
  <1>4. CASE Resume(o)
    <2>1. [call[o] EXCEPT !.kind = "list"] \in Call /\ [call[o] EXCEPT !.phase = "main"] \in Call
      BY <1>0 DEF Call, Kind
    <2>2. CASE /\ sock[call[o].sess] # "failed"
               /\ EnsureSession(o, [call[o] EXCEPT !.phase = "main"], call[o].term)
      <3>1. call[o].term \in Term /\ cell[call[o].term] # None
        BY <1>4, <2>2 DEF Resume, MustResume, Handy, IInv, Calls, HasSession
      <3> QED BY <1>0, <2>1, <2>2, <3>1, EnsureSessionAges
    <2> QED BY <1>0, <1>1, <1>4, <2>1, <2>2, EnterAges DEF Resume
  <1>5. CASE CommandEnds(o)
    BY <1>1, <1>5 DEF CommandEnds, sessions
  <1> QED BY <1>2, <1>3, <1>4, <1>5 DEF Advance

\* Removing connections closes their sessions, which stay known as such.
LEMMA DisposeConnectionsAges ==
    ASSUME IInv, Kept, NEW ts \in SUBSET conn, DisposeConnections(ts), conn' = conn \ ts,
           UNCHANGED opened
    PROVE  Ages /\ Kept'
  <1>0. /\ sock \in [Session -> {"none", "making", "connecting", "failed", "live", "closed"}]
        /\ cell \in [Term -> Session \cup {None}] /\ conn \subseteq Term /\ conn \subseteq opened
        /\ Cells
    BY DEF IInv, TypeOK, Doomed
  <1>1. Ages
    BY <1>0, ManagerAssumption DEF DisposeConnections, Ages, Cells, Session
  <1>2. Kept'
    <2> SUFFICES ASSUME NEW s \in Session, sock'[s] \in {"live", "closed"}
                 PROVE  cell'[s[1]] = s \/ (s[1] \in opened /\ s[1] \notin conn')
      BY DEF Kept
    <2>0. s[1] \in Term
      BY DEF Session
    <2>1. CASE s[1] \in ts
      BY <1>0, <2>1
    <2>2. CASE s[1] \notin ts
      BY <1>0, <2>0, <2>2 DEF DisposeConnections, Kept
    <2> QED BY <2>1, <2>2
  <1> QED BY <1>1, <1>2

LEMMA TerminalAges ==
    ASSUME IInv, Kept, Dispose \/ \E t \in Term : OpenTerminal(t) \/ Focus(t) \/ Close(t)
    PROVE  Ages /\ Kept'
  <1>1. CASE Dispose
    <2>1. conn' = conn \ conn
      BY <1>1 DEF Dispose
    <2> QED BY <1>1, <2>1, DisposeConnectionsAges DEF Dispose
  <1>2. ASSUME NEW t \in Term, OpenTerminal(t)
        PROVE  Ages /\ Kept'
    BY <1>2 DEF OpenTerminal, sessions, Ages, Kept
  <1>3. ASSUME NEW t \in Term, Focus(t)
        PROVE  Ages /\ Kept'
    BY <1>3 DEF Focus, sessions, Ages, Kept
  <1>4. ASSUME NEW t \in Term, Close(t)
        PROVE  Ages /\ Kept'
    <2>1. CASE t \in conn
      BY <1>4, <2>1, DisposeConnectionsAges DEF Close
    <2>2. CASE t \notin conn
      BY <1>4, <2>2 DEF Close, sessions, Ages, Kept
    <2> QED BY <2>1, <2>2
  <1> QED BY <1>1, <1>2, <1>3, <1>4

LEMMA SessionAges ==
    ASSUME IInv, Kept, NEW s \in Session, Settle(s) \/ ServerCloses(s)
    PROVE  Ages /\ Kept'
  <1>0. /\ UNCHANGED <<opened, conn>> /\ s[1] \in Term
        /\ cell \in [Term -> Session \cup {None}]
        /\ sock \in [Session -> {"none", "making", "connecting", "failed", "live", "closed"}]
    BY DEF Settle, Made, Connected, ConnectFails, Discard, ServerCloses, Session, IInv, TypeOK,
           terminals, lookup
  <1>1. CASE Made(s) \/ ConnectFails(s)
    <2>1. CASE Made(s)
      BY <1>0, <2>1 DEF Made, Ages, Kept
    <2>2. CASE ConnectFails(s)
      BY <1>0, <2>2 DEF ConnectFails, InFlight, Ages, Kept
    <2> QED BY <1>1, <2>1, <2>2
  <1>3. CASE Discard(s) \/ ServerCloses(s)
    <2>1. sock[s] = "live" /\ sock' = [sock EXCEPT ![s] = "closed"] /\ UNCHANGED cell
      BY <1>3 DEF Discard, ServerCloses, MustDiscard
    <2> QED BY <1>0, <2>1 DEF Ages, Kept
  <1>2. CASE Connected(s)
    <2>1. Ages
      BY <1>0, <1>2 DEF Connected, Ages
    <2>2. s[1] \in conn => cell[s[1]] = None
      BY <1>0, <1>2, ManagerAssumption
      DEF IInv, Doomed, SessionsBelong, Pendings, Connected, InFlight
    <2>3. s[1] \in opened
      BY <1>0, <1>2 DEF IInv, Doomed, SessionsBelong, Connected, InFlight
    <2>4. ASSUME NEW x \in Session, sock'[x] \in {"live", "closed"}
          PROVE  cell'[x[1]] = x \/ (x[1] \in opened /\ x[1] \notin conn)
      <3>1. x[1] \in Term /\ x # None
        BY ManagerAssumption DEF Session
      <3>2. CASE x = s
        BY <1>0, <1>2, <3>2 DEF Connected
      <3>3. CASE x # s /\ x[1] = s[1]
        BY <1>0, <1>2, <2>2, <2>3, <2>4, <3>1, <3>3 DEF Connected, Kept
      <3>4. CASE x # s /\ x[1] # s[1]
        BY <1>0, <1>2, <2>4, <3>1, <3>4 DEF Connected, Kept
      <3> QED BY <3>2, <3>3, <3>4
    <2> QED BY <1>0, <2>1, <2>4 DEF Kept
  <1> QED BY <1>1, <1>2, <1>3 DEF Settle

LEMMA StepAges ==
    ASSUME IInv, Handy, Kept, [Next]_vars
    PROVE  Ages /\ Kept'
  <1>1. CASE UNCHANGED vars
    BY <1>1 DEF vars, terminals, lookup, sessions, Ages, Kept
  <1>2. CASE Next
    BY <1>2, CallAges, TerminalAges, SessionAges DEF Next
  <1> QED BY <1>1, <1>2

LEMMA ServedStep ==
    ASSUME IInv, Handy, ServedInv, [Next]_vars
    PROVE  ServedInv'
  <1>1. Ages /\ Kept'
    BY StepAges DEF ServedInv
  <1>2. ASSUME NEW x \in Op
        PROVE  Served(x)'
    <2>1. HasSession(call[x]) /\ Served(x)
      BY <1>2 DEF IInv, Calls, ServedInv
    <2>2. CASE Gentle(x)
      BY <1>1, <2>1, <2>2 DEF Gentle, Served, HasSession, Ages
    <2>3. CASE SendsLive(x)
      BY <2>1, <2>3 DEF SendsLive, Served
    <2> QED BY <1>2, <2>2, <2>3, StepShapes
  <1> QED BY <1>1, <1>2 DEF ServedInv

\* Whoever waits for a connect waits for one that has begun, and as long as it is in
\* flight its connection follows it, or it is disposed when it connects; whoever goes
\* on has a session that was connected.  So each promise of ensureSession settles.
THEOREM WaitersAreServed == Spec => []WaitsAreServed
  <1>1. Init => ServedInv
    BY DEF Init, NoCall, ServedInv, Kept, Served
  <1>2. IInv /\ ServedInv => WaitsAreServed
    <2> SUFFICES ASSUME IInv, ServedInv, NEW o \in Op
                 PROVE  /\ call[o].at = "wait" =>
                              \/ sock[call[o].sess] \in {"live", "closed", "failed"}
                              \/ /\ InFlight(call[o].sess)
                                 /\ call[o].sess \in doomed \/ pending[call[o].term] = call[o].sess
                        /\ call[o].at \in {"ready", "sent"} =>
                              sock[call[o].sess] \in {"live", "closed"}
      BY DEF WaitsAreServed
    <2>1. HasSession(call[o]) /\ Served(o)
      BY DEF IInv, Calls, ServedInv
    <2> QED BY <2>1 DEF IInv, TypeOK, SessionsBelong, InFlight, HasSession, Served
  <1>3. IInv /\ Handy /\ ServedInv /\ [Next]_vars => ServedInv'
    BY ServedStep
  <1> QED BY <1>1, <1>2, <1>3, Invariance, PTL DEF Spec

=============================================================================
