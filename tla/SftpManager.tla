------------------------------ MODULE SftpManager ------------------------------
(***************************************************************************)
(* One SFTP session per terminal (src/sftp/JumpServerSftpManager.ts), the  *)
(* registry of terminals (src/terminal/TerminalContext.ts), and the        *)
(* listeners and commands of src/extension.ts that connect the two.        *)
(*                                                                         *)
(* Calls of the manager await: a dialog or a local file before they look   *)
(* up the connection, the session that is being connected, and the         *)
(* command of the session.  Terminals come, lose the focus and go at every *)
(* await.  Terminal ids are random, so no id is used twice.                *)
(***************************************************************************)
EXTENDS Naturals, FiniteSets

CONSTANTS
    Term,   \* terminals
    Op,     \* calls of the manager
    Kinds,  \* what the calls may be
    Files,  \* how many files an upload has
    None

\* The session that call o makes for terminal t is named <<t, o>>.
Session == Term \X Op

\* "command" stands for every method that issues one command after a dialog;
\* "cd" is changeDirectory.
Kind == {"list", "refresh", "cd", "command", "upload"}

ASSUME ManagerAssumption ==
    /\ Kinds \subseteq Kind
    /\ Files \in Nat \ {0}
    /\ None \notin Term \cup Session

VARIABLES
    opened,    \* terminals that have been opened
    known,     \* the registry's contexts
    front,     \* the registry's active context
    disposed,  \* the extension was disposed
    conn,      \* the manager's connections
    active,    \* activeTerminalId
    rooted,    \* connections whose rootPath is known
    cell,      \* each connection's session
    pending,   \* each connection's sessionPromise
    doomed,    \* sessions that are disposed as soon as they are connected
    sock,      \* how far each session is
    call       \* the calls

terminals == <<opened, known, front, disposed>>
lookup == <<conn, active>>
sessions == <<cell, pending, doomed, sock>>
vars == <<terminals, lookup, rooted, sessions, call>>

\* A call: where it awaits, what it is, its connectionKey, the connection that
\* it has looked up, the session that it has or waits for, what it does with it
\* ("drop" the caches, take its "root", or send the "main" command), how many
\* files are left to upload; and, for the properties, the terminal it is for.
Call == [at : {"new", "dialog", "wait", "ready", "sent", "over"}, kind : Kind,
         key : Term \cup {None}, term : Term \cup {None}, sess : Session \cup {None},
         phase : {"drop", "root", "main"}, left : 0..Files, asked : Term \cup {None}]
NoCall == [at |-> "new", kind |-> "list", key |-> None, term |-> None, sess |-> None,
           phase |-> "main", left |-> 0, asked |-> None]

Init ==
    /\ opened = {} /\ known = {} /\ front = None /\ disposed = FALSE
    /\ conn = {} /\ active = None /\ rooted = {} /\ doomed = {}
    /\ cell = [t \in Term |-> None] /\ pending = [t \in Term |-> None]
    /\ sock = [s \in Session |-> "none"]
    /\ call = [o \in Op |-> NoCall]

InFlight(s) == sock[s] \in {"making", "connecting"}

\* Promise jobs run before the next event. A disposal that was attached to a
\* connect runs before the callers that waited for it go on: it is registered
\* on the promise itself, they return through ensureSession.
MustDiscard(s) == s \in doomed /\ sock[s] = "live"
\* Mutant: callers that share a connect wait for connection.session.
MustResumeWithSession(o) ==
    call[o].at = "ready" \/ (call[o].at = "wait" /\ cell[call[o].term] # None)

MustResume(o) ==
    call[o].at = "ready" \/ (call[o].at = "wait" /\ ~InFlight(call[o].sess))
JobsDrained == ~(\E s \in Session : MustDiscard(s)) /\ ~(\E o \in Op : MustResume(o))

----------------------------------------------------------------------------
\* Terminals

\* Mutant: a connect in flight is forgotten, not disposed.
DisposeConnectionsForget(ts) ==
    /\ sock' = [s \in Session |-> IF s[1] \in ts /\ cell[s[1]] = s THEN "closed" ELSE sock[s]]
    /\ cell' = [t \in Term |-> IF t \in ts THEN None ELSE cell[t]]
    /\ pending' = [t \in Term |-> IF t \in ts THEN None ELSE pending[t]]
    /\ UNCHANGED doomed

\* disposeConnection, for the connections of a set of terminals
DisposeConnections(ts) ==
    /\ sock' = [s \in Session |-> IF s[1] \in ts /\ cell[s[1]] = s THEN "closed" ELSE sock[s]]
    /\ cell' = [t \in Term |-> IF t \in ts THEN None ELSE cell[t]]
    /\ doomed' = doomed \cup ({pending[t] : t \in ts} \ {None})
    /\ pending' = [t \in Term |-> IF t \in ts THEN None ELSE pending[t]]

\* Mutant: a terminal without files leaves the Files view as it is.
SelectWithFilesOnly(t) == IF t \in conn THEN t ELSE active

selectTerminal(t) == IF t \in conn THEN t ELSE None

\* TerminalPanel.open publishes the context, and the connect command goes on
\* to tryOpenSftpFiles in the same turn: openAsset, if the asset has files.
OpenTerminal(t) ==
    /\ JobsDrained /\ ~disposed /\ t \notin opened
    /\ opened' = opened \cup {t} /\ known' = known \cup {t} /\ front' = t
    /\ \/ conn' = conn \cup {t} /\ active' = t
       \/ active' = selectTerminal(t) /\ UNCHANGED conn
    /\ UNCHANGED <<disposed, rooted, sessions, call>>

\* A panel gets the focus: setActive tells the manager.
Focus(t) ==
    /\ JobsDrained /\ ~disposed /\ t \in known /\ front # t
    /\ front' = t /\ active' = selectTerminal(t)
    /\ UNCHANGED <<opened, known, disposed, conn, rooted, sessions, call>>

\* A panel is closed: clearIfActive fires contextRemoved, so removeTerminal
\* runs, and then activeChanged if it was the active one.
Close(t) ==
    /\ JobsDrained /\ ~disposed /\ t \in known
    /\ known' = known \ {t} /\ conn' = conn \ {t}
    /\ IF t \in conn THEN DisposeConnections({t}) ELSE UNCHANGED sessions
    /\ front' = IF front = t THEN None ELSE front
    /\ active' = IF active = t \/ front = t THEN None ELSE active
    /\ UNCHANGED <<opened, disposed, rooted, call>>

\* The extension is deactivated: dispose() of the manager.
Dispose ==
    /\ JobsDrained /\ ~disposed
    /\ disposed' = TRUE
    /\ conn' = {} /\ active' = None
    /\ DisposeConnections(conn)
    /\ UNCHANGED <<opened, known, front, rooted, call>>

----------------------------------------------------------------------------
\* Calls

Goes(o, c) == call' = [call EXCEPT ![o] = c]
Ends(o) == Goes(o, [NoCall EXCEPT !.at = "over"])

\* Mutant: every caller connects a session of its own.
EnsureSessionUnshared(o, c, t) ==
    IF cell[t] # None
    THEN /\ Goes(o, [c EXCEPT !.at = "ready", !.term = t, !.sess = cell[t]])
         /\ UNCHANGED <<pending, sock>>
    ELSE /\ Goes(o, [c EXCEPT !.at = "wait", !.term = t, !.sess = <<t, o>>])
         /\ pending' = [pending EXCEPT ![t] = <<t, o>>]
         /\ sock' = [sock EXCEPT ![<<t, o>>] = "making"]

\* The session of connection t, or the one that is being connected, or a new one.
EnsureSession(o, c, t) ==
    \/ /\ cell[t] # None
       /\ Goes(o, [c EXCEPT !.at = "ready", !.term = t, !.sess = cell[t]])
       /\ UNCHANGED <<pending, sock>>
    \/ /\ cell[t] = None /\ pending[t] # None
       /\ Goes(o, [c EXCEPT !.at = "wait", !.term = t, !.sess = pending[t]])
       /\ UNCHANGED <<pending, sock>>
    \/ /\ cell[t] = None /\ pending[t] = None
       /\ Goes(o, [c EXCEPT !.at = "wait", !.term = t, !.sess = <<t, o>>])
       /\ pending' = [pending EXCEPT ![t] = <<t, o>>]
       /\ sock' = [sock EXCEPT ![<<t, o>>] = "making"]

\* What a method does first with the session of connection t.
FirstPhase(k, t) ==
    CASE k = "refresh" -> "drop"
      [] k = "list" /\ t \notin rooted -> "root"
      [] OTHER -> "main"

\* A method of the manager: requireConnection, then its first step.
Enter(o, c) ==
    LET t == IF c.key # None THEN c.key ELSE active IN
    IF t \notin conn
    THEN Ends(o) /\ UNCHANGED <<pending, sock>>
    ELSE EnsureSession(o, [c EXCEPT !.phase = FirstPhase(c.kind, t)], t)

\* A command of the Files view (on the active connection), of an edit session
\* or of a tool (by key) reaches the manager, perhaps after a dialog. The view
\* has nothing to act on without an active connection.
Ask(o) ==
    /\ JobsDrained /\ ~disposed /\ call[o].at = "new"
    /\ \E k \in Kinds, t \in known \cup {None} :
          LET c == [NoCall EXCEPT !.kind = k, !.key = t,
                                  !.left = IF k = "upload" THEN Files ELSE 1,
                                  !.asked = IF t # None THEN t ELSE active] IN
          /\ t = None => active # None
          /\ k = "cd" => t = None
          /\ IF k \in {"command", "upload"}
             THEN Goes(o, [c EXCEPT !.at = "dialog"]) /\ UNCHANGED <<pending, sock>>
             ELSE Enter(o, c)
    /\ UNCHANGED <<terminals, lookup, rooted, cell, doomed>>

\* The dialog was answered or the local file read; or it was cancelled, or
\* could not be read.
Answered(o) ==
    /\ JobsDrained /\ call[o].at = "dialog"
    /\ \/ Enter(o, call[o])
       \/ Ends(o) /\ UNCHANGED <<pending, sock>>
    /\ UNCHANGED <<terminals, lookup, rooted, cell, doomed>>

\* The caller goes on with the session. A failed connect fails its callers;
\* refreshDirectory has dropped the caches and lists; realpath('.') is the path
\* that the session has in memory, alive or not, and the listing of the root
\* follows; a session that is closed by now refuses the command.
Resume(o) ==
    LET c == call[o] IN
    /\ MustResume(o) /\ ~\E s \in Session : MustDiscard(s)
    /\ \/ /\ c.phase = "drop" /\ sock[c.sess] # "failed"
          /\ Enter(o, [c EXCEPT !.kind = "list"]) /\ UNCHANGED rooted
       \/ /\ c.phase = "root" /\ sock[c.sess] # "failed"
          /\ rooted' = rooted \cup {c.term}
          /\ EnsureSession(o, [c EXCEPT !.phase = "main"], c.term)
       \/ /\ c.phase = "main" /\ sock[c.sess] = "live"
          /\ Goes(o, [c EXCEPT !.at = "sent"]) /\ UNCHANGED <<rooted, pending, sock>>
       \/ /\ sock[c.sess] = "failed" \/ (c.phase = "main" /\ sock[c.sess] = "closed")
          /\ Ends(o) /\ UNCHANGED <<rooted, pending, sock>>
    /\ UNCHANGED <<terminals, lookup, cell, doomed>>

\* What a method does with the answer to its command: changeDirectory has the new
\* root, an upload command goes on with its next file.
CommandAnswered(o) ==
    LET c == call[o] IN
    /\ rooted' = IF c.kind = "cd" THEN rooted \cup {c.term} ELSE rooted
    /\ IF c.left > 1 THEN Goes(o, [c EXCEPT !.at = "dialog", !.left = @ - 1]) ELSE Ends(o)

\* A session that is closed answers none of its commands.
CommandEnds(o) ==
    /\ JobsDrained /\ call[o].at = "sent"
    /\ \/ sock[call[o].sess] = "live" /\ CommandAnswered(o)
       \/ Ends(o) /\ UNCHANGED rooted
    /\ UNCHANGED <<terminals, lookup, sessions>>

----------------------------------------------------------------------------
\* Sessions

\* createSession has made the client.
Made(s) ==
    /\ JobsDrained /\ sock[s] = "making"
    /\ sock' = [sock EXCEPT ![s] = "connecting"]
    /\ UNCHANGED <<terminals, lookup, rooted, cell, pending, doomed, call>>

\* session.connect() is done: ensureSession keeps the session, on a connection
\* that may have been removed, and clears the promise if it is still its own.
Connected(s) ==
    /\ JobsDrained /\ sock[s] = "connecting"
    /\ sock' = [sock EXCEPT ![s] = "live"]
    /\ cell' = [cell EXCEPT ![s[1]] = s]
    /\ pending' = [pending EXCEPT ![s[1]] = IF @ = s THEN None ELSE @]
    /\ UNCHANGED <<terminals, lookup, rooted, doomed, call>>

\* createSession or connect() failed: the session is disposed.
ConnectFails(s) ==
    /\ JobsDrained /\ InFlight(s)
    /\ sock' = [sock EXCEPT ![s] = "failed"]
    /\ pending' = [pending EXCEPT ![s[1]] = IF @ = s THEN None ELSE @]
    /\ UNCHANGED <<terminals, lookup, rooted, cell, doomed, call>>

\* The disposal that disposeConnection attached to the promise.
Discard(s) ==
    /\ MustDiscard(s)
    /\ sock' = [sock EXCEPT ![s] = "closed"]
    /\ UNCHANGED <<terminals, lookup, rooted, cell, pending, doomed, call>>

\* The server closes the websocket; the connection keeps the session.
ServerCloses(s) ==
    /\ JobsDrained /\ sock[s] = "live"
    /\ sock' = [sock EXCEPT ![s] = "closed"]
    /\ UNCHANGED <<terminals, lookup, rooted, cell, pending, doomed, call>>

----------------------------------------------------------------------------

Advance(o) == Answered(o) \/ Resume(o) \/ CommandEnds(o)
Settle(s) == Made(s) \/ Connected(s) \/ ConnectFails(s) \/ Discard(s)

Next ==
    \/ \E t \in Term : OpenTerminal(t) \/ Focus(t) \/ Close(t)
    \/ Dispose
    \/ \E o \in Op : Ask(o) \/ Advance(o)
    \/ \E s \in Session : Settle(s) \/ ServerCloses(s)

Spec == Init /\ [][Next]_vars

\* Dialogs, file reads, connects and SFTP commands end in some way.
FairSpec ==
    Spec /\ (\A o \in Op : WF_vars(Advance(o))) /\ (\A s \in Session : WF_vars(Settle(s)))

----------------------------------------------------------------------------
\* Properties

TypeOK ==
    /\ opened \subseteq Term /\ known \subseteq opened /\ front \in known \cup {None}
    /\ disposed \in BOOLEAN /\ conn \subseteq Term /\ active \in Term \cup {None}
    /\ rooted \subseteq Term /\ doomed \subseteq Session
    /\ cell \in [Term -> Session \cup {None}] /\ pending \in [Term -> Session \cup {None}]
    /\ sock \in [Session -> {"none", "making", "connecting", "failed", "live", "closed"}]
    /\ call \in [Op -> Call]

\* Every websocket has an owner: a session that is alive or being connected is
\* the one of a registered connection, or is disposed as soon as it connects.
\* Terminals are removed during connects, and calls outlive their terminals.
SessionsBelong ==
    \A s \in Session :
        /\ InFlight(s) => s \in doomed \/ (s[1] \in conn /\ pending[s[1]] = s)
        /\ sock[s] = "live" => s \in doomed \/ (s[1] \in conn /\ cell[s[1]] = s)

\* The Files view acts on the terminal that the registry calls active, or on
\* none if that terminal has no files.
FilesFollowTheTerminal == active = IF front \in conn THEN front ELSE None

Sends(o) == call[o].at # "sent" /\ call'[o].at = "sent"
Waits(o) == call[o].at # "wait" /\ call'[o].at = "wait"

\* A call that has waited for a session sends nothing once its terminal is gone.
RemovedTerminalsAreSilent == [][\A o \in Op : Sends(o) => call'[o].term \in conn']_vars

\* A call never waits for a connect that is over: after a failure the next call
\* connects anew.
FinishedConnectsAreNotJoined ==
    [][\A o \in Op : Waits(o) => sock'[call'[o].sess] \in {"making", "connecting"}]_vars

\* Nobody waits in vain: a call waits for a connect that has begun, and that its
\* connection or the disposal of its terminal still follows until it is over; a call
\* goes on only with a session that has been connected.
WaitsAreServed ==
    \A o \in Op :
        LET s == call[o].sess
            settled == sock[s] \in {"live", "closed", "failed"}
            followed == s \in doomed \/ pending[call[o].term] = s
        IN /\ call[o].at = "wait" => settled \/ (InFlight(s) /\ followed)
           /\ call[o].at \in {"ready", "sent"} => sock[s] \in {"live", "closed"}

\* Every call comes to an end, whatever happens to its terminal.
CallsSettle == \A o \in Op : call[o].at # "new" ~> call[o].at = "over"

\* The design's promise of the upload command, and of every command that names
\* a remote path: it is carried out where the user saw that path.
CommandsGoWhereAsked == \A o \in Op : call[o].at = "sent" => call[o].term = call[o].asked

=============================================================================
