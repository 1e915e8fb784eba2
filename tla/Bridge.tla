------------------------------- MODULE Bridge -------------------------------
(***************************************************************************)
(* The MCP bridges of several windows: the lazy start of the runtime       *)
(* (extension.ts, mcpRuntime.ts) and BridgeServer (src/src/mcp).  Each     *)
(* window sweeps the registry of dead windows' records, listens on a port  *)
(* of this machine, publishes its own record, refreshes it, and withdraws  *)
(* it when it is disposed.  The hub, another process, picks a record, and  *)
(* calls the window at its port with its token.                            *)
(*                                                                         *)
(* Windows, the registry and the hub share nothing but files and ports: a  *)
(* window may die at any step, and its port and pid are then used again.   *)
(* The registry file of a window is named after a fresh bridge id; records *)
(* of other plugins are not touched and not modelled.                      *)
(*                                                                         *)
(* The publisher of the records is a package that is not part of the       *)
(* repository.  Of it the model assumes what its names say: publish and    *)
(* heartbeat write the window's record, as a whole, or fail; unpublish     *)
(* removes it, or fails.  In particular a heartbeat that was called before *)
(* unpublish may write the record after it.                                *)
(***************************************************************************)
EXTENDS Naturals

CONSTANTS Windows,      \* extension hosts, each opened once
          Requests,     \* calls of the hub, each made once
          Pids, Ports,  \* what the operating system hands out, and reuses
          MaxChanges,   \* bound on how often the number of targets changes
          None          \* no record, port, pid or window

Counts == 0..MaxChanges
Record == [pid : Pids, port : Ports, targets : Counts]

ASSUME BridgeAssumption ==
    /\ MaxChanges \in Nat
    /\ None \notin Pids \cup Ports \cup Windows \cup Record

VARIABLES win,          \* the state of each window
          registry,     \* ~/.at-series/bridges: the record of each window
          targets,      \* connected terminals of each window
          request       \* the calls of the hub

vars == <<win, registry, targets, request>>

Starts == {"off", "loading", "sweeping", "listening", "reading", "publishing", "up", "failed"}
Stops == {"no", "unpublishing", "closing", "done"}
\* Ticks of the 30 s timer: a record is rewritten after 60 s (two ticks, give or
\* take what reading the targets takes) and so by the third tick.
ForceWriteTicks == 2
Fresh == ForceWriteTicks + 1

NoWindow == [proc |-> "closed", pid |-> None, start |-> "off", stop |-> "no", todo |-> {},
             stale |-> {}, port |-> None, serves |-> FALSE, publisher |-> FALSE, timer |-> FALSE,
             cut |-> FALSE,
             beat |-> "idle", seen |-> 0, last |-> 0, age |-> 0]
NoRequest == [step |-> "idle", port |-> None, token |-> None, at |-> None]

Init ==
    /\ win = [w \in Windows |-> NoWindow]
    /\ registry = [w \in Windows |-> None]
    /\ targets = [w \in Windows |-> 0]
    /\ request = [q \in Requests |-> NoRequest]

Alive(w) == win[w].proc = "alive"
Serves(w) == Alive(w) /\ win[w].serves
PidsInUse == {win[w].pid : w \in {v \in Windows : Alive(v)}}
PortsInUse == {win[w].port : w \in {v \in Windows : Serves(v)}}
Become(w, r) == win' = [win EXCEPT ![w] = r]
Keep == UNCHANGED <<targets, request>>

-----------------------------------------------------------------------------
(* Windows and what the operating system does                               *)

Open(w) ==
    /\ win[w].proc = "closed"
    /\ \E pid \in Pids \ PidsInUse : Become(w, [NoWindow EXCEPT !.proc = "alive", !.pid = pid])
    /\ UNCHANGED registry /\ Keep

\* The extension host ends, by a crash or because its window is closed.
Die(w) ==
    /\ Alive(w)
    /\ Become(w, [NoWindow EXCEPT !.proc = "dead"])
    /\ request' = [q \in Requests |-> IF request[q].at = w THEN [NoRequest EXCEPT !.step = "answered"]
                                      ELSE request[q]]
    /\ UNCHANGED <<registry, targets>>

\* A terminal connects or goes away.
TargetsChange(w) ==
    /\ Alive(w) /\ targets[w] < MaxChanges
    /\ targets' = [targets EXCEPT ![w] = @ + 1]
    /\ UNCHANGED <<win, registry, request>>

-----------------------------------------------------------------------------
(* ensureMcpRuntime and BridgeServer.start                                  *)

\* The first window with a bastion, a saved one, or a refresh: later calls
\* return the first start, also when it has failed.
EnsureMcpRuntime(w) ==
    /\ Alive(w) /\ win[w].start = "off" /\ win[w].stop = "no"
    /\ Become(w, [win[w] EXCEPT !.start = "loading"])
    /\ UNCHANGED registry /\ Keep

\* Loading the runtime fails; or the window has been disposed; or the sweep
\* begins with the names of the records there are, none if they cannot be listed.
StartMcpRuntime(w) ==
    /\ Alive(w) /\ win[w].start = "loading"
    /\ \/ Become(w, [win[w] EXCEPT !.start = "failed"])
       \/ /\ win[w].stop = "no"
          /\ \E names \in {{}, {d \in Windows : registry[d] # None}} :
                Become(w, [win[w] EXCEPT !.start = "sweeping", !.todo = names,
                                         !.stale = {d \in names : registry[d].pid \notin PidsInUse}])
    /\ UNCHANGED registry /\ Keep

\* Mutant: a process that cannot be signalled counts as alive, whatever the reason.
SweepNothing(w, d) ==
    /\ Alive(w) /\ win[w].start = "sweeping" /\ d \in win[w].todo
    /\ LET swept == [win[w] EXCEPT !.todo = @ \ {d}] IN
       Become(w, IF registry[d] # None /\ registry[d].pid \notin PidsInUse THEN swept
                 ELSE [swept EXCEPT !.stale = @ \ {d}])
    /\ UNCHANGED registry /\ Keep

\* gcStaleBridgeRecords, one record: its pid is dead, it is removed; or it is left
\* there, because its pid is alive, perhaps of another process, or because it cannot
\* be read or removed; or it is gone already.
Sweep(w, d) ==
    /\ Alive(w) /\ win[w].start = "sweeping" /\ d \in win[w].todo
    /\ LET swept == [win[w] EXCEPT !.todo = @ \ {d}]
           passed == [win[w] EXCEPT !.todo = @ \ {d}, !.stale = @ \ {d}] IN
       \/ /\ registry[d] # None /\ registry[d].pid \notin PidsInUse
          /\ registry' = [registry EXCEPT ![d] = None]
          /\ Become(w, swept)
       \/ registry[d] # None /\ Become(w, passed) /\ UNCHANGED registry
       \/ registry[d] = None /\ Become(w, swept) /\ UNCHANGED registry
    /\ Keep

\* The sweep is over: createServer and listen.
Listen(w) ==
    /\ Alive(w) /\ win[w].start = "sweeping" /\ win[w].todo = {}
    /\ \/ \E port \in Ports \ PortsInUse :
              Become(w, [win[w] EXCEPT !.start = "listening", !.port = port, !.serves = TRUE,
                                      !.stale = {}])
       \/ Become(w, [win[w] EXCEPT !.start = "failed", !.stale = {}])
    /\ UNCHANGED registry /\ Keep

\* The server listens; after a dispose there is none whose address could be read.
Listening(w) ==
    /\ Alive(w) /\ win[w].start = "listening"
    /\ Become(w, [win[w] EXCEPT !.start = IF win[w].serves THEN "reading" ELSE "failed"])
    /\ UNCHANGED registry /\ Keep

\* readConnectedTargets; the record to publish names the port that was listened on.
ReadTargets(w) ==
    /\ Alive(w) /\ win[w].start = "reading"
    /\ Become(w, [win[w] EXCEPT !.start = "publishing", !.publisher = TRUE, !.seen = targets[w]])
    /\ UNCHANGED registry /\ Keep

\* publish has written the record, and the heartbeat is armed; or it has
\* failed, and rollbackFailedStart closes the server.
Publish(w) ==
    /\ Alive(w) /\ win[w].start = "publishing"
    /\ \/ /\ registry' = [registry EXCEPT ![w] = [pid |-> win[w].pid, port |-> win[w].port,
                                                  targets |-> win[w].seen]]
          /\ Become(w, [win[w] EXCEPT !.start = "up", !.timer = TRUE, !.last = win[w].seen,
                                      !.seen = 0])
       \/ /\ Become(w, [win[w] EXCEPT !.start = "failed", !.publisher = FALSE, !.serves = FALSE,
                                      !.seen = 0])
          /\ UNCHANGED registry
    /\ Keep

-----------------------------------------------------------------------------
(* tickHeartbeat                                                            *)

\* The age of the record in ticks; None once a write of it has failed.
Later(age) == IF age = None THEN None ELSE age + 1

\* Mutant: an unchanged number of targets is never written again.
TickIdle(w) ==
    /\ Alive(w) /\ win[w].timer /\ win[w].publisher /\ win[w].beat = "idle"
    /\ LET aged == [win[w] EXCEPT !.age = Later(@)] IN
       Become(w, IF targets[w] = win[w].last THEN aged
                 ELSE [aged EXCEPT !.beat = "writing", !.seen = targets[w]])
    /\ UNCHANGED registry /\ Keep

\* Another 30 s have passed; the last beat is over by then.  Without a publisher
\* the tick does nothing; nor if nothing has changed and the record is fresh.
Tick(w) ==
    /\ Alive(w) /\ win[w].timer /\ win[w].publisher /\ win[w].beat = "idle"
    /\ LET aged == [win[w] EXCEPT !.age = Later(@)] IN
       \/ /\ targets[w] = win[w].last /\ aged.age \in 0..ForceWriteTicks \cup {None}
          /\ Become(w, aged)
       \/ /\ targets[w] # win[w].last \/ aged.age \in {ForceWriteTicks, Fresh, None}
          /\ Become(w, [aged EXCEPT !.beat = "writing", !.seen = targets[w]])
    /\ UNCHANGED registry /\ Keep

\* The record is rewritten, also when it has been withdrawn meanwhile; or that fails.
Beat(w) ==
    /\ Alive(w) /\ win[w].beat = "writing"
    /\ \/ /\ registry' = [registry EXCEPT ![w] = [pid |-> win[w].pid, port |-> win[w].port,
                                                  targets |-> win[w].seen]]
          /\ Become(w, [win[w] EXCEPT !.beat = "idle", !.last = win[w].seen, !.seen = 0,
                                      !.age = 0])
       \/ /\ Become(w, [win[w] EXCEPT !.beat = "idle", !.seen = 0, !.age = None])
          /\ UNCHANGED registry
    /\ Keep

-----------------------------------------------------------------------------
(* cleanup.dispose and BridgeServer.dispose                                 *)

Serving(w) == {q \in Requests : request[q].at = w}

\* A step of the window that writes its record, sooner or later, is under way: a
\* dispose does not wait for it.
Writing(w) == win[w].start \in Starts \ {"off", "up", "failed"} \/ win[w].beat = "writing"

\* Mutant: the server is closed before the record is withdrawn.
DisposeServerFirst(w) ==
    /\ Alive(w) /\ win[w].stop = "no"
    /\ LET r == [win[w] EXCEPT !.timer = FALSE, !.publisher = FALSE, !.serves = FALSE, !.age = 0,
                               !.cut = Writing(w)]
       IN Become(w, [r EXCEPT !.stop = IF win[w].publisher THEN "unpublishing" ELSE "closing"])
    /\ UNCHANGED registry /\ Keep

\* The timer goes at once; then the record, if there is a publisher; then the
\* server.  A start or a heartbeat that is under way goes on.
Dispose(w) ==
    /\ Alive(w) /\ win[w].stop = "no"
    /\ LET r == [win[w] EXCEPT !.timer = FALSE, !.publisher = FALSE, !.age = 0,
                               !.cut = Writing(w)]
       IN Become(w, IF win[w].publisher THEN [r EXCEPT !.stop = "unpublishing"]
                    ELSE [r EXCEPT !.stop = "closing", !.serves = FALSE])
    /\ UNCHANGED registry /\ Keep

\* unpublish removes the record, or fails, and then the server stays open.
Unpublished(w) ==
    /\ Alive(w) /\ win[w].stop = "unpublishing"
    /\ \/ /\ registry' = [registry EXCEPT ![w] = None]
          /\ Become(w, [win[w] EXCEPT !.stop = "closing", !.serves = FALSE])
       \/ Become(w, [win[w] EXCEPT !.stop = "done"]) /\ UNCHANGED registry
    /\ Keep

\* server.close resolves when the last answer has been sent.
Closed(w) ==
    /\ Alive(w) /\ win[w].stop = "closing" /\ Serving(w) = {}
    /\ Become(w, [win[w] EXCEPT !.stop = "done"])
    /\ UNCHANGED registry /\ Keep

-----------------------------------------------------------------------------
(* Requests of the hub                                                      *)

\* The hub has read the record of window w and will call its port with its token.
Call(q) ==
    /\ request[q].step = "idle"
    /\ \E w \in Windows :
          /\ registry[w] # None
          /\ request' = [request EXCEPT ![q] = [step |-> "sent", port |-> registry[w].port,
                                                token |-> w, at |-> None]]
    /\ UNCHANGED <<win, registry, targets>>

Answer(q) == request' = [request EXCEPT ![q] = [NoRequest EXCEPT !.step = "answered"]]

\* Mutant: any token is accepted.
ReceiveAny(q) ==
    /\ request[q].step = "sent"
    /\ \E w \in Windows : /\ Serves(w) /\ win[w].port = request[q].port
                          /\ request' = [request EXCEPT ![q].step = "body", ![q].at = w]
    /\ UNCHANGED <<win, registry, targets>>

\* Nobody listens at the port, or a window does whose token is another one
\* (401, before the body is read), or the window that the hub has meant.
Receive(q) ==
    /\ request[q].step = "sent"
    /\ LET at == {w \in Windows : Serves(w) /\ win[w].port = request[q].port} IN
       \/ at \subseteq Windows \ {request[q].token} /\ Answer(q)
       \/ /\ request[q].token \in at
          /\ request' = [request EXCEPT ![q].step = "body", ![q].at = request[q].token]
    /\ UNCHANGED <<win, registry, targets>>

\* readLimitedBody: 413; health, the tool list, an unknown path or a call that
\* does not parse (404, 405, 400, 422) are answered; a tool is called.
ReadBody(q) ==
    /\ request[q].step = "body"
    /\ \/ Answer(q)
       \/ request' = [request EXCEPT ![q].step = "tool"]
    /\ UNCHANGED <<win, registry, targets>>

\* Mutant: a tool that fails is left without an answer.
InvokedOrLost(q) ==
    /\ request[q].step = "tool"
    /\ \/ Answer(q) \/ request' = [request EXCEPT ![q].step = "unanswered"]
    /\ UNCHANGED <<win, registry, targets>>

\* The tool has returned, was cancelled (499) or has failed (500).
Invoked(q) ==
    /\ request[q].step = "tool"
    /\ Answer(q)
    /\ UNCHANGED <<win, registry, targets>>

Work(w) ==
    \/ StartMcpRuntime(w) \/ Listen(w) \/ Listening(w) \/ ReadTargets(w) \/ Publish(w)
    \/ \E d \in Windows : Sweep(w, d)
    \/ Beat(w)

Stopping(w) == Unpublished(w) \/ Closed(w)

Serve(q) == Receive(q) \/ ReadBody(q) \/ Invoked(q)

Next ==
    \/ \E w \in Windows : \/ Open(w) \/ Die(w) \/ TargetsChange(w) \/ EnsureMcpRuntime(w)
                          \/ Work(w) \/ Tick(w) \/ Dispose(w) \/ Stopping(w)
    \/ \E q \in Requests : Call(q) \/ Serve(q)

Spec == Init /\ [][Next]_vars

\* Withdrawing a record returns, and so do tools: the terminal tools have deadlines
\* (see AgentTools), for the SFTP tools it is an assumption.
FairSpec ==
    /\ Spec
    /\ \A w \in Windows : WF_vars(Stopping(w))
    /\ \A q \in Requests : WF_vars(Serve(q))

-----------------------------------------------------------------------------
(* Properties                                                               *)

\* The types.  The age of a record says more: as long as no write of it has
\* failed, it is at most three ticks of the heartbeat old.
TypeOK ==
    /\ \A w \in Windows :
          /\ win[w].proc \in {"closed", "alive", "dead"} /\ win[w].pid \in Pids \cup {None}
          /\ win[w].start \in Starts /\ win[w].stop \in Stops
          /\ win[w].todo \subseteq Windows /\ win[w].stale \subseteq Windows
          /\ win[w].port \in Ports \cup {None}
          /\ {win[w].serves, win[w].publisher, win[w].timer, win[w].cut} \subseteq BOOLEAN
          /\ win[w].beat \in {"idle", "writing"}
          /\ win[w].seen \in Counts /\ win[w].last \in Counts /\ win[w].age \in 0..Fresh \cup {None}
          /\ registry[w] \in Record \cup {None}
    /\ targets \in [Windows -> Counts]
    /\ request \in [Requests -> [step : {"idle", "sent", "body", "tool", "answered"},
                                 port : Ports \cup {None}, token : Windows \cup {None},
                                 at : Windows \cup {None}]]

\* A published record is served: the window that wrote it, if it lives, listens
\* at that port, up to the last moment of its dispose.  And a window that is up
\* has its record there: no sweep of another window has taken it.  Unless the
\* window was disposed while its bridge was starting or a heartbeat was under way.
PublishedMeansServed ==
    \A w \in Windows :
        (Alive(w) /\ ~win[w].cut) =>
            /\ (registry[w] # None => win[w].serves /\ registry[w].port = win[w].port)
            /\ (win[w].start = "up" /\ win[w].stop = "no" => registry[w] # None)

\* The same without the proviso, as the plan has it: "On dispose: clear
\* heartbeat, unpublish, close server".  It does not hold: see the README.
DisposedMeansGone ==
    \A w \in Windows :
        (Alive(w) /\ win[w].stop = "done" /\ registry[w] # None) => win[w].serves

\* A window that starts sweeps the registry: when it listens, the records of the
\* processes that were dead when it started are gone, each of them, but for those
\* that it could not read or remove or whose pid was in use again when it looked.
SweptOnStart ==
    [][\A w \in Windows :
          (win[w].start = "sweeping" /\ win'[w].start = "listening") =>
              \A d \in win[w].stale : registry[d] = None]_vars

\* A tool is called only in the window whose record the hub has read, also
\* when that window has died and another one listens at its port.
CallsReachTheirWindow ==
    \A q \in Requests : request[q].at # None => request[q].at = request[q].token

\* A dispose waits for calls that are being worked on, and for nothing else: a call
\* that counts as served by a window is in that window's hands, which is alive, and
\* one that is over is in nobody's, also when a window has died with it.
ServedMeansInWork ==
    \A q \in Requests :
        /\ request[q].at # None => Alive(request[q].at)
        /\ request[q].at # None <=> request[q].step \in {"body", "tool"}

\* Every call of the hub is answered, and every dispose ends, which waits for
\* the answers of the calls the window serves.
EverythingSettles ==
    /\ \A q \in Requests : request[q].step = "sent" ~> request[q].step = "answered"
    /\ \A w \in Windows : win[w].stop # "no" ~> win[w].stop \in {"no", "done"}

=============================================================================
