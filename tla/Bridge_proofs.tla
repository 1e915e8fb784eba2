----------------------------- MODULE Bridge_proofs -----------------------------
(***************************************************************************)
(* Theorems about Bridge, for every set of windows, of pids and ports that *)
(* are used again, and of calls of the hub.                                *)
(***************************************************************************)
EXTENDS Bridge, TLAPS

----------------------------------------------------------------------------
\* The inductive invariant.

WinRec == [proc : {"closed", "alive", "dead"}, pid : Pids \cup {None}, start : Starts, stop : Stops,
           todo : SUBSET Windows, stale : SUBSET Windows, port : Ports \cup {None},
           serves : BOOLEAN, publisher : BOOLEAN, timer : BOOLEAN, cut : BOOLEAN,
           beat : {"idle", "writing"}, seen : Counts, last : Counts, age : 0..Fresh \cup {None}]
ReqRec == [step : {"idle", "sent", "body", "tool", "answered"}, port : Ports \cup {None},
           token : Windows \cup {None}, at : Windows \cup {None}]

Types ==
    /\ win \in [Windows -> WinRec]
    /\ registry \in [Windows -> Record \cup {None}]
    /\ targets \in [Windows -> Counts]
    /\ request \in [Requests -> ReqRec]

\* Steps of a start at which the server has been made.
Bound == {"listening", "reading", "publishing"}
UnderWay == Starts \ {"off", "up", "failed"}

\* What a window r has to do with its record in the registry.  Its pid is the
\* record's, so that no sweep takes it; the server is there from the listening to
\* the end of the dispose; a dispose during the start or a heartbeat cuts it.
Fits(r, record) ==
    /\ r.beat = "idle" => r.age \in 0..ForceWriteTicks \cup {None}
    /\ record # None => r.proc # "closed"
    /\ r.proc = "alive" =>
          /\ r.pid \in Pids
          /\ r.start \in Bound \cup {"up"} => r.port \in Ports
          /\ record # None => r.start = "up" /\ record.pid = r.pid
          /\ r.timer \/ r.beat = "writing" => r.start = "up"
          /\ r.start \in UnderWay \/ r.timer \/ r.beat = "writing" => r.stop = "no" \/ r.cut
          /\ r.cut => r.stop # "no"
          /\ ~r.cut => /\ r.start \in Bound => r.serves
                       /\ r.start = "publishing" => r.publisher
                       /\ record # None => r.serves /\ record.port = r.port
          /\ r.start = "up" /\ r.stop = "no" => r.publisher /\ record # None

\* The sweep of a window: the stale records are those of dead windows, and of
\* those it has been through none is left.
Swept(w) ==
    win[w].start = "sweeping" =>
        \A d \in win[w].stale : /\ win[d].proc = "dead"
                                /\ d \in win[w].todo \/ registry[d] = None

BInv ==
    /\ Types
    /\ \A w \in Windows : Fits(win[w], registry[w]) /\ Swept(w)
    /\ CallsReachTheirWindow

----------------------------------------------------------------------------
\* A step of one window.

LEMMA WindowStep ==
    ASSUME BInv, NEW w \in Windows, NEW r \in WinRec, Become(w, r), win[w].proc # "dead",
           registry' \in [Windows -> Record \cup {None}],
           \A v \in Windows \ {w} : \/ registry'[v] = registry[v]
                                    \/ registry'[v] = None /\ ~Alive(v),
           targets' \in [Windows -> Counts], request' \in [Requests -> ReqRec],
           \A q \in Requests : request'[q].at # None => request'[q].at = request'[q].token,
           Fits(r, registry'[w]),
           r.start = "sweeping" => \A d \in r.stale : /\ win[d].proc = "dead"
                                                      /\ d \in r.todo \/ registry'[d] = None
    PROVE  BInv'
  <1>1. /\ win' \in [Windows -> WinRec] /\ win'[w] = r
        /\ \A v \in Windows \ {w} : win'[v] = win[v]
    BY DEF BInv, Types, Become
  <1>2. Types'
    BY <1>1 DEF Types
  <1>3. \A v \in Windows : Fits(win'[v], registry'[v])
    <2> TAKE v \in Windows
    <2>1. CASE v = w
      BY <2>1, <1>1
    <2>2. CASE v # w
      <3>1. Fits(win[v], registry[v]) /\ win'[v] = win[v]
        BY <2>2, <1>1 DEF BInv
      <3>2. CASE registry'[v] = registry[v]
        BY <3>1, <3>2
      <3>3. CASE registry'[v] = None /\ ~Alive(v)
        BY <3>1, <3>3 DEF Fits, Alive
      <3> QED BY <2>2, <3>2, <3>3
    <2> QED BY <2>1, <2>2
  <1>4. ASSUME NEW v \in Windows, NEW d \in Windows, d # w, win[d].proc = "dead",
               d \in win[v].todo \/ registry[d] = None
        PROVE  /\ win'[d].proc = "dead"
               /\ d \in win[v].todo \/ registry'[d] = None
    BY <1>1, <1>4
  <1>5. \A v \in Windows : Swept(v)'
    <2> SUFFICES ASSUME NEW v \in Windows, win'[v].start = "sweeping", NEW d \in win'[v].stale
                 PROVE  win'[d].proc = "dead" /\ (d \in win'[v].todo \/ registry'[d] = None)
      BY DEF Swept
    <2>1. win'[v].stale \subseteq Windows
      BY <1>1 DEF WinRec
    <2>2. CASE v = w
      <3>1. win[d].proc = "dead" /\ (d \in r.todo \/ registry'[d] = None)
        BY <2>2, <1>1
      <3> QED BY <3>1, <2>1, <2>2, <1>1
    <2>3. CASE v # w
      <3>1. win'[v] = win[v] /\ Swept(v)
        BY <2>3, <1>1 DEF BInv
      <3>2. win[d].proc = "dead" /\ (d \in win[v].todo \/ registry[d] = None)
        BY <3>1 DEF Swept
      <3> QED BY <3>1, <3>2, <2>1, <1>4
    <2> QED BY <2>2, <2>3
  <1> QED BY <1>2, <1>3, <1>5 DEF BInv, CallsReachTheirWindow

\* The same when it touches nothing but its own state.
LEMMA OwnStep ==
    ASSUME BInv, NEW w \in Windows, NEW r \in WinRec, Become(w, r), win[w].proc # "dead",
           UNCHANGED registry, Keep,
           Fits(r, registry[w]),
           r.start = "sweeping" => \A d \in r.stale : /\ win[d].proc = "dead"
                                                      /\ d \in r.todo \/ registry[d] = None
    PROVE  BInv'
  BY WindowStep DEF BInv, Types, Keep, CallsReachTheirWindow

\* The same when it writes its own record.
LEMMA RecordStep ==
    ASSUME BInv, NEW w \in Windows, NEW r \in WinRec, Become(w, r), win[w].proc # "dead",
           NEW record \in Record \cup {None}, registry' = [registry EXCEPT ![w] = record], Keep,
           Fits(r, record), r.start # "sweeping"
    PROVE  BInv'
  <1>1. /\ registry' \in [Windows -> Record \cup {None}] /\ registry'[w] = record
        /\ \A v \in Windows \ {w} : registry'[v] = registry[v]
    BY DEF BInv, Types
  <1>2. targets' \in [Windows -> Counts] /\ request' \in [Requests -> ReqRec]
    BY DEF BInv, Types, Keep
  <1>3. \A q \in Requests : request'[q].at # None => request'[q].at = request'[q].token
    BY DEF BInv, CallsReachTheirWindow, Keep
  <1> QED BY <1>1, <1>2, <1>3, WindowStep

LEMMA WindowFacts ==
    ASSUME BInv, NEW w \in Windows
    PROVE  win[w] \in WinRec /\ Fits(win[w], registry[w]) /\ Swept(w)
  BY DEF BInv, Types

\* A pid that no process has is not that of a window's own record.
LEMMA StaleIsDead ==
    ASSUME BInv, NEW d \in Windows, registry[d] # None, registry[d].pid \notin PidsInUse
    PROVE  win[d].proc = "dead"
  <1>1. win[d] \in WinRec /\ Fits(win[d], registry[d])
    BY WindowFacts
  <1>2. ~Alive(d)
    BY <1>1 DEF Fits, Alive, PidsInUse
  <1> QED BY <1>1, <1>2 DEF Fits, Alive, WinRec

LEMMA BlankTyped ==
    /\ NoWindow \in WinRec /\ NoRequest \in ReqRec
    /\ 0 \in Counts /\ 0 \in 0..Fresh \cup {None} /\ 0 \in 0..ForceWriteTicks
  <1>1. 0 \in Counts /\ 0 \in 0..Fresh \cup {None} /\ 0 \in 0..ForceWriteTicks
    BY BridgeAssumption DEF Counts, Fresh, ForceWriteTicks
  <1>2. NoWindow \in WinRec
    BY <1>1 DEF NoWindow, WinRec, Starts, Stops
  <1>3. NoRequest \in ReqRec
    BY DEF NoRequest, ReqRec
  <1> QED BY <1>1, <1>2, <1>3

----------------------------------------------------------------------------
\* The start.

LEMMA OpenKeeps ==
    ASSUME BInv, NEW w \in Windows, Open(w)
    PROVE  BInv'
  <1>1. PICK pid \in Pids : Become(w, [NoWindow EXCEPT !.proc = "alive", !.pid = pid])
    BY DEF Open
  <1> DEFINE r == [NoWindow EXCEPT !.proc = "alive", !.pid = pid]
  <1>2. win[w].proc = "closed" /\ UNCHANGED registry /\ Keep
    BY DEF Open
  <1>3. registry[w] = None
    BY <1>2, WindowFacts DEF Fits
  <1>4. r \in WinRec /\ r.start = "off"
    BY BlankTyped DEF NoWindow, WinRec
  <1>5. Fits(r, registry[w])
    BY <1>3 DEF Fits, NoWindow, Bound, UnderWay, ForceWriteTicks
  <1> HIDE DEF r
  <1> QED BY <1>1, <1>2, <1>4, <1>5, OwnStep DEF r

LEMMA StartKeeps ==
    ASSUME BInv, NEW w \in Windows,
           EnsureMcpRuntime(w) \/ StartMcpRuntime(w) \/ Listen(w) \/ Listening(w) \/ ReadTargets(w)
    PROVE  BInv'
  <1>1. win[w] \in WinRec /\ Fits(win[w], registry[w]) /\ Swept(w)
    BY WindowFacts
  <1>2. /\ win[w].proc = "alive" /\ UNCHANGED registry /\ Keep
        /\ registry[w] \in Record \cup {None}
    BY DEF EnsureMcpRuntime, StartMcpRuntime, Listen, Listening, ReadTargets, Alive, BInv, Types
  <1>3. CASE EnsureMcpRuntime(w)
    <2> DEFINE r == [win[w] EXCEPT !.start = "loading"]
    <2>1. Become(w, r) /\ win[w].start = "off" /\ win[w].stop = "no"
      BY <1>3 DEF EnsureMcpRuntime
    <2>2. r \in WinRec /\ r.start # "sweeping"
      BY <1>1 DEF WinRec, Starts
    <2>3. Fits(r, registry[w])
      BY <2>1, <1>1 DEF Fits, Bound, UnderWay, WinRec
    <2> HIDE DEF r
    <2> QED BY <2>1, <2>2, <2>3, <1>2, OwnStep
  <1>4. CASE StartMcpRuntime(w)
    <2>1. win[w].start = "loading"
      BY <1>4 DEF StartMcpRuntime
    <2>2. CASE Become(w, [win[w] EXCEPT !.start = "failed"])
      <3> DEFINE r == [win[w] EXCEPT !.start = "failed"]
      <3>1. r \in WinRec /\ r.start # "sweeping"
        BY <1>1 DEF WinRec, Starts
      <3>2. Fits(r, registry[w])
        BY <2>1, <1>1 DEF Fits, Bound, UnderWay, WinRec
      <3>3. Become(w, r)
        BY <2>2
      <3> HIDE DEF r
      <3> QED BY <3>1, <3>2, <3>3, <1>2, OwnStep
    <2>3. CASE \E names \in {{}, {d \in Windows : registry[d] # None}} :
                  Become(w, [win[w] EXCEPT !.start = "sweeping", !.todo = names,
                                           !.stale = {d \in names : registry[d].pid \notin PidsInUse}])
               /\ win[w].stop = "no"
      <3>1. PICK names \in SUBSET Windows :
               /\ \A d \in names : registry[d] # None
               /\ Become(w, [win[w] EXCEPT !.start = "sweeping", !.todo = names,
                                           !.stale = {d \in names : registry[d].pid \notin PidsInUse}])
        BY <2>3
      <3> DEFINE stale == {d \in names : registry[d].pid \notin PidsInUse}
      <3>2. stale \subseteq names /\ \A d \in stale : win[d].proc = "dead"
        BY <3>1, StaleIsDead
      <3>3. Become(w, [win[w] EXCEPT !.start = "sweeping", !.todo = names, !.stale = stale])
        BY <3>1
      <3> HIDE DEF stale
      <3> DEFINE r == [win[w] EXCEPT !.start = "sweeping", !.todo = names, !.stale = stale]
      <3>4. r \in WinRec /\ r.stale = stale /\ r.todo = names
        BY <3>2, <1>1 DEF WinRec, Starts
      <3>5. Fits(r, registry[w])
        BY <2>1, <2>3, <1>1 DEF Fits, Bound, UnderWay, WinRec
      <3>6. Become(w, r)
        BY <3>3
      <3> HIDE DEF r
      <3> QED BY <3>2, <3>4, <3>5, <3>6, <1>2, OwnStep
    <2> QED BY <1>4, <2>2, <2>3 DEF StartMcpRuntime
  <1>5. CASE Listen(w)
    <2>1. win[w].start = "sweeping"
      BY <1>5 DEF Listen
    <2>2. CASE \E port \in Ports \ PortsInUse :
                  Become(w, [win[w] EXCEPT !.start = "listening", !.port = port, !.serves = TRUE,
                                           !.stale = {}])
      <3>1. PICK port \in Ports :
                  Become(w, [win[w] EXCEPT !.start = "listening", !.port = port, !.serves = TRUE,
                                           !.stale = {}])
        BY <2>2
      <3> DEFINE r == [win[w] EXCEPT !.start = "listening", !.port = port, !.serves = TRUE,
                                     !.stale = {}]
      <3>2. r \in WinRec /\ r.start # "sweeping"
        BY <1>1 DEF WinRec, Starts
      <3>3. Fits(r, registry[w])
        BY <2>1, <1>1 DEF Fits, Bound, UnderWay, WinRec, Starts
      <3>4. Become(w, r)
        BY <3>1
      <3> HIDE DEF r
      <3> QED BY <3>2, <3>3, <3>4, <1>2, OwnStep
    <2>3. CASE Become(w, [win[w] EXCEPT !.start = "failed", !.stale = {}])
      <3> DEFINE r == [win[w] EXCEPT !.start = "failed", !.stale = {}]
      <3>1. r \in WinRec /\ r.start # "sweeping"
        BY <1>1 DEF WinRec, Starts
      <3>2. Fits(r, registry[w])
        BY <2>1, <1>1 DEF Fits, Bound, UnderWay, WinRec
      <3>3. Become(w, r)
        BY <2>3
      <3> HIDE DEF r
      <3> QED BY <3>1, <3>2, <3>3, <1>2, OwnStep
    <2> QED BY <1>5, <2>2, <2>3 DEF Listen
  <1>6. CASE Listening(w)
    <2> DEFINE next == IF win[w].serves THEN "reading" ELSE "failed"
               r == [win[w] EXCEPT !.start = next]
    <2>1. Become(w, r) /\ win[w].start = "listening"
      BY <1>6 DEF Listening
    <2>2. r \in WinRec /\ r.start # "sweeping"
      BY <1>1 DEF WinRec, Starts
    <2>3. Fits(r, registry[w])
      BY <2>1, <1>1 DEF Fits, Bound, UnderWay, WinRec, Starts
    <2> HIDE DEF r
    <2> QED BY <2>1, <2>2, <2>3, <1>2, OwnStep
  <1>7. CASE ReadTargets(w)
    <2> DEFINE r == [win[w] EXCEPT !.start = "publishing", !.publisher = TRUE, !.seen = targets[w]]
    <2>1. Become(w, r) /\ win[w].start = "reading"
      BY <1>7 DEF ReadTargets
    <2>2. r \in WinRec /\ r.start # "sweeping"
      BY <1>1 DEF WinRec, Starts, BInv, Types
    <2>3. Fits(r, registry[w])
      BY <2>1, <1>1 DEF Fits, Bound, UnderWay, WinRec, Starts
    <2> HIDE DEF r
    <2> QED BY <2>1, <2>2, <2>3, <1>2, OwnStep
  <1> QED BY <1>3, <1>4, <1>5, <1>6, <1>7

LEMMA SweepKeeps ==
    ASSUME BInv, NEW w \in Windows, NEW d \in Windows, Sweep(w, d)
    PROVE  BInv'
  <1>1. win[w] \in WinRec /\ Fits(win[w], registry[w]) /\ Swept(w)
    BY WindowFacts
  <1>2. win[w].proc = "alive" /\ win[w].start = "sweeping" /\ Keep
    BY DEF Sweep, Alive
  <1>3. \A x \in win[w].stale : win[x].proc = "dead" /\ (x \in win[w].todo \/ registry[x] = None)
    BY <1>1, <1>2 DEF Swept
  <1>4. CASE /\ registry[d] # None /\ registry[d].pid \notin PidsInUse
             /\ registry' = [registry EXCEPT ![d] = None]
             /\ Become(w, [win[w] EXCEPT !.todo = @ \ {d}])
    <2> DEFINE r == [win[w] EXCEPT !.todo = win[w].todo \ {d}]
    <2>1. win[d].proc = "dead" /\ d # w
      BY <1>2, <1>4, StaleIsDead
    <2>2. /\ registry' \in [Windows -> Record \cup {None}] /\ registry'[d] = None
          /\ \A v \in Windows \ {d} : registry'[v] = registry[v]
      BY <1>4 DEF BInv, Types
    <2>3. r \in WinRec /\ r.todo = win[w].todo \ {d} /\ r.stale = win[w].stale
          /\ r.stale \subseteq Windows
      BY <1>1 DEF WinRec
    <2>4. Fits(r, registry[w])
      BY <1>1 DEF Fits, WinRec
    <2>5. Fits(r, registry'[w])
      BY <2>1, <2>2, <2>4
    <2>6. \A x \in r.stale : win[x].proc = "dead" /\ (x \in r.todo \/ registry'[x] = None)
      BY <2>2, <2>3, <1>3
    <2>7. targets' \in [Windows -> Counts] /\ request' \in [Requests -> ReqRec]
      BY <1>2 DEF BInv, Types, Keep
    <2>8. \A q \in Requests : request'[q].at # None => request'[q].at = request'[q].token
      BY <1>2 DEF BInv, CallsReachTheirWindow, Keep
    <2>9. Become(w, r)
      BY <1>4
    <2>10. \A v \in Windows \ {w} : \/ registry'[v] = registry[v]
                                    \/ registry'[v] = None /\ ~Alive(v)
      BY <2>1, <2>2 DEF Alive
    <2> HIDE DEF r
    <2> QED BY <2>2, <2>3, <2>5, <2>6, <2>7, <2>8, <2>9, <2>10, <1>2, WindowStep
  <1>5. CASE /\ Become(w, [win[w] EXCEPT !.todo = @ \ {d}, !.stale = @ \ {d}])
             /\ UNCHANGED registry
    <2> DEFINE r == [win[w] EXCEPT !.todo = win[w].todo \ {d}, !.stale = win[w].stale \ {d}]
    <2>1. r \in WinRec /\ r.todo = win[w].todo \ {d} /\ r.stale = win[w].stale \ {d}
      BY <1>1 DEF WinRec
    <2>2. Fits(r, registry[w])
      BY <1>1 DEF Fits, WinRec
    <2>3. \A x \in r.stale : win[x].proc = "dead" /\ (x \in r.todo \/ registry[x] = None)
      BY <2>1, <1>3
    <2>4. Become(w, r)
      BY <1>5
    <2> HIDE DEF r
    <2> QED BY <2>1, <2>2, <2>3, <2>4, <1>2, <1>5, OwnStep
  <1>6. CASE /\ registry[d] = None /\ UNCHANGED registry
             /\ Become(w, [win[w] EXCEPT !.todo = @ \ {d}])
    <2> DEFINE r == [win[w] EXCEPT !.todo = win[w].todo \ {d}]
    <2>1. r \in WinRec /\ r.todo = win[w].todo \ {d} /\ r.stale = win[w].stale
      BY <1>1 DEF WinRec
    <2>2. Fits(r, registry[w])
      BY <1>1 DEF Fits, WinRec
    <2>3. \A x \in r.stale : win[x].proc = "dead" /\ (x \in r.todo \/ registry[x] = None)
      BY <2>1, <1>3, <1>6
    <2>4. Become(w, r)
      BY <1>6
    <2> HIDE DEF r
    <2> QED BY <2>1, <2>2, <2>3, <2>4, <1>2, <1>6, OwnStep
  <1> QED BY <1>4, <1>5, <1>6 DEF Sweep

LEMMA PublishKeeps ==
    ASSUME BInv, NEW w \in Windows, Publish(w)
    PROVE  BInv'
  <1>1. win[w] \in WinRec /\ Fits(win[w], registry[w])
    BY WindowFacts
  <1>2. win[w].proc = "alive" /\ win[w].start = "publishing" /\ Keep
    BY DEF Publish, Alive
  <1>3. /\ win[w].pid \in Pids /\ win[w].port \in Ports /\ win[w].seen \in Counts
        /\ 0 \in Counts
        /\ registry[w] = None
    BY <1>1, <1>2, BridgeAssumption DEF Fits, Bound, WinRec, Counts
  <1>4. CASE /\ registry' = [registry EXCEPT ![w] = [pid |-> win[w].pid, port |-> win[w].port,
                                                     targets |-> win[w].seen]]
             /\ Become(w, [win[w] EXCEPT !.start = "up", !.timer = TRUE, !.last = win[w].seen,
                                         !.seen = 0])
    <2> DEFINE r == [win[w] EXCEPT !.start = "up", !.timer = TRUE, !.last = win[w].seen, !.seen = 0]
               record == [pid |-> win[w].pid, port |-> win[w].port, targets |-> win[w].seen]
    <2>1. r \in WinRec /\ r.start # "sweeping"
      BY <1>1, <1>3 DEF WinRec, Starts
    <2>2. record \in Record /\ record.pid = win[w].pid /\ record.port = win[w].port
      BY <1>3 DEF Record
    <2>3. record # None
      BY <2>2, BridgeAssumption
    <2>4. Fits(r, record)
      BY <2>2, <2>3, <1>1, <1>2, <1>3 DEF Fits, Bound, UnderWay, Starts, WinRec
    <2>5. Become(w, r) /\ registry' = [registry EXCEPT ![w] = record]
      BY <1>4
    <2> HIDE DEF r, record
    <2> QED BY <2>1, <2>2, <2>4, <2>5, <1>2, RecordStep
  <1>5. CASE /\ Become(w, [win[w] EXCEPT !.start = "failed", !.publisher = FALSE, !.serves = FALSE,
                                         !.seen = 0])
             /\ UNCHANGED registry
    <2> DEFINE r == [win[w] EXCEPT !.start = "failed", !.publisher = FALSE, !.serves = FALSE,
                                   !.seen = 0]
    <2>1. r \in WinRec /\ r.start # "sweeping"
      BY <1>1, <1>3 DEF WinRec, Starts
    <2>2. Fits(r, registry[w])
      BY <1>1, <1>2, <1>3 DEF Fits, Bound, UnderWay, Starts, WinRec
    <2>3. Become(w, r)
      BY <1>5
    <2> HIDE DEF r
    <2> QED BY <2>1, <2>2, <2>3, <1>2, <1>5, OwnStep
  <1> QED BY <1>4, <1>5 DEF Publish

----------------------------------------------------------------------------
\* The heartbeat, the dispose, and the end.

LEMMA TickKeeps ==
    ASSUME BInv, NEW w \in Windows, Tick(w)
    PROVE  BInv'
  <1>1. win[w] \in WinRec /\ Fits(win[w], registry[w]) /\ Swept(w)
    BY WindowFacts
  <1>2. /\ win[w].proc = "alive" /\ win[w].beat = "idle" /\ UNCHANGED registry /\ Keep
        /\ targets[w] \in Counts /\ win[w].timer
    BY DEF Tick, Alive, BInv, Types
  <1>3. win[w].age \in 0..ForceWriteTicks \cup {None}
    BY <1>1, <1>2 DEF Fits
  <1>4. Later(win[w].age) \in 0..Fresh \cup {None}
    BY <1>3 DEF Later, Fresh, ForceWriteTicks
  <1> DEFINE aged == [win[w] EXCEPT !.age = Later(win[w].age)]
  <1>5. aged \in WinRec /\ aged.age = Later(win[w].age)
    BY <1>1, <1>4 DEF WinRec
  <1>6. CASE Become(w, aged) /\ aged.age \in 0..ForceWriteTicks \cup {None}
    <2>1. Fits(aged, registry[w])
      BY <1>1, <1>6 DEF Fits, WinRec
    <2>2. /\ aged.start = win[w].start /\ aged.stale = win[w].stale
          /\ aged.todo = win[w].todo
      BY <1>1 DEF WinRec
    <2> HIDE DEF aged
    <2> QED BY <2>1, <2>2, <1>1, <1>2, <1>5, <1>6, OwnStep DEF Swept
  <1>7. CASE Become(w, [aged EXCEPT !.beat = "writing", !.seen = targets[w]])
    <2> DEFINE r == [aged EXCEPT !.beat = "writing", !.seen = targets[w]]
    <2>1. r \in WinRec
      BY <1>2, <1>5 DEF WinRec
    <2>2. /\ r.start = win[w].start /\ r.stale = win[w].stale /\ r.todo = win[w].todo
          /\ r.proc = win[w].proc /\ r.pid = win[w].pid /\ r.port = win[w].port
          /\ r.stop = win[w].stop /\ r.cut = win[w].cut /\ r.serves = win[w].serves
          /\ r.publisher = win[w].publisher /\ r.beat = "writing" /\ r.timer = win[w].timer
      BY <1>1 DEF WinRec
    <2>3. Fits(r, registry[w])
      BY <2>2, <1>1, <1>2 DEF Fits
    <2>4. Become(w, r)
      BY <1>7
    <2> HIDE DEF r
    <2> QED BY <2>1, <2>2, <2>3, <2>4, <1>1, <1>2, OwnStep DEF Swept
  <1> QED BY <1>6, <1>7 DEF Tick

LEMMA BeatKeeps ==
    ASSUME BInv, NEW w \in Windows, Beat(w)
    PROVE  BInv'
  <1>1. win[w] \in WinRec /\ Fits(win[w], registry[w]) /\ Swept(w)
    BY WindowFacts
  <1>2. /\ win[w].proc = "alive" /\ Keep /\ win[w].seen \in Counts /\ 0 \in Counts
        /\ registry[w] \in Record \cup {None}
    BY <1>1, BridgeAssumption DEF Beat, Alive, BInv, Types, WinRec, Counts
  <1>3. CASE /\ registry' = [registry EXCEPT ![w] = [pid |-> win[w].pid, port |-> win[w].port,
                                                     targets |-> win[w].seen]]
             /\ Become(w, [win[w] EXCEPT !.beat = "idle", !.last = win[w].seen, !.seen = 0,
                                         !.age = 0])
    <2> DEFINE r == [win[w] EXCEPT !.beat = "idle", !.last = win[w].seen, !.seen = 0, !.age = 0]
               record == [pid |-> win[w].pid, port |-> win[w].port, targets |-> win[w].seen]
    <2>1. r \in WinRec
      BY <1>1, <1>2, BlankTyped DEF WinRec
    <2>2. /\ win[w].start = "up" /\ win[w].pid \in Pids /\ win[w].port \in Ports
          /\ win[w].stop = "no" \/ win[w].cut
      BY <1>1, <1>2 DEF Beat, Fits
    <2>3. record \in Record /\ record.pid = win[w].pid /\ record.port = win[w].port
      BY <2>2, <1>2 DEF Record
    <2>4. record # None
      BY <2>3, BridgeAssumption
    <2>5. /\ r.start = "up" /\ r.proc = "alive" /\ r.pid = win[w].pid /\ r.port = win[w].port
          /\ r.beat = "idle" /\ r.age = 0 /\ r.stop = win[w].stop /\ r.cut = win[w].cut
          /\ r.serves = win[w].serves /\ r.publisher = win[w].publisher
      BY <1>1, <1>2, <2>2 DEF WinRec
    <2>6. ~win[w].cut => win[w].serves
      BY <1>1, <1>2, <2>2 DEF Fits
    <2>7. Fits(r, record) /\ r.start # "sweeping"
      <3>1. "up" \notin Bound /\ "up" \notin UnderWay /\ 0 \in 0..ForceWriteTicks
        BY DEF Bound, UnderWay, ForceWriteTicks
      <3> QED BY <2>2, <2>3, <2>4, <2>5, <2>6, <3>1, <1>1, <1>2 DEF Fits
    <2>8. Become(w, r) /\ registry' = [registry EXCEPT ![w] = record]
      BY <1>3
    <2> HIDE DEF r, record
    <2> QED BY <2>1, <2>3, <2>7, <2>8, <1>2, RecordStep
  <1>4. CASE /\ Become(w, [win[w] EXCEPT !.beat = "idle", !.seen = 0, !.age = None])
             /\ UNCHANGED registry
    <2> DEFINE r == [win[w] EXCEPT !.beat = "idle", !.seen = 0, !.age = None]
    <2>1. /\ r \in WinRec /\ r.start = win[w].start /\ r.stale = win[w].stale
          /\ r.todo = win[w].todo
      BY <1>1, <1>2 DEF WinRec
    <2>2. Fits(r, registry[w])
      BY <1>1 DEF Fits, WinRec
    <2>3. Become(w, r)
      BY <1>4
    <2> HIDE DEF r
    <2> QED BY <2>1, <2>2, <2>3, <1>1, <1>2, <1>4, OwnStep DEF Swept
  <1> QED BY <1>3, <1>4 DEF Beat

LEMMA DisposeKeeps ==
    ASSUME BInv, NEW w \in Windows, Dispose(w)
    PROVE  BInv'
  <1>1. win[w] \in WinRec /\ Fits(win[w], registry[w]) /\ Swept(w)
    BY WindowFacts
  <1>2. /\ win[w].proc = "alive" /\ win[w].stop = "no" /\ UNCHANGED registry /\ Keep
    BY DEF Dispose, Alive
  <1> DEFINE cut == Writing(w)
  <1>3. cut \in BOOLEAN /\ (cut <=> win[w].start \in UnderWay \/ win[w].beat = "writing")
    BY DEF UnderWay, Writing
  <1>4. CASE Become(w, [win[w] EXCEPT !.timer = FALSE, !.publisher = FALSE, !.age = 0,
                                      !.cut = cut, !.stop = "unpublishing"])
    <2> HIDE DEF cut
    <2> DEFINE r == [win[w] EXCEPT !.timer = FALSE, !.publisher = FALSE, !.age = 0,
                                   !.cut = cut, !.stop = "unpublishing"]
    <2>1. /\ r \in WinRec /\ r.start = win[w].start /\ r.stale = win[w].stale
          /\ r.todo = win[w].todo
      <3>1. 0 \in 0..Fresh \cup {None}
        BY BlankTyped
      <3>2. r \in WinRec
        BY <1>1, <1>3, <3>1 DEF WinRec, Stops
      <3> QED
        BY <1>1, <3>2 DEF WinRec
    <2>2. /\ r.proc = win[w].proc /\ r.pid = win[w].pid /\ r.port = win[w].port
          /\ r.stop = "unpublishing" /\ r.cut = cut /\ r.serves = win[w].serves
          /\ r.publisher = FALSE /\ r.age = 0 /\ r.timer = FALSE /\ r.beat = win[w].beat
      BY <1>1 DEF WinRec
    <2>3. ~win[w].cut
      BY <1>1, <1>2 DEF Fits
    <2>4. Fits(r, registry[w])
      <3>1. ~cut => r.start \notin Bound
        BY <2>1, <1>3 DEF Bound, UnderWay, Starts
      <3> QED BY <3>1, <2>1, <2>2, <2>3, <1>1, <1>2, <1>3 DEF Fits, Bound, ForceWriteTicks
    <2>5. Become(w, r)
      BY <1>4
    <2> HIDE DEF r
    <2> QED BY <2>1, <2>4, <2>5, <1>1, <1>2, OwnStep DEF Swept
  <1>5. CASE /\ ~win[w].publisher
             /\ Become(w, [win[w] EXCEPT !.timer = FALSE, !.publisher = FALSE, !.age = 0,
                                         !.cut = cut, !.stop = "closing", !.serves = FALSE])
    <2> HIDE DEF cut
    <2> DEFINE r == [win[w] EXCEPT !.timer = FALSE, !.publisher = FALSE, !.age = 0,
                                   !.cut = cut, !.stop = "closing", !.serves = FALSE]
    <2>1. /\ r \in WinRec /\ r.start = win[w].start /\ r.stale = win[w].stale
          /\ r.todo = win[w].todo
      <3>1. 0 \in 0..Fresh \cup {None}
        BY BlankTyped
      <3>2. r \in WinRec
        BY <1>1, <1>3, <3>1 DEF WinRec, Stops
      <3> QED
        BY <1>1, <3>2 DEF WinRec
    <2>2. /\ r.proc = win[w].proc /\ r.pid = win[w].pid /\ r.port = win[w].port
          /\ r.stop = "closing" /\ r.cut = cut
          /\ r.publisher = FALSE /\ r.age = 0 /\ r.timer = FALSE /\ r.beat = win[w].beat
      BY <1>1 DEF WinRec
    <2>3. registry[w] = None
      BY <1>1, <1>2, <1>5 DEF Fits
    <2>4. Fits(r, registry[w])
      <3>1. ~cut => r.start \notin Bound
        BY <2>1, <1>3 DEF Bound, UnderWay, Starts
      <3> QED BY <3>1, <2>1, <2>2, <2>3, <1>1, <1>2, <1>3 DEF Fits, Bound, ForceWriteTicks
    <2>5. Become(w, r)
      BY <1>5
    <2> HIDE DEF r
    <2> QED BY <2>1, <2>4, <2>5, <1>1, <1>2, OwnStep DEF Swept
  <1>6. CASE win[w].publisher
    <2>1. Become(w, [[win[w] EXCEPT !.timer = FALSE, !.publisher = FALSE, !.age = 0, !.cut = cut]
                        EXCEPT !.stop = "unpublishing"])
      BY <1>6 DEF Dispose
    <2> HIDE DEF cut
    <2>2. [[win[w] EXCEPT !.timer = FALSE, !.publisher = FALSE, !.age = 0, !.cut = cut]
              EXCEPT !.stop = "unpublishing"]
          = [win[w] EXCEPT !.timer = FALSE, !.publisher = FALSE, !.age = 0, !.cut = cut,
                           !.stop = "unpublishing"]
      BY <1>1 DEF WinRec
    <2> QED BY <2>1, <2>2, <1>4
  <1>7. CASE ~win[w].publisher
    <2>1. Become(w, [[win[w] EXCEPT !.timer = FALSE, !.publisher = FALSE, !.age = 0, !.cut = cut]
                        EXCEPT !.stop = "closing", !.serves = FALSE])
      BY <1>7 DEF Dispose
    <2> HIDE DEF cut
    <2>2. [[win[w] EXCEPT !.timer = FALSE, !.publisher = FALSE, !.age = 0, !.cut = cut]
              EXCEPT !.stop = "closing", !.serves = FALSE]
          = [win[w] EXCEPT !.timer = FALSE, !.publisher = FALSE, !.age = 0, !.cut = cut,
                           !.stop = "closing", !.serves = FALSE]
      BY <1>1 DEF WinRec
    <2> QED BY <2>1, <2>2, <1>5, <1>7
  <1> QED BY <1>6, <1>7

LEMMA StoppingKeeps ==
    ASSUME BInv, NEW w \in Windows, Stopping(w)
    PROVE  BInv'
  <1>1. win[w] \in WinRec /\ Fits(win[w], registry[w]) /\ Swept(w)
    BY WindowFacts
  <1>2. win[w].proc = "alive" /\ Keep /\ win[w].stop # "no"
    BY DEF Stopping, Unpublished, Closed, Alive
  <1>3. CASE /\ registry' = [registry EXCEPT ![w] = None]
             /\ Become(w, [win[w] EXCEPT !.stop = "closing", !.serves = FALSE])
    <2> DEFINE r == [win[w] EXCEPT !.stop = "closing", !.serves = FALSE]
    <2>1. /\ r \in WinRec /\ r.start = win[w].start /\ r.stale = win[w].stale
          /\ r.todo = win[w].todo /\ r.stop = "closing" /\ r.proc = win[w].proc
          /\ r.pid = win[w].pid /\ r.port = win[w].port /\ r.cut = win[w].cut
          /\ r.beat = win[w].beat /\ r.age = win[w].age
      BY <1>1 DEF WinRec, Stops
    <2>2. r.start \in Bound => r.cut
      BY <2>1, <1>1, <1>2 DEF Fits, Bound, UnderWay, Starts
    <2>3. Fits(r, None)
      BY <2>1, <2>2, <1>1, <1>2 DEF Fits, Bound
    <2>4. registry' \in [Windows -> Record \cup {None}] /\ registry'[w] = None
          /\ \A v \in Windows \ {w} : registry'[v] = registry[v]
      BY <1>3 DEF BInv, Types
    <2>5. \A d \in win[w].stale : registry[d] = None => registry'[d] = None
      BY <1>1, <2>4 DEF WinRec
    <2>6. r.start = "sweeping" => \A d \in r.stale : /\ win[d].proc = "dead"
                                                     /\ d \in r.todo \/ registry'[d] = None
      BY <2>1, <2>5, <1>1 DEF Swept
    <2>7. targets' \in [Windows -> Counts] /\ request' \in [Requests -> ReqRec]
      BY <1>2 DEF BInv, Types, Keep
    <2>8. \A q \in Requests : request'[q].at # None => request'[q].at = request'[q].token
      BY <1>2 DEF BInv, CallsReachTheirWindow, Keep
    <2>9. Become(w, r)
      BY <1>3
    <2>10. \A v \in Windows \ {w} : \/ registry'[v] = registry[v]
                                    \/ registry'[v] = None /\ ~Alive(v)
      BY <2>4
    <2>11. r \in WinRec /\ win[w].proc # "dead"
      BY <2>1, <1>2
    <2>12. Fits(r, registry'[w]) /\ registry' \in [Windows -> Record \cup {None}]
      BY <2>3, <2>4
    <2> HIDE DEF r
    <2> QED BY <2>6, <2>7, <2>8, <2>9, <2>10, <2>11, <2>12, WindowStep
  <1>4. CASE Become(w, [win[w] EXCEPT !.stop = "done"]) /\ UNCHANGED registry
    <2> DEFINE r == [win[w] EXCEPT !.stop = "done"]
    <2>1. /\ r \in WinRec /\ r.start = win[w].start /\ r.stale = win[w].stale
          /\ r.todo = win[w].todo
      BY <1>1 DEF WinRec, Stops
    <2>2. Fits(r, registry[w])
      BY <1>1, <1>2 DEF Fits, WinRec
    <2>3. Become(w, r)
      BY <1>4
    <2> HIDE DEF r
    <2> QED BY <2>1, <2>2, <2>3, <1>1, <1>2, <1>4, OwnStep DEF Swept
  <1> QED BY <1>3, <1>4 DEF Stopping, Unpublished, Closed

LEMMA DieKeeps ==
    ASSUME BInv, NEW w \in Windows, Die(w)
    PROVE  BInv'
  <1>1. Types /\ CallsReachTheirWindow
    BY DEF BInv
  <1> DEFINE r == [NoWindow EXCEPT !.proc = "dead"]
  <1>2. Become(w, r) /\ win[w].proc = "alive" /\ UNCHANGED <<registry, targets>>
    BY DEF Die, Alive
  <1>3. r \in WinRec /\ r.start # "sweeping"
    BY BlankTyped DEF NoWindow, WinRec
  <1>4. Fits(r, registry[w])
    BY BlankTyped DEF Fits, NoWindow
  <1>5. [NoRequest EXCEPT !.step = "answered"] \in ReqRec
        /\ [NoRequest EXCEPT !.step = "answered"].at = None
    BY DEF NoRequest, ReqRec
  <1>6. \A q \in Requests : request'[q] = IF request[q].at = w
                                          THEN [NoRequest EXCEPT !.step = "answered"]
                                          ELSE request[q]
    BY DEF Die
  <1>7. request' \in [Requests -> ReqRec]
    BY <1>1, <1>5 DEF Die, Types
  <1>8. \A q \in Requests : request'[q].at # None => request'[q].at = request'[q].token
    BY <1>1, <1>5, <1>6 DEF CallsReachTheirWindow
  <1> HIDE DEF r
  <1> QED BY <1>1, <1>2, <1>3, <1>4, <1>7, <1>8, WindowStep DEF Types

----------------------------------------------------------------------------
\* The hub.

LEMMA HubKeeps ==
    ASSUME BInv, NEW q \in Requests, Call(q) \/ Serve(q)
    PROVE  BInv'
  <1>1. Types /\ CallsReachTheirWindow /\ UNCHANGED <<win, registry, targets>>
    BY DEF BInv, Call, Serve, Receive, ReadBody, Invoked
  <1>2. \E r \in ReqRec : /\ request' = [request EXCEPT ![q] = r]
                          /\ r.at # None => r.at = r.token
    <2>1. request[q] \in ReqRec /\ (request[q].at # None => request[q].at = request[q].token)
      BY <1>1 DEF Types, CallsReachTheirWindow
    <2>2. CASE Answer(q)
      <3>1. [NoRequest EXCEPT !.step = "answered"] \in ReqRec
            /\ [NoRequest EXCEPT !.step = "answered"].at = None
        BY DEF NoRequest, ReqRec
      <3> QED BY <2>2, <3>1 DEF Answer
    <2>3. CASE Call(q)
      <3>1. PICK w \in Windows :
               /\ registry[w] # None
               /\ request' = [request EXCEPT ![q] = [step |-> "sent", port |-> registry[w].port,
                                                     token |-> w, at |-> None]]
        BY <2>3 DEF Call
      <3>2. registry[w].port \in Ports
        BY <3>1, <1>1 DEF Types, Record
      <3>3. [step |-> "sent", port |-> registry[w].port, token |-> w, at |-> None] \in ReqRec
        BY <3>2 DEF ReqRec
      <3> QED BY <3>1, <3>3
    <2>4. CASE /\ request[q].token \in Windows
               /\ request' = [request EXCEPT ![q].step = "body", ![q].at = request[q].token]
      <3> DEFINE r == [request[q] EXCEPT !.step = "body", !.at = request[q].token]
      <3>1. r \in ReqRec /\ r.at = r.token
        BY <2>1, <2>4 DEF ReqRec
      <3>2. request' = [request EXCEPT ![q] = r]
        BY <2>4, <2>1, <1>1 DEF Types, ReqRec
      <3> HIDE DEF r
      <3> QED BY <3>1, <3>2
    <2>5. CASE request' = [request EXCEPT ![q].step = "tool"]
      <3> DEFINE r == [request[q] EXCEPT !.step = "tool"]
      <3>1. r \in ReqRec /\ (r.at # None => r.at = r.token)
        BY <2>1 DEF ReqRec
      <3>2. request' = [request EXCEPT ![q] = r]
        BY <2>5
      <3> HIDE DEF r
      <3> QED BY <3>1, <3>2
    <2>6. CASE Receive(q)
      BY <2>2, <2>4, <2>6 DEF Receive
    <2> QED BY <2>2, <2>3, <2>5, <2>6 DEF Serve, ReadBody, Invoked
  <1>3. request' \in [Requests -> ReqRec] /\ CallsReachTheirWindow'
    BY <1>1, <1>2 DEF Types, CallsReachTheirWindow
  <1>4. Types'
    BY <1>1, <1>3 DEF Types
  <1>5. \A w \in Windows : Fits(win'[w], registry'[w]) /\ Swept(w)'
    BY <1>1 DEF BInv, Swept
  <1> QED BY <1>3, <1>4, <1>5 DEF BInv

----------------------------------------------------------------------------
\* The theorems.

LEMMA BInvInit == Init => BInv
  <1> SUFFICES ASSUME Init PROVE BInv
    OBVIOUS
  <1>2. Types
    BY BlankTyped DEF Init, Types
  <1>3. \A w \in Windows : Fits(win[w], registry[w]) /\ Swept(w)
    <2> SUFFICES ASSUME NEW w \in Windows PROVE Fits(win[w], registry[w]) /\ Swept(w)
      OBVIOUS
    <2>1. win[w] = NoWindow /\ registry[w] = None
      BY DEF Init
    <2>2. Fits(NoWindow, None)
      BY BlankTyped DEF NoWindow, Fits
    <2> QED BY <2>1, <2>2 DEF Swept, NoWindow
  <1>4. CallsReachTheirWindow
    BY DEF Init, NoRequest, CallsReachTheirWindow
  <1> QED BY <1>2, <1>3, <1>4 DEF BInv

LEMMA BInvNext == BInv /\ [Next]_vars => BInv'
  <1> SUFFICES ASSUME BInv, [Next]_vars PROVE BInv'
    OBVIOUS
  <1>1. ASSUME NEW w \in Windows, TargetsChange(w) PROVE BInv'
    <2>1. /\ UNCHANGED <<win, registry, request>> /\ targets[w] + 1 \in Counts
          /\ targets' = [targets EXCEPT ![w] = targets[w] + 1]
      BY <1>1, BridgeAssumption DEF TargetsChange, BInv, Types, Counts
    <2> QED BY <2>1 DEF BInv, Types, Swept, CallsReachTheirWindow
  <1>2. CASE UNCHANGED vars
    BY <1>2 DEF vars, BInv, Types, Swept, CallsReachTheirWindow
  <1>3. ASSUME NEW w \in Windows, Work(w) PROVE BInv'
    BY <1>3, StartKeeps, SweepKeeps, PublishKeeps, BeatKeeps DEF Work
  <1>4. ASSUME NEW w \in Windows, Open(w) \/ Die(w) \/ EnsureMcpRuntime(w)
        PROVE  BInv'
    BY <1>4, OpenKeeps, DieKeeps, StartKeeps
  <1>5. ASSUME NEW w \in Windows, Tick(w) \/ Dispose(w) \/ Stopping(w)
        PROVE  BInv'
    BY <1>5, TickKeeps, DisposeKeeps, StoppingKeeps
  <1>6. ASSUME NEW q \in Requests, Call(q) \/ Serve(q) PROVE BInv'
    BY <1>6, HubKeeps
  <1> QED BY <1>1, <1>2, <1>3, <1>4, <1>5, <1>6 DEF Next

LEMMA BInvariance == Spec => []BInv
  BY BInvInit, BInvNext, PTL DEF Spec

\* Windows, records and calls keep their shape; a record of a living window is
\* never older than three ticks of its heartbeat, unless a write has failed.
THEOREM TypeCorrect == Spec => []TypeOK
  <1>1. BInv => TypeOK
    <2> SUFFICES ASSUME BInv PROVE TypeOK
      OBVIOUS
    <2>1. \A w \in Windows : win[w] \in WinRec /\ registry[w] \in Record \cup {None}
      BY DEF BInv, Types
    <2> QED BY <2>1 DEF BInv, Types, TypeOK, WinRec, ReqRec
  <1> QED BY <1>1, BInvariance, PTL

\* The record of a living window names a port that it listens on, from the end of
\* its start to that of its dispose, and nobody sweeps it away, although pids and
\* ports are used again: whoever starts, sweeps, dies or is disposed meanwhile, and
\* whatever a heartbeat writes, also one that is late.  Only a window whose dispose
\* finds its start or a heartbeat under way is excepted (DisposedMeansGone).
THEOREM RecordsAreServed == Spec => []PublishedMeansServed
  <1>1. BInv => PublishedMeansServed
    BY DEF BInv, Fits, PublishedMeansServed, Alive
  <1> QED BY <1>1, BInvariance, PTL

\* A call is served by the window whose record the hub has read, or by none.
THEOREM CallsAreNotMixedUp == Spec => []CallsReachTheirWindow
  <1>1. BInv => CallsReachTheirWindow
    BY DEF BInv
  <1> QED BY <1>1, BInvariance, PTL

\* Only listening leads from a sweep to the listening server.
LEMMA SweepEnds ==
    ASSUME BInv, Next, NEW w \in Windows,
           win[w].start = "sweeping", win'[w].start = "listening"
    PROVE  win[w].todo = {}
  <1>1. win \in [Windows -> WinRec] /\ win[w] \in WinRec
    BY DEF BInv, Types
  <1>2. \A v \in Windows : \A r : Become(v, r) => win'[w] = IF v = w THEN r ELSE win[w]
    BY <1>1 DEF Become
  <1>3. ASSUME UNCHANGED win PROVE FALSE
    BY <1>3
  <1>4. PICK v \in Windows : \/ Open(v) \/ Die(v) \/ EnsureMcpRuntime(v)
                             \/ Work(v) \/ Tick(v) \/ Dispose(v) \/ Stopping(v)
    BY <1>3 DEF Next, TargetsChange, Call, Serve, Receive, ReadBody, Invoked
  <1>5. ASSUME NEW r, Become(v, r) PROVE v = w /\ r.start = "listening" /\ win'[w] = r
    BY <1>2, <1>5
  <1>6. v = w
    <2>1. \E r : Become(v, r)
      BY <1>4 DEF Open, Die, EnsureMcpRuntime, Work, Tick, Dispose, Stopping, Unpublished, Closed,
                  StartMcpRuntime, Listen, Listening, ReadTargets, Publish, Sweep, Beat
    <2> QED BY <2>1, <1>5
  <1>7. ~Open(w) /\ ~Die(w) /\ ~EnsureMcpRuntime(w) /\ ~StartMcpRuntime(w) /\ ~Listening(w)
        /\ ~ReadTargets(w) /\ ~Publish(w)
    <2>1. ~Open(w)
      <3>1. ASSUME NEW pid \in Pids, Become(w, [NoWindow EXCEPT !.proc = "alive", !.pid = pid])
            PROVE  FALSE
        <4>1. [NoWindow EXCEPT !.proc = "alive", !.pid = pid].start = "off"
          BY DEF NoWindow
        <4> QED BY <3>1, <4>1, <1>5, <1>6
      <3> QED BY <3>1 DEF Open
    <2>2. ~Die(w)
      BY <1>5, <1>6 DEF Die, NoWindow
    <2> QED BY <2>1, <2>2 DEF EnsureMcpRuntime, StartMcpRuntime, Listening, ReadTargets, Publish
  <1>9. ASSUME NEW d \in Windows, Sweep(w, d) PROVE FALSE
    <2>1. [win[w] EXCEPT !.todo = win[w].todo \ {d}].start = win[w].start
      BY <1>1 DEF WinRec
    <2>2. [win[w] EXCEPT !.todo = win[w].todo \ {d}, !.stale = win[w].stale \ {d}].start
              = win[w].start
      BY <1>1 DEF WinRec
    <2> QED BY <2>1, <2>2, <1>5, <1>6, <1>9 DEF Sweep
  <1>10. ~Beat(w)
    <2>1. ASSUME NEW r, Become(w, r),
                 \/ r = [win[w] EXCEPT !.beat = "idle", !.last = win[w].seen, !.seen = 0,
                                       !.age = 0]
                 \/ r = [win[w] EXCEPT !.beat = "idle", !.seen = 0, !.age = None]
          PROVE  FALSE
      BY <2>1, <1>1, <1>5, <1>6 DEF WinRec
    <2> QED BY <2>1 DEF Beat
  <1>11. ~Tick(w)
    <2>1. ASSUME NEW r, Become(w, r),
                 \/ r = [win[w] EXCEPT !.age = Later(win[w].age)]
                 \/ r = [[win[w] EXCEPT !.age = Later(win[w].age)]
                            EXCEPT !.beat = "writing", !.seen = targets[w]]
          PROVE  FALSE
      BY <2>1, <1>1, <1>5, <1>6 DEF WinRec
    <2> QED BY <2>1 DEF Tick
  <1>12. ~Dispose(w)
    <2> DEFINE r0 == [win[w] EXCEPT !.timer = FALSE, !.publisher = FALSE, !.age = 0,
                                    !.cut = Writing(w)]
    <2>1. r0.start = win[w].start /\ [r0 EXCEPT !.stop = "unpublishing"].start = win[w].start
          /\ [r0 EXCEPT !.stop = "closing", !.serves = FALSE].start = win[w].start
      BY <1>1 DEF WinRec
    <2>2. ASSUME Dispose(w)
          PROVE  \/ Become(w, [r0 EXCEPT !.stop = "unpublishing"])
                 \/ Become(w, [r0 EXCEPT !.stop = "closing", !.serves = FALSE])
      BY <2>2 DEF Dispose
    <2> HIDE DEF r0
    <2> QED BY <2>1, <2>2, <1>5, <1>6
  <1>13. ~Stopping(w)
    <2>1. ASSUME NEW r, Become(w, r),
                 \/ r = [win[w] EXCEPT !.stop = "closing", !.serves = FALSE]
                 \/ r = [win[w] EXCEPT !.stop = "done"]
          PROVE  FALSE
      BY <2>1, <1>1, <1>5, <1>6 DEF WinRec
    <2> QED BY <2>1 DEF Stopping, Unpublished, Closed
  <1>14. Listen(w)
    BY <1>4, <1>6, <1>7, <1>9, <1>10, <1>11, <1>12, <1>13 DEF Work
  <1> QED BY <1>14 DEF Listen

\* A window that begins to listen has found all the records that the processes dead
\* at the start of its sweep had left, whatever else starts, dies and sweeps
\* meanwhile: they are gone, but for those that it could not read or remove or whose
\* pid was in use again when it looked.
THEOREM StartsSweep == Spec => SweptOnStart
  <1>1. BInv /\ [Next]_vars =>
           [\A w \in Windows :
              (win[w].start = "sweeping" /\ win'[w].start = "listening") =>
                  \A d \in win[w].stale : registry[d] = None]_vars
    <2> SUFFICES ASSUME BInv, Next, NEW w \in Windows,
                        win[w].start = "sweeping", win'[w].start = "listening",
                        NEW d \in win[w].stale
                 PROVE  registry[d] = None
      BY DEF vars
    <2>1. win[w].todo = {}
      BY SweepEnds
    <2> QED BY <2>1, WindowFacts DEF Swept
  <1> QED BY <1>1, BInvariance, PTL DEF Spec, SweptOnStart

----------------------------------------------------------------------------
\* Who works on the calls.

\* No step of a window but its end takes its life.
LEMMA LivesOn ==
    ASSUME Types, NEW w \in Windows, NEW r, Become(w, r), r.proc = "alive"
    PROVE  \A v \in Windows : Alive(v) => Alive(v)'
  BY DEF Become, Types, Alive

LEMMA WindowServes ==
    ASSUME Types, NEW w \in Windows,
           Open(w) \/ TargetsChange(w) \/ EnsureMcpRuntime(w) \/ Work(w) \/ Tick(w)
               \/ Dispose(w) \/ Stopping(w)
    PROVE  request' = request /\ \A v \in Windows : Alive(v) => Alive(v)'
  <1>0. win[w] \in WinRec
    BY DEF Types
  <1> DEFINE Spared == \A v \in Windows : win'[v].proc = win[v].proc
  <1>s. ASSUME NEW r, Become(w, r), r.proc = win[w].proc PROVE Spared
    BY <1>s DEF Become, Types
  <1> HIDE DEF Spared
  <1>1. CASE TargetsChange(w)
    BY <1>1 DEF TargetsChange, Alive
  <1>2. CASE Open(w)
    <2>1. PICK pid \in Pids : Become(w, [NoWindow EXCEPT !.proc = "alive", !.pid = pid])
      BY <1>2 DEF Open
    <2>2. [NoWindow EXCEPT !.proc = "alive", !.pid = pid].proc = "alive"
      BY DEF NoWindow
    <2> QED
      BY <1>2, <2>1, <2>2, LivesOn DEF Open, Keep
  <1>3. CASE EnsureMcpRuntime(w)
    <2>1. [win[w] EXCEPT !.start = "loading"].proc = win[w].proc
      BY <1>0 DEF WinRec
    <2> QED
      BY <1>3, <2>1, LivesOn DEF EnsureMcpRuntime, Keep, Alive
  <1>4. CASE Work(w)
    <2>1. request' = request /\ win[w].proc = "alive"
      BY <1>4 DEF Work, StartMcpRuntime, Listen, Listening, ReadTargets, Publish, Sweep, Beat,
                  Keep, Alive
    <2>2. Spared
      <3>1. CASE StartMcpRuntime(w)
        <4>1. /\ [win[w] EXCEPT !.start = "failed"].proc = win[w].proc
              /\ \A names, stale : [win[w] EXCEPT !.start = "sweeping", !.todo = names,
                                                  !.stale = stale].proc = win[w].proc
          BY <1>0 DEF WinRec
        <4> QED
          BY <1>s, <3>1, <4>1 DEF StartMcpRuntime
      <3>2. CASE Listen(w)
        <4>1. /\ [win[w] EXCEPT !.start = "failed", !.stale = {}].proc = win[w].proc
              /\ \A port : [win[w] EXCEPT !.start = "listening", !.port = port, !.serves = TRUE,
                                          !.stale = {}].proc = win[w].proc
          BY <1>0 DEF WinRec
        <4> QED
          BY <1>s, <3>2, <4>1 DEF Listen
      <3>3. CASE Listening(w)
        <4>1. \A start : [win[w] EXCEPT !.start = start].proc = win[w].proc
          BY <1>0 DEF WinRec
        <4> QED
          BY <1>s, <3>3, <4>1 DEF Listening
      <3>4. CASE ReadTargets(w)
        <4>1. [win[w] EXCEPT !.start = "publishing", !.publisher = TRUE, !.seen = targets[w]].proc
                  = win[w].proc
          BY <1>0 DEF WinRec
        <4> QED
          BY <1>s, <3>4, <4>1 DEF ReadTargets
      <3>5. CASE Publish(w)
        <4>1. /\ [win[w] EXCEPT !.start = "up", !.timer = TRUE, !.last = win[w].seen,
                                !.seen = 0].proc = win[w].proc
              /\ [win[w] EXCEPT !.start = "failed", !.publisher = FALSE, !.serves = FALSE,
                                !.seen = 0].proc = win[w].proc
          BY <1>0 DEF WinRec
        <4> QED
          BY <1>s, <3>5, <4>1 DEF Publish
      <3>6. CASE Beat(w)
        <4>1. /\ [win[w] EXCEPT !.beat = "idle", !.last = win[w].seen, !.seen = 0,
                                !.age = 0].proc = win[w].proc
              /\ [win[w] EXCEPT !.beat = "idle", !.seen = 0, !.age = None].proc = win[w].proc
          BY <1>0 DEF WinRec
        <4> QED
          BY <1>s, <3>6, <4>1 DEF Beat
      <3>7. ASSUME NEW d \in Windows, Sweep(w, d) PROVE Spared
        <4>1. /\ [win[w] EXCEPT !.todo = @ \ {d}].proc = win[w].proc
              /\ [win[w] EXCEPT !.todo = @ \ {d}, !.stale = @ \ {d}].proc = win[w].proc
          BY <1>0 DEF WinRec
        <4>2. \/ Become(w, [win[w] EXCEPT !.todo = @ \ {d}])
              \/ Become(w, [win[w] EXCEPT !.todo = @ \ {d}, !.stale = @ \ {d}])
          BY <3>7 DEF Sweep
        <4> QED
          BY <1>s, <4>1, <4>2
      <3> QED
        BY <1>4, <3>1, <3>2, <3>3, <3>4, <3>5, <3>6, <3>7 DEF Work
    <2> QED
      BY <2>1, <2>2 DEF Alive, Spared
  <1>5. CASE Tick(w)
    <2> DEFINE aged == [win[w] EXCEPT !.age = Later(@)]
    <2>1. /\ aged.proc = win[w].proc
          /\ [aged EXCEPT !.beat = "writing", !.seen = targets[w]].proc = win[w].proc
      BY <1>0 DEF WinRec
    <2>2. \/ Become(w, aged)
          \/ Become(w, [aged EXCEPT !.beat = "writing", !.seen = targets[w]])
      BY <1>5 DEF Tick
    <2>3. request' = request /\ win[w].proc = "alive"
      BY <1>5 DEF Tick, Keep, Alive
    <2> HIDE DEF aged
    <2> QED
      BY <2>1, <2>2, <2>3, LivesOn
  <1>6. CASE Dispose(w)
    <2> DEFINE halted == [win[w] EXCEPT !.timer = FALSE, !.publisher = FALSE, !.age = 0,
                                        !.cut = Writing(w)]
    <2>1. /\ [halted EXCEPT !.stop = "unpublishing"].proc = win[w].proc
          /\ [halted EXCEPT !.stop = "closing", !.serves = FALSE].proc = win[w].proc
      BY <1>0 DEF WinRec
    <2>2. \/ Become(w, [halted EXCEPT !.stop = "unpublishing"])
          \/ Become(w, [halted EXCEPT !.stop = "closing", !.serves = FALSE])
      BY <1>6 DEF Dispose
    <2>3. request' = request /\ win[w].proc = "alive"
      BY <1>6 DEF Dispose, Keep, Alive
    <2> HIDE DEF halted
    <2> QED
      BY <2>1, <2>2, <2>3, LivesOn
  <1>7. CASE Stopping(w)
    <2>1. request' = request /\ win[w].proc = "alive"
      BY <1>7 DEF Stopping, Unpublished, Closed, Keep, Alive
    <2>2. /\ [win[w] EXCEPT !.stop = "closing", !.serves = FALSE].proc = win[w].proc
          /\ [win[w] EXCEPT !.stop = "done"].proc = win[w].proc
      BY <1>0 DEF WinRec
    <2>3. Spared
      BY <1>s, <1>7, <2>2 DEF Stopping, Unpublished, Closed
    <2> QED
      BY <2>1, <2>3 DEF Alive, Spared
  <1> QED
    BY <1>1, <1>2, <1>3, <1>4, <1>5, <1>6, <1>7

\* The end of a window answers its calls.
LEMMA DieServes ==
    ASSUME Types, ServedMeansInWork, NEW w \in Windows, Die(w)
    PROVE  ServedMeansInWork'
  <1>1. \A v \in Windows \ {w} : Alive(v) => Alive(v)'
    BY DEF Types, Die, Become, Alive
  <1>2. [NoRequest EXCEPT !.step = "answered"].at = None
        /\ [NoRequest EXCEPT !.step = "answered"].step = "answered"
    BY DEF NoRequest
  <1>3. ASSUME NEW q \in Requests
        PROVE  IF request[q].at = w
               THEN request'[q].at = None /\ request'[q].step = "answered"
               ELSE request'[q] = request[q]
    BY <1>2 DEF Die
  <1>4. ASSUME NEW q \in Requests
        PROVE  /\ request'[q].at # None => win'[request'[q].at].proc = "alive"
               /\ request'[q].at # None <=> request'[q].step \in {"body", "tool"}
    <2>1. CASE request[q].at = w
      BY <1>3, <2>1
    <2>2. CASE request[q].at # w
      <3>1. request'[q] = request[q] /\ request[q].at \in Windows \cup {None}
        BY <1>3, <2>2 DEF Types, ReqRec
      <3> QED
        BY <1>1, <2>2, <3>1 DEF ServedMeansInWork, Alive
    <2> QED
      BY <2>1, <2>2
  <1> QED
    BY <1>4 DEF ServedMeansInWork, Alive

\* The hub sends, and the window it has meant takes, works on and answers a call.
LEMMA HubServes ==
    ASSUME Types, ServedMeansInWork, NEW q \in Requests, Call(q) \/ Serve(q)
    PROVE  ServedMeansInWork'
  <1>1. win' = win /\ request[q] \in ReqRec
    BY DEF Types, Call, Serve, Receive, ReadBody, Invoked
  <1>2. \A p \in Requests \ {q} : request'[p] = request[p]
    BY DEF Types, Call, Serve, Receive, ReadBody, Invoked, Answer
  <1>3. /\ request'[q].at # None => request'[q].at \in Windows /\ Alive(request'[q].at)
        /\ request'[q].at # None <=> request'[q].step \in {"body", "tool"}
    <2>1. CASE Answer(q)
      BY <2>1 DEF Answer, NoRequest, Types
    <2>2. CASE Call(q)
      BY <2>2 DEF Call, Types
    <2>3. CASE Receive(q) /\ ~Answer(q)
      <3>1. /\ request[q].token \in Windows /\ Alive(request[q].token)
            /\ request'[q].at = request[q].token /\ request'[q].step = "body"
        BY <1>1, <2>3 DEF Receive, Serves, Types, ReqRec
      <3> QED
        BY <3>1, BridgeAssumption
    <2>4. CASE ReadBody(q) /\ ~Answer(q)
      <3>1. request'[q].at = request[q].at /\ request'[q].step = "tool" /\ request[q].step = "body"
        BY <1>1, <2>4 DEF ReadBody, Types, ReqRec
      <3> QED
        BY <1>1, <3>1 DEF ServedMeansInWork, ReqRec
    <2> QED
      BY <2>1, <2>2, <2>3, <2>4 DEF Serve, Invoked
  <1>4. ASSUME NEW p \in Requests
        PROVE  /\ request'[p].at # None => win'[request'[p].at].proc = "alive"
               /\ request'[p].at # None <=> request'[p].step \in {"body", "tool"}
    <2>1. CASE p = q
      BY <1>1, <1>3, <2>1 DEF Alive
    <2>2. CASE p # q
      <3>1. request'[p] = request[p]
        BY <1>2, <2>2
      <3> QED
        BY <1>1, <3>1 DEF ServedMeansInWork, Alive
    <2> QED
      BY <2>1, <2>2
  <1> QED
    BY <1>4 DEF ServedMeansInWork, Alive

\* A call that counts as served by a window is in the hands of that window, which
\* is alive, at every step of windows that start, die, are disposed and reuse the
\* ports of others: no dispose waits for a call that nobody works on (Closed).
THEOREM ServedAreWorkedOn == Spec => []ServedMeansInWork
  <1>1. Init => ServedMeansInWork
    BY DEF Init, NoRequest, ServedMeansInWork
  <1>2. BInv /\ ServedMeansInWork /\ [Next]_vars => ServedMeansInWork'
    <2> SUFFICES ASSUME BInv, ServedMeansInWork, [Next]_vars PROVE ServedMeansInWork'
      OBVIOUS
    <2>0. Types
      BY DEF BInv
    <2>1. ASSUME request' = request, \A v \in Windows : Alive(v) => Alive(v)'
          PROVE  ServedMeansInWork'
      <3> SUFFICES ASSUME NEW q \in Requests
                   PROVE  /\ request[q].at # None => Alive(request[q].at)'
                          /\ request[q].at # None <=> request[q].step \in {"body", "tool"}
        BY <2>1 DEF ServedMeansInWork
      <3>1. request[q].at \in Windows \cup {None}
        BY <2>0 DEF Types, ReqRec
      <3> QED
        BY <2>1, <3>1 DEF ServedMeansInWork
    <2>2. CASE UNCHANGED vars
      BY <2>1, <2>2 DEF vars, Alive
    <2>3. ASSUME NEW w \in Windows,
                 Open(w) \/ TargetsChange(w) \/ EnsureMcpRuntime(w) \/ Work(w) \/ Tick(w)
                     \/ Dispose(w) \/ Stopping(w)
          PROVE  ServedMeansInWork'
      BY <2>0, <2>1, <2>3, WindowServes
    <2>4. ASSUME NEW w \in Windows, Die(w) PROVE ServedMeansInWork'
      BY <2>0, <2>4, DieServes
    <2>5. ASSUME NEW q \in Requests, Call(q) \/ Serve(q) PROVE ServedMeansInWork'
      BY <2>0, <2>5, HubServes
    <2> QED
      BY <2>2, <2>3, <2>4, <2>5 DEF Next
  <1> QED
    BY <1>1, <1>2, BInvariance, PTL DEF Spec

=============================================================================
