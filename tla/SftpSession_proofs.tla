-------------------------- MODULE SftpSession_proofs --------------------------
(***************************************************************************)
(* Theorems about SftpSession, for every set of calls, commands and paths: *)
(* the queue and the frames, the refinement of SerialCommands, and what    *)
(* the transfers and listings deliver.                                     *)
(***************************************************************************)
EXTENDS SftpSession, SequenceTheorems, FiniteSetTheorems, TLAPS

Active == {"running", "acked", "draining"}

\* What a call asked for is known from the moment it is made.
Issued == \A o \in Op : state[o] # "new" => cmd[o] \in Commands

\* The queue holds each accepted command once, in a state that fits its place.
QueueShape ==
    /\ idle => queue = <<>>
    /\ started => queue # <<>>
    /\ \A i, j \in 1..Len(queue) : queue[i] = queue[j] => i = j
    /\ \A i \in 1..Len(queue) :
          state[queue[i]] \in IF i = 1 /\ started THEN Active ELSE {"queued"}
    /\ \A o \in Op : state[o] \in Active \cup {"queued"} =>
          \E i \in 1..Len(queue) : queue[i] = o

\* A command is in the pending map exactly while it runs.
PendingRuns == \A o \in Op : o \in pending <=> state[o] = "running"

QInv == Issued /\ QueueShape /\ PendingRuns

qvars == <<cmd, state, queue, started, idle, pending>>
qtypes == /\ cmd \in [Op -> Commands \cup {None}]
          /\ state \in [Op -> States]
          /\ queue \in Seq(Op)
          /\ pending \subseteq Op
          /\ started \in BOOLEAN /\ idle \in BOOLEAN

----------------------------------------------------------------------------
\* The queue's own steps.

\* The command that has been dispatched is the head, and the only one active.
LEMMA ActiveIsHead ==
    ASSUME qtypes, QInv, NEW o \in Op, state[o] \in Active
    PROVE  /\ started /\ ~idle /\ queue # <<>> /\ o = Head(queue)
           /\ \A x \in Op : state[x] \in Active => x = o
  <1>1. \A x \in Op : state[x] \in Active =>
           started /\ Len(queue) >= 1 /\ x = queue[1]
    <2> SUFFICES ASSUME NEW x \in Op, state[x] \in Active
                 PROVE  started /\ Len(queue) >= 1 /\ x = queue[1]
      OBVIOUS
    <2>1. PICK i \in 1..Len(queue) : queue[i] = x
      BY DEF QInv, QueueShape
    <2>2. i = 1 /\ started
      BY <2>1 DEF QInv, QueueShape, Active
    <2> QED
      BY <2>1, <2>2 DEF qtypes
  <1> QED
    BY <1>1 DEF qtypes, QInv, QueueShape

\* Settling the command that is dispatched.
LEMMA SettleActive ==
    ASSUME qtypes, QInv, NEW o \in Op, NEW result \in Settled,
           state[o] \in Active, Settle(o, result),
           pending' = pending \ {o}, UNCHANGED <<cmd, idle>>
    PROVE  qtypes' /\ QInv'
  <1>1. started /\ ~idle /\ queue # <<>> /\ o = queue[1] /\ o = Head(queue)
    BY ActiveIsHead
  <1>2. /\ Tail(queue) \in Seq(Op) /\ Len(Tail(queue)) = Len(queue) - 1
        /\ \A i \in 1..Len(Tail(queue)) : Tail(queue)[i] = queue[i+1]
    BY <1>1, HeadTailProperties DEF qtypes
  <1>3. qtypes'
    BY <1>2 DEF qtypes, Settle, States, Settled
  <1>4. Issued'
    BY DEF QInv, Issued, Settle, qtypes, Active, Settled
  <1>5. PendingRuns'
    BY ActiveIsHead DEF QInv, PendingRuns, Settle, qtypes, Settled, Active
  <1>6. QueueShape'
    <2>1. \A i \in 1..Len(Tail(queue)) : Tail(queue)[i] # o /\ state[Tail(queue)[i]] = "queued"
      BY <1>1, <1>2 DEF QInv, QueueShape, qtypes
    <2>2. \A i, j \in 1..Len(Tail(queue)) : Tail(queue)[i] = Tail(queue)[j] => i = j
      BY <1>1, <1>2 DEF QInv, QueueShape, qtypes
    <2>3. \A x \in Op : x # o /\ state[x] \in Active \cup {"queued"} =>
             \E i \in 1..Len(Tail(queue)) : Tail(queue)[i] = x
      <3> SUFFICES ASSUME NEW x \in Op, x # o, state[x] \in Active \cup {"queued"}
                   PROVE  \E i \in 1..Len(Tail(queue)) : Tail(queue)[i] = x
        OBVIOUS
      <3>1. PICK i \in 1..Len(queue) : queue[i] = x
        BY DEF QInv, QueueShape
      <3>2. i - 1 \in 1..Len(Tail(queue)) /\ Tail(queue)[i-1] = x
        BY <1>1, <1>2, <3>1 DEF qtypes
      <3> QED BY <3>2
    <2> QED
      BY <1>1, <1>2, <2>1, <2>2, <2>3 DEF QueueShape, Settle, Active, Settled, qtypes
  <1> QED
    BY <1>3, <1>4, <1>5, <1>6 DEF QInv

\* A new call enters the queue: dispatched at once, behind the others, or
\* rejected by its own dispatch.
LEMMA EnqueueKeeps ==
    ASSUME qtypes, QInv, NEW o \in Op, state[o] = "new", NEW c \in Commands,
           cmd' = [cmd EXCEPT ![o] = c], Enqueue(o)
    PROVE  qtypes' /\ QInv'
  <1> DEFINE q == Append(queue, o)
  <1>1. /\ q \in Seq(Op) /\ Len(q) = Len(queue) + 1 /\ q[Len(q)] = o
        /\ \A i \in 1..Len(queue) : q[i] = queue[i]
    BY AppendProperties DEF qtypes
  <1>2. \A i \in 1..Len(queue) : queue[i] # o /\ queue[i] \in Op
    BY DEF QInv, QueueShape, Active, qtypes
  <1>3. ~(idle /\ started)
    BY DEF QInv, QueueShape
  <1> HIDE DEF q
  <1>4. CASE idle /\ Alive
    <2>1. /\ idle' = FALSE /\ started' = TRUE /\ queue' = q /\ pending' = pending \cup {o}
          /\ state' = [state EXCEPT ![o] = "running"] /\ queue = <<>>
      BY <1>4 DEF Enqueue, QInv, QueueShape, q
    <2>2. qtypes'
      BY <1>1, <2>1 DEF qtypes, States
    <2>3. Issued'
      BY <2>1 DEF QInv, Issued, qtypes
    <2>5. PendingRuns'
      <3> SUFFICES ASSUME NEW x \in Op PROVE x \in pending' <=> state'[x] = "running"
        BY DEF PendingRuns
      <3>1. CASE x = o
        BY <2>1, <3>1 DEF qtypes
      <3>2. CASE x # o
        BY <2>1, <3>2 DEF QInv, PendingRuns, qtypes
      <3> QED BY <3>1, <3>2
    <2>4. QueueShape'
      <3>1. Len(queue) = 0 /\ Len(q) = 1 /\ q[1] = o /\ q # <<>>
        BY <1>1, <2>1 DEF qtypes
      <3>2. \A x \in Op : state[x] \notin Active \cup {"queued"}
        BY <3>1 DEF QInv, QueueShape
      <3>3. \A x \in Op : state'[x] \in Active \cup {"queued"} => x = o
        BY <2>1, <3>2 DEF qtypes
      <3>4. state'[o] \in Active
        BY <2>1 DEF qtypes, Active
      <3> QED BY <2>1, <3>1, <3>3, <3>4 DEF QueueShape
    <2> QED BY <2>2, <2>3, <2>4, <2>5 DEF QInv
  <1>5. CASE ~idle
    <2>1. /\ idle' = FALSE /\ queue' = q
          /\ state' = [state EXCEPT ![o] = "queued"] /\ UNCHANGED <<started, pending>>
      BY <1>5 DEF Enqueue, q
    <2>2. qtypes'
      BY <1>1, <2>1 DEF qtypes, States
    <2>3. Issued' /\ PendingRuns'
      BY <2>1 DEF QInv, Issued, PendingRuns, qtypes
    <2>4. QueueShape'
      <3>1. (idle' => queue' = <<>>) /\ (started' => queue' # <<>>)
        BY <1>1, <2>1 DEF qtypes
      <3>2. \A i, j \in 1..Len(q) : q[i] = q[j] => i = j
        BY <1>1, <1>2 DEF QInv, QueueShape, qtypes
      <3>3. \A i \in 1..Len(q) :
               state'[q[i]] \in IF i = 1 /\ started THEN Active ELSE {"queued"}
        <4> SUFFICES ASSUME NEW i \in 1..Len(q)
                     PROVE  state'[q[i]] \in IF i = 1 /\ started THEN Active ELSE {"queued"}
          OBVIOUS
        <4>1. CASE i = Len(q)
          <5>1. state'[q[i]] = "queued"
            BY <1>1, <2>1, <4>1 DEF qtypes
          <5>2. i = 1 => ~started
            BY <1>1, <4>1 DEF QInv, QueueShape, qtypes
          <5> QED BY <5>1, <5>2
        <4>2. CASE i # Len(q)
          <5>1. i \in 1..Len(queue)
            BY <1>1, <4>2 DEF qtypes
          <5>2. state'[q[i]] = state[queue[i]]
            BY <1>1, <1>2, <2>1, <5>1 DEF qtypes
          <5> QED BY <5>1, <5>2 DEF QInv, QueueShape
        <4> QED BY <4>1, <4>2
      <3>4. \A x \in Op : state'[x] \in Active \cup {"queued"} =>
               \E i \in 1..Len(q) : q[i] = x
        <4> SUFFICES ASSUME NEW x \in Op, state'[x] \in Active \cup {"queued"}
                     PROVE  \E i \in 1..Len(q) : q[i] = x
          OBVIOUS
        <4>1. CASE x = o
          BY <1>1, <4>1 DEF qtypes
        <4>2. CASE x # o
          <5>1. state[x] \in Active \cup {"queued"}
            BY <2>1, <4>2 DEF qtypes
          <5>2. PICK i \in 1..Len(queue) : queue[i] = x
            BY <5>1 DEF QInv, QueueShape
          <5> QED BY <1>1, <5>2 DEF qtypes
        <4> QED BY <4>1, <4>2
      <3> QED BY <2>1, <3>1, <3>2, <3>3, <3>4 DEF QueueShape
    <2> QED BY <2>2, <2>3, <2>4 DEF QInv
  <1>6. CASE idle /\ ~Alive
    <2>1. /\ idle' = FALSE /\ UNCHANGED <<queue, started, pending>> /\ queue = <<>>
          /\ state' = [state EXCEPT ![o] = "rejected"]
      BY <1>6 DEF Enqueue, QInv, QueueShape
    <2>2. qtypes'
      BY <2>1 DEF qtypes, States, Settled
    <2>3. Issued' /\ PendingRuns'
      BY <2>1 DEF QInv, Issued, PendingRuns, qtypes
    <2>4. QueueShape'
      BY <2>1 DEF QInv, QueueShape, qtypes, Active
    <2> QED BY <2>2, <2>3, <2>4 DEF QInv
  <1> QED BY <1>4, <1>5, <1>6

\* A call that is answered without entering the queue.
LEMMA AnswerKeeps ==
    ASSUME qtypes, QInv, NEW o \in Op, state[o] = "new", NEW c \in Commands,
           cmd' = [cmd EXCEPT ![o] = c], NEW result \in Settled,
           state' = [state EXCEPT ![o] = result],
           UNCHANGED <<queue, started, idle, pending>>
    PROVE  qtypes' /\ QInv'
  <1>1. qtypes'
    BY DEF qtypes, States
  <1>2. Issued' /\ PendingRuns'
    BY DEF QInv, Issued, PendingRuns, qtypes, Settled
  <1>3. \A i \in 1..Len(queue) : queue[i] # o /\ queue[i] \in Op
    BY DEF QInv, QueueShape, Active, qtypes
  <1>4. QueueShape'
    BY <1>3 DEF QInv, QueueShape, qtypes, Active, Settled
  <1> QED BY <1>1, <1>2, <1>4 DEF QInv

\* The command that is dispatched moves on without settling.
LEMMA ProgressKeeps ==
    ASSUME qtypes, QInv, NEW o \in Op, state[o] \in Active, NEW s \in Active,
           state' = [state EXCEPT ![o] = s],
           pending' = IF s = "running" THEN pending \cup {o} ELSE pending \ {o},
           UNCHANGED <<cmd, queue, started, idle>>
    PROVE  qtypes' /\ QInv'
  <1>1. qtypes'
    BY DEF qtypes, States, Active
  <1>2. Issued' /\ PendingRuns'
    BY DEF QInv, Issued, PendingRuns, qtypes, Active
  <1>3. started /\ queue # <<>> /\ Len(queue) >= 1 /\ o = queue[1]
    BY ActiveIsHead DEF qtypes
  <1>4. QueueShape'
    BY <1>3 DEF QInv, QueueShape, qtypes, Active
  <1> QED BY <1>1, <1>2, <1>4 DEF QInv

\* The turn is passed to the next command, or the queue falls idle.
LEMMA PassTurnKeeps ==
    ASSUME qtypes, QInv, PassTurn
    PROVE  qtypes' /\ QInv'
  <1>1. ~idle /\ ~started /\ cmd' = cmd
    BY DEF PassTurn, calls
  <1>2. CASE queue = <<>>
    <2>1. idle' = TRUE /\ UNCHANGED <<state, queue, started, pending>>
      BY <1>1, <1>2 DEF PassTurn
    <2> QED
      BY <1>1, <1>2, <2>1 DEF qtypes, QInv, Issued, QueueShape, PendingRuns
  <1> DEFINE h == Head(queue)
  <1>3. ASSUME queue # <<>>
        PROVE  /\ h \in Op /\ h = queue[1] /\ state[h] = "queued" /\ Len(queue) >= 1
               /\ Tail(queue) \in Seq(Op) /\ Len(Tail(queue)) = Len(queue) - 1
               /\ \A i \in 1..Len(Tail(queue)) : Tail(queue)[i] = queue[i+1]
    BY <1>1, <1>3, HeadTailProperties DEF qtypes, QInv, QueueShape
  <1>4. CASE queue # <<>> /\ Alive
    <2>1. /\ idle' = idle /\ started' = TRUE /\ queue' = queue
          /\ state' = [state EXCEPT ![h] = "running"] /\ pending' = pending \cup {h}
      BY <1>1, <1>4 DEF PassTurn
    <2>2. qtypes'
      BY <1>1, <1>3, <1>4, <2>1 DEF qtypes, States
    <2>3. Issued' /\ PendingRuns'
      BY <1>1, <1>3, <1>4, <2>1 DEF QInv, Issued, PendingRuns, qtypes
    <2>4. QueueShape'
      BY <1>1, <1>3, <1>4, <2>1 DEF QInv, QueueShape, qtypes, Active
    <2> QED BY <2>2, <2>3, <2>4 DEF QInv
  <1>5. CASE queue # <<>> /\ ~Alive
    <2>1. /\ idle' = idle /\ started' = FALSE /\ queue' = Tail(queue)
          /\ state' = [state EXCEPT ![h] = "rejected"] /\ pending' = pending
      BY <1>1, <1>5 DEF PassTurn, Settle
    <2>2. qtypes'
      BY <1>1, <1>3, <1>5, <2>1 DEF qtypes, States, Settled
    <2>3. Issued' /\ PendingRuns'
      BY <1>1, <1>3, <1>5, <2>1 DEF QInv, Issued, PendingRuns, qtypes
    <2>4. \A i \in 1..Len(Tail(queue)) : Tail(queue)[i] # h /\ state[Tail(queue)[i]] = "queued"
      BY <1>1, <1>3, <1>5 DEF QInv, QueueShape, qtypes
    <2>5. \A x \in Op : x # h /\ state[x] \in Active \cup {"queued"} =>
             \E i \in 1..Len(Tail(queue)) : Tail(queue)[i] = x
      <3> SUFFICES ASSUME NEW x \in Op, x # h, state[x] \in Active \cup {"queued"}
                   PROVE  \E i \in 1..Len(Tail(queue)) : Tail(queue)[i] = x
        OBVIOUS
      <3>1. PICK i \in 1..Len(queue) : queue[i] = x
        BY DEF QInv, QueueShape
      <3>2. i - 1 \in 1..Len(Tail(queue)) /\ Tail(queue)[i-1] = x
        BY <1>3, <1>5, <3>1 DEF qtypes
      <3> QED BY <3>2
    <2>6. QueueShape'
      BY <1>1, <1>3, <1>5, <2>1, <2>4, <2>5 DEF QInv, QueueShape, qtypes, Active
    <2> QED BY <2>2, <2>3, <2>6 DEF QInv
  <1> QED BY <1>2, <1>4, <1>5

\* Every pending command fails at once: that is the head, or nothing.
LEMMA RejectAllKeeps ==
    ASSUME qtypes, QInv, RejectAll, UNCHANGED <<cmd, idle>>
    PROVE  qtypes' /\ QInv'
  <1>1. CASE pending = {}
    <2>1. state' = state /\ queue' = queue /\ pending' = pending /\ started' = started
      BY <1>1 DEF RejectAll, qtypes
    <2> QED
      BY <2>1 DEF qtypes, QInv, Issued, QueueShape, PendingRuns
  <1>2. CASE pending # {}
    <2>1. PICK o \in Op : o \in pending
      BY <1>2 DEF qtypes
    <2>2. state[o] = "running" /\ state[o] \in Active
      BY <2>1 DEF QInv, PendingRuns, Active
    <2>3. started /\ queue # <<>> /\ o = Head(queue) /\ pending = {o}
      BY <2>1, <2>2, ActiveIsHead DEF QInv, PendingRuns, qtypes, Active
    <2>4. /\ state' = [state EXCEPT ![o] = "rejected"] /\ queue' = Tail(queue)
          /\ started' = FALSE /\ pending' = pending \ {o}
      BY <2>3 DEF RejectAll, qtypes
    <2> QED
      BY <2>2, <2>4, SettleActive DEF Settle, Settled
  <1> QED BY <1>1, <1>2

----------------------------------------------------------------------------
\* Frames and replies: a command has at most one frame under way, and the
\* message that ends the frame is the last one about it.

Open == {"running", "rejected"}

Frames ==
    /\ \A o \in Op : o \in serving \/ o \in held => state[o] \in Open
    /\ \A o \in Op : ~(o \in serving /\ o \in held)
    /\ \A i \in 1..Len(replies) :
          /\ state[replies[i].op] \in Open
          /\ replies[i].op \notin held
          /\ replies[i].type # "binary" =>
                /\ replies[i].op \notin serving
                /\ \A j \in 1..Len(replies) : j > i => replies[j].op # replies[i].op

ftypes == /\ state \in [Op -> States]
          /\ serving \subseteq Op /\ held \subseteq Op
          /\ replies \in Seq(Message)

LEMMA ReplyNamesOp ==
    ASSUME ftypes
    PROVE  \A i \in 1..Len(replies) : replies[i] \in Message /\ replies[i].op \in Op
  <1>1. \A i \in 1..Len(replies) : replies[i] \in Message
    BY DEF ftypes
  <1> QED BY <1>1 DEF Message

\* Commands that may have a frame under way keep that state.
LEMMA FramesKept ==
    ASSUME ftypes, Frames, state' \in [Op -> States],
           \A x \in Op : state[x] \in Open => state'[x] \in Open,
           UNCHANGED <<serving, held, replies>>
    PROVE  Frames'
  <1>1. \A i \in 1..Len(replies) : replies[i].op \in Op
    BY ReplyNamesOp
  <1> QED BY <1>1 DEF Frames

\* A command that had nothing under way sends a frame.
LEMMA FramesSent ==
    ASSUME ftypes, Frames, NEW o \in Op, state[o] \notin Open,
           state' = [state EXCEPT ![o] = "running"],
           SendWhenDrained(o), UNCHANGED replies
    PROVE  Frames'
  <1>1. \A i \in 1..Len(replies) : replies[i].op \in Op /\ replies[i].op # o
    BY ReplyNamesOp DEF Frames
  <1>2. o \notin serving /\ o \notin held
    BY DEF Frames
  <1>3. \A x \in Op : x # o => state'[x] = state[x]
    BY DEF ftypes
  <1>4. state'[o] \in Open
    BY DEF ftypes, Open
  <1>5. CASE serving' = serving \cup {o} /\ held' = held
    BY <1>1, <1>2, <1>3, <1>4, <1>5 DEF Frames, ftypes
  <1>6. CASE held' = held \cup {o} /\ serving' = serving
    BY <1>1, <1>2, <1>3, <1>4, <1>6 DEF Frames, ftypes
  <1> QED BY <1>5, <1>6 DEF SendWhenDrained

\* KoKo answers a frame it has: with a message that ends it, or one that does not.
LEMMA FramesAnswered ==
    ASSUME ftypes, Frames, NEW m \in Message, m.op \in serving,
           serving' = IF m.type = "binary" THEN serving ELSE serving \ {m.op},
           Reply(m), UNCHANGED <<state, held>>
    PROVE  Frames'
  <1>1. \A i \in 1..Len(replies) : /\ replies[i].op \in Op
                                   /\ replies[i].op = m.op => replies[i].type = "binary"
    BY ReplyNamesOp DEF Frames
  <1>2. m.op \in Op /\ state[m.op] \in Open /\ m.op \notin held
    BY DEF ftypes, Message, Frames
  <1>3. CASE replies' = replies
    BY <1>1, <1>2, <1>3 DEF Frames, ftypes
  <1>4. CASE replies' = Append(replies, m)
    <2> DEFINE r == Append(replies, m)
    <2>1. /\ Len(r) = Len(replies) + 1 /\ r[Len(r)] = m /\ Len(replies) \in Nat
          /\ \A i \in 1..Len(replies) : r[i] = replies[i]
      BY AppendProperties DEF ftypes
    <2> HIDE DEF r
    <2>2. \A i \in 1..Len(r) : i # Len(r) => i \in 1..Len(replies)
      BY <2>1
    <2>3. \A i \in 1..Len(r) : state[r[i].op] \in Open /\ r[i].op \notin held
      BY <1>2, <2>1, <2>2 DEF Frames
    <2>4. ASSUME NEW i \in 1..Len(r), r[i].type # "binary"
          PROVE  r[i].op \notin serving' /\ \A j \in 1..Len(r) : j > i => r[j].op # r[i].op
      <3>1. CASE i = Len(r)
        BY <2>1, <2>4, <3>1
      <3>2. CASE i # Len(r)
        <4>1. i \in 1..Len(replies) /\ r[i] = replies[i] /\ r[i].op # m.op
          BY <1>1, <2>1, <2>2, <2>4, <3>2
        <4>2. r[i].op \notin serving'
          BY <2>4, <4>1 DEF Frames
        <4>3. \A j \in 1..Len(r) : j > i => r[j].op # r[i].op
          BY <2>1, <2>2, <2>4, <4>1 DEF Frames
        <4> QED BY <4>2, <4>3
      <3> QED BY <3>1, <3>2
    <2>5. \A o \in Op : /\ (o \in serving' \/ o \in held' => state'[o] \in Open)
                        /\ ~(o \in serving' /\ o \in held')
      BY DEF Frames, ftypes
    <2> QED BY <1>4, <2>3, <2>4, <2>5 DEF Frames, r
  <1> QED BY <1>3, <1>4 DEF Reply

\* A message is taken off the wire. What it says of its command is true of the
\* rest: nothing more of a frame follows the message that ended it.
LEMMA FramesReceived ==
    ASSUME ftypes, Frames, replies # <<>>, replies' = Tail(replies),
           UNCHANGED <<serving, held>>, state' \in [Op -> States],
           \A x \in Op : state[x] \in Open =>
              \/ state'[x] \in Open
              \/ x = Head(replies).op /\ Head(replies).type # "binary"
    PROVE  Frames'
  <1> DEFINE r == Tail(replies)
  <1>1. /\ Len(r) = Len(replies) - 1 /\ Len(replies) \in Nat /\ Len(replies) >= 1
        /\ Head(replies) = replies[1]
        /\ \A i \in 1..Len(r) : r[i] = replies[i+1]
    BY HeadTailProperties DEF ftypes
  <1>2. \A i \in 1..Len(replies) : replies[i].op \in Op
    BY ReplyNamesOp
  <1> HIDE DEF r
  <1>3. \A i \in 1..Len(r) : i + 1 \in 1..Len(replies) /\ i + 1 > 1
    BY <1>1
  <1>4. ASSUME NEW i \in 1..Len(r)
        PROVE  state'[r[i].op] \in Open /\ r[i].op \notin held
    <2>1. r[i] = replies[i+1] /\ i + 1 \in 1..Len(replies)
      BY <1>1, <1>3
    <2>2. state[r[i].op] \in Open /\ r[i].op \notin held /\ r[i].op \in Op
      BY <1>2, <2>1 DEF Frames
    <2>3. Head(replies).type # "binary" => r[i].op # Head(replies).op
      BY <1>1, <1>3, <2>1 DEF Frames
    <2> QED BY <2>2, <2>3
  <1>5. ASSUME NEW i \in 1..Len(r), r[i].type # "binary"
        PROVE  r[i].op \notin serving /\ \A j \in 1..Len(r) : j > i => r[j].op # r[i].op
    <2>1. r[i] = replies[i+1] /\ i + 1 \in 1..Len(replies)
      BY <1>1, <1>3
    <2>2. r[i].op \notin serving
      BY <1>5, <2>1 DEF Frames
    <2>3. ASSUME NEW j \in 1..Len(r), j > i PROVE r[j].op # r[i].op
      <3>1. r[j] = replies[j+1] /\ j + 1 \in 1..Len(replies) /\ j + 1 > i + 1
        BY <1>1, <1>3, <2>3
      <3> QED BY <1>5, <2>1, <3>1 DEF Frames
    <2> QED BY <2>2, <2>3
  <1>6. ASSUME NEW o \in Op, o \in serving \/ o \in held
        PROVE  state'[o] \in Open
    <2>1. Head(replies).type # "binary" => o # Head(replies).op
      BY <1>1, <1>6 DEF Frames
    <2> QED BY <1>6, <2>1 DEF Frames
  <1> QED BY <1>4, <1>5, <1>6 DEF Frames, r

----------------------------------------------------------------------------
\* The inductive invariant.

\* An open socket belongs to a live session, which still refers to it.
Ends ==
    /\ wire = "open" => socket /\ ~disposed
    /\ disposed => ~socket

IInv == TypeOK /\ QInv /\ Frames /\ Ends

\* What remains of TypeOK beside the types of the queue and of the frames.
rtypes ==
    /\ phase \in {"rest", "opening", "waiting", "resolved", "rejected"}
    /\ wire \in {"none", "open", "closing", "closed"}
    /\ socket \in BOOLEAN /\ connected \in BOOLEAN /\ disposed \in BOOLEAN
    /\ greeted \in BOOLEAN /\ merged \subseteq Op
    /\ slice \in [Op -> 0..Slices] /\ got \in [Op -> Nat] /\ sunk \in [Op -> Nat]
    /\ sinkError \in [Op -> BOOLEAN]
    /\ cache \in [Path -> Nat \cup {None}] /\ cwd \in Path
    /\ sent \in [Op -> Nat] /\ applied \in [Op -> Nat]
    /\ remote \in [Path -> Nat]
    /\ seen \in [Op -> Nat] /\ hits \subseteq Op
    /\ called \in [Op -> SUBSET Op] /\ done \in [Op -> SUBSET Op]

LEMMA TypesSplit == TypeOK <=> qtypes /\ ftypes /\ rtypes
  BY DEF TypeOK, qtypes, ftypes, rtypes

LEMMA TypesSplitNext == TypeOK' <=> qtypes' /\ ftypes' /\ rtypes'
  BY DEF TypeOK, qtypes, ftypes, rtypes

LEMMA InitIInv == Init => IInv
  <1> SUFFICES ASSUME Init PROVE IInv
    OBVIOUS
  <1>1. TypeOK
    <2>1. qtypes
      <3>1. state \in [Op -> States] /\ cmd \in [Op -> Commands \cup {None}]
        BY DEF Init, States
      <3>2. queue \in Seq(Op) /\ pending \subseteq Op
        BY DEF Init
      <3>3. started \in BOOLEAN /\ idle \in BOOLEAN
        BY Zenon DEF Init
      <3> QED BY <3>1, <3>2, <3>3 DEF qtypes
    <2>2. ftypes
      BY DEF Init, ftypes, States
    <2>3. 0 \in 0..Slices /\ Home \in Path
      BY SessionAssumption
    <2>4. cache \in [Path -> Nat \cup {None}]
      BY DEF Init, EmptyCache
    <2>5. rtypes
      BY <2>3, <2>4 DEF Init, rtypes
    <2> QED BY <2>1, <2>2, <2>5, TypesSplit
  <1>2. QInv
    BY DEF Init, QInv, Issued, QueueShape, PendingRuns, Active
  <1>3. Frames
    BY DEF Init, Frames
  <1>4. Ends
    BY DEF Init, Ends
  <1> QED BY <1>1, <1>2, <1>3, <1>4 DEF IInv

\* Steps that leave the queue and its commands alone.
LEMMA QueueUntouched ==
    ASSUME IInv, UNCHANGED <<qvars, serving, held, replies>>
    PROVE  qtypes' /\ QInv' /\ ftypes' /\ Frames'
  BY TypesSplit
  DEF IInv, qvars, qtypes, ftypes, QInv, Issued, QueueShape, PendingRuns, Frames

LEMMA ConnectingKeeps == ASSUME IInv, Connecting PROVE IInv'
  <1>1. CASE FinishRest
    <2>1. rtypes' /\ Ends'
      BY <1>1, TypesSplit DEF IInv, FinishRest, rtypes, Ends, calls, progress, server
    <2> QED
      BY <1>1, <2>1, QueueUntouched, TypesSplitNext
      DEF IInv, FinishRest, calls, server, qvars
  <1>2. CASE FinishHandshake
    <2> USE <1>2 DEF FinishHandshake, Adopts
    <2>1. Ends'
      BY DEF IInv, Ends
    <2>2. phase' \in {"rejected", "waiting"} /\ wire' \in {wire, "closing", "open"}
          /\ socket' \in {socket, TRUE}
      OBVIOUS
    <2>3. rtypes'
      BY <2>2, TypesSplit DEF IInv, rtypes, calls, progress, server
    <2> QED
      BY <1>2, <2>1, <2>3, QueueUntouched, TypesSplitNext
      DEF IInv, FinishHandshake, calls, server, qvars
  <1>3. CASE ReceiveConnect
    <2>1. rtypes' /\ Ends'
      BY <1>3, TypesSplit DEF IInv, ReceiveConnect, rtypes, Ends, calls, progress
    <2> QED
      BY <1>3, <2>1, QueueUntouched, TypesSplitNext
      DEF IInv, ReceiveConnect, calls, qvars
  <1> QED BY <1>1, <1>2, <1>3 DEF Connecting

\* A close or a dispose fails what is pending and may empty the wire.
LEMMA RejectAllFrames ==
    ASSUME IInv, RejectAll, UNCHANGED <<serving, held>>,
           replies' = replies \/ replies' = <<>>
    PROVE  Frames'
  <1>1. state' \in [Op -> States] /\ \A x \in Op : state[x] \in Open => state'[x] \in Open
    BY TypesSplit DEF IInv, RejectAll, qtypes, States, Settled, Open
  <1>2. CASE replies' = replies
    BY <1>1, <1>2, FramesKept, TypesSplit DEF IInv
  <1>3. CASE replies' = <<>>
    BY <1>1, <1>3 DEF IInv, Frames
  <1> QED BY <1>2, <1>3

LEMMA ClosingKeeps == ASSUME IInv, Closing PROVE IInv'
  <1>1. EmptyCache \in [Path -> Nat \cup {None}]
    BY DEF EmptyCache
  <1>2. CASE SocketClosed
    <2>1. rtypes' /\ Ends'
      BY <1>1, <1>2, TypesSplit
      DEF IInv, SocketClosed, HandleClose, rtypes, Ends, calls, progress, remoteSide
    <2>2. qtypes' /\ QInv'
      BY <1>2, RejectAllKeeps, TypesSplit DEF IInv, SocketClosed, HandleClose, calls
    <2>3. ftypes' /\ Frames'
      BY <1>2, <2>2, RejectAllFrames, TypesSplit, EmptySeq
      DEF IInv, SocketClosed, HandleClose, ftypes, qtypes
    <2> QED BY <2>1, <2>2, <2>3, TypesSplitNext DEF IInv
  <1>3. CASE SessionClosed
    <2>1. rtypes' /\ Ends'
      BY <1>1, <1>3, TypesSplit
      DEF IInv, SessionClosed, HandleClose, rtypes, Ends, calls, progress, server
    <2>2. qtypes' /\ QInv'
      BY <1>3, RejectAllKeeps, TypesSplit DEF IInv, SessionClosed, HandleClose, calls
    <2>3. ftypes' /\ Frames'
      BY <1>3, <2>2, RejectAllFrames, TypesSplit
      DEF IInv, SessionClosed, HandleClose, ftypes, qtypes, server
    <2> QED BY <2>1, <2>2, <2>3, TypesSplitNext DEF IInv
  <1>4. CASE Dispose
    <2>1. rtypes' /\ Ends'
      BY <1>4, TypesSplit DEF IInv, Dispose, rtypes, Ends, calls, progress, server
    <2>2. qtypes' /\ QInv'
      BY <1>4, RejectAllKeeps, TypesSplit DEF IInv, Dispose, calls
    <2>3. ftypes' /\ Frames'
      BY <1>4, <2>2, RejectAllFrames, TypesSplit DEF IInv, Dispose, ftypes, qtypes, server
    <2> QED BY <2>1, <2>2, <2>3, TypesSplitNext DEF IInv
  <1> QED BY <1>2, <1>3, <1>4 DEF Closing

\* Steps on the queue that also send a frame.
LEMMA PassTurnFrames ==
    ASSUME IInv, PassTurn PROVE ftypes' /\ Frames'
  <1>1. qtypes' /\ QInv'
    BY PassTurnKeeps, TypesSplit DEF IInv
  <1>2. replies' = replies
    BY DEF PassTurn
  <1>3. CASE UNCHANGED <<state, held, serving>>
    BY <1>2, <1>3, QueueUntouched, TypesSplit DEF IInv, Frames, ftypes
  <1> DEFINE h == Head(queue)
  <1>4. ASSUME queue # <<>>, ~idle, ~started
        PROVE  h \in Op /\ state[h] = "queued" /\ state[h] \notin Open
    BY <1>4, TypesSplit DEF IInv, QInv, QueueShape, qtypes, Open
  <1>5. CASE /\ queue # <<>> /\ ~idle /\ ~started
             /\ state' = [state EXCEPT ![h] = "running"] /\ SendWhenDrained(h)
    <2>1. Frames'
      BY <1>2, <1>4, <1>5, FramesSent, TypesSplit DEF IInv
    <2>2. serving' \subseteq Op /\ held' \subseteq Op
      BY <1>4, <1>5, TypesSplit DEF IInv, SendWhenDrained, ftypes
    <2> QED BY <1>1, <1>2, <2>1, <2>2, TypesSplit DEF IInv, ftypes, qtypes
  <1>6. CASE /\ queue # <<>> /\ ~idle /\ ~started
             /\ state' = [state EXCEPT ![h] = "rejected"] /\ UNCHANGED <<held, serving>>
    <2>1. \A x \in Op : state[x] \in Open => state'[x] \in Open
      BY <1>4, <1>6, TypesSplit DEF IInv, qtypes, Open
    <2>2. state' \in [Op -> States]
      BY <1>1 DEF qtypes
    <2>3. Frames'
      BY <1>2, <1>6, <2>1, <2>2, FramesKept, TypesSplit DEF IInv
    <2> QED BY <1>2, <1>6, <2>2, <2>3, TypesSplit DEF IInv, ftypes
  <1> QED BY <1>3, <1>5, <1>6 DEF PassTurn, Settle

LEMMA EnqueueFrames ==
    ASSUME IInv, NEW o \in Op, state[o] = "new", Enqueue(o), UNCHANGED replies,
           state' \in [Op -> States]
    PROVE  ftypes' /\ Frames'
  <1>1. CASE idle /\ Alive
    <2>1. state' = [state EXCEPT ![o] = "running"] /\ SendWhenDrained(o)
      BY <1>1 DEF Enqueue
    <2>2. Frames'
      BY <2>1, FramesSent, TypesSplit DEF IInv, Open
    <2>3. serving' \subseteq Op /\ held' \subseteq Op
      BY <2>1, TypesSplit DEF IInv, SendWhenDrained, ftypes
    <2> QED BY <2>2, <2>3, TypesSplit DEF IInv, ftypes
  <1>2. CASE ~(idle /\ Alive)
    <2>1. /\ UNCHANGED <<held, serving>>
          /\ \E r \in States : state' = [state EXCEPT ![o] = r]
      BY <1>2 DEF Enqueue, States, Settled
    <2>2. \A x \in Op : state[x] \in Open => state'[x] \in Open
      BY <2>1, TypesSplit DEF IInv, qtypes, Open
    <2>3. Frames'
      BY <2>1, <2>2, FramesKept, TypesSplit DEF IInv
    <2> QED BY <2>1, <2>3, TypesSplit DEF IInv, ftypes
  <1> QED BY <1>1, <1>2

LEMMA PassTurnStep == ASSUME IInv, PassTurn PROVE IInv'
  <1>1. qtypes' /\ QInv'
    BY PassTurnKeeps, TypesSplit DEF IInv
  <1>2. ftypes' /\ Frames'
    BY PassTurnFrames
  <1>3. rtypes' /\ Ends'
    BY TypesSplit DEF IInv, PassTurn, rtypes, Ends, conn, calls, progress, remoteSide
  <1> QED BY <1>1, <1>2, <1>3, TypesSplitNext DEF IInv

LEMMA CacheSteps ==
    ASSUME IInv, InvalidateListCache \/ \E p \in Path : ExpireCache(p)
    PROVE  IInv'
  <1>1. cache' \in [Path -> Nat \cup {None}]
    BY TypesSplit DEF IInv, rtypes, InvalidateListCache, ExpireCache, EmptyCache
  <1>2. UNCHANGED <<conn, calls, state, queue, started, idle, pending, held,
                    progress, cwd, server, seen>>
    BY DEF InvalidateListCache, ExpireCache
  <1>3. rtypes' /\ Ends'
    BY <1>1, <1>2, TypesSplit DEF IInv, rtypes, Ends, conn, calls, progress, server
  <1> QED
    BY <1>2, <1>3, QueueUntouched, TypesSplitNext
    DEF IInv, conn, calls, server, qvars

LEMMA CallStep == ASSUME IInv, NEW o \in Op, Call(o) PROVE IInv'
  <1> PICK c \in Commands : CallList(o, c) \/ CallMutation(o, c) \/ CallDownload(o, c)
    BY DEF Call
  <1>1. state[o] = "new" /\ cmd' = [cmd EXCEPT ![o] = c] /\ replies' = replies
    BY DEF Call, CallList, CallMutation, CallDownload, Issue
  <1>2. c.path \in Path /\ Resolve[c.path] \in Path
    BY SessionAssumption DEF CommandType
  <1>3. UNCHANGED conn /\ UNCHANGED progress /\ UNCHANGED remoteSide
    BY DEF CallList, CallMutation, CallDownload
  <1>4. called' \in [Op -> SUBSET Op] /\ done' \in [Op -> SUBSET Op]
    BY TypesSplit DEF IInv, rtypes, CallList, CallMutation, CallDownload, Issue
  <1>5. cache' \in [Path -> Nat \cup {None}]
    BY TypesSplit DEF IInv, rtypes, CallList, CallMutation, CallDownload, EmptyCache
  <1>6. cwd' \in Path
    BY <1>2, TypesSplit DEF IInv, rtypes, CallList, CallMutation, CallDownload
  <1>7. seen' \in [Op -> Nat] /\ hits' \subseteq Op
    <2>1. cache[c.path] # None => cache[c.path] \in Nat
      BY <1>2, TypesSplit DEF IInv, rtypes
    <2>2. \/ UNCHANGED <<seen, hits>>
          \/ cache[c.path] # None /\ seen' = [seen EXCEPT ![o] = cache[c.path]]
             /\ hits' = hits \cup {o}
      BY DEF CallList, CallMutation, CallDownload
    <2> QED BY <2>1, <2>2, TypesSplit DEF IInv, rtypes
  <1>8. rtypes' /\ Ends'
    BY <1>3, <1>4, <1>5, <1>6, <1>7, TypesSplit
    DEF IInv, rtypes, Ends, conn, progress, remoteSide
  <1>9. \/ Enqueue(o)
        \/ /\ \E r \in Settled : state' = [state EXCEPT ![o] = r]
           /\ UNCHANGED <<queue, started, idle, pending, held, serving>>
    BY DEF CallList, CallMutation, CallDownload, Settled
  <1>10. CASE Enqueue(o)
    <2>1. qtypes' /\ QInv'
      BY <1>1, <1>10, EnqueueKeeps, TypesSplit DEF IInv
    <2>2. ftypes' /\ Frames'
      BY <1>1, <1>10, <2>1, EnqueueFrames DEF qtypes
    <2> QED BY <1>8, <2>1, <2>2, TypesSplitNext DEF IInv
  <1>11. ASSUME NEW r \in Settled, state' = [state EXCEPT ![o] = r],
                UNCHANGED <<queue, started, idle, pending, held, serving>>
         PROVE  IInv'
    <2>1. qtypes' /\ QInv'
      BY <1>1, <1>11, AnswerKeeps, TypesSplit DEF IInv
    <2>2. \A x \in Op : state[x] \in Open => state'[x] \in Open
      BY <1>1, <1>11, TypesSplit DEF IInv, qtypes, Open
    <2>3. ftypes' /\ Frames'
      BY <1>1, <1>11, <2>1, <2>2, FramesKept, TypesSplit DEF IInv, ftypes, qtypes
    <2> QED BY <1>8, <2>1, <2>3, TypesSplitNext DEF IInv
  <1> QED BY <1>9, <1>10, <1>11

LEMMA PollHeldStep == ASSUME IInv, NEW o \in Op, PollHeld(o) PROVE IInv'
  <1>1. /\ o \in held /\ held' = held \ {o} /\ replies' = replies
        /\ UNCHANGED <<conn, calls, idle, progress, cache, cwd, remoteSide, seen>>
    BY DEF PollHeld
  <1>2. rtypes' /\ Ends'
    BY <1>1, TypesSplit DEF IInv, rtypes, Ends, conn, calls, progress, remoteSide
  <1>3. /\ state[o] \in Open /\ o \notin serving
        /\ \A i \in 1..Len(replies) : replies[i].op # o
    BY <1>1, TypesSplit DEF IInv, Frames
  <1>4. CASE UNCHANGED <<state, queue, started, pending, serving>>
    <2>1. qtypes' /\ QInv'
      BY <1>1, <1>4, TypesSplit
      DEF IInv, calls, qtypes, QInv, Issued, QueueShape, PendingRuns
    <2>2. ftypes' /\ Frames'
      BY <1>1, <1>4, TypesSplit DEF IInv, ftypes, Frames
    <2> QED BY <1>2, <2>1, <2>2, TypesSplitNext DEF IInv
  <1>5. CASE serving' = serving \cup {o} /\ UNCHANGED <<state, queue, started, pending>>
    <2>1. qtypes' /\ QInv'
      BY <1>1, <1>5, TypesSplit
      DEF IInv, calls, qtypes, QInv, Issued, QueueShape, PendingRuns
    <2>2. ftypes' /\ Frames'
      BY <1>1, <1>3, <1>5, TypesSplit DEF IInv, ftypes, Frames
    <2> QED BY <1>2, <2>1, <2>2, TypesSplitNext DEF IInv
  <1>6. CASE /\ o \in pending /\ pending' = pending \ {o}
             /\ Settle(o, "rejected") /\ UNCHANGED serving
    <2>1. state[o] \in Active
      BY <1>6 DEF IInv, QInv, PendingRuns, Active
    <2>2. qtypes' /\ QInv'
      BY <1>1, <1>6, <2>1, SettleActive, TypesSplit DEF IInv, calls, Settled
    <2>3. \A x \in Op : state'[x] = IF x = o THEN "rejected" ELSE state[x]
      BY <1>6, TypesSplit DEF IInv, qtypes, Settle
    <2>4. \A i \in 1..Len(replies) : replies[i].op \in Op
      BY ReplyNamesOp, TypesSplit DEF IInv
    <2>5. Frames'
      BY <1>1, <1>6, <2>3, <2>4 DEF IInv, Frames, Open
    <2>6. ftypes'
      BY <1>1, <1>6, <2>2, TypesSplit DEF IInv, ftypes, qtypes
    <2> QED BY <1>2, <2>2, <2>5, <2>6, TypesSplitNext DEF IInv
  <1> QED BY <1>4, <1>5, <1>6 DEF PollHeld, HeldIsWanted

LEMMA ContinueUploadStep == ASSUME IInv, NEW o \in Op, ContinueUpload(o) PROVE IInv'
  <1>1. /\ state[o] = "acked" /\ state[o] \in Active /\ state[o] \notin Open
        /\ UNCHANGED <<conn, calls, idle, progress, cache, cwd, remoteSide, replies, seen>>
    BY DEF ContinueUpload, Active, Open
  <1>2. rtypes' /\ Ends'
    BY <1>1, TypesSplit DEF IInv, rtypes, Ends, conn, calls, progress, remoteSide
  <1>3. CASE Alive
    <2>1. /\ state' = [state EXCEPT ![o] = "running"] /\ pending' = pending \cup {o}
          /\ SendWhenDrained(o) /\ UNCHANGED <<queue, started>>
      BY <1>3 DEF ContinueUpload
    <2>2. qtypes' /\ QInv'
      BY <1>1, <2>1, ProgressKeeps, TypesSplit DEF IInv, calls, Active
    <2>3. Frames'
      BY <1>1, <2>1, FramesSent, TypesSplit DEF IInv
    <2>4. ftypes'
      BY <1>1, <2>1, <2>2, TypesSplit DEF IInv, ftypes, qtypes, SendWhenDrained
    <2> QED BY <1>2, <2>2, <2>3, <2>4, TypesSplitNext DEF IInv
  <1>4. CASE ~Alive
    <2>1. Settle(o, "rejected") /\ UNCHANGED <<pending, held, serving>>
      BY <1>4 DEF ContinueUpload
    <2>2. o \notin pending /\ pending' = pending \ {o}
      BY <1>1, <2>1 DEF IInv, QInv, PendingRuns
    <2>3. qtypes' /\ QInv'
      BY <1>1, <2>1, <2>2, SettleActive, TypesSplit DEF IInv, calls, Settled
    <2>4. \A x \in Op : state[x] \in Open => state'[x] \in Open
      BY <1>1, <2>1, TypesSplit DEF IInv, qtypes, Settle, Open
    <2>5. Frames'
      BY <1>1, <2>1, <2>3, <2>4, FramesKept, TypesSplit DEF IInv, qtypes
    <2>6. ftypes'
      BY <1>1, <2>1, <2>3, TypesSplit DEF IInv, ftypes, qtypes
    <2> QED BY <1>2, <2>3, <2>5, <2>6, TypesSplitNext DEF IInv
  <1> QED BY <1>3, <1>4

LEMMA SinkSteps == ASSUME IInv, NEW o \in Op, WriteSink(o) \/ FinishSink(o) PROVE IInv'
  <1>1. CASE WriteSink(o)
    <2>2. sinkError' \in [Op -> BOOLEAN] /\ sunk' \in [Op -> Nat]
      <3>1. /\ sunk \in [Op -> Nat] /\ sinkError \in [Op -> BOOLEAN]
            /\ sunk' = [sunk EXCEPT ![o] = @ + 1]
            /\ sinkError' = sinkError \/ sinkError' = [sinkError EXCEPT ![o] = TRUE]
        BY <1>1, TypesSplit, Zenon DEF IInv, WriteSink, rtypes
      <3>2. [sinkError EXCEPT ![o] = TRUE] \in [Op -> BOOLEAN]
        BY <3>1
      <3>3. sunk' \in [Op -> Nat]
        BY <3>1
      <3> QED BY <3>1, <3>2, <3>3, Zenon
    <2>3. UNCHANGED <<conn, calls, slice, got, cache, cwd, server, seen>>
      BY <1>1 DEF WriteSink
    <2>1. rtypes' /\ Ends'
      BY <2>2, <2>3, TypesSplit DEF IInv, rtypes, Ends, conn, calls, server
    <2> QED
      BY <1>1, <2>1, QueueUntouched, TypesSplitNext
      DEF IInv, WriteSink, calls, server, qvars
  <1>2. CASE FinishSink(o)
    <2>1. /\ state[o] = "draining" /\ state[o] \in Active
          /\ \E r \in Settled : Settle(o, r)
          /\ UNCHANGED <<conn, calls, idle, pending, held, progress, cache, cwd, server, seen>>
      BY <1>2 DEF FinishSink, Active, Settled
    <2>2. PICK r \in Settled : Settle(o, r)
      BY <2>1
    <2>3. pending' = pending \ {o}
      BY <2>1 DEF IInv, QInv, PendingRuns
    <2>4. qtypes' /\ QInv'
      BY <2>1, <2>2, <2>3, SettleActive, TypesSplit DEF IInv, calls
    <2>5. \A x \in Op : state[x] \in Open => state'[x] \in Open
      BY <2>1, <2>2, TypesSplit DEF IInv, qtypes, Settle, Open
    <2>6. Frames' /\ ftypes'
      BY <2>1, <2>4, <2>5, FramesKept, TypesSplit DEF IInv, qtypes, ftypes, server
    <2>7. rtypes' /\ Ends'
      BY <2>1, TypesSplit DEF IInv, rtypes, Ends, conn, calls, progress, server
    <2> QED BY <2>4, <2>6, <2>7, TypesSplitNext DEF IInv
  <1> QED BY <1>1, <1>2

LEMMA KokoStep == ASSUME IInv, NEW o \in Op, KokoRuns(o) PROVE IInv'
  <1>1. o \in serving /\ UNCHANGED <<client, greeted, history>>
    BY DEF KokoRuns
  <1>2. cmd[o] \in Commands /\ Dir(o) \in Path /\ remote[Dir(o)] \in Nat
    <2>1. cmd[o] \in Commands
      BY <1>1 DEF IInv, Frames, QInv, Issued, Open
    <2>2. Dir(o) \in Path
      BY <2>1, SessionAssumption DEF CommandType, Dir
    <2> QED BY <2>1, <2>2, TypesSplit DEF IInv, rtypes
  <1>3. qtypes' /\ QInv'
    BY <1>1, TypesSplit
    DEF IInv, client, qtypes, QInv, Issued, QueueShape, PendingRuns
  <1>4. CASE Fail(o)
    <2> DEFINE m == [op |-> o, type |-> "err", version |-> 0]
    <2>1. m \in Message
      BY DEF Message
    <2>2. Reply(m) /\ serving' = serving \ {o} /\ UNCHANGED <<sent, applied, merged, remote>>
      BY <1>4 DEF Fail
    <2>3. Frames'
      BY <1>1, <2>1, <2>2, FramesAnswered, TypesSplit DEF IInv, client
    <2>4. ftypes'
      BY <1>1, <2>1, <2>2, AppendProperties, TypesSplit DEF IInv, ftypes, client, Reply
    <2>5. rtypes' /\ Ends'
      BY <1>1, <2>2, TypesSplit DEF IInv, rtypes, Ends, client, history
    <2> QED BY <1>3, <2>3, <2>4, <2>5, TypesSplitNext DEF IInv
  <1>5. CASE Execute(o)
    <2>1. PICK m \in Message :
             /\ m.op = o
             /\ serving' = IF m.type = "binary" THEN serving ELSE serving \ {o}
             /\ Reply(m)
      <3> DEFINE more == cmd[o].kind \in Downloads /\ sent[o] < Chunks
                 version == IF \/ cmd[o].kind = "mutate"
                               \/ cmd[o].kind = "upload" /\ slice[o] < Slices
                            THEN remote[Dir(o)] + 1 ELSE remote[Dir(o)]
                 m == [op |-> o, type |-> IF more THEN "binary" ELSE "data",
                       version |-> version]
      <3>1. version \in Nat
        BY <1>2
      <3>2. m \in Message
        BY <3>1 DEF Message
      <3>3. /\ m.op = o /\ Reply(m)
            /\ serving' = IF m.type = "binary" THEN serving ELSE serving \ {o}
        BY <1>5 DEF Execute
      <3> QED BY <3>2, <3>3
    <2>2. Frames'
      BY <1>1, <2>1, FramesAnswered, TypesSplit DEF IInv, client
    <2>3. ftypes'
      BY <1>1, <2>1, AppendProperties, TypesSplit DEF IInv, ftypes, client, Reply
    <2>4. remote' \in [Path -> Nat]
      BY <1>2, <1>5, TypesSplit DEF IInv, rtypes, Execute
    <2>5. sent' \in [Op -> Nat] /\ applied' \in [Op -> Nat] /\ merged' \subseteq Op
      BY <1>5, TypesSplit DEF IInv, rtypes, Execute
    <2>6. rtypes' /\ Ends'
      BY <1>1, <2>4, <2>5, TypesSplit DEF IInv, rtypes, Ends, client, history
    <2> QED BY <1>3, <2>2, <2>3, <2>6, TypesSplitNext DEF IInv
  <1> QED BY <1>4, <1>5 DEF KokoRuns

LEMMA ReceiveStep == ASSUME IInv, ReceiveForCommand PROVE IInv'
  <1> DEFINE m == Head(replies)
             o == m.op
  <1>1. /\ replies # <<>> /\ replies' = Tail(replies)
        /\ UNCHANGED <<conn, calls, idle, remoteSide>>
    BY DEF ReceiveForCommand
  <1>2. m \in Message /\ o \in Op /\ m.version \in Nat /\ Tail(replies) \in Seq(Message)
    <2>1. m \in Message /\ Tail(replies) \in Seq(Message)
      BY <1>1, HeadTailProperties, TypesSplit DEF IInv, ftypes
    <2> QED BY <2>1 DEF Message
  <1>3. Ends'
    BY <1>1 DEF IInv, Ends, conn
  <1> HIDE DEF o
  <1>4. CASE o \notin pending
    <2>1. UNCHANGED <<state, queue, started, pending, held, serving, progress, cache, cwd, seen>>
      BY <1>4 DEF ReceiveForCommand, o
    <2>2. rtypes'
      BY <1>1, <2>1, TypesSplit DEF IInv, rtypes, conn, calls, progress, remoteSide
    <2>3. qtypes' /\ QInv'
      BY <1>1, <2>1, TypesSplit
      DEF IInv, calls, qtypes, QInv, Issued, QueueShape, PendingRuns
    <2>4. Frames'
      BY <1>1, <2>1, FramesReceived, TypesSplit DEF IInv, qtypes
    <2>5. ftypes'
      BY <1>1, <1>2, <2>1, TypesSplit DEF IInv, ftypes
    <2> QED BY <1>3, <2>2, <2>3, <2>4, <2>5, TypesSplitNext DEF IInv
  <1>5. ASSUME o \in pending
        PROVE  /\ state[o] = "running" /\ state[o] \in Active /\ cmd[o] \in Commands
               /\ cmd[o].path \in Path /\ Dir(o) \in Path
    <2>1. state[o] = "running" /\ cmd[o] \in Commands
      BY <1>2, <1>5 DEF IInv, QInv, PendingRuns, Issued
    <2> QED BY <2>1, SessionAssumption DEF Active, CommandType, Dir
  \* However the message is taken, the session's bookkeeping and the command's
  \* change of state decide what is left to show.
  <1>6. ASSUME o \in pending, UNCHANGED <<held, serving>>,
               slice' \in [Op -> 0..Slices], got' \in [Op -> Nat],
               UNCHANGED <<sunk, sinkError>>, cache' \in [Path -> Nat \cup {None}],
               cwd' \in Path, seen' \in [Op -> Nat],
               \/ /\ pending' = pending \ {o}
                  /\ \/ Settle(o, "rejected")
                     \/ m.type # "binary" /\ Settle(o, "resolved")
                     \/ /\ m.type # "binary" /\ UNCHANGED <<queue, started>>
                        /\ \E s \in {"acked", "draining"} : state' = [state EXCEPT ![o] = s]
               \/ UNCHANGED <<pending, state, queue, started>>
        PROVE  IInv'
    <2>1. rtypes'
      BY <1>1, <1>6, TypesSplit DEF IInv, rtypes, conn, calls, remoteSide
    <2>2. qtypes' /\ QInv'
      <3>1. CASE UNCHANGED <<pending, state, queue, started>>
        BY <1>1, <3>1, TypesSplit
        DEF IInv, calls, qtypes, QInv, Issued, QueueShape, PendingRuns
      <3>2. CASE /\ pending' = pending \ {o}
                 /\ Settle(o, "rejected") \/ Settle(o, "resolved")
        BY <1>1, <1>2, <1>5, <1>6, <3>2, SettleActive, TypesSplit DEF IInv, calls, Settled
      <3>3. CASE /\ pending' = pending \ {o} /\ UNCHANGED <<queue, started>>
                 /\ \E s \in {"acked", "draining"} : state' = [state EXCEPT ![o] = s]
        BY <1>1, <1>2, <1>5, <1>6, <3>3, ProgressKeeps, TypesSplit DEF IInv, calls, Active
      <3> QED BY <1>6, <3>1, <3>2, <3>3
    <2>3. \A x \in Op : state[x] \in Open =>
             state'[x] \in Open \/ (x = m.op /\ m.type # "binary")
      BY <1>6, TypesSplit DEF IInv, qtypes, Settle, Open, o
    <2>4. Frames'
      BY <1>1, <1>6, <2>2, <2>3, FramesReceived, TypesSplit DEF IInv, qtypes
    <2>5. ftypes'
      BY <1>1, <1>2, <1>6, <2>2, TypesSplit DEF IInv, ftypes, qtypes
    <2> QED BY <1>3, <2>1, <2>2, <2>4, <2>5, TypesSplitNext DEF IInv
  <1>7. CASE o \in pending /\ m.type = "err"
    <2>1. /\ pending' = pending \ {o} /\ Settle(o, "rejected")
          /\ UNCHANGED <<held, serving, progress, cache, cwd, seen>>
      BY <1>7 DEF ReceiveForCommand, o
    <2> QED BY <1>6, <1>7, <2>1, TypesSplit DEF IInv, rtypes, progress
  <1>8. CASE o \in pending /\ m.type = "binary"
    <2>1. Binary(o)
      BY <1>8 DEF ReceiveForCommand, o
    <2>2. got' \in [Op -> Nat]
      <3>1. got \in [Op -> Nat]
        BY TypesSplit DEF IInv, rtypes
      <3>2. \/ got' = got
            \/ got' = [got EXCEPT ![o] = IF cmd[o].kind = "read" /\ @ = ReadMax
                                         THEN @ ELSE @ + 1]
        BY <2>1, Zenon DEF Binary
      <3> QED BY <1>2, <3>1, <3>2
    <2>3. /\ UNCHANGED <<slice, sunk, sinkError, held, serving, cache, cwd, seen>>
          /\ \/ pending' = pending \ {o} /\ Settle(o, "rejected")
             \/ UNCHANGED <<pending, state, queue, started>>
      BY <2>1 DEF Binary
    <2>4. /\ slice' \in [Op -> 0..Slices] /\ cache' \in [Path -> Nat \cup {None}]
          /\ cwd' \in Path /\ seen' \in [Op -> Nat]
      <3>1. slice' = slice /\ cache' = cache /\ cwd' = cwd /\ seen' = seen
        BY <2>3, Zenon
      <3>2. /\ slice \in [Op -> 0..Slices] /\ cache \in [Path -> Nat \cup {None}]
            /\ cwd \in Path /\ seen \in [Op -> Nat]
        BY TypesSplit DEF IInv, rtypes
      <3> QED BY <3>1, <3>2, Zenon
    <2>5. UNCHANGED <<held, serving>> /\ UNCHANGED <<sunk, sinkError>>
      BY <2>3
    <2> QED BY <1>6, <1>8, <2>2, <2>3, <2>4, <2>5, Zenon
  <1>9. CASE o \in pending /\ m.type = "data"
    <2>1. Answered(o, m.version)
      BY <1>9 DEF ReceiveForCommand, o
    <2>2. slice' \in [Op -> 0..Slices]
      <3>1. MoreFrames(o) => slice[o] + 1 \in 0..Slices
        BY <1>2, SessionAssumption, TypesSplit DEF IInv, rtypes, MoreFrames
      <3> QED BY <2>1, <3>1, TypesSplit DEF IInv, rtypes, Answered
    <2>3. cache' \in [Path -> Nat \cup {None}]
      BY <1>2, <1>5, <1>9, <2>1, TypesSplit DEF IInv, rtypes, Answered, FillCache
    <2>4. cwd' \in Path
      BY <1>5, <1>9, <2>1, TypesSplit DEF IInv, rtypes, Answered
    <2>5. seen' \in [Op -> Nat]
      BY <1>2, <2>1, TypesSplit DEF IInv, rtypes, Answered
    <2>6. /\ pending' = pending \ {o} /\ UNCHANGED <<got, sunk, sinkError, held, serving>>
          /\ \/ Settle(o, "resolved")
             \/ /\ UNCHANGED <<queue, started>>
                /\ \E s \in {"acked", "draining"} : state' = [state EXCEPT ![o] = s]
      BY <2>1 DEF Answered
    <2> QED BY <1>6, <1>9, <2>2, <2>3, <2>4, <2>5, <2>6, TypesSplit DEF IInv, rtypes
  <1> QED BY <1>2, <1>4, <1>7, <1>8, <1>9 DEF Message

LEMMA StepKeepsIInv == IInv /\ [Next]_vars => IInv'
  <1> SUFFICES ASSUME IInv, [Next]_vars PROVE IInv'
    OBVIOUS
  <1>1. CASE UNCHANGED vars
    <2>1. rtypes' /\ Ends'
      BY <1>1, TypesSplit DEF IInv, vars, client, server, history, rtypes, Ends
    <2> QED
      BY <1>1, <2>1, QueueUntouched, TypesSplitNext
      DEF IInv, vars, client, server, qvars
  <1>2. CASE Next
    BY <1>2, ConnectingKeeps, ClosingKeeps, PassTurnStep, ReceiveStep, CacheSteps,
       CallStep, PollHeldStep, ContinueUploadStep, SinkSteps, KokoStep
    DEF Next
  <1> QED BY <1>1, <1>2

THEOREM Invariance == Spec => []IInv
  BY InitIInv, StepKeepsIInv, PTL DEF Spec

----------------------------------------------------------------------------
\* The results.

\* The state of the session, of the socket and of KoKo is always well typed.
THEOREM TypeCorrect == Spec => []TypeOK
  <1>1. IInv => TypeOK
    BY DEF IInv
  <1> QED BY <1>1, Invariance, PTL

\* Whole commands are serialized on the wire (queueTail): KoKo never holds a
\* frame of a command beside that of the one the session runs, except of a
\* command the session has given up on.
THEOREM Serialized == Spec => []OneCommandAtKoko
  <1>1. IInv => OneCommandAtKoko
    <2> SUFFICES ASSUME IInv PROVE OneCommandAtKoko
      OBVIOUS
    <2>1. ASSUME NEW o \in Op, state[o] = "running" PROVE Runs(o)
      BY <2>1, ActiveIsHead, TypesSplit DEF IInv, Active, Runs
    <2>2. \A o \in pending : Runs(o)
      BY <2>1, TypesSplit DEF IInv, qtypes, QInv, PendingRuns
    <2>3. \A o \in serving : Runs(o) \/ state[o] = "rejected"
      BY <2>1, TypesSplit DEF IInv, ftypes, Frames, Open
    <2> QED BY <2>2, <2>3 DEF OneCommandAtKoko
  <1> QED BY <1>1, Invariance, PTL

\* dispose() and connect() leave no socket open between them, in whatever
\* order the handshake, CONNECT, a close and the dispose come.
THEOREM NoLeak == Spec => []NoSocketLeft
  <1>1. IInv => NoSocketLeft
    BY DEF IInv, Ends, NoSocketLeft
  <1> QED BY <1>1, Invariance, PTL

\* A disposed session sends nothing any more: neither a frame that waited for
\* the socket to drain, nor a queued command, nor an upload's next slice.
THEOREM SilentAfterDispose == Spec => NothingSentAfterDispose
  <1>1. IInv /\ [Next]_vars => [disposed => serving' \subseteq serving]_vars
    <2> SUFFICES ASSUME IInv, Next, disposed PROVE serving' \subseteq serving
      BY DEF vars, server
    <2>1. ~Alive /\ ~socket
      BY DEF IInv, Ends, Alive
    <2>2. CASE Connecting
      BY <2>2 DEF Connecting, FinishRest, FinishHandshake, ReceiveConnect, server
    <2>3. CASE Closing
      BY <2>3 DEF Closing, SocketClosed, SessionClosed, Dispose, server
    <2>4. CASE PassTurn
      BY <2>1, <2>4 DEF PassTurn
    <2>5. CASE ReceiveForCommand
      BY <2>5 DEF ReceiveForCommand, Binary, Answered
    <2>6. CASE InvalidateListCache \/ \E p \in Path : ExpireCache(p)
      BY <2>6 DEF InvalidateListCache, ExpireCache, server
    <2>7. ASSUME NEW o \in Op, Call(o) PROVE serving' \subseteq serving
      BY <2>1, <2>7 DEF Call, CallList, CallMutation, CallDownload, Enqueue
    <2>8. ASSUME NEW o \in Op, PollHeld(o) \/ ContinueUpload(o) PROVE serving' \subseteq serving
      BY <2>1, <2>8 DEF PollHeld, HeldIsWanted, ContinueUpload
    <2>9. ASSUME NEW o \in Op, WriteSink(o) \/ FinishSink(o) \/ KokoRuns(o)
          PROVE  serving' \subseteq serving
      BY <2>9 DEF WriteSink, FinishSink, KokoRuns, Fail, Execute, server
    <2> QED BY <2>2, <2>3, <2>4, <2>5, <2>6, <2>7, <2>8, <2>9 DEF Next
  <1> QED BY <1>1, Invariance, PTL DEF Spec, NothingSentAfterDispose

----------------------------------------------------------------------------
\* The refinement of SerialCommands: what each step does to the queue and to
\* the promises is one step of the abstract specification, or none.

Waits == Active \cup {"queued"}
Outcome == [o \in Op |-> IF state[o] \in Settled \cup {"new"} THEN state[o] ELSE "accepted"]

LEMMA SettleIsFinish ==
    ASSUME qtypes, queue # <<>>, NEW result \in Settled, Settle(Head(queue), result)
    PROVE  Serial!Next
  <1>1. Head(queue) \in Op
    BY HeadTailProperties DEF qtypes
  <1>2. Outcome' = [Outcome EXCEPT ![Head(queue)] = result]
    BY <1>1 DEF Outcome, Settle, qtypes
  <1>3. Serial!Finish
    BY <1>2 DEF Serial!Finish, Serial!Settled, Settled, Outcome, Settle
  <1> QED BY <1>3 DEF Serial!Next

LEMMA RefusalIsAnswer ==
    ASSUME qtypes, NEW o \in Op, state[o] = "new", NEW result \in Settled,
           state' = [state EXCEPT ![o] = result], queue' = queue
    PROVE  Serial!Next
  <1>1. Outcome[o] = "new" /\ Outcome' = [Outcome EXCEPT ![o] = result]
    BY DEF Outcome, qtypes
  <1>2. Serial!Answer(o)
    BY <1>1 DEF Serial!Answer, Serial!Settled, Settled, Outcome
  <1> QED BY <1>2 DEF Serial!Next

LEMMA EnqueueIsAccept ==
    ASSUME qtypes, QInv, NEW o \in Op, state[o] = "new", Enqueue(o)
    PROVE  Serial!Next
  <1>1. CASE idle /\ ~Alive
    <2>1. state' = [state EXCEPT ![o] = "rejected"] /\ queue' = queue
      BY <1>1 DEF Enqueue
    <2> QED BY <2>1, RefusalIsAnswer DEF Settled
  <1>2. CASE Alive \/ ~idle
    <2>1. /\ queue' = Append(queue, o)
          /\ \E s \in {"running", "queued"} : state' = [state EXCEPT ![o] = s]
      BY <1>2 DEF Enqueue
    <2>2. Outcome[o] = "new" /\ Outcome' = [Outcome EXCEPT ![o] = "accepted"]
      BY <2>1 DEF Outcome, qtypes, Settled
    <2>3. Serial!Accept(o)
      BY <2>1, <2>2 DEF Serial!Accept, Outcome
    <2> QED BY <2>3 DEF Serial!Next
  <1> QED BY <1>1, <1>2

LEMMA ProgressIsStutter ==
    ASSUME qtypes, queue' = queue, NEW o \in Op, state[o] \in Waits, NEW s \in Waits,
           state' = [state EXCEPT ![o] = s]
    PROVE  UNCHANGED Serial!vars
  <1>1. Outcome' = Outcome
    BY DEF Outcome, qtypes, Waits, Active, Settled
  <1> QED BY <1>1 DEF Serial!vars, Outcome

LEMMA QuietIsStutter ==
    ASSUME queue' = queue, state' = state PROVE UNCHANGED Serial!vars
  BY DEF Serial!vars

\* The commands that a close fails are the head, or none.
LEMMA RejectAllIsFinish ==
    ASSUME qtypes, QInv, RejectAll PROVE [Serial!Next]_(Serial!vars)
  <1>1. CASE pending = {}
    <2>1. state' = state /\ queue' = queue
      BY <1>1 DEF RejectAll, qtypes
    <2> QED BY <2>1, QuietIsStutter
  <1>2. CASE pending # {}
    <2>1. PICK o \in Op : o \in pending
      BY <1>2 DEF qtypes
    <2>2. state[o] = "running" /\ state[o] \in Active
      BY <2>1 DEF QInv, PendingRuns, Active
    <2>3. started /\ queue # <<>> /\ o = Head(queue) /\ pending = {o}
      BY <2>1, <2>2, ActiveIsHead DEF QInv, PendingRuns, qtypes, Active
    <2>4. Settle(Head(queue), "rejected")
      BY <2>3 DEF RejectAll, qtypes, Settle
    <2> QED BY <2>3, <2>4, SettleIsFinish DEF Settled
  <1> QED BY <1>1, <1>2

\* The command that is dispatched moves on, or settles.
LEMMA MoveRefines ==
    ASSUME qtypes, QInv, NEW o \in Op, state[o] \in Active,
           \/ \E r \in Settled : Settle(o, r)
           \/ queue' = queue /\ \E s \in Active : state' = [state EXCEPT ![o] = s]
           \/ queue' = queue /\ state' = state
    PROVE  [Serial!Next]_(Serial!vars)
  <1>1. queue # <<>> /\ o = Head(queue)
    BY ActiveIsHead
  <1>2. CASE \E r \in Settled : Settle(o, r)
    BY <1>1, <1>2, SettleIsFinish
  <1>3. CASE queue' = queue /\ \E s \in Active : state' = [state EXCEPT ![o] = s]
    BY <1>3, ProgressIsStutter DEF Waits
  <1>4. CASE queue' = queue /\ state' = state
    BY <1>4, QuietIsStutter
  <1> QED BY <1>2, <1>3, <1>4

LEMMA StepRefines == IInv /\ [Next]_vars => [Serial!Next]_(Serial!vars)
  <1> SUFFICES ASSUME IInv, [Next]_vars PROVE [Serial!Next]_(Serial!vars)
    OBVIOUS
  <1> qtypes /\ QInv
    BY TypesSplit DEF IInv
  <1>1. CASE UNCHANGED vars \/ Connecting \/ InvalidateListCache
             \/ \E p \in Path : ExpireCache(p)
    <2>1. queue' = queue /\ state' = state
      BY <1>1 DEF vars, client, Connecting, FinishRest, FinishHandshake, ReceiveConnect,
                  InvalidateListCache, ExpireCache
    <2> QED BY <2>1, QuietIsStutter
  <1>2. CASE Closing
    <2>1. RejectAll
      BY <1>2 DEF Closing, SocketClosed, SessionClosed, Dispose, HandleClose
    <2> QED BY <2>1, RejectAllIsFinish
  <1>3. CASE PassTurn
    <2>1. CASE UNCHANGED <<state, queue>>
      BY <2>1, QuietIsStutter
    <2>2. CASE queue # <<>> /\ Settle(Head(queue), "rejected")
      BY <2>2, SettleIsFinish DEF Settled
    <2>3. CASE queue # <<>> /\ state' = [state EXCEPT ![Head(queue)] = "running"] /\ queue' = queue
      <3>1. Head(queue) \in Op /\ state[Head(queue)] = "queued"
        BY <1>3, <2>3, HeadTailProperties DEF PassTurn, qtypes, QInv, QueueShape
      <3> QED BY <2>3, <3>1, ProgressIsStutter DEF Waits, Active
    <2> QED BY <1>3, <2>1, <2>2, <2>3 DEF PassTurn
  <1>4. CASE ReceiveForCommand
    <2> DEFINE o == Head(replies).op
    <2>1. CASE o \notin pending
      BY <1>4, <2>1, QuietIsStutter DEF ReceiveForCommand
    <2>2. CASE o \in pending
      <3>1. o \in Op /\ state[o] \in Active
        BY <2>2 DEF QInv, PendingRuns, qtypes, Active
      <3>2. \/ Settle(o, "rejected") \/ Binary(o) \/ Answered(o, Head(replies).version)
        BY <1>4, <2>2 DEF ReceiveForCommand
      <3> HIDE DEF o
      <3> QED BY <3>1, <3>2, MoveRefines DEF Binary, Answered, Settled, Active
    <2> QED BY <2>1, <2>2
  <1>5. ASSUME NEW o \in Op, Call(o) PROVE [Serial!Next]_(Serial!vars)
    <2>1. /\ state[o] = "new"
          /\ \/ Enqueue(o)
             \/ /\ \E r \in Settled : state' = [state EXCEPT ![o] = r]
                /\ queue' = queue
      BY <1>5 DEF Call, CallList, CallMutation, CallDownload, Settled
    <2> QED BY <2>1, EnqueueIsAccept, RefusalIsAnswer
  <1>6. ASSUME NEW o \in Op, PollHeld(o) PROVE [Serial!Next]_(Serial!vars)
    <2>1. CASE UNCHANGED <<state, queue>>
      BY <2>1, QuietIsStutter
    <2>2. CASE o \in pending /\ Settle(o, "rejected")
      BY <2>2, MoveRefines DEF QInv, PendingRuns, Active, Settled
    <2> QED BY <1>6, <2>1, <2>2 DEF PollHeld, HeldIsWanted
  <1>7. ASSUME NEW o \in Op, ContinueUpload(o) \/ FinishSink(o)
        PROVE  [Serial!Next]_(Serial!vars)
    BY <1>7, MoveRefines DEF ContinueUpload, FinishSink, Active, Settled
  <1>8. ASSUME NEW o \in Op, WriteSink(o) \/ KokoRuns(o) PROVE [Serial!Next]_(Serial!vars)
    BY <1>8, QuietIsStutter DEF WriteSink, KokoRuns, client
  <1> QED BY <1>1, <1>2, <1>3, <1>4, <1>5, <1>6, <1>7, <1>8 DEF Next

\* The session implements SerialCommands: a call is refused or answered at
\* once or accepted, and accepted commands settle one at a time in the order of
\* acceptance (enqueue, queueTail), whatever closes, stalls, failures and
\* disposes come in between; none is settled twice, and none is forgotten.
THEOREM Refines == Spec => ImplementsSerialCommands
  <1>1. Init => Serial!Init
    BY DEF Init, Serial!Init
  <1> QED
    BY <1>1, StepRefines, Invariance, PTL DEF Spec, ImplementsSerialCommands, Serial!Spec

----------------------------------------------------------------------------
(***************************************************************************)
(* What the session delivers, for every set of calls, commands and paths   *)
(* and every number of slices, chunks and limits: uploads are merged whole *)
(* or not at all, downloads that succeed are whole, and a listing that was *)
(* fetched shows the changes that were asked for before it.  These results *)
(* stand on IInv, the invariant of the queue and the frames.               *)
(***************************************************************************)

InFlight(o) == o \in serving \cup held

\* The frame that o waits for has been executed, and the message is on its way.
HasAnswer(o) == \E i \in 1..Len(replies) : replies[i].op = o /\ replies[i].type = "data"

\* The chunks of o that are on their way.
ChunksOf(o) == {i \in 1..Len(replies) : replies[i].op = o /\ replies[i].type = "binary"}
Coming(o) == Cardinality(ChunksOf(o))

----------------------------------------------------------------------------
\* The messages on their way.

LEMMA ComingIsNat ==
    ASSUME ftypes PROVE \A o \in Op : IsFiniteSet(ChunksOf(o)) /\ Coming(o) \in Nat
  <1> TAKE o \in Op
  <1>1. Len(replies) \in Nat
    BY DEF ftypes
  <1>2. IsFiniteSet(1..Len(replies))
    BY <1>1, FS_Interval
  <1>3. ChunksOf(o) \in SUBSET (1..Len(replies))
    BY DEF ChunksOf
  <1>4. IsFiniteSet(ChunksOf(o))
    BY <1>2, <1>3, FS_Subset
  <1> QED BY <1>4, FS_CardinalityType DEF Coming

LEMMA NothingComes ==
    ASSUME NEW o, \A i \in 1..Len(replies) : replies[i].op # o
    PROVE  ~HasAnswer(o) /\ Coming(o) = 0
  <1>1. ChunksOf(o) = {}
    BY DEF ChunksOf
  <1> QED BY <1>1, FS_EmptySet DEF HasAnswer, Coming

LEMMA MailAppended ==
    ASSUME ftypes, NEW m \in Message, replies' = Append(replies, m), NEW o \in Op
    PROVE  /\ HasAnswer(o)' => HasAnswer(o) \/ (m.op = o /\ m.type = "data")
           /\ Coming(o)' = IF m.op = o /\ m.type = "binary" THEN Coming(o) + 1 ELSE Coming(o)
  <1> DEFINE r == Append(replies, m)
             n == Len(replies) + 1
  <1>1. /\ Len(r) = n /\ r[n] = m /\ Len(replies) \in Nat /\ n \in Nat
        /\ \A i \in 1..Len(replies) : r[i] = replies[i]
    BY AppendProperties DEF ftypes
  <1>2. replies' = r
    OBVIOUS
  <1> HIDE DEF r
  <1>3. \A i \in 1..n : i = n \/ i \in 1..Len(replies)
    BY <1>1
  <1>4. HasAnswer(o)' => HasAnswer(o) \/ (m.op = o /\ m.type = "data")
    BY <1>1, <1>2, <1>3 DEF HasAnswer
  <1>5. n \notin ChunksOf(o) /\ IsFiniteSet(ChunksOf(o)) /\ Coming(o) \in Nat
    BY <1>1, ComingIsNat DEF ChunksOf
  <1>6. CASE m.op = o /\ m.type = "binary"
    <2>1. ChunksOf(o)' = ChunksOf(o) \cup {n}
      BY <1>1, <1>2, <1>6 DEF ChunksOf
    <2>2. Cardinality(ChunksOf(o) \cup {n}) = Cardinality(ChunksOf(o)) + 1
      BY <1>5, FS_AddElement
    <2> QED BY <1>4, <1>6, <2>1, <2>2 DEF Coming
  <1>7. CASE ~(m.op = o /\ m.type = "binary")
    <2>1. ChunksOf(o)' = ChunksOf(o)
      BY <1>1, <1>2, <1>7 DEF ChunksOf
    <2> QED BY <1>4, <1>7, <2>1 DEF Coming
  <1> QED BY <1>6, <1>7

LEMMA MailTaken ==
    ASSUME ftypes, replies # <<>>, replies' = Tail(replies), NEW o \in Op
    PROVE  LET m == Head(replies) IN
           /\ HasAnswer(o)' => HasAnswer(o)
           /\ m.op = o /\ m.type = "data" => HasAnswer(o)
           /\ m.op = o /\ m.type = "binary" => Coming(o) > 0 /\ Coming(o)' = Coming(o) - 1
           /\ ~(m.op = o /\ m.type = "binary") => Coming(o)' = Coming(o)
  <1> DEFINE r == Tail(replies)
             m == Head(replies)
  <1>1. /\ Len(r) = Len(replies) - 1 /\ Len(replies) \in Nat /\ Len(replies) >= 1
        /\ m = replies[1]
        /\ \A i \in 1..Len(r) : r[i] = replies[i+1]
    BY HeadTailProperties DEF ftypes
  <1>2. replies' = r
    OBVIOUS
  <1> HIDE DEF r, m
  <1>3. \A i \in 1..Len(r) : i + 1 \in 1..Len(replies)
    BY <1>1
  <1>4. HasAnswer(o)' => HasAnswer(o)
    BY <1>1, <1>2, <1>3 DEF HasAnswer
  <1>5. m.op = o /\ m.type = "data" => HasAnswer(o)
    BY <1>1 DEF HasAnswer
  <1> DEFINE old == ChunksOf(o)
             new == ChunksOf(o)'
             f == [i \in new |-> i + 1]
  <1>6. IsFiniteSet(old) /\ Coming(o) \in Nat
    BY ComingIsNat
  <1>7. IsFiniteSet(old \ {1}) /\ Cardinality(old \ {1}) =
           IF 1 \in old THEN Cardinality(old) - 1 ELSE Cardinality(old)
    BY <1>6, FS_RemoveElement
  <1>8. \A i \in new : i \in 1..Len(r) /\ r[i].op = o /\ r[i].type = "binary"
    BY <1>2 DEF ChunksOf
  <1>9. f \in Injection(new, old \ {1}) /\ f \in Surjection(new, old \ {1})
    <2>1. f \in [new -> old \ {1}]
      <3> SUFFICES ASSUME NEW i \in new PROVE i + 1 \in old \ {1}
        OBVIOUS
      <3>1. i \in 1..Len(r) /\ replies[i+1].op = o /\ replies[i+1].type = "binary"
        BY <1>1, <1>8
      <3>2. i + 1 # 1
        BY <1>1, <3>1
      <3> QED BY <1>3, <3>1, <3>2 DEF ChunksOf
    <2>2. \A i, j \in new : f[i] = f[j] => i = j
      BY <1>1, <1>8
    <2>3. \A k \in old \ {1} : \E i \in new : f[i] = k
      <3> SUFFICES ASSUME NEW k \in old \ {1} PROVE \E i \in new : f[i] = k
        OBVIOUS
      <3>1. /\ k \in 1..Len(replies) /\ k # 1
            /\ replies[k].op = o /\ replies[k].type = "binary"
        BY DEF ChunksOf
      <3>2. k - 1 \in 1..Len(r) /\ r[k-1] = replies[k]
        BY <1>1, <3>1
      <3>3. k - 1 \in new
        BY <1>2, <3>1, <3>2 DEF ChunksOf
      <3>4. f[k-1] = k
        BY <3>1, <3>3
      <3> QED BY <3>3, <3>4
    <2> HIDE DEF new, old, f
    <2> QED BY <2>1, <2>2, <2>3 DEF Injection, IsInjective, Surjection
  <1>10. Cardinality(new) = Cardinality(old \ {1})
    <2> HIDE DEF new, old, f
    <2> QED BY <1>7, <1>9, FS_Injection
  <1>11. 1 \in old <=> m.op = o /\ m.type = "binary"
    BY <1>1 DEF ChunksOf
  <1>12. Coming(o)' = IF 1 \in old THEN Coming(o) - 1 ELSE Coming(o)
    BY <1>7, <1>10 DEF Coming
  <1>13. 1 \in old => Coming(o) > 0
    <2> HIDE DEF old
    <2>1. old = {} <=> Cardinality(old) = 0
      BY <1>6, FS_EmptySet
    <2> QED BY <1>6, <2>1 DEF Coming, old
  <1> QED BY <1>4, <1>5, <1>11, <1>12, <1>13 DEF m

----------------------------------------------------------------------------
\* The invariant of one command.

\* A command that has not been dispatched has had no effect anywhere.
Untouched(o) ==
    state[o] \in {"new", "queued"} =>
        /\ slice[o] = 0 /\ applied[o] = 0 /\ o \notin merged
        /\ sent[o] = 0 /\ got[o] = 0 /\ sunk[o] = 0 /\ ~sinkError[o]

\* The session's count of acked slices and KoKo's count of written ones differ
\* only while an ack is on its way.
UploadInv(o) ==
    /\ o \in merged => applied[o] = Slices
    /\ state[o] = "acked" => cmd[o].kind = "upload"
    /\ state[o] # "new" /\ cmd[o].kind = "upload" =>
          /\ state[o] = "resolved" => o \in merged
          /\ state[o] = "acked" \/ InFlight(o) => applied[o] = slice[o] /\ o \notin merged
          /\ state[o] = "running" /\ HasAnswer(o) =>
                \/ slice[o] < Slices /\ applied[o] = slice[o] + 1 /\ o \notin merged
                \/ slice[o] = Slices /\ o \in merged

\* What readFile keeps of n chunks; the other downloads keep them all.
Kept(o, n) == IF cmd[o].kind = "read" /\ ReadMax < n THEN ReadMax ELSE n

\* Chunks that KoKo has sent have been kept or are on their way, until the
\* download is given up; and the sink chain is behind what it was handed.
DownloadInv(o) ==
    /\ sunk[o] <= got[o] /\ (sinkError[o] => sunk[o] > 0)
    /\ state[o] = "draining" => cmd[o].kind = "stream" /\ got[o] = Chunks
    /\ state[o] # "new" /\ cmd[o].kind \in Downloads =>
          /\ state[o] = "running" =>
                /\ sent[o] <= Chunks
                /\ HasAnswer(o) => sent[o] = Chunks
                /\ Coming(o) <= sent[o] /\ got[o] = Kept(o, sent[o] - Coming(o))
          /\ state[o] = "resolved" =>
                /\ got[o] = Kept(o, Chunks)
                /\ cmd[o].kind = "stream" => sunk[o] = Chunks /\ ~sinkError[o]

Whole(o) == Untouched(o) /\ UploadInv(o) /\ DownloadInv(o)

\* What is known of the types of one command.
otypes(o) ==
    /\ cmd[o] \in Commands \cup {None} /\ (state[o] # "new" => cmd[o] \in Commands)
    /\ state[o] \in States
    /\ slice[o] \in 0..Slices
    /\ got[o] \in Nat /\ sunk[o] \in Nat /\ sent[o] \in Nat /\ applied[o] \in Nat
    /\ sinkError[o] \in BOOLEAN /\ Coming(o) \in Nat

LEMMA CommandTypes == ASSUME IInv, NEW o \in Op PROVE otypes(o)
  <1>1. Coming(o) \in Nat
    BY ComingIsNat, TypesSplit DEF IInv
  <1>2. sinkError[o] \in BOOLEAN
    BY TypesSplit DEF IInv, rtypes
  <1>3. cmd[o] \in Commands \cup {None} /\ (state[o] # "new" => cmd[o] \in Commands)
    BY TypesSplit DEF IInv, QInv, Issued, qtypes
  <1>4. /\ state[o] \in States /\ slice[o] \in 0..Slices
        /\ got[o] \in Nat /\ sunk[o] \in Nat /\ sent[o] \in Nat /\ applied[o] \in Nat
    BY TypesSplit DEF IInv, rtypes, qtypes
  <1> QED BY <1>1, <1>2, <1>3, <1>4 DEF otypes

LEMMA AllTyped == IInv => \A o \in Op : otypes(o)
  BY CommandTypes

LEMMA AllTypedNext == IInv' => (\A o \in Op : otypes(o))'
  BY AllTyped, PTL

----------------------------------------------------------------------------
\* What a step can do to one command, and why each of these keeps its
\* invariant.  A step that is about one command leaves the others Alone.

Progress(o) == /\ cmd'[o] = cmd[o] /\ slice'[o] = slice[o] /\ got'[o] = got[o]
               /\ sunk'[o] = sunk[o] /\ sinkError'[o] = sinkError[o]
Remote(o) == /\ sent'[o] = sent[o] /\ applied'[o] = applied[o]
             /\ o \in merged' <=> o \in merged

\* No frame of o goes out and none is answered.
NoFrame(o) == (InFlight(o)' => InFlight(o)) /\ (HasAnswer(o)' => HasAnswer(o))

Alone(o) == /\ Progress(o) /\ Remote(o) /\ NoFrame(o) /\ state'[o] = state[o]
            /\ state[o] = "running" => Coming(o)' = Coming(o)

\* The command fails.
GivenUp(o) == /\ Progress(o) /\ Remote(o) /\ NoFrame(o)
              /\ state[o] # "new" /\ state'[o] = "rejected"

LEMMA AloneKeeps ==
    ASSUME NEW o \in Op, otypes(o), otypes(o)', Whole(o), Alone(o) PROVE Whole(o)'
  <1> USE DEF Alone, Progress, Remote, NoFrame, otypes
  <1>1. Untouched(o)'
    BY DEF Whole, Untouched
  <1>2. UploadInv(o)'
    BY DEF Whole, UploadInv
  <1>3. DownloadInv(o)'
    BY DEF Whole, DownloadInv, Kept
  <1> QED BY <1>1, <1>2, <1>3 DEF Whole

LEMMA GivenUpKeeps ==
    ASSUME NEW o \in Op, otypes(o), otypes(o)', Whole(o), GivenUp(o) PROVE Whole(o)'
  <1> USE DEF GivenUp, Progress, Remote, NoFrame, otypes
  <1>1. Untouched(o)'
    BY DEF Whole, Untouched
  <1>2. UploadInv(o)'
    BY DEF Whole, UploadInv
  <1>3. DownloadInv(o)'
    BY DEF Whole, DownloadInv
  <1> QED BY <1>1, <1>2, <1>3 DEF Whole

\* A call is made.  Only a listing is answered without being dispatched.
LEMMA IssueKeeps ==
    ASSUME NEW o \in Op, otypes(o), otypes(o)', Whole(o), state[o] = "new",
           Remote(o), slice'[o] = slice[o], got'[o] = got[o],
           sunk'[o] = sunk[o], sinkError'[o] = sinkError[o],
           \/ state'[o] \in {"queued", "rejected"} /\ ~InFlight(o)'
           \/ state'[o] = "running" /\ ~HasAnswer(o)' /\ Coming(o)' = 0
           \/ state'[o] = "resolved" /\ cmd'[o].kind = "list" /\ ~InFlight(o)'
    PROVE  Whole(o)'
  <1> USE SessionAssumption DEF Remote, otypes
  <1>0. /\ slice[o] = 0 /\ applied[o] = 0 /\ o \notin merged
        /\ sent[o] = 0 /\ got[o] = 0 /\ sunk[o] = 0 /\ ~sinkError[o]
    BY DEF Whole, Untouched
  <1>1. Untouched(o)'
    BY <1>0 DEF Untouched
  <1>2. UploadInv(o)'
    BY <1>0 DEF UploadInv
  <1>3. DownloadInv(o)'
    BY <1>0 DEF DownloadInv, Kept, Downloads
  <1> QED BY <1>1, <1>2, <1>3 DEF Whole

\* A frame of a command goes out: its first one, or an upload's next one.
LEMMA DispatchKeeps ==
    ASSUME NEW o \in Op, otypes(o), otypes(o)', Whole(o),
           state[o] \in {"queued", "acked"}, state'[o] = "running",
           Progress(o), Remote(o), ~InFlight(o), ~HasAnswer(o)', Coming(o)' = 0
    PROVE  Whole(o)'
  <1> USE SessionAssumption DEF Progress, Remote, otypes
  <1>1. Untouched(o)'
    BY DEF Untouched
  <1>2. UploadInv(o)'
    BY DEF Whole, Untouched, UploadInv
  <1>3. DownloadInv(o)'
    BY DEF Whole, Untouched, UploadInv, DownloadInv, Kept, Downloads
  <1> QED BY <1>1, <1>2, <1>3 DEF Whole

\* A chunk of a running command arrives and is kept.
LEMMA ChunkKeeps ==
    ASSUME NEW o \in Op, otypes(o), otypes(o)', Whole(o),
           state[o] = "running", state'[o] = "running", Remote(o), NoFrame(o),
           cmd'[o] = cmd[o], slice'[o] = slice[o], sunk'[o] = sunk[o],
           sinkError'[o] = sinkError[o],
           got'[o] = IF cmd[o].kind = "read" /\ got[o] = ReadMax THEN got[o] ELSE got[o] + 1,
           Coming(o) > 0, Coming(o)' = Coming(o) - 1
    PROVE  Whole(o)'
  <1> USE SessionAssumption DEF Remote, NoFrame, otypes
  <1>1. Untouched(o)'
    BY DEF Untouched
  <1>2. UploadInv(o)'
    BY DEF Whole, UploadInv
  <1>3. DownloadInv(o)'
    <2>1. sunk'[o] <= got'[o] /\ (sinkError'[o] => sunk'[o] > 0)
      BY DEF Whole, DownloadInv
    <2>2. ASSUME cmd[o].kind \in Downloads
          PROVE  /\ sent'[o] <= Chunks
                 /\ HasAnswer(o)' => sent'[o] = Chunks
                 /\ Coming(o)' <= sent'[o] /\ got'[o] = Kept(o, sent'[o] - Coming(o)')
      BY <2>2 DEF Whole, DownloadInv, Kept
    <2>3. Kept(o, sent'[o] - Coming(o)') = Kept(o, sent[o] - Coming(o))'
      BY DEF Kept
    <2> QED BY <2>1, <2>2, <2>3 DEF DownloadInv
  <1> QED BY <1>1, <1>2, <1>3 DEF Whole

\* The final message of a frame arrives: everything that was sent has come.
LEMMA AnswerKeepsWhole ==
    ASSUME NEW o \in Op, otypes(o), otypes(o)', Whole(o),
           state[o] = "running", HasAnswer(o), Coming(o) = 0, ~InFlight(o)', Remote(o),
           cmd'[o] = cmd[o], got'[o] = got[o], sunk'[o] = sunk[o],
           sinkError'[o] = sinkError[o],
           \/ MoreFrames(o) /\ state'[o] = "acked" /\ slice'[o] = slice[o] + 1
           \/ /\ cmd[o].kind = "stream" /\ got[o] > 0
              /\ state'[o] = "draining" /\ slice'[o] = slice[o]
           \/ /\ ~MoreFrames(o) /\ ~(cmd[o].kind = "stream" /\ got[o] > 0)
              /\ state'[o] = "resolved" /\ slice'[o] = slice[o]
    PROVE  Whole(o)'
  <1> USE SessionAssumption DEF Remote, otypes
  <1>1. Untouched(o)'
    BY DEF Untouched
  <1>2. UploadInv(o)'
    BY DEF Whole, UploadInv, MoreFrames
  <1>3. DownloadInv(o)'
    <2>1. cmd[o].kind \in Downloads => got[o] = Kept(o, Chunks)
      BY DEF Whole, DownloadInv, Kept
    <2>2. Kept(o, Chunks)' = Kept(o, Chunks)
      BY DEF Kept
    <2>3. cmd[o].kind = "stream" => got[o] = Chunks /\ cmd[o].kind \in Downloads
      BY <2>1 DEF Kept, Downloads
    <2>4. sunk[o] <= got[o] /\ (sinkError[o] => sunk[o] > 0)
      BY DEF Whole, DownloadInv
    <2>5. state'[o] = "resolved" /\ cmd[o].kind = "stream" =>
             sunk'[o] = Chunks /\ ~sinkError'[o]
      BY <2>3, <2>4
    <2> QED BY <2>1, <2>2, <2>3, <2>4, <2>5 DEF DownloadInv
  <1> QED BY <1>1, <1>2, <1>3 DEF Whole

\* One link of the sink chain: while chunks wait for it.
LEMMA SinkWriteKeeps ==
    ASSUME NEW o \in Op, otypes(o), otypes(o)', Whole(o), state'[o] = state[o],
           cmd[o].kind = "stream", sunk[o] < got[o], sunk'[o] = sunk[o] + 1,
           cmd'[o] = cmd[o], slice'[o] = slice[o], got'[o] = got[o],
           Remote(o), NoFrame(o), Coming(o)' = Coming(o)
    PROVE  Whole(o)'
  <1> USE DEF Remote, NoFrame, otypes
  <1>0. cmd[o].kind \in Downloads /\ got[o] > 0
    BY DEF Downloads
  <1>1. Untouched(o)'
    BY <1>0 DEF Whole, Untouched
  <1>2. UploadInv(o)'
    BY DEF Whole, UploadInv
  <1>3. DownloadInv(o)'
    <2>1. /\ sunk'[o] <= got'[o] /\ (sinkError'[o] => sunk'[o] > 0)
          /\ state'[o] = "draining" => cmd'[o].kind = "stream" /\ got'[o] = Chunks
      BY DEF Whole, DownloadInv
    <2>2. state[o] # "resolved"
      BY <1>0, SessionAssumption DEF Whole, DownloadInv, Kept
    <2> QED BY <2>1, <2>2 DEF Whole, DownloadInv, Kept
  <1> QED BY <1>1, <1>2, <1>3 DEF Whole

\* The chain has run dry.
LEMMA SinkDryKeeps ==
    ASSUME NEW o \in Op, otypes(o), otypes(o)', Whole(o), state[o] = "draining",
           sunk[o] = got[o], Progress(o), Remote(o), NoFrame(o),
           state'[o] = IF sinkError[o] THEN "rejected" ELSE "resolved"
    PROVE  Whole(o)'
  <1> USE DEF Progress, Remote, NoFrame, otypes
  <1>1. Untouched(o)'
    BY DEF Untouched
  <1>2. UploadInv(o)'
    BY DEF Whole, UploadInv, DownloadInv
  <1>3. DownloadInv(o)'
    BY DEF Whole, DownloadInv, Kept
  <1> QED BY <1>1, <1>2, <1>3 DEF Whole

\* KoKo runs a frame of the command.
LEMMA ExecuteKeeps ==
    ASSUME NEW o \in Op, otypes(o), otypes(o)', Whole(o), Progress(o),
           state'[o] = state[o], state[o] \in Open, InFlight(o), ~HasAnswer(o),
           LET slicing == cmd[o].kind = "upload" /\ slice[o] < Slices
               more == cmd[o].kind \in Downloads /\ sent[o] < Chunks
           IN /\ sent'[o] = IF more THEN sent[o] + 1 ELSE sent[o]
              /\ applied'[o] = IF slicing THEN applied[o] + 1 ELSE applied[o]
              /\ o \in merged' <=> o \in merged \/ (cmd[o].kind = "upload" /\ slice[o] = Slices)
              /\ InFlight(o)' => more
              /\ HasAnswer(o)' => ~more
              /\ state[o] = "running" =>
                    Coming(o)' = IF more THEN Coming(o) + 1 ELSE Coming(o)
    PROVE  Whole(o)'
  <1> USE SessionAssumption DEF Progress, otypes, Open
  <1>1. Untouched(o)'
    BY DEF Untouched
  <1>2. UploadInv(o)'
    BY DEF Whole, UploadInv, Downloads
  <1>3. DownloadInv(o)'
    <2>1. /\ sunk'[o] <= got'[o] /\ (sinkError'[o] => sunk'[o] > 0)
          /\ state'[o] \notin {"draining", "resolved"}
      BY DEF Whole, DownloadInv
    <2>2. ASSUME cmd[o].kind \in Downloads, state[o] = "running"
          PROVE  /\ sent'[o] <= Chunks
                 /\ HasAnswer(o)' => sent'[o] = Chunks
                 /\ Coming(o)' <= sent'[o] /\ sent'[o] - Coming(o)' = sent[o] - Coming(o)
                 /\ got[o] = Kept(o, sent[o] - Coming(o))
      BY <2>2 DEF Whole, DownloadInv
    <2> QED BY <2>1, <2>2 DEF DownloadInv, Kept
  <1> QED BY <1>1, <1>2, <1>3 DEF Whole

----------------------------------------------------------------------------
\* The session believes itself connected only over an open socket, and a
\* command runs only while it does: every close fails what is running.

Wired ==
    /\ phase \in {"rest", "opening"} => wire = "none"
    /\ connected => wire = "open"
    /\ \A o \in Op : state[o] = "running" => connected

LEMMA WiredKept == IInv /\ Wired /\ [Next]_vars => Wired'
  <1> SUFFICES ASSUME IInv, Wired, [Next]_vars PROVE Wired'
    OBVIOUS
  <1> qtypes /\ QInv /\ qtypes'
    BY StepKeepsIInv, TypesSplit, TypesSplitNext DEF IInv
  <1>1. ASSUME UNCHANGED <<phase, wire, connected>>,
               \A x \in Op : state'[x] = "running" => state[x] = "running" \/ connected
        PROVE  Wired'
    BY <1>1 DEF Wired
  <1>2. CASE UNCHANGED vars
    BY <1>1, <1>2 DEF vars, client
  <1>3. CASE Connecting
    BY <1>3 DEF Connecting, FinishRest, FinishHandshake, Adopts, ReceiveConnect, Wired
  <1>4. CASE Closing
    <2>1. RejectAll /\ connected' = FALSE
      BY <1>4 DEF Closing, SocketClosed, SessionClosed, Dispose, HandleClose
    <2>2. \A x \in Op : state'[x] # "running"
      BY <2>1 DEF RejectAll, QInv, PendingRuns, qtypes
    <2>3. phase' \in {"rest", "opening"} => wire' = "none"
      BY <1>4 DEF Closing, SocketClosed, SessionClosed, Dispose, HandleClose, Wired
    <2> QED BY <2>1, <2>2, <2>3 DEF Wired
  <1>5. CASE PassTurn
    <2>1. UNCHANGED conn
      BY <1>5 DEF PassTurn
    <2>2. \A x \in Op : state'[x] = "running" => state[x] = "running" \/ connected
      BY <1>5 DEF PassTurn, Settle, Alive, qtypes
    <2> QED BY <1>1, <2>1, <2>2 DEF conn
  <1>6. CASE ReceiveForCommand
    <2>1. UNCHANGED conn
      BY <1>6 DEF ReceiveForCommand
    <2>2. \A x \in Op : state'[x] = "running" => state[x] = "running"
      BY <1>6 DEF ReceiveForCommand, Binary, Answered, Settle, qtypes
    <2> QED BY <1>1, <2>1, <2>2 DEF conn
  <1>7. CASE InvalidateListCache \/ \E p \in Path : ExpireCache(p)
    BY <1>1, <1>7 DEF InvalidateListCache, ExpireCache, conn
  <1>8. ASSUME NEW o \in Op, Call(o) PROVE Wired'
    <2>1. UNCHANGED conn
      BY <1>8 DEF Call, CallList, CallMutation, CallDownload
    <2>2. \E s \in States : state' = [state EXCEPT ![o] = s] /\ (s = "running" => connected)
      BY <1>8 DEF Call, CallList, CallMutation, CallDownload, Enqueue, Alive, States, Settled
    <2> QED BY <1>1, <2>1, <2>2 DEF conn, qtypes
  <1>9. ASSUME NEW o \in Op, PollHeld(o) \/ ContinueUpload(o) \/ FinishSink(o)
        PROVE  Wired'
    <2>1. UNCHANGED conn
      BY <1>9 DEF PollHeld, ContinueUpload, FinishSink
    <2>2. \A x \in Op : state'[x] = "running" => state[x] = "running" \/ connected
      BY <1>9 DEF PollHeld, ContinueUpload, FinishSink, Settle, Alive, qtypes
    <2> QED BY <1>1, <2>1, <2>2 DEF conn
  <1>10. ASSUME NEW o \in Op, WriteSink(o) \/ KokoRuns(o) PROVE Wired'
    BY <1>1, <1>10 DEF WriteSink, KokoRuns, client, conn
  <1> QED BY <1>2, <1>3, <1>4, <1>5, <1>6, <1>7, <1>8, <1>9, <1>10 DEF Next

----------------------------------------------------------------------------
\* Every step keeps the invariant of every command.

WInv == IInv /\ Wired /\ \A o \in Op : Whole(o)

\* Nothing is on its way about a command that has no frame out.
LEMMA NoMail ==
    ASSUME IInv, NEW o \in Op, state[o] \notin Open
    PROVE  /\ ~InFlight(o) /\ ~HasAnswer(o) /\ Coming(o) = 0
           /\ \A i \in 1..Len(replies) : replies[i].op # o
  <1>1. \A i \in 1..Len(replies) : replies[i].op # o
    BY DEF IInv, Frames
  <1> QED BY <1>1, NothingComes DEF IInv, Frames, InFlight

LEMMA SameMail ==
    ASSUME replies' = replies
    PROVE  \A o \in Op : HasAnswer(o)' = HasAnswer(o) /\ Coming(o)' = Coming(o)
  BY DEF HasAnswer, Coming, ChunksOf

LEMMA OthersAlone ==
    ASSUME WInv, IInv', NEW o \in Op, \A x \in Op \ {o} : Alone(x), Whole(o)'
    PROVE  \A x \in Op : Whole(x)'
  <1> SUFFICES ASSUME NEW x \in Op, x # o PROVE Whole(x)'
    OBVIOUS
  <1>1. otypes(x) /\ otypes(x)' /\ Whole(x) /\ Alone(x)
    BY AllTyped, AllTypedNext DEF WInv
  <1> QED BY <1>1, AloneKeeps

\* Steps that touch no command.
LEMMA QuietKeepsWhole ==
    ASSUME WInv, IInv', UNCHANGED <<cmd, state, progress, sent, applied, merged>>,
           \A x \in Op : NoFrame(x) /\ (state[x] = "running" => Coming(x)' = Coming(x))
    PROVE  \A x \in Op : Whole(x)'
  <1>1. \A x \in Op : Alone(x)
    BY DEF Alone, Progress, Remote, progress
  <1> QED BY <1>1, AloneKeeps, AllTyped, AllTypedNext DEF WInv

\* Steps in which some commands fail and nothing else happens.
LEMMA FailuresKeepWhole ==
    ASSUME WInv, IInv', UNCHANGED <<cmd, progress, sent, applied, merged>>,
           \A x \in Op : /\ NoFrame(x)
                         /\ \/ state[x] # "new" /\ state'[x] = "rejected"
                            \/ /\ state'[x] = state[x]
                               /\ state[x] = "running" => Coming(x)' = Coming(x)
    PROVE  \A x \in Op : Whole(x)'
  <1>1. \A x \in Op : Alone(x) \/ GivenUp(x)
    BY DEF Alone, GivenUp, Progress, Remote, progress
  <1> QED BY <1>1, AloneKeeps, GivenUpKeeps, AllTyped, AllTypedNext DEF WInv

LEMMA SameFrames ==
    ASSUME UNCHANGED <<serving, held, replies>>
    PROVE  \A x \in Op : NoFrame(x) /\ Coming(x)' = Coming(x)
  BY SameMail DEF NoFrame, InFlight

LEMMA ConnectingWhole ==
    ASSUME WInv, IInv',
           UNCHANGED vars \/ Connecting \/ InvalidateListCache \/ \E p \in Path : ExpireCache(p)
    PROVE  \A x \in Op : Whole(x)'
  <1>1. /\ UNCHANGED <<cmd, state, progress, sent, applied, merged>>
        /\ UNCHANGED <<serving, held, replies>>
    BY DEF vars, client, server, calls, progress, remoteSide, Connecting, FinishRest,
           FinishHandshake, ReceiveConnect, InvalidateListCache, ExpireCache
  <1> QED BY <1>1, SameFrames, QuietKeepsWhole

LEMMA ClosingWhole ==
    ASSUME WInv, IInv', Closing PROVE \A x \in Op : Whole(x)'
  <1> qtypes /\ QInv
    BY TypesSplit DEF WInv, IInv
  <1>1. /\ UNCHANGED <<cmd, progress, sent, applied, merged>>
        /\ UNCHANGED <<serving, held>> /\ RejectAll
        /\ replies' = replies \/ replies' = <<>>
    BY DEF Closing, SocketClosed, SessionClosed, Dispose, HandleClose, calls, server, remoteSide
  <1>2. \A x \in Op : NoFrame(x)
    BY <1>1, SameMail DEF NoFrame, InFlight, HasAnswer
  <1>3. \A x \in Op : IF state[x] = "running" THEN state'[x] = "rejected"
                      ELSE state'[x] = state[x]
    BY <1>1 DEF RejectAll, QInv, PendingRuns, qtypes
  <1> QED BY <1>1, <1>2, <1>3, FailuresKeepWhole

\* A command that had nothing out sends a frame.
LEMMA SentWhole ==
    ASSUME WInv, IInv', NEW o \in Op, state[o] \in {"queued", "acked"},
           state' = [state EXCEPT ![o] = "running"], SendWhenDrained(o),
           UNCHANGED <<cmd, progress, sent, applied, merged, replies>>
    PROVE  \A x \in Op : Whole(x)'
  <1> qtypes
    BY TypesSplit DEF WInv, IInv
  <1>1. \A x \in Op \ {o} : Alone(x)
    BY SameMail DEF Alone, Progress, Remote, NoFrame, InFlight, SendWhenDrained, qtypes, progress
  <1>2. Whole(o)'
    <2>1. ~InFlight(o) /\ ~HasAnswer(o)' /\ Coming(o)' = 0
      BY NoMail, SameMail DEF WInv, Open
    <2>2. Progress(o) /\ Remote(o) /\ state'[o] = "running"
      BY DEF Progress, Remote, qtypes, progress
    <2>3. otypes(o) /\ otypes(o)' /\ Whole(o)
      BY AllTyped, AllTypedNext DEF WInv
    <2> QED BY <2>1, <2>2, <2>3, DispatchKeeps
  <1> QED BY <1>1, <1>2, OthersAlone

LEMMA PassTurnWhole ==
    ASSUME WInv, IInv', PassTurn PROVE \A x \in Op : Whole(x)'
  <1> qtypes /\ QInv
    BY TypesSplit DEF WInv, IInv
  <1>1. UNCHANGED <<cmd, progress, sent, applied, merged, replies>>
    BY DEF PassTurn, calls, remoteSide
  <1>2. CASE UNCHANGED <<state, held, serving>>
    BY <1>1, <1>2, SameFrames, QuietKeepsWhole
  <1> DEFINE h == Head(queue)
  <1>3. ASSUME queue # <<>>, ~started PROVE h \in Op /\ state[h] = "queued"
    BY <1>3, HeadTailProperties DEF qtypes, QInv, QueueShape
  <1>4. CASE /\ queue # <<>> /\ ~started
             /\ state' = [state EXCEPT ![h] = "running"] /\ SendWhenDrained(h)
    BY <1>1, <1>3, <1>4, SentWhole
  <1>5. CASE /\ queue # <<>> /\ ~started
             /\ state' = [state EXCEPT ![h] = "rejected"] /\ UNCHANGED <<held, serving>>
    BY <1>1, <1>3, <1>5, SameFrames, FailuresKeepWhole DEF qtypes
  <1> QED BY <1>2, <1>4, <1>5 DEF PassTurn, Settle

LEMMA CallWhole ==
    ASSUME WInv, IInv', NEW o \in Op, Call(o) PROVE \A x \in Op : Whole(x)'
  <1> qtypes
    BY TypesSplit DEF WInv, IInv
  <1> PICK c \in Commands : CallList(o, c) \/ CallMutation(o, c) \/ CallDownload(o, c)
    BY DEF Call
  <1>1. /\ state[o] = "new" /\ cmd' = [cmd EXCEPT ![o] = c]
        /\ UNCHANGED <<progress, sent, applied, merged, replies>>
    BY DEF Call, CallList, CallMutation, CallDownload, Issue, remoteSide
  <1>2. ~InFlight(o) /\ ~HasAnswer(o)' /\ Coming(o)' = 0
    BY <1>1, NoMail, SameMail DEF WInv, Open
  <1>3. \/ state' = [state EXCEPT ![o] = "running"] /\ SendWhenDrained(o)
        \/ /\ UNCHANGED <<held, serving>>
           /\ \/ \E r \in {"queued", "rejected"} : state' = [state EXCEPT ![o] = r]
              \/ state' = [state EXCEPT ![o] = "resolved"] /\ c.kind = "list"
    BY DEF CallList, CallMutation, CallDownload, Enqueue
  <1>4. \A x \in Op \ {o} : Alone(x)
    BY <1>1, <1>3, SameMail
    DEF Alone, Progress, Remote, NoFrame, InFlight, SendWhenDrained, qtypes, progress
  <1>5. Whole(o)'
    <2>1. /\ Remote(o) /\ slice'[o] = slice[o] /\ got'[o] = got[o]
          /\ sunk'[o] = sunk[o] /\ sinkError'[o] = sinkError[o]
      BY <1>1 DEF Remote, progress
    <2>2. \/ state'[o] \in {"queued", "rejected"} /\ ~InFlight(o)'
          \/ state'[o] = "running" /\ ~HasAnswer(o)' /\ Coming(o)' = 0
          \/ state'[o] = "resolved" /\ cmd'[o].kind = "list" /\ ~InFlight(o)'
      BY <1>1, <1>2, <1>3 DEF qtypes, InFlight
    <2>3. otypes(o) /\ otypes(o)' /\ Whole(o)
      BY AllTyped, AllTypedNext DEF WInv
    <2> QED BY <1>1, <2>1, <2>2, <2>3, IssueKeeps
  <1> QED BY <1>4, <1>5, OthersAlone

LEMMA PollHeldWhole ==
    ASSUME WInv, IInv', NEW o \in Op, PollHeld(o) PROVE \A x \in Op : Whole(x)'
  <1> qtypes /\ QInv
    BY TypesSplit DEF WInv, IInv
  <1>1. /\ UNCHANGED <<cmd, progress, sent, applied, merged, replies>>
        /\ o \in held /\ held' = held \ {o}
    BY DEF PollHeld, calls, remoteSide
  <1>2. /\ serving' = serving \/ serving' = serving \cup {o}
        /\ \/ state' = state
           \/ state[o] = "running" /\ state' = [state EXCEPT ![o] = "rejected"]
    BY DEF PollHeld, HeldIsWanted, Settle, QInv, PendingRuns
  <1>3. \A x \in Op : NoFrame(x) /\ Coming(x)' = Coming(x)
    BY <1>1, <1>2, SameMail DEF NoFrame, InFlight
  <1> QED BY <1>1, <1>2, <1>3, FailuresKeepWhole DEF qtypes

LEMMA ContinueUploadWhole ==
    ASSUME WInv, IInv', NEW o \in Op, ContinueUpload(o) PROVE \A x \in Op : Whole(x)'
  <1> qtypes
    BY TypesSplit DEF WInv, IInv
  <1>1. UNCHANGED <<cmd, progress, sent, applied, merged, replies>> /\ state[o] = "acked"
    BY DEF ContinueUpload, calls, remoteSide
  <1>2. CASE state' = [state EXCEPT ![o] = "running"] /\ SendWhenDrained(o)
    BY <1>1, <1>2, SentWhole
  <1>3. CASE state' = [state EXCEPT ![o] = "rejected"] /\ UNCHANGED <<held, serving>>
    BY <1>1, <1>3, SameFrames, FailuresKeepWhole DEF qtypes
  <1> QED BY <1>2, <1>3 DEF ContinueUpload, Settle

LEMMA SinkWhole ==
    ASSUME WInv, IInv', NEW o \in Op, WriteSink(o) \/ FinishSink(o)
    PROVE  \A x \in Op : Whole(x)'
  <1> qtypes /\ rtypes
    BY TypesSplit DEF WInv, IInv
  <1>1. /\ UNCHANGED <<cmd, slice, got, sent, applied, merged>>
        /\ UNCHANGED <<serving, held, replies>>
    BY DEF WriteSink, FinishSink, calls, progress, server
  <1>2. \A x \in Op : NoFrame(x) /\ Coming(x)' = Coming(x)
    BY <1>1, SameFrames
  <1>3. otypes(o) /\ otypes(o)' /\ Whole(o)
    BY AllTyped, AllTypedNext DEF WInv
  <1>4. CASE WriteSink(o)
    <2>1. /\ state' = state /\ cmd[o].kind = "stream" /\ sunk[o] < got[o]
          /\ sunk' = [sunk EXCEPT ![o] = @ + 1]
          /\ \A x \in Op : x # o => sinkError'[x] = sinkError[x]
      BY <1>4, Zenon DEF WriteSink, rtypes
    <2>2. sunk'[o] = sunk[o] + 1 /\ \A x \in Op : x # o => sunk'[x] = sunk[x]
      BY <2>1 DEF rtypes
    <2>3. \A x \in Op \ {o} : Alone(x)
      BY <1>1, <1>2, <2>1, <2>2 DEF Alone, Progress, Remote
    <2>4. Whole(o)'
      BY <1>1, <1>2, <1>3, <2>1, <2>2, SinkWriteKeeps DEF Remote
    <2> QED BY <2>3, <2>4, OthersAlone
  <1>5. CASE FinishSink(o)
    <2>1. /\ UNCHANGED <<sunk, sinkError>> /\ state[o] = "draining" /\ sunk[o] = got[o]
          /\ state' = [state EXCEPT ![o] = IF sinkError[o] THEN "rejected" ELSE "resolved"]
      BY <1>5 DEF FinishSink, SinkDry, Settle, progress
    <2>2. \A x \in Op \ {o} : Alone(x)
      BY <1>1, <1>2, <2>1 DEF Alone, Progress, Remote, qtypes
    <2>3. Progress(o) /\ Remote(o) /\ state'[o] = IF sinkError[o] THEN "rejected" ELSE "resolved"
      BY <1>1, <2>1 DEF Progress, Remote, qtypes
    <2>4. Whole(o)'
      BY <1>2, <1>3, <2>1, <2>3, SinkDryKeeps
    <2> QED BY <2>2, <2>4, OthersAlone
  <1> QED BY <1>4, <1>5

\* KoKo's message joins those on their way while the socket is open, and what
\* arrives is about the command whose frame it ran.
LEMMA ReplyMail ==
    ASSUME IInv, NEW m \in Message, Reply(m)
    PROVE  \A x \in Op :
              /\ HasAnswer(x)' => HasAnswer(x) \/ (m.op = x /\ m.type = "data")
              /\ Coming(x)' = IF wire = "open" /\ m.op = x /\ m.type = "binary"
                              THEN Coming(x) + 1 ELSE Coming(x)
  <1> ftypes
    BY TypesSplit DEF IInv
  <1>1. CASE wire = "open"
    BY <1>1, MailAppended DEF Reply
  <1>2. CASE wire # "open"
    BY <1>2, SameMail DEF Reply
  <1> QED BY <1>1, <1>2

LEMMA KokoWhole ==
    ASSUME WInv, IInv', NEW o \in Op, KokoRuns(o) PROVE \A x \in Op : Whole(x)'
  <1> qtypes /\ ftypes /\ rtypes
    BY TypesSplit DEF WInv, IInv
  <1>1. o \in serving /\ UNCHANGED <<cmd, state, progress, held>>
    BY DEF KokoRuns, client, progress
  <1>2. CASE Fail(o)
    <2> DEFINE m == [op |-> o, type |-> "err", version |-> 0]
    <2>1. m \in Message /\ Reply(m) /\ serving' = serving \ {o} /\ m.type = "err"
      BY <1>2 DEF Fail, Message
    <2>2. UNCHANGED <<sent, applied, merged>>
      BY <1>2 DEF Fail
    <2> HIDE DEF m
    <2>3. \A x \in Op : NoFrame(x) /\ Coming(x)' = Coming(x)
      BY <1>1, <2>1, ReplyMail DEF WInv, NoFrame, InFlight
    <2> QED BY <1>1, <2>2, <2>3, QuietKeepsWhole
  <1>3. CASE Execute(o)
    <2> DEFINE more == cmd[o].kind \in Downloads /\ sent[o] < Chunks
               slicing == cmd[o].kind = "upload" /\ slice[o] < Slices
    <2>1. PICK m \in Message :
             m.op = o /\ m.type = (IF more THEN "binary" ELSE "data") /\ Reply(m)
      <3> DEFINE version == IF \/ cmd[o].kind = "mutate"
                               \/ cmd[o].kind = "upload" /\ slice[o] < Slices
                            THEN remote[Dir(o)] + 1 ELSE remote[Dir(o)]
                 m == [op |-> o, type |-> IF more THEN "binary" ELSE "data",
                       version |-> version]
      <3>1. cmd[o] \in Commands
        BY <1>1 DEF WInv, IInv, Frames, QInv, Issued, Open
      <3>2. remote[Dir(o)] \in Nat
        BY <3>1, SessionAssumption DEF CommandType, Dir, rtypes
      <3>3. m \in Message
        BY <3>2 DEF Message
      <3>4. Reply(m)
        BY <1>3 DEF Execute
      <3> QED BY <3>3, <3>4
    <2>2. /\ serving' = IF more THEN serving ELSE serving \ {o}
          /\ sent' = IF more THEN [sent EXCEPT ![o] = @ + 1] ELSE sent
          /\ applied' = IF slicing THEN [applied EXCEPT ![o] = @ + 1] ELSE applied
          /\ merged' = IF cmd[o].kind = "upload" /\ slice[o] = Slices
                       THEN merged \cup {o} ELSE merged
      BY <1>3 DEF Execute
    <2> HIDE DEF more, slicing
    <2>3. \A x \in Op \ {o} : NoFrame(x) /\ Coming(x)' = Coming(x)
      BY <1>1, <2>1, <2>2, ReplyMail DEF WInv, NoFrame, InFlight
    <2>4. \A x \in Op \ {o} : Alone(x)
      BY <1>1, <2>2, <2>3 DEF Alone, Progress, Remote, progress, rtypes
    <2>5. Whole(o)'
      <3>1. state[o] \in Open /\ o \notin held /\ ~HasAnswer(o)
        BY <1>1 DEF WInv, IInv, Frames, HasAnswer
      <3>2. /\ sent'[o] = IF more THEN sent[o] + 1 ELSE sent[o]
            /\ applied'[o] = IF slicing THEN applied[o] + 1 ELSE applied[o]
            /\ o \in merged' <=> o \in merged \/ (cmd[o].kind = "upload" /\ slice[o] = Slices)
        BY <2>2 DEF rtypes
      <3>3. /\ InFlight(o)' => more
            /\ HasAnswer(o)' => ~more
        BY <1>1, <2>1, <2>2, <3>1, ReplyMail DEF WInv, InFlight
      <3>4. state[o] = "running" => Coming(o)' = IF more THEN Coming(o) + 1 ELSE Coming(o)
        BY <2>1, ReplyMail DEF WInv, Wired
      <3>5. otypes(o) /\ otypes(o)' /\ Whole(o)
        BY AllTyped, AllTypedNext DEF WInv
      <3>6. Progress(o) /\ state'[o] = state[o] /\ InFlight(o)
        BY <1>1 DEF Progress, progress, InFlight
      <3> QED BY <3>1, <3>2, <3>3, <3>4, <3>5, <3>6, ExecuteKeeps DEF more, slicing
    <2> QED BY <2>4, <2>5, OthersAlone
  <1> QED BY <1>2, <1>3 DEF KokoRuns

LEMMA ReceiveWhole ==
    ASSUME WInv, IInv', ReceiveForCommand PROVE \A x \in Op : Whole(x)'
  <1> qtypes /\ QInv /\ ftypes /\ rtypes
    BY TypesSplit DEF WInv, IInv
  <1> DEFINE m == Head(replies)
  <1>1. /\ replies # <<>> /\ replies' = Tail(replies)
        /\ UNCHANGED <<cmd, sent, applied, merged, held, serving>>
    BY DEF ReceiveForCommand, calls, remoteSide, Binary, Answered
  <1>0. m \in Message /\ m = replies[1] /\ 1 \in 1..Len(replies)
    BY <1>1, HeadTailProperties DEF ftypes
  \* The command is named once: after the step the head is another message.
  <1>2. PICK o \in Op : o = m.op
    BY <1>0 DEF Message
  <1>3. \A x \in Op : NoFrame(x)
    BY <1>1, MailTaken DEF NoFrame, InFlight
  <1>4. \A x \in Op : x # o => Coming(x)' = Coming(x)
    BY <1>1, <1>2, MailTaken
  <1>5. otypes(o) /\ otypes(o)' /\ Whole(o)
    BY <1>2, AllTyped, AllTypedNext DEF WInv
  <1>6. o \in pending <=> state[o] = "running"
    BY <1>2 DEF QInv, PendingRuns
  <1>7. CASE o \notin pending
    <2>1. UNCHANGED <<state, progress>>
      BY <1>2, <1>7 DEF ReceiveForCommand
    <2> QED BY <1>1, <1>3, <1>4, <1>6, <1>7, <2>1, QuietKeepsWhole
  \* The command fails.
  <1>8. ASSUME o \in pending, UNCHANGED progress, Settle(o, "rejected")
        PROVE  \A x \in Op : Whole(x)'
    <2>1. state' = [state EXCEPT ![o] = "rejected"] /\ state[o] = "running"
      BY <1>6, <1>8 DEF Settle
    <2>2. \A x \in Op : /\ x = o => state[x] # "new" /\ state'[x] = "rejected"
                        /\ x # o => state'[x] = state[x]
      BY <2>1 DEF qtypes
    <2>3. UNCHANGED <<cmd, progress, sent, applied, merged>>
      BY <1>1, <1>8
    <2>4. \A x \in Op : /\ NoFrame(x)
                        /\ \/ state[x] # "new" /\ state'[x] = "rejected"
                           \/ /\ state'[x] = state[x]
                              /\ state[x] = "running" => Coming(x)' = Coming(x)
      BY <1>3, <1>4, <2>2
    <2> QED BY <2>3, <2>4, FailuresKeepWhole
  <1>9. CASE o \in pending /\ m.type = "err"
    BY <1>2, <1>8, <1>9 DEF ReceiveForCommand
  <1>10. CASE o \in pending /\ m.type = "binary"
    <2>1. Binary(o)
      BY <1>2, <1>10 DEF ReceiveForCommand
    <2>2. ASSUME UNCHANGED <<slice, sunk, sinkError, state>>,
                 got' = [got EXCEPT ![o] =
                           IF cmd[o].kind = "read" /\ @ = ReadMax THEN @ ELSE @ + 1]
          PROVE  \A x \in Op : Whole(x)'
      <3>1. Coming(o) > 0 /\ Coming(o)' = Coming(o) - 1
        BY <1>1, <1>2, <1>10, MailTaken
      <3>2. /\ got'[o] = IF cmd[o].kind = "read" /\ got[o] = ReadMax THEN got[o] ELSE got[o] + 1
            /\ \A x \in Op \ {o} : got'[x] = got[x]
        BY <1>2, <2>2 DEF rtypes
      <3>3. \A x \in Op \ {o} : Alone(x)
        BY <1>1, <1>3, <1>4, <2>2, <3>2 DEF Alone, Progress, Remote
      <3>4. Whole(o)'
        BY <1>1, <1>2, <1>3, <1>5, <1>6, <1>10, <2>2, <3>1, <3>2, ChunkKeeps DEF Remote
      <3> QED BY <1>2, <3>3, <3>4, OthersAlone
    <2>3. \/ UNCHANGED progress /\ Settle(o, "rejected")
          \/ /\ UNCHANGED <<slice, sunk, sinkError, state>>
             /\ got' = [got EXCEPT ![o] =
                          IF cmd[o].kind = "read" /\ @ = ReadMax THEN @ ELSE @ + 1]
      BY <2>1 DEF Binary, progress
    <2> QED BY <1>8, <1>10, <2>2, <2>3
  <1>11. CASE o \in pending /\ m.type = "data"
    <2>1. Answered(o, m.version)
      BY <1>2, <1>11 DEF ReceiveForCommand
    <2>2. HasAnswer(o)
      BY <1>1, <1>2, <1>11, MailTaken
    <2>3. Coming(o) = 0 /\ Coming(o)' = 0 /\ ~InFlight(o)'
      <3>1. /\ \A j \in 1..Len(replies) : j > 1 => replies[j].op # o
            /\ o \notin serving /\ o \notin held
        BY <1>0, <1>2, <1>11 DEF WInv, IInv, Frames
      <3>2. ChunksOf(o) = {}
        BY <1>0, <1>2, <1>11, <3>1 DEF ChunksOf
      <3>3. Coming(o) = 0
        BY <3>2, FS_EmptySet DEF Coming
      <3>4. Coming(o)' = Coming(o)
        BY <1>1, <1>2, <1>11, MailTaken
      <3> QED BY <1>1, <3>1, <3>3, <3>4 DEF InFlight
    <2>4. /\ UNCHANGED <<got, sunk, sinkError>>
          /\ \/ /\ MoreFrames(o) /\ state' = [state EXCEPT ![o] = "acked"]
                /\ slice' = [slice EXCEPT ![o] = @ + 1]
             \/ /\ cmd[o].kind = "stream" /\ got[o] > 0
                /\ state' = [state EXCEPT ![o] = "draining"] /\ slice' = slice
             \/ /\ ~MoreFrames(o) /\ ~(cmd[o].kind = "stream" /\ got[o] > 0)
                /\ state' = [state EXCEPT ![o] = "resolved"] /\ slice' = slice
      BY <2>1 DEF Answered, Settle
    <2>5. \A x \in Op \ {o} : Alone(x)
      BY <1>1, <1>3, <1>4, <2>4 DEF Alone, Progress, Remote, qtypes, rtypes
    <2>6. \/ MoreFrames(o) /\ state'[o] = "acked" /\ slice'[o] = slice[o] + 1
          \/ /\ cmd[o].kind = "stream" /\ got[o] > 0
             /\ state'[o] = "draining" /\ slice'[o] = slice[o]
          \/ /\ ~MoreFrames(o) /\ ~(cmd[o].kind = "stream" /\ got[o] > 0)
             /\ state'[o] = "resolved" /\ slice'[o] = slice[o]
      BY <1>2, <2>4 DEF qtypes, rtypes
    <2>7. Whole(o)'
      BY <1>1, <1>2, <1>5, <1>6, <1>11, <2>2, <2>3, <2>4, <2>6, AnswerKeepsWhole DEF Remote
    <2> QED BY <1>2, <2>5, <2>7, OthersAlone
  <1> QED BY <1>0, <1>2, <1>7, <1>9, <1>10, <1>11 DEF Message

LEMMA InitWInv == Init => WInv
  <1> SUFFICES ASSUME Init PROVE WInv
    OBVIOUS
  <1>1. IInv
    BY InitIInv
  <1>2. Wired
    BY DEF Init, Wired
  <1>3. ASSUME NEW o \in Op PROVE Whole(o)
    <2>1. /\ state[o] = "new" /\ slice[o] = 0 /\ applied[o] = 0 /\ o \notin merged
          /\ sent[o] = 0 /\ got[o] = 0 /\ sunk[o] = 0 /\ ~sinkError[o]
      BY DEF Init
    <2> QED BY <2>1 DEF Whole, Untouched, UploadInv, DownloadInv
  <1> QED BY <1>1, <1>2, <1>3 DEF WInv

LEMMA StepKeepsWInv == WInv /\ [Next]_vars => WInv'
  <1> SUFFICES ASSUME WInv, [Next]_vars PROVE WInv'
    OBVIOUS
  <1>1. IInv'
    BY StepKeepsIInv DEF WInv
  <1>2. Wired'
    BY WiredKept DEF WInv
  <1>3. \A x \in Op : Whole(x)'
    BY <1>1, ConnectingWhole, ClosingWhole, PassTurnWhole, ReceiveWhole, CallWhole,
       PollHeldWhole, ContinueUploadWhole, SinkWhole, KokoWhole
    DEF Next
  <1> QED BY <1>1, <1>2, <1>3 DEF WInv

THEOREM TransferInvariance == Spec => []WInv
  BY InitWInv, StepKeepsWInv, PTL DEF Spec

\* KoKo closes a write handle over a complete file only, and a chunked upload
\* that succeeds has been merged (the loop of uploadBytes), whichever slices
\* fail, stall or are cut off by a close, and whatever is sent in between.
THEOREM UploadsAreWhole == Spec => []MergedUploadsAreWhole
  <1>1. WInv => MergedUploadsAreWhole
    BY DEF WInv, Whole, UploadInv, MergedUploadsAreWhole
  <1> QED BY <1>1, TransferInvariance, PTL

\* A download that succeeds has as many chunks as KoKo streams for it, for every
\* number of chunks and both limits: the sink chain of downloadFileToWriter has
\* taken each without an error, downloadFile has kept each, readFile those it asked
\* for.
THEOREM WholeDownloads == Spec => []DownloadsAreWhole
  <1>1. WInv => DownloadsAreWhole
    <2> SUFFICES ASSUME WInv, NEW o \in Op, state[o] = "resolved"
                 PROVE  CASE cmd[o].kind = "stream" -> sunk[o] = Chunks /\ ~sinkError[o]
                          [] cmd[o].kind = "buffer" -> got[o] = Chunks
                          [] cmd[o].kind = "read" ->
                                got[o] = IF Chunks < ReadMax THEN Chunks ELSE ReadMax
                          [] OTHER -> TRUE
      BY DEF DownloadsAreWhole
    <2>1. cmd[o].kind \in Downloads =>
             /\ got[o] = Kept(o, Chunks)
             /\ cmd[o].kind = "stream" => sunk[o] = Chunks /\ ~sinkError[o]
      BY DEF WInv, Whole, DownloadInv
    <2>2. CASE cmd[o].kind = "stream"
      BY <2>1, <2>2 DEF Downloads
    <2>3. CASE cmd[o].kind = "buffer"
      BY <2>1, <2>3 DEF Downloads, Kept
    <2>4. CASE cmd[o].kind = "read"
      BY <2>1, <2>4, SessionAssumption DEF Downloads, Kept
    <2>5. CASE cmd[o].kind \notin Downloads
      BY <2>5 DEF Downloads
    <2> QED BY <2>2, <2>3, <2>4, <2>5 DEF Downloads
  <1> QED BY <1>1, TransferInvariance, PTL

----------------------------------------------------------------------------
\* What every caller waits for.

\* A running command has its frame out, or the message that ends it.
Answering == \A o \in Op : state[o] = "running" => Awaited(o)

\* Whatever is awaited stays so while the frames that are out stay where they are.
LEMMA FramesStayAwaited ==
    ASSUME Answering, replies' = replies, held \cup serving \subseteq held' \cup serving',
           \A x \in Op : state'[x] = "running" =>
                            state[x] = "running" \/ x \in held' \cup serving'
    PROVE  Answering'
  <1> SUFFICES ASSUME NEW x \in Op, state'[x] = "running" PROVE Awaited(x)'
    BY DEF Answering
  <1>1. CASE x \in held' \cup serving'
    BY <1>1 DEF Awaited
  <1>2. CASE x \notin held' \cup serving'
    <2>1. state[x] = "running" /\ x \notin held \cup serving
      BY <1>2
    <2>2. \E i \in 1..Len(replies) : replies[i].op = x /\ replies[i].type # "binary"
      BY <2>1 DEF Answering, Awaited
    <2> QED BY <2>2 DEF Awaited
  <1> QED BY <1>1, <1>2

LEMMA KokoAnswers ==
    ASSUME WInv, Answering, NEW o \in Op, KokoRuns(o) PROVE Answering'
  <1>0. ftypes /\ qtypes /\ rtypes
    BY TypesSplit DEF WInv, IInv
  <1>1. UNCHANGED <<state, held>>
    BY DEF KokoRuns, client
  <1>2. PICK m : /\ Reply(m) /\ m.op = o
                 /\ \/ serving' = serving
                    \/ serving' = serving \ {o} /\ m.type # "binary"
    <2>1. CASE Fail(o)
      <3> DEFINE m == [op |-> o, type |-> "err", version |-> 0]
      <3>1. Reply(m) /\ m.op = o /\ m.type # "binary" /\ serving' = serving \ {o}
        BY <2>1 DEF Fail
      <3> QED BY <3>1
    <2>2. CASE Execute(o)
      <3> DEFINE more == cmd[o].kind \in Downloads /\ sent[o] < Chunks
                 version == IF \/ cmd[o].kind = "mutate"
                               \/ cmd[o].kind = "upload" /\ slice[o] < Slices
                            THEN remote[Dir(o)] + 1 ELSE remote[Dir(o)]
                 m == [op |-> o, type |-> IF more THEN "binary" ELSE "data",
                       version |-> version]
      <3>1. Reply(m) /\ serving' = IF more THEN serving ELSE serving \ {o}
        BY <2>2 DEF Execute
      <3>2. m.op = o /\ m.type = IF more THEN "binary" ELSE "data"
        OBVIOUS
      <3> HIDE DEF m, more
      <3> QED BY <3>1, <3>2
    <2> QED BY <2>1, <2>2 DEF KokoRuns
  <1> SUFFICES ASSUME NEW x \in Op, state[x] = "running" PROVE Awaited(x)'
    BY <1>1 DEF Answering
  <1>3. wire = "open" /\ replies' = Append(replies, m) /\ Awaited(x)
    BY <1>2 DEF WInv, Wired, Answering, Reply
  <1> DEFINE r == Append(replies, m)
  <1>4. /\ Len(r) = Len(replies) + 1 /\ r[Len(replies) + 1] = m /\ Len(replies) \in Nat
        /\ \A i \in 1..Len(replies) : r[i] = replies[i]
    BY <1>0, AppendProperties DEF ftypes
  <1>5. replies' = r
    BY <1>3
  <1> HIDE DEF r
  <1>6. CASE x \in held \cup serving'
    BY <1>1, <1>6 DEF Awaited
  <1>7. CASE x = o /\ m.type # "binary"
    <2>1. Len(replies) + 1 \in 1..Len(r) /\ r[Len(replies) + 1].op = x
      BY <1>2, <1>4, <1>7
    <2> QED BY <1>4, <1>5, <1>7, <2>1 DEF Awaited
  <1>8. CASE \E i \in 1..Len(replies) : replies[i].op = x /\ replies[i].type # "binary"
    <2>1. PICK i \in 1..Len(replies) : replies[i].op = x /\ replies[i].type # "binary"
      BY <1>8
    <2>2. i \in 1..Len(r) /\ r[i] = replies[i]
      BY <1>4
    <2> QED BY <1>5, <2>1, <2>2 DEF Awaited
  <1> QED BY <1>2, <1>3, <1>6, <1>7, <1>8 DEF Awaited

LEMMA ReceiveAnswers ==
    ASSUME WInv, Answering, ReceiveForCommand PROVE Answering'
  <1>0. ftypes /\ qtypes /\ QInv
    BY TypesSplit DEF WInv, IInv
  <1> DEFINE m == Head(replies)
             r == Tail(replies)
  <1>1. /\ replies # <<>> /\ replies' = r /\ UNCHANGED <<held, serving>>
    BY DEF ReceiveForCommand, Binary, Answered
  <1>2. /\ Len(r) = Len(replies) - 1 /\ Len(replies) \in Nat /\ Len(replies) >= 1
        /\ m = replies[1] /\ m \in Message
        /\ \A i \in 1..Len(r) : r[i] = replies[i+1]
    BY <1>0, <1>1, HeadTailProperties DEF ftypes
  <1>3. PICK o \in Op : o = m.op
    BY <1>2 DEF Message
  <1>4. \A x \in Op : state'[x] = "running" => state[x] = "running"
    BY <1>0 DEF ReceiveForCommand, Binary, Answered, Settle, qtypes
  <1>5. state'[o] = "running" => m.type = "binary"
    <2>1. CASE o \notin pending
      BY <1>0, <1>4, <2>1 DEF QInv, PendingRuns
    <2>2. CASE o \in pending /\ m.type = "err"
      BY <1>0, <1>3, <2>2 DEF ReceiveForCommand, Settle, qtypes
    <2>3. CASE o \in pending /\ m.type = "data"
      <3>1. Answered(o, m.version)
        BY <1>3, <2>3 DEF ReceiveForCommand
      <3>2. \E s \in {"acked", "draining", "resolved"} : state' = [state EXCEPT ![o] = s]
        BY <3>1 DEF Answered, Settle
      <3> QED BY <1>0, <3>2 DEF qtypes
    <2> QED BY <1>2, <2>1, <2>2, <2>3 DEF Message
  <1> SUFFICES ASSUME NEW x \in Op, state'[x] = "running" PROVE Awaited(x)'
    BY DEF Answering
  <1>6. Awaited(x)
    BY <1>4 DEF Answering
  <1>7. CASE x \in held \cup serving
    BY <1>1, <1>7 DEF Awaited
  <1>8. CASE \E i \in 1..Len(replies) : replies[i].op = x /\ replies[i].type # "binary"
    <2>1. PICK i \in 1..Len(replies) : replies[i].op = x /\ replies[i].type # "binary"
      BY <1>8
    <2>2. i # 1
      BY <1>2, <1>3, <1>5, <2>1
    <2> HIDE DEF r
    <2>3. i - 1 \in 1..Len(r) /\ r[i - 1] = replies[i]
      BY <1>2, <2>2
    <2> QED BY <1>1, <2>1, <2>3 DEF Awaited
  <1> QED BY <1>6, <1>7, <1>8 DEF Awaited

LEMMA StepAnswers == WInv /\ Answering /\ [Next]_vars => Answering'
  <1> SUFFICES ASSUME WInv, Answering, [Next]_vars PROVE Answering'
    OBVIOUS
  <1>0. qtypes /\ QInv
    BY TypesSplit DEF WInv, IInv
  <1>1. CASE \/ UNCHANGED vars \/ Connecting \/ InvalidateListCache
             \/ (\E p \in Path : ExpireCache(p)) \/ \E o \in Op : WriteSink(o)
    <2>1. UNCHANGED <<state, held, serving, replies>>
      BY <1>1 DEF vars, client, server, Connecting, FinishRest, FinishHandshake,
                  ReceiveConnect, InvalidateListCache, ExpireCache, WriteSink
    <2> QED BY <2>1, FramesStayAwaited
  <1>2. CASE Closing
    <2>1. RejectAll
      BY <1>2 DEF Closing, SocketClosed, SessionClosed, Dispose, HandleClose
    <2>2. \A x \in Op : state'[x] # "running"
      BY <1>0, <2>1 DEF RejectAll, QInv, PendingRuns, qtypes
    <2> QED BY <2>2 DEF Answering
  \* A frame goes out, or nothing starts to run.
  <1>3. ASSUME NEW o \in Op, NEW s, UNCHANGED replies, state' = [state EXCEPT ![o] = s],
               \/ SendWhenDrained(o)
               \/ UNCHANGED <<held, serving>> /\ s # "running"
        PROVE  Answering'
    <2>1. /\ held \cup serving \subseteq held' \cup serving'
          /\ \A x \in Op : state'[x] = "running" =>
                              state[x] = "running" \/ x \in held' \cup serving'
      BY <1>0, <1>3 DEF SendWhenDrained, qtypes
    <2> QED BY <1>3, <2>1, FramesStayAwaited
  <1>4. CASE PassTurn
    <2>1. CASE UNCHANGED <<state, held, serving, replies>>
      BY <2>1, FramesStayAwaited
    <2>2. CASE queue # <<>>
      <3>1. Head(queue) \in Op
        BY <1>0, <2>2, HeadTailProperties DEF qtypes
      <3>2. /\ UNCHANGED replies
            /\ \/ state' = [state EXCEPT ![Head(queue)] = "running"] /\ SendWhenDrained(Head(queue))
               \/ /\ state' = [state EXCEPT ![Head(queue)] = "rejected"]
                  /\ UNCHANGED <<held, serving>>
        BY <1>4, <2>2 DEF PassTurn, Settle
      <3> QED BY <1>3, <3>1, <3>2
    <2> QED BY <1>4, <2>1, <2>2 DEF PassTurn
  <1>5. ASSUME NEW o \in Op, Call(o) PROVE Answering'
    <2>1. /\ UNCHANGED replies
          /\ \/ state' = [state EXCEPT ![o] = "running"] /\ SendWhenDrained(o)
             \/ /\ UNCHANGED <<held, serving>>
                /\ \E r \in {"queued", "rejected", "resolved"} : state' = [state EXCEPT ![o] = r]
      BY <1>5 DEF Call, CallList, CallMutation, CallDownload, Enqueue
    <2> QED BY <1>3, <2>1
  <1>6. ASSUME NEW o \in Op, ContinueUpload(o) \/ FinishSink(o) PROVE Answering'
    <2>1. /\ UNCHANGED replies
          /\ \/ state' = [state EXCEPT ![o] = "running"] /\ SendWhenDrained(o)
             \/ /\ UNCHANGED <<held, serving>>
                /\ \E r \in {"rejected", "resolved"} : state' = [state EXCEPT ![o] = r]
      BY <1>6 DEF ContinueUpload, FinishSink, Settle, server
    <2> QED BY <1>3, <2>1
  <1>7. ASSUME NEW o \in Op, PollHeld(o) PROVE Answering'
    <2>1. state[o] = "running" => HeldIsWanted(o)
      BY <1>0 DEF HeldIsWanted, QInv, PendingRuns, WInv, Wired, IInv, Ends
    <2>2. /\ UNCHANGED replies /\ held' = held \ {o}
          /\ \/ UNCHANGED <<state, serving>> /\ state[o] # "running"
             \/ UNCHANGED state /\ serving' = serving \cup {o}
             \/ state' = [state EXCEPT ![o] = "rejected"] /\ UNCHANGED serving
      BY <1>7, <2>1 DEF PollHeld, Settle
    <2> SUFFICES ASSUME NEW x \in Op, state'[x] = "running" PROVE Awaited(x)'
      BY DEF Answering
    <2>3. /\ state[x] = "running" /\ Awaited(x)
          /\ x \in held \cup serving => x \in held' \cup serving'
      BY <1>0, <2>2 DEF Answering, qtypes
    <2> QED BY <2>2, <2>3 DEF Awaited
  <1> QED BY <1>1, <1>2, <1>4, <1>5, <1>6, <1>7, KokoAnswers, ReceiveAnswers DEF Next

\* No caller is forgotten, for any number of calls, slices and chunks and however
\* failures, stalled frames, closes and disposes meet them: each command that has
\* not settled waits for a turn that will be passed on (queueTail), for a frame
\* that is held, at KoKo or answered (pending, sendWhenDrained), or for its writer.
THEOREM Remembered == Spec => []NobodyIsForgotten
  <1>1. Init => Answering
    BY DEF Init, Answering
  <1>2. Spec => [](WInv /\ Answering)
    BY <1>1, StepAnswers, TransferInvariance, PTL DEF Spec
  <1>3. WInv /\ Answering => NobodyIsForgotten
    <2> SUFFICES ASSUME WInv, Answering, NEW o \in Op
                 PROVE  /\ state[o] = "queued" =>
                              ~idle /\ \E i \in 1..Len(queue) : queue[i] = o
                        /\ state[o] \in {"running", "acked", "draining"} => Runs(o)
                        /\ state[o] = "running" => o \in pending /\ wire = "open" /\ Awaited(o)
                        /\ state[o] = "draining" => sunk[o] <= got[o]
      BY DEF NobodyIsForgotten
    <2>0. qtypes /\ QInv
      BY TypesSplit DEF WInv, IInv
    <2>1. state[o] = "queued" => ~idle /\ \E i \in 1..Len(queue) : queue[i] = o
      BY <2>0 DEF QInv, QueueShape, qtypes
    <2>2. state[o] \in {"running", "acked", "draining"} => Runs(o)
      BY <2>0, ActiveIsHead DEF Runs, Active
    <2>3. state[o] = "running" => o \in pending /\ wire = "open" /\ Awaited(o)
      BY <2>0 DEF QInv, PendingRuns, WInv, Wired, Answering
    <2>4. sunk[o] <= got[o]
      BY DEF WInv, Whole, DownloadInv
    <2> QED BY <2>1, <2>2, <2>3, <2>4
  <1> QED BY <1>2, <1>3, PTL

----------------------------------------------------------------------------
\* Listings and the changes asked for before them.

Mutation(m) == cmd[m].kind \in Mutations

\* A call was made before the ones that know of it.
Before == \A x \in Op : \A y \in called[x] : y \in Op /\ state[y] # "new"

\* The queue is in the order of the calls.
Ordered == \A i, j \in 1..Len(queue) : queue[i] \in called[queue[j]] => i < j

\* A command was dispatched: from then on.
Dispatched(x) == state[x] \in Active \/ (state[x] = "resolved" /\ x \notin hits)

\* When a command is dispatched, every call before it has settled.
EarlierSettled == \A x \in Op : Dispatched(x) => \A y \in called[x] : state[y] \in Settled

OrderInv == Before /\ Ordered /\ EarlierSettled

\* A change that succeeded was made to the directory as it is now, or earlier.
MadeInThePast == \A m \in Op : state[m] = "resolved" /\ Mutation(m) => seen[m] <= remote[Dir(m)]

RepliesArePast ==
    \A i \in 1..Len(replies) : replies[i].version <= remote[Dir(replies[i].op)]

\* What KoKo's answer to a listing shows.
AnswersShow ==
    \A i \in 1..Len(replies), m \in Op :
        LET l == replies[i].op IN
        /\ state[l] = "running" /\ cmd[l].kind = "list" /\ replies[i].type = "data"
        /\ m \in called[l] /\ state[m] = "resolved" /\ Mutation(m) /\ Dir(l) = Dir(m)
        => replies[i].version >= seen[m]

VersionInv == MadeInThePast /\ RepliesArePast /\ AnswersShow /\ FetchedListsSeeEarlierWrites

LInv == WInv /\ OrderInv /\ VersionInv

\* Steps in which commands move on, with no call made and none dispatched.
LEMMA MoveKeepsOrder ==
    ASSUME IInv, OrderInv, UNCHANGED <<called, hits>>,
           queue' = queue \/ (queue # <<>> /\ queue' = Tail(queue)),
           \A x \in Op : /\ state[x] # "new" => state'[x] # "new"
                         /\ state[x] \in Settled => state'[x] \in Settled
                         /\ state'[x] \in Active \cup {"resolved"} =>
                               state[x] \in Active \/ state'[x] = state[x]
    PROVE  OrderInv'
  <1> qtypes /\ rtypes
    BY TypesSplit DEF IInv
  <1>1. Before'
    BY DEF OrderInv, Before
  <1>2. Ordered'
    <2>1. CASE queue' = queue
      BY <2>1 DEF OrderInv, Ordered
    <2>2. CASE queue # <<>> /\ queue' = Tail(queue)
      <3>1. /\ Len(Tail(queue)) = Len(queue) - 1 /\ Len(queue) \in Nat
            /\ \A i \in 1..Len(Tail(queue)) : Tail(queue)[i] = queue[i+1]
        BY <2>2, HeadTailProperties DEF qtypes
      <3>2. ASSUME NEW i \in 1..Len(Tail(queue)), NEW j \in 1..Len(Tail(queue)),
                   Tail(queue)[i] \in called[Tail(queue)[j]]
            PROVE  i < j
        <4>1. i + 1 \in 1..Len(queue) /\ j + 1 \in 1..Len(queue)
          BY <3>1
        <4>2. queue[i+1] \in called[queue[j+1]]
          BY <3>1, <3>2
        <4>3. i + 1 < j + 1
          BY <4>1, <4>2 DEF OrderInv, Ordered
        <4> QED BY <4>3
      <3> QED BY <2>2, <3>2 DEF Ordered
    <2> QED BY <2>1, <2>2
  <1>3. EarlierSettled'
    BY DEF OrderInv, Before, EarlierSettled, Dispatched, Active
  <1> QED BY <1>1, <1>2, <1>3 DEF OrderInv

\* A command is dispatched when its turn has come.
LEMMA DispatchKeepsOrder ==
    ASSUME IInv, OrderInv, UNCHANGED <<called, hits, queue>>, ~started, queue # <<>>,
           state' = [state EXCEPT ![Head(queue)] = "running"]
    PROVE  OrderInv'
  <1> qtypes /\ rtypes /\ QInv
    BY TypesSplit DEF IInv
  <1> DEFINE h == Head(queue)
  <1>1. h \in Op /\ h = queue[1] /\ Len(queue) \in Nat /\ Len(queue) >= 1
    BY HeadTailProperties DEF qtypes
  <1>2. state[h] = "queued"
    BY <1>1 DEF QInv, QueueShape
  <1>3. \A y \in called[h] : y # h /\ state[y] \in Settled
    <2> SUFFICES ASSUME NEW y \in called[h], y = h \/ state[y] \notin Settled PROVE FALSE
      OBVIOUS
    <2>1. y \in Op /\ state[y] \in Active \cup {"queued"}
      BY <1>1, <1>2 DEF OrderInv, Before, qtypes, States, Active, rtypes
    <2>2. PICK i \in 1..Len(queue) : queue[i] = y
      BY <2>1 DEF QInv, QueueShape
    <2>3. i < 1
      BY <1>1, <2>2 DEF OrderInv, Ordered
    <2> QED BY <2>3
  <1> HIDE DEF h
  <1>4. \A x \in Op : state'[x] = IF x = h THEN "running" ELSE state[x]
    BY <1>1 DEF qtypes, h
  <1>5. Before'
    BY <1>4 DEF OrderInv, Before
  <1>6. Ordered'
    BY DEF OrderInv, Ordered
  <1>7. EarlierSettled'
    BY <1>2, <1>3, <1>4 DEF OrderInv, Before, EarlierSettled, Dispatched, Settled
  <1> QED BY <1>5, <1>6, <1>7 DEF OrderInv

\* A call is made: refused, answered from the cache, dispatched or queued.
LEMMA IssueKeepsOrder ==
    ASSUME IInv, OrderInv, NEW o \in Op, state[o] = "new", NEW s \in States \ {"new"},
           state' = [state EXCEPT ![o] = s],
           called' = [called EXCEPT ![o] = {x \in Op : state[x] # "new"}],
           \/ s = "rejected" /\ UNCHANGED <<queue, hits>>
           \/ s = "resolved" /\ queue' = queue /\ hits' = hits \cup {o}
           \/ s = "running" /\ idle /\ queue' = Append(queue, o) /\ hits' = hits
           \/ s = "queued" /\ queue' = Append(queue, o) /\ hits' = hits
    PROVE  OrderInv'
  <1> qtypes /\ rtypes /\ QInv
    BY TypesSplit DEF IInv
  <1>1. /\ \A x \in Op : state'[x] = IF x = o THEN s ELSE state[x]
        /\ \A x \in Op : called'[x] = IF x = o THEN {y \in Op : state[y] # "new"} ELSE called[x]
    BY DEF qtypes, rtypes
  <1>2. Before'
    BY <1>1 DEF OrderInv, Before
  <1>3. \A x \in Op : o \notin called'[x]
    BY <1>1 DEF OrderInv, Before
  <1>4. \A i \in 1..Len(queue) : queue[i] # o /\ queue[i] \in Op
    BY DEF QInv, QueueShape, Active, qtypes
  <1>5. Ordered'
    <2>1. CASE queue' = queue
      BY <1>1, <1>4, <2>1 DEF OrderInv, Ordered
    <2>2. CASE queue' = Append(queue, o)
      <3> DEFINE q == Append(queue, o)
      <3>1. /\ Len(q) = Len(queue) + 1 /\ q[Len(q)] = o /\ Len(queue) \in Nat
            /\ \A i \in 1..Len(queue) : q[i] = queue[i]
        BY AppendProperties DEF qtypes
      <3> HIDE DEF q
      <3>2. ASSUME NEW i \in 1..Len(q), NEW j \in 1..Len(q), q[i] \in called'[q[j]]
            PROVE  i < j
        <4>1. q[j] \in Op
          BY <1>4, <3>1
        <4>2. i # Len(q)
          BY <1>3, <3>1, <3>2, <4>1
        <4>3. CASE j = Len(q)
          BY <3>1, <4>2, <4>3
        <4>4. CASE j # Len(q)
          <5>1. i \in 1..Len(queue) /\ j \in 1..Len(queue)
            BY <3>1, <4>2, <4>4
          <5>2. queue[i] \in called[queue[j]]
            BY <1>1, <1>4, <3>1, <3>2, <5>1
          <5> QED BY <5>1, <5>2 DEF OrderInv, Ordered
        <4> QED BY <4>3, <4>4
      <3> QED BY <2>2, <3>2 DEF Ordered, q
    <2> QED BY <2>1, <2>2
  <1>6. EarlierSettled'
    <2>1. ASSUME NEW x \in Op, x # o, Dispatched(x)', NEW y \in called'[x]
          PROVE  state'[y] \in Settled
      BY <1>1, <1>3, <2>1 DEF OrderInv, Before, EarlierSettled, Dispatched
    <2>2. ASSUME Dispatched(o)', NEW y \in called'[o]
          PROVE  state'[y] \in Settled
      <3>1. s = "running" /\ idle
        BY <1>1, <2>2 DEF Dispatched, Active
      <3>2. queue = <<>>
        BY <3>1 DEF QInv, QueueShape
      <3>3. y \in Op /\ state[y] # "new" /\ y # o
        <4>1. called'[o] = {x \in Op : state[x] # "new"}
          BY <1>1
        <4> QED BY <2>2, <4>1
      <3>4. state[y] \notin Active \cup {"queued"}
        BY <3>2, <3>3 DEF QInv, QueueShape
      <3> QED BY <1>1, <3>3, <3>4 DEF qtypes, States, Active
    <2> QED BY <2>1, <2>2 DEF EarlierSettled
  <1> QED BY <1>2, <1>5, <1>6 DEF OrderInv

\* Steps in which nothing new is said or written and no listing or change succeeds.
LEMMA QuietKeepsVersions ==
    ASSUME IInv, VersionInv, UNCHANGED <<cmd, called, hits, seen, remote>>,
           \A i \in 1..Len(replies') : \E j \in 1..Len(replies) : replies'[i] = replies[j],
           \A x \in Op : /\ state'[x] = "resolved" =>
                               state[x] = "resolved" \/ cmd[x].kind \in Downloads
                         /\ state'[x] = "running" =>
                               \/ state[x] = "running"
                               \/ \A j \in 1..Len(replies) : replies[j].op # x
    PROVE  VersionInv'
  <1> ftypes
    BY TypesSplit DEF IInv
  <1>0. \A j \in 1..Len(replies) : replies[j].op \in Op
    BY ReplyNamesOp
  <1> USE DEF Downloads, Mutations
  <1>1. MadeInThePast'
    BY DEF VersionInv, MadeInThePast, Mutation, Dir
  <1>2. RepliesArePast'
    BY DEF VersionInv, RepliesArePast, Dir
  <1>3. AnswersShow'
    BY <1>0 DEF VersionInv, AnswersShow, Mutation, Dir
  <1>4. FetchedListsSeeEarlierWrites'
    BY DEF VersionInv, FetchedListsSeeEarlierWrites, Dir
  <1> QED BY <1>1, <1>2, <1>3, <1>4 DEF VersionInv

\* The running command succeeds, with a message that shows its directory.
LEMMA SuccessKeepsVersions ==
    ASSUME IInv, OrderInv, VersionInv, replies # <<>>, NEW o \in Op, o = Head(replies).op,
           Head(replies).type = "data", state[o] = "running",
           state' = [state EXCEPT ![o] = "resolved"],
           seen' = [seen EXCEPT ![o] = Head(replies).version],
           UNCHANGED <<cmd, called, hits, remote>>, replies' = Tail(replies)
    PROVE  VersionInv'
  <1> qtypes /\ ftypes /\ rtypes
    BY TypesSplit DEF IInv
  <1> DEFINE v == Head(replies).version
  <1>1. /\ Head(replies) = replies[1] /\ 1 \in 1..Len(replies)
        /\ \A i \in 1..Len(replies') : i + 1 \in 1..Len(replies) /\ replies'[i] = replies[i+1]
    BY HeadTailProperties DEF ftypes
  <1>2. \A j \in 1..Len(replies) : replies[j].op \in Op
    BY ReplyNamesOp
  <1>3. \A x \in Op : /\ state'[x] = IF x = o THEN "resolved" ELSE state[x]
                      /\ seen'[x] = IF x = o THEN v ELSE seen[x]
    BY DEF qtypes, rtypes
  <1>4. v <= remote[Dir(o)]
    BY <1>1 DEF VersionInv, RepliesArePast
  \* Whoever is called after o has not been dispatched before it.
  <1>5. \A x \in Op : o \in called[x] => ~Dispatched(x)
    BY DEF OrderInv, EarlierSettled, Settled
  <1>6. MadeInThePast'
    BY <1>3, <1>4 DEF VersionInv, MadeInThePast, Mutation, Dir
  <1>7. RepliesArePast'
    BY <1>1 DEF VersionInv, RepliesArePast, Dir
  <1>8. AnswersShow'
    <2> SUFFICES ASSUME NEW i \in 1..Len(replies'), NEW m \in Op,
                        LET l == replies'[i].op IN
                        /\ state'[l] = "running" /\ cmd[l].kind = "list"
                        /\ replies'[i].type = "data" /\ m \in called[l]
                        /\ state'[m] = "resolved" /\ Mutation(m) /\ Dir(l) = Dir(m)
                 PROVE  replies'[i].version >= seen'[m]
      BY DEF AnswersShow, Mutation, Dir
    <2> DEFINE l == replies'[i].op
    <2>1. l \in Op /\ l # o /\ state[l] = "running"
      BY <1>1, <1>2, <1>3
    <2>2. m # o
      BY <1>5, <2>1 DEF Dispatched, Active
    <2>3. state[m] = "resolved" /\ seen'[m] = seen[m]
      BY <1>3, <2>2
    <2> QED BY <1>1, <2>1, <2>3 DEF VersionInv, AnswersShow
  <1>9. FetchedListsSeeEarlierWrites'
    <2> SUFFICES ASSUME NEW l \in Op, NEW m \in Op,
                        state'[l] = "resolved", cmd[l].kind = "list", l \notin hits,
                        m \in called[l], state'[m] = "resolved", cmd[m].kind \in Mutations,
                        Dir(l) = Dir(m)
                 PROVE  seen'[l] >= seen'[m]
      BY DEF FetchedListsSeeEarlierWrites, Dir
    <2>1. CASE l = o
      <3>1. m # o
        BY <1>5, <2>1 DEF Dispatched, Active
      <3>2. v >= seen[m]
        BY <1>1, <1>3, <2>1, <3>1 DEF VersionInv, AnswersShow, Mutation
      <3> QED BY <1>3, <2>1, <3>1, <3>2
    <2>2. CASE l # o
      <3>1. m # o
        BY <1>3, <1>5, <2>2 DEF Dispatched
      <3> QED BY <1>3, <2>2, <3>1 DEF VersionInv, FetchedListsSeeEarlierWrites
    <2> QED BY <2>1, <2>2
  <1> QED BY <1>6, <1>7, <1>8, <1>9 DEF VersionInv

\* A call is made: nobody knows of it yet.
LEMMA IssueKeepsVersions ==
    ASSUME IInv, OrderInv, VersionInv, NEW o \in Op, state[o] = "new", NEW c \in Commands,
           NEW s \in States,
           state' = [state EXCEPT ![o] = s], cmd' = [cmd EXCEPT ![o] = c],
           called' = [called EXCEPT ![o] = {x \in Op : state[x] # "new"}],
           UNCHANGED <<remote, replies>>,
           \/ s # "resolved" /\ UNCHANGED <<seen, hits>>
           \/ /\ c.kind = "list" /\ hits' = hits \cup {o}
              /\ \E v : seen' = [seen EXCEPT ![o] = v]
    PROVE  VersionInv'
  <1> qtypes /\ ftypes /\ rtypes
    BY TypesSplit DEF IInv
  <1>1. \A j \in 1..Len(replies) : replies[j].op \in Op /\ replies[j].op # o
    BY ReplyNamesOp DEF IInv, Frames, Open
  <1>2. \A x \in Op : x # o => /\ state'[x] = state[x] /\ cmd'[x] = cmd[x]
                               /\ called'[x] = called[x] /\ seen'[x] = seen[x]
                               /\ x \in hits' <=> x \in hits
                               /\ Dir(x)' = Dir(x) /\ Mutation(x)' = Mutation(x)
    BY DEF qtypes, rtypes, Dir, Mutation
  <1>3. \A x \in Op : o \notin called'[x]
    <2>1. o \notin called'[o]
      BY DEF rtypes
    <2>2. \A x \in Op : x # o => o \notin called'[x]
      BY <1>2 DEF OrderInv, Before
    <2> QED BY <2>1, <2>2
  <1>4. state'[o] = s /\ cmd'[o] = c
    BY DEF qtypes
  <1>5. s = "resolved" => o \in hits' /\ ~Mutation(o)'
    BY <1>4 DEF Mutation, Mutations
  <1>6. MadeInThePast'
    BY <1>2, <1>4, <1>5 DEF VersionInv, MadeInThePast
  <1>7. RepliesArePast'
    BY <1>1, <1>2 DEF VersionInv, RepliesArePast
  <1>8. AnswersShow'
    <2> SUFFICES ASSUME NEW i \in 1..Len(replies), NEW m \in Op,
                        LET l == replies[i].op IN
                        /\ state'[l] = "running" /\ cmd'[l].kind = "list"
                        /\ replies[i].type = "data" /\ m \in called'[l]
                        /\ state'[m] = "resolved" /\ Mutation(m)' /\ Dir(l)' = Dir(m)'
                 PROVE  replies[i].version >= seen'[m]
      BY DEF AnswersShow
    <2>1. m # o /\ replies[i].op \in Op /\ replies[i].op # o
      BY <1>1, <1>3
    <2> QED BY <1>2, <2>1 DEF VersionInv, AnswersShow
  <1>9. FetchedListsSeeEarlierWrites'
    <2> SUFFICES ASSUME NEW l \in Op, NEW m \in Op,
                        state'[l] = "resolved", cmd'[l].kind = "list", l \notin hits',
                        m \in called'[l], state'[m] = "resolved",
                        cmd'[m].kind \in Mutations, Dir(l)' = Dir(m)'
                 PROVE  seen'[l] >= seen'[m]
      BY DEF FetchedListsSeeEarlierWrites
    <2>1. m # o /\ l # o
      BY <1>3, <1>4, <1>5
    <2> QED BY <1>2, <2>1 DEF VersionInv, FetchedListsSeeEarlierWrites
  <1> QED BY <1>6, <1>7, <1>8, <1>9 DEF VersionInv

\* KoKo answers a frame: what it writes raises the version, and what it reads
\* shows everything that has succeeded by then.
LEMMA KokoKeepsVersions ==
    ASSUME IInv, VersionInv, NEW o \in Op, KokoRuns(o) PROVE VersionInv'
  <1> qtypes /\ ftypes /\ rtypes /\ QInv
    BY TypesSplit DEF IInv
  <1>1. UNCHANGED <<cmd, state, called, hits, seen>>
    BY DEF KokoRuns, client, history
  <1>2. cmd[o] \in Commands /\ Dir(o) \in Path /\ remote[Dir(o)] \in Nat
    <2>1. cmd[o] \in Commands
      BY DEF KokoRuns, IInv, Frames, QInv, Issued, Open
    <2> QED BY <2>1, SessionAssumption DEF CommandType, Dir, rtypes
  \* What the message has to be, for either outcome.
  <1>3. PICK m \in Message :
           /\ m.op = o /\ Reply(m)
           /\ remote'[Dir(o)] \in Nat /\ remote[Dir(o)] <= remote'[Dir(o)]
           /\ \A p \in Path : p # Dir(o) => remote'[p] = remote[p]
           /\ m.version <= remote'[Dir(o)]
           /\ m.type = "data" => remote[Dir(o)] <= m.version
    <2>1. CASE Fail(o)
      <3> DEFINE m == [op |-> o, type |-> "err", version |-> 0]
      <3>1. m \in Message /\ Reply(m) /\ remote' = remote
        BY <2>1 DEF Fail, Message
      <3> QED BY <1>2, <3>1
    <2>2. CASE Execute(o)
      <3> DEFINE more == cmd[o].kind \in Downloads /\ sent[o] < Chunks
                 v == IF \/ cmd[o].kind = "mutate"
                         \/ cmd[o].kind = "upload" /\ slice[o] < Slices
                      THEN remote[Dir(o)] + 1 ELSE remote[Dir(o)]
                 m == [op |-> o, type |-> IF more THEN "binary" ELSE "data", version |-> v]
      <3>1. v \in Nat /\ remote[Dir(o)] <= v
        BY <1>2
      <3>2. remote' = [remote EXCEPT ![Dir(o)] = v] /\ Reply(m)
        BY <2>2 DEF Execute
      <3> HIDE DEF v, more
      <3>3. /\ m \in Message /\ m.op = o /\ m.version = v
            /\ remote'[Dir(o)] = v /\ \A p \in Path : p # Dir(o) => remote'[p] = remote[p]
        BY <1>2, <3>1, <3>2 DEF Message, rtypes
      <3> QED BY <3>1, <3>2, <3>3
    <2> QED BY <2>1, <2>2 DEF KokoRuns
  <1>4. \A p \in Path : remote[p] \in Nat /\ remote'[p] \in Nat /\ remote[p] <= remote'[p]
    BY <1>2, <1>3 DEF rtypes
  <1>5. \A i \in 1..Len(replies') :
           replies'[i] = m \/ \E j \in 1..Len(replies) : replies'[i] = replies[j]
    <2>1. CASE replies' = replies
      BY <2>1
    <2>2. CASE replies' = Append(replies, m)
      <3> DEFINE r == Append(replies, m)
      <3>1. /\ Len(r) = Len(replies) + 1 /\ r[Len(r)] = m /\ Len(replies) \in Nat
            /\ \A i \in 1..Len(replies) : r[i] = replies[i]
        BY AppendProperties DEF ftypes
      <3> HIDE DEF r
      <3>2. \A i \in 1..Len(r) : i = Len(r) \/ i \in 1..Len(replies)
        BY <3>1
      <3> QED BY <2>2, <3>1, <3>2 DEF r
    <2> QED BY <1>3, <2>1, <2>2 DEF Reply
  <1>6. \A x \in Op : state[x] # "new" => Dir(x) \in Path
    <2> SUFFICES ASSUME NEW x \in Op, state[x] # "new" PROVE Dir(x) \in Path
      OBVIOUS
    <2>1. cmd[x] \in Commands
      BY DEF QInv, Issued
    <2> QED BY <2>1, SessionAssumption DEF CommandType, Dir
  <1>7. MadeInThePast'
    <2>1. ASSUME NEW x \in Op, state[x] = "resolved", Mutation(x)
          PROVE  seen[x] <= remote'[Dir(x)]
      <3>1. seen[x] <= remote[Dir(x)] /\ seen[x] \in Nat /\ Dir(x) \in Path
        BY <1>6, <2>1 DEF VersionInv, MadeInThePast, rtypes
      <3> QED BY <1>4, <3>1
    <2> QED BY <1>1, <2>1 DEF MadeInThePast, Mutation, Dir
  <1>8. RepliesArePast'
    <2>1. ASSUME NEW j \in 1..Len(replies)
          PROVE  replies[j].version <= remote'[Dir(replies[j].op)]
      <3>1. replies[j] \in Message
        BY ReplyNamesOp
      <3>2. replies[j].version \in Nat /\ replies[j].op \in Op
        BY <3>1 DEF Message
      <3>3. Dir(replies[j].op) \in Path
        BY <1>6, <3>2 DEF IInv, Frames, Open
      <3> QED BY <1>4, <3>2, <3>3 DEF VersionInv, RepliesArePast
    <2>2. \A i \in 1..Len(replies') : replies'[i].version <= remote'[Dir(replies'[i].op)]
      BY <1>3, <1>5, <2>1
    <2> QED BY <1>1, <2>2 DEF RepliesArePast, Dir
  <1>9. AnswersShow'
    <2> SUFFICES ASSUME NEW i \in 1..Len(replies'), NEW x \in Op,
                        LET l == replies'[i].op IN
                        /\ state[l] = "running" /\ cmd[l].kind = "list"
                        /\ replies'[i].type = "data" /\ x \in called[l]
                        /\ state[x] = "resolved" /\ Mutation(x) /\ Dir(l) = Dir(x)
                 PROVE  replies'[i].version >= seen[x]
      BY <1>1 DEF AnswersShow, Mutation, Dir
    <2>1. CASE replies'[i] = m
      <3>1. seen[x] <= remote[Dir(o)] /\ seen[x] \in Nat /\ m.version \in Nat
        BY <1>3, <2>1 DEF VersionInv, MadeInThePast, rtypes, Message
      <3> QED BY <1>2, <1>3, <2>1, <3>1
    <2>2. CASE \E j \in 1..Len(replies) : replies'[i] = replies[j]
      BY <2>2 DEF VersionInv, AnswersShow
    <2> QED BY <1>5, <2>1, <2>2
  <1>10. FetchedListsSeeEarlierWrites'
    BY <1>1 DEF VersionInv, FetchedListsSeeEarlierWrites, Dir
  <1> QED BY <1>7, <1>8, <1>9, <1>10 DEF VersionInv

\* Steps without a call, a dispatch, an answer, or the success of a listing or
\* of a change.
LEMMA QuietLists ==
    ASSUME LInv, UNCHANGED <<cmd, called, hits, seen, remote>>,
           \A i \in 1..Len(replies') : \E j \in 1..Len(replies) : replies'[i] = replies[j],
           queue' = queue \/ (queue # <<>> /\ queue' = Tail(queue)),
           \A x \in Op : \/ state'[x] = state[x]
                         \/ state[x] \notin {"new", "resolved"} /\ state'[x] = "rejected"
                         \/ state[x] = "running" /\ state'[x] \in {"acked", "draining"}
                         \/ /\ state[x] = "draining" /\ state'[x] = "resolved"
                            /\ cmd[x].kind \in Downloads
    PROVE  OrderInv' /\ VersionInv'
  <1>1. OrderInv'
    <2>1. \A x \in Op : /\ state[x] # "new" => state'[x] # "new"
                        /\ state[x] \in Settled => state'[x] \in Settled
                        /\ state'[x] \in Active \cup {"resolved"} =>
                              state[x] \in Active \/ state'[x] = state[x]
      BY DEF Settled, Active
    <2> QED BY <2>1, MoveKeepsOrder DEF LInv, WInv
  <1>2. VersionInv'
    <2>1. \A x \in Op : /\ state'[x] = "resolved" =>
                              state[x] = "resolved" \/ cmd[x].kind \in Downloads
                        /\ state'[x] = "running" => state[x] = "running"
      OBVIOUS
    <2> QED BY <2>1, QuietKeepsVersions DEF LInv, WInv
  <1> QED BY <1>1, <1>2

\* The command that is dispatched settles.
LEMMA SettlePops ==
    ASSUME IInv, NEW o \in Op, state[o] \in Active, NEW r, Settle(o, r)
    PROVE  /\ queue # <<>> /\ queue' = Tail(queue)
           /\ \A x \in Op : state'[x] = IF x = o THEN r ELSE state[x]
  <1> qtypes /\ QInv
    BY TypesSplit DEF IInv
  <1>1. queue # <<>>
    BY ActiveIsHead
  <1> QED BY <1>1 DEF Settle, qtypes

LEMMA ReceiveLists ==
    ASSUME LInv, ReceiveForCommand PROVE OrderInv' /\ VersionInv'
  <1> /\ IInv /\ OrderInv /\ VersionInv /\ qtypes /\ rtypes /\ ftypes /\ QInv
    BY TypesSplit DEF LInv, WInv, IInv
  <1> DEFINE m == Head(replies)
  <1>1. /\ replies # <<>> /\ replies' = Tail(replies)
        /\ UNCHANGED <<cmd, called, hits, remote>>
    BY DEF ReceiveForCommand, calls, remoteSide
  <1>2. /\ m \in Message
        /\ \A i \in 1..Len(replies') : \E j \in 1..Len(replies) : replies'[i] = replies[j]
    <2>1. /\ m = replies[1] /\ 1 \in 1..Len(replies)
          /\ \A i \in 1..Len(replies') : /\ i + 1 \in 1..Len(replies)
                                         /\ replies'[i] = replies[i+1]
      BY <1>1, HeadTailProperties DEF ftypes
    <2> QED BY <2>1 DEF ftypes
  <1>3. PICK o \in Op : o = m.op
    BY <1>2 DEF Message
  <1>4. CASE UNCHANGED <<state, queue, seen>>
    BY <1>1, <1>2, <1>4, QuietLists
  <1>5. ASSUME o \in pending PROVE state[o] = "running" /\ state[o] \in Active
    BY <1>5 DEF QInv, PendingRuns, Active
  <1>6. CASE o \in pending /\ Settle(o, "rejected") /\ seen' = seen
    <2>1. /\ queue # <<>> /\ queue' = Tail(queue)
          /\ \A x \in Op : state'[x] = IF x = o THEN "rejected" ELSE state[x]
      BY <1>5, <1>6, SettlePops
    <2> QED BY <1>1, <1>2, <1>5, <1>6, <2>1, QuietLists
  <1>7. CASE /\ o \in pending /\ UNCHANGED <<queue, seen>>
             /\ \E s \in {"acked", "draining"} : state' = [state EXCEPT ![o] = s]
    <2>1. \A x \in Op : IF x = o THEN state'[x] \in {"acked", "draining"} ELSE state'[x] = state[x]
      BY <1>7 DEF qtypes
    <2> QED BY <1>1, <1>2, <1>5, <1>7, <2>1, QuietLists
  <1>8. CASE /\ o \in pending /\ m.type = "data" /\ Settle(o, "resolved")
             /\ seen' = [seen EXCEPT ![o] = m.version]
    <2>1. /\ queue # <<>> /\ queue' = Tail(queue)
          /\ \A x \in Op : state'[x] = IF x = o THEN "resolved" ELSE state[x]
      BY <1>5, <1>8, SettlePops
    <2>2. OrderInv'
      <3>1. \A x \in Op : /\ state[x] # "new" => state'[x] # "new"
                          /\ state[x] \in Settled => state'[x] \in Settled
                          /\ state'[x] \in Active \cup {"resolved"} =>
                                state[x] \in Active \/ state'[x] = state[x]
        BY <1>5, <1>8, <2>1 DEF Settled, Active
      <3> QED BY <1>1, <2>1, <3>1, MoveKeepsOrder
    <2>3. VersionInv'
      BY <1>1, <1>3, <1>5, <1>8, SuccessKeepsVersions DEF Settle
    <2> QED BY <2>2, <2>3
  <1>9. CASE o \notin pending \/ m.type = "err"
    BY <1>3, <1>4, <1>6, <1>9 DEF ReceiveForCommand
  <1>10. CASE o \in pending /\ m.type = "binary"
    BY <1>3, <1>4, <1>6, <1>10 DEF ReceiveForCommand, Binary
  <1>11. CASE o \in pending /\ m.type = "data"
    <2>1. Answered(o, m.version)
      BY <1>3, <1>11 DEF ReceiveForCommand
    <2> QED BY <1>7, <1>8, <1>11, <2>1 DEF Answered
  <1> QED BY <1>2, <1>9, <1>10, <1>11 DEF Message

LEMMA StepKeepsLInv == LInv /\ [Next]_vars => LInv'
  <1> SUFFICES ASSUME LInv, [Next]_vars PROVE LInv'
    OBVIOUS
  <1> /\ IInv /\ OrderInv /\ VersionInv /\ WInv'
      /\ qtypes /\ rtypes /\ ftypes /\ QInv
    BY StepKeepsWInv, TypesSplit DEF LInv, WInv, IInv
  <1> DEFINE Subset == \A i \in 1..Len(replies') : \E j \in 1..Len(replies) : replies'[i] = replies[j]
  <1>1. ASSUME UNCHANGED <<cmd, called, hits, seen, remote>>, Subset,
               queue' = queue \/ (queue # <<>> /\ queue' = Tail(queue)),
               \A x \in Op : \/ state'[x] = state[x]
                             \/ state[x] \notin {"new", "resolved"} /\ state'[x] = "rejected"
        PROVE  LInv'
    BY <1>1, QuietLists DEF LInv
  <1>2. replies' = replies \/ replies' = <<>> => Subset
    OBVIOUS
  <1>3. CASE UNCHANGED vars \/ Connecting \/ InvalidateListCache
             \/ \E p \in Path : ExpireCache(p)
    <2>1. UNCHANGED <<cmd, called, hits, seen, remote, replies, queue, state>>
      BY <1>3 DEF vars, client, server, history, calls, Connecting, FinishRest,
                  FinishHandshake, ReceiveConnect, InvalidateListCache, ExpireCache
    <2> QED BY <1>1, <1>2, <2>1
  <1>4. CASE Closing
    <2>1. /\ UNCHANGED <<cmd, called, hits, seen, remote>> /\ RejectAll
          /\ replies' = replies \/ replies' = <<>>
      BY <1>4 DEF Closing, SocketClosed, SessionClosed, Dispose, HandleClose, calls, server,
                  remoteSide
    <2>2. /\ queue' = queue \/ (queue # <<>> /\ queue' = Tail(queue))
          /\ \A x \in Op : \/ state'[x] = state[x]
                           \/ state[x] = "running" /\ state'[x] = "rejected"
      BY <2>1 DEF RejectAll, QInv, PendingRuns, qtypes
    <2> QED BY <1>1, <1>2, <2>1, <2>2
  \* A frame goes out for a command that had none.
  <1>5. ASSUME UNCHANGED <<cmd, called, hits, seen, remote, replies>>,
               \/ /\ queue # <<>> /\ ~started /\ queue' = queue
                  /\ state' = [state EXCEPT ![Head(queue)] = "running"]
               \/ /\ queue' = queue
                  /\ \E o \in Op : state[o] = "acked" /\ state' = [state EXCEPT ![o] = "running"]
        PROVE  LInv'
    <2>1. PICK o \in Op : /\ state[o] \in {"queued", "acked"}
                          /\ state' = [state EXCEPT ![o] = "running"]
      BY <1>5, HeadTailProperties DEF qtypes, QInv, QueueShape
    <2>2. \A x \in Op : state'[x] = IF x = o THEN "running" ELSE state[x]
      BY <2>1 DEF qtypes
    <2>3. \A j \in 1..Len(replies) : replies[j].op # o
      BY <2>1, NoMail DEF Open
    <2>4. VersionInv'
      BY <1>2, <1>5, <2>2, <2>3, QuietKeepsVersions
    <2>5. OrderInv'
      <3>1. CASE queue # <<>> /\ ~started /\ state' = [state EXCEPT ![Head(queue)] = "running"]
        BY <1>5, <3>1, DispatchKeepsOrder
      <3>2. ASSUME NEW a \in Op, state[a] = "acked", state' = [state EXCEPT ![a] = "running"],
                   queue' = queue
            PROVE  OrderInv'
        <4>1. \A x \in Op : state'[x] = IF x = a THEN "running" ELSE state[x]
          BY <3>2 DEF qtypes
        <4> QED BY <1>5, <3>2, <4>1, MoveKeepsOrder DEF Settled, Active
      <3> QED BY <1>5, <3>1, <3>2
    <2> QED BY <2>4, <2>5 DEF LInv
  <1>6. CASE PassTurn
    <2>1. UNCHANGED <<cmd, called, hits, seen, remote, replies>>
      BY <1>6 DEF PassTurn, calls, remoteSide
    <2>2. CASE UNCHANGED <<state, queue>>
      BY <1>1, <1>2, <2>1, <2>2
    <2>3. CASE /\ queue # <<>> /\ ~started /\ queue' = queue
               /\ state' = [state EXCEPT ![Head(queue)] = "running"]
      BY <1>5, <2>1, <2>3
    <2>4. CASE queue # <<>> /\ ~started /\ Settle(Head(queue), "rejected")
      <3>1. Head(queue) \in Op /\ state[Head(queue)] = "queued"
        BY <2>4, HeadTailProperties DEF qtypes, QInv, QueueShape
      <3>2. \A x \in Op : state'[x] = state[x]
                          \/ (state[x] \notin {"new", "resolved"} /\ state'[x] = "rejected")
        BY <2>4, <3>1 DEF Settle, qtypes
      <3> QED BY <1>1, <1>2, <2>1, <2>4, <3>2 DEF Settle
    <2> QED BY <1>6, <2>2, <2>3, <2>4 DEF PassTurn
  <1>7. ASSUME NEW o \in Op, Call(o) PROVE LInv'
    <2> PICK c \in Commands : CallList(o, c) \/ CallMutation(o, c) \/ CallDownload(o, c)
      BY <1>7 DEF Call
    <2>1. /\ state[o] = "new" /\ cmd' = [cmd EXCEPT ![o] = c]
          /\ called' = [called EXCEPT ![o] = {x \in Op : state[x] # "new"}]
          /\ UNCHANGED <<remote, replies>>
      BY <1>7 DEF Call, CallList, CallMutation, CallDownload, Issue, remoteSide
    <2>2. PICK s \in States \ {"new"} :
             /\ state' = [state EXCEPT ![o] = s]
             /\ \/ s # "resolved" /\ UNCHANGED <<seen, hits>>
                \/ /\ c.kind = "list" /\ hits' = hits \cup {o}
                   /\ \E v : seen' = [seen EXCEPT ![o] = v]
             /\ \/ s = "rejected" /\ UNCHANGED <<queue, hits>>
                \/ s = "resolved" /\ queue' = queue /\ hits' = hits \cup {o}
                \/ s = "running" /\ idle /\ queue' = Append(queue, o) /\ hits' = hits
                \/ s = "queued" /\ queue' = Append(queue, o) /\ hits' = hits
      <3>1. \/ /\ UNCHANGED <<seen, hits>>
               /\ \/ Enqueue(o)
                  \/ state' = [state EXCEPT ![o] = "rejected"] /\ queue' = queue
            \/ /\ c.kind = "list" /\ hits' = hits \cup {o} /\ queue' = queue
               /\ state' = [state EXCEPT ![o] = "resolved"]
               /\ seen' = [seen EXCEPT ![o] = cache[c.path]]
        BY DEF CallList, CallMutation, CallDownload
      <3>2. {"rejected", "resolved", "running", "queued"} \subseteq States \ {"new"}
        BY DEF States, Settled
      <3> QED BY <3>1, <3>2 DEF Enqueue
    <2>3. OrderInv'
      BY <2>1, <2>2, IssueKeepsOrder
    <2>4. VersionInv'
      BY <2>1, <2>2, IssueKeepsVersions
    <2> QED BY <2>3, <2>4 DEF LInv
  <1>8. ASSUME NEW o \in Op, PollHeld(o) PROVE LInv'
    <2>1. /\ UNCHANGED <<cmd, called, hits, seen, remote, replies>>
          /\ \/ UNCHANGED <<state, queue>>
             \/ state[o] = "running" /\ Settle(o, "rejected")
      BY <1>8 DEF PollHeld, calls, remoteSide, HeldIsWanted, QInv, PendingRuns
    <2>2. CASE UNCHANGED <<state, queue>>
      BY <1>1, <1>2, <2>1, <2>2
    <2>3. CASE state[o] = "running" /\ Settle(o, "rejected")
      <3>1. /\ queue # <<>> /\ queue' = Tail(queue)
            /\ \A x \in Op : state'[x] = IF x = o THEN "rejected" ELSE state[x]
        BY <2>3, SettlePops DEF Active
      <3> QED BY <1>1, <1>2, <2>1, <2>3, <3>1
    <2> QED BY <2>1, <2>2, <2>3
  <1>9. ASSUME NEW o \in Op, ContinueUpload(o) PROVE LInv'
    <2>1. UNCHANGED <<cmd, called, hits, seen, remote, replies>> /\ state[o] = "acked"
      BY <1>9 DEF ContinueUpload, calls, remoteSide
    <2>2. CASE state' = [state EXCEPT ![o] = "running"] /\ queue' = queue
      BY <1>5, <2>1, <2>2
    <2>3. CASE Settle(o, "rejected")
      <3>1. /\ queue # <<>> /\ queue' = Tail(queue)
            /\ \A x \in Op : state'[x] = IF x = o THEN "rejected" ELSE state[x]
        BY <2>1, <2>3, SettlePops DEF Active
      <3> QED BY <1>1, <1>2, <2>1, <3>1
    <2> QED BY <1>9, <2>2, <2>3 DEF ContinueUpload
  <1>10. ASSUME NEW o \in Op, WriteSink(o) PROVE LInv'
    <2>1. UNCHANGED <<cmd, called, hits, seen, remote, replies, queue, state>>
      BY <1>10 DEF WriteSink, calls, server
    <2> QED BY <1>1, <1>2, <2>1
  <1>11. ASSUME NEW o \in Op, KokoRuns(o) PROVE LInv'
    <2>1. VersionInv'
      BY <1>11, KokoKeepsVersions
    <2>2. UNCHANGED <<called, hits, queue, state>>
      BY <1>11 DEF KokoRuns, client, history
    <2>3. OrderInv'
      BY <2>2, MoveKeepsOrder
    <2> QED BY <2>1, <2>3 DEF LInv
  <1>12. CASE ReceiveForCommand
    BY <1>12, ReceiveLists DEF LInv
  <1>13. ASSUME NEW o \in Op, FinishSink(o) PROVE LInv'
    <2>1. /\ UNCHANGED <<cmd, called, hits, seen, remote, replies>>
          /\ state[o] = "draining" /\ \E r \in Settled : Settle(o, r)
      BY <1>13 DEF FinishSink, calls, server, Settled
    <2>2. PICK r \in Settled : Settle(o, r)
      BY <2>1
    <2>3. /\ queue # <<>> /\ queue' = Tail(queue)
          /\ \A x \in Op : state'[x] = IF x = o THEN r ELSE state[x]
      BY <2>1, <2>2, SettlePops DEF Active
    <2>4. cmd[o].kind \in Downloads
      BY <2>1 DEF LInv, WInv, Whole, DownloadInv, Downloads
    <2>5. OrderInv' /\ VersionInv'
      BY <1>2, <2>1, <2>3, <2>4, QuietLists DEF Settled
    <2> QED BY <2>5 DEF LInv
  <1> QED BY <1>3, <1>4, <1>6, <1>7, <1>8, <1>9, <1>10, <1>11, <1>12, <1>13 DEF Next

\* A listing that was fetched shows every change of its directory whose call
\* came before it and that succeeded (sendCommand over queueTail): also one
\* that still waited or ran when the listing was asked for, whatever fails in
\* between and in whatever order KoKo runs the frames it has.
THEOREM ListsSeeWhatWasAskedBefore == Spec => []FetchedListsSeeEarlierWrites
  <1>1. Init => LInv
    <2> SUFFICES ASSUME Init PROVE LInv
      OBVIOUS
    <2>1. OrderInv
      BY DEF Init, OrderInv, Before, Ordered, EarlierSettled
    <2>2. VersionInv
      BY DEF Init, VersionInv, MadeInThePast, RepliesArePast, AnswersShow,
             FetchedListsSeeEarlierWrites
    <2> QED BY <2>1, <2>2, InitWInv DEF LInv
  <1>2. LInv => FetchedListsSeeEarlierWrites
    BY DEF LInv, VersionInv
  <1> QED BY <1>1, <1>2, StepKeepsLInv, PTL DEF Spec

=============================================================================
