-------------------------- MODULE AgentTools_proofs --------------------------
(***************************************************************************)
(* Theorems about AgentTools, for every set of windows, terminals and      *)
(* calls, and every choice of the durations in their order.                *)
(***************************************************************************)
EXTENDS AgentTools, SequenceTheorems, FiniteSetTheorems, TLAPS

InChain == {"queued", "collect"}
Collected == {"collect", "missing", "timeout", "done"}

\* The clocks of prompts and collections stay within their limits.
Clocks ==
    /\ \A c \in Call : age[c] <= HubDeadline
    /\ \A a \in Attempt : /\ stage[a] = "prompt" => since[a] <= ConfirmLimit
                          /\ stage[a] = "collect" => since[a] <= Timeout(a[1])

\* A call that is new has no attempt yet; what waits has a terminal.
Fresh ==
    /\ \A a \in Attempt : at[a[1]] = "new" => stage[a] = "new"
    /\ \A a \in Attempt : stage[a] \in Waiting => target[a] \in Term

\* Each chain holds the attempts that wait for its terminal, each of them once,
\* and only its head is being collected.
Chain(t) ==
    /\ \A i, j \in 1..Len(queue[t]) : queue[t][i] = queue[t][j] => i = j
    /\ \A i \in 1..Len(queue[t]) :
          /\ target[queue[t][i]] = t
          /\ stage[queue[t][i]] \in IF i = 1 THEN InChain ELSE {"queued"}
Chained(a) == \E i \in 1..Len(queue[target[a]]) : queue[target[a]][i] = a
Chains == /\ \A t \in Term : Chain(t)
          /\ \A a \in Attempt : stage[a] \in InChain => Chained(a)

\* Each line in a terminal was typed there once, by an attempt that got that far.
Line(t) ==
    /\ \A i, j \in 1..Len(typed[t]) : typed[t][i] = typed[t][j] => i = j
    /\ \A i \in 1..Len(typed[t]) :
          /\ target[typed[t][i]] = t
          /\ stage[typed[t][i]] \in Collected
          /\ stage[typed[t][i]] = "done" => typed[t][i][1] \in direct
    /\ front[t] = "line" => typed[t] # <<>> /\ typed[t][1] \in ran
Lines == \A t \in Term : Line(t)

Typed(a) == \E t \in Term : \E i \in 1..Len(typed[t]) : typed[t][i] = a

\* Markers come from lines that ran, end markers from lines that ran to the end.
Marks ==
    /\ \A t \in Term : \A i \in 1..Len(output[t]) :
          /\ output[t][i].of \in ran
          /\ output[t][i].mark = "end" => ~Typed(output[t][i].of)
    /\ seen \subseteq ran
    /\ \A a \in ran : stage[a] \in Collected
    /\ \A a \in Attempt : stage[a] = "done" /\ a[1] \notin direct => a \in ran

Types ==
    /\ direct \subseteq Call /\ at \in [Call -> Window \cup {"new", "over"}]
    /\ age \in [Call -> Nat]
    /\ stage \in [Attempt -> {"new"} \cup Waiting \cup Answers]
    /\ target \in [Attempt -> Term \cup {None}]
    /\ since \in [Attempt -> Nat] /\ seen \subseteq Attempt
    /\ queue \in [Term -> Seq(Attempt)]
    /\ context \in [Term -> {"connected", "disconnected", "absent"}]
    /\ active \in [Window -> Term \cup {None}] /\ open \subseteq Term
    /\ typed \in [Term -> Seq(Attempt)] /\ front \in [Term -> {"prompt", "line", "user"}]
    /\ output \in [Term -> Seq([of : Attempt, mark : {"start", "end"}])]
    /\ ran \subseteq Attempt

IInv == Types /\ Clocks /\ Fresh /\ Chains /\ Lines /\ Marks

\* No marker is added to those on their way.
Fewer == \A t \in Term : \A i \in 1..Len(output'[t]) :
            \E j \in 1..Len(output[t]) : output'[t][i] = output[t][j]

----------------------------------------------------------------------------
\* Facts about the constants and the initial states.

LEMMA Limits ==
    /\ HubDeadline \in Nat \ {0} /\ ConfirmLimit \in Nat \ {0}
    /\ \A c \in Call : Timeout(c) \in Nat \ {0} /\ Timeout(c) <= MaxTimeout
  BY AgentAssumption DEF Timeout

LEMMA InitIInv == Init => IInv
  <1> SUFFICES ASSUME Init PROVE IInv
    OBVIOUS
  <1>1. Types
    BY DEF Init, Types, Waiting, Answers, Attempt
  <1>2. Clocks /\ Fresh
    BY Limits DEF Init, Clocks, Fresh, Waiting, Attempt
  <1>3. Chains
    BY DEF Init, Chains, Chain, InChain, Attempt
  <1>4. Lines
    BY DEF Init, Lines, Line
  <1>5. Marks
    BY DEF Init, Marks
  <1> QED BY <1>1, <1>2, <1>3, <1>4, <1>5 DEF IInv

----------------------------------------------------------------------------
\* The chains.

\* What is being collected leads its chain.
LEMMA CollectLeads ==
    ASSUME Types, Fresh, Chains, NEW a \in Attempt, stage[a] = "collect"
    PROVE  target[a] \in Term /\ AtHead(a)
  <1>1. target[a] \in Term
    BY DEF Fresh, Waiting
  <1>2. PICK i \in 1..Len(queue[target[a]]) : queue[target[a]][i] = a
    BY DEF Chains, Chained, InChain
  <1>3. i = 1
    BY <1>1, <1>2 DEF Chains, Chain
  <1> QED
    BY <1>1, <1>2, <1>3 DEF AtHead, Types

\* The head of a chain is settled with an answer.
LEMMA SettleChains ==
    ASSUME Types, Fresh, Chains, NEW a \in Attempt, stage[a] \in InChain, AtHead(a),
           NEW s \in Answers, stage' = [stage EXCEPT ![a] = s], Settle(a), UNCHANGED target
    PROVE  queue' \in [Term -> Seq(Attempt)] /\ Chains'
  <1> DEFINE t == target[a]
             q == queue[t]
  <1>1. t \in Term /\ q \in Seq(Attempt) /\ q # <<>> /\ a = q[1]
    BY DEF Fresh, Waiting, InChain, AtHead, Types
  <1>2. /\ Tail(q) \in Seq(Attempt) /\ Len(Tail(q)) = Len(q) - 1
        /\ \A i \in 1..Len(Tail(q)) : Tail(q)[i] = q[i+1]
    BY <1>1, HeadTailProperties
  <1>3. queue' = [queue EXCEPT ![t] = Tail(q)]
    BY DEF Settle
  <1>4. queue' \in [Term -> Seq(Attempt)]
    BY <1>1, <1>2, <1>3 DEF Types
  <1> HIDE DEF t
  <1>5. ASSUME NEW u \in Term PROVE Chain(u)'
    <2>1. CASE u # t
      <3>1. queue'[u] = queue[u]
        BY <2>1, <1>3 DEF Types
      <3>2. \A i \in 1..Len(queue[u]) : queue[u][i] # a
        BY <2>1, <1>1 DEF Chains, Chain, t
      <3> QED BY <3>1, <3>2 DEF Chains, Chain, Types
    <2>2. CASE u = t
      <3>1. queue'[u] = Tail(q)
        BY <2>2, <1>1, <1>3 DEF Types
      <3>2. /\ \A i, j \in 1..Len(q) : q[i] = q[j] => i = j
            /\ \A i \in 1..Len(q) : target[q[i]] = t /\ (i # 1 => stage[q[i]] = "queued")
        BY <1>1 DEF Chains, Chain
      <3> HIDE DEF q
      <3>3. \A i \in 1..Len(Tail(q)) :
               Tail(q)[i] # a /\ target[Tail(q)[i]] = t /\ stage[Tail(q)[i]] = "queued"
        BY <1>1, <1>2, <3>2
      <3>4. \A i, j \in 1..Len(Tail(q)) : Tail(q)[i] = Tail(q)[j] => i = j
        BY <1>1, <1>2, <3>2
      <3>5. \A i \in 1..Len(Tail(q)) : Tail(q)[i] \in Attempt
        BY <1>2
      <3> QED
        <4>1. PICK r : r = Tail(q)
          OBVIOUS
        <4>2. \A i \in 1..Len(r) : target'[r[i]] = t /\ stage'[r[i]] = "queued"
          BY <3>3, <3>5, <4>1 DEF Types
        <4>3. \A i \in 1..Len(r) : stage'[r[i]] \in IF i = 1 THEN InChain ELSE {"queued"}
          BY <4>2 DEF InChain
        <4>4. \A i, j \in 1..Len(r) : r[i] = r[j] => i = j
          BY <3>4, <4>1
        <4>5. queue'[u] = r
          BY <3>1, <4>1
        <4> QED BY <2>2, <4>2, <4>3, <4>4, <4>5 DEF Chain
    <2> QED BY <2>1, <2>2
  <1>6. ASSUME NEW b \in Attempt, stage'[b] \in InChain PROVE Chained(b)'
    <2>1. b # a /\ stage[b] \in InChain
      BY <1>6 DEF InChain, Answers, Types
    <2>2. PICK i \in 1..Len(queue[target[b]]) : queue[target[b]][i] = b
      BY <2>1 DEF Chains, Chained
    <2>3. CASE target[b] # t
      BY <2>2, <2>3, <1>1, <1>3 DEF Chained, Types
    <2>4. CASE target[b] = t
      <3>1. i # 1 /\ i \in 1..Len(q) /\ q[i] = b
        BY <2>1, <2>2, <2>4, <1>1
      <3>2. queue'[target[b]] = Tail(q)
        BY <2>4, <1>1, <1>3 DEF Types
      <3> HIDE DEF q
      <3>3. i - 1 \in 1..Len(Tail(q)) /\ Tail(q)[i-1] = b
        BY <3>1, <1>1, <1>2
      <3> QED BY <3>2, <3>3 DEF Chained
    <2> QED BY <2>3, <2>4
  <1> QED BY <1>4, <1>5, <1>6 DEF Chains

\* An attempt that did not wait enters the chain of the terminal it resolved.
LEMMA EnqueueChains ==
    ASSUME Types, Chains, NEW a \in Attempt, stage[a] \notin InChain, NEW t \in Term,
           target' = [target EXCEPT ![a] = t], Enqueue(a, t)
    PROVE  queue' \in [Term -> Seq(Attempt)] /\ Chains'
  <1> DEFINE q == queue[t]
             r == Append(q, a)
  <1>1. q \in Seq(Attempt)
    BY DEF Types
  <1>2. /\ r \in Seq(Attempt) /\ Len(r) = Len(q) + 1 /\ r[Len(q) + 1] = a
        /\ \A i \in 1..Len(q) : r[i] = q[i]
    BY <1>1, AppendProperties
  <1>3. queue' = [queue EXCEPT ![t] = r] /\ stage' = [stage EXCEPT ![a] = "queued"]
    BY DEF Enqueue, Enter
  <1>4. queue' \in [Term -> Seq(Attempt)]
    BY <1>2, <1>3 DEF Types
  <1>5. \A u \in Term : \A i \in 1..Len(queue[u]) : queue[u][i] # a /\ queue[u][i] \in Attempt
    BY DEF Chains, Chain, InChain, Types
  <1> HIDE DEF r
  <1>6. ASSUME NEW u \in Term PROVE Chain(u)'
    <2>1. CASE u # t
      <3>1. queue'[u] = queue[u]
        BY <2>1, <1>3 DEF Types
      <3> QED BY <3>1, <1>3, <1>5 DEF Chains, Chain, Types
    <2>2. CASE u = t
      <3>1. queue'[u] = r
        BY <2>2, <1>3 DEF Types
      <3>2. \A i \in 1..Len(r) : i \in 1..Len(q) \/ i = Len(q) + 1
        BY <1>1, <1>2
      <3>3. \A i, j \in 1..Len(r) : r[i] = r[j] => i = j
        BY <1>1, <1>2, <1>5, <3>2 DEF Chains, Chain
      <3>4. \A i \in 1..Len(r) : /\ target'[r[i]] = t
                                 /\ stage'[r[i]] \in IF i = 1 THEN InChain ELSE {"queued"}
        <4> SUFFICES ASSUME NEW i \in 1..Len(r)
                     PROVE  /\ target'[r[i]] = t
                            /\ stage'[r[i]] \in IF i = 1 THEN InChain ELSE {"queued"}
          OBVIOUS
        <4>1. CASE i \in 1..Len(q)
          <5>1. r[i] = q[i] /\ q[i] # a /\ q[i] \in Attempt
            BY <4>1, <1>2, <1>5
          <5>2. target[q[i]] = t /\ stage[q[i]] \in IF i = 1 THEN InChain ELSE {"queued"}
            BY <4>1 DEF Chains, Chain
          <5>3. target'[q[i]] = target[q[i]] /\ stage'[q[i]] = stage[q[i]]
            BY <5>1, <1>3 DEF Types
          <5> QED BY <5>1, <5>2, <5>3
        <4>2. CASE i = Len(q) + 1
          BY <4>2, <1>2, <1>3 DEF InChain, Types
        <4> QED BY <3>2, <4>1, <4>2
      <3> QED BY <2>2, <3>1, <3>3, <3>4 DEF Chain
    <2> QED BY <2>1, <2>2
  <1>7. ASSUME NEW b \in Attempt, stage'[b] \in InChain PROVE Chained(b)'
    <2>1. CASE b = a
      <3>1. target'[b] = t /\ queue'[t] = r
        BY <2>1, <1>3 DEF Types
      <3>2. Len(q) + 1 \in 1..Len(r)
        BY <1>1, <1>2
      <3> QED BY <2>1, <3>1, <3>2, <1>2 DEF Chained
    <2>2. CASE b # a
      <3>1. stage[b] \in InChain /\ target'[b] = target[b]
        BY <2>2, <1>3, <1>7 DEF Types
      <3>2. PICK i \in 1..Len(queue[target[b]]) : queue[target[b]][i] = b
        BY <3>1 DEF Chains, Chained
      <3>3. CASE target[b] = t
        <4>1. i \in 1..Len(r) /\ r[i] = b /\ queue'[target'[b]] = r
          BY <3>1, <3>2, <3>3, <1>1, <1>2, <1>3 DEF Types
        <4> QED BY <4>1 DEF Chained
      <3>4. CASE target[b] # t
        BY <3>1, <3>2, <3>4, <1>3 DEF Chained, Types
      <3> QED BY <3>3, <3>4
    <2> QED BY <2>1, <2>2
  <1> QED BY <1>4, <1>6, <1>7 DEF Chains

----------------------------------------------------------------------------
\* Lines and markers.

\* An attempt goes on without anything being typed.
LEMMA StageLines ==
    ASSUME Types, Lines, Marks, NEW a \in Attempt, NEW s,
           stage' = [stage EXCEPT ![a] = s], direct \subseteq direct',
           \A b \in Attempt : target'[b] = target[b] \/ (b = a /\ stage[a] \notin Collected),
           stage[a] \in Collected => s \in Collected,
           s = "done" => a[1] \in direct' \/ (a \in ran /\ ~Typed(a)),
           UNCHANGED <<typed, front, ran>>, Fewer, seen' \subseteq ran
    PROVE  Lines' /\ Marks'
  <1>1. ASSUME NEW t \in Term PROVE Line(t)'
    <2>1. \A i \in 1..Len(typed[t]) : typed[t][i] \in Attempt
      BY DEF Types
    <2>2. ASSUME NEW i \in 1..Len(typed[t])
          PROVE  /\ target'[typed[t][i]] = t
                 /\ stage'[typed[t][i]] \in Collected
                 /\ stage'[typed[t][i]] = "done" => typed[t][i][1] \in direct'
      <3>1. /\ target[typed[t][i]] = t /\ stage[typed[t][i]] \in Collected
            /\ stage[typed[t][i]] = "done" => typed[t][i][1] \in direct
        BY DEF Lines, Line
      <3>2. target'[typed[t][i]] = target[typed[t][i]]
        BY <2>1, <3>1
      <3>3. CASE typed[t][i] = a
        <4>1. Typed(a)
          BY <3>3 DEF Typed
        <4> QED BY <2>1, <3>1, <3>2, <3>3, <4>1 DEF Types
      <3>4. CASE typed[t][i] # a
        BY <2>1, <3>1, <3>2, <3>4 DEF Types
      <3> QED BY <3>3, <3>4
    <2>3. /\ \A i, j \in 1..Len(typed[t]) : typed[t][i] = typed[t][j] => i = j
          /\ front[t] = "line" => typed[t] # <<>> /\ typed[t][1] \in ran
      BY DEF Lines, Line
    <2> QED BY <2>2, <2>3 DEF Line
  <1>2. Lines'
    BY <1>1 DEF Lines
  <1>3. \A b : Typed(b)' <=> Typed(b)
    BY DEF Typed
  <1>4. \A b \in ran : stage'[b] \in Collected
    BY DEF Marks, Types
  <1>5. \A b \in Attempt : stage'[b] = "done" /\ b[1] \notin direct' => b \in ran
    BY DEF Marks, Types
  <1>6. \A t \in Term : \A i \in 1..Len(output'[t]) :
           output'[t][i].of \in ran /\ (output'[t][i].mark = "end" => ~Typed(output'[t][i].of))
    BY DEF Marks, Fewer
  <1>7. Marks'
    BY <1>3, <1>4, <1>5, <1>6 DEF Marks
  <1> QED BY <1>2, <1>7

\* An attempt that waited types its line into its own terminal.
LEMMA TypeLines ==
    ASSUME Types, Lines, Marks, NEW a \in Attempt, stage[a] \in {"prompt", "queued"},
           target[a] \in Term, Type(a, target[a]),
           NEW s \in {"collect", "done"}, stage' = [stage EXCEPT ![a] = s],
           s = "done" => a[1] \in direct,
           UNCHANGED <<direct, target, seen, front, ran, output>>
    PROVE  typed' \in [Term -> Seq(Attempt)] /\ Lines' /\ Marks'
  <1> DEFINE t == target[a]
             q == typed[t]
             r == Append(q, a)
  <1>1. t \in Term /\ q \in Seq(Attempt)
    BY DEF Types
  <1>2. /\ r \in Seq(Attempt) /\ Len(r) = Len(q) + 1 /\ r[Len(q) + 1] = a
        /\ \A i \in 1..Len(q) : r[i] = q[i]
    BY <1>1, AppendProperties
  <1>3. typed' = [typed EXCEPT ![t] = r]
    BY DEF Type
  <1>4. typed' \in [Term -> Seq(Attempt)]
    BY <1>1, <1>2, <1>3 DEF Types
  <1>5. a \notin ran /\ ~Typed(a)
    BY DEF Marks, Typed, Lines, Line, Collected
  <1>6. \A u \in Term : \A i \in 1..Len(typed[u]) : typed[u][i] # a /\ typed[u][i] \in Attempt
    BY <1>5 DEF Typed, Types
  <1> HIDE DEF r, t
  <1>7. \A i \in 1..Len(r) : i \in 1..Len(q) \/ i = Len(q) + 1
    BY <1>1, <1>2
  <1>8. ASSUME NEW u \in Term PROVE Line(u)'
    <2>0. \A i \in 1..Len(typed[u]) :
             /\ target[typed[u][i]] = u
             /\ stage'[typed[u][i]] \in Collected
             /\ stage'[typed[u][i]] = "done" => typed[u][i][1] \in direct
      BY <1>6 DEF Lines, Line, Types
    <2>1. CASE u # t
      <3>1. typed'[u] = typed[u]
        BY <2>1, <1>3 DEF Types
      <3> QED BY <3>1, <2>0 DEF Lines, Line
    <2>2. CASE u = t
      <3>1. typed'[u] = r
        BY <2>2, <1>3 DEF Types
      <3>2. \A i, j \in 1..Len(r) : r[i] = r[j] => i = j
        BY <1>1, <1>2, <1>6, <1>7 DEF Lines, Line
      <3>3. ASSUME NEW i \in 1..Len(r)
            PROVE  /\ target[r[i]] = t /\ stage'[r[i]] \in Collected
                   /\ stage'[r[i]] = "done" => r[i][1] \in direct
        <4>1. CASE i \in 1..Len(q)
          BY <4>1, <1>2, <2>0, <2>2
        <4>2. CASE i = Len(q) + 1
          BY <4>2, <1>2 DEF Collected, Types, t
        <4> QED BY <1>7, <4>1, <4>2
      <3>4. front[u] = "line" => r # <<>> /\ r[1] \in ran
        <4> SUFFICES ASSUME front[u] = "line" PROVE r # <<>> /\ r[1] \in ran
          OBVIOUS
        <4>1. q # <<>> /\ q[1] \in ran
          BY <2>2 DEF Lines, Line
        <4>2. 1 \in 1..Len(q)
          BY <1>1, <4>1, EmptySeq
        <4> QED BY <4>1, <4>2, <1>1, <1>2
      <3> QED BY <2>2, <3>1, <3>2, <3>3, <3>4 DEF Line
    <2> QED BY <2>1, <2>2
  <1>9. Lines'
    BY <1>8 DEF Lines
  <1>10. \A b : b # a /\ Typed(b)' => Typed(b)
    <2> SUFFICES ASSUME NEW b, b # a, NEW u \in Term, NEW i \in 1..Len(typed'[u]), typed'[u][i] = b
                 PROVE  Typed(b)
      BY DEF Typed
    <2>1. CASE u # t
      BY <2>1, <1>3 DEF Typed, Types
    <2>2. CASE u = t
      <3>1. typed'[u] = r
        BY <2>2, <1>3 DEF Types
      <3>2. i \in 1..Len(q) /\ q[i] = b
        BY <3>1, <1>2, <1>7
      <3> QED BY <3>2, <1>1 DEF Typed
    <2> QED BY <2>1, <2>2
  <1>11. \A b \in ran : stage'[b] \in Collected
    BY <1>5 DEF Marks, Types
  <1>12. \A b \in Attempt : stage'[b] = "done" /\ b[1] \notin direct => b \in ran
    BY DEF Marks, Types
  <1>13. ASSUME NEW u \in Term, NEW i \in 1..Len(output[u]), NEW b, b = output[u][i].of
         PROVE  b \in ran /\ (output[u][i].mark = "end" => ~Typed(b)')
    <2>1. b \in ran /\ (output[u][i].mark = "end" => ~Typed(b))
      BY <1>13 DEF Marks
    <2> QED BY <1>5, <1>10, <2>1
  <1>14. Marks'
    BY <1>11, <1>12, <1>13 DEF Marks
  <1> QED BY <1>4, <1>9, <1>14

----------------------------------------------------------------------------
\* The tools' own steps.

\* An attempt is not in its chain and stays out of it.
LEMMA OutsideChains ==
    ASSUME Types, Chains, NEW a \in Attempt, NEW s, stage' = [stage EXCEPT ![a] = s],
           stage[a] \notin InChain, s \notin InChain,
           \A b \in Attempt : target'[b] = target[b] \/ b = a, UNCHANGED queue
    PROVE  Chains'
  <1>1. \A t \in Term : \A i \in 1..Len(queue[t]) : queue[t][i] # a /\ queue[t][i] \in Attempt
    BY DEF Chains, Chain, InChain, Types
  <1>2. ASSUME NEW t \in Term PROVE Chain(t)'
    <2>1. Chain(t) /\ queue'[t] = queue[t]
      BY DEF Chains
    <2>2. \A i \in 1..Len(queue[t]) : /\ target'[queue[t][i]] = target[queue[t][i]]
                                     /\ stage'[queue[t][i]] = stage[queue[t][i]]
      BY <1>1 DEF Types
    <2> QED BY <2>1, <2>2 DEF Chain
  <1>3. ASSUME NEW b \in Attempt, stage'[b] \in InChain PROVE Chained(b)'
    <2>1. b # a /\ stage[b] \in InChain /\ target'[b] = target[b]
      BY <1>3 DEF Types
    <2> QED BY <2>1 DEF Chains, Chained
  <1> QED BY <1>2, <1>3 DEF Chains

\* The clocks and the terminals when attempt a enters stage s.
LEMMA EnterClocks ==
    ASSUME Types, Clocks, Fresh, NEW a \in Attempt, NEW s \in Waiting \cup Answers,
           Enter(a, s),
           \A c \in Call : age'[c] <= HubDeadline,
           \A c \in Call : at'[c] = "new" => at[c] = "new" /\ c # a[1],
           \A b \in Attempt : target'[b] = target[b] \/ (b = a /\ target'[b] \in Term),
           s \in Waiting => target'[a] \in Term
    PROVE  /\ stage' \in [Attempt -> {"new"} \cup Waiting \cup Answers]
           /\ since' \in [Attempt -> Nat]
           /\ Clocks' /\ Fresh'
  <1>1. /\ stage' = [stage EXCEPT ![a] = s] /\ since' = [since EXCEPT ![a] = 0]
        /\ a[1] \in Call
    BY DEF Enter, Attempt
  <1>2. stage' \in [Attempt -> {"new"} \cup Waiting \cup Answers] /\ since' \in [Attempt -> Nat]
    BY <1>1 DEF Types
  <1>3. Clocks'
    <2> SUFFICES ASSUME NEW b \in Attempt
                 PROVE  /\ stage'[b] = "prompt" => since'[b] <= ConfirmLimit
                        /\ stage'[b] = "collect" => since'[b] <= Timeout(b[1])
      BY DEF Clocks
    <2>1. CASE b = a
      BY <2>1, <1>1, Limits DEF Types
    <2>2. CASE b # a
      BY <2>2, <1>1 DEF Clocks, Types
    <2> QED BY <2>1, <2>2
  <1>4. Fresh'
    <2> SUFFICES ASSUME NEW b \in Attempt
                 PROVE  /\ at'[b[1]] = "new" => stage'[b] = "new"
                        /\ stage'[b] \in Waiting => target'[b] \in Term
      BY DEF Fresh
    <2>0. b[1] \in Call
      BY DEF Attempt
    <2>1. CASE b = a
      BY <2>0, <2>1, <1>1 DEF Types
    <2>2. CASE b # a
      BY <2>0, <2>2, <1>1 DEF Fresh, Types
    <2> QED BY <2>1, <2>2
  <1> QED BY <1>2, <1>3, <1>4

\* The hub's side of an answer.
LEMMA AnswerHub ==
    ASSUME Types, Clocks, Fresh, NEW a \in Attempt, NEW s, Answer(a, s), stage[a] # "new",
           UNCHANGED age
    PROVE  /\ at' \in [Call -> Window \cup {"new", "over"}]
           /\ \A c \in Call : age'[c] <= HubDeadline
           /\ \A c \in Call : at'[c] = "new" => at[c] = "new" /\ c # a[1]
  <1>1. a[1] \in Call /\ at[a[1]] # "new"
    BY DEF Attempt, Fresh
  <1> QED BY <1>1 DEF Answer, Types, Clocks

\* A window takes a call: the prompt, the queue, or an error.
LEMMA ServeKeeps ==
    ASSUME IInv, NEW c \in Call, NEW w \in Window, stage[<<c, w>>] = "new",
           NEW t \in Term \cup {None}, NEW raw \in BOOLEAN, Serve(c, w, t, raw),
           direct' \subseteq Call, direct \subseteq direct'
    PROVE  IInv'
  <1> DEFINE a == <<c, w>>
  <1>0. a \in Attempt /\ a[1] = c /\ w # "new"
    <2>1. a \in Attempt /\ a[1] = c
      BY DEF Attempt
    <2> QED BY <2>1, AgentAssumption
  <1>1. /\ Types /\ Clocks /\ Fresh /\ Chains /\ Lines /\ Marks
        /\ stage[a] \notin InChain /\ stage[a] \notin Collected
        /\ UNCHANGED <<seen, context, active, open, typed, front, output, ran>>
        /\ age' = [age EXCEPT ![c] = 0]
    BY DEF IInv, Serve, InChain, Collected, registry, shell
  <1>2. age' \in [Call -> Nat] /\ \A d \in Call : age'[d] <= HubDeadline
    BY <1>1, Limits DEF Types, Clocks
  <1>3. CASE Connected(t)
    <2>1. /\ at' = [at EXCEPT ![c] = w] /\ target' = [target EXCEPT ![a] = t]
          /\ (Enter(a, "prompt") /\ UNCHANGED queue) \/ Enqueue(a, t)
      BY <1>3 DEF Serve
    <2>2. t \in Term
      BY <1>3 DEF Connected
    <2>3. /\ at' \in [Call -> Window \cup {"new", "over"}]
          /\ \A d \in Call : at'[d] = "new" => at[d] = "new" /\ d # c
          /\ target' \in [Attempt -> Term \cup {None}] /\ target'[a] = t
          /\ \A b \in Attempt : target'[b] = target[b] \/ b = a
      BY <1>0, <1>1, <2>1, <2>2 DEF Types
    <2>4. PICK s \in {"prompt", "queued"} : Enter(a, s)
      BY <2>1 DEF Enqueue
    <2> HIDE DEF a
    <2>5. /\ stage' \in [Attempt -> {"new"} \cup Waiting \cup Answers]
          /\ since' \in [Attempt -> Nat] /\ Clocks' /\ Fresh'
      <3>1. s \in Waiting \cup Answers
        BY DEF Waiting
      <3> QED BY <1>0, <1>1, <1>2, <2>2, <2>3, <2>4, <3>1, EnterClocks
    <2>6. stage' = [stage EXCEPT ![a] = s]
      BY <2>4 DEF Enter
    <2>7. Lines' /\ Marks'
      <3>1. seen' \subseteq ran /\ Fewer
        BY <1>1 DEF Marks, Fewer
      <3> QED BY <1>0, <1>1, <2>3, <2>6, <3>1, StageLines
    <2>8. queue' \in [Term -> Seq(Attempt)] /\ Chains'
      <3>1. CASE Enter(a, "prompt") /\ UNCHANGED queue
        <4>1. stage' = [stage EXCEPT ![a] = "prompt"] /\ "prompt" \notin InChain
          BY <3>1 DEF Enter, InChain
        <4>2. Chains'
          BY <1>0, <1>1, <2>3, <3>1, <4>1, OutsideChains
        <4> QED BY <1>1, <3>1, <4>2 DEF Types
      <3>2. CASE Enqueue(a, t)
        BY <1>0, <1>1, <2>1, <2>2, <3>2, EnqueueChains
      <3> QED BY <2>1, <3>1, <3>2
    <2>9. Types'
      BY <1>1, <1>2, <2>3, <2>5, <2>8 DEF Types
    <2> QED BY <2>5, <2>7, <2>8, <2>9 DEF IInv
  <1>4. CASE ~Connected(t)
    <2>1. /\ at' = [at EXCEPT ![c] = "over"] /\ Enter(a, "error")
          /\ UNCHANGED <<target, queue>>
      BY <1>4 DEF Serve
    <2>2. /\ at' \in [Call -> Window \cup {"new", "over"}]
          /\ \A d \in Call : at'[d] = "new" => at[d] = "new" /\ d # c
      BY <1>1, <2>1 DEF Types
    <2> HIDE DEF a
    <2>3. /\ stage' = [stage EXCEPT ![a] = "error"] /\ "error" \in Waiting \cup Answers
          /\ "error" \notin InChain /\ "error" \notin Waiting
      BY <2>1 DEF Enter, Answers, InChain, Waiting
    <2>4. /\ stage' \in [Attempt -> {"new"} \cup Waiting \cup Answers]
          /\ since' \in [Attempt -> Nat] /\ Clocks' /\ Fresh'
      BY <1>0, <1>1, <1>2, <2>1, <2>2, <2>3, EnterClocks
    <2>5. Lines' /\ Marks'
      <3>1. seen' \subseteq ran /\ Fewer
        BY <1>1 DEF Marks, Fewer
      <3> QED BY <1>0, <1>1, <2>1, <2>3, <3>1, StageLines
    <2>6. Chains'
      BY <1>0, <1>1, <2>1, <2>3, OutsideChains
    <2>7. Types'
      BY <1>1, <1>2, <2>1, <2>2, <2>4 DEF Types
    <2> QED BY <2>4, <2>5, <2>6, <2>7 DEF IInv
  <1> QED BY <1>3, <1>4

\* The active context and the terminal a call names are terminals, or none.
LEMMA Resolved ==
    ASSUME Types, NEW c \in Call, NEW w \in Window
    PROVE  Resolve(c, w) \in Term \cup {None}
  BY AgentAssumption DEF Resolve, Types

LEMMA InvokeKeeps ==
    ASSUME IInv, NEW c \in Call, NEW w \in Window, Invoke(c, w) PROVE IInv'
  <1>1. PICK raw \in BOOLEAN : /\ direct' = IF raw THEN direct \cup {c} ELSE direct
                              /\ Serve(c, w, Resolve(c, w), raw)
    BY DEF Invoke
  <1>2. <<c, w>> \in Attempt /\ <<c, w>>[1] = c /\ at[c] = "new"
    BY DEF Attempt, Invoke
  <1>3. stage[<<c, w>>] = "new"
    BY <1>2 DEF IInv, Fresh
  <1>4. direct' \subseteq Call /\ direct \subseteq direct' /\ Resolve(c, w) \in Term \cup {None}
    BY <1>1, Resolved DEF IInv, Types
  <1> QED BY <1>1, <1>3, <1>4, ServeKeeps

LEMMA FailOverKeeps ==
    ASSUME IInv, NEW c \in Call, FailOver(c) PROVE IInv'
  <1>1. UNCHANGED direct /\ HubDue(c)
    BY DEF FailOver
  <1>2. ASSUME NEW w \in Window, stage[<<c, w>>] = "new",
               Serve(c, w, Resolve(c, w), c \in direct)
        PROVE  IInv'
    <2>1. /\ direct' \subseteq Call /\ direct \subseteq direct'
          /\ Resolve(c, w) \in Term \cup {None}
      BY <1>1, Resolved DEF IInv, Types
    <2>2. PICK raw \in BOOLEAN : Serve(c, w, Resolve(c, w), raw)
      <3>1. CASE c \in direct
        BY <1>2, <3>1 DEF Serve
      <3>2. CASE c \notin direct
        BY <1>2, <3>2 DEF Serve
      <3> QED BY <3>1, <3>2
    <2> QED BY <1>2, <2>1, <2>2, ServeKeeps
  <1>3. CASE /\ at' = [at EXCEPT ![c] = "over"]
             /\ UNCHANGED <<age, tools, registry, open, shell>>
    <2> USE <1>1, <1>3 DEF IInv, tools, registry, shell
    <2>1. Types'
      BY DEF Types
    <2>2. Clocks' /\ Chains'
      BY DEF Clocks, Chains, Chain, Chained
    <2>3. Fresh'
      <3>1. \A b \in Attempt : b[1] \in Call
        BY DEF Attempt
      <3>2. \A d \in Call : at'[d] = "new" => at[d] = "new"
        BY DEF Types
      <3> QED BY <3>1, <3>2 DEF Fresh
    <2>4. Lines'
      BY DEF Lines, Line
    <2>5. Marks'
      <3>1. \A b : Typed(b)' <=> Typed(b)
        BY DEF Typed
      <3> QED BY <3>1 DEF Marks
    <2> QED BY <2>1, <2>2, <2>3, <2>4, <2>5
  <1> QED BY <1>2, <1>3 DEF FailOver

\* An attempt that has begun is answered, and leaves its chain if it was in it.
LEMMA AnswerKeeps ==
    ASSUME IInv, NEW a \in Attempt, stage[a] # "new", NEW s \in Answers, Answer(a, s),
           stage[a] \in Collected => s \in Collected,
           s = "done" => a[1] \in direct \/ (a \in ran /\ ~Typed(a)),
           \/ stage[a] \notin InChain /\ UNCHANGED queue
           \/ stage[a] \in InChain /\ AtHead(a) /\ Settle(a),
           UNCHANGED <<direct, age, target, registry, open, typed, front, ran>>,
           output' \in [Term -> Seq([of : Attempt, mark : {"start", "end"}])], Fewer,
           seen' \subseteq ran
    PROVE  IInv'
  <1>1. Types /\ Clocks /\ Fresh /\ Chains /\ Lines /\ Marks
    BY DEF IInv
  <1>2. /\ Enter(a, s) /\ stage' = [stage EXCEPT ![a] = s]
        /\ s \notin InChain /\ s \notin Waiting
    BY DEF Answer, Enter, Answers, InChain, Waiting
  <1>3. /\ at' \in [Call -> Window \cup {"new", "over"}]
        /\ \A c \in Call : age'[c] <= HubDeadline
        /\ \A c \in Call : at'[c] = "new" => at[c] = "new" /\ c # a[1]
    BY <1>1, AnswerHub
  <1>4. /\ stage' \in [Attempt -> {"new"} \cup Waiting \cup Answers]
        /\ since' \in [Attempt -> Nat] /\ Clocks' /\ Fresh'
    BY <1>1, <1>2, <1>3, EnterClocks
  <1>5. Lines' /\ Marks'
    BY <1>1, <1>2, StageLines
  <1>6. queue' \in [Term -> Seq(Attempt)] /\ Chains'
    <2>1. CASE stage[a] \notin InChain /\ UNCHANGED queue
      <3>1. Chains'
        BY <1>1, <1>2, <2>1, OutsideChains
      <3> QED BY <1>1, <2>1, <3>1 DEF Types
    <2>2. CASE stage[a] \in InChain /\ AtHead(a) /\ Settle(a)
      BY <1>1, <1>2, <2>2, SettleChains
    <2> QED BY <2>1, <2>2
  <1>7. Types'
    <2>1. ran \subseteq Attempt
      BY <1>1 DEF Types
    <2> QED BY <1>1, <1>3, <1>4, <1>6, <2>1 DEF Types, registry
  <1> QED BY <1>4, <1>5, <1>6, <1>7 DEF IInv

LEMMA CancelKeeps ==
    ASSUME IInv, NEW a \in Attempt, Cancel(a) PROVE IInv'
  <1>1. /\ stage[a] = "prompt" /\ Answer(a, "cancelled") /\ "cancelled" \in Answers
        /\ stage[a] \notin InChain /\ stage[a] \notin Collected
        /\ UNCHANGED <<direct, age, target, queue, registry, open, typed, front, ran>>
        /\ UNCHANGED <<seen, output>>
    BY DEF Cancel, shell, InChain, Collected, Answers
  <1>2. /\ output' \in [Term -> Seq([of : Attempt, mark : {"start", "end"}])]
        /\ Fewer /\ seen' \subseteq ran
    BY <1>1 DEF IInv, Types, Marks, Fewer
  <1> QED BY <1>1, <1>2, AnswerKeeps

\* The collection of an attempt ends without its end marker.
LEMMA GiveUpKeeps ==
    ASSUME IInv, NEW a \in Attempt, Missing(a) \/ Expire(a) PROVE IInv'
  <1>1. PICK s \in {"missing", "timeout"} :
          /\ stage[a] = "collect" /\ Answer(a, s) /\ Settle(a)
          /\ UNCHANGED <<direct, age, target, registry, open, typed, front, ran>>
          /\ UNCHANGED <<seen, output>>
    BY DEF Missing, Expire, GraceDue, TimeoutDue, shell
  <1>2. /\ output' \in [Term -> Seq([of : Attempt, mark : {"start", "end"}])]
        /\ Fewer /\ seen' \subseteq ran
    BY <1>1 DEF IInv, Types, Marks, Fewer
  <1>3. AtHead(a) /\ stage[a] \in InChain /\ s \in Answers /\ s \in Collected
    BY <1>1, CollectLeads DEF IInv, InChain, Answers, Collected
  <1> QED BY <1>1, <1>2, <1>3, AnswerKeeps

LEMMA DeliverKeeps ==
    ASSUME IInv, NEW t \in Term, Deliver(t) PROVE IInv'
  <1> DEFINE m == Head(output[t])
             q == output[t]
  <1>1. /\ q \in Seq([of : Attempt, mark : {"start", "end"}]) /\ q # <<>> /\ m = q[1]
        /\ 1 \in 1..Len(q)
    <2>1. q \in Seq([of : Attempt, mark : {"start", "end"}]) /\ q # <<>>
      BY DEF IInv, Types, Deliver
    <2> QED BY <2>1, EmptySeq
  <1>2. /\ Tail(q) \in Seq([of : Attempt, mark : {"start", "end"}])
        /\ Len(Tail(q)) = Len(q) - 1
        /\ \A i \in 1..Len(Tail(q)) : Tail(q)[i] = q[i+1]
    BY <1>1, HeadTailProperties
  <1>3. output' = [output EXCEPT ![t] = Tail(q)]
    BY DEF Deliver
  <1>4. output' \in [Term -> Seq([of : Attempt, mark : {"start", "end"}])]
    BY <1>2, <1>3 DEF IInv, Types
  <1>5. Fewer
    <2> SUFFICES ASSUME NEW u \in Term, NEW i \in 1..Len(output'[u])
                 PROVE  \E j \in 1..Len(output[u]) : output'[u][i] = output[u][j]
      BY DEF Fewer
    <2>1. CASE u # t
      BY <2>1, <1>3 DEF IInv, Types
    <2>2. CASE u = t
      <3>1. output'[u] = Tail(q)
        BY <2>2, <1>3 DEF IInv, Types
      <3>2. i + 1 \in 1..Len(q) /\ output'[u][i] = q[i+1]
        BY <3>1, <1>1, <1>2
      <3> QED BY <2>2, <3>2
    <2> QED BY <2>1, <2>2
  <1>6. m.of \in ran /\ (m.mark = "end" => ~Typed(m.of))
    BY <1>1 DEF IInv, Marks
  <1>7. /\ seen' \subseteq ran
        /\ UNCHANGED <<direct, age, target, registry, open, typed, front, ran>>
    BY <1>6 DEF Deliver, IInv, Marks
  <1>8. CASE \E a \in Attempt : /\ stage[a] = "collect" /\ Completes(a, m)
                                /\ Answer(a, "done") /\ Settle(a)
    <2>1. PICK a \in Attempt : /\ stage[a] = "collect" /\ Completes(a, m)
                               /\ Answer(a, "done") /\ Settle(a)
      BY <1>8
    <2>2. a \in ran /\ ~Typed(a)
      BY <2>1, <1>6 DEF Completes
    <2>3. /\ AtHead(a) /\ stage[a] \in InChain /\ "done" \in Answers /\ "done" \in Collected
      BY <2>1, CollectLeads DEF IInv, InChain, Answers, Collected
    <2> QED BY <1>4, <1>5, <1>7, <2>1, <2>2, <2>3, AnswerKeeps
  <1>9. CASE UNCHANGED <<at, stage, since, queue>>
    <2> USE <1>7, <1>9 DEF IInv, registry
    <2>1. Types'
      BY <1>4 DEF Types
    <2>2. Clocks' /\ Fresh' /\ Chains'
      BY DEF Clocks, Fresh, Chains, Chain, Chained
    <2>3. Lines'
      BY DEF Lines, Line
    <2>4. Marks'
      <3>1. \A b : Typed(b)' <=> Typed(b)
        BY DEF Typed
      <3>2. \A u \in Term : \A i \in 1..Len(output'[u]) :
               output'[u][i].of \in ran /\ (output'[u][i].mark = "end" => ~Typed(output'[u][i].of))
        <4> TAKE u \in Term
        <4> TAKE i \in 1..Len(output'[u])
        <4>1. PICK j \in 1..Len(output[u]) : output'[u][i] = output[u][j]
          BY <1>5 DEF Fewer
        <4> QED BY <4>1 DEF Marks
      <3> QED BY <3>1, <3>2 DEF Marks
    <2> QED BY <2>1, <2>2, <2>3, <2>4
  <1>10. \/ \E a \in {b \in Attempt : stage[b] = "collect" /\ target[b] = t} :
               Completes(a, m) /\ Answer(a, "done") /\ Settle(a)
         \/ UNCHANGED <<at, stage, since, queue>>
    BY DEF Deliver
  <1> QED BY <1>8, <1>9, <1>10

\* The head of a chain goes from the queue to its collection.
LEMMA HeadChains ==
    ASSUME Types, Fresh, Chains, NEW a \in Attempt, stage[a] = "queued", AtHead(a),
           stage' = [stage EXCEPT ![a] = "collect"], UNCHANGED <<target, queue>>
    PROVE  Chains'
  <1>1. /\ target[a] \in Term /\ queue[target[a]] # <<>> /\ queue[target[a]][1] = a
    BY DEF Fresh, Waiting, AtHead, Types
  <1>2. ASSUME NEW t \in Term PROVE Chain(t)'
    <2>1. Chain(t)
      BY DEF Chains
    <2>2. ASSUME NEW i \in 1..Len(queue[t])
          PROVE  stage'[queue[t][i]] \in IF i = 1 THEN InChain ELSE {"queued"}
      <3>1. queue[t][i] \in Attempt
        BY DEF Types
      <3>2. CASE queue[t][i] # a
        BY <2>1, <3>1, <3>2 DEF Chain, Types
      <3>3. CASE queue[t][i] = a
        <4>1. t = target[a]
          BY <2>1, <3>3 DEF Chain
        <4>2. Len(queue[t]) \in Nat
          BY DEF Types
        <4>3. i = 1
          BY <2>1, <3>3, <1>1, <4>1, <4>2 DEF Chain
        <4> QED BY <3>3, <4>3 DEF InChain, Types
      <3> QED BY <3>2, <3>3
    <2> QED BY <2>1, <2>2 DEF Chain
  <1>3. ASSUME NEW b \in Attempt, stage'[b] \in InChain PROVE Chained(b)'
    <2>1. stage[b] \in InChain
      BY <1>3 DEF InChain, Types
    <2> QED BY <2>1 DEF Chains, Chained
  <1> QED BY <1>2, <1>3 DEF Chains

\* A waiting attempt types its line: raw input is answered with that, a command
\* begins its collection at the head of its chain.
LEMMA TypeKeeps ==
    ASSUME IInv, NEW a \in Attempt, Type(a, target[a]), NEW s,
           \/ /\ stage[a] = "prompt" /\ a[1] \in direct /\ s = "done" /\ Answer(a, s)
           \/ /\ stage[a] = "queued" /\ AtHead(a) /\ s = "collect" /\ Enter(a, s)
              /\ UNCHANGED at,
           UNCHANGED <<direct, age, target, seen, queue, registry, open, front, output, ran>>
    PROVE  IInv'
  <1>1. Types /\ Clocks /\ Fresh /\ Chains /\ Lines /\ Marks
    BY DEF IInv
  <1>2. /\ stage' = [stage EXCEPT ![a] = s] /\ Enter(a, s) /\ target[a] \in Term
        /\ s \in Waiting \cup Answers
    BY <1>1 DEF Answer, Enter, Fresh, Waiting, Answers
  <1>3. /\ at' \in [Call -> Window \cup {"new", "over"}]
        /\ \A c \in Call : age'[c] <= HubDeadline
        /\ \A c \in Call : at'[c] = "new" => at[c] = "new" /\ c # a[1]
    <2>1. CASE Answer(a, s) /\ stage[a] # "new"
      BY <1>1, <2>1, AnswerHub
    <2>2. CASE stage[a] = "queued" /\ UNCHANGED at
      BY <1>1, <2>2 DEF Types, Clocks, Fresh
    <2> QED BY <2>1, <2>2
  <1>4. /\ stage' \in [Attempt -> {"new"} \cup Waiting \cup Answers]
        /\ since' \in [Attempt -> Nat] /\ Clocks' /\ Fresh'
    BY <1>1, <1>2, <1>3, EnterClocks
  <1>5. typed' \in [Term -> Seq(Attempt)] /\ Lines' /\ Marks'
    BY <1>1, <1>2, TypeLines
  <1>6. Chains'
    <2>1. CASE stage[a] = "prompt" /\ s = "done"
      <3>1. stage[a] \notin InChain /\ s \notin InChain
        BY <2>1 DEF InChain
      <3> QED BY <1>1, <1>2, <3>1, OutsideChains
    <2>2. CASE stage[a] = "queued" /\ AtHead(a) /\ s = "collect"
      BY <1>1, <1>2, <2>2, HeadChains
    <2> QED BY <2>1, <2>2
  <1>7. Types'
    BY <1>1, <1>3, <1>4, <1>5 DEF Types, registry
  <1> QED BY <1>4, <1>5, <1>6, <1>7 DEF IInv

LEMMA ContinueKeeps ==
    ASSUME IInv, NEW a \in Attempt, Continue(a) PROVE IInv'
  <1>1. /\ stage[a] = "prompt" /\ stage[a] \notin InChain /\ stage[a] \notin Collected
        /\ stage[a] # "new" /\ target[a] \in Term
        /\ UNCHANGED <<direct, age, target, seen, registry, open, front, output, ran>>
        /\ Types /\ Clocks /\ Fresh /\ Chains /\ Lines /\ Marks
    BY DEF Continue, InChain, Collected, IInv, Fresh, Waiting
  <1>2. /\ output' \in [Term -> Seq([of : Attempt, mark : {"start", "end"}])]
        /\ Fewer /\ seen' \subseteq ran
    BY <1>1 DEF Types, Marks, Fewer
  <1>3. CASE a[1] \in direct /\ target[a] \in open
    <2>1. Type(a, target[a]) /\ Answer(a, "done") /\ UNCHANGED queue
      BY <1>3 DEF Continue
    <2> QED BY <1>1, <1>3, <2>1, TypeKeeps
  <1>4. CASE a[1] \in direct /\ target[a] \notin open
    <2>1. Answer(a, "error") /\ UNCHANGED <<typed, queue>> /\ "error" \in Answers
      BY <1>4 DEF Continue, Answers
    <2> QED BY <1>1, <1>2, <2>1, AnswerKeeps
  <1>5. CASE a[1] \notin direct
    <2>1. Enqueue(a, target[a]) /\ Enter(a, "queued") /\ UNCHANGED <<at, typed>>
      BY <1>5 DEF Continue, Enqueue
    <2>2. /\ target' = [target EXCEPT ![a] = target[a]]
          /\ stage' = [stage EXCEPT ![a] = "queued"] /\ "queued" \in Waiting
      BY <1>1, <2>1 DEF Types, Enter, Waiting
    <2>3. queue' \in [Term -> Seq(Attempt)] /\ Chains'
      BY <1>1, <2>1, <2>2, EnqueueChains
    <2>4. /\ \A c \in Call : age'[c] <= HubDeadline
          /\ \A c \in Call : at'[c] = "new" => at[c] = "new" /\ c # a[1]
      BY <1>1, <2>1 DEF Clocks, Fresh
    <2>5. /\ stage' \in [Attempt -> {"new"} \cup Waiting \cup Answers]
          /\ since' \in [Attempt -> Nat] /\ Clocks' /\ Fresh'
      BY <1>1, <2>1, <2>2, <2>4, EnterClocks
    <2>6. Lines' /\ Marks'
      BY <1>1, <1>2, <2>1, <2>2, StageLines
    <2>7. Types'
      BY <1>1, <2>1, <2>3, <2>5 DEF Types, registry
    <2> QED BY <2>3, <2>5, <2>6, <2>7 DEF IInv
  <1> QED BY <1>3, <1>4, <1>5

LEMMA StartKeeps ==
    ASSUME IInv, NEW a \in Attempt, Start(a) PROVE IInv'
  <1>1. /\ stage[a] = "queued" /\ AtHead(a) /\ stage[a] \in InChain
        /\ stage[a] \notin Collected
        /\ UNCHANGED <<direct, age, target, seen, registry, open, front, output, ran>>
    BY DEF Start, Ready, InChain, Collected
  <1>2. CASE Type(a, target[a]) /\ Enter(a, "collect") /\ UNCHANGED <<at, queue>>
    BY <1>1, <1>2, TypeKeeps
  <1>3. CASE Answer(a, "error") /\ Settle(a) /\ UNCHANGED typed
    <2>1. /\ output' \in [Term -> Seq([of : Attempt, mark : {"start", "end"}])]
          /\ Fewer /\ seen' \subseteq ran /\ "error" \in Answers
      BY <1>1 DEF IInv, Types, Marks, Fewer, Answers
    <2> QED BY <1>1, <1>3, <2>1, AnswerKeeps
  <1> QED BY <1>2, <1>3 DEF Start, Destination, Rejected

----------------------------------------------------------------------------
\* The terminals, the shell and time.

\* What does not touch the tools keeps their clocks and chains.
LEMMA ToolsKeep ==
    ASSUME IInv, UNCHANGED <<hub, tools>> PROVE Clocks' /\ Fresh' /\ Chains'
  BY DEF IInv, hub, tools, Clocks, Fresh, Chains, Chain, Chained

\* Terminals are focused and reconnected without a line or a marker more or less.
LEMMA RegistryKeeps ==
    ASSUME IInv, NEW t \in Term, Focus(t) \/ Reconnected(t) PROVE IInv'
  <1>1. UNCHANGED <<hub, tools>> /\ UNCHANGED <<typed, front, output, ran>>
    BY DEF Focus, Reconnected, shell
  <1>2. Clocks' /\ Fresh' /\ Chains'
    BY <1>1, ToolsKeep
  <1>3. Lines'
    BY <1>1 DEF IInv, Lines, Line, hub, tools
  <1>4. Marks'
    <2>1. \A b : Typed(b)' <=> Typed(b)
      BY <1>1 DEF Typed
    <2> QED BY <1>1, <2>1 DEF IInv, Marks, hub, tools
  <1>5. Types'
    <2>1. /\ context' \in [Term -> {"connected", "disconnected", "absent"}]
          /\ active' \in [Window -> Term \cup {None}] /\ open' \subseteq Term
      <3>1. /\ context \in [Term -> {"connected", "disconnected", "absent"}]
            /\ active \in [Window -> Term \cup {None}] /\ open \subseteq Term
        BY DEF IInv, Types
      <3>2. CASE Focus(t)
        BY <3>1, <3>2 DEF Focus
      <3>3. CASE Reconnected(t)
        BY <3>1, <3>3 DEF Reconnected
      <3> QED BY <3>2, <3>3
    <2> QED BY <1>1, <2>1 DEF IInv, Types, hub, tools
  <1> QED BY <1>2, <1>3, <1>4, <1>5 DEF IInv

\* Lines may be lost behind the first one of a terminal, or all of them.
LEMMA FewerLines ==
    ASSUME IInv, UNCHANGED <<hub, tools, ran>>, Fewer,
           typed' \in [Term -> Seq(Attempt)],
           \A t \in Term : \/ typed'[t] = typed[t] /\ front'[t] = front[t]
                           \/ typed'[t] = typed[t] /\ front'[t] # "line"
                           \/ typed'[t] = <<>> /\ front'[t] # "line"
                           \/ typed[t] # <<>> /\ typed'[t] = <<typed[t][1]>> /\ front'[t] = front[t]
    PROVE  Lines' /\ Marks'
  <1>1. Types /\ Lines /\ Marks /\ UNCHANGED <<direct, at, stage, target, seen>>
    BY DEF IInv, hub, tools
  <1>2. ASSUME NEW t \in Term
        PROVE  \A i \in 1..Len(typed'[t]) : i \in 1..Len(typed[t]) /\ typed'[t][i] = typed[t][i]
    <2>1. CASE typed'[t] = typed[t]
      BY <2>1
    <2>2. CASE typed'[t] = <<>>
      BY <2>2
    <2>3. CASE typed[t] # <<>> /\ typed'[t] = <<typed[t][1]>>
      <3>1. 1 \in 1..Len(typed[t])
        BY <1>1, <2>3, EmptySeq DEF Types
      <3> QED BY <2>3, <3>1
    <2> QED BY <2>1, <2>2, <2>3
  <1>3. ASSUME NEW t \in Term PROVE Line(t)'
    <2>1. Line(t)
      BY <1>1 DEF Lines
    <2>2. front'[t] = "line" => typed'[t] # <<>> /\ typed'[t][1] \in ran
      BY <2>1 DEF Line
    <2> QED BY <1>1, <1>2, <2>1, <2>2 DEF Line
  <1>4. \A b : Typed(b)' => Typed(b)
    BY <1>2 DEF Typed
  <1>5. \A t \in Term : \A i \in 1..Len(output'[t]) :
           output'[t][i].of \in ran /\ (output'[t][i].mark = "end" => ~Typed(output'[t][i].of))
    <2> TAKE t \in Term
    <2> TAKE i \in 1..Len(output'[t])
    <2>1. PICK j \in 1..Len(output[t]) : output'[t][i] = output[t][j]
      BY DEF Fewer
    <2> QED BY <1>1, <2>1 DEF Marks
  <1>6. Marks'
    BY <1>1, <1>4, <1>5 DEF Marks
  <1> QED BY <1>3, <1>6 DEF Lines

\* A session ends or is closed, and so does its shell.
LEMMA HangupKeeps ==
    ASSUME IInv, NEW t \in Term, Drop(t) \/ Close(t) PROVE IInv'
  <1>1. /\ UNCHANGED <<hub, tools, ran>> /\ open' \subseteq Term
        /\ typed' = [typed EXCEPT ![t] = <<>>] /\ front' = [front EXCEPT ![t] = "prompt"]
        /\ output' \in {output, [output EXCEPT ![t] = <<>>]}
    BY DEF Drop, Close, Hangup, IInv, Types
  <1>2. /\ typed' \in [Term -> Seq(Attempt)] /\ front' \in [Term -> {"prompt", "line", "user"}]
        /\ output' \in [Term -> Seq([of : Attempt, mark : {"start", "end"}])]
    <2>1. /\ typed \in [Term -> Seq(Attempt)] /\ front \in [Term -> {"prompt", "line", "user"}]
          /\ output \in [Term -> Seq([of : Attempt, mark : {"start", "end"}])]
      BY DEF IInv, Types
    <2>2. typed' \in [Term -> Seq(Attempt)]
      BY <1>1, <2>1
    <2>3. front' \in [Term -> {"prompt", "line", "user"}]
      BY <1>1, <2>1
    <2>4. output' \in [Term -> Seq([of : Attempt, mark : {"start", "end"}])]
      <3> DEFINE M == [of : Attempt, mark : {"start", "end"}]
      <3> SUFFICES output' \in [Term -> Seq(M)]
        OBVIOUS
      <3>1. output \in [Term -> Seq(M)]
        BY <2>1
      <3> HIDE DEF M
      <3>2. <<>> \in Seq(M)
        OBVIOUS
      <3> QED BY <1>1, <3>1, <3>2
    <2> QED BY <2>2, <2>3, <2>4
  <1>3. Fewer
    <2>1. \A u \in Term : output'[u] = output[u] \/ output'[u] = <<>>
      BY <1>1 DEF IInv, Types
    <2>2. ASSUME NEW u \in Term, NEW i \in 1..Len(output'[u])
          PROVE  \E j \in 1..Len(output[u]) : output'[u][i] = output[u][j]
      <3>1. output'[u] # <<>>
        OBVIOUS
      <3> QED BY <2>1, <3>1
    <2> QED BY <2>2 DEF Fewer
  <1>4. \A u \in Term : \/ typed'[u] = typed[u] /\ front'[u] = front[u]
                        \/ typed'[u] = <<>> /\ front'[u] # "line"
    BY <1>1 DEF IInv, Types
  <1>5. Lines' /\ Marks'
    BY <1>1, <1>2, <1>3, <1>4, FewerLines
  <1>6. Clocks' /\ Fresh' /\ Chains'
    BY <1>1, ToolsKeep
  <1>7. /\ context' \in [Term -> {"connected", "disconnected", "absent"}]
        /\ active' \in [Window -> Term \cup {None}]
    <2>1. /\ context \in [Term -> {"connected", "disconnected", "absent"}]
          /\ active \in [Window -> Term \cup {None}]
      BY DEF IInv, Types
    <2>2. CASE Drop(t)
      BY <2>1, <2>2 DEF Drop
    <2>3. CASE Close(t)
      <3>1. /\ context' = [context EXCEPT ![t] = "absent"]
            /\ active' = [active EXCEPT ![Home[t]] = IF @ = t THEN None ELSE @]
        BY <2>3 DEF Close
      <3> QED BY <2>1, <3>1
    <2> QED BY <2>2, <2>3
  <1>8. Types'
    BY <1>1, <1>2, <1>7 DEF IInv, Types, hub, tools
  <1> QED BY <1>5, <1>6, <1>8 DEF IInv

\* Programs of the user come and go, and read what was typed.
LEMMA UserKeeps ==
    ASSUME IInv, NEW t \in Term, UserProgram(t) \/ Swallow(t) PROVE IInv'
  <1>1. /\ UNCHANGED <<hub, tools, ran>> /\ UNCHANGED <<registry, open, output>>
        /\ typed[t] \in Seq(Attempt)
    BY DEF UserProgram, Swallow, IInv, Types
  <1>2. /\ typed' \in [Term -> Seq(Attempt)] /\ front' \in [Term -> {"prompt", "line", "user"}]
        /\ \A u \in Term : \/ typed'[u] = typed[u] /\ front'[u] = front[u]
                           \/ typed'[u] = typed[u] /\ front'[u] # "line"
                           \/ typed'[u] = <<>> /\ front'[u] # "line"
                           \/ /\ typed[u] # <<>> /\ typed'[u] = <<typed[u][1]>>
                              /\ front'[u] = front[u]
    <2>1. CASE UserProgram(t)
      BY <2>1 DEF UserProgram, IInv, Types
    <2>2. CASE UNCHANGED front /\ front[t] = "user" /\ typed' = [typed EXCEPT ![t] = <<>>]
      BY <2>2 DEF IInv, Types
    <2>3. CASE UNCHANGED front /\ Len(typed[t]) > 1 /\ typed' = [typed EXCEPT ![t] = <<Head(@)>>]
      <3>1. typed[t] # <<>>
        BY <2>3, <1>1
      <3>2. Head(typed[t]) = typed[t][1] /\ typed[t][1] \in Attempt
        BY <3>1, <1>1, HeadTailProperties
      <3> QED BY <2>3, <3>1, <3>2 DEF IInv, Types
    <2> QED BY <2>1, <2>2, <2>3 DEF Swallow
  <1>3. Fewer
    BY <1>1 DEF Fewer
  <1>4. Lines' /\ Marks'
    BY <1>1, <1>2, <1>3, FewerLines
  <1>5. Clocks' /\ Fresh' /\ Chains'
    BY <1>1, ToolsKeep
  <1>6. Types'
    BY <1>1, <1>2 DEF IInv, Types, hub, tools, registry
  <1> QED BY <1>4, <1>5, <1>6 DEF IInv

\* The markers on their way are those that were, and the one that is printed.
LEMMA EmitMarks ==
    ASSUME Types, NEW t \in Term, NEW a \in Attempt, NEW mark \in {"start", "end"},
           Emit(t, a, mark)
    PROVE  /\ output' \in [Term -> Seq([of : Attempt, mark : {"start", "end"}])]
           /\ \A u \in Term : \A i \in 1..Len(output'[u]) :
                 \/ \E j \in 1..Len(output[u]) : output'[u][i] = output[u][j]
                 \/ output'[u][i] = [of |-> a, mark |-> mark]
  <1> DEFINE M == [of : Attempt, mark : {"start", "end"}]
             m == [of |-> a, mark |-> mark]
             q == output[t]
             r == Append(q, m)
  <1> SUFFICES /\ output' \in [Term -> Seq(M)]
               /\ \A u \in Term : \A i \in 1..Len(output'[u]) :
                     \/ \E j \in 1..Len(output[u]) : output'[u][i] = output[u][j]
                     \/ output'[u][i] = m
    OBVIOUS
  <1>1. output \in [Term -> Seq(M)] /\ m \in M
    BY DEF Types
  <1>2. output' = output \/ output' = [output EXCEPT ![t] = r]
    BY DEF Emit
  <1> HIDE DEF M, m
  <1>3. /\ q \in Seq(M) /\ r \in Seq(M) /\ Len(r) = Len(q) + 1 /\ r[Len(q) + 1] = m
        /\ \A i \in 1..Len(q) : r[i] = q[i]
    BY <1>1, AppendProperties
  <1> HIDE DEF r
  <1>4. output' \in [Term -> Seq(M)]
    BY <1>1, <1>2, <1>3
  <1>5. ASSUME NEW u \in Term, NEW i \in 1..Len(output'[u])
        PROVE  \/ \E j \in 1..Len(output[u]) : output'[u][i] = output[u][j]
               \/ output'[u][i] = m
    <2>1. CASE output'[u] = output[u]
      BY <2>1
    <2>2. CASE u = t /\ output'[t] = r
      <3>1. i \in 1..Len(q) \/ i = Len(q) + 1
        BY <2>2, <1>3
      <3> QED BY <2>2, <3>1, <1>3
    <2> QED BY <1>1, <1>2, <2>1, <2>2
  <1> QED BY <1>4, <1>5

LEMMA RunKeeps ==
    ASSUME IInv, NEW t \in Term, Run(t) PROVE IInv'
  <1> DEFINE a == typed[t][1]
  <1>1. /\ UNCHANGED <<hub, tools>> /\ UNCHANGED <<registry, open, typed>>
        /\ Types /\ Lines /\ Marks
    BY DEF Run, IInv
  <1>2. /\ typed[t] # <<>> /\ 1 \in 1..Len(typed[t]) /\ a \in Attempt
        /\ stage[a] \in Collected /\ Head(typed[t]) = a
    <2>1. typed[t] \in Seq(Attempt) /\ typed[t] # <<>>
      BY <1>1 DEF Run, Types
    <2>2. 1 \in 1..Len(typed[t])
      BY <2>1, EmptySeq
    <2> QED BY <1>1, <2>1, <2>2 DEF Lines, Line
  <1>3. /\ front' = [front EXCEPT ![t] = "line"] /\ ran' = ran \cup {a}
        /\ Emit(t, a, "start")
    BY <1>2 DEF Run
  <1> HIDE DEF a
  <1>4. /\ output' \in [Term -> Seq([of : Attempt, mark : {"start", "end"}])]
        /\ \A u \in Term : \A i \in 1..Len(output'[u]) :
              \/ \E j \in 1..Len(output[u]) : output'[u][i] = output[u][j]
              \/ output'[u][i] = [of |-> a, mark |-> "start"]
    BY <1>1, <1>2, <1>3, EmitMarks
  <1>5. Clocks' /\ Fresh' /\ Chains'
    BY <1>1, ToolsKeep
  <1>6. Types'
    <2>1. ran' \subseteq Attempt /\ front' \in [Term -> {"prompt", "line", "user"}]
      BY <1>1, <1>2, <1>3 DEF Types
    <2> QED BY <1>1, <1>4, <2>1 DEF Types, hub, tools, registry
  <1>7. Lines'
    <2> SUFFICES ASSUME NEW u \in Term PROVE Line(u)'
      BY DEF Lines
    <2>1. Line(u)
      BY <1>1 DEF Lines
    <2>2. front'[u] = "line" => typed[u] # <<>> /\ typed[u][1] \in ran'
      <3>1. CASE u = t
        BY <3>1, <1>2, <1>3 DEF a
      <3>2. CASE u # t
        BY <3>2, <2>1, <1>1, <1>3 DEF Line, Types
      <3> QED BY <3>1, <3>2
    <2> QED BY <1>1, <2>1, <2>2 DEF Line, hub, tools
  <1>8. Marks'
    <2>1. \A b : Typed(b)' <=> Typed(b)
      BY <1>1 DEF Typed
    <2>2. \A u \in Term : \A i \in 1..Len(output'[u]) :
             output'[u][i].of \in ran' /\ (output'[u][i].mark = "end" => ~Typed(output'[u][i].of))
      <3> TAKE u \in Term
      <3> TAKE i \in 1..Len(output'[u])
      <3>1. CASE output'[u][i] = [of |-> a, mark |-> "start"]
        BY <3>1, <1>3
      <3>2. CASE \E j \in 1..Len(output[u]) : output'[u][i] = output[u][j]
        BY <3>2, <1>1, <1>3 DEF Marks
      <3> QED BY <1>4, <3>1, <3>2
    <2>3. /\ seen' \subseteq ran' /\ \A b \in ran' : stage'[b] \in Collected
          /\ \A b \in Attempt : stage'[b] = "done" /\ b[1] \notin direct' => b \in ran'
      BY <1>1, <1>2, <1>3 DEF Marks, hub, tools
    <2> QED BY <2>1, <2>2, <2>3 DEF Marks
  <1> QED BY <1>5, <1>6, <1>7, <1>8 DEF IInv

LEMMA FinishKeeps ==
    ASSUME IInv, NEW t \in Term, Finish(t) PROVE IInv'
  <1>q. PICK q : q = typed[t]
    OBVIOUS
  <1>a. PICK a : a = q[1]
    OBVIOUS
  <1>1. /\ UNCHANGED <<hub, tools>> /\ UNCHANGED <<registry, open, ran>>
        /\ Types /\ Lines /\ Marks
    BY DEF Finish, IInv
  <1>2. /\ q \in Seq(Attempt) /\ q # <<>> /\ a \in ran
        /\ \A i, j \in 1..Len(q) : q[i] = q[j] => i = j
    BY <1>a, <1>1, <1>q DEF Finish, Types, Lines, Line
  <1>3. /\ 1 \in 1..Len(q) /\ a \in Attempt /\ Head(q) = a
        /\ Tail(q) \in Seq(Attempt) /\ Len(Tail(q)) = Len(q) - 1
        /\ \A i \in 1..Len(Tail(q)) : Tail(q)[i] = q[i+1]
    <2>1. 1 \in 1..Len(q)
      BY <1>2, EmptySeq
    <2> QED BY <1>a, <1>2, <2>1, HeadTailProperties
  <1>4. /\ front' = [front EXCEPT ![t] = "prompt"] /\ typed' = [typed EXCEPT ![t] = Tail(q)]
        /\ Emit(t, a, "end")
    BY <1>3, <1>q DEF Finish
  <1>5. \A i \in 1..Len(Tail(q)) : i + 1 \in 1..Len(q) /\ Tail(q)[i] # a
    BY <1>a, <1>2, <1>3
  <1>6. /\ output' \in [Term -> Seq([of : Attempt, mark : {"start", "end"}])]
        /\ \A u \in Term : \A i \in 1..Len(output'[u]) :
              \/ \E j \in 1..Len(output[u]) : output'[u][i] = output[u][j]
              \/ output'[u][i] = [of |-> a, mark |-> "end"]
    BY <1>1, <1>3, <1>4, EmitMarks
  <1>7. Clocks' /\ Fresh' /\ Chains'
    BY <1>1, ToolsKeep
  <1>8. typed' \in [Term -> Seq(Attempt)] /\ front' \in [Term -> {"prompt", "line", "user"}]
    BY <1>1, <1>3, <1>4 DEF Types
  <1>9. Types'
    BY <1>1, <1>6, <1>8 DEF Types, hub, tools, registry
  <1>10. \A u \in Term : typed'[u] = IF u = t THEN Tail(q) ELSE typed[u]
    BY <1>1, <1>4 DEF Types
  <1>12. Lines'
    <2> SUFFICES ASSUME NEW u \in Term PROVE Line(u)'
      BY DEF Lines
    <2>1. Line(u)
      BY <1>1 DEF Lines
    <2>2. CASE u # t
      BY <2>1, <2>2, <1>1, <1>4, <1>10 DEF Line, Types, hub, tools
    <2>3. CASE u = t
      <3>1. PICK r : r = Tail(q)
        OBVIOUS
      <3>2. front'[u] = "prompt" /\ typed'[u] = r
        BY <2>3, <3>1, <1>1, <1>4, <1>10 DEF Types
      <3>3. \A i, j \in 1..Len(r) : r[i] = r[j] => i = j
        BY <3>1, <1>2, <1>3
      <3>4. \A i \in 1..Len(r) : /\ target[r[i]] = t /\ stage[r[i]] \in Collected
                                 /\ stage[r[i]] = "done" => r[i][1] \in direct
        <4> SUFFICES ASSUME NEW i \in 1..Len(r)
                     PROVE  /\ target[r[i]] = t /\ stage[r[i]] \in Collected
                            /\ stage[r[i]] = "done" => r[i][1] \in direct
          OBVIOUS
        <4>1. i + 1 \in 1..Len(q) /\ r[i] = q[i+1]
          BY <3>1, <1>3, <1>5
        <4> QED BY <4>1, <2>1, <2>3, <1>q DEF Line
      <3>5. UNCHANGED <<stage, target, direct>>
        BY <1>1 DEF hub, tools
      <3> QED BY <2>3, <3>2, <3>3, <3>4, <3>5 DEF Line
    <2> QED BY <2>2, <2>3
  <1>13. \A b : Typed(b)' => Typed(b)
    <2> SUFFICES ASSUME NEW b, NEW u \in Term, NEW i \in 1..Len(typed'[u]), typed'[u][i] = b
                 PROVE  Typed(b)
      BY DEF Typed
    <2>1. CASE u # t
      BY <2>1, <1>10 DEF Typed
    <2>2. CASE u = t
      <3>1. i + 1 \in 1..Len(q) /\ q[i+1] = b
        BY <2>2, <1>3, <1>5, <1>10
      <3> QED BY <3>1, <1>q DEF Typed
    <2> QED BY <2>1, <2>2
  <1>14. ~Typed(a)'
    <2>1. target[a] = t
      BY <1>a, <1>1, <1>3, <1>q DEF Lines, Line
    <2>2. ASSUME NEW u \in Term, NEW i \in 1..Len(typed'[u]), typed'[u][i] = a PROVE FALSE
      <3>1. u # t
        BY <2>2, <1>5, <1>10
      <3>2. typed'[u] = typed[u]
        BY <3>1, <1>10
      <3> QED BY <3>1, <3>2, <2>1, <2>2, <1>1 DEF Lines, Line
    <2> QED BY <2>2 DEF Typed
  <1>15. Marks'
    <2>1. ASSUME NEW u \in Term, NEW i \in 1..Len(output'[u]), NEW b, b = output'[u][i].of
          PROVE  b \in ran /\ (output'[u][i].mark = "end" => ~Typed(b)')
      <3>1. CASE output'[u][i] = [of |-> a, mark |-> "end"]
        <4>1. b = a
          BY <2>1, <3>1
        <4> QED BY <4>1, <1>2, <1>14
      <3>2. CASE \E j \in 1..Len(output[u]) : output'[u][i] = output[u][j]
        <4>1. b \in ran /\ (output'[u][i].mark = "end" => ~Typed(b))
          BY <2>1, <3>2, <1>1 DEF Marks
        <4> QED BY <4>1, <1>13
      <3> QED BY <1>6, <3>1, <3>2
    <2>2. /\ seen' \subseteq ran /\ \A b \in ran : stage'[b] \in Collected
          /\ \A b \in Attempt : stage'[b] = "done" /\ b[1] \notin direct' => b \in ran
      BY <1>1 DEF Marks, hub, tools
    <2> QED BY <1>1, <2>1, <2>2 DEF Marks
  <1> QED BY <1>7, <1>9, <1>12, <1>15 DEF IInv

\* Time passes only while no deadline is due.
LEMMA TickKeeps == ASSUME IInv, Tick PROVE IInv'
  <1>1. /\ UNCHANGED <<direct, at, stage, target, seen, queue>>
        /\ UNCHANGED <<registry, open, typed, front, output, ran>>
        /\ age' = [c \in Call |-> IF at[c] \in Window THEN age[c] + 1 ELSE age[c]]
        /\ since' = [a \in Attempt |-> IF stage[a] \in Waiting THEN since[a] + 1 ELSE since[a]]
        /\ \A c \in Call : ~HubDue(c)
        /\ \A a \in Attempt : ~PromptDue(a) /\ ~TimeoutDue(a)
    BY DEF Tick, Due, shell
  <1>2. Types /\ Clocks /\ Fresh /\ Chains /\ Lines /\ Marks
    BY DEF IInv
  <1>3. Types'
    <2>1. age' \in [Call -> Nat] /\ since' \in [Attempt -> Nat]
      <3>1. age \in [Call -> Nat] /\ since \in [Attempt -> Nat]
        BY <1>2 DEF Types
      <3> QED BY <1>1, <3>1
    <2> QED BY <1>1, <1>2, <2>1 DEF Types, registry
  <1>4. Clocks'
    <2>1. ASSUME NEW c \in Call PROVE age'[c] <= HubDeadline
      BY <1>1, <1>2, Limits DEF HubDue, Clocks, Types
    <2>2. ASSUME NEW a \in Attempt
          PROVE  /\ stage'[a] = "prompt" => since'[a] <= ConfirmLimit
                 /\ stage'[a] = "collect" => since'[a] <= Timeout(a[1])
      <3>1. a[1] \in Call /\ since[a] \in Nat
        BY <1>2 DEF Attempt, Types
      <3>2. Timeout(a[1]) \in Nat /\ ConfirmLimit \in Nat
        BY <3>1, Limits
      <3>3. /\ stage[a] = "prompt" => since[a] < ConfirmLimit
            /\ stage[a] = "collect" => since[a] < Timeout(a[1])
        BY <1>1, <1>2, <3>1, <3>2 DEF PromptDue, TimeoutDue, Clocks
      <3> QED BY <1>1, <3>1, <3>2, <3>3
    <2> QED BY <2>1, <2>2 DEF Clocks
  <1>5. Fresh' /\ Chains'
    BY <1>1, <1>2 DEF Fresh, Chains, Chain, Chained
  <1>6. Lines'
    BY <1>1, <1>2 DEF Lines, Line
  <1>7. Marks'
    <2>1. \A b : Typed(b)' <=> Typed(b)
      BY <1>1 DEF Typed
    <2> QED BY <1>1, <1>2, <2>1 DEF Marks
  <1> QED BY <1>3, <1>4, <1>5, <1>6, <1>7 DEF IInv

LEMMA StutterKeeps == ASSUME IInv, UNCHANGED vars PROVE IInv'
  <1>1. /\ UNCHANGED <<hub, tools>> /\ UNCHANGED <<registry, open, typed, front, output, ran>>
        /\ Types /\ Lines /\ Marks
    BY DEF vars, shell, IInv
  <1>2. Clocks' /\ Fresh' /\ Chains'
    BY <1>1, ToolsKeep
  <1>3. Types' /\ Lines'
    BY <1>1 DEF Types, Lines, Line, hub, tools, registry
  <1>4. Marks'
    <2>1. \A b : Typed(b)' <=> Typed(b)
      BY <1>1 DEF Typed
    <2> QED BY <1>1, <2>1 DEF Marks, hub, tools
  <1> QED BY <1>2, <1>3, <1>4 DEF IInv

LEMMA NextIInv == ASSUME IInv, [Next]_vars PROVE IInv'
  <1>1. CASE Tick
    BY <1>1, TickKeeps
  <1>2. CASE \E c \in Call : FailOver(c) \/ \E w \in Window : Invoke(c, w)
    BY <1>2, FailOverKeeps, InvokeKeeps
  <1>3. CASE \E a \in Attempt : Continue(a) \/ Cancel(a) \/ Start(a) \/ Missing(a) \/ Expire(a)
    BY <1>3, ContinueKeeps, CancelKeeps, StartKeeps, GiveUpKeeps
  <1>4. CASE \E t \in Term : Deliver(t) \/ Focus(t) \/ Drop(t) \/ Reconnected(t) \/ Close(t)
    BY <1>4, DeliverKeeps, RegistryKeeps, HangupKeeps
  <1>5. CASE \E t \in Term : Run(t) \/ Finish(t) \/ UserProgram(t) \/ Swallow(t)
    BY <1>5, RunKeeps, FinishKeeps, UserKeeps
  <1>6. CASE UNCHANGED vars
    BY <1>6, StutterKeeps
  <1> QED BY <1>1, <1>2, <1>3, <1>4, <1>5, <1>6 DEF Next

LEMMA Invariance == Spec => []IInv
  <1>1. Init => IInv
    BY InitIInv
  <1>2. IInv /\ [Next]_vars => IInv'
    BY NextIInv
  <1> QED BY <1>1, <1>2, PTL DEF Spec

----------------------------------------------------------------------------
\* What the invariant says of the properties.

\* The variables keep their types, and neither an unanswered prompt nor a
\* collection outlasts MCP_CONFIRM_TIMEOUT_MS or the clamped timeout
\* (confirmWithTimeout, clamp).
THEOREM TypeCorrect == Spec => []TypeOK
  <1>1. ASSUME IInv PROVE TypeOK
    <2>1. \A c \in Call : age[c] \in 0..HubDeadline
      BY <1>1, Limits DEF IInv, Types, Clocks
    <2>2. age \in [Call -> 0..HubDeadline]
      BY <1>1, <2>1 DEF IInv, Types
    <2>3. ASSUME NEW a \in Attempt
          PROVE  /\ stage[a] = "prompt" => since[a] <= ConfirmLimit
                 /\ stage[a] = "collect" => since[a] <= MaxTimeout
      <3>1. a[1] \in Call /\ since[a] \in Nat /\ MaxTimeout \in Nat
        BY <1>1, AgentAssumption DEF IInv, Types, Attempt
      <3>2. Timeout(a[1]) \in Nat /\ Timeout(a[1]) <= MaxTimeout
        BY <3>1, Limits
      <3> QED BY <1>1, <3>1, <3>2 DEF IInv, Clocks
    <2> QED BY <1>1, <2>2, <2>3 DEF IInv, Types, TypeOK
  <1> QED BY <1>1, Invariance, PTL

\* Whatever is focused, reconnected or closed while a call waits for its prompt
\* or its queue, its line is typed into the terminal it was confirmed for
\* (context captured by sendTerminalInput and runTerminalCommand).
THEOREM ConfirmedTerminal == Spec => []RunsWhereConfirmed
  <1>1. ASSUME IInv PROVE RunsWhereConfirmed
    <2> SUFFICES ASSUME NEW t \in Term, NEW i \in DOMAIN typed[t]
                 PROVE  target[typed[t][i]] = t
      BY DEF RunsWhereConfirmed
    <2>1. i \in 1..Len(typed[t])
      BY <1>1 DEF IInv, Types
    <2> QED BY <1>1, <2>1 DEF IInv, Lines, Line
  <1> QED BY <1>1, Invariance, PTL

\* The chain of promises of enqueueTerminal is a mutex: two commands of one
\* terminal are never collected together, and the collected one leads the chain.
THEOREM Serialized == Spec => []OneCollectionPerTerminal
  <1>1. ASSUME IInv PROVE OneCollectionPerTerminal
    <2> SUFFICES ASSUME NEW a \in Attempt, NEW b \in Attempt, stage[a] = "collect",
                        target[a] = target[b]
                 PROVE  AtHead(a) /\ (stage[b] = "collect" => a = b)
      BY DEF OneCollectionPerTerminal
    <2>1. AtHead(a)
      BY <1>1, CollectLeads DEF IInv
    <2>2. stage[b] = "collect" => AtHead(b)
      BY <1>1, CollectLeads DEF IInv
    <2> QED BY <2>1, <2>2 DEF AtHead
  <1> QED BY <1>1, Invariance, PTL

\* A command's result is the one of its own line, run to its end: an end marker
\* that a command given up earlier still prints into the buffer completes
\* nothing (collectUntil: markers of its own, the end only after the start).
THEOREM OwnAnswers == Spec => []AnswersAreTheirOwn
  <1>1. ASSUME IInv PROVE AnswersAreTheirOwn
    <2> SUFFICES ASSUME NEW a \in Attempt, stage[a] = "done", a[1] \notin direct
                 PROVE  a \in ran /\ \A t \in Term : a \notin Range(typed[t])
      BY DEF AnswersAreTheirOwn
    <2>1. a \in ran
      BY <1>1 DEF IInv, Marks
    <2>2. ASSUME NEW t \in Term, a \in Range(typed[t]) PROVE FALSE
      <3>1. PICK i \in 1..Len(typed[t]) : typed[t][i] = a
        BY <1>1, <2>2 DEF Range, IInv, Types
      <3> QED BY <1>1, <3>1 DEF IInv, Lines, Line
    <2> QED BY <2>1, <2>2
  <1> QED BY <1>1, Invariance, PTL

----------------------------------------------------------------------------
\* The hub's deadline. A call that a window serves is waiting there, and its
\* prompt was opened when the hub handed it over.
ServedAt(c) == <<c, at[c]>>
Serving == \A c \in Call : at[c] \in Window =>
              /\ stage[ServedAt(c)] \in Waiting
              /\ stage[ServedAt(c)] = "prompt" => age[c] = since[ServedAt(c)]

LEMMA ServeServes ==
    ASSUME Types, Serving, NEW c \in Call, NEW w \in Window,
           NEW t, NEW raw, Serve(c, w, t, raw)
    PROVE  Serving'
  <1>1. <<c, w>> \in Attempt /\ age' = [age EXCEPT ![c] = 0]
    BY DEF Attempt, Serve
  <1>2. ASSUME NEW d \in Call, d # c, at'[d] \in Window
        PROVE  /\ stage'[<<d, at'[d]>>] \in Waiting
               /\ stage'[<<d, at'[d]>>] = "prompt" => age'[d] = since'[<<d, at'[d]>>]
    <2>1. at'[d] = at[d] /\ age'[d] = age[d]
      BY <1>2, <1>1 DEF Serve, Types
    <2>2. <<d, at[d]>> \in Attempt /\ <<d, at[d]>> # <<c, w>>
      BY <1>2, <2>1 DEF Attempt
    <2>3. PICK s : Enter(<<c, w>>, s)
      BY DEF Serve, Enqueue
    <2>4. /\ stage'[<<d, at[d]>>] = stage[<<d, at[d]>>]
          /\ since'[<<d, at[d]>>] = since[<<d, at[d]>>]
      BY <2>2, <2>3 DEF Enter, Types
    <2> QED BY <1>2, <2>1, <2>4 DEF Serving, ServedAt
  <1>3. ASSUME at'[c] \in Window
        PROVE  /\ stage'[<<c, at'[c]>>] \in Waiting
               /\ stage'[<<c, at'[c]>>] = "prompt" => age'[c] = since'[<<c, at'[c]>>]
    <2>1. Connected(t)
      BY <1>3, AgentAssumption DEF Serve, Types
    <2>2. /\ at'[c] = w /\ age'[c] = 0
          /\ \E s \in {"prompt", "queued"} : Enter(<<c, w>>, s)
      BY <2>1 DEF Serve, Enqueue, Types
    <2>3. PICK s \in {"prompt", "queued"} : Enter(<<c, w>>, s)
      BY <2>2
    <2>4. stage'[<<c, w>>] = s /\ since'[<<c, w>>] = 0
      BY <1>1, <2>3 DEF Enter, Types
    <2> QED BY <2>2, <2>4 DEF Waiting
  <1> QED BY <1>2, <1>3 DEF Serving, ServedAt

LEMMA AnswerServes ==
    ASSUME Types, Serving, NEW a \in Attempt, NEW s, Answer(a, s), UNCHANGED age
    PROVE  Serving'
  <1> SUFFICES ASSUME NEW c \in Call, at'[c] \in Window
               PROVE  /\ stage'[<<c, at'[c]>>] \in Waiting
                      /\ stage'[<<c, at'[c]>>] = "prompt" => age[c] = since'[<<c, at'[c]>>]
    BY DEF Serving, ServedAt
  <1>1. a[1] \in Call /\ a[2] \in Window /\ a = <<a[1], a[2]>>
    BY DEF Attempt
  <1>2. at'[c] = at[c] /\ (c = a[1] => at[c] # a[2])
    BY <1>1, AgentAssumption DEF Answer, Types
  <1>3. <<c, at[c]>> \in Attempt /\ <<c, at[c]>> # a
    BY <1>1, <1>2 DEF Attempt
  <1>4. /\ stage'[<<c, at[c]>>] = stage[<<c, at[c]>>]
        /\ since'[<<c, at[c]>>] = since[<<c, at[c]>>]
    BY <1>3 DEF Answer, Enter, Types
  <1> QED BY <1>2, <1>4 DEF Serving, ServedAt

LEMMA EnterServes ==
    ASSUME Types, Serving, NEW a \in Attempt, NEW s \in {"queued", "collect"}, Enter(a, s),
           UNCHANGED <<at, age>>
    PROVE  Serving'
  <1> SUFFICES ASSUME NEW c \in Call, at[c] \in Window
               PROVE  /\ stage'[<<c, at[c]>>] \in Waiting
                      /\ stage'[<<c, at[c]>>] = "prompt" => age[c] = since'[<<c, at[c]>>]
    BY DEF Serving, ServedAt
  <1>1. CASE <<c, at[c]>> = a
    BY <1>1 DEF Enter, Waiting, Types
  <1>2. CASE <<c, at[c]>> # a
    <2>1. /\ stage'[<<c, at[c]>>] = stage[<<c, at[c]>>]
          /\ since'[<<c, at[c]>>] = since[<<c, at[c]>>]
      <3>1. <<c, at[c]>> \in Attempt
        BY DEF Attempt
      <3> QED BY <1>2, <3>1 DEF Enter, Types
    <2> QED BY <2>1 DEF Serving, ServedAt
  <1> QED BY <1>1, <1>2

LEMMA NextServes == ASSUME IInv, Serving, [Next]_vars PROVE Serving'
  <1>0. Types
    BY DEF IInv
  <1>1. CASE Tick
    <2>1. /\ UNCHANGED <<at, stage>>
          /\ age' = [c \in Call |-> IF at[c] \in Window THEN age[c] + 1 ELSE age[c]]
          /\ since' = [a \in Attempt |-> IF stage[a] \in Waiting THEN since[a] + 1 ELSE since[a]]
      BY <1>1 DEF Tick
    <2> SUFFICES ASSUME NEW c \in Call, at[c] \in Window
                 PROVE  /\ stage[<<c, at[c]>>] \in Waiting
                        /\ stage[<<c, at[c]>>] = "prompt" => age'[c] = since'[<<c, at[c]>>]
      BY <2>1 DEF Serving, ServedAt
    <2>2. <<c, at[c]>> \in Attempt
      BY DEF Attempt
    <2> QED BY <2>1, <2>2 DEF Serving, ServedAt
  <1>2. ASSUME NEW c \in Call, FailOver(c) PROVE Serving'
    <2>1. CASE \E w \in Window : Serve(c, w, Resolve(c, w), c \in direct)
      BY <1>0, <2>1, ServeServes
    <2>2. CASE at' = [at EXCEPT ![c] = "over"] /\ UNCHANGED <<age, tools>>
      <3>1. \A d \in Call : at'[d] \in Window => at'[d] = at[d]
        BY <1>0, <2>2, AgentAssumption DEF Types
      <3> QED BY <2>2, <3>1 DEF Serving, ServedAt, tools
    <2> QED BY <1>2, <2>1, <2>2 DEF FailOver
  <1>3. ASSUME NEW c \in Call, NEW w \in Window, Invoke(c, w) PROVE Serving'
    BY <1>0, <1>3, ServeServes DEF Invoke
  <1>4. ASSUME NEW a \in Attempt, Continue(a) \/ Cancel(a) \/ Start(a) \/ Missing(a) \/ Expire(a)
        PROVE  Serving'
    <2>1. /\ UNCHANGED age
          /\ \/ \E s \in Answers : Answer(a, s)
             \/ UNCHANGED at /\ \E s \in {"queued", "collect"} : Enter(a, s)
      BY <1>4 DEF Continue, Cancel, Start, Missing, Expire, Enqueue, Answers
    <2> QED BY <1>0, <2>1, AnswerServes, EnterServes
  <1>5. ASSUME NEW t \in Term, Deliver(t) PROVE Serving'
    <2>1. /\ UNCHANGED age
          /\ \/ \E a \in Attempt : Answer(a, "done")
             \/ UNCHANGED <<at, stage, since>>
      BY <1>5 DEF Deliver
    <2>2. CASE UNCHANGED <<at, stage, since>>
      BY <2>1, <2>2 DEF Serving, ServedAt
    <2> QED BY <1>0, <2>1, <2>2, AnswerServes
  <1>6. ASSUME NEW t \in Term, \/ Focus(t) \/ Drop(t) \/ Reconnected(t) \/ Close(t)
                               \/ Run(t) \/ Finish(t) \/ UserProgram(t) \/ Swallow(t)
        PROVE  Serving'
    <2>1. UNCHANGED <<hub, tools>>
      BY <1>6 DEF Focus, Drop, Reconnected, Close, Run, Finish, UserProgram, Swallow
    <2> QED BY <2>1 DEF Serving, ServedAt, hub, tools
  <1>7. CASE UNCHANGED vars
    BY <1>7 DEF vars, Serving, ServedAt, hub, tools
  <1> QED BY <1>1, <1>2, <1>3, <1>4, <1>5, <1>6, <1>7 DEF Next

\* The hub's deadline finds neither an open prompt nor a command that was typed
\* early enough to use its whole timeout (MCP_CONFIRM_TIMEOUT_MS, MAX_TIMEOUT_MS
\* below the hub's 120 s): a call fails over only after waits that add up.
THEOREM HubWaits == Spec => []HubOutlivesEachWait
  <1>1. Init => Serving
    BY AgentAssumption DEF Init, Serving
  <1>2. ASSUME IInv, Serving PROVE HubOutlivesEachWait
    <2> SUFFICES ASSUME NEW c \in Call, HubDue(c)
                 PROVE  LET a == <<c, at[c]>> IN
                        \/ stage[a] = "queued"
                        \/ /\ stage[a] = "collect"
                           /\ age[c] - since[a] >= HubDeadline - MaxTimeout
      BY DEF HubOutlivesEachWait
    <2>1. /\ at[c] \in Window /\ age[c] = HubDeadline /\ <<c, at[c]>> \in Attempt
          /\ <<c, at[c]>>[1] = c
      BY DEF HubDue, Attempt
    <2> DEFINE a == <<c, at[c]>>
    <2>2. /\ stage[a] \in Waiting /\ (stage[a] = "prompt" => age[c] = since[a])
          /\ (stage[a] = "prompt" => since[a] <= ConfirmLimit)
          /\ (stage[a] = "collect" => since[a] <= Timeout(c))
          /\ since[a] \in Nat
      BY <1>2, <2>1 DEF Serving, ServedAt, IInv, Clocks, Types
    <2>3. Timeout(c) \in Nat /\ Timeout(c) <= MaxTimeout
      BY Limits
    <2> HIDE DEF a
    <2>4. stage[a] # "prompt"
      BY <2>1, <2>2, AgentAssumption
    <2>5. stage[a] = "collect" => age[c] - since[a] >= HubDeadline - MaxTimeout
      BY <2>1, <2>2, <2>3, AgentAssumption
    <2> QED BY <2>2, <2>4, <2>5 DEF Waiting, a
  <1>3. IInv /\ Serving /\ [Next]_vars => Serving'
    BY NextServes
  <1> QED BY <1>1, <1>2, <1>3, Invariance, PTL DEF Spec

----------------------------------------------------------------------------
\* Waiting in a queue. Each attempt is of its terminal's window, so the attempts
\* that wait for a terminal, and those it has answered, are of different calls.

Homes ==
    /\ \A w \in Window : active[w] # None => Home[active[w]] = w
    /\ \A a \in Attempt : target[a] # None => Home[target[a]] = a[2]

\* The calls that terminal t has answered, and the time they may have taken.
Over(t) == {c \in Call : target[<<c, Home[t]>>] = t /\ stage[<<c, Home[t]>>] \in Answers}
Budget(t) == MaxTimeout * Cardinality(Over(t))

\* A queued attempt has waited for the calls that are over, and for the one that
\* is being collected.
Patient(a) ==
    stage[a] = "queued" =>
        \/ since[a] <= Budget(target[a])
        \/ \E b \in Attempt : /\ stage[b] = "collect" /\ target[b] = target[a]
                              /\ since[a] <= Budget(target[a]) + since[b]

\* What a step other than a tick does to the attempts.
Onward ==
    \A b \in Attempt :
        /\ stage[b] \in Answers => stage'[b] = stage[b] /\ target'[b] = target[b]
        /\ stage'[b] = "queued" =>
              \/ since'[b] = 0
              \/ stage[b] = "queued" /\ since'[b] = since[b] /\ target'[b] = target[b]
        /\ stage[b] = "collect" =>
              /\ target'[b] = target[b]
              /\ (stage'[b] = "collect" /\ since'[b] = since[b]) \/ stage'[b] \in Answers

LEMMA EnterOnward ==
    ASSUME Types, NEW a \in Attempt, NEW s, Enter(a, s), stage[a] \notin Answers,
           stage[a] = "collect" => s \in Answers,
           \A b \in Attempt : target'[b] = target[b] \/ (b = a /\ stage[a] = "new")
    PROVE  Onward
  <1> SUFFICES ASSUME NEW b \in Attempt
               PROVE  /\ stage[b] \in Answers => stage'[b] = stage[b] /\ target'[b] = target[b]
                      /\ stage'[b] = "queued" =>
                            \/ since'[b] = 0
                            \/ /\ stage[b] = "queued" /\ since'[b] = since[b]
                               /\ target'[b] = target[b]
                      /\ stage[b] = "collect" =>
                            /\ target'[b] = target[b]
                            /\ \/ stage'[b] = "collect" /\ since'[b] = since[b]
                               \/ stage'[b] \in Answers
    BY DEF Onward
  <1>1. CASE b = a
    <2>1. stage'[a] = s /\ since'[a] = 0
      BY DEF Enter, Types
    <2> QED BY <1>1, <2>1
  <1>2. CASE b # a
    <2>1. stage'[b] = stage[b] /\ since'[b] = since[b] /\ target'[b] = target[b]
      BY <1>2 DEF Enter, Types
    <2> QED BY <1>2, <2>1
  <1> QED BY <1>1, <1>2

LEMMA SameOnward ==
    ASSUME UNCHANGED <<stage, since, target>> PROVE Onward
  BY DEF Onward

\* Every step that is not a tick moves one attempt, or none.
LEMMA StepOnward ==
    ASSUME IInv, [Next]_vars PROVE Onward \/ Tick
  <1>0. Types
    BY DEF IInv
  <1>1. ASSUME NEW c \in Call, NEW w \in Window, NEW t, NEW raw, stage[<<c, w>>] = "new",
               Serve(c, w, t, raw)
        PROVE  Onward
    <2>1. <<c, w>> \in Attempt /\ "new" \notin Answers
      BY DEF Attempt, Answers
    <2>2. PICK s : Enter(<<c, w>>, s)
      BY <1>1 DEF Serve, Enqueue
    <2>3. \A b \in Attempt : target'[b] = target[b] \/ b = <<c, w>>
      BY <1>0, <1>1 DEF Serve, Types
    <2> QED BY <1>0, <1>1, <2>1, <2>2, <2>3, EnterOnward
  <1>2. ASSUME NEW c \in Call, FailOver(c) PROVE Onward
    <2>1. CASE \E w \in {w \in Window : stage[<<c, w>>] = "new"} :
                  Serve(c, w, Resolve(c, w), c \in direct)
      BY <1>1, <2>1
    <2>2. CASE UNCHANGED tools
      BY <2>2, SameOnward DEF tools
    <2> QED BY <1>2, <2>1, <2>2 DEF FailOver
  <1>3. ASSUME NEW c \in Call, NEW w \in Window, Invoke(c, w) PROVE Onward
    <2>1. <<c, w>> \in Attempt /\ <<c, w>>[1] = c /\ at[c] = "new"
      BY <1>3 DEF Attempt, Invoke
    <2>2. stage[<<c, w>>] = "new"
      BY <2>1 DEF IInv, Fresh
    <2> QED BY <1>1, <1>3, <2>2 DEF Invoke
  <1>4. ASSUME NEW a \in Attempt, Continue(a) \/ Cancel(a) \/ Start(a) \/ Missing(a) \/ Expire(a)
        PROVE  Onward
    <2>1. PICK s : Enter(a, s) /\ (stage[a] = "collect" => s \in Answers)
      BY <1>4 DEF Continue, Cancel, Start, Missing, Expire, GraceDue, TimeoutDue, Ready, Answer,
                  Enqueue, Answers
    <2>2. stage[a] \notin Answers /\ target' = target
      BY <1>4 DEF Continue, Cancel, Start, Missing, Expire, GraceDue, TimeoutDue, Ready, Answers
    <2> QED BY <1>0, <2>1, <2>2, EnterOnward
  <1>5. ASSUME NEW t \in Term, Deliver(t) PROVE Onward
    <2>1. /\ target' = target
          /\ \/ \E a \in Attempt : stage[a] = "collect" /\ Answer(a, "done")
             \/ UNCHANGED <<stage, since>>
      BY <1>5 DEF Deliver
    <2>2. ASSUME NEW a \in Attempt, stage[a] = "collect", Answer(a, "done")
          PROVE  Onward
      <3>1. Enter(a, "done") /\ stage[a] \notin Answers /\ "done" \in Answers
        BY <2>2 DEF Answer, Answers
      <3> QED BY <1>0, <2>1, <2>2, <3>1, EnterOnward
    <2> QED BY <2>1, <2>2, SameOnward
  <1>6. ASSUME NEW t \in Term, \/ Focus(t) \/ Drop(t) \/ Reconnected(t) \/ Close(t)
                               \/ Run(t) \/ Finish(t) \/ UserProgram(t) \/ Swallow(t)
        PROVE  Onward
    <2>1. UNCHANGED tools
      BY <1>6 DEF Focus, Drop, Reconnected, Close, Run, Finish, UserProgram, Swallow
    <2> QED BY <2>1, SameOnward DEF tools
  <1>7. CASE UNCHANGED vars
    BY <1>7, SameOnward DEF vars, tools
  <1> QED BY <1>2, <1>3, <1>4, <1>5, <1>6, <1>7 DEF Next

LEMMA HomesKept ==
    ASSUME IInv, Homes, [Next]_vars PROVE Homes'
  <1>0. Types
    BY DEF IInv
  <1>1. ASSUME NEW c \in Call, NEW w \in Window, NEW raw, Serve(c, w, Resolve(c, w), raw)
        PROVE  Homes'
    <2>1. active' = active
      BY <1>1 DEF Serve, registry
    <2>2. Resolve(c, w) # None => Home[Resolve(c, w)] = w
      BY AgentAssumption DEF Resolve, Homes
    <2>3. target' = target \/ (/\ Resolve(c, w) # None
                               /\ target' = [target EXCEPT ![<<c, w>>] = Resolve(c, w)])
      BY <1>1 DEF Serve, Connected
    <2>4. \A b \in Attempt : target'[b] = target[b] \/
             (b = <<c, w>> /\ target'[b] = Resolve(c, w) /\ Resolve(c, w) # None)
      BY <1>0, <2>3 DEF Types
    <2> QED BY <2>1, <2>2, <2>4 DEF Homes
  <1>2. ASSUME NEW c \in Call, FailOver(c) \/ \E w \in Window : Invoke(c, w)
        PROVE  Homes'
    <2>1. CASE UNCHANGED <<tools, registry>>
      BY <2>1 DEF Homes, tools, registry
    <2> QED BY <1>1, <1>2, <2>1 DEF FailOver, Invoke
  <1>3. ASSUME NEW t \in Term, Focus(t) \/ Close(t)
        PROVE  Homes'
    <2>1. target' = target /\ Home[t] \in Window
      BY <1>3, AgentAssumption DEF Focus, Close, tools
    <2>2. \A w \in Window : active'[w] = active[w] \/ active'[w] = None
                            \/ (w = Home[t] /\ active'[w] = t)
      BY <1>0, <1>3, <2>1 DEF Focus, Close, Types
    <2> QED BY <2>1, <2>2 DEF Homes
  <1>4. CASE UNCHANGED <<target, active>>
    BY <1>4 DEF Homes
  <1>5. ASSUME NEW t \in Term, \/ Deliver(t) \/ Drop(t) \/ Reconnected(t) \/ Run(t) \/ Finish(t)
                               \/ UserProgram(t) \/ Swallow(t)
        PROVE  UNCHANGED <<target, active>>
    BY <1>5 DEF Deliver, Drop, Reconnected, Run, Finish, UserProgram, Swallow, tools, registry
  <1>6. ASSUME NEW a \in Attempt, Continue(a) \/ Cancel(a) \/ Start(a) \/ Missing(a) \/ Expire(a)
        PROVE  UNCHANGED <<target, active>>
    BY <1>6 DEF Continue, Cancel, Start, Missing, Expire, registry
  <1>7. Tick \/ UNCHANGED vars => UNCHANGED <<target, active>>
    BY DEF Tick, vars, tools, registry
  <1> QED BY <1>2, <1>3, <1>4, <1>5, <1>6, <1>7 DEF Next

LEMMA OverFinite ==
    ASSUME IsFiniteSet(Call), NEW T \in SUBSET Call
    PROVE  /\ IsFiniteSet(T) /\ Cardinality(T) \in Nat
           /\ MaxTimeout * Cardinality(T) \in Nat
  <1>1. IsFiniteSet(T) /\ Cardinality(T) \in Nat
    BY FS_Subset, FS_CardinalityType
  <1> QED BY <1>1, AgentAssumption

\* The more calls are over, the more time they may have taken.
LEMMA BudgetGrows ==
    ASSUME IsFiniteSet(Call), NEW T \in SUBSET Call, NEW S \in SUBSET T
    PROVE  /\ MaxTimeout * Cardinality(S) <= MaxTimeout * Cardinality(T)
           /\ \A c \in T : c \notin S =>
                 MaxTimeout * Cardinality(S) + MaxTimeout <= MaxTimeout * Cardinality(T)
  <1>1. /\ IsFiniteSet(T) /\ Cardinality(T) \in Nat /\ Cardinality(S) \in Nat
        /\ IsFiniteSet(S) /\ MaxTimeout \in Nat
    BY OverFinite, AgentAssumption
  <1>2. Cardinality(S) <= Cardinality(T)
    BY <1>1, FS_Subset
  <1>3. \A m, n \in Nat : m <= n => MaxTimeout * m <= MaxTimeout * n
    <2> SUFFICES ASSUME NEW m \in Nat, NEW n \in Nat, m <= n
                 PROVE  MaxTimeout * m <= MaxTimeout * n
      OBVIOUS
    <2>1. PICK k \in Nat : n = m + k
      <3>1. n - m \in Nat /\ n = m + (n - m)
        OBVIOUS
      <3> QED BY <3>1
    <2>2. MaxTimeout * n = MaxTimeout * m + MaxTimeout * k
      BY <1>1, <2>1
    <2>3. MaxTimeout * k \in Nat /\ MaxTimeout * m \in Nat
      BY <1>1
    <2> QED BY <2>2, <2>3
  <1>4. ASSUME NEW c \in T, c \notin S
        PROVE  MaxTimeout * Cardinality(S) + MaxTimeout <= MaxTimeout * Cardinality(T)
    <2>1. Cardinality(S \cup {c}) = Cardinality(S) + 1
      BY <1>1, <1>4, FS_AddElement
    <2>2. S \cup {c} \in SUBSET T
      BY <1>4
    <2>3. Cardinality(S) + 1 <= Cardinality(T)
      BY <1>1, <2>1, <2>2, FS_Subset
    <2>4. MaxTimeout * (Cardinality(S) + 1) <= MaxTimeout * Cardinality(T)
      BY <1>1, <1>3, <2>3
    <2>5. MaxTimeout * (Cardinality(S) + 1) = MaxTimeout * Cardinality(S) + MaxTimeout
      BY <1>1
    <2> QED BY <2>4, <2>5
  <1> QED BY <1>1, <1>2, <1>3, <1>4

\* An attempt that has a terminal is known by its call.
LEMMA AttemptOfHome ==
    ASSUME Homes, NEW a \in Attempt, target[a] \in Term
    PROVE  a = <<a[1], Home[target[a]]>> /\ a[1] \in Call
  <1>1. a = <<a[1], a[2]>> /\ a[1] \in Call
    BY DEF Attempt
  <1>2. Home[target[a]] = a[2]
    BY AgentAssumption DEF Homes
  <1> QED BY <1>1, <1>2

LEMMA OverGrows ==
    ASSUME Homes, Homes', Onward, NEW t \in Term
    PROVE  Over(t) \subseteq Over(t)' /\ Over(t)' \subseteq Call
  <1>1. ASSUME NEW c \in Over(t) PROVE c \in Over(t)'
    <2>1. <<c, Home[t]>> \in Attempt /\ c \in Call
      BY <1>1, AgentAssumption DEF Attempt, Over
    <2> QED BY <1>1, <2>1 DEF Over, Onward
  <1> QED BY <1>1 DEF Over

\* The calls of two attempts that wait for a terminal are not over.
LEMMA WaitingIsNotOver ==
    ASSUME Homes, NEW a \in Attempt, target[a] \in Term, stage[a] \in Waiting
    PROVE  a[1] \notin Over(target[a])
  BY AttemptOfHome DEF Over, Waiting, Answers

LEMMA OnwardIsPatient ==
    ASSUME IsFiniteSet(Call), IInv, IInv', Homes, Homes', Onward,
           \A b \in Attempt : Patient(b), NEW a \in Attempt
    PROVE  Patient(a)'
  <1> SUFFICES ASSUME stage'[a] = "queued"
               PROVE  \/ since'[a] <= Budget(target[a])'
                      \/ \E b \in Attempt :
                            /\ stage'[b] = "collect" /\ target'[b] = target'[a]
                            /\ since'[a] <= Budget(target[a])' + since'[b]
    BY DEF Patient
  <1>1. target'[a] \in Term
    BY DEF IInv, Fresh, Waiting
  <1>2. Budget(target[a])' \in Nat
    <2>1. Over(target[a])' \in SUBSET Call
      BY DEF Over
    <2> QED BY <2>1, OverFinite DEF Budget
  <1>3. CASE since'[a] = 0
    BY <1>2, <1>3
  <1>4. CASE stage[a] = "queued" /\ since'[a] = since[a] /\ target'[a] = target[a]
    <2>0. PICK t \in Term : t = target[a]
      BY <1>1, <1>4
    <2>1. t \in Term /\ target[a] = t /\ target'[a] = t /\ since[a] \in Nat
      BY <1>4, <2>0 DEF IInv, Types
    <2>2. Over(t) \subseteq Over(t)' /\ Over(t)' \subseteq Call
      BY <2>1, OverGrows
    <2>3. Budget(t) \in Nat
      BY <2>2, OverFinite DEF Budget
    <2>4. Budget(target[a])' = MaxTimeout * Cardinality(Over(t)')
      BY <2>1 DEF Budget, Over
    <2>5. Budget(t) <= Budget(target[a])'
      BY <2>2, <2>4, BudgetGrows DEF Budget
    <2>6. CASE since[a] <= Budget(t)
      BY <1>2, <1>4, <2>1, <2>3, <2>5, <2>6
    <2>7. ASSUME NEW b \in Attempt, stage[b] = "collect", target[b] = t,
                 since[a] <= Budget(t) + since[b]
          PROVE  \/ since'[a] <= Budget(target[a])'
                 \/ \E d \in Attempt :
                       /\ stage'[d] = "collect" /\ target'[d] = target'[a]
                       /\ since'[a] <= Budget(target[a])' + since'[d]
      <3>1. target'[b] = t /\ since[b] \in Nat
        BY <2>7 DEF Onward, IInv, Types
      <3>2. CASE stage'[b] = "collect" /\ since'[b] = since[b]
        <4>1. since'[a] <= Budget(target[a])' + since'[b]
          BY <1>2, <1>4, <2>1, <2>3, <2>5, <2>7, <3>1, <3>2
        <4> QED BY <2>1, <3>1, <3>2, <4>1
      <3>3. CASE stage'[b] \in Answers
        <4>1. b = <<b[1], Home[t]>> /\ b[1] \in Call
          BY <2>1, <2>7, AttemptOfHome
        <4>2. b[1] \in Over(t)'
          BY <2>1, <3>1, <3>3, <4>1 DEF Over
        <4>3. b[1] \notin Over(t)
          BY <2>1, <2>7, WaitingIsNotOver DEF Waiting
        <4>4. Budget(t) + MaxTimeout <= Budget(target[a])'
          BY <2>2, <2>4, <4>2, <4>3, BudgetGrows DEF Budget
        <4>5. since[b] <= MaxTimeout /\ MaxTimeout \in Nat
          <5>1. since[b] <= Timeout(b[1])
            BY <2>7 DEF IInv, Clocks
          <5>2. Timeout(b[1]) \in Nat /\ Timeout(b[1]) <= MaxTimeout /\ MaxTimeout \in Nat
            BY <4>1, Limits, AgentAssumption
          <5> QED BY <3>1, <5>1, <5>2
        <4> QED BY <1>2, <1>4, <2>1, <2>3, <2>7, <3>1, <4>4, <4>5
      <3> QED BY <2>7, <3>2, <3>3 DEF Onward
    <2> QED BY <1>4, <2>1, <2>6, <2>7 DEF Patient
  <1> QED BY <1>3, <1>4 DEF Onward

LEMMA TickIsPatient ==
    ASSUME IsFiniteSet(Call), IInv, Homes, Tick,
           \A b \in Attempt : Patient(b), NEW a \in Attempt
    PROVE  Patient(a)'
  <1>1. /\ stage' = stage /\ target' = target
        /\ since' = [b \in Attempt |-> IF stage[b] \in Waiting THEN since[b] + 1 ELSE since[b]]
        /\ ~Due
    BY DEF Tick
  <1> SUFFICES ASSUME stage[a] = "queued"
               PROVE  \/ since'[a] <= Budget(target[a])'
                      \/ \E b \in Attempt :
                            /\ stage'[b] = "collect" /\ target'[b] = target'[a]
                            /\ since'[a] <= Budget(target[a])' + since'[b]
    BY <1>1 DEF Patient
  <1> DEFINE t == target[a]
  <1>2. t \in Term /\ since[a] \in Nat /\ since'[a] = since[a] + 1
    BY <1>1 DEF IInv, Fresh, Waiting, Types
  <1>3. Budget(target[a])' = Budget(t)
    BY <1>1 DEF Budget, Over
  <1>4. Budget(t) \in Nat
    <2>1. Over(t) \in SUBSET Call
      BY DEF Over
    <2> QED BY <2>1, OverFinite DEF Budget
  <1>5. ASSUME NEW b \in Attempt, stage[b] = "collect"
        PROVE  since'[b] = since[b] + 1 /\ since[b] \in Nat
    BY <1>1, <1>5 DEF Waiting, IInv, Types
  <1>6. CASE since[a] <= Budget(t)
    <2>1. PICK i \in 1..Len(queue[t]) : queue[t][i] = a
      BY DEF IInv, Chains, Chained, InChain
    <2>2. queue[t] \in Seq(Attempt) /\ queue[t] # <<>> /\ 1 \in 1..Len(queue[t])
      BY <1>2, <2>1 DEF IInv, Types
    <2>3. PICK h \in Attempt : h = queue[t][1]
      BY <2>2
    <2>4. target[h] = t /\ stage[h] \in InChain
      BY <1>2, <2>2, <2>3 DEF IInv, Chains, Chain
    <2>5. AtHead(h)
      BY <2>2, <2>3, <2>4 DEF AtHead
    <2>6. stage[h] = "collect"
      BY <1>1, <2>4, <2>5 DEF Due, Ready, InChain
    <2>7. since'[a] <= Budget(target[a])' + since'[h]
      BY <1>2, <1>3, <1>4, <1>5, <1>6, <2>6
    <2> QED BY <1>1, <2>4, <2>6, <2>7
  <1>7. ASSUME NEW b \in Attempt, stage[b] = "collect", target[b] = t,
               since[a] <= Budget(t) + since[b]
        PROVE  since'[a] <= Budget(target[a])' + since'[b]
    BY <1>2, <1>3, <1>4, <1>5, <1>7
  <1> QED BY <1>1, <1>6, <1>7 DEF Patient

\* A queue moves on past commands that fail, hang or lose their terminal: no
\* command waits longer than the clamped timeouts of all other calls together
\* (enqueueTerminal goes on after a rejection as after a result).
THEOREM QueuesMoveOn ==
    ASSUME IsFiniteSet(Call)
    PROVE  Spec => []QueueWaitIsBounded
  <1>1. Init => Homes /\ \A a \in Attempt : Patient(a)
    BY DEF Init, Homes, Patient
  <1>2. IInv /\ Homes /\ [Next]_vars => Homes'
    BY HomesKept
  <1>3. IInv /\ Homes /\ (\A a \in Attempt : Patient(a)) /\ [Next]_vars
            => (\A a \in Attempt : Patient(a))'
    BY NextIInv, HomesKept, StepOnward, OnwardIsPatient, TickIsPatient
  <1>4. ASSUME IInv, Homes, \A a \in Attempt : Patient(a)
        PROVE  QueueWaitIsBounded
    <2> SUFFICES ASSUME NEW a \in Attempt, stage[a] = "queued"
                 PROVE  since[a] <= MaxTimeout * (Cardinality(Call) - 1)
      BY DEF QueueWaitIsBounded
    <2> DEFINE t == target[a]
               rest == Call \ {a[1]}
    <2>1. t \in Term /\ a[1] \in Call /\ since[a] \in Nat /\ MaxTimeout \in Nat
      BY <1>4, AttemptOfHome, AgentAssumption DEF IInv, Fresh, Waiting, Types
    <2>2. rest \in SUBSET Call /\ Cardinality(rest) = Cardinality(Call) - 1
      BY <2>1, FS_RemoveElement
    <2>3. Over(t) \in SUBSET rest
      BY <1>4, <2>1, WaitingIsNotOver DEF Over, Waiting
    <2>4. Budget(t) \in Nat /\ MaxTimeout * Cardinality(rest) \in Nat
      BY <2>2, <2>3, OverFinite DEF Budget
    <2>5. CASE since[a] <= Budget(t)
      <3>1. Budget(t) <= MaxTimeout * Cardinality(rest)
        BY <2>2, <2>3, BudgetGrows DEF Budget
      <3> QED BY <2>1, <2>2, <2>4, <2>5, <3>1
    <2>6. ASSUME NEW b \in Attempt, stage[b] = "collect", target[b] = t,
                 since[a] <= Budget(t) + since[b]
          PROVE  since[a] <= MaxTimeout * Cardinality(rest)
      <3>1. b = <<b[1], Home[t]>> /\ b[1] \in Call /\ a = <<a[1], Home[t]>>
        BY <1>4, <2>1, <2>6, AttemptOfHome
      <3>2. b[1] \in rest
        BY <2>6, <3>1
      <3>3. b[1] \notin Over(t)
        BY <1>4, <2>1, <2>6, WaitingIsNotOver DEF Waiting
      <3>4. Budget(t) + MaxTimeout <= MaxTimeout * Cardinality(rest)
        BY <2>2, <2>3, <3>2, <3>3, BudgetGrows DEF Budget
      <3>5. since[b] \in Nat /\ since[b] <= MaxTimeout
        <4>1. since[b] \in Nat /\ since[b] <= Timeout(b[1])
          BY <1>4, <2>6 DEF IInv, Clocks, Types
        <4>2. Timeout(b[1]) \in Nat /\ Timeout(b[1]) <= MaxTimeout
          BY <3>1, Limits
        <4> QED BY <2>1, <4>1, <4>2
      <3> QED BY <2>1, <2>4, <2>6, <3>4, <3>5
    <2> QED BY <1>4, <2>2, <2>5, <2>6 DEF Patient
  <1> QED BY <1>1, <1>2, <1>3, <1>4, Invariance, PTL DEF Spec

----------------------------------------------------------------------------
\* The refinement of SerialCommands, terminal by terminal: what a step does to
\* the chain of a terminal and to what its callers have been told is one step of
\* the abstract specification, or none.

Serially == \A t \in Term : [Serial(t)!Next]_(Serial(t)!vars)

\* What terminal t's chain has told an attempt in stage s whose terminal is u.
Told(t, u, s) ==
    IF u # t \/ s \in {"new", "prompt"} THEN "new"
    ELSE IF s \in {"queued", "collect"} THEN "accepted"
    ELSE IF s = "done" THEN "resolved" ELSE "rejected"

LEMMA QuietSerially ==
    ASSUME UNCHANGED <<stage, target, queue>> PROVE Serially
  BY DEF Serially, Serial!vars, Outcome

LEMMA OutcomeIs ==
    ASSUME Types, NEW a \in Attempt, NEW t \in Term
    PROVE  Outcome(t)[a] = Told(t, target[a], stage[a])
  BY DEF Outcome, Told

LEMMA StayIsStutter ==
    ASSUME NEW t \in Term, queue'[t] = queue[t],
           \A b \in Attempt : Told(t, target'[b], stage'[b]) = Told(t, target[b], stage[b])
    PROVE  UNCHANGED Serial(t)!vars
  <1>1. Outcome(t)' = Outcome(t)
    BY DEF Outcome, Told
  <1> QED BY <1>1 DEF Serial!vars

LEMMA AnswerIsAnswer ==
    ASSUME Types, NEW a \in Attempt, NEW s, NEW u, NEW t \in Term,
           stage' = [stage EXCEPT ![a] = s], target' = [target EXCEPT ![a] = u],
           queue'[t] = queue[t], Told(t, target[a], stage[a]) = "new",
           Told(t, u, s) \in {"resolved", "rejected"}
    PROVE  Serial(t)!Next
  <1>1. Outcome(t)' = [Outcome(t) EXCEPT ![a] = Told(t, u, s)]
    BY DEF Outcome, Told, Types
  <1>2. Outcome(t)[a] = "new"
    BY OutcomeIs
  <1>3. Serial(t)!Answer(a)
    BY <1>1, <1>2 DEF Serial!Answer, Serial!Settled
  <1> QED BY <1>3 DEF Serial!Next

LEMMA EnqueueIsAccept ==
    ASSUME Types, NEW a \in Attempt, NEW s, NEW u, NEW t \in Term,
           stage' = [stage EXCEPT ![a] = s], target' = [target EXCEPT ![a] = u],
           queue'[t] = Append(queue[t], a), Told(t, target[a], stage[a]) = "new",
           Told(t, u, s) = "accepted"
    PROVE  Serial(t)!Next
  <1>1. Outcome(t)' = [Outcome(t) EXCEPT ![a] = Told(t, u, s)]
    BY DEF Outcome, Told, Types
  <1>2. Outcome(t)[a] = "new"
    BY OutcomeIs
  <1>3. Serial(t)!Accept(a)
    BY <1>1, <1>2 DEF Serial!Accept
  <1> QED BY <1>3 DEF Serial!Next

LEMMA SettleIsFinish ==
    ASSUME Types, NEW a \in Attempt, NEW s, NEW t \in Term, target[a] = t,
           stage' = [stage EXCEPT ![a] = s], UNCHANGED target,
           AtHead(a), queue'[t] = Tail(queue[t]), s \in Answers
    PROVE  Serial(t)!Next
  <1>1. target' = [target EXCEPT ![a] = t] /\ queue[t] # <<>> /\ Head(queue[t]) = a
    BY DEF AtHead, Types
  <1>2. Told(t, t, s) \in {"resolved", "rejected"}
    BY DEF Told, Answers
  <1>3. Outcome(t)' = [Outcome(t) EXCEPT ![a] = Told(t, t, s)]
    BY <1>1 DEF Outcome, Told, Types
  <1>4. Serial(t)!Finish
    BY <1>1, <1>2, <1>3 DEF Serial!Finish, Serial!Settled
  <1> QED BY <1>4 DEF Serial!Next

\* An attempt enters the chain of its terminal, which no other chain notices.
LEMMA EnqueueSerially ==
    ASSUME Types, NEW a \in Attempt, stage[a] \in {"new", "prompt"}, NEW t \in Term,
           target' = [target EXCEPT ![a] = t], Enqueue(a, t)
    PROVE  Serially
  <1>1. stage' = [stage EXCEPT ![a] = "queued"] /\ queue' = [queue EXCEPT ![t] = Append(@, a)]
    BY DEF Enqueue, Enter
  <1>2. ASSUME NEW v \in Term PROVE [Serial(v)!Next]_(Serial(v)!vars)
    <2>1. Told(v, target[a], stage[a]) = "new"
      BY DEF Told
    <2>2. CASE v = t
      <3>1. queue'[v] = Append(queue[v], a) /\ Told(v, t, "queued") = "accepted"
        BY <1>1, <2>2 DEF Types, Told
      <3>2. Serial(v)!Next
        BY <1>1, <2>1, <3>1, EnqueueIsAccept
      <3> QED BY <3>2
    <2>3. CASE v # t
      <3>1. /\ queue'[v] = queue[v]
            /\ \A b \in Attempt : Told(v, target'[b], stage'[b]) = Told(v, target[b], stage[b])
        BY <1>1, <2>1, <2>3 DEF Types, Told
      <3>2. UNCHANGED Serial(v)!vars
        BY <3>1, StayIsStutter
      <3> QED BY <3>2
    <2> QED BY <2>2, <2>3
  <1> QED BY <1>2 DEF Serially

\* An attempt is answered before it was queued: at once, as its chain sees it.
LEMMA RefusalSerially ==
    ASSUME Types, NEW a \in Attempt, stage[a] \in {"new", "prompt"}, NEW s \in Answers,
           Enter(a, s), UNCHANGED <<target, queue>>
    PROVE  Serially
  <1>1. stage' = [stage EXCEPT ![a] = s] /\ target' = [target EXCEPT ![a] = target[a]]
    BY DEF Enter, Types
  <1>2. ASSUME NEW v \in Term PROVE [Serial(v)!Next]_(Serial(v)!vars)
    <2>1. Told(v, target[a], stage[a]) = "new" /\ queue'[v] = queue[v]
      BY DEF Told
    <2>2. CASE Told(v, target[a], s) = "new"
      <3>1. \A b \in Attempt : Told(v, target'[b], stage'[b]) = Told(v, target[b], stage[b])
        BY <1>1, <2>1, <2>2 DEF Types
      <3>2. UNCHANGED Serial(v)!vars
        BY <2>1, <3>1, StayIsStutter
      <3> QED BY <3>2
    <2>3. CASE Told(v, target[a], s) \in {"resolved", "rejected"}
      <3>1. Serial(v)!Next
        BY <1>1, <2>1, <2>3, AnswerIsAnswer
      <3> QED BY <3>1
    <2>4. Told(v, target[a], s) \in {"new", "resolved", "rejected"}
      BY DEF Told, Answers
    <2> QED BY <2>2, <2>3, <2>4
  <1> QED BY <1>2 DEF Serially

\* The head of a chain is answered and leaves it.
LEMMA SettleSerially ==
    ASSUME Types, NEW a \in Attempt, target[a] \in Term, AtHead(a), NEW s \in Answers,
           Enter(a, s), Settle(a), UNCHANGED target
    PROVE  Serially
  <1>1. /\ stage' = [stage EXCEPT ![a] = s] /\ target' = [target EXCEPT ![a] = target[a]]
        /\ queue' = [queue EXCEPT ![target[a]] = Tail(@)]
    BY DEF Enter, Settle, Types
  <1>2. ASSUME NEW v \in Term PROVE [Serial(v)!Next]_(Serial(v)!vars)
    <2>1. CASE v = target[a]
      <3>1. queue'[v] = Tail(queue[v])
        BY <1>1, <2>1 DEF Types
      <3>2. Serial(v)!Next
        BY <1>1, <2>1, <3>1, SettleIsFinish
      <3> QED BY <3>2
    <2>2. CASE v # target[a]
      <3>1. /\ queue'[v] = queue[v]
            /\ \A b \in Attempt : Told(v, target'[b], stage'[b]) = Told(v, target[b], stage[b])
        BY <1>1, <2>2 DEF Types, Told
      <3>2. UNCHANGED Serial(v)!vars
        BY <3>1, StayIsStutter
      <3> QED BY <3>2
    <2> QED BY <2>1, <2>2
  <1> QED BY <1>2 DEF Serially

\* An attempt goes on without its callers being told.
LEMMA OnSerially ==
    ASSUME Types, NEW a \in Attempt, NEW s, NEW u,
           stage' = [stage EXCEPT ![a] = s], target' = [target EXCEPT ![a] = u],
           UNCHANGED queue,
           \/ stage[a] \in {"new", "prompt"} /\ s = "prompt"
           \/ stage[a] = "queued" /\ s = "collect" /\ u = target[a]
    PROVE  Serially
  <1>1. ASSUME NEW v \in Term PROVE UNCHANGED Serial(v)!vars
    <2>1. Told(v, u, s) = Told(v, target[a], stage[a])
      BY DEF Told
    <2>2. \A b \in Attempt : Told(v, target'[b], stage'[b]) = Told(v, target[b], stage[b])
      BY <2>1 DEF Types
    <2> QED BY <2>2, StayIsStutter
  <1> QED BY <1>1 DEF Serially

LEMMA ServeSerially ==
    ASSUME Types, NEW c \in Call, NEW w \in Window, NEW t \in Term \cup {None}, NEW raw,
           stage[<<c, w>>] = "new", Serve(c, w, t, raw)
    PROVE  Serially
  <1>1. <<c, w>> \in Attempt
    BY DEF Attempt
  <1>2. CASE Connected(t)
    <2>1. t \in Term /\ target' = [target EXCEPT ![<<c, w>>] = t]
      BY <1>2 DEF Serve, Connected
    <2>2. CASE Enter(<<c, w>>, "prompt") /\ UNCHANGED queue
      <3>1. stage' = [stage EXCEPT ![<<c, w>>] = "prompt"]
        BY <2>2 DEF Enter
      <3> QED BY <1>1, <2>1, <2>2, <3>1, OnSerially
    <2>3. CASE Enqueue(<<c, w>>, t)
      BY <1>1, <2>1, <2>3, EnqueueSerially
    <2> QED BY <1>2, <2>2, <2>3 DEF Serve
  <1>3. CASE ~Connected(t)
    <2>1. Enter(<<c, w>>, "error") /\ UNCHANGED <<target, queue>> /\ "error" \in Answers
      BY <1>3 DEF Serve, Answers
    <2> QED BY <1>1, <2>1, RefusalSerially
  <1> QED BY <1>2, <1>3

LEMMA CallSerially ==
    ASSUME IInv, NEW c \in Call, FailOver(c) \/ \E w \in Window : Invoke(c, w)
    PROVE  Serially
  <1>0. Types
    BY DEF IInv
  <1>1. ASSUME NEW w \in Window, Invoke(c, w) PROVE Serially
    <2>1. <<c, w>> \in Attempt /\ <<c, w>>[1] = c /\ at[c] = "new"
      BY <1>1 DEF Attempt, Invoke
    <2>2. stage[<<c, w>>] = "new" /\ \E raw : Serve(c, w, Resolve(c, w), raw)
      BY <1>1, <2>1 DEF IInv, Fresh, Invoke
    <2> QED BY <1>0, <2>2, Resolved, ServeSerially
  <1>2. CASE \E w \in {w \in Window : stage[<<c, w>>] = "new"} :
                Serve(c, w, Resolve(c, w), c \in direct)
    BY <1>0, <1>2, Resolved, ServeSerially
  <1>3. CASE UNCHANGED tools
    BY <1>3, QuietSerially DEF tools
  <1> QED BY <1>1, <1>2, <1>3 DEF FailOver

LEMMA AttemptSerially ==
    ASSUME IInv, NEW a \in Attempt,
           Continue(a) \/ Cancel(a) \/ Start(a) \/ Missing(a) \/ Expire(a)
    PROVE  Serially
  <1>0. Types /\ Fresh /\ Chains /\ target' = target
        /\ target' = [target EXCEPT ![a] = target[a]]
    BY DEF IInv, Types, Continue, Cancel, Start, Missing, Expire
  <1>1. CASE Continue(a)
    <2>1. stage[a] = "prompt" /\ target[a] \in Term
      BY <1>0, <1>1 DEF Continue, Fresh, Waiting
    <2>2. CASE a[1] \notin direct
      BY <1>0, <1>1, <2>1, <2>2, EnqueueSerially DEF Continue
    <2>3. CASE a[1] \in direct
      <3>1. UNCHANGED queue /\ \E s \in Answers : Enter(a, s)
        BY <1>1, <2>3 DEF Continue, Answer, Answers
      <3> QED BY <1>0, <2>1, <3>1, RefusalSerially
    <2> QED BY <2>2, <2>3
  <1>2. CASE Cancel(a)
    <2>1. stage[a] = "prompt" /\ UNCHANGED queue /\ Enter(a, "cancelled") /\ "cancelled" \in Answers
      BY <1>2 DEF Cancel, Answer, Answers
    <2> QED BY <1>0, <2>1, RefusalSerially
  <1>3. CASE Start(a)
    <2>1. stage[a] = "queued" /\ AtHead(a) /\ target[a] \in Term
      BY <1>0, <1>3 DEF Start, Ready, Fresh, Waiting
    <2>2. CASE Enter(a, "collect") /\ UNCHANGED queue
      <3>1. stage' = [stage EXCEPT ![a] = "collect"]
        BY <2>2 DEF Enter
      <3> QED BY <1>0, <2>1, <2>2, <3>1, OnSerially
    <2>3. CASE Enter(a, "error") /\ Settle(a)
      BY <1>0, <2>1, <2>3, SettleSerially DEF Answers
    <2> QED BY <1>3, <2>2, <2>3 DEF Start, Answer, Rejected
  <1>4. CASE Missing(a) \/ Expire(a)
    <2>1. /\ stage[a] = "collect" /\ Settle(a)
          /\ \E s \in Answers : Enter(a, s)
      BY <1>4 DEF Missing, Expire, GraceDue, TimeoutDue, Answer, Answers
    <2>2. target[a] \in Term /\ AtHead(a)
      BY <1>0, <2>1, CollectLeads
    <2> QED BY <1>0, <2>1, <2>2, SettleSerially
  <1> QED BY <1>1, <1>2, <1>3, <1>4

LEMMA DeliverSerially ==
    ASSUME IInv, NEW t \in Term, Deliver(t) PROVE Serially
  <1>1. /\ target' = target
        /\ \/ \E a \in Attempt : stage[a] = "collect" /\ Answer(a, "done") /\ Settle(a)
           \/ UNCHANGED <<stage, queue>>
    BY DEF Deliver
  <1>2. ASSUME NEW a \in Attempt, stage[a] = "collect", Answer(a, "done"), Settle(a)
        PROVE  Serially
    <2>1. Types /\ target[a] \in Term /\ AtHead(a) /\ Enter(a, "done") /\ "done" \in Answers
      BY <1>2, CollectLeads DEF IInv, Answer, Answers
    <2> QED BY <1>1, <1>2, <2>1, SettleSerially
  <1> QED BY <1>1, <1>2, QuietSerially

LEMMA NextSerially == ASSUME IInv, [Next]_vars PROVE Serially
  <1>1. CASE \E c \in Call : FailOver(c) \/ \E w \in Window : Invoke(c, w)
    BY <1>1, CallSerially
  <1>2. CASE \E a \in Attempt : Continue(a) \/ Cancel(a) \/ Start(a) \/ Missing(a) \/ Expire(a)
    BY <1>2, AttemptSerially
  <1>3. CASE \E t \in Term : Deliver(t)
    BY <1>3, DeliverSerially
  <1>4. CASE \E t \in Term : \/ Focus(t) \/ Drop(t) \/ Reconnected(t) \/ Close(t)
                             \/ Run(t) \/ Finish(t) \/ UserProgram(t) \/ Swallow(t)
    <2>1. UNCHANGED tools
      BY <1>4 DEF Focus, Drop, Reconnected, Close, Run, Finish, UserProgram, Swallow
    <2> QED BY <2>1, QuietSerially DEF tools
  <1>5. CASE Tick \/ UNCHANGED vars
    <2>1. UNCHANGED <<stage, target, queue>>
      BY <1>5 DEF Tick, vars, tools
    <2> QED BY <2>1, QuietSerially
  <1> QED BY <1>1, <1>2, <1>3, <1>4, <1>5 DEF Next

\* The commands of each terminal keep the promises of SerialCommands: accepted
\* ones settle one at a time, in the order of enqueueTerminal, each once, over
\* failed starts, missing markers, timeouts, terminals that close and calls that
\* the hub gives to a second window.
THEOREM SerialTerminals == Spec => ChainsAreSerial
  <1>1. Init => \A t \in Term : Serial(t)!Init
    BY AgentAssumption DEF Serial!Init, Init, Outcome, Attempt
  <1>2. IInv /\ [Next]_vars => \A t \in Term : [Serial(t)!Next]_(Serial(t)!vars)
    BY NextSerially DEF Serially
  <1>3. Spec => [][\A t \in Term : [Serial(t)!Next]_(Serial(t)!vars)]_vars
    BY <1>2, Invariance, PTL DEF Spec
  <1>4. Spec => \A t \in Term : Serial(t)!Init
    BY <1>1 DEF Spec
  <1> QED BY <1>3, <1>4 DEF ChainsAreSerial

=============================================================================
