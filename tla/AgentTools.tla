------------------------------ MODULE AgentTools ------------------------------
(***************************************************************************)
(* The terminal tools that agents call (src/agent): a call is resolved to  *)
(* a connected terminal, confirmed by the user or by the asset's trust,    *)
(* queued behind the other commands of that terminal, typed between two    *)
(* markers, and collected from the terminal's output until its end marker, *)
(* the grace for its start marker or its timeout.                          *)
(*                                                                         *)
(* Around it, external: the shell at the other end of each terminal, and   *)
(* the hub, which gives each window a deadline for a call and then hands   *)
(* the call to another window.  An attempt <<c, w>> is call c as window w  *)
(* serves it.                                                              *)
(*                                                                         *)
(* Time passes in ticks.  A deadline that is due is met before the next    *)
(* tick, and so is work that nothing holds back; the user, the shell and   *)
(* the network take as long as they like.                                  *)
(***************************************************************************)
EXTENDS Naturals, FiniteSets, Sequences, Functions

CONSTANTS
    Window,       \* windows of the editor, each with a bridge for the hub
    Term, Home,   \* terminals, and the window of each
    Call,         \* tool calls
    Named,        \* terminalId of each call, or None for the active terminal
    Asked,        \* timeoutMs of each call, or 0 when it has none
    HubDeadline,  \* the hub's invoke timeout
    ConfirmLimit, \* MCP_CONFIRM_TIMEOUT_MS
    GraceLimit,   \* START_MARKER_GRACE_MS
    MaxTimeout,   \* MAX_TIMEOUT_MS
    DefaultTimeout,
    None

\* The order of the five durations in the code.
ASSUME AgentAssumption ==
    /\ Home \in [Term -> Window]
    /\ "new" \notin Window /\ "over" \notin Window
    /\ Named \in [Call -> Term \cup {None}] /\ None \notin Term \cup Window
    /\ Asked \in [Call -> Nat]
    /\ {HubDeadline, ConfirmLimit, GraceLimit, MaxTimeout, DefaultTimeout} \subseteq Nat \ {0}
    /\ GraceLimit < DefaultTimeout /\ DefaultTimeout < ConfirmLimit
    /\ ConfirmLimit < MaxTimeout /\ MaxTimeout < HubDeadline

Attempt == Call \X Window

VARIABLES
    direct,   \* hub: the calls that send raw input; the others run a command
    at,       \* hub: the window that serves the call, or "new", "over"
    age,      \* hub: ticks since it handed the call to that window
    stage,    \* how far each attempt is, or how it was answered
    target,   \* the terminal of each attempt, as resolved for its prompt
    since,    \* ticks that the attempt has spent in its stage
    seen,     \* attempts whose start marker the collector has seen
    queue,    \* each terminal's chain of commands that are not settled
    context,  \* registry: each terminal's context
    active,   \* registry: the active context of each window
    open,     \* terminals whose session can be written to
    typed,    \* shell: lines that it has not finished, the first one in front
    front,    \* shell: "prompt", or what reads the keys: "line", "user"
    output,   \* markers on their way from the shell to the output buffer
    ran       \* history: attempts whose line the shell has begun to run

hub == <<direct, at, age>>
tools == <<stage, target, since, seen, queue>>
registry == <<context, active>>
shell == <<typed, front, output, ran>>
vars == <<hub, tools, registry, open, shell>>

Answers == {"cancelled", "error", "missing", "timeout", "done"}
Waiting == {"prompt", "queued", "collect"}

Init ==
    /\ direct = {} /\ at = [c \in Call |-> "new"] /\ age = [c \in Call |-> 0]
    /\ stage = [a \in Attempt |-> "new"] /\ target = [a \in Attempt |-> None]
    /\ since = [a \in Attempt |-> 0] /\ seen = {}
    /\ queue = [t \in Term |-> <<>>]
    /\ context = [t \in Term |-> "connected"]
    /\ active \in {f \in [Window -> Term \cup {None}] :
                       \A w \in Window : f[w] # None => Home[f[w]] = w}
    /\ open = Term
    /\ typed = [t \in Term |-> <<>>] /\ front = [t \in Term |-> "prompt"]
    /\ output = [t \in Term |-> <<>>] /\ ran = {}

----------------------------------------------------------------------------
\* Steps of an attempt

Enter(a, s) ==
    /\ stage' = [stage EXCEPT ![a] = s]
    /\ since' = [since EXCEPT ![a] = 0]

\* The attempt is answered; the hub takes no answer from a window it gave up.
Answer(a, s) ==
    /\ Enter(a, s)
    /\ at' = [at EXCEPT ![a[1]] = IF @ = a[2] THEN "over" ELSE @]

Type(a, t) == typed' = [typed EXCEPT ![t] = Append(@, a)]

Timeout(c) ==
    IF Asked[c] = 0 THEN DefaultTimeout
    ELSE IF Asked[c] > MaxTimeout THEN MaxTimeout ELSE Asked[c]

----------------------------------------------------------------------------
\* The call, up to its place in the queue

\* resolveTerminal: contexts of another window are not known in this one.
Resolve(c, w) ==
    IF Named[c] = None THEN active[w]
    ELSE IF Home[Named[c]] = w THEN Named[c] ELSE None

Connected(t) == t # None /\ context[t] = "connected"

\* Behind the commands of its terminal.
Enqueue(a, t) == queue' = [queue EXCEPT ![t] = Append(@, a)] /\ Enter(a, "queued")

\* Window w takes the call: no terminal and an error, or the prompt, or, for a
\* command that the asset's trust and the policy allow, the queue.
Serve(c, w, t, raw) ==
    /\ age' = [age EXCEPT ![c] = 0]
    /\ IF Connected(t)
       THEN /\ at' = [at EXCEPT ![c] = w]
            /\ target' = [target EXCEPT ![<<c, w>>] = t]
            /\ \/ Enter(<<c, w>>, "prompt") /\ UNCHANGED queue
               \/ ~raw /\ Enqueue(<<c, w>>, t)
       ELSE /\ at' = [at EXCEPT ![c] = "over"]
            /\ Enter(<<c, w>>, "error")
            /\ UNCHANGED <<target, queue>>
    /\ UNCHANGED <<seen, registry, open, shell>>

Invoke(c, w) ==
    /\ at[c] = "new"
    /\ \E raw \in BOOLEAN : /\ direct' = IF raw THEN direct \cup {c} ELSE direct
                            /\ Serve(c, w, Resolve(c, w), raw)

\* The user confirms in time: raw input is typed at once, a command queues.
Continue(a) ==
    /\ stage[a] = "prompt"
    /\ IF a[1] \in direct
       THEN IF target[a] \in open
            THEN Type(a, target[a]) /\ Answer(a, "done")
            ELSE Answer(a, "error") /\ UNCHANGED typed
       ELSE Enqueue(a, target[a]) /\ UNCHANGED <<at, typed>>
    /\ UNCHANGED <<direct, age, target, seen, registry, open, front, output, ran>>
    /\ a[1] \in direct => UNCHANGED queue

PromptDue(a) == stage[a] = "prompt" /\ since[a] = ConfirmLimit

\* The user dismisses the prompt, or leaves it for too long.
Cancel(a) ==
    /\ stage[a] = "prompt"
    /\ Answer(a, "cancelled")
    /\ UNCHANGED <<direct, age, target, seen, queue, registry, open, shell>>

----------------------------------------------------------------------------
\* The queue and the collection

\* The attempt at the head of its chain is settled.
Settle(a) == queue' = [queue EXCEPT ![target[a]] = Tail(@)]

\* Mutant: a command that is rejected keeps the chain from going on.
Stuck(a) == UNCHANGED queue

Rejected(a) == Settle(a)

\* Mutant: the task does not wait for the one before it.
AnyInQueue(a) == \E i \in DOMAIN queue[target[a]] : queue[target[a]][i] = a

AtHead(a) == queue[target[a]] # <<>> /\ Head(queue[target[a]]) = a

Ready(a) == stage[a] = "queued" /\ AtHead(a)

\* Mutant: the terminal is resolved from the call again.
ActiveNow(a) == LET t == Resolve(a[1], a[2]) IN IF t = None THEN target[a] ELSE t

Destination(a) == target[a]

\* The task: the terminal must still be connected, and the session take the line.
Start(a) ==
    /\ Ready(a)
    /\ IF Connected(Destination(a)) /\ Destination(a) \in open
       THEN Type(a, Destination(a)) /\ Enter(a, "collect") /\ UNCHANGED <<at, queue>>
       ELSE Answer(a, "error") /\ Rejected(a) /\ UNCHANGED typed
    /\ UNCHANGED <<direct, age, target, seen, registry, open, front, output, ran>>

GraceDue(a) == stage[a] = "collect" /\ a \notin seen /\ since[a] = GraceLimit
TimeoutDue(a) == stage[a] = "collect" /\ since[a] = Timeout(a[1])

\* The start marker has not come in time.
Missing(a) ==
    /\ GraceDue(a)
    /\ Answer(a, "missing") /\ Settle(a)
    /\ UNCHANGED <<direct, age, target, seen, registry, open, shell>>

Expire(a) ==
    /\ TimeoutDue(a)
    /\ Answer(a, "timeout") /\ Settle(a)
    /\ UNCHANGED <<direct, age, target, seen, registry, open, shell>>

\* Mutant: any end marker ends the collection that is under way.
AnyEnd(a, m) == m.mark = "end"

\* What completes the collection of a: its own end marker after its own start.
Completes(a, m) == m.of = a /\ m.mark = "end" /\ a \in seen

\* A marker reaches the terminal's buffer, and whoever collects there.
Deliver(t) ==
    /\ output[t] # <<>>
    /\ LET m == Head(output[t])
           hears == {a \in Attempt : stage[a] = "collect" /\ target[a] = t}
       IN /\ seen' = seen \cup {a \in hears : m.of = a /\ m.mark = "start"}
          /\ IF \E a \in hears : Completes(a, m)
             THEN \E a \in hears : Completes(a, m) /\ Answer(a, "done") /\ Settle(a)
             ELSE UNCHANGED <<at, stage, since, queue>>
    /\ output' = [output EXCEPT ![t] = Tail(@)]
    /\ UNCHANGED <<direct, age, target, registry, open, typed, front, ran>>

----------------------------------------------------------------------------
\* Terminals: focused, reconnected, lost and closed (TerminalPanel)

Focus(t) ==
    /\ context[t] # "absent"
    /\ active' = [active EXCEPT ![Home[t]] = t]
    /\ UNCHANGED <<hub, tools, context, open, shell>>

\* The session ends, and its shell with it. Output that is on its way may arrive.
Hangup(t) ==
    /\ open' = open \ {t}
    /\ typed' = [typed EXCEPT ![t] = <<>>]
    /\ front' = [front EXCEPT ![t] = "prompt"]
    /\ output' \in {output, [output EXCEPT ![t] = <<>>]}
    /\ UNCHANGED ran

\* reconnect() disposes the session first; the context goes on as connected.
\* A session that is lost or disconnected is marked so at once.
Drop(t) ==
    /\ t \in open
    /\ Hangup(t)
    /\ context' \in {context, [context EXCEPT ![t] = "disconnected"]}
    /\ UNCHANGED <<hub, tools, active>>

\* The new session is connected, or could not be.
Reconnected(t) ==
    /\ context[t] # "absent" /\ t \notin open
    /\ \/ open' = open \cup {t} /\ context' = [context EXCEPT ![t] = "connected"]
       \/ UNCHANGED open /\ context' = [context EXCEPT ![t] = "disconnected"]
    /\ UNCHANGED <<hub, tools, active, shell>>

\* The panel is closed: its output buffer goes with its context.
Close(t) ==
    /\ context[t] # "absent"
    /\ Hangup(t)
    /\ context' = [context EXCEPT ![t] = "absent"]
    /\ output' = [output EXCEPT ![t] = <<>>]
    /\ active' = [active EXCEPT ![Home[t]] = IF @ = t THEN None ELSE @]
    /\ UNCHANGED <<hub, tools>>

----------------------------------------------------------------------------
\* External: the shell

Emit(t, a, mark) ==
    output' = IF a[1] \in direct THEN output
              ELSE [output EXCEPT ![t] = Append(@, [of |-> a, mark |-> mark])]

\* A line is read from the prompt, and its start marker is printed.
Run(t) ==
    /\ front[t] = "prompt" /\ typed[t] # <<>>
    /\ front' = [front EXCEPT ![t] = "line"]
    /\ ran' = ran \cup {Head(typed[t])}
    /\ Emit(t, Head(typed[t]), "start")
    /\ UNCHANGED <<hub, tools, registry, open, typed>>

\* It ends, if it ever does.
Finish(t) ==
    /\ front[t] = "line"
    /\ front' = [front EXCEPT ![t] = "prompt"]
    /\ typed' = [typed EXCEPT ![t] = Tail(@)]
    /\ Emit(t, Head(typed[t]), "end")
    /\ UNCHANGED <<hub, tools, registry, open, ran>>

\* The user starts a program, and leaves it.
UserProgram(t) ==
    /\ t \in open
    /\ \/ front[t] = "prompt" /\ typed[t] = <<>> /\ front' = [front EXCEPT ![t] = "user"]
       \/ front[t] = "user" /\ front' = [front EXCEPT ![t] = "prompt"]
    /\ UNCHANGED <<hub, tools, registry, open, typed, output, ran>>

\* Whatever is in front reads the lines that were typed for the shell.
Swallow(t) ==
    /\ \/ front[t] = "user" /\ typed[t] # <<>> /\ typed' = [typed EXCEPT ![t] = <<>>]
       \/ front[t] = "line" /\ Len(typed[t]) > 1 /\ typed' = [typed EXCEPT ![t] = <<Head(@)>>]
    /\ UNCHANGED <<hub, tools, registry, open, front, output, ran>>

----------------------------------------------------------------------------
\* External: the hub, and time

HubDue(c) == at[c] \in Window /\ age[c] = HubDeadline

\* The hub hands the call to a window that has not had it, or gives it up.
FailOver(c) ==
    /\ HubDue(c)
    /\ LET rest == {w \in Window : stage[<<c, w>>] = "new"} IN
       \/ \E w \in rest : Serve(c, w, Resolve(c, w), c \in direct)
       \/ /\ rest = {}
          /\ at' = [at EXCEPT ![c] = "over"]
          /\ UNCHANGED <<age, tools, registry, open, shell>>
    /\ UNCHANGED direct

Due == \/ \E a \in Attempt : PromptDue(a) \/ Ready(a) \/ GraceDue(a) \/ TimeoutDue(a)
       \/ \E c \in Call : HubDue(c)

Tick ==
    /\ ~Due
    /\ \/ \E a \in Attempt : stage[a] \in Waiting
       \/ \E c \in Call : at[c] \in Window
    /\ age' = [c \in Call |-> IF at[c] \in Window THEN age[c] + 1 ELSE age[c]]
    /\ since' = [a \in Attempt |-> IF stage[a] \in Waiting THEN since[a] + 1 ELSE since[a]]
    /\ UNCHANGED <<direct, at, stage, target, seen, queue, registry, open, shell>>

Next ==
    \/ Tick
    \/ \E c \in Call : FailOver(c) \/ \E w \in Window : Invoke(c, w)
    \/ \E a \in Attempt : \/ Continue(a) \/ Cancel(a) \/ Start(a)
                          \/ Missing(a) \/ Expire(a)
    \/ \E t \in Term : \/ Deliver(t) \/ Focus(t) \/ Drop(t) \/ Reconnected(t) \/ Close(t)
                       \/ Run(t) \/ Finish(t) \/ UserProgram(t) \/ Swallow(t)

Spec == Init /\ [][Next]_vars
----------------------------------------------------------------------------
\* Properties

\* The types of the variables, and the limits of the two clocks of an attempt.
TypeOK ==
    /\ direct \subseteq Call /\ at \in [Call -> Window \cup {"new", "over"}] /\ age \in [Call -> 0..HubDeadline]
    /\ stage \in [Attempt -> {"new"} \cup Waiting \cup Answers]
    /\ target \in [Attempt -> Term \cup {None}]
    /\ since \in [Attempt -> Nat] /\ seen \subseteq Attempt
    /\ \A a \in Attempt : /\ stage[a] = "prompt" => since[a] <= ConfirmLimit
                          /\ stage[a] = "collect" => since[a] <= MaxTimeout
    /\ queue \in [Term -> Seq(Attempt)]
    /\ context \in [Term -> {"connected", "disconnected", "absent"}]
    /\ active \in [Window -> Term \cup {None}] /\ open \subseteq Term
    /\ typed \in [Term -> Seq(Attempt)] /\ front \in [Term -> {"prompt", "line", "user"}]
    /\ output \in [Term -> Seq([of : Attempt, mark : {"start", "end"}])]
    /\ ran \subseteq Attempt

\* What is typed into a terminal was confirmed for that terminal, whatever the
\* user has focused, reconnected or closed since the prompt was shown and while
\* the command was waiting in the queue.
RunsWhereConfirmed ==
    \A t \in Term : \A i \in DOMAIN typed[t] : target[typed[t][i]] = t

\* "Serialize per terminal so parallel MCP tool calls cannot interleave wrappers
\* on the same PTY": two commands of a terminal are never collected at once, and
\* the one that is being collected leads the terminal's queue.
OneCollectionPerTerminal ==
    \A a, b \in Attempt :
        stage[a] = "collect" /\ stage[b] \in {"queued", "collect"} /\ target[a] = target[b]
            => AtHead(a) /\ (stage[b] = "collect" => a = b)

\* A command is answered with an exit code or a result only if its own line has
\* run to its end, though output of an earlier command, which was given up by
\* its timeout or its grace and went on running, arrives in the same buffer.
AnswersAreTheirOwn ==
    \A a \in Attempt :
        stage[a] = "done" /\ a[1] \notin direct
            => a \in ran /\ \A t \in Term : a \notin Range(typed[t])

\* No wait of its own costs a call its window: the hub's deadline finds neither
\* an open prompt nor a command that began early enough to use its whole
\* timeout. Only waits that add up make the hub go to another window.
HubOutlivesEachWait ==
    \A c \in Call : HubDue(c) =>
        LET a == <<c, at[c]>> IN
        \/ stage[a] = "queued"
        \/ stage[a] = "collect" /\ age[c] - since[a] >= HubDeadline - MaxTimeout

\* A terminal's queue moves on past commands that fail, hang or lose their
\* terminal: none waits longer than the others of its terminal may take.
QueueWaitIsBounded ==
    \A a \in Attempt :
        stage[a] = "queued" => since[a] <= MaxTimeout * (Cardinality(Call) - 1)

\* What the callers of the commands of terminal t have been told.
Outcome(t) ==
    [a \in Attempt |->
        CASE target[a] # t \/ stage[a] \in {"new", "prompt"} -> "new"
          [] target[a] = t /\ stage[a] \in {"queued", "collect"} -> "accepted"
          [] target[a] = t /\ stage[a] = "done" -> "resolved"
          [] OTHER -> "rejected"]
Serial(t) == INSTANCE SerialCommands
                 WITH Op <- Attempt, todo <- queue[t], outcome <- Outcome(t)

\* enqueueTerminal keeps, for each terminal by itself, what an SFTP session keeps
\* for its commands: a command is answered at once or accepted, and those accepted
\* settle one at a time, in order, once - over timeouts, failures, the hub's second
\* attempts and terminals that go.  (For each t, Serial(t)!Spec.)
ChainsAreSerial ==
    /\ \A t \in Term : Serial(t)!Init
    /\ [][\A t \in Term : [Serial(t)!Next]_(Serial(t)!vars)]_vars

\* Violated. "The hub invoke times out at 120 s and then fails over to another
\* window, re-executing the command. Cap executor timeouts below that so a long
\* command finishes (or fails) here first instead of being run twice."
RunsOnce ==
    \A c \in Call : Cardinality({w \in Window : <<c, w>> \in ran}) <= 1

=============================================================================
