----------------------------- MODULE SftpSession -----------------------------
(***************************************************************************)
(* One JumpServer SFTP session (src/sftp/JumpServerSftpSession.ts): a      *)
(* WebSocket to KoKo, the queue that serializes whole commands, the frames *)
(* of chunked uploads and streamed downloads, the short list cache, and    *)
(* close and dispose at any moment.  KoKo itself is outside the repository *)
(* and is modelled from what the session expects of it: every frame runs   *)
(* on a goroutine of its own, so frames in its hands run in any order.     *)
(*                                                                         *)
(* The extension host runs one macrotask at a time and drains the promise  *)
(* jobs before the next, so events wait for JobsDrained; a caller may be   *)
(* one of those jobs, so calls do not wait.                                *)
(***************************************************************************)
EXTENDS Naturals, Sequences

CONSTANTS
    Op,          \* the calls the callers may make, each at most once
    Commands,    \* what a call may ask for
    Path,        \* remote directories, under every name a caller may use
    Resolve,     \* the absolute path KoKo answers with for a name
    Home,        \* the initial currentPath, '/'
    Slices,      \* data frames of a chunked upload, before its merge frame
    Chunks,      \* binary frames of a download
    MemoryCap,   \* SFTP_DOWNLOAD_MEMORY_CAP_BYTES, in chunks
    ReadMax,     \* maxBytes of readFile, in chunks
    None

Downloads == {"stream", "buffer", "read"}
Mutations == {"mutate", "upload"}

\* mkdir, rename, rm and single-frame uploads differ in nothing the session
\* keeps: each is a "mutate" of the directory it changes.
CommandType == [kind : {"list"} \cup Mutations \cup Downloads,
                path : Path, bypass : BOOLEAN, cwd : BOOLEAN]

ASSUME SessionAssumption ==
    /\ Commands \subseteq CommandType
    /\ Resolve \in [Path -> Path]
    /\ Home \in Path
    /\ Slices \in Nat \ {0}
    /\ Chunks \in Nat
    /\ MemoryCap \in Nat
    /\ ReadMax \in Nat
    /\ None \notin Op \cup Commands \cup Nat

VARIABLES
    phase,       \* of connect(): REST calls, handshake, wait for CONNECT, settled
    socket,      \* this.socket is set
    wire,        \* the WebSocket's own state
    connected,
    disposed,
    cmd,         \* what each call asked for
    state,       \* where each call's promise stands
    queue,       \* accepted commands not settled yet, oldest first (queueTail)
    started,     \* the oldest accepted command has been dispatched
    idle,        \* queueIdle
    pending,     \* the keys of the pending map
    held,        \* commands whose frame waits in sendWhenDrained
    slice,       \* acked slices of an upload
    got,         \* binary chunks kept, or handed to the sink chain
    sunk,        \* sink writes the chain has been through
    sinkError,   \* a sink write failed
    cache,       \* listCache: the version of the directory each entry shows
    cwd          \* currentPath

\* The other end of the socket, and the messages on their way from it.
VARIABLES
    serving,     \* commands with a frame in KoKo's hands
    sent,        \* chunks KoKo has sent of a download
    applied,     \* slices KoKo has written of an upload
    merged,      \* uploads whose write handle KoKo has closed
    remote,      \* version of each remote directory
    greeted,     \* CONNECT has been sent
    replies

\* History, for the properties only.
VARIABLES
    seen,        \* version of the directory a list returned or a mutation made
    called,      \* calls made before each call
    done,        \* calls that had already succeeded when each was made
    hits         \* lists answered from the cache

client == <<phase, socket, wire, connected, disposed, cmd, state, queue, started,
            idle, pending, held, slice, got, sunk, sinkError, cache, cwd>>
server == <<serving, sent, applied, merged, remote, greeted, replies>>
history == <<seen, called, done, hits>>
vars == <<client, server, history>>

\* Variables by what touches them together.
conn == <<phase, socket, wire, connected, disposed>>
calls == <<cmd, called, done, hits>>
progress == <<slice, got, sunk, sinkError>>
remoteSide == <<sent, applied, merged, remote, greeted>>

Settled == {"resolved", "rejected"}
Alive == socket /\ connected
\* No promise job is waiting: a settled command's turn has been passed on, an
\* acked slice has been followed by the next frame.
JobsDrained == idle \/ (started /\ state[Head(queue)] # "acked")
Dir(o) == Resolve[cmd[o].path]
EmptyCache == [p \in Path |-> None]

Init ==
    /\ phase = "rest" /\ wire = "none"
    /\ socket = FALSE /\ connected = FALSE /\ disposed = FALSE
    /\ cmd = [o \in Op |-> None]
    /\ state = [o \in Op |-> "new"]
    /\ queue = <<>> /\ started = FALSE /\ idle = TRUE
    /\ pending = {} /\ held = {}
    /\ slice = [o \in Op |-> 0] /\ got = [o \in Op |-> 0]
    /\ sunk = [o \in Op |-> 0] /\ sinkError = [o \in Op |-> FALSE]
    /\ cache = EmptyCache /\ cwd = Home
    /\ serving = {} /\ merged = {} /\ greeted = FALSE /\ replies = <<>>
    /\ sent = [o \in Op |-> 0] /\ applied = [o \in Op |-> 0]
    /\ remote = [p \in Path |-> 0]
    /\ seen = [o \in Op |-> 0]
    /\ called = [o \in Op |-> {}] /\ done = [o \in Op |-> {}] /\ hits = {}

----------------------------------------------------------------------------
\* Frames and the queue

\* The frame of o goes out now, or waits for the socket's buffer to drain.
SendWhenDrained(o) ==
    \/ serving' = serving \cup {o} /\ UNCHANGED held
    \/ held' = held \cup {o} /\ UNCHANGED serving

\* The oldest command is done with; its promise jobs will pass the turn on.
Settle(o, result) ==
    /\ state' = [state EXCEPT ![o] = result]
    /\ queue' = Tail(queue)
    /\ started' = FALSE

\* Mutant: a new command is put before the ones that wait.
EnqueueInFront(o) ==
    /\ idle' = FALSE
    /\ IF idle /\ Alive
       THEN /\ state' = [state EXCEPT ![o] = "running"]
            /\ queue' = Append(queue, o)
            /\ started' = TRUE
            /\ pending' = pending \cup {o}
            /\ SendWhenDrained(o)
       ELSE /\ state' = [state EXCEPT ![o] = IF idle THEN "rejected" ELSE "queued"]
            /\ queue' = IF idle THEN queue
                        ELSE IF started THEN <<Head(queue), o>> \o Tail(queue)
                        ELSE <<o>> \o queue
            /\ UNCHANGED <<started, pending, held, serving>>

\* enqueue: an idle queue dispatches at once, and the dispatch itself fails
\* when the session has closed; otherwise the command waits for its turn.
Enqueue(o) ==
    /\ idle' = FALSE
    /\ IF idle /\ Alive
       THEN /\ state' = [state EXCEPT ![o] = "running"]
            /\ queue' = Append(queue, o)
            /\ started' = TRUE
            /\ pending' = pending \cup {o}
            /\ SendWhenDrained(o)
       ELSE /\ state' = [state EXCEPT ![o] = IF idle THEN "rejected" ELSE "queued"]
            /\ queue' = IF idle THEN queue ELSE Append(queue, o)
            /\ UNCHANGED <<started, pending, held, serving>>

\* The promise jobs after a command settled: the next one is dispatched, or
\* fails because the session closed while it waited, or the queue is idle.
PassTurn ==
    /\ ~idle /\ ~started
    /\ IF queue = <<>>
       THEN idle' = TRUE /\ UNCHANGED <<state, queue, started, pending, held, serving>>
       ELSE /\ UNCHANGED idle
            /\ IF Alive
               THEN /\ state' = [state EXCEPT ![Head(queue)] = "running"]
                    /\ started' = TRUE
                    /\ pending' = pending \cup {Head(queue)}
                    /\ SendWhenDrained(Head(queue))
                    /\ UNCHANGED queue
               ELSE Settle(Head(queue), "rejected") /\ UNCHANGED <<pending, held, serving>>
    /\ UNCHANGED <<conn, calls, progress, cache, cwd, remoteSide, replies, seen>>

----------------------------------------------------------------------------
\* The calls

\* Whether the poll timer still has something to send for o.
HeldIsWanted(o) == o \in pending /\ socket

\* The poll timer of a held frame: the command is gone, or the socket has
\* drained, or SFTP_DRAIN_TIMEOUT_MS is over. A tick that finds the socket
\* still full changes nothing.
PollHeld(o) ==
    /\ o \in held /\ JobsDrained
    /\ held' = held \ {o}
    /\ \/ /\ ~HeldIsWanted(o)
          /\ UNCHANGED <<state, queue, started, pending, serving>>
       \/ /\ HeldIsWanted(o)
          /\ serving' = serving \cup {o}
          /\ UNCHANGED <<state, queue, started, pending>>
       \/ /\ HeldIsWanted(o)
          /\ pending' = pending \ {o}
          /\ Settle(o, "rejected")
          /\ UNCHANGED serving
    /\ UNCHANGED <<conn, calls, idle, progress, cache, cwd, remoteSide, replies, seen>>

\* What a call records about the calls made before it.
Issue(o, c) ==
    /\ cmd' = [cmd EXCEPT ![o] = c]
    /\ called' = [called EXCEPT ![o] = {x \in Op : state[x] # "new"}]
    /\ done' = [done EXCEPT ![o] = {x \in Op : state[x] = "resolved"}]

\* listPath (listDirectory, stat, realpath): a fresh cached listing answers
\* at once, dead session or not; the rest goes through sendCommand.
CallList(o, c) ==
    /\ c.kind = "list"
    /\ Issue(o, c)
    /\ IF ~c.bypass /\ cache[c.path] # None
       THEN /\ state' = [state EXCEPT ![o] = "resolved"]
            /\ seen' = [seen EXCEPT ![o] = cache[c.path]]
            /\ hits' = hits \cup {o}
            /\ cwd' = IF c.cwd THEN Resolve[c.path] ELSE cwd
            /\ UNCHANGED <<queue, started, idle, pending, held, serving>>
       ELSE /\ IF Alive
               THEN Enqueue(o)
               ELSE /\ state' = [state EXCEPT ![o] = "rejected"]
                    /\ UNCHANGED <<queue, started, idle, pending, held, serving>>
            /\ UNCHANGED <<cwd, seen, hits>>
    /\ UNCHANGED <<conn, progress, cache, remoteSide, replies>>

\* mkdir, rename, deleteEntry and uploadBytes clear the list cache, whether
\* they are accepted or not. A chunked upload is queued without the check
\* that sendCommand makes: its first dispatch makes it.
CallMutation(o, c) ==
    /\ c.kind \in Mutations
    /\ Issue(o, c)
    /\ cache' = EmptyCache
    /\ IF Alive \/ c.kind = "upload"
       THEN Enqueue(o)
       ELSE /\ state' = [state EXCEPT ![o] = "rejected"]
            /\ UNCHANGED <<queue, started, idle, pending, held, serving>>
    /\ UNCHANGED <<conn, progress, cwd, remoteSide, replies, seen, hits>>

\* downloadFile, downloadFileToWriter and readFile.
CallDownload(o, c) ==
    /\ c.kind \in Downloads
    /\ Issue(o, c)
    /\ IF Alive
       THEN Enqueue(o)
       ELSE /\ state' = [state EXCEPT ![o] = "rejected"]
            /\ UNCHANGED <<queue, started, idle, pending, held, serving>>
    /\ UNCHANGED <<conn, progress, cache, cwd, remoteSide, replies, seen, hits>>

Call(o) == /\ state[o] = "new"
           /\ \E c \in Commands :
                 CallList(o, c) \/ CallMutation(o, c) \/ CallDownload(o, c)

\* invalidateListCache, which an explicit Refresh calls.
InvalidateListCache ==
    /\ cache # EmptyCache
    /\ cache' = EmptyCache
    /\ UNCHANGED <<conn, calls, state, queue, started, idle, pending, held,
                   progress, cwd, server, seen>>

\* An entry grows older than SFTP_LIST_CACHE_TTL_MS: no lookup takes it.
ExpireCache(p) ==
    /\ cache[p] # None
    /\ cache' = [cache EXCEPT ![p] = None]
    /\ UNCHANGED <<conn, calls, state, queue, started, idle, pending, held,
                   progress, cwd, server, seen>>

----------------------------------------------------------------------------
\* Messages from KoKo

\* listPath, once KoKo has answered: the listing is cached under the name
\* that was asked for and under the one it resolved to.
FillCache(o, version) ==
    cache' = [cache EXCEPT ![cmd[o].path] = version, ![Dir(o)] = version]

\* Mutant: the acked slice of an upload is taken for the whole of it.
UploadDoneAfterSlice(o) == FALSE

\* A data frame of o was acked, and its upload has frames left.
MoreFrames(o) == cmd[o].kind = "upload" /\ slice[o] < Slices

\* SFTP_DATA for a pending command: an upload has its next frame to send, a
\* streamed download waits for its sink chain, everything else resolves.
Answered(o, version) ==
    /\ pending' = pending \ {o}
    /\ \/ /\ MoreFrames(o)
          /\ state' = [state EXCEPT ![o] = "acked"]
          /\ slice' = [slice EXCEPT ![o] = @ + 1]
          /\ UNCHANGED <<queue, started, cache, cwd, seen>>
       \/ /\ cmd[o].kind = "stream" /\ got[o] > 0
          /\ state' = [state EXCEPT ![o] = "draining"]
          /\ UNCHANGED <<queue, started, slice, cache, cwd, seen>>
       \/ /\ ~MoreFrames(o) /\ ~(cmd[o].kind = "stream" /\ got[o] > 0)
          /\ Settle(o, "resolved")
          /\ seen' = [seen EXCEPT ![o] = version]
          /\ IF cmd[o].kind = "list"
             THEN /\ FillCache(o, version)
                  /\ cwd' = IF cmd[o].cwd THEN Dir(o) ELSE cwd
             ELSE UNCHANGED <<cache, cwd>>
          /\ UNCHANGED slice
    /\ UNCHANGED <<got, sunk, sinkError, held, serving>>

\* The loop of uploadBytes after an ack: the next slice, or the merge frame
\* that closes KoKo's write handle, unless the session closed meanwhile.
ContinueUpload(o) ==
    /\ state[o] = "acked"
    /\ IF Alive
       THEN /\ state' = [state EXCEPT ![o] = "running"]
            /\ pending' = pending \cup {o}
            /\ SendWhenDrained(o)
            /\ UNCHANGED <<queue, started>>
       ELSE Settle(o, "rejected") /\ UNCHANGED <<pending, held, serving>>
    /\ UNCHANGED <<conn, calls, idle, progress, cache, cwd, remoteSide, replies, seen>>

\* SFTP_BINARY for a pending download: handed to the sink chain, kept up to
\* maxBytes, or kept until the in-memory limit rejects the command.
Binary(o) ==
    /\ IF cmd[o].kind = "buffer" /\ got[o] + 1 > MemoryCap
       THEN /\ pending' = pending \ {o}
            /\ Settle(o, "rejected")
            /\ UNCHANGED got
       ELSE /\ got' = [got EXCEPT ![o] =
                         IF cmd[o].kind = "read" /\ @ = ReadMax THEN @ ELSE @ + 1]
            /\ UNCHANGED <<pending, state, queue, started>>
    /\ UNCHANGED <<slice, sunk, sinkError, held, serving, cache, cwd, seen>>

\* handleSocketMessage, for the messages that name a command: one that is no
\* longer pending is ignored, whatever it says.
ReceiveForCommand ==
    /\ wire = "open" /\ JobsDrained /\ replies # <<>>
    /\ replies' = Tail(replies)
    /\ LET m == Head(replies) IN
       \/ /\ m.op \notin pending
          /\ UNCHANGED <<state, queue, started, pending, held, serving,
                         progress, cache, cwd, seen>>
       \/ /\ m.op \in pending /\ m.type = "err"
          /\ pending' = pending \ {m.op}
          /\ Settle(m.op, "rejected")
          /\ UNCHANGED <<held, serving, progress, cache, cwd, seen>>
       \/ m.op \in pending /\ m.type = "binary" /\ Binary(m.op)
       \/ m.op \in pending /\ m.type = "data" /\ Answered(m.op, m.version)
    /\ UNCHANGED <<conn, calls, idle, remoteSide>>

\* One link of the sink chain: the writer takes the chunk or fails, and after
\* a failure the rest is skipped. The chain runs on after the command settled.
WriteSink(o) ==
    /\ JobsDrained
    /\ cmd[o] # None /\ cmd[o].kind = "stream" /\ sunk[o] < got[o]
    /\ sunk' = [sunk EXCEPT ![o] = @ + 1]
    /\ \/ UNCHANGED sinkError
       \/ sinkError' = [sinkError EXCEPT ![o] = TRUE]
    /\ UNCHANGED <<conn, calls, state, queue, started, idle, pending, held,
                   slice, got, cache, cwd, server, seen>>

\* Mutant: a streamed download resolves as soon as KoKo has sent it all.
SinkNotAwaited(o) == TRUE

SinkDry(o) == sunk[o] = got[o]

\* The chain has run dry after the final frame: the command settles.
FinishSink(o) ==
    /\ state[o] = "draining" /\ SinkDry(o)
    /\ Settle(o, IF sinkError[o] THEN "rejected" ELSE "resolved")
    /\ UNCHANGED <<conn, calls, idle, pending, held, progress, cache, cwd,
                   server, seen>>

----------------------------------------------------------------------------
\* Connect, close and dispose

\* Mutant: the pending map is cleared and nobody is told.
DropAll ==
    /\ pending' = {}
    /\ UNCHANGED <<state, queue, started>>

\* rejectAll: every command in the pending map fails.
RejectAll ==
    /\ state' = [o \in Op |-> IF o \in pending THEN "rejected" ELSE state[o]]
    /\ queue' = IF queue # <<>> /\ Head(queue) \in pending THEN Tail(queue) ELSE queue
    /\ started' = (started /\ Head(queue) \notin pending)
    /\ pending' = {}

\* The REST half of connect(): it fails, or finds the session disposed, or
\* goes on to open the socket.
FinishRest ==
    /\ phase = "rest"
    /\ phase' \in IF disposed THEN {"rejected"} ELSE {"rejected", "opening"}
    /\ UNCHANGED <<socket, wire, connected, disposed, calls, state, queue, started,
                   idle, pending, held, progress, cache, cwd, server, seen>>

\* Mutant: a socket that arrives after dispose() is bound all the same.
AdoptAlways == TRUE

\* Whether connect() keeps the socket that has just opened.
Adopts == ~disposed

\* The handshake ends: no socket, a socket for a session that was disposed
\* meanwhile and is closed here, or one to bind and wait for CONNECT on.
FinishHandshake ==
    /\ phase = "opening"
    /\ \/ phase' = "rejected" /\ UNCHANGED <<socket, wire>>
       \/ /\ ~Adopts
          /\ phase' = "rejected" /\ wire' = "closing" /\ UNCHANGED socket
       \/ /\ Adopts
          /\ phase' = "waiting" /\ wire' = "open" /\ socket' = TRUE
    /\ UNCHANGED <<connected, disposed, calls, state, queue, started, idle,
                   pending, held, progress, cache, cwd, server, seen>>

\* CONNECT: the session is usable, and connect() resolves if it still waits.
ReceiveConnect ==
    /\ wire = "open" /\ JobsDrained /\ ~greeted
    /\ greeted' = TRUE
    /\ connected' = TRUE
    /\ phase' = IF phase = "waiting" THEN "resolved" ELSE phase
    /\ UNCHANGED <<socket, wire, disposed, calls, state, queue, started, idle, pending,
                   held, progress, cache, cwd, serving, sent, applied, merged,
                   remote, replies, seen>>

HandleClose ==
    /\ connected' = FALSE
    /\ cache' = EmptyCache
    /\ phase' = IF phase = "waiting" THEN "rejected" ELSE phase
    /\ RejectAll

\* The socket's close event, also the late one after terminate(); an 'error'
\* event is followed by it and does the same.
SocketClosed ==
    /\ wire \in {"open", "closing"} /\ JobsDrained
    /\ wire' = "closed"
    /\ replies' = <<>>
    /\ HandleClose
    /\ UNCHANGED <<socket, disposed, calls, idle, held, progress, cwd, serving,
                   remoteSide, seen>>

\* A CLOSE or ERROR message, or one that does not parse: the session is
\* closed, its socket is not.
SessionClosed ==
    /\ wire = "open" /\ JobsDrained
    /\ HandleClose
    /\ UNCHANGED <<socket, wire, disposed, calls, idle, held, progress, cwd,
                   server, seen>>

\* dispose(): the list cache is the one thing it leaves as it was.
Dispose ==
    /\ ~disposed
    /\ disposed' = TRUE
    /\ phase' = IF phase = "waiting" THEN "rejected" ELSE phase
    /\ RejectAll
    /\ socket' = FALSE /\ connected' = FALSE
    /\ wire' = IF socket /\ wire = "open" THEN "closing" ELSE wire
    /\ UNCHANGED <<calls, idle, held, progress, cache, cwd, server, seen>>

----------------------------------------------------------------------------
\* KoKo (external): it runs any frame it has, in any order.

Reply(m) == replies' = IF wire = "open" THEN Append(replies, m) ELSE replies

Fail(o) ==
    /\ serving' = serving \ {o}
    /\ Reply([op |-> o, type |-> "err", version |-> 0])
    /\ UNCHANGED <<sent, applied, merged, remote>>

Execute(o) ==
    LET c == cmd[o]
        version == IF \/ c.kind = "mutate"
                      \/ c.kind = "upload" /\ slice[o] < Slices
                   THEN remote[Dir(o)] + 1 ELSE remote[Dir(o)]
        more == c.kind \in Downloads /\ sent[o] < Chunks
    IN /\ remote' = [remote EXCEPT ![Dir(o)] = version]
       /\ serving' = IF more THEN serving ELSE serving \ {o}
       /\ sent' = IF more THEN [sent EXCEPT ![o] = @ + 1] ELSE sent
       /\ applied' = IF c.kind = "upload" /\ slice[o] < Slices
                     THEN [applied EXCEPT ![o] = @ + 1] ELSE applied
       /\ merged' = IF c.kind = "upload" /\ slice[o] = Slices
                    THEN merged \cup {o} ELSE merged
       /\ Reply([op |-> o, type |-> IF more THEN "binary" ELSE "data",
                 version |-> version])

KokoRuns(o) ==
    /\ o \in serving
    /\ Fail(o) \/ Execute(o)
    /\ UNCHANGED <<client, greeted, history>>

----------------------------------------------------------------------------

Connecting == FinishRest \/ FinishHandshake \/ ReceiveConnect
Closing == SocketClosed \/ SessionClosed \/ Dispose

Next ==
    \/ Connecting
    \/ Closing
    \/ PassTurn
    \/ ReceiveForCommand
    \/ InvalidateListCache
    \/ \E p \in Path : ExpireCache(p)
    \/ \E o \in Op : Call(o) \/ PollHeld(o) \/ ContinueUpload(o)
                    \/ WriteSink(o) \/ FinishSink(o) \/ KokoRuns(o)

Spec == Init /\ [][Next]_vars

\* The event loop runs every promise job, timer and message that is ready; the
\* writer of a download takes or refuses each chunk; KoKo answers every frame
\* it has, or closes. Nothing makes callers call, caches expire or sockets die.
Fairness ==
    /\ WF_vars(Connecting)
    /\ WF_vars(PassTurn)
    /\ WF_vars(ReceiveForCommand)
    /\ \A o \in Op : /\ WF_vars(PollHeld(o))
                     /\ WF_vars(ContinueUpload(o))
                     /\ WF_vars(WriteSink(o))
                     /\ WF_vars(FinishSink(o))
                     /\ WF_vars(KokoRuns(o))

FairSpec == Spec /\ Fairness

----------------------------------------------------------------------------
\* Properties

States == {"new", "queued", "running", "acked", "draining"} \cup Settled
Message == [op : Op, type : {"err", "binary", "data"}, version : Nat]

\* The types of the session's state and of what it shares with KoKo.
TypeOK ==
    /\ phase \in {"rest", "opening", "waiting", "resolved", "rejected"}
    /\ wire \in {"none", "open", "closing", "closed"}
    /\ socket \in BOOLEAN /\ connected \in BOOLEAN /\ disposed \in BOOLEAN
    /\ started \in BOOLEAN /\ idle \in BOOLEAN /\ greeted \in BOOLEAN
    /\ cmd \in [Op -> Commands \cup {None}]
    /\ state \in [Op -> States]
    /\ queue \in Seq(Op)
    /\ pending \subseteq Op /\ held \subseteq Op /\ serving \subseteq Op /\ merged \subseteq Op
    /\ slice \in [Op -> 0..Slices] /\ got \in [Op -> Nat] /\ sunk \in [Op -> Nat]
    /\ sinkError \in [Op -> BOOLEAN]
    /\ cache \in [Path -> Nat \cup {None}] /\ cwd \in Path
    /\ sent \in [Op -> Nat] /\ applied \in [Op -> Nat]
    /\ remote \in [Path -> Nat] /\ replies \in Seq(Message)
    /\ seen \in [Op -> Nat] /\ hits \subseteq Op
    /\ called \in [Op -> SUBSET Op] /\ done \in [Op -> SUBSET Op]

\* The command that the session is running, if any.
Runs(o) == started /\ queue # <<>> /\ o = Head(queue)

\* Whole commands are serialized: KoKo, which runs frames in any order, never
\* has a frame of a command other than the one that runs, except what is left
\* of a command the session has given up on (the in-memory limit, a close).
OneCommandAtKoko ==
    /\ \A o \in pending : Runs(o)
    /\ \A o \in serving : Runs(o) \/ state[o] = "rejected"

\* Calls take effect in the order they were made: a listing that was fetched
\* shows every change whose call came before it, also when that change was
\* still queued or running when the listing was asked for.
FetchedListsSeeEarlierWrites ==
    \A l, m \in Op :
        /\ state[l] = "resolved" /\ cmd[l].kind = "list" /\ l \notin hits
        /\ m \in called[l]
        /\ state[m] = "resolved" /\ cmd[m].kind \in Mutations
        /\ Dir(l) = Dir(m)
        => seen[l] >= seen[m]

\* What the list cache promises with the comment at invalidateListCache: a
\* listing shows every change that had already succeeded when it was asked for.
ListsSeeFinishedWrites ==
    \A l, m \in Op :
        /\ state[l] = "resolved" /\ cmd[l].kind = "list"
        /\ m \in done[l] /\ cmd[m].kind \in Mutations
        /\ Dir(l) = Dir(m)
        => seen[l] >= seen[m]

\* KoKo's write handle is closed over a complete file only: after a slice that
\* failed, stalled or was cut off by a close no merge frame is sent, and a
\* chunked upload that succeeds has been merged.
MergedUploadsAreWhole ==
    \A o \in Op :
        /\ o \in merged => applied[o] = Slices
        /\ state[o] = "resolved" /\ cmd[o].kind = "upload" => o \in merged

\* A download that succeeds is not short: every chunk that KoKo streams for it is
\* through the writer without an error, or kept in memory, or kept up to maxBytes.
\* Chunks are counted; whether KoKo reads them from one version of the file is its
\* own affair.
DownloadsAreWhole ==
    \A o \in Op :
        state[o] = "resolved" =>
            CASE cmd[o].kind = "stream" -> sunk[o] = Chunks /\ ~sinkError[o]
              [] cmd[o].kind = "buffer" -> got[o] = Chunks
              [] cmd[o].kind = "read"   -> got[o] = IF Chunks < ReadMax THEN Chunks ELSE ReadMax
              [] OTHER -> TRUE

\* However dispose() and the steps of connect() interleave, a disposed session
\* leaves no socket open once connect() has settled.
NoSocketLeft ==
    disposed /\ phase \in Settled => wire # "open"

\* After dispose() no frame goes out: not a held one, not a queued command,
\* not the next slice of an upload.
NothingSentAfterDispose ==
    [][disposed => serving' \subseteq serving]_vars

\* Accepted commands settle in the order of acceptance, one by one.
Serial == INSTANCE SerialCommands WITH
    todo <- queue,
    outcome <- [o \in Op |-> IF state[o] \in Settled \cup {"new"} THEN state[o]
                             ELSE "accepted"]
ImplementsSerialCommands == Serial!Spec

\* What answers the frame that o has out: it waits for the buffer to drain, KoKo
\* has it, or the message that ends it is on its way.
Awaited(o) ==
    \/ o \in held \cup serving
    \/ \E i \in 1..Len(replies) : replies[i].op = o /\ replies[i].type # "binary"

\* No caller is forgotten: what is queued stands in a queue that is under way, and
\* the command in front of it is in the pending map with something to wait for on
\* an open socket, has its next frame to send, or chunks for its writer.
NobodyIsForgotten ==
    \A o \in Op :
        /\ state[o] = "queued" => ~idle /\ \E i \in 1..Len(queue) : queue[i] = o
        /\ state[o] \in {"running", "acked", "draining"} => Runs(o)
        /\ state[o] = "running" => o \in pending /\ wire = "open" /\ Awaited(o)
        /\ state[o] = "draining" => sunk[o] <= got[o]

\* Every call settles, provided KoKo answers: no order of frames, failures,
\* closes, stalls and disposes leaves a caller waiting for ever.
EveryCallSettles ==
    \A o \in Op : state[o] # "new" ~> state[o] \in Settled

=============================================================================
