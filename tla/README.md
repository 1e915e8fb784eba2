# A verification project for AT JumpServer Terminal

AT JumpServer Terminal is a VS Code extension: terminals and a file tree on the
assets of a JumpServer bastion, spoken to over REST and over WebSockets to its
gateway KoKo, and a local bridge that offers both to MCP agents. Everything runs
in one extension host, so there are no threads; what is hard is what may happen
at each `await`, each timer and each socket event. The modules here model that,
translated from the code under `src/src/`. `PROJECT.json` says for each
definition which lines it stands for.

## 1. The system

| Part | State it keeps | Operations | Talks to |
|---|---|---|---|
| Terminal session (`jumpserver/JumpServerSession.ts`) | socket, `unavailableReason`, heartbeat and pong timers, `disposed` | `connect`, `write`, `resize`, `dispose`, heartbeat | REST client, KoKo; reports status and output to its panel |
| Terminal panel (`webview/TerminalPanel.ts`) | the current session, `connectionGeneration`, `connected`, idle timer | `connect`, `reconnect`, `disconnect`, idle disconnect, dispose | its sessions, the registry, the webview |
| Terminal context registry (`terminal/TerminalContext.ts`) | contexts by terminal id, the active one | `setActive`, `markConnected`, `markDisconnected`, `clearIfActive` | fires events to `extension.ts`; read by the agent tools |
| SFTP session (`sftp/JumpServerSftpSession.ts`) | socket, command queue, pending map, list cache, current path | `connect`, listings, `stat`, changes, up- and downloads, `dispose` | KoKo, which runs each frame on a goroutine of its own |
| SFTP manager (`sftp/JumpServerSftpManager.ts`) | one connection per terminal (session, connect in flight, root), the active terminal | every file operation, `openAsset`, `selectTerminal`, `removeTerminal`, `dispose` | SFTP sessions; called by the Files commands, the edit sessions and the agent tools |
| SFTP edit sessions (`sftp/SftpEditSessionManager.ts`) | session per remote file: base stat, sync state, debounce timer, upload task | open, save, close, dispose | the manager, the editor, dialogs |
| Wiring (`extension.ts`) | which objects exist | commands and listeners | all of the above |
| Agent tools (`agent/*`) | a queue per terminal, an output buffer per terminal | run a command and collect its output, SFTP tools, confirmation | registry, manager, bridge |
| Bridge (`mcp/BridgeServer.ts`, `mcpRuntime.ts`) | HTTP server, registry record, heartbeat, token | start, sweep, publish, heartbeat, answer requests, dispose | the hub process, files shared with other windows |
| REST client and pool (`jumpserver/JumpServerClient.ts`, `JumpServerClientPool.ts`) | bearer and its login, organization, details and their fetches, endpoint; one client per bastion | every REST call, paging, connection tokens | JumpServer; shared by connects, prefetches, refreshes, validation |
| Web session (`JumpServerClient.ts`, `webSessionStore.ts`) | cookie jar, restore, background login, warmup | `ensureWebSession`, `openKokoSocket` | JumpServer's login pages, KoKo, SecretStorage |
| Configuration (`config/JumpServerConfigManager.ts`) | memoized lists over globalState, passwords | read and replace lists, delete a bastion, migrate | VS Code storage |

The rest (trees, previews, rendering, policy and safety classifiers, hub
installation, helpers) keeps no state of its own that concurrency could disturb;
`PROJECT.json` lists it with the reasons for leaving it out.

### What is hard, and what makes each part correct

- *SFTP session.* Callers are concurrent and KoKo gives no order, so the session
  serializes whole commands with a promise chain. A command may end by its answer,
  an error frame, a stall, a limit, a close or a dispose, at any stage (queued,
  held back by a full socket, uploading slice by slice, writing to a slow disk).
  Correct means: no two commands at KoKo at once, callers hear of every end once
  and in order, an upload is merged only when whole, a download is reported only
  when whole, a listing shows the changes made before it, and nothing is sent or
  left open after the end.
- *SFTP manager.* One lazily connected session per terminal is shared by calls
  that look it up after dialogs and file reads, while terminals come, gain focus
  and go. Correct means: every websocket has an owner or is about to be closed, no
  call acts for a terminal that is gone or joins a connect that is over, every call
  ends, and the view, the registry and the manager mean the same terminal.
- *SFTP edit.* Saves come in during confirmation, conflict check and upload; the
  remote file changes under the session; the editor closes with all that under way.
  Correct means: a shown "synced" is true, each save is uploaded or reported, a
  change the check has seen is not overwritten unasked (as far as sizes tell), and
  no save is lost.
- *Terminal.* Sessions of older generations deliver late outcomes; a peer may fall
  silent without a close. Correct means: the panel and the registry say the truth
  of the session that writes go to, a silent peer is noticed, a loss is told once,
  and no timer or socket outlives its session.
- *Agent tools.* A tool call waits for a prompt, for its terminal's queue and for
  output that it recognises by markers, while users focus, close and reconnect
  terminals, commands hang, and the hub counts the time. Correct means: a command
  runs where it was confirmed, commands of a terminal do not overlap, an answer is
  the command's own, every wait ends, and the hub has no reason to run it again.
- *Bridge.* Windows share a directory of records and the ports and pids of the
  machine; one may die, or be disposed, at any await of its start. Correct means:
  a record that is there is served, records of the dead are swept (those that can be
  read and removed) and those of the living are not, a record stays fresh, a call of
  the hub runs only in the window it was meant for, and every call and every dispose
  ends.
- *REST client.* One client serves everything of a bastion; an expired bearer is
  met by several calls at once, and the organization is a field that calls switch
  and restore around their awaits. Correct means: no caller sees an expiry, fetches
  are shared and fail together, a call that nothing disturbs keeps to its
  organization, a list that is said to be whole is, and every call ends.
- *Web session.* A cookie may come from the store, a background login or the
  warmup of another connect, and may be dead. Correct means: a dead one never makes
  a connect fail, logins and warmups are shared, and none is waited for in vain.
- *Configuration.* Lists are replaced as a whole, around awaits, with a memo that
  is dropped afterwards; an update may be rejected, and the migration cut off by a
  crash. Correct means: the memo catches up with the store, a call that runs alone
  touches the rows of its own bastion only, whatever came before, and the password is
  never lost.

## 2. Modules

    SerialCommands      what callers are promised of commands    <-- implemented by --+
    SftpSession         one SFTP session and KoKo   -----------------------------------+
                        (so does AgentTools, terminal by terminal)   ------------------+
      MCSftpSession, SftpSession_proofs
    SftpManager         sessions per terminal, registry, wiring, calls
      MCSftpManager, SftpManager_proofs
    SftpEdit            editing one remote file
      MCSftpEdit, SftpEdit_proofs
    TerminalSession     terminal sessions, a library of steps
    TerminalPanel       a panel over its sessions (EXTENDS TerminalSession)
      MCTerminalPanel, TerminalPanel_proofs
    AgentTools          the agents' terminal tools, the shells and the hub
      MCAgentTools, AgentTools_proofs
    ConfigStore         the lists of the memento, their writers, migration, crashes
      MCConfigStore, ConfigStore_proofs
    RestClient          bearer, organization, details: the calls of one client
      MCRestClient (with AssetListing), JumpServerClient_proofs
    AssetListing        the paging behind a listing, as functions
    WebSession          the cookie that opens KoKo's sockets
      MCWebSession, JumpServerClient_proofs
    Bridge              windows, registry records, ports, and the hub's calls
      MCBridge, Bridge_proofs

The components meet at calls that return or fail: `connect()` of `TerminalSession`
and `SftpSession` awaits what `RestClient` and `WebSession` model, and the tool
that `Bridge` invokes is an `Invoke` of `AgentTools`. Each module takes the other
side as an answer that may come late or not at all, and promises that it settles.

**Time and atomicity.** The extension host runs one macrotask at a time and all
promise jobs before the next. An action is what runs between two awaits. Promise
jobs that the code has made ready are actions too, and the conjunct `JobsDrained`
keeps timers, messages and user events from running before them. Timers are flags
that are armed and fire; time itself is not modelled, except that the modification
time of the remote file may or may not move with a write, in `AgentTools`, which is
about durations and counts ticks, and in `Bridge`, which counts ticks of its heartbeat.

**SftpSession.** `queue`, `started` and `idle` are the promise chain `queueTail`
and `queueIdle`: `Enqueue` runs a task at once on an idle queue, else it waits;
`PassTurn` is the turn of the next task, or the queue becoming idle again.
`pending` is the map of commands by id, `held` the frames that `sendWhenDrained`
polls for. The life of a call is `state`: `new`, `queued`, `running`, `acked` (a
slice was acknowledged), `draining` (the final frame is there, the writer is not
done), `resolved`, `rejected`. `FinishRest`, `FinishHandshake` and `ReceiveConnect`
are the awaits of `connect()`. mkdir, rename, rm and uploads of one frame differ in
nothing that the session keeps and are one kind of call, "mutate"; file contents
are version numbers of a directory. KoKo (external) executes or fails any frame it
has, in any order.

**SerialCommands** is the abstract specification of that queue: a call is answered
at once or accepted, and accepted calls settle one at a time, in order, once.
`SftpSession` implements it under `todo <- queue`, and `AgentTools` implements it once
for each terminal `t` (`Serial(t)`): a caller of a terminal that has been confirmed is
`accepted`, and its answer, an error before it is typed or a result, settles it.

**SftpManager.** A call is a record of where it awaits and of what it has looked
up. A session is named by the terminal and the call that made it, which is unique
because terminal ids are random and no call runs twice. `cell`, `pending` and
`doomed` are `connection.session`, `connection.sessionPromise` and the `dispose()`
that `disposeConnection` attaches to a connect in flight. What a session does in
itself is reduced to being made, connected, failed or closed. The phase "root" of a
first listing is `realpath('.')`, which the session answers from memory: it sends
nothing and cannot fail, but the connection is asked for its session once more after it.

**SftpEdit.** One remote file, and calls of `openRemoteFile` in a row or
overlapping. `drain` is where `drainUploadQueue` awaits; the stat of the conflict
check goes through the list cache of the SFTP session, which may be stale. Texts
are numbers with a size each, so that equal sizes with different texts exist, of the
user's and of somebody else's. `knows` remembers which texts the user has seen: those
the cache file was opened with, and those that a dialog has asked about.

**TerminalSession / TerminalPanel.** Sessions are indexed by the generation they
were made in and live on after the panel has dropped them. Operators of
`TerminalSession` change a session only; `TerminalPanel` conjoins what the
session's event does to the panel (`Lost`, `Connected`, `NotConnected`).

**AgentTools.** An attempt `<<c, w>>` is a tool call as window `w` serves it; its
`stage` is where it awaits, or how it was answered. `Invoke` is the bridge and the
part of a tool up to its first wait: `resolveTerminal` looks up the active or the
named context (`Resolve`), and `authorizeAssetCommand` decides between the prompt
and the queue, which is a choice here, as trust levels and the policy are data. The
raw input of `sendTerminalInput` (a call in `direct`) always prompts and never
queues. `queue[t]` is the chain of promises of `enqueueTerminal`; `Start` is a task
at its head, which resolves the same terminal again, registers its collector and
writes; `Deliver`, `Missing` and `Expire` are the three ends of `collectUntil`. The
shell, MySQL and Redis tools differ in wording and markers only and are one kind of
call. The wrapper of a command, with its markers, is one line that is typed at
once. A write that the session refuses leaves a collector behind that nobody waits
for; it changes nothing else and is left out. External: `front[t]` is what reads the
keys of a terminal - the prompt, a line that is running, a program of the user -
and may take input that was meant for the shell (`Swallow`) or never end; the hub
gives a window `HubDeadline` ticks and then hands the call to a window that has not
had it. A tick needs all due deadlines to be met first; evaluating the policy takes
no time. Redis echoes its start marker, which may switch the grace off although
nothing runs; then the timeout ends the collection, and that case is left out.

**ConfigStore.** A list is the rows of each bastion, and the rows are named by the
call that wrote them. `memento` is what `get` returns, `disk` what a restart reads; an
update is in `memento` at once and resolves with `Flush`. `cache` holds the memo
fields, which `ReplaceRows` fills by its read and `Saved` drops after its await. A
call is where it awaits, with what it has read at its start: `seen`, the profile a
refresh may write back, and `kept`, the four lists that `deleteBastion` filters before
its first update. An update may also be rejected (`Reject`): the call ends, and what
it has not dropped stays memoised (`rejected` has the keys), while the memento answers
the new rows. A migration that is rejected rejects every call that waits for it until
a restart (`MigrationFailed`); `setAssetTrust` does not wait for it. Each migration
takes a fresh random id and stamps all rows it finds with it. SecretStorage is assumed
to answer. `Crash` restarts the extension from `disk` with the migration to be done
again. `saveCachedAssets` and its kin read and update in one turn, since the await of
a memoised or parsed list takes no macrotask. `met` remembers which calls overlapped,
for the proviso of a property.

**RestClient.** A call is the list of the requests it has still to make (`todo`): a
connect asks for a detail and a token, a refresh for organizations, nodes and a page.
What it does between two answers is `Turn`, which the event loop runs before anything
else (`Quiet`). A bearer is the number of times JumpServer had forgotten its bearers
when it issued it. A login may have been granted at any time since it was posted, so
that it can be dead on arrival. `Fail` ends a call and those that joined its fetch,
and runs the `finally` blocks of `getAssetDetail` and `listAccessibleOrgs`. JumpServer
(external) may answer, refuse, throttle or break off any request. A terminal that
connects again (`Reconnect`) does so on the client it has kept, without the pool, in
whatever organization an earlier call has left there. `mixed` remembers whether
another call may have switched the organization, for the proviso of a property.

**AssetListing.** `RestClient` has one request "page" for a listing; the walk from
page to page is a function of the server's answers and is written as one, with the
three ways the code pages (count, links, until a page is short), the signatures of
pages, the dedupe and the cap.

**WebSession.** `jar` and `store` are the session cookie in the client and in
SecretStorage, `background` and `warming` the calls whose promises
`webSessionInflight` and `warmupInflight` hold. A call's `task` is the routine its
request belongs to, so that a `finally` can be told (`Cleared`). A session is
numbered like a bearer. `sent` and `good` are the cookie of a request when it left.
Of JumpServer it is assumed that a request with a dead session is redirected to the login
page (`Page`); the code would take a redirect elsewhere for a live session.

**Bridge.** `win[w].start` and `.stop` are where `start()` and `dispose()` of a window
await, which may overlap; `publisher`, `serves` and `timer` are the fields that both
of them set. `registry[w]` is the file named after the bridge id of the window. A pid
or a port is free again when its window dies or closes its server. A tick is 30 s, and
the record is due after 60. `todo` are the names the sweep has listed, `stale` the
ones among them whose process was dead at that moment. The publisher of the records is
a package that is not part of the repository; it is assumed to write a record as a
whole, or to fail, and to remove it, or to fail. It is not assumed to look at what is
there: a heartbeat that awaits its targets or its write while `dispose()` withdraws
the record writes it again, and `cut` marks a window whose dispose has found its start
or its heartbeat there. The hub (external) reads a record and calls its port with its
token, later.

## 3. Runs

| Run | Instance | States | What it shows |
|---|---|---|---|
| `sftp_commands` | 3 calls, listings by two names / through and past the cache, changes, 2-slice uploads | 2.7 M | `FetchedListsSeeEarlierWrites`, `MergedUploadsAreWhole`, and the refinement of `SerialCommands` (`ImplementsSerialCommands`) |
| `sftp_downloads` | 2 calls, three kinds of download of 2 chunks, changes, uploads | 140 k | `DownloadsAreWhole`, `NoSocketLeft`, `EveryCallSettles` |
| `sftp_manager` | 2 terminals, 2 calls of every kind, 2 files per upload | 460 k | `SessionsBelong`, `FilesFollowTheTerminal`, `RemovedTerminalsAreSilent`, `CallsSettle` |
| `sftp_edit` | 2 opens in a row, 2 saves, 2 foreign changes, one of the size of a save | 2.0 M | `SyncedMeansUploaded`, `SeenChangesAreAsked`, `SavesSettle`, types |
| `terminal` | 4 generations, idle disconnect on | 180 k | `NothingLeftBehind`, `PanelTellsTheTruth`, `OneNoticePerLoss`, `HalfOpenIsNoticed`; types, with: an idle deadline is armed only for a connection |
| `agent_commands` | 2 calls, 2 windows, 2 terminals in one of them; durations 1-5 | 2.0 M | `RunsWhereConfirmed`, `OneCollectionPerTerminal`, `AnswersAreTheirOwn`, `QueueWaitIsBounded` |
| `config_store` | 2 bastions, one from a singleton install or both stored; 2 calls, also rejected updates, 2 crashes | 3.5 M | `CachesAreCurrent`, `PasswordIsKept`, `AloneTouchesItsOwnRows`, types |
| `rest_client` | 2 calls, also on a kept client, 2 assets, room for 1 detail, 1 organization, 2 expiries | 970 k | `FetchesAreShared`, `ExpiryIsSurvived`, `AloneStaysInItsOrg`, `EveryCallSettles`; types, with the limit of the details; and `PagingIsRight` of `AssetListing` |
| `web_session` | a background login, an open, a call that is either; 1 expiry | 200 k | `StaleSessionsAreReplaced`, `EveryConnectSettles`; types, with: what is in flight is somebody's |
| `bridge` | 2 windows, 1 call of the hub, 2 pids, 1 port, 1 change of the targets | 660 k | `PublishedMeansServed`, `SweptOnStart`, `CallsReachTheirWindow`, `EverythingSettles`; types, with the age of a record |

Two runs expect a violation. Each checks one sentence of a document or of a
comment that the code does not keep; `findings` in `PROJECT.json` quotes them.

| Run | Property | What happens |
|---|---|---|
| `sftp_edit_copy_lost` | `UnsyncedCopyIsKept` | closing an editor deletes a save that failed to upload |
| `agent_run_twice` | `RunsOnce` | a late confirmation and a long command together outlast the hub, which runs the command again |

`MCAgentSerial` (`MCAgentTools`: 2 calls in 1 window with 2 terminals, 1.8 M states, four
minutes) is kept beside the runs and checks the refinement `ChainsAreSerial` that
`SerialTerminals` proves. The invariants which only theorems state (section 4) hold on
the instances of the runs of their modules, too.

`CHECK_DEADLOCK FALSE` stands in every configuration because each system may
really stop: all calls made and settled, the extension disposed.

**Further counterexamples.** These are kept beside the runs, with a configuration
each: `tlc -config <cfg> <module>` prints the behaviour. Several are the proviso of
a property that the runs do check (`Alone...`, `Told`, "unless it was disposed while
starting").

| Configuration (module) | Property | What the text says, and what happens |
|---|---|---|
| `MCSftpStaleList` (`MCSftpSession`) | `ListsSeeFinishedWrites` | `JumpServerSftpSession.ts:180` "Explicit Refresh drops every cached listing; mutations do the same implicitly." A change clears the cache when it is called; a listing under way refills it with what it saw before, and later listings, also `stat`, miss a change that has succeeded |
| `MCSftpWrongHost` (`MCSftpManager`) | `CommandsGoWhereAsked` | the SFTP design (`2026-05-28-jumpserver-sftp-design.md`), line 11: "Upload local files to the current or selected remote directory." The active connection is resolved again after the dialog and each file read: a terminal focused meanwhile redirects the files |
| `MCSftpEditTwoSessions` (`MCSftpEdit`) | `OneSessionPerFile` | the second SFTP design (`2026-05-28-jumpserver-sftp-phase-two-design.md`), line 100: "Opening the same remote file again should focus the existing local cache file instead of creating a second session." Overlapping opens both find none and register one each |
| `MCSftpEditSameSize` (`MCSftpEdit`) | `ChangesAreAsked` | the same, lines 95-98: "Before each upload, compare current remote stat to the base stat." "If the remote changed, ask whether to overwrite or cancel." "If remote content can be read within the size limit, compare content bytes too." `SftpEditSessionManager.ts:256`: "A matching size right after our own upload is proof enough". Somebody else writes a text of the size of the upload before it is verified: its stat becomes the base, and the next save overwrites it unasked. `SeenChangesAreAsked` is what is left: a change that has a size of its own |
| `MCSftpEditOwnConflict` (`MCSftpEdit`) | `OwnUploadIsNoConflict` | the same, line 97: "After upload, refresh base remote stat and verify size." A verification that does not go through leaves the old base, and the next save meets a conflict with the session's own upload |
| `MCConfigRowsLost` (`MCConfigStore`) | `TouchesItsOwnRows` | the multi-bastion design (`2026-08-20-multi-bastion-form-auth-design.md`), line 89: "does not wipe other bastions"; `JumpServerConfigManager.test.ts:280` 'replaces only the given bastion cached assets'. A writer that reads while another's update is being flushed, or a removal that read all lists at its start, writes back older rows of other bastions |
| `MCConfigInterrupted` (`MCConfigStore`) | `MigrationIsWhole` | the same design, line 158: "Old singleton settings + password + caches become one bastion; old keys gone; assets tagged with the new id". A crash after the new profile has been stored leaves old keys behind for good, as the migration runs only when no profile is there; and when all bastions are removed, the old settings come back as one |
| `MCRestOtherOrg` (`MCRestClient`) | `RequestsInTheirOrg` | `JumpServerClientPool.ts:16` "Org is not part of the identity: `setOrgId` is enough." Two calls for different organizations share the field, and a listing of organizations moves it: requests go out in another one. So do, without any overlap, those of a terminal that connects again on the client it has kept (`TerminalPanel.reconnect`) after another call has left it in another organization |
| `MCWebStaleSession` (`MCWebSession`) | `StaleSessionsAreReplacedOnHops` | `JumpServerClient.ts:1190` "Some deployments only hand the session cookie out on a redirect hop." With a stale cookie in the jar the login is taken to be done before that hop, and the connect fails although its password is right, and so do later ones, as nothing drops that cookie |
| `MCBridgeDisposed` (`MCBridge`) | `DisposedMeansGone` | the hub plan (`2026-07-28-p0c-jumpserver-hub.md`), line 647: "On dispose: clear heartbeat, `unpublish`, close server". A dispose during the start finds no publisher yet; the start goes on and publishes a record, with a heartbeat, for a server that is closed. A heartbeat that is under way at the dispose writes its record again, too |
| (any server without a count) | `TruncationIsTold` of `AssetListing` | `JumpServerClient.ts:36` "True when a safety cap stopped paging before the end." Without a count of the server's the total is what was listed, so a listing that the cap has cut off is not reported as truncated |

**Bounds.** Two calls are what an overlap needs, three what a stale cache needs (a
filler, a change, a reader). Two slices are the fewest with a failure between them,
and with a merge frame they give a queue three frames of one command. Two chunks
exceed the limits of one chunk (`MemoryCap`, `ReadMax`). Two terminals are what a
switch needs; two calls on one of them share a connect, and a third would add only
more sharers. Two saves give one during the other's upload; of two foreign
changes one has the size of a save, which the verification lets pass, and one has a size
of its own, and they may follow each other in one session or meet two of them; two opens
give a reopen after a close. `MaxGen` 3 allows a reconnect to race
with two earlier sessions. The durations of `AgentTools` are 1, 2, 3, 4, 5 ticks for
the code's 3, 30, 100, 110 and 120 seconds: their order, and that no two of the
longer waits fit together into the hub's, is what the properties depend on. One
call asks for more than `MaxTimeout`, the other for nothing. Two bastions are an own
and another one; `MaxCrashes` 2 interrupts a migration and then what goes on from
the remains. `DetailLimit` 1 for two assets evicts at the second fetch. Two expiries
let a bearer die, and the one that replaces it while its login is under way. Three
calls of `WebSession` have a background login, a warmup and a call that waits for
either. One port for two windows makes each port a reused one, two pids let a dead
window's be taken or not. `PagingIsRight` covers up to five rows, pages of one to
three, caps of one to four, servers that answer pages of at most one to three rows,
and a change of the list before the second or third page or both. `Saves`,
`Foreign`, `Opens`, `MaxGen`, `MaxCrashes`, `MaxExpiries`, `MaxEnds` and `MaxChanges` bound
counters that the code does not bound; the proofs below have no such
bounds. No symmetry reduction is used, as most runs check liveness or are small without it.

**Fairness.** The code's own steps are weakly fair: promise jobs, timers, the
heartbeat interval, and the poll of a held frame, because the event loop runs what
is ready. KoKo's answers are fair in `SftpSession` ("answers every frame it has, or
closes"), as are the ends of connects, SFTP commands and dialogs in `SftpManager`
and `SftpEdit`: without an answer no caller could be served, and the code sets no
deadline there. In `RestClient` and `WebSession` the end of a request, of a login or of
a handshake is fair because each has a deadline (`withDeadline`,
`defaultWebSocketFactory`), and so is the pause after a 429; SecretStorage answers.
In `Bridge` the steps of dispose and of a request at its window are fair: the terminal
tools have deadlines of their own, while for the SFTP tools, which have none, and for the
publisher it is an assumption; the start of a window is not fair. `ConfigStore` states no
fairness, as nothing there waits for another call. In `TerminalPanel` only the
heartbeat's interval and its deadline are fair, since noticing a peer that does
*not* answer is the point. Users - also one in front of the picker of organizations
- other writers, cache expiry, crashes, expiries and closes of sockets are never fair.

## 4. Proofs

Each component's theorems are in `<component>_proofs`, those of the two halves of the
client, `RestClient` and `WebSession`, in `JumpServerClient_proofs`. They hold for
every value of the constants that the assumption of the module allows; TLC has checked
each inductive invariant on instances of its module before it was proved. An invariant
is a conjunction of named parts, and a proof that a step keeps it has one lemma per
action or per group of actions that change the same fields.

`SftpSession_proofs`, for every number of calls, directories, slices and chunks,
proves `TypeCorrect`, `Serialized` (`OneCommandAtKoko`), `NoLeak` (`NoSocketLeft`)
and `SilentAfterDispose` (`NothingSentAfterDispose`) from `IInv`, four conjuncts:

- `TypeOK`;
- `QInv`, the queue: an accepted command is in the queue once; the head, and only
  it, is active once the turn has been passed to it; an idle queue is empty; a
  command is in the pending map exactly while it runs. `OneCommandAtKoko` speaks of
  frames only and is not inductive without it: that the next dispatch does not
  overlap needs that the previous command has left both map and queue.
- `Frames`, which commands have frames at KoKo or held back, and in which states;
- `Ends`, how `socket`, `wire`, `phase` and `disposed` go together.

The lemmas about the queue (`ActiveIsHead`, `SettleActive`, `EnqueueKeeps`, ...)
are stated once for the operators `Settle`, `Enqueue` and `RejectAll` and cited by
the proof of each action.

`Refines` is the refinement: the initial states of `SftpSession` are those of
`SerialCommands`, and under `IInv` each step is an abstract one (a call answered, a
call accepted, the head settled, all failed at the end) or a stutter. The transfers
rest on `WInv` (`TransferInvariance`), which adds to `IInv`, for each command,
`UploadInv` - the session's count of acknowledged slices and KoKo's of written ones
differ only while an acknowledgement is on its way - and `DownloadInv` - each chunk
that KoKo has sent is kept or still on its way, and the chain of writes to disk is
behind what it was handed. `UploadsAreWhole` and `WholeDownloads` follow; the latter
counts the chunks that KoKo streams for the file and does not say that the file stayed the
same meanwhile, which no part of the session looks at.
`ListsSeeWhatWasAskedBefore` needs `LInv`, which adds the order of the queue
(`Ordered`: a call is behind those made before it; `EarlierSettled`: when it is
dispatched, they have settled) and the versions that answers carry (`RepliesArePast`,
`AnswersShow`).

`SftpManager_proofs` proves for every set of terminals and calls `TypeCorrect`,
`NoOrphans` (`SessionsBelong`), `ActiveFollows` (`FilesFollowTheTerminal`),
`Silence` (`RemovedTerminalsAreSilent`) and `FreshConnects`
(`FinishedConnectsAreNotJoined`). `IInv` adds to the properties themselves

- `Cells`: a connection's session is of its own terminal and has been connected;
- `Pendings`: a pending connect is really in flight, registered, and excludes a session;
- `Doomed`: sessions to be discarded belong to terminals that are gone for good,
  which rests on ids not being reused;
- `Calls`: a call's session is of the terminal that the call has looked up.

`Handy`, beside it, says that a call which is about to resume finds a session on its
connection, even on one that has been removed: what follows its `realpath('.')` never
makes a connect for a terminal that is gone.

The two action properties need the order of promise jobs (`JobsDrained`): a doomed
session is discarded before the calls that waited for it resume.

`SftpEdit_proofs`, for any number of opens, saves and foreign changes, proves
`TypeCorrect` and `SyncIsTrue` (`SyncedMeansUploaded`) from `EInv`. Its part `Follows`
says what becomes of the last save: the cache file holds it until it is sent, the text
under way is it unless a further round is due, and after the upload it is on record;
"synced" is shown at the end of a round, where nothing of this can be read off the
state any more.

`SeenChangesAreKept` (`SeenChangesAreAsked`) has no hypotheses; the property itself says
what the code can promise. It compares sizes and times, a time may stand still, and a
stat of the right size is taken for that of the own upload: nothing can be promised for
a change that shares its size with another text (`MCSftpEditSameSize`), and the property
is about the others (`Told`), however many sessions overlap on the file. The invariant
`AskInv` says of which text a stat can be: what is on the server, in the cache file or on
its way is the user's, one the user knows, or the last foreign text (`Honest`); a cached
or remembered stat is of a text that there has been (`Old`); and as long as the last
foreign text is there, unknown and of a size of its own, neither a base nor a stat that
has passed the check is of it (`Wary`), since it can become a base only by having the
size of the cache file, which is not its own.

`TerminalPanel_proofs`, for any number of reconnects, proves `TypeCorrect`,
`SessionsCleanUp` (`NothingLeftBehind`), `PanelIsTruthful` (`PanelTellsTheTruth`) and
`LossesAreNoticedOnce` (`OneNoticePerLoss`). `TInv` says of each session how its
flags go together (`SessionFits`: no timer without a socket that can be used, and
whoever gives a session up has cleared it), and of the panel that the number of the
generation is the current session's exactly until that session is given up
(`PanelFits`); the checks of the generation in the callbacks are worth that much.

`AgentTools_proofs` proves for all windows, terminals and calls, and for all
durations in the order of the code's, `TypeCorrect` (with the limits of prompts and
collections), `ConfirmedTerminal` (`RunsWhereConfirmed`), `Serialized`
(`OneCollectionPerTerminal`), `OwnAnswers` (`AnswersAreTheirOwn`), `HubWaits`
(`HubOutlivesEachWait`) and, for finitely many calls, `QueuesMoveOn`
(`QueueWaitIsBounded`). `IInv` has, besides types and clocks,

- `Chains`: a chain holds exactly the attempts that wait for its terminal, each
  once, and only its head is being collected;
- `Lines`: a line was typed once, into the terminal of its attempt, which got that far;
- `Marks`: a marker on its way is of a line that ran, an end marker of one that is
  not in any shell any more. `AnswersAreTheirOwn` is about answers; that the end
  marker which arrives proves anything needs this about all that are on their way.

`HubWaits` adds that a call the hub waits for is waiting in that window, with a
prompt exactly as old as the hub's clock (`Serving`). `QueuesMoveOn` adds a budget:
an attempt has waited no longer than the calls which its terminal has answered may
have taken, plus the age of the one that is being collected (`Patient`); the bound of
the property counts calls, and so the theorem asks that there be finitely many.

`SerialTerminals` (`ChainsAreSerial`) is the refinement: under `IInv`, what a step does
to the chain of a terminal and to the answers of its commands is an acceptance at the
end, a settlement of the head, or nothing, for every terminal at once; ends that other
terminals, prompts, raw input or the hub bring about leave it alone.

`ConfigStore_proofs`, for all bastions, calls and crashes, has an invariant for each
property. `CachesStayCurrent` (`CachesAreCurrent`) needs that nothing but the trust
overlay is memoised before the migration is over (`Quiet`). Both this property and the
next except a key from a rejected update of it until the next one that resolves.
`AloneKeepsToItsRows` (`AloneTouchesItsOwnRows`) needs that what a deletion has read
at its start still is what is stored of other bastions, as long as it has met nobody
(`KeptIsCurrent`), and that calls which overlap have met. `PasswordStays`
(`PasswordIsKept`) follows the new profile and its password through `memento`, `disk`
and the two slots, cut off at each step (`ProfileInv`), through any number of
migrations with an id each (`IdsFit`). It says that the password is there, under the
old key or that of a stored bastion which a migration has made. It does not say that a
later start moves it: once the profile is stored, none does (`MCConfigInterrupted`).

`Bridge_proofs`, for all windows, pids, ports and calls, proves `TypeCorrect`,
`RecordsAreServed` (`PublishedMeansServed`), `CallsAreNotMixedUp`
(`CallsReachTheirWindow`) and `StartsSweep` (`SweptOnStart`). `Fits` ties a window's
record to its pid, its port and its server for as long as no dispose has cut its
start or a heartbeat; `Swept` says that what a sweep has been through is gone and stays
gone, which needs that only a living window publishes and that the dead do not come back.
It is about the records that were of a dead process when the sweep read the directory,
except those it could not read or remove and those whose pid was in use again when it
looked: these the code leaves.

`JumpServerClient_proofs`, for any number of calls, assets, organizations and expiries and
any limit of the details, proves `TypeCorrect`, `FetchesShared` (`FetchesAreShared`),
`ExpirySurvived` (`ExpiryIsSurvived`) and `AloneInItsOrg` (`AloneStaysInItsOrg`).
`RInv` has `Sound`, what the stages a call has still to make may be, in which order;
`Timely`: neither the bearer nor the login is older than a request that was sent
again, or sent at all, under its rule - an expiry is survived because the second
attempt carries a bearer newer than the first; `Fetches`: the table of fetches knows
each one until a 401 empties it; and `Keeps`: as long as nothing has disturbed a call,
the organization is its own, or the one it will restore. A reconnect that finds its kept
client in another organization than its own counts as disturbed from its start
(`BeginsWell`); the theorem promises it nothing.

Its second half, about `WebSession`, proves for any number of calls and of ended sessions
`WebTypeCorrect` (`WebTypeOK`), `WaitsEnd` (`NobodyWaitsInTurn`) and `StaleReplaced`
(`StaleSessionsAreReplaced`) from `WebInv`. Besides types and what the two promises in
flight stand for (`Owned`), it has

- `Suits`, which steps belong to which routine, and which routine to which kind of call;
- `WaitsRight`: who waits for a login or a warmup waits for a call that is in it, or
  that has just left it and not moved since;
- `Issued`: no session is newer than those of JumpServer; and `Shared`: overlapping
  calls share their troubles;
- `Clean`, of a call that no failed request has troubled: the jar is never emptied or
  set back under it, and what its warmup proves is no older than that warmup. A jar that
  another connect fills meanwhile only gets newer, and that is why an overlap does no harm.

`WebStep` states what every step of a call does to itself, to the promises and to the
others; it is proved action by action, and that it keeps `WebInv` is proved once.

**Nobody waits in vain.** Liveness stays with TLC, but what it rests on is safety: at
each moment, whoever waits can name what it waits for, and that is still going on. These
theorems state it, each with an invariant beyond the component's own.

| Theorem | States | Of |
|---|---|---|
| `Remembered` (`SftpSession_proofs`) | `NobodyIsForgotten` | callers of a session: a queued one is in a queue that moves, a running one has a frame, an answer or a chunk that is awaited on an open socket |
| `WaitersAreServed` (`SftpManager_proofs`) | `WaitsAreServed` | calls that wait for a connect: it has begun and its connection, or the end of its terminal, still follows it |
| `SavesAreWorkedOn` (`SftpEdit_proofs`) | `UnsyncedMeansAtWork` | a registered edit session with a save that is neither uploaded nor reported: its task runs, or its debounce is armed |
| `ConnectedIsWatched` (`TerminalPanel_proofs`) | `ConnectedMeansWatched` | a panel that says "connected": the heartbeat of its session runs |
| `WaitersAreServed` (`JumpServerClient_proofs`) | `JoinersAreServed` | calls that joined a fetch or a login: a call makes that fetch, of the same asset, and that login is under way |
| `WaitsEnd` (`JumpServerClient_proofs`) | `NobodyWaitsInTurn` | connects that wait for a login or a warmup: not in a circle |
| `ServedAreWorkedOn` (`Bridge_proofs`) | `ServedMeansInWork` | calls of the hub that a dispose waits for: their window lives and has them |

`SavesAreWorkedOn` needs to know that an armed debounce finds the save still waiting
(`Tended`), and speaks of the registered session only: one that an overlapping open has
replaced is not looked at again, as `OneSessionPerFile` shows.

The assumptions are `SessionAssumption`, `ManagerAssumption`, `EditAssumption`,
`PanelAssumption`, `AgentAssumption`, `ConfigAssumption`, `BridgeAssumption`,
`RestAssumption` and `WebAssumption` in the modules, which TLC evaluates in the runs:
ranges of numbers, the order of the durations, and that the values which stand for
"nothing" or for unstamped rows are not bastions, records, calls or texts.

`OneCommandAtKoko`, `NothingSentAfterDispose`, `FinishedConnectsAreNotJoined`,
`HubOutlivesEachWait`, `ChainsAreSerial`, the invariants of the table above and the types
of `SftpSession`, `SftpManager` and `AgentTools` are left to these proofs: no run spends
time on them.

**Only model-checked:** all liveness (`EveryCallSettles`, `EveryConnectSettles`,
`CallsSettle`, `SavesSettle`, `HalfOpenIsNoticed`, `EverythingSettles`), since TLAPS does
not reason about fairness here, and `AssetListing`, whose folds would need induction over
data. Every other property of a passing run is proved, `QueueWaitIsBounded` under the
hypothesis named above.

## 5. What the models leave out

The wire formats and the parsing of messages, progress reports, what terminals
print and how it is batched, the wording of statuses, sizes in bytes (limits are
counted in chunks), the offline snapshot of the file tree, and `closeActive`, which
nothing but tests calls. Cached listings differ in their directory and version only.
The frame of a directory download is a download like any other. Of the agent tools,
the text of commands and results, the trust levels and the policy, and the SFTP
tools.

Of the REST client, what requests and answers contain, the encoding of credentials
that a client remembers, `healthCheck`, connection tokens as data, and clients that
the pool replaces, drops or disposes: the calls of a replaced client go on with its
own state, as a system of their own. Calls of kind "validate" are in `RestClient` and
are not made in its run; they differ from a refresh by one request. Of the web
session, cookies other than `sessionid` and the CSRF token. Of the bridge, records of
other plugins, the abort signal of a request, the IDE configuration. Of the
configuration, the shape of rows, and `saveSettings` and `deleteSettings`, which
have no caller. The classifiers of commands, the catalogue of tools, the hub's
installation and the trees are functions of their input or presentation, without
state that others change.

## 6. Plan

In this order.

1. The SFTP tools of the agents over the lookup of `SftpManager`: a prompt names the
   active asset, and the operation resolves the active connection again.
2. `OutputWindow`: the sliding byte window and the incremental marker scan of
   `TerminalOutputBuffer` against a reference definition over bounded inputs.
3. The pool: a bastion that is edited or removed while calls use its client.
