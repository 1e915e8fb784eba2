------------------------------- MODULE SftpEdit -------------------------------
(***************************************************************************)
(* Editing one remote file in place (src/sftp/SftpEditSessionManager.ts):  *)
(* the file is copied to a local cache path, saves are debounced and       *)
(* uploaded by one drain per edit session, each upload is preceded by a    *)
(* conflict check and followed by a verification, and closing the document *)
(* flushes and forgets the session.  Sessions of different files share     *)
(* nothing, so one file stands for all.                                    *)
(*                                                                         *)
(* A text is a number: 0 is what the remote file holds at first, 1..Saves  *)
(* are the texts the user saves, the rest are written by somebody else.    *)
(***************************************************************************)
EXTENDS Naturals, FiniteSets

CONSTANTS
    Opens,        \* how often openRemoteFile is called
    Saves,        \* how often the user saves
    Foreign,      \* how often somebody else writes the remote file
    Size,         \* the size of each text
    OpensAtOnce,  \* how many calls of openRemoteFile may overlap
    None

\* The calls of openRemoteFile in their order, each with the session it may make.
Session == 1..Opens

Text == 0..Saves + Foreign
Saved == 1..Saves

ASSUME EditAssumption ==
    /\ Opens \in Nat /\ Saves \in Nat /\ Foreign \in Nat /\ OpensAtOnce \in Nat \ {0}
    /\ Size \in [Text -> Nat]
    /\ None \notin Session \cup Text

VARIABLES
    remote,      \* the remote file: its text and its modification time
    listed,      \* the stat that the session's short list cache would answer
    local,       \* the text of the cache file, None when there is no file
    doc,         \* the cache file is open in an editor
    current,     \* the session in sessionsByKey and sessionsByLocalPath
    disposed,
    life,        \* how far the openRemoteFile of a session has come
    sample,      \* initialContent of openRemoteFile, or None
    base,        \* baseRemoteStat
    sync,        \* syncState
    confirmed,   \* firstSaveConfirmed
    want,        \* pendingUpload
    timer,       \* debounceTimer is armed
    drain,       \* where the upload task awaits, "none" when there is no task
    check,       \* the stat of an attempt's conflict check, until its upload ends
    sending,     \* the text that is being uploaded
    closing      \* closeSession waits for the upload task

\* History, for the properties only.
VARIABLES
    saves, foreign,   \* how many texts there are so far
    savedBy,          \* the last save that a session has seen
    uploaded,         \* the last saved text whose upload has succeeded
    failedAt,         \* the last save it had seen when it last showed a failure
    knows             \* texts the cache file was opened with or the user agreed to overwrite

files == <<remote, listed, local, doc>>
table == <<current, disposed>>
opening == <<life, sample>>
task == <<base, sync, confirmed, want, timer, drain, check, sending, closing>>
history == <<saves, foreign, savedBy, uploaded, failedAt, knows>>
vars == <<files, table, opening, task, history>>

\* A stat is a size and a time; the text is carried along for the properties.
StatOf(file) == [size |-> Size[file.text], time |-> file.time, text |-> file.text]
Stat == [size : Nat, time : Nat, text : Text]
NoStat == [size |-> 0, time |-> 0, text |-> 0]

Init ==
    /\ remote = [text |-> 0, time |-> 0] /\ listed = None /\ local = None /\ doc = FALSE
    /\ current = None /\ disposed = FALSE
    /\ life = [s \in Session |-> "new"] /\ sample = [s \in Session |-> None]
    /\ base = [s \in Session |-> NoStat] /\ check = [s \in Session |-> NoStat]
    /\ sync = [s \in Session |-> "idle"] /\ drain = [s \in Session |-> "none"]
    /\ confirmed = [s \in Session |-> FALSE] /\ want = [s \in Session |-> FALSE]
    /\ timer = [s \in Session |-> FALSE] /\ closing = [s \in Session |-> FALSE]
    /\ sending = [s \in Session |-> 0]
    /\ saves = 0 /\ foreign = 0
    /\ savedBy = [s \in Session |-> 0] /\ uploaded = [s \in Session |-> 0]
    /\ failedAt = [s \in Session |-> 0] /\ knows = {}

\* No promise job is waiting: a close whose upload task has ended is over.
JobsDrained == \A s \in Session : ~(closing[s] /\ drain[s] = "none")

----------------------------------------------------------------------------
\* The remote side (external): what a stat answers, and what a write changes.

\* A stat is looked up in the parent's listing, which the SFTP session may
\* serve from its cache; behind an upload it waits for its turn.
Answer == IF listed = None THEN StatOf(remote) ELSE listed
AskStat == (\A s \in Session : drain[s] # "send") /\ listed' = Answer

\* The modification time has a resolution: it may not move.
Write(text) == \E t \in {remote.time, remote.time + 1} : remote' = [text |-> text, time |-> t]

ForeignWrite ==
    /\ foreign < Foreign
    /\ foreign' = foreign + 1
    /\ Write(Saves + foreign + 1)
    /\ UNCHANGED <<listed, local, doc, table, opening, task, saves, savedBy, uploaded,
                   failedAt, knows>>

ExpireListing ==
    /\ listed # None /\ listed' = None
    /\ UNCHANGED <<remote, local, doc, table, opening, task, history>>

----------------------------------------------------------------------------
\* Opening

\* openRemoteFile: a session that is registered for the file is shown again.
\* The edit command goes with the extension that disposes the manager.
Open(s) ==
    /\ JobsDrained /\ ~disposed
    /\ life[s] = "new" /\ \A x \in 1..s - 1 : life[x] # "new"
    /\ Cardinality({x \in Session : life[x] \in {"stat", "fetch"}}) < OpensAtOnce
    /\ IF current # None
       THEN /\ life' = [life EXCEPT ![s] = "failed"]
            /\ doc' = (doc \/ local # None)
            /\ UNCHANGED sample
       ELSE /\ life' = [life EXCEPT ![s] = "stat"]
            /\ \E c \in {None, remote.text} : sample' = [sample EXCEPT ![s] = c]
            /\ UNCHANGED doc
    /\ UNCHANGED <<remote, listed, local, table, task, history>>

OpenStat(s) ==
    /\ JobsDrained /\ life[s] = "stat"
    /\ \/ /\ AskStat
          /\ base' = [base EXCEPT ![s] = Answer]
          /\ life' = [life EXCEPT ![s] = "fetch"]
       \/ life' = [life EXCEPT ![s] = "failed"] /\ UNCHANGED <<listed, base>>
    /\ UNCHANGED <<remote, local, doc, table, sample, sync, confirmed, want, timer, drain,
                   check, sending, closing, history>>

\* The text that openRemoteFile puts into the cache file: what the caller has
\* read already if its size still fits, nothing if there is nothing to download,
\* or else what it downloads.
Fetched(s) ==
    IF sample[s] # None /\ Size[sample[s]] = base[s].size THEN sample[s]
    ELSE IF base[s].size = 0 THEN base[s].text ELSE remote.text

\* The cache file is written, the session is registered and shown.
OpenFetch(s) ==
    /\ JobsDrained /\ life[s] = "fetch"
    /\ \/ /\ life' = [life EXCEPT ![s] = "open"]
          /\ local' = Fetched(s) /\ doc' = TRUE
          /\ current' = s
          /\ knows' = knows \cup {Fetched(s)}
       \/ life' = [life EXCEPT ![s] = "failed"] /\ UNCHANGED <<local, doc, current, knows>>
    /\ sample' = [sample EXCEPT ![s] = None]
    /\ UNCHANGED <<remote, listed, disposed, task, saves, foreign, savedBy, uploaded,
                   failedAt>>

----------------------------------------------------------------------------
\* Saving

\* The editor writes the file and handleSavedDocument schedules its upload,
\* if a session is registered for the path.
Save ==
    /\ JobsDrained /\ doc /\ saves < Saves
    /\ saves' = saves + 1
    /\ local' = saves + 1
    /\ IF current = None
       THEN UNCHANGED <<sync, want, timer, savedBy>>
       ELSE /\ sync' = [sync EXCEPT ![current] = "pending"]
            /\ want' = [want EXCEPT ![current] = TRUE]
            /\ timer' = [timer EXCEPT ![current] = TRUE]
            /\ savedBy' = [savedBy EXCEPT ![current] = saves + 1]
    /\ UNCHANGED <<remote, listed, doc, table, opening, base, confirmed, drain, check, sending,
                   closing, foreign, uploaded, failedAt, knows>>

\* Mutant: pendingUpload is cleared when an upload ends, not when it begins.
RoundForgets(s, state) ==
    /\ want' = [want EXCEPT ![s] = FALSE]
    /\ drain' = [drain EXCEPT ![s] = IF ~want[s] \/ drain[s] # "none" THEN "none"
                                     ELSE IF confirmed[s] THEN "stat" ELSE "confirm"]
    /\ sync' = [sync EXCEPT ![s] = IF want[s] /\ confirmed[s] /\ drain[s] = "none"
                                   THEN "uploading" ELSE state]

\* The next round of drainUploadQueue, or its end. `state` is what syncState
\* becomes if there is no further round.
Round(s, state) ==
    /\ want' = [want EXCEPT ![s] = FALSE]
    /\ drain' = [drain EXCEPT ![s] = IF ~want[s] THEN "none"
                                     ELSE IF confirmed[s] THEN "stat" ELSE "confirm"]
    /\ sync' = [sync EXCEPT ![s] = IF want[s] /\ confirmed[s] THEN "uploading" ELSE state]

\* startUploadDrain: a task that runs already is joined.
StartDrain(s) ==
    IF drain[s] = "none" THEN Round(s, sync[s]) ELSE UNCHANGED <<want, drain, sync>>

TimerFires(s) ==
    /\ JobsDrained /\ timer[s]
    /\ timer' = [timer EXCEPT ![s] = FALSE]
    /\ StartDrain(s)
    /\ UNCHANGED <<files, table, opening, base, confirmed, check, sending, closing, history>>

\* failSync
ShowFailure(s) == failedAt' = [failedAt EXCEPT ![s] = savedBy[s]]

\* confirmAutoSync: a refusal ends the task, whatever was saved meanwhile.
Confirm(s) ==
    /\ JobsDrained /\ drain[s] = "confirm"
    /\ \/ /\ confirmed' = [confirmed EXCEPT ![s] = TRUE]
          /\ drain' = [drain EXCEPT ![s] = "stat"]
          /\ sync' = [sync EXCEPT ![s] = "uploading"]
          /\ UNCHANGED failedAt
       \/ /\ drain' = [drain EXCEPT ![s] = "none"]
          /\ sync' = [sync EXCEPT ![s] = "failed"]
          /\ ShowFailure(s)
          /\ UNCHANGED confirmed
    /\ UNCHANGED <<files, table, opening, base, want, timer, check, sending, closing, saves,
                   foreign, savedBy, uploaded, knows>>

\* The attempt failed: it is shown, and the next round starts if a save waits.
Fail(s) == ShowFailure(s) /\ Round(s, "failed")

Match(a, b) == a.size = b.size /\ a.time = b.time

\* Mutant: an unreadable cache file is not noticed.
SendUnread(s) ==
    /\ drain' = [drain EXCEPT ![s] = "send"]
    /\ sending' = [sending EXCEPT ![s] = local]
    /\ listed' = None
    /\ UNCHANGED <<want, sync, failedAt>>

\* uploadFile reads the cache file and hands the bytes to the SFTP session,
\* which forgets its listings; without the file the attempt fails.
Send(s) ==
    IF local = None
    THEN Fail(s) /\ UNCHANGED <<listed, sending>>
    ELSE /\ drain' = [drain EXCEPT ![s] = "send"]
         /\ sending' = [sending EXCEPT ![s] = local]
         /\ listed' = None
         /\ UNCHANGED <<want, sync, failedAt>>

\* The conflict check of uploadIfUnchanged.
CheckStat(s) ==
    /\ JobsDrained /\ drain[s] = "stat"
    /\ \/ /\ AskStat
          /\ check' = [check EXCEPT ![s] = Answer]
          /\ IF Match(Answer, base[s])
             THEN drain' = [drain EXCEPT ![s] = "read"] /\ UNCHANGED sync
             ELSE /\ drain' = [drain EXCEPT ![s] = "ask"]
                  /\ sync' = [sync EXCEPT ![s] = "conflict"]
          /\ UNCHANGED <<want, failedAt>>
       \/ Fail(s) /\ UNCHANGED <<check, listed>>
    /\ UNCHANGED <<remote, local, doc, table, opening, base, confirmed, timer, sending,
                   closing, saves, foreign, savedBy, uploaded, knows>>

ReadLocal(s) ==
    /\ JobsDrained /\ drain[s] = "read"
    /\ Send(s)
    /\ UNCHANGED <<remote, local, doc, table, opening, base, confirmed, timer, check, closing,
                   saves, foreign, savedBy, uploaded, knows>>

\* resolveConflict
ResolveConflict(s) ==
    /\ JobsDrained /\ drain[s] = "ask"
    /\ \/ /\ drain' = [drain EXCEPT ![s] = "read"]
          /\ sync' = [sync EXCEPT ![s] = "uploading"]
          /\ knows' = knows \cup {check[s].text}
          /\ UNCHANGED <<want, failedAt>>
       \/ Fail(s) /\ UNCHANGED knows
    /\ UNCHANGED <<files, table, opening, base, confirmed, timer, check, sending, closing,
                   saves, foreign, savedBy, uploaded>>

\* The upload has replaced the remote file.
Land(s) == Write(sending[s])

\* The upload succeeds; or it fails, before or after it was written.
UploadEnds(s) ==
    /\ JobsDrained /\ drain[s] = "send"
    /\ \/ /\ Land(s)
          /\ uploaded' = [uploaded EXCEPT ![s] = IF sending[s] \in Saved THEN sending[s] ELSE @]
          /\ drain' = [drain EXCEPT ![s] = "restat"] /\ UNCHANGED <<want, sync, failedAt>>
       \/ Land(s) /\ Fail(s) /\ UNCHANGED uploaded
       \/ Fail(s) /\ UNCHANGED <<remote, uploaded>>
    /\ sending' = [sending EXCEPT ![s] = 0] /\ check' = [check EXCEPT ![s] = NoStat]
    /\ UNCHANGED <<listed, local, doc, table, opening, base, confirmed, timer, closing, saves,
                   foreign, savedBy, knows>>

\* Mutant: any answer to the second stat is taken for a verified upload.
VerifyNothing(st) == local # None

\* verifyUploadedContent: the size on the server is that of the cache file.
VerifyUploadedContent(st) == local # None /\ Size[local] = st.size

\* The end of uploadIfUnchanged: the verified stat is the new base.
Verify(s) ==
    /\ JobsDrained /\ drain[s] = "restat"
    /\ \/ /\ AskStat
          /\ IF VerifyUploadedContent(Answer)
             THEN /\ base' = [base EXCEPT ![s] = Answer]
                  /\ Round(s, "idle")
                  /\ UNCHANGED failedAt
             ELSE Fail(s) /\ UNCHANGED base
       \/ Fail(s) /\ UNCHANGED <<base, listed>>
    /\ UNCHANGED <<remote, local, doc, table, opening, confirmed, timer, check, sending,
                   closing, saves, foreign, savedBy, uploaded, knows>>

----------------------------------------------------------------------------
\* Closing

\* Mutant: closeSession cancels the debounce and starts no upload.
CloseWithoutFlush ==
    /\ JobsDrained /\ doc
    /\ doc' = FALSE
    /\ IF current = None
       THEN UNCHANGED <<timer, closing>>
       ELSE /\ closing' = [closing EXCEPT ![current] = TRUE]
            /\ timer' = [timer EXCEPT ![current] = FALSE]
    /\ UNCHANGED <<remote, listed, local, table, opening, base, sync, confirmed, want, drain,
                   check, sending, history>>

\* The document is closed; closeSession cuts the debounce short and waits.
CloseDocument ==
    /\ JobsDrained /\ doc
    /\ doc' = FALSE
    /\ IF current = None
       THEN UNCHANGED <<want, drain, sync, timer, closing>>
       ELSE /\ closing' = [closing EXCEPT ![current] = TRUE]
            /\ timer' = [timer EXCEPT ![current] = FALSE]
            /\ IF timer[current] THEN StartDrain(current) ELSE UNCHANGED <<want, drain, sync>>
    /\ UNCHANGED <<remote, listed, local, table, opening, base, confirmed, check, sending,
                   history>>

\* closeSession goes on when the task has ended: nothing is registered for the
\* file any more,
FinishClose(s) ==
    /\ closing[s] /\ drain[s] = "none"
    /\ closing' = [closing EXCEPT ![s] = FALSE]
    /\ life' = [life EXCEPT ![s] = "removing"]
    /\ current' = None
    /\ UNCHANGED <<files, disposed, sample, base, sync, confirmed, want, timer, drain, check,
                   sending, history>>

\* and then the cache file is removed, whoever has written it since.
RemoveCopy(s) ==
    /\ JobsDrained /\ life[s] = "removing"
    /\ life' = [life EXCEPT ![s] = "closed"]
    /\ local' = None
    /\ UNCHANGED <<remote, listed, doc, table, sample, task, history>>

\* dispose(): no session is registered, no timer fires; tasks run on.
Dispose ==
    /\ JobsDrained /\ ~disposed
    /\ disposed' = TRUE /\ current' = None
    /\ timer' = IF current = None THEN timer ELSE [timer EXCEPT ![current] = FALSE]
    /\ UNCHANGED <<files, opening, base, sync, confirmed, want, drain, check, sending, closing,
                   history>>

----------------------------------------------------------------------------

User == Save \/ CloseDocument \/ Dispose
Others == ForeignWrite \/ ExpireListing
Advance(s) == \/ OpenStat(s) \/ OpenFetch(s)
              \/ TimerFires(s) \/ Confirm(s) \/ CheckStat(s) \/ ReadLocal(s)
              \/ ResolveConflict(s) \/ UploadEnds(s) \/ Verify(s)
              \/ FinishClose(s) \/ RemoveCopy(s)

Next == User \/ Others \/ \E s \in Session : Open(s) \/ Advance(s)

Spec == Init /\ [][Next]_vars

\* Timers fire, SFTP calls are answered or fail, dialogs are answered. Nobody
\* has to open, save, close or write.
FairSpec == Spec /\ \A s \in Session : WF_vars(Advance(s))

----------------------------------------------------------------------------
\* Properties

SyncState == {"idle", "pending", "uploading", "conflict", "failed"}

\* The types of the edit sessions and of the files; in particular an upload
\* always has a text to send.
TypeOK ==
    /\ remote \in [text : Text, time : Nat] /\ listed \in Stat \cup {None}
    /\ local \in Text \cup {None} /\ doc \in BOOLEAN
    /\ current \in Session \cup {None} /\ disposed \in BOOLEAN
    /\ life \in [Session -> {"new", "stat", "fetch", "open", "removing", "closed", "failed"}]
    /\ sample \in [Session -> Text \cup {None}]
    /\ base \in [Session -> Stat] /\ check \in [Session -> Stat]
    /\ sync \in [Session -> SyncState] /\ confirmed \in [Session -> BOOLEAN]
    /\ want \in [Session -> BOOLEAN] /\ timer \in [Session -> BOOLEAN]
    /\ drain \in [Session -> {"none", "confirm", "stat", "ask", "read", "send", "restat"}]
    /\ sending \in [Session -> Text] /\ closing \in [Session -> BOOLEAN]
    /\ saves \in 0..Saves /\ foreign \in 0..Foreign
    /\ savedBy \in [Session -> 0..Saves] /\ uploaded \in [Session -> 0..Saves]
    /\ failedAt \in [Session -> 0..Saves] /\ knows \in SUBSET Text

\* The size of a text tells it from every other text.
Told(t) == \A u \in Text \ {t} : Size[u] # Size[t]

\* What the phase-two design asks of an upload: a change of somebody else that
\* its conflict check has seen is not overwritten unless the user agreed.
ChangesAreAsked ==
    [][\A s \in Session :
          /\ drain[s] = "send" /\ drain'[s] # "send" /\ remote' # remote
          /\ remote.text \notin Saved \cup knows
          => check[s].text # remote.text]_vars

\* What the code does of it. It compares sizes and times, and it takes a stat of
\* the right size for its own upload: so much is promised for a change that has a
\* size of its own, in sessions that overlap and with answers from the list
\* cache too. Such a stat never becomes the base unless it is the cache file's.
SeenChangesAreAsked ==
    [][\A s \in Session :
          /\ drain[s] = "send" /\ drain'[s] # "send" /\ remote' # remote
          /\ remote.text \notin Saved \cup knows /\ Told(remote.text)
          => check[s].text # remote.text]_vars

\* "Remote file synced" means it: a session at rest that shows no failure has
\* uploaded the last save it saw, whatever was saved while it was uploading.
SyncedMeansUploaded ==
    \A s \in Session :
        /\ current = s /\ sync[s] = "idle" /\ drain[s] = "none"
        => uploaded[s] >= savedBy[s]

\* A registered session that has neither uploaded the last save it saw nor shown a
\* failure after it is at work on it, or will be when its debounce ends: no save is
\* lost between a timer that joins a task and a task that has taken its last look.
UnsyncedMeansAtWork ==
    \A s \in Session :
        current = s /\ uploaded[s] < savedBy[s] /\ failedAt[s] < savedBy[s]
        => timer[s] \/ drain[s] # "none"

\* No save is forgotten by a session that saw it, through debounce, joined drains,
\* closes that flush and rounds that failed: whenever the user stops saving, the
\* last save comes to be uploaded, or a failure is shown after it.
SavesSettle ==
    \A s \in Session :
        []<>(uploaded[s] >= savedBy[s] \/ failedAt[s] >= savedBy[s] \/ disposed)

\* The design document's promise about the cache: as long as the last save is
\* not on the server, its text is kept in the cache file.
UnsyncedCopyIsKept ==
    \A s \in Session : life[s] = "closed" /\ uploaded[s] < savedBy[s] => local # None

\* The design document's promise about opening a file again: one session.
OneSessionPerFile ==
    Cardinality({s \in Session : life[s] = "open"}) <= 1

\* The design document's promise about the base stat (it is refreshed after an
\* upload): what a session has just uploaded is no conflict for its next upload.
OwnUploadIsNoConflict ==
    \A s \in Session : drain[s] = "ask" => check[s].text \notin {uploaded[s]} \cap Saved

=============================================================================
