---------------------------- MODULE SftpEdit_proofs ----------------------------
(***************************************************************************)
(* Theorems about SftpEdit, for every number of opens, saves and foreign   *)
(* changes, and for texts of any size.                                     *)
(***************************************************************************)
EXTENDS SftpEdit, TLAPS

Life == {"new", "stat", "fetch", "open", "removing", "closed", "failed"}
Drain == {"none", "confirm", "stat", "ask", "read", "send", "restat"}

\* A session that is not open yet has seen no save and does nothing.
Unborn(s) ==
    life[s] \in {"new", "stat", "fetch", "failed"} =>
        /\ savedBy[s] = 0 /\ drain[s] = "none"
        /\ ~want[s] /\ ~timer[s] /\ ~closing[s] /\ current # s

\* The user has confirmed before anything is uploaded.
Asked(s) == drain[s] \notin {"none", "confirm"} => confirmed[s]

\* What the registered session uploads is the last save it saw, unless another
\* save waits for the next round.
Follows(s) ==
    current = s =>
        /\ savedBy[s] = 0 \/ local = savedBy[s] \/ local = None
        /\ ~want[s] /\ drain[s] = "send" => savedBy[s] = 0 \/ sending[s] = savedBy[s]
        /\ ~want[s] /\ drain[s] = "restat" => uploaded[s] >= savedBy[s]

\* SyncedMeansUploaded of one session.
Synced(s) == current = s /\ sync[s] = "idle" /\ drain[s] = "none" => uploaded[s] >= savedBy[s]

Fits(s) == Unborn(s) /\ Asked(s) /\ Follows(s) /\ Synced(s)

\* The inductive invariant.
EInv == TypeOK /\ \A s \in Session : Fits(s)

----------------------------------------------------------------------------

LEMMA Texts ==
    /\ Saves \in Nat /\ Foreign \in Nat /\ Saved \subseteq Text /\ Saved \subseteq 0..Saves
    /\ 0 \in Text /\ None \notin Text /\ None \notin Session
    /\ \A n \in 0..Saves : n \in Text
    /\ \A n \in 0..Saves : n < Saves => n + 1 \in Text /\ n + 1 \in 0..Saves
    /\ \A n \in 0..Foreign : n < Foreign => Saves + n + 1 \in Text /\ n + 1 \in 0..Foreign
  BY EditAssumption DEF Text, Saved

LEMMA StatIsStat ==
    ASSUME NEW file \in [text : Text, time : Nat]
    PROVE  StatOf(file) \in Stat /\ StatOf(file).text = file.text
                                 /\ StatOf(file).size = Size[file.text]
  BY EditAssumption DEF StatOf, Stat

LEMMA AnswerIsStat == ASSUME TypeOK PROVE Answer \in Stat
  BY StatIsStat DEF Answer, TypeOK

LEMMA WriteIsFile ==
    ASSUME TypeOK, NEW text \in Text, Write(text)
    PROVE  remote' \in [text : Text, time : Nat] /\ remote'.text = text
  BY DEF Write, TypeOK

LEMMA InitFits == Init => EInv
  <1> SUFFICES ASSUME Init
               PROVE  EInv
    OBVIOUS
  <1>1. NoStat \in Stat
    BY Texts DEF NoStat, Stat
  <1>2. TypeOK
    <2>1. 0 \in 0..Saves /\ 0 \in 0..Foreign /\ [text |-> 0, time |-> 0] \in [text : Text, time : Nat]
      BY Texts
    <2>2. /\ remote \in [text : Text, time : Nat] /\ saves \in 0..Saves /\ foreign \in 0..Foreign
          /\ savedBy \in [Session -> 0..Saves] /\ uploaded \in [Session -> 0..Saves]
          /\ failedAt \in [Session -> 0..Saves] /\ knows \in SUBSET Text
      BY <2>1 DEF Init
    <2>3. /\ base \in [Session -> Stat] /\ check \in [Session -> Stat]
          /\ sending \in [Session -> Text] /\ sample \in [Session -> Text \cup {None}]
      BY <1>1, Texts DEF Init
    <2> QED
      BY <2>2, <2>3 DEF Init, TypeOK, SyncState
  <1>3. ASSUME NEW s \in Session
        PROVE  Fits(s)
    BY <1>3, Texts DEF Init, Fits, Unborn, Asked, Follows, Synced
  <1> QED
    BY <1>2, <1>3 DEF EInv

----------------------------------------------------------------------------
\* The steps that are not of the upload task.

LEMMA OthersKeep ==
    ASSUME EInv, Others
    PROVE  EInv'
  <1> USE DEF EInv, Fits, Unborn, Asked, Follows, Synced
  <1>1. CASE ForeignWrite
    <2>1. remote' \in [text : Text, time : Nat]
      BY <1>1, Texts, WriteIsFile DEF ForeignWrite, TypeOK
    <2>2. TypeOK'
      BY <1>1, <2>1, Texts DEF ForeignWrite, TypeOK, table, opening, task
    <2> QED
      BY <1>1, <2>2 DEF ForeignWrite, table, opening, task
  <1>2. CASE ExpireListing
    BY <1>2 DEF ExpireListing, TypeOK, table, opening, task, history
  <1> QED
    BY <1>1, <1>2 DEF Others

LEMMA OpenKeeps ==
    ASSUME EInv, NEW s \in Session, Open(s)
    PROVE  EInv'
  <1>1. TypeOK'
    BY DEF EInv, TypeOK, Open, table, task, history
  <1>2. ASSUME NEW x \in Session
        PROVE  Fits(x)'
    BY <1>2 DEF EInv, Open, table, task, history, Fits, Unborn, Asked, Follows, Synced, TypeOK
  <1> QED
    BY <1>1, <1>2 DEF EInv

LEMMA OpenStatKeeps ==
    ASSUME EInv, NEW s \in Session, OpenStat(s)
    PROVE  EInv'
  <1>1. TypeOK'
    BY AnswerIsStat DEF EInv, TypeOK, OpenStat, AskStat, table, history
  <1>2. ASSUME NEW x \in Session
        PROVE  Fits(x)'
    BY <1>2 DEF EInv, OpenStat, table, history, Fits, Unborn, Asked, Follows, Synced, TypeOK
  <1> QED
    BY <1>1, <1>2 DEF EInv

LEMMA OpenFetchKeeps ==
    ASSUME EInv, NEW s \in Session, OpenFetch(s)
    PROVE  EInv'
  <1>1. Fetched(s) \in Text
    BY DEF Fetched, EInv, TypeOK, Stat
  <1>2. TypeOK'
    <2>1. knows' \in SUBSET Text
      BY <1>1 DEF EInv, TypeOK, OpenFetch
    <2>2. local' \in Text \cup {None} /\ current' \in Session \cup {None} /\ doc' \in BOOLEAN
      BY <1>1 DEF EInv, TypeOK, OpenFetch
    <2>3. /\ sample' \in [Session -> Text \cup {None}]
          /\ life' \in [Session -> Life]
      BY DEF EInv, TypeOK, OpenFetch, Life
    <2> QED
      BY <2>1, <2>2, <2>3 DEF EInv, TypeOK, OpenFetch, task, Life
  <1>3. ASSUME NEW x \in Session
        PROVE  Fits(x)'
    BY <1>3 DEF EInv, OpenFetch, task, Fits, Unborn, Asked, Follows, Synced, TypeOK
  <1> QED
    BY <1>2, <1>3 DEF EInv

LEMMA RemoveKeeps ==
    ASSUME EInv, NEW s \in Session, RemoveCopy(s)
    PROVE  EInv'
  BY DEF EInv, RemoveCopy, table, task, history, Fits, Unborn, Asked, Follows, Synced, TypeOK

LEMMA FinishKeeps ==
    ASSUME EInv, NEW s \in Session, FinishClose(s)
    PROVE  EInv'
  <1>1. TypeOK'
    BY DEF EInv, TypeOK, FinishClose, files, history
  <1>2. ASSUME NEW x \in Session
        PROVE  Fits(x)'
    BY <1>2, Texts DEF EInv, FinishClose, files, history, Fits, Unborn, Asked, Follows, Synced, TypeOK
  <1> QED
    BY <1>1, <1>2 DEF EInv

LEMMA DisposeKeeps ==
    ASSUME EInv, Dispose
    PROVE  EInv'
  <1>1. TypeOK'
    BY DEF EInv, TypeOK, Dispose, files, opening, history
  <1>2. ASSUME NEW x \in Session
        PROVE  Fits(x)'
    BY <1>2, Texts DEF EInv, Dispose, files, opening, history, Fits, Unborn, Asked, Follows, Synced, TypeOK
  <1> QED
    BY <1>1, <1>2 DEF EInv

LEMMA SaveKeeps ==
    ASSUME EInv, Save
    PROVE  EInv'
  <1>1. saves + 1 \in Text /\ saves + 1 \in 0..Saves
    BY Texts DEF EInv, TypeOK, Save
  <1>2. CASE current = None
    <2>1. TypeOK'
      BY <1>1, <1>2 DEF EInv, TypeOK, Save, table, opening
    <2>2. ASSUME NEW x \in Session
          PROVE  Fits(x)'
      BY <1>2, <2>2, Texts DEF EInv, Save, table, opening, Fits, Unborn, Asked, Follows, Synced
    <2> QED
      BY <2>1, <2>2 DEF EInv
  <1>3. CASE current # None
    <2>1. TypeOK'
      BY <1>1, <1>3 DEF EInv, TypeOK, Save, table, opening, SyncState
    <2>2. ASSUME NEW x \in Session
          PROVE  Fits(x)'
      BY <1>3, <2>2 DEF EInv, Save, table, opening, Fits, Unborn, Asked, Follows, Synced, TypeOK
    <2> QED
      BY <2>1, <2>2 DEF EInv
  <1> QED
    BY <1>2, <1>3

----------------------------------------------------------------------------
\* The steps of the upload task.

\* What a task step of session s never touches.
Untouched == UNCHANGED <<local, table, life, savedBy>>

\* Session x as a step of another session's task leaves it.
Same(x) ==
    /\ drain'[x] = drain[x] /\ want'[x] = want[x] /\ sync'[x] = sync[x]
    /\ confirmed'[x] = confirmed[x] /\ sending'[x] = sending[x] /\ uploaded'[x] = uploaded[x]

LEMMA SameFits ==
    ASSUME EInv, Untouched, NEW x \in Session, Same(x),
           timer'[x] = TRUE => timer[x], closing'[x] = TRUE => closing[x]
    PROVE  Fits(x)'
  BY DEF EInv, Untouched, table, Same, Fits, Unborn, Asked, Follows, Synced, TypeOK

\* The fields that the queue's rounds write.
LEMMA RoundTypes ==
    ASSUME TypeOK, NEW s \in Session, NEW state \in SyncState, Round(s, state)
    PROVE  /\ want' \in [Session -> BOOLEAN] /\ sync' \in [Session -> SyncState]
           /\ drain' \in [Session -> Drain]
           /\ \A x \in Session \ {s} : /\ want'[x] = want[x] /\ sync'[x] = sync[x]
                                       /\ drain'[x] = drain[x]
           /\ ~want'[s] /\ drain'[s] \in {"none", "confirm", "stat"}
           /\ drain'[s] = "none" => ~want[s] /\ sync'[s] = state
           /\ drain'[s] = "stat" => confirmed[s]
  BY DEF TypeOK, Round, SyncState, Drain

LEMMA FailTypes ==
    ASSUME TypeOK, NEW s \in Session, Fail(s)
    PROVE  /\ Round(s, "failed") /\ "failed" \in SyncState
           /\ failedAt' \in [Session -> 0..Saves]
  BY DEF TypeOK, Fail, ShowFailure, SyncState

\* A session whose attempt has failed.
LEMMA FailFits ==
    ASSUME EInv, Untouched, NEW s \in Session, Fail(s), drain[s] # "none",
           UNCHANGED <<confirmed, timer, closing>>
    PROVE  Fits(s)'
  <1>1. Round(s, "failed") /\ "failed" \in SyncState
    BY FailTypes DEF EInv
  <1>2. /\ ~want'[s] /\ drain'[s] \in {"none", "confirm", "stat"}
        /\ drain'[s] = "none" => sync'[s] = "failed"
        /\ drain'[s] = "stat" => confirmed[s]
    BY <1>1, RoundTypes DEF EInv
  <1> QED
    BY <1>2 DEF EInv, Untouched, table, Fits, Unborn, Asked, Follows, Synced, TypeOK

LEMMA DrainStarts ==
    ASSUME TypeOK, NEW s \in Session, StartDrain(s)
    PROVE  /\ want' \in [Session -> BOOLEAN] /\ sync' \in [Session -> SyncState]
           /\ drain' \in [Session -> Drain]
           /\ \A x \in Session \ {s} : /\ want'[x] = want[x] /\ sync'[x] = sync[x]
                                       /\ drain'[x] = drain[x]
           /\ \/ want'[s] = want[s] /\ drain'[s] = drain[s] /\ sync'[s] = sync[s]
              \/ want[s] /\ ~want'[s] /\ drain[s] = "none" /\ drain'[s] = "confirm"
              \/ want[s] /\ ~want'[s] /\ drain[s] = "none" /\ drain'[s] = "stat" /\ confirmed[s]
  <1>1. sync[s] \in SyncState
    BY DEF TypeOK
  <1>2. CASE drain[s] = "none"
    <2>1. Round(s, sync[s])
      BY <1>2 DEF StartDrain
    <2>2. ~want[s] => want'[s] = want[s] /\ drain'[s] = "none" /\ sync'[s] = sync[s]
      <3>1. CASE ~want[s]
        <4>1. want[s] = FALSE /\ want'[s] = FALSE
          BY <2>1, <3>1 DEF Round, TypeOK
        <4>2. drain'[s] = "none" /\ sync'[s] = sync[s]
          BY <2>1, <3>1 DEF Round, TypeOK
        <4> QED
          BY <3>1, <4>1, <4>2
      <3> QED
        BY <3>1
    <2>3. want[s] => drain'[s] # "none"
      BY <2>1 DEF Round, TypeOK
    <2> QED
      BY <1>1, <1>2, <2>1, <2>2, <2>3, RoundTypes
  <1>3. CASE drain[s] # "none"
    BY <1>3 DEF StartDrain, TypeOK, Drain
  <1> QED
    BY <1>2, <1>3

\* A session whose task has been started, or joined.
LEMMA StartFits ==
    ASSUME EInv, Untouched, NEW s \in Session, StartDrain(s),
           UNCHANGED <<confirmed, sending, uploaded>>,
           timer'[s] = TRUE => timer[s], closing'[s] = TRUE => closing[s] \/ current = s
    PROVE  Fits(s)'
  <1>1. \/ want'[s] = want[s] /\ drain'[s] = drain[s] /\ sync'[s] = sync[s]
        \/ want[s] /\ ~want'[s] /\ drain[s] = "none" /\ drain'[s] = "confirm"
        \/ want[s] /\ ~want'[s] /\ drain[s] = "none" /\ drain'[s] = "stat" /\ confirmed[s]
    BY DrainStarts DEF EInv
  <1> QED
    BY <1>1 DEF EInv, Untouched, table, Fits, Unborn, Asked, Follows, Synced, TypeOK

LEMMA TimerKeeps ==
    ASSUME EInv, NEW s \in Session, TimerFires(s)
    PROVE  EInv'
  <1>1. TypeOK'
    BY DrainStarts DEF EInv, TypeOK, TimerFires, files, table, opening, history, Drain
  <1>2. Fits(s)'
    BY StartFits DEF EInv, TypeOK, TimerFires, Untouched, files, opening, history
  <1>3. ASSUME NEW x \in Session \ {s}
        PROVE  Fits(x)'
    <2>1. Same(x)
      BY DrainStarts DEF EInv, TimerFires, Same, history
    <2> QED
      BY <2>1, SameFits DEF EInv, TypeOK, TimerFires, Untouched, files, opening, history
  <1> QED
    BY <1>1, <1>2, <1>3 DEF EInv

LEMMA ConfirmKeeps ==
    ASSUME EInv, NEW s \in Session, Confirm(s)
    PROVE  EInv'
  <1>1. TypeOK'
    <2>1. /\ confirmed' \in [Session -> BOOLEAN] /\ drain' \in [Session -> Drain]
          /\ sync' \in [Session -> SyncState]
      BY DEF EInv, TypeOK, Confirm, SyncState, Drain
    <2>2. failedAt' \in [Session -> 0..Saves]
      BY DEF EInv, TypeOK, Confirm, ShowFailure
    <2> QED
      BY <2>1, <2>2 DEF EInv, TypeOK, Confirm, Drain, files, table, opening
  <1>2. ASSUME NEW x \in Session
        PROVE  Fits(x)'
    BY <1>2 DEF EInv, Confirm, files, table, opening, Fits, Unborn, Asked, Follows, Synced, TypeOK
  <1> QED
    BY <1>1, <1>2 DEF EInv

LEMMA CheckKeeps ==
    ASSUME EInv, NEW s \in Session, CheckStat(s)
    PROVE  EInv'
  <1>1. CASE Fail(s) /\ UNCHANGED <<check, listed>>
    <2>1. TypeOK'
      BY <1>1, FailTypes, RoundTypes DEF EInv, TypeOK, CheckStat, table, opening, Drain
    <2>2. Fits(s)'
      BY <1>1, FailFits DEF CheckStat, Untouched, opening
    <2>3. ASSUME NEW x \in Session \ {s}
          PROVE  Fits(x)'
      <3>1. Same(x)
        BY <1>1, FailTypes, RoundTypes DEF EInv, CheckStat, Same
      <3> QED
        BY <3>1, SameFits DEF EInv, CheckStat, Untouched, opening
    <2> QED
      BY <2>1, <2>2, <2>3 DEF EInv
  <1>2. CASE ~(Fail(s) /\ UNCHANGED <<check, listed>>)
    <2>1. TypeOK'
      BY <1>2, AnswerIsStat DEF EInv, TypeOK, CheckStat, AskStat, table, opening, SyncState
    <2>2. ASSUME NEW x \in Session
          PROVE  Fits(x)'
      BY <1>2, <2>2
         DEF EInv, CheckStat, table, opening, Fits, Unborn, Asked, Follows, Synced, TypeOK
    <2> QED
      BY <2>1, <2>2 DEF EInv
  <1> QED
    BY <1>1, <1>2

LEMMA ReadKeeps ==
    ASSUME EInv, NEW s \in Session, ReadLocal(s)
    PROVE  EInv'
  <1>1. CASE local = None
    <2>0. Fail(s) /\ UNCHANGED <<listed, sending>>
      BY <1>1 DEF ReadLocal, Send
    <2>1. TypeOK'
      BY <2>0, FailTypes, RoundTypes DEF EInv, TypeOK, ReadLocal, table, opening, Drain
    <2>2. Fits(s)'
      BY <2>0, FailFits DEF ReadLocal, Untouched, opening
    <2>3. ASSUME NEW x \in Session \ {s}
          PROVE  Fits(x)'
      <3>1. Same(x)
        BY <2>0, FailTypes, RoundTypes DEF EInv, ReadLocal, Same
      <3> QED
        BY <3>1, SameFits DEF EInv, ReadLocal, Untouched, opening
    <2> QED
      BY <2>1, <2>2, <2>3 DEF EInv
  <1>2. CASE local # None
    <2>1. TypeOK'
      BY <1>2 DEF EInv, TypeOK, ReadLocal, Send, table, opening
    <2>2. ASSUME NEW x \in Session
          PROVE  Fits(x)'
      BY <1>2, <2>2
         DEF EInv, ReadLocal, Send, table, opening, Fits, Unborn, Asked, Follows, Synced, TypeOK
    <2> QED
      BY <2>1, <2>2 DEF EInv
  <1> QED
    BY <1>1, <1>2

LEMMA ResolveKeeps ==
    ASSUME EInv, NEW s \in Session, ResolveConflict(s)
    PROVE  EInv'
  <1>1. CASE Fail(s) /\ UNCHANGED knows
    <2>1. TypeOK'
      BY <1>1, FailTypes, RoundTypes DEF EInv, TypeOK, ResolveConflict, files, table, opening, Drain
    <2>2. Fits(s)'
      BY <1>1, FailFits DEF ResolveConflict, Untouched, files, opening
    <2>3. ASSUME NEW x \in Session \ {s}
          PROVE  Fits(x)'
      <3>1. Same(x)
        BY <1>1, FailTypes, RoundTypes DEF EInv, ResolveConflict, Same
      <3> QED
        BY <3>1, SameFits DEF EInv, ResolveConflict, Untouched, files, opening
    <2> QED
      BY <2>1, <2>2, <2>3 DEF EInv
  <1>2. CASE ~(Fail(s) /\ UNCHANGED knows)
    <2>1. check[s].text \in Text
      BY DEF EInv, TypeOK, Stat
    <2>2. knows' \in SUBSET Text
      BY <1>2, <2>1 DEF EInv, TypeOK, ResolveConflict
    <2>3. TypeOK'
      BY <1>2, <2>2 DEF EInv, TypeOK, ResolveConflict, files, table, opening, SyncState
    <2>4. ASSUME NEW x \in Session
          PROVE  Fits(x)'
      BY <1>2, <2>4
         DEF EInv, ResolveConflict, files, table, opening, Fits, Unborn, Asked, Follows, Synced,
             TypeOK
    <2> QED
      BY <2>3, <2>4 DEF EInv
  <1> QED
    BY <1>1, <1>2

LEMMA LandTypes ==
    ASSUME TypeOK, NEW s \in Session, Land(s)
    PROVE  remote' \in [text : Text, time : Nat] /\ remote'.text = sending[s]
  <1>1. sending[s] \in Text
    BY DEF TypeOK
  <1> QED
    BY <1>1, WriteIsFile DEF Land

LEMMA UploadKeeps ==
    ASSUME EInv, NEW s \in Session, UploadEnds(s)
    PROVE  EInv'
  <1>0. /\ NoStat \in Stat /\ 0 \in Text
        /\ sending' \in [Session -> Text] /\ check' \in [Session -> Stat]
        /\ \A x \in Session \ {s} : sending'[x] = sending[x]
    BY Texts DEF EInv, TypeOK, UploadEnds, NoStat, Stat
  <1>1. CASE Fail(s)
    <2>0. UNCHANGED uploaded
      BY <1>1 DEF UploadEnds, Fail, Round, EInv, TypeOK
    <2>1. remote' \in [text : Text, time : Nat]
      BY <1>1, LandTypes DEF EInv, TypeOK, UploadEnds
    <2>2. TypeOK'
      BY <1>0, <1>1, <2>0, <2>1, FailTypes, RoundTypes
         DEF EInv, TypeOK, UploadEnds, table, opening, Drain
    <2>3. Fits(s)'
      BY <1>1, FailFits DEF UploadEnds, Untouched, opening
    <2>4. ASSUME NEW x \in Session \ {s}
          PROVE  Fits(x)'
      <3>1. Same(x)
        BY <1>0, <1>1, <2>0, FailTypes, RoundTypes DEF EInv, UploadEnds, Same
      <3> QED
        BY <3>1, SameFits DEF EInv, UploadEnds, Untouched, opening
    <2> QED
      BY <2>2, <2>3, <2>4 DEF EInv
  <1>2. CASE ~Fail(s)
    <2>1. /\ Land(s) /\ drain' = [drain EXCEPT ![s] = "restat"] /\ UNCHANGED <<want, sync, failedAt>>
          /\ uploaded' = [uploaded EXCEPT ![s] = IF sending[s] \in Saved THEN sending[s] ELSE @]
      BY <1>2 DEF UploadEnds
    <2>2. uploaded' \in [Session -> 0..Saves]
      BY <2>1, Texts DEF EInv, TypeOK
    <2>3. TypeOK'
      BY <1>0, <2>1, <2>2, LandTypes DEF EInv, TypeOK, UploadEnds, table, opening
    <2>4. Fits(s)'
      <3>1. /\ drain'[s] = "restat" /\ want'[s] = want[s] /\ drain[s] = "send"
            /\ sending[s] \in Saved => uploaded'[s] = sending[s]
            /\ uploaded'[s] \in 0..Saves
        BY <2>1, <2>2 DEF EInv, TypeOK, UploadEnds
      <3>2. savedBy[s] \in 0..Saves /\ (savedBy[s] # 0 => savedBy[s] \in Saved)
        BY Texts DEF EInv, TypeOK, Saved
      <3> QED
        BY <3>1, <3>2 DEF EInv, UploadEnds, table, opening, Fits, Unborn, Asked, Follows, Synced
    <2>5. ASSUME NEW x \in Session \ {s}
          PROVE  Fits(x)'
      <3>1. Same(x)
        BY <1>0, <2>1 DEF EInv, TypeOK, UploadEnds, Same
      <3> QED
        BY <3>1, SameFits DEF EInv, UploadEnds, Untouched, opening
    <2> QED
      BY <2>3, <2>4, <2>5 DEF EInv
  <1> QED
    BY <1>1, <1>2

LEMMA VerifyKeeps ==
    ASSUME EInv, NEW s \in Session, Verify(s)
    PROVE  EInv'
  <1>1. PICK state \in {"idle", "failed"} : Round(s, state)
    BY DEF Verify, Fail
  <1>2. /\ state \in SyncState /\ failedAt' \in [Session -> 0..Saves]
        /\ base' \in [Session -> Stat] /\ listed' \in Stat \cup {None}
    BY <1>1, AnswerIsStat, FailTypes DEF EInv, TypeOK, Verify, AskStat, SyncState
  <1>3. TypeOK'
    BY <1>1, <1>2, RoundTypes DEF EInv, TypeOK, Verify, table, opening, Drain
  <1>4. Fits(s)'
    <2>1. /\ ~want'[s] /\ drain'[s] \in {"none", "confirm", "stat"}
          /\ drain'[s] = "none" => ~want[s]
          /\ drain'[s] = "stat" => confirmed[s]
      BY <1>1, <1>2, RoundTypes DEF EInv
    <2> QED
      BY <2>1 DEF EInv, Verify, table, opening, Fits, Unborn, Asked, Follows, Synced
  <1>5. ASSUME NEW x \in Session \ {s}
        PROVE  Fits(x)'
    <2>1. Same(x)
      BY <1>1, <1>2, RoundTypes DEF EInv, Verify, Same
    <2> QED
      BY <2>1, SameFits DEF EInv, Verify, Untouched, opening
  <1> QED
    BY <1>3, <1>4, <1>5 DEF EInv

LEMMA CloseKeeps ==
    ASSUME EInv, CloseDocument
    PROVE  EInv'
  <1>1. CASE current = None
    <2>1. TypeOK'
      BY <1>1 DEF EInv, TypeOK, CloseDocument, table, opening, history
    <2>2. ASSUME NEW x \in Session
          PROVE  Fits(x)'
      BY <1>1, <2>2 DEF EInv, CloseDocument, table, opening, history, Fits, Unborn, Asked,
                        Follows, Synced
    <2> QED
      BY <2>1, <2>2 DEF EInv
  <1>2. CASE current # None
    <2>1. PICK s \in Session : current = s
      BY <1>2 DEF EInv, TypeOK
    <2>2. /\ closing' = [closing EXCEPT ![s] = TRUE] /\ timer' = [timer EXCEPT ![s] = FALSE]
          /\ IF timer[s] THEN StartDrain(s) ELSE UNCHANGED <<want, drain, sync>>
          /\ doc' = FALSE
          /\ UNCHANGED <<remote, listed, local, table, opening, base, confirmed, check, sending,
                         history>>
      BY <1>2, <2>1 DEF CloseDocument
    <2>3. CASE timer[s]
      <3>1. TypeOK'
        BY <2>2, <2>3, DrainStarts DEF EInv, TypeOK, table, opening, history, Drain
      <3>2. Fits(s)'
        BY <2>1, <2>2, <2>3, StartFits DEF EInv, TypeOK, Untouched, opening, history
      <3>3. ASSUME NEW x \in Session \ {s}
            PROVE  Fits(x)'
        <4>1. Same(x)
          BY <2>2, <2>3, DrainStarts DEF EInv, Same, history
        <4> QED
          BY <2>2, <4>1, SameFits DEF EInv, TypeOK, Untouched, opening, history
      <3> QED
        BY <3>1, <3>2, <3>3 DEF EInv
    <2>4. CASE ~timer[s]
      <3>1. TypeOK'
        BY <2>2, <2>4 DEF EInv, TypeOK, table, opening, history
      <3>2. ASSUME NEW x \in Session
            PROVE  Fits(x)'
        BY <2>1, <2>2, <2>4, <3>2 DEF EInv, table, opening, history, Fits, Unborn, Asked,
                                      Follows, Synced, TypeOK
      <3> QED
        BY <3>1, <3>2 DEF EInv
    <2> QED
      BY <2>3, <2>4
  <1> QED
    BY <1>1, <1>2

----------------------------------------------------------------------------
\* The theorems.

LEMMA StutterKeeps ==
    ASSUME EInv, UNCHANGED vars
    PROVE  EInv'
  <1>1. TypeOK'
    BY DEF EInv, TypeOK, vars, files, table, opening, task, history
  <1>2. ASSUME NEW x \in Session
        PROVE  Fits(x)'
    BY <1>2 DEF EInv, Fits, Unborn, Asked, Follows, Synced, vars, files, table, opening, task,
                history
  <1> QED
    BY <1>1, <1>2 DEF EInv

LEMMA NextKeeps ==
    ASSUME EInv, [Next]_vars
    PROVE  EInv'
  <1>1. ASSUME NEW s \in Session, Open(s) \/ Advance(s)
        PROVE  EInv'
    BY <1>1, OpenKeeps, OpenStatKeeps, OpenFetchKeeps, TimerKeeps, ConfirmKeeps, CheckKeeps,
       ReadKeeps, ResolveKeeps, UploadKeeps, VerifyKeeps, FinishKeeps, RemoveKeeps DEF Advance
  <1>2. CASE User
    BY <1>2, SaveKeeps, CloseKeeps, DisposeKeeps DEF User
  <1> QED
    BY <1>1, <1>2, OthersKeep, StutterKeeps DEF Next

LEMMA Invariance == Spec => []EInv
  <1>1. EInv /\ [Next]_vars => EInv'
    BY NextKeeps
  <1> QED
    BY InitFits, <1>1, PTL DEF Spec

\* Every step keeps the edit sessions and the files within their types; an
\* upload always has a text to send.
THEOREM TypeCorrect == Spec => []TypeOK
  <1>1. EInv => TypeOK
    BY DEF EInv
  <1> QED
    BY <1>1, Invariance, PTL

\* The status bar's "synced" is true of every session that is registered, for any
\* number of overlapping opens, saves during uploads, failures and closes.
THEOREM SyncIsTrue == Spec => []SyncedMeansUploaded
  <1>1. EInv => SyncedMeansUploaded
    BY DEF EInv, Fits, Synced, SyncedMeansUploaded
  <1> QED
    BY <1>1, Invariance, PTL

----------------------------------------------------------------------------
\* What becomes of a save that has not been uploaded.

\* A registered session has settled its last save, has a task, or a debounce whose
\* end will find the save still waiting.
Tended(x) ==
    current = x => \/ uploaded[x] >= savedBy[x] \/ failedAt[x] >= savedBy[x]
                   \/ drain[x] # "none" \/ (timer[x] /\ want[x])

\* What a step may do to a session: leave it as it is, or leave it settled, with a
\* task, or with a debounce.
Handled(x) ==
    \/ /\ drain'[x] = drain[x] /\ want'[x] = want[x] /\ timer'[x] = timer[x]
       /\ savedBy'[x] = savedBy[x] /\ uploaded'[x] = uploaded[x] /\ failedAt'[x] = failedAt[x]
       /\ current' = current \/ current' # x
    \/ drain'[x] # "none" \/ failedAt'[x] >= savedBy'[x] \/ uploaded'[x] >= savedBy'[x]
    \/ timer'[x] /\ want'[x]
    \/ current' # x

LEMMA HandledKeeps ==
    ASSUME NEW x \in Session, Tended(x), Handled(x)
    PROVE  Tended(x)'
  BY DEF Tended, Handled

\* A task that is started takes the waiting save with it.
LEMMA StartHandles ==
    ASSUME EInv, NEW s \in Session, NEW x \in Session, Tended(x), StartDrain(s),
           timer' = [timer EXCEPT ![s] = FALSE], UNCHANGED <<current, history>>
    PROVE  Tended(x)'
  <1>1. /\ \A y \in Session \ {s} : want'[y] = want[y] /\ drain'[y] = drain[y]
        /\ \/ want'[s] = want[s] /\ drain'[s] = drain[s]
           \/ drain'[s] # "none"
        /\ want[s] => drain'[s] # "none"
    BY DrainStarts DEF EInv, StartDrain, Round, TypeOK
  <1>2. CASE x = s
    BY <1>1, <1>2 DEF Tended, history
  <1>3. CASE x # s
    BY <1>1, <1>3 DEF EInv, TypeOK, Tended, history
  <1> QED
    BY <1>2, <1>3

\* An attempt that fails is shown, after all the saves that the session has seen.
LEMMA FailHandles ==
    ASSUME EInv, NEW s \in Session, NEW x \in Session, Fail(s),
           UNCHANGED <<current, timer, savedBy, uploaded>>
    PROVE  Handled(x)
  <1>1. Round(s, "failed") /\ failedAt' = [failedAt EXCEPT ![s] = savedBy[s]]
    BY DEF Fail, ShowFailure
  <1>2. CASE x = s
    BY <1>1, <1>2 DEF EInv, TypeOK, Handled
  <1>3. CASE x # s
    BY <1>1, <1>3 DEF EInv, TypeOK, Handled, Round
  <1> QED
    BY <1>2, <1>3

LEMMA TaskHandles ==
    ASSUME EInv, NEW s \in Session, NEW x \in Session,
           CheckStat(s) \/ ReadLocal(s) \/ ResolveConflict(s) \/ UploadEnds(s)
    PROVE  Handled(x)
  <1>0. UNCHANGED <<current, timer, savedBy>> /\ drain[s] # "none"
    BY DEF CheckStat, ReadLocal, ResolveConflict, UploadEnds, table
  <1>1. CASE Fail(s) /\ UNCHANGED uploaded
    BY <1>0, <1>1, FailHandles
  <1>2. CASE ~Fail(s)
    <2>1. /\ UNCHANGED <<want, failedAt>>
          /\ \E place \in Drain \ {"none"} : drain' = [drain EXCEPT ![s] = place]
          /\ \E n \in Nat : uploaded' \in {uploaded, [uploaded EXCEPT ![s] = n]}
      <3>1. CASE CheckStat(s)
        BY <1>2, <3>1 DEF CheckStat, Drain
      <3>2. CASE ReadLocal(s)
        BY <1>2, <3>2 DEF ReadLocal, Send, Drain
      <3>3. CASE ResolveConflict(s)
        BY <1>2, <3>3 DEF ResolveConflict, Drain
      <3>4. CASE UploadEnds(s)
        <4>1. sending[s] \in Nat /\ uploaded[s] \in Nat
          BY EditAssumption DEF EInv, TypeOK, Text
        <4> DEFINE n == IF sending[s] \in Saved THEN sending[s] ELSE uploaded[s]
        <4>2. /\ UNCHANGED <<want, failedAt>> /\ drain' = [drain EXCEPT ![s] = "restat"]
              /\ uploaded' = [uploaded EXCEPT ![s] = n] /\ n \in Nat
          BY <1>2, <3>4, <4>1 DEF UploadEnds
        <4> HIDE DEF n
        <4> QED
          BY <4>2 DEF Drain
      <3> QED
        BY <3>1, <3>2, <3>3, <3>4
    <2>2. CASE x = s
      BY <2>1, <2>2 DEF EInv, TypeOK, Handled
    <2>3. CASE x # s
      BY <1>0, <2>1, <2>3 DEF EInv, TypeOK, Handled
    <2> QED
      BY <2>2, <2>3
  <1>3. Fail(s) => UNCHANGED uploaded
    BY DEF CheckStat, ReadLocal, ResolveConflict, UploadEnds, Fail, Round, EInv, TypeOK
  <1> QED
    BY <1>1, <1>2, <1>3

LEMMA VerifyHandles ==
    ASSUME EInv, NEW s \in Session, NEW x \in Session, Verify(s)
    PROVE  Handled(x)
  <1>0. UNCHANGED <<current, timer, savedBy, uploaded>> /\ drain[s] = "restat"
    BY DEF Verify, table
  <1>1. CASE Fail(s)
    BY <1>0, <1>1, FailHandles
  <1>2. CASE Round(s, "idle") /\ UNCHANGED failedAt
    <2>1. CASE x = s
      <3>1. want[s] => drain'[s] # "none"
        BY <1>2 DEF Round, EInv, TypeOK
      <3>2. ~want[s] /\ current = s => uploaded[s] >= savedBy[s]
        BY <1>0 DEF EInv, Fits, Follows
      <3> QED
        BY <1>0, <2>1, <3>1, <3>2 DEF Handled
    <2>2. CASE x # s
      BY <1>0, <1>2, <2>2 DEF EInv, TypeOK, Handled, Round
    <2> QED
      BY <2>1, <2>2
  <1> QED
    BY <1>1, <1>2 DEF Verify

LEMMA ConfirmHandles ==
    ASSUME EInv, NEW s \in Session, NEW x \in Session, Confirm(s)
    PROVE  Handled(x)
  <1>0. UNCHANGED <<current, timer, want, savedBy, uploaded>>
    BY DEF Confirm, table
  <1>1. CASE x = s
    BY <1>0, <1>1 DEF EInv, TypeOK, Confirm, ShowFailure, Handled
  <1>2. CASE x # s
    BY <1>0, <1>2 DEF EInv, TypeOK, Confirm, ShowFailure, Handled
  <1> QED
    BY <1>1, <1>2

\* A session that is registered has seen no save yet.
LEMMA OpeningHandles ==
    ASSUME EInv, NEW s \in Session, NEW x \in Session,
           Open(s) \/ OpenStat(s) \/ OpenFetch(s) \/ RemoveCopy(s) \/ FinishClose(s)
    PROVE  Handled(x)
  <1>0. UNCHANGED <<drain, want, timer, savedBy, uploaded, failedAt>>
    BY DEF Open, OpenStat, OpenFetch, RemoveCopy, FinishClose, task, history
  <1>1. CASE current' = current
    BY <1>0, <1>1 DEF Handled
  <1>2. CASE OpenFetch(s) /\ current' = s
    <2>1. savedBy[s] = 0 /\ uploaded[s] \in 0..Saves
      BY <1>2 DEF EInv, TypeOK, Fits, Unborn, OpenFetch
    <2> QED
      BY <1>0, <1>2, <2>1 DEF Handled
  <1>3. CASE FinishClose(s) /\ current' = None
    BY <1>3, Texts DEF Handled
  <1> QED
    BY <1>1, <1>2, <1>3 DEF Open, OpenStat, OpenFetch, RemoveCopy, FinishClose, table

LEMMA UserHandles ==
    ASSUME EInv, NEW x \in Session, Tended(x), User \/ Others
    PROVE  Tended(x)'
  <1>1. CASE Save
    <2>1. CASE current = None
      BY <1>1, <2>1 DEF Save, table, Tended
    <2>2. CASE current = x
      BY <1>1, <2>2, Texts DEF Save, table, Tended, EInv, TypeOK
    <2>3. CASE current # None /\ current # x
      BY <1>1, <2>3 DEF Save, table, Tended
    <2> QED
      BY <2>1, <2>2, <2>3
  <1>2. CASE CloseDocument
    <2>0. UNCHANGED <<current, history>>
      BY <1>2 DEF CloseDocument, table
    <2>1. CASE current = None
      BY <1>2, <2>0, <2>1, Texts DEF Tended
    <2>2. CASE current # None /\ timer[current]
      BY <1>2, <2>0, <2>2, StartHandles DEF CloseDocument, EInv, TypeOK
    <2>3. CASE current # None /\ ~timer[current]
      BY <1>2, <2>0, <2>3 DEF CloseDocument, EInv, TypeOK, Tended, history
    <2> QED
      BY <2>1, <2>2, <2>3
  <1>3. CASE Dispose
    BY <1>3, Texts DEF Dispose, Tended
  <1>4. CASE Others
    BY <1>4 DEF Others, ForeignWrite, ExpireListing, table, task, history, Tended
  <1> QED
    BY <1>1, <1>2, <1>3, <1>4 DEF User

LEMMA StepHandles ==
    ASSUME EInv, [Next]_vars, NEW x \in Session, Tended(x)
    PROVE  Tended(x)'
  <1>1. ASSUME NEW s \in Session, TimerFires(s)
        PROVE  Tended(x)'
    BY <1>1, StartHandles DEF TimerFires, table
  <1>2. ASSUME NEW s \in Session, Open(s) \/ Advance(s)
        PROVE  Tended(x)'
    BY <1>1, <1>2, HandledKeeps, TaskHandles, VerifyHandles, ConfirmHandles, OpeningHandles DEF Advance
  <1>3. CASE UNCHANGED vars
    BY <1>3 DEF vars, table, task, history, Tended
  <1> QED
    BY <1>2, <1>3, UserHandles DEF Next

\* No save of a registered session is forgotten between debounce, joined tasks, closes
\* that flush and rounds that fail: it is on the server, or shown as failed, or there
\* is a timer or a task that will see to it (scheduleUpload, startUploadDrain,
\* drainUploadQueue), for any number of overlapping opens.
THEOREM SavesAreWorkedOn == Spec => []UnsyncedMeansAtWork
  <1>1. Init => \A x \in Session : Tended(x)
    BY DEF Init, Tended
  <1>2. EInv /\ (\A x \in Session : Tended(x)) /\ [Next]_vars => (\A x \in Session : Tended(x))'
    BY StepHandles
  <1>3. EInv /\ (\A x \in Session : Tended(x)) => UnsyncedMeansAtWork
    BY DEF EInv, TypeOK, Tended, UnsyncedMeansAtWork
  <1> QED
    BY <1>1, <1>2, <1>3, Invariance, PTL DEF Spec

----------------------------------------------------------------------------
\* The conflict check.  It compares sizes and times, and times may stand still:
\* the invariant follows the last text of somebody else as long as nobody has
\* been told of it and its size tells it from every other text.

Latest == IF foreign = 0 THEN 0 ELSE Saves + foreign

\* Texts that may be uploaded unasked: the user's own, and what he has been told of.
Ours == Saved \cup knows

\* The remote file holds a text that nobody has been told of and that its size tells.
Strange == remote.text = Latest /\ Latest \notin Ours /\ Told(Latest)

\* The texts that there have been, and the stats that are of one of them.
Past == 0..Saves + foreign
Dated(stat) == stat.text \in Past /\ stat.size = Size[stat.text]

\* What is written is ours: what the cache file holds and an upload sends.
Honest ==
    /\ remote.text \in Ours \cup {Latest}
    /\ local \in Ours \cup {None}
    /\ \A s \in Session : drain[s] = "send" => sending[s] \in Ours

\* A session that has read its base stat, and one that is open with it; a session
\* that has taken the stat of its conflict check, and one that has passed it.
HasBase(s) == life[s] \in {"fetch", "open", "removing", "closed"}
Based(s) == life[s] \in {"open", "removing", "closed"}
Checked(s) == drain[s] \in {"ask", "read", "send"}
Cleared(s) == drain[s] \in {"read", "send"}

\* Whatever has been read is a thing of the past.
Old ==
    /\ knows \subseteq Past /\ \A s \in Session : sample[s] \in Past \cup {None}
    /\ listed # None => Dated(listed)
    /\ \A s \in Session : /\ HasBase(s) => Dated(base[s])
                          /\ Checked(s) => Dated(check[s])

\* The stats on which a session relies are not of the strange text.
Wary(s) ==
    Strange => /\ Based(s) => base[s].text # Latest
               /\ Cleared(s) => check[s].text # Latest

AskInv == Honest /\ Old /\ \A s \in Session : Wary(s)

LEMMA LatestIsText ==
    ASSUME TypeOK
    PROVE  /\ foreign \in Nat /\ Latest \in Past /\ Past \subseteq Text /\ Saved \subseteq Past
           /\ None \notin Past /\ 0 \in Past
  <1>1. foreign \in 0..Foreign /\ Saves \in Nat /\ Foreign \in Nat
    BY Texts DEF TypeOK
  <1>2. Past \subseteq Text /\ Latest \in Past /\ Saved \subseteq Past /\ 0 \in Past
    BY <1>1 DEF Latest, Past, Text, Saved
  <1>3. foreign \in Nat
    BY <1>1
  <1>4. None \notin Past
    BY <1>2, Texts, Zenon
  <1> QED
    BY <1>2, <1>3, <1>4

LEMMA OursArePast ==
    ASSUME TypeOK, AskInv
    PROVE  Ours \subseteq Past /\ remote.text \in Past
  BY LatestIsText DEF AskInv, Honest, Old, Ours

LEMMA AnswerDated ==
    ASSUME TypeOK, AskInv
    PROVE  Answer \in Stat /\ Dated(Answer)
  <1>1. remote.text \in Past /\ remote \in [text : Text, time : Nat]
    BY OursArePast DEF TypeOK
  <1> QED
    BY <1>1, AnswerIsStat, StatIsStat DEF Answer, AskInv, Old, Dated

\* Only one text of the past has the size of the strange one.
LEMMA ToldApart ==
    ASSUME TypeOK, Strange, NEW stat, Dated(stat), stat.size = Size[Latest]
    PROVE  stat.text = Latest
  BY LatestIsText DEF Strange, Told, Dated

LEMMA InitAsks == ASSUME Init PROVE AskInv
  <1>1. 0 \in Past /\ Latest = 0 /\ foreign = 0 /\ None # 0
    BY Texts, EditAssumption DEF Init, Past, Latest, Text
  <1> QED
    BY <1>1 DEF Init, AskInv, Honest, Old, Wary, HasBase, Based, Checked, Cleared

\* What a step may do to the stats and the work of a session that is none of its
\* business.
Calm(x) ==
    /\ sample'[x] \in {sample[x], None, remote.text}
    /\ \/ base'[x] = base[x] /\ (HasBase(x)' => HasBase(x)) /\ (Based(x)' => Based(x))
       \/ base'[x] = Answer /\ ~Based(x)'
    /\ \/ check'[x] = check[x] /\ (Checked(x)' => Checked(x)) /\ (Cleared(x)' => Cleared(x))
       \/ check'[x] = Answer /\ ~Cleared(x)'
       \/ ~Checked(x)'
    /\ drain'[x] = "send" => \/ drain[x] = "send" /\ sending'[x] = sending[x]
                             \/ local # None /\ sending'[x] = local

\* What it may do to the files, and to what the user has been told of.
FilesStay ==
    /\ remote' = remote /\ foreign' = foreign /\ knows' = knows
    /\ listed' \in {listed, None, Answer} /\ local' \in {local, None} \cup Saved

LEMMA CalmAsks ==
    ASSUME EInv, AskInv, FilesStay, NEW x \in Session, Calm(x)
    PROVE  /\ sample'[x] \in Past' \cup {None}
           /\ HasBase(x)' => Dated(base[x])'
           /\ Checked(x)' => Dated(check[x])'
           /\ Wary(x)'
           /\ drain'[x] = "send" => sending'[x] \in Ours'
  <1>1. Past' = Past /\ Latest' = Latest /\ Ours' = Ours /\ (Strange' <=> Strange)
    BY DEF FilesStay, Past, Latest, Ours, Strange, Told
  <1>2. Dated(Answer) /\ remote.text \in Past
    BY AnswerDated, OursArePast DEF EInv
  <1>3. sample'[x] \in Past' \cup {None}
    BY <1>1, <1>2 DEF Calm, AskInv, Old
  <1>4. HasBase(x)' => Dated(base[x])'
    BY <1>1, <1>2 DEF Calm, AskInv, Old, Dated
  <1>5. Checked(x)' => Dated(check[x])'
    BY <1>1, <1>2 DEF Calm, AskInv, Old, Dated, Checked, Cleared
  <1>6. Wary(x)'
    BY <1>1 DEF Calm, AskInv, Wary, Checked, Cleared
  <1>7. drain'[x] = "send" => sending'[x] \in Ours'
    BY <1>1 DEF Calm, AskInv, Honest
  <1> QED
    BY <1>3, <1>4, <1>5, <1>6, <1>7

LEMMA FilesAsk ==
    ASSUME EInv, AskInv, FilesStay
    PROVE  /\ remote'.text \in Ours' \cup {Latest'} /\ local' \in Ours' \cup {None}
           /\ knows' \subseteq Past' /\ (listed' # None => Dated(listed)')
  <1>1. Past' = Past /\ Latest' = Latest /\ Ours' = Ours
    BY DEF FilesStay, Past, Latest, Ours
  <1>2. Dated(Answer)
    BY AnswerDated DEF EInv
  <1> QED
    BY <1>1, <1>2 DEF FilesStay, AskInv, Honest, Old, Dated, Ours

\* A step that is calm for every session.
LEMMA CalmKeeps ==
    ASSUME EInv, AskInv, FilesStay, \A x \in Session : Calm(x)
    PROVE  AskInv'
  <1>1. ASSUME NEW x \in Session
        PROVE  /\ sample'[x] \in Past' \cup {None}
               /\ HasBase(x)' => Dated(base[x])'
               /\ Checked(x)' => Dated(check[x])'
               /\ Wary(x)'
               /\ drain'[x] = "send" => sending'[x] \in Ours'
    <2>1. Calm(x)
      BY <1>1
    <2> QED
      BY <2>1, CalmAsks
  <1>2. /\ remote'.text \in Ours' \cup {Latest'} /\ local' \in Ours' \cup {None}
        /\ knows' \subseteq Past' /\ (listed' # None => Dated(listed)')
    BY FilesAsk
  <1>3. Honest'
    BY <1>1, <1>2 DEF Honest
  <1>4. Old'
    BY <1>1, <1>2 DEF Old
  <1> QED
    BY <1>1, <1>3, <1>4 DEF AskInv

----------------------------------------------------------------------------
\* The calm actions.

\* What Round, Fail and Send do to the session that goes on.
LEMMA RoundCalm ==
    ASSUME TypeOK, NEW s \in Session, NEW state, Round(s, state)
    PROVE  /\ \A x \in Session : x # s => drain'[x] = drain[x]
           /\ drain'[s] \in {"none", "confirm", "stat"}
  BY DEF Round, TypeOK

LEMMA StartCalm ==
    ASSUME TypeOK, NEW s \in Session, StartDrain(s)
    PROVE  /\ \A x \in Session : x # s => drain'[x] = drain[x]
           /\ drain'[s] = drain[s] \/ drain'[s] \in {"none", "confirm", "stat"}
  BY RoundCalm DEF StartDrain

\* A step of one task that leaves the stats alone and uploads nothing.
LEMMA TaskAsks ==
    ASSUME EInv, AskInv, FilesStay, NEW s \in Session,
           \A x \in Session : x # s => drain'[x] = drain[x],
           drain'[s] = drain[s] \/ drain'[s] \in {"none", "confirm", "stat", "restat"},
           base' = base, life' = life, sample' = sample,
           \A x \in Session : x # s => check'[x] = check[x] /\ sending'[x] = sending[x],
           drain'[s] = drain[s] => check'[s] = check[s] /\ sending'[s] = sending[s]
    PROVE  AskInv'
  <1>1. ASSUME NEW x \in Session
        PROVE  Calm(x)
    BY <1>1 DEF Calm, HasBase, Based, Checked, Cleared
  <1> QED
    BY <1>1, CalmKeeps

LEMMA RestAsks ==
    ASSUME EInv, AskInv, FilesStay, drain' = drain, base' = base, check' = check,
           sending' = sending, sample' = sample,
           \A x \in Session : Based(x)' => Based(x),
           \A x \in Session : HasBase(x)' => HasBase(x)
    PROVE  AskInv'
  <1>1. ASSUME NEW x \in Session
        PROVE  Calm(x)
    BY <1>1 DEF Calm, Checked, Cleared
  <1> QED
    BY <1>1, CalmKeeps

LEMMA OthersAsk ==
    ASSUME EInv, AskInv, ExpireListing \/ UNCHANGED vars
    PROVE  AskInv'
  BY RestAsks
     DEF ExpireListing, vars, files, table, opening, task, history, FilesStay, Based, HasBase

LEMMA OpenAsks ==
    ASSUME EInv, AskInv, NEW s \in Session, Open(s)
    PROVE  AskInv'
  <1>1. FilesStay
    BY DEF Open, FilesStay, history, table
  <1>2. ASSUME NEW x \in Session
        PROVE  Calm(x)
    BY <1>2 DEF Open, Calm, task, EInv, TypeOK, HasBase, Based, Checked, Cleared
  <1> QED
    BY <1>1, <1>2, CalmKeeps

LEMMA OpenStatAsks ==
    ASSUME EInv, AskInv, NEW s \in Session, OpenStat(s)
    PROVE  AskInv'
  <1>1. FilesStay
    BY DEF OpenStat, AskStat, FilesStay, history, table
  <1>2. ASSUME NEW x \in Session
        PROVE  Calm(x)
    BY <1>2 DEF OpenStat, Calm, EInv, TypeOK, HasBase, Based, Checked, Cleared
  <1> QED
    BY <1>1, <1>2, CalmKeeps

LEMMA LeaveAsks ==
    ASSUME EInv, AskInv, NEW s \in Session, FinishClose(s) \/ RemoveCopy(s)
    PROVE  AskInv'
  <1>1. FilesStay
    BY DEF FinishClose, RemoveCopy, files, FilesStay, history, table
  <1>2. \A x \in Session : (Based(x)' => Based(x)) /\ (HasBase(x)' => HasBase(x))
    BY DEF FinishClose, RemoveCopy, EInv, TypeOK, Fits, Unborn, Based, HasBase
  <1> QED
    BY <1>1, <1>2, RestAsks DEF FinishClose, RemoveCopy, task

LEMMA UserAsks ==
    ASSUME EInv, AskInv, User
    PROVE  AskInv'
  <1>1. CASE Save
    <2>1. saves + 1 \in Saved
      BY <1>1, Texts DEF Save, EInv, TypeOK, Saved
    <2>2. FilesStay
      BY <1>1, <2>1 DEF Save, FilesStay, table
    <2> QED
      BY <1>1, <2>2, RestAsks DEF Save, opening, Based, HasBase
  <1>2. CASE Dispose
    BY <1>2, RestAsks DEF Dispose, files, opening, history, FilesStay, Based, HasBase
  <1>3. CASE CloseDocument
    <2>1. FilesStay /\ base' = base /\ life' = life /\ sample' = sample /\ check' = check
          /\ sending' = sending
      BY <1>3 DEF CloseDocument, FilesStay, table, opening, history
    <2>2. CASE drain' = drain
      BY <2>1, <2>2, RestAsks DEF Based, HasBase
    <2>3. CASE drain' # drain
      <3>1. current \in Session /\ StartDrain(current)
        BY <1>3, <2>3 DEF CloseDocument, EInv, TypeOK
      <3> QED
        BY <2>1, <3>1, StartCalm, TaskAsks DEF EInv
    <2> QED
      BY <2>2, <2>3
  <1> QED
    BY <1>1, <1>2, <1>3 DEF User

LEMMA TimerAsks ==
    ASSUME EInv, AskInv, NEW s \in Session, TimerFires(s) \/ Confirm(s)
    PROVE  AskInv'
  <1>1. FilesStay /\ base' = base /\ life' = life /\ sample' = sample /\ check' = check
        /\ sending' = sending
    BY DEF TimerFires, Confirm, files, table, opening, history, FilesStay
  <1>2. /\ \A x \in Session : x # s => drain'[x] = drain[x]
        /\ drain'[s] = drain[s] \/ drain'[s] \in {"none", "confirm", "stat", "restat"}
    BY StartCalm DEF TimerFires, Confirm, EInv, TypeOK
  <1> QED
    BY <1>1, <1>2, TaskAsks

LEMMA FailAsks ==
    ASSUME EInv, AskInv, NEW s \in Session, Fail(s), FilesStay,
           base' = base, life' = life, sample' = sample,
           \A x \in Session : x # s => check'[x] = check[x] /\ sending'[x] = sending[x],
           drain[s] \notin {"none", "confirm", "stat"} \/ (check' = check /\ sending' = sending)
    PROVE  AskInv'
  BY RoundCalm, TaskAsks DEF Fail, EInv

LEMMA ReadAsks ==
    ASSUME EInv, AskInv, NEW s \in Session, ReadLocal(s)
    PROVE  AskInv'
  <1>1. FilesStay /\ base' = base /\ life' = life /\ sample' = sample /\ check' = check
    BY DEF ReadLocal, Send, Fail, Round, table, opening, FilesStay
  <1>2. CASE Fail(s) /\ UNCHANGED sending
    BY <1>1, <1>2, FailAsks
  <1>3. CASE ~(Fail(s) /\ UNCHANGED sending)
    <2>1. /\ local # None /\ drain' = [drain EXCEPT ![s] = "send"]
          /\ sending' = [sending EXCEPT ![s] = local] /\ drain[s] = "read"
      BY <1>3 DEF ReadLocal, Send
    <2>2. ASSUME NEW x \in Session
          PROVE  Calm(x)
      BY <1>1, <2>1, <2>2 DEF Calm, HasBase, Based, Checked, Cleared, EInv, TypeOK
    <2> QED
      BY <1>1, <2>2, CalmKeeps
  <1> QED
    BY <1>2, <1>3

----------------------------------------------------------------------------
\* The actions that touch a stat, the remote file or what the user knows.

LEMMA WriteAsks ==
    ASSUME EInv, AskInv, ForeignWrite
    PROVE  AskInv'
  <1>1. remote'.text = Saves + foreign + 1 /\ foreign' = foreign + 1 /\ foreign \in Nat
    <2>1. foreign \in 0..Foreign /\ foreign < Foreign /\ foreign \in Nat
      BY Texts DEF ForeignWrite, EInv, TypeOK
    <2>2. Saves + foreign + 1 \in Text
      BY <2>1, Texts
    <2> QED
      BY <2>1, <2>2, WriteIsFile DEF ForeignWrite, EInv
  <1>2. Latest' = Saves + foreign + 1 /\ Latest' \notin Past /\ Past \subseteq Past'
    BY <1>1, Texts DEF Latest, Past
  <1>3. /\ base' = base /\ check' = check /\ listed' = listed /\ local' = local /\ life' = life
        /\ drain' = drain /\ sending' = sending /\ sample' = sample /\ knows' = knows
        /\ Ours' = Ours
    BY DEF ForeignWrite, task, opening, table, Ours
  <1>4. Honest'
    BY <1>1, <1>2, <1>3 DEF AskInv, Honest
  <1>5. Old'
    BY <1>2, <1>3 DEF AskInv, Old, Dated, HasBase, Checked
  <1>6. ASSUME NEW s \in Session
        PROVE  Wary(s)'
    BY <1>2, <1>3, <1>6 DEF AskInv, Old, Dated, Wary, HasBase, Based, Checked, Cleared
  <1> QED
    BY <1>4, <1>5, <1>6 DEF AskInv

\* A strange text that the cache file is not opened with is not the base either: had
\* the base its size, one of the two texts would have been read from it.
LEMMA OpenFetchAsks ==
    ASSUME EInv, AskInv, NEW s \in Session, OpenFetch(s)
    PROVE  AskInv'
  <1>1. /\ remote' = remote /\ listed' = listed /\ foreign' = foreign /\ base' = base
        /\ check' = check /\ drain' = drain /\ sending' = sending /\ life[s] = "fetch"
        /\ sample' = [sample EXCEPT ![s] = None]
        /\ \A x \in Session \ {s} : life'[x] = life[x]
        /\ Past' = Past /\ Latest' = Latest /\ Dated(base[s])
    BY DEF OpenFetch, task, EInv, TypeOK, Past, Latest, AskInv, Old, HasBase
  <1>2. Fetched(s) \in Past
    BY <1>1, OursArePast DEF Fetched, AskInv, Old, Dated, EInv
  <1>3. \/ knows' = knows /\ local' = local /\ life'[s] = "failed"
        \/ knows' = knows \cup {Fetched(s)} /\ local' = Fetched(s) /\ life'[s] = "open"
    BY DEF OpenFetch, EInv, TypeOK
  <1>4. Ours \subseteq Ours' /\ knows' \subseteq Past'
    BY <1>1, <1>2, <1>3 DEF Ours, AskInv, Old
  <1>5. Honest'
    BY <1>1, <1>3, <1>4 DEF AskInv, Honest, Ours
  <1>6. Old'
    <2>1. \A x \in Session : sample'[x] \in Past' \cup {None}
      BY <1>1 DEF AskInv, Old, EInv, TypeOK
    <2>2. \A x \in Session : HasBase(x)' => HasBase(x)
      BY <1>1 DEF HasBase
    <2> QED
      BY <1>1, <1>4, <2>1, <2>2 DEF AskInv, Old, Dated, Checked
  <1>7. Strange' => Strange
    BY <1>1, <1>4 DEF Strange, Told
  <1>8. ASSUME Strange', life'[s] = "open"
        PROVE  base[s].text # Latest
    <2>1. SUFFICES ASSUME base[s].text = Latest PROVE FALSE
      OBVIOUS
    <2>2. Strange /\ Fetched(s) # Latest
      BY <1>1, <1>3, <1>7, <1>8 DEF Strange, Ours
    <2>3. base[s].size = Size[Latest] /\ Latest = remote.text
      BY <1>1, <2>1, <2>2 DEF Dated, Strange
    <2>4. sample[s] # None => sample[s] \in Text
      BY DEF EInv, TypeOK
    <2> QED
      BY <2>1, <2>2, <2>3, <2>4 DEF Fetched, Strange, Told
  <1>9. ASSUME NEW x \in Session
        PROVE  Wary(x)'
    <2>1. CASE x = s
      BY <1>1, <1>3, <1>7, <1>8, <2>1 DEF AskInv, Wary, Based, Cleared
    <2>2. CASE x # s
      BY <1>1, <1>7, <2>2 DEF AskInv, Wary, Based, Cleared
    <2> QED
      BY <2>1, <2>2
  <1> QED
    BY <1>5, <1>6, <1>9 DEF AskInv

\* A check that matches the base is not of the strange text: the base has not its size.
LEMMA CheckAsks ==
    ASSUME EInv, AskInv, NEW s \in Session, CheckStat(s)
    PROVE  AskInv'
  <1>1. FilesStay /\ base' = base /\ life' = life /\ sample' = sample /\ sending' = sending
        /\ drain[s] = "stat"
    BY DEF CheckStat, AskStat, table, opening, FilesStay
  <1>2. CASE Fail(s) /\ UNCHANGED check
    BY <1>1, <1>2, FailAsks
  <1>3. CASE ~(Fail(s) /\ UNCHANGED check)
    <2>1. /\ check' = [check EXCEPT ![s] = Answer]
          /\ \/ Match(Answer, base[s]) /\ drain' = [drain EXCEPT ![s] = "read"]
             \/ drain' = [drain EXCEPT ![s] = "ask"]
      BY <1>3 DEF CheckStat
    <2>2. ASSUME NEW x \in Session \ {s}
          PROVE  Calm(x)
      BY <1>1, <2>1, <2>2 DEF Calm, HasBase, Based, Checked, Cleared, EInv, TypeOK
    <2>3. Past' = Past /\ Latest' = Latest /\ (Strange' <=> Strange) /\ Ours' = Ours
      BY <1>1 DEF FilesStay, Past, Latest, Strange, Ours, Told
    <2>4. check'[s] = Answer /\ Dated(Answer) /\ Based(s) /\ Based(s)'
      BY <1>1, <2>1, AnswerDated DEF EInv, TypeOK, Fits, Unborn, Based
    <2>5. ASSUME Strange, Cleared(s)'
          PROVE  Answer.text # Latest
      <3>1. Match(Answer, base[s])
        BY <2>1, <2>5 DEF Cleared, EInv, TypeOK
      <3>2. base[s].text # Latest /\ Dated(base[s])
        BY <2>4, <2>5 DEF AskInv, Wary, Old, HasBase, Based
      <3>3. base[s].size # Size[Latest]
        BY <2>5, <3>2, ToldApart DEF EInv
      <3> QED
        BY <2>4, <3>1, <3>3 DEF Match, Dated
    <2>6. Wary(s)'
      BY <1>1, <2>3, <2>4, <2>5 DEF AskInv, Wary
    <2>7. /\ sample'[s] \in Past' \cup {None} /\ drain'[s] # "send"
          /\ HasBase(s)' => Dated(base[s])'
          /\ Checked(s)' => Dated(check[s])'
      <3>1. drain'[s] # "send"
        BY <2>1 DEF EInv, TypeOK
      <3>2. HasBase(s)
        BY <2>4 DEF HasBase, Based
      <3> QED
        BY <1>1, <2>3, <2>4, <3>1, <3>2 DEF AskInv, Old, Dated
    <2>8. ASSUME NEW x \in Session \ {s}
          PROVE  /\ sample'[x] \in Past' \cup {None}
                 /\ HasBase(x)' => Dated(base[x])'
                 /\ Checked(x)' => Dated(check[x])'
                 /\ Wary(x)'
                 /\ drain'[x] = "send" => sending'[x] \in Ours'
      <3>1. Calm(x)
        BY <2>2
      <3> QED
        BY <1>1, <3>1, CalmAsks
    <2>9. Honest' /\ Old'
      BY <1>1, <2>7, <2>8, FilesAsk DEF Honest, Old
    <2> QED
      BY <2>6, <2>8, <2>9 DEF AskInv
  <1> QED
    BY <1>2, <1>3

\* Once the user has been told of a text, it is no longer strange.
LEMMA ResolveAsks ==
    ASSUME EInv, AskInv, NEW s \in Session, ResolveConflict(s)
    PROVE  AskInv'
  <1>1. /\ remote' = remote /\ listed' = listed /\ local' = local /\ foreign' = foreign
        /\ base' = base /\ check' = check /\ sending' = sending /\ sample' = sample
        /\ life' = life /\ drain[s] = "ask"
    BY DEF ResolveConflict, files, table, opening
  <1>2. CASE Fail(s) /\ UNCHANGED knows
    BY <1>1, <1>2, FailAsks DEF FilesStay
  <1>3. CASE ~(Fail(s) /\ UNCHANGED knows)
    <2>1. /\ drain' = [drain EXCEPT ![s] = "read"]
          /\ knows' = knows \cup {check[s].text}
      BY <1>3 DEF ResolveConflict
    <2>2. Dated(check[s]) /\ Past' = Past /\ Latest' = Latest
      BY <1>1 DEF AskInv, Old, Checked, Past, Latest
    <2>3. Ours \subseteq Ours' /\ check[s].text \in Ours' /\ knows' \subseteq Past'
      BY <2>1, <2>2 DEF Ours, AskInv, Old, Dated
    <2>4. Strange' => Strange /\ check[s].text # Latest
      BY <1>1, <2>2, <2>3 DEF Strange, Told
    <2>5. \A x \in Session \ {s} : drain'[x] = drain[x]
      BY <2>1 DEF EInv, TypeOK
    <2>6. drain'[s] = "read"
      BY <2>1 DEF EInv, TypeOK
    <2>7. Honest'
      BY <1>1, <2>2, <2>3, <2>5, <2>6 DEF AskInv, Honest
    <2>8. Old'
      BY <1>1, <2>2, <2>3, <2>5 DEF AskInv, Old, Dated, HasBase, Checked
    <2>9. ASSUME NEW x \in Session
          PROVE  Wary(x)'
      BY <1>1, <2>2, <2>4, <2>5, <2>6 DEF AskInv, Wary, Based, Cleared
    <2> QED
      BY <2>7, <2>8, <2>9 DEF AskInv
  <1> QED
    BY <1>2, <1>3

\* What an upload writes is ours.
LEMMA UploadAsks ==
    ASSUME EInv, AskInv, NEW s \in Session, UploadEnds(s)
    PROVE  AskInv'
  <1>1. /\ listed' = listed /\ local' = local /\ foreign' = foreign /\ knows' = knows
        /\ base' = base /\ sample' = sample /\ life' = life /\ drain[s] = "send"
        /\ \A x \in Session \ {s} : check'[x] = check[x] /\ sending'[x] = sending[x]
    BY DEF UploadEnds, table, opening, EInv, TypeOK
  <1>2. CASE remote' = remote /\ Fail(s)
    <2>1. FilesStay
      BY <1>1, <1>2 DEF FilesStay
    <2>2. \A x \in Session : x # s => check'[x] = check[x] /\ sending'[x] = sending[x]
      BY <1>1
    <2> QED
      BY <1>1, <1>2, <2>1, <2>2, FailAsks
  <1>3. CASE ~(remote' = remote /\ Fail(s))
    <2>1. Land(s) /\ (drain' = [drain EXCEPT ![s] = "restat"] \/ Fail(s))
      BY <1>3 DEF UploadEnds
    <2>2. /\ \A x \in Session \ {s} : drain'[x] = drain[x]
          /\ drain'[s] \in {"restat", "none", "confirm", "stat"}
      BY <2>1, RoundCalm DEF Fail, EInv, TypeOK
    <2>3. remote'.text \in Ours /\ Ours' = Ours /\ Past' = Past /\ Latest' = Latest
      BY <1>1, <2>1, LandTypes DEF AskInv, Honest, Ours, Past, Latest, EInv
    <2>4. Strange' => Strange
      BY <2>3 DEF Strange
    <2>5. Honest'
      BY <1>1, <2>2, <2>3 DEF AskInv, Honest
    <2>6. Old'
      BY <1>1, <2>2, <2>3 DEF AskInv, Old, Dated, HasBase, Checked
    <2>7. ASSUME NEW x \in Session
          PROVE  Wary(x)'
      BY <2>3, <2>7 DEF Wary, Strange
    <2> QED
      BY <2>5, <2>6, <2>7 DEF AskInv
  <1> QED
    BY <1>2, <1>3

\* A stat that is verified has the size of the cache file, which the strange text
\* has not.
LEMMA VerifyAsks ==
    ASSUME EInv, AskInv, NEW s \in Session, Verify(s)
    PROVE  AskInv'
  <1>1. /\ FilesStay /\ life' = life /\ sample' = sample /\ check' = check
        /\ sending' = sending /\ drain[s] = "restat"
    BY DEF Verify, AskStat, table, opening, FilesStay
  <1>2. CASE Fail(s) /\ base' = base
    BY <1>1, <1>2, FailAsks
  <1>3. CASE ~(Fail(s) /\ base' = base)
    <2>1. /\ VerifyUploadedContent(Answer) /\ base' = [base EXCEPT ![s] = Answer]
          /\ Round(s, "idle")
      BY <1>3 DEF Verify
    <2>2. /\ \A x \in Session \ {s} : drain'[x] = drain[x] /\ base'[x] = base[x]
          /\ drain'[s] \in {"none", "confirm", "stat"} /\ base'[s] = Answer
      BY <2>1, RoundCalm DEF EInv, TypeOK
    <2>3. Past' = Past /\ Latest' = Latest /\ (Strange' <=> Strange) /\ Ours' = Ours
      BY <1>1 DEF FilesStay, Past, Latest, Strange, Ours, Told
    <2>4. Dated(Answer)
      BY AnswerDated DEF EInv
    <2>5. Strange => Answer.text # Latest
      <3>1. SUFFICES ASSUME Strange, Answer.text = Latest PROVE FALSE
        OBVIOUS
      <3>2. local \in Ours /\ Size[local] = Size[Latest] /\ local \in Text
        BY <2>1, <2>4, <3>1
           DEF VerifyUploadedContent, Dated, AskInv, Honest, EInv, TypeOK
      <3> QED
        BY <3>1, <3>2 DEF Strange, Told
    <2>6. ASSUME NEW x \in Session
          PROVE  Wary(x)'
      BY <1>1, <2>2, <2>3, <2>5 DEF AskInv, Wary, Based, Cleared
    <2>7. Honest'
      BY <1>1, <2>2, FilesAsk DEF AskInv, Honest, FilesStay, Ours
    <2>8. Old'
      <3>1. ASSUME NEW x \in Session
            PROVE  /\ sample'[x] \in Past' \cup {None}
                   /\ HasBase(x)' => Dated(base[x])'
                   /\ Checked(x)' => Dated(check[x])'
        BY <1>1, <2>2, <2>3, <2>4, <3>1 DEF AskInv, Old, Dated, HasBase, Checked
      <3> QED
        BY <1>1, <3>1, FilesAsk DEF Old
    <2> QED
      BY <2>6, <2>7, <2>8 DEF AskInv
  <1> QED
    BY <1>2, <1>3

LEMMA NextAsks ==
    ASSUME EInv, AskInv, [Next]_vars
    PROVE  AskInv'
  <1>1. ASSUME NEW s \in Session, Open(s) \/ Advance(s)
        PROVE  AskInv'
    BY <1>1, OpenAsks, OpenStatAsks, OpenFetchAsks, TimerAsks, CheckAsks, ReadAsks, ResolveAsks,
       UploadAsks, VerifyAsks, LeaveAsks DEF Advance
  <1> QED
    BY <1>1, UserAsks, OthersAsk, WriteAsks DEF Next, Others

\* No change of somebody else that a conflict check has seen (uploadIfUnchanged) is
\* overwritten before the user has been asked, as long as its size tells it from
\* every other text: for any number of sessions, overlapping or one after the other,
\* of saves, of foreign changes between any two steps and of stats that the list
\* cache answers.
THEOREM SeenChangesAreKept == Spec => SeenChangesAreAsked
  <1>1. Init => EInv /\ AskInv
    BY InitFits, InitAsks
  <1>2. EInv /\ AskInv /\ [Next]_vars => AskInv'
    BY NextAsks
  <1>3. ASSUME EInv, AskInv, NEW s \in Session,
               drain[s] = "send", remote.text \notin Saved \cup knows, Told(remote.text)
        PROVE  check[s].text # remote.text
    BY <1>3 DEF AskInv, Honest, Ours, Wary, Strange, Cleared
  <1>4. EInv /\ AskInv /\ [Next]_vars
        => [\A s \in Session :
              /\ drain[s] = "send" /\ drain'[s] # "send" /\ remote' # remote
              /\ remote.text \notin Saved \cup knows /\ Told(remote.text)
              => check[s].text # remote.text]_vars
    BY <1>3
  <1> QED
    BY <1>1, <1>2, <1>4, Invariance, PTL DEF Spec, SeenChangesAreAsked

=============================================================================
