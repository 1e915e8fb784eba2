------------------------- MODULE ConfigStore_proofs -------------------------
(***************************************************************************)
(* Theorems about ConfigStore, for every set of bastions and of calls and  *)
(* every number of crashes.                                                *)
(***************************************************************************)
EXTENDS ConfigStore, TLAPS

----------------------------------------------------------------------------
\* The inductive invariants.

GoneSteps == {"bastionGone", "assetsGone", "nodesGone", "trustGone"}

\* Calls run once the migration is over, but for those of the trust overlay, and
\* nothing else is memoised before.
Quiet ==
    /\ migration \in {"none", "done", "failed"} => Migrator \notin unflushed
    /\ migration # "done" =>
          /\ \A c \in Calls : Running(c) => call[c].step = "trustSaved"
          /\ \A k \in Keys \ {"trust"} : cache[k] = NoCache

\* What the step of a call says of its kind, and what it has read.
StepsFit ==
    \A c \in Calls :
        /\ call[c].step \in {"started", "orgs"} => call[c].seen # Absent
        /\ call[c].step \in GoneSteps =>
              call[c].kind = "delete" /\ \A k \in Keys : call[c].kept[k] \in List
        /\ call[c].step = "editSaved" => call[c].kind = "edit"
        /\ call[c].step = "secret" => call[c].kind \in {"edit", "delete"}

CInv == TypeOK /\ Quiet /\ StepsFit /\ CachesAreCurrent

\* Calls that run at the same time have met.
Met == \A c, d \in Calls : c # d /\ Running(c) /\ Running(d) => d \in met[c]

\* The keys a deletion has still to update, from the lists it read at its start.
StillToWrite(c) ==
    CASE call[c].step = "bastionGone" -> {"assets", "nodes", "trust"}
      [] call[c].step = "assetsGone" -> {"nodes", "trust"}
      [] call[c].step = "nodesGone" -> {"trust"}
      [] OTHER -> {}

\* As long as a deletion has met nobody, those lists show the other bastions'
\* rows as they are stored, or are those of a key whose update has rejected.
KeptIsCurrent ==
    \A c \in Calls : met[c] = {} =>
        \A k \in StillToWrite(c) \ rejected, b \in Bastions \ {call[c].bastion} :
            call[c].kept[k][b] = memento.rows[k][b]

AInv == CInv /\ Met /\ KeptIsCurrent

Deleted == \E c \in Calls : call[c].kind = "delete" /\ call[c].bastion \in allocated
Profile(s) == s.rows["bastions"][newId]
Fresh(s) == s.settings /\ \A b \in Bastions : s.rows["bastions"][b] = Absent

\* Before the migration has allocated an id, a singleton install is as it was.
IdsFit ==
    /\ newId \in allocated \/ allocated = {}
    /\ allocated = {} =>
          /\ disk.settings = memento.settings /\ migration \in {"none", "done"}
          /\ memento.settings => /\ migration = "none" /\ secrets[Unstamped]
                                 /\ Fresh(memento) /\ Fresh(disk)

\* The profile that the migration has made, and its password.
ProfileInv ==
    ~Deleted /\ allocated # {} =>
        /\ Fresh(memento) \/ Profile(memento) # Absent
        /\ Fresh(disk) \/ Profile(disk) # Absent
        /\ migration # "none" => Profile(memento) # Absent
        /\ cache["bastions"] # NoCache => cache["bastions"][newId] # Absent
        /\ Profile(disk) # Absent => Profile(memento) # Absent
        /\ migration = "password" /\ Migrator \notin unflushed => Profile(disk) # Absent
        /\ migration = "drop" => secrets[newId] /\ Profile(disk) # Absent
        /\ secrets[Unstamped] \/ (secrets[newId] /\ Profile(disk) # Absent)

\* A call that has not started is none.
Unborn == \A c \in Calls : call[c].step = "idle" => call[c] = NoCall

PInv == CInv /\ Unborn /\ IdsFit /\ ProfileInv

----------------------------------------------------------------------------
\* Types: what an update, a call's step and a look at a list leave behind.

CallRec == [kind : Kinds, bastion : Bastions, step : Steps, seen : Row,
            kept : [Keys -> List \cup {NoCache}]]

mtypes == /\ memento \in Store /\ cache \in [Keys -> List \cup {NoCache}] /\ rejected \subseteq Keys
ctypes == /\ call \in [Calls -> CallRec] /\ met \in [Calls -> SUBSET Calls]
          /\ unflushed \subseteq Calls \cup {Migrator}
rtypes == /\ disk \in Store /\ secrets \in [Slots -> BOOLEAN] /\ crashes \in 0..MaxCrashes
          /\ migration \in {"none", "password", "drop", "assets", "nodes", "settings",
                            "forget", "done", "failed"}
          /\ newId \in Slots /\ allocated \subseteq Bastions

LEMMA TypesSplit == TypeOK <=> mtypes /\ ctypes /\ rtypes
  BY DEF TypeOK, mtypes, ctypes, rtypes, CallRec

LEMMA TypesSplitNext == TypeOK' <=> mtypes' /\ ctypes' /\ rtypes'
  BY DEF TypeOK, mtypes, ctypes, rtypes, CallRec

LEMMA SlotFacts ==
    /\ Unstamped \in Slots
    /\ \A b \in Bastions : b \in Slots /\ b # Unstamped
    /\ Absent \in Row /\ Imported \in Row /\ \A c \in Calls : c \in Row /\ c # Absent
    /\ EmptyList \in List
  BY ConfigAssumption DEF Slots, Row, EmptyList, List

\* What a list reads as, and what it is with the rows of one bastion replaced.
LEMMA ListedTyped ==
    ASSUME mtypes, NEW k \in Keys
    PROVE  /\ Listed(k) \in List
           /\ cache[k] # NoCache => Listed(k) = cache[k]
           /\ cache[k] = NoCache => Listed(k) = [memento.rows[k] EXCEPT ![Unstamped] = Absent]
           /\ \A b \in Bastions, row \in Row : [Listed(k) EXCEPT ![b] = row] \in List
  <1>1. memento.rows[k] \in List
    BY DEF mtypes, Store
  <1>2. [memento.rows[k] EXCEPT ![Unstamped] = Absent] \in List
    BY <1>1, SlotFacts DEF List
  <1>3. cache[k] # NoCache => cache[k] \in List
    BY DEF mtypes
  <1>4. Listed(k) \in List
    BY <1>2, <1>3 DEF Listed
  <1>5. \A b \in Bastions, row \in Row : [Listed(k) EXCEPT ![b] = row] \in List
    BY <1>4, SlotFacts DEF List
  <1> QED BY <1>4, <1>5 DEF Listed

LEMMA UpdateTyped ==
    ASSUME mtypes, NEW k \in Keys, NEW list \in List, NEW c, Update(c, k, list)
    PROVE  /\ memento' \in Store /\ memento'.rows[k] = list
           /\ \A j \in Keys \ {k} : memento'.rows[j] = memento.rows[j]
           /\ memento'.settings = memento.settings
           /\ unflushed' = unflushed \cup {c}
  BY DEF Update, mtypes, Store

LEMMA GoTyped ==
    ASSUME ctypes, NEW c \in Calls, NEW step \in Steps, Go(c, step)
    PROVE  /\ call' \in [Calls -> CallRec]
           /\ call'[c].step = step
           /\ \A d \in Calls : /\ call'[d].kind = call[d].kind
                               /\ call'[d].bastion = call[d].bastion
                               /\ call'[d].seen = call[d].seen
                               /\ call'[d].kept = call[d].kept
                               /\ d # c => call'[d] = call[d]
  BY DEF Go, ctypes, CallRec

LEMMA BeginTyped ==
    ASSUME ctypes, NEW c \in Calls, NEW kind \in Kinds, NEW b \in Bastions,
           NEW step \in Steps, NEW seen \in Row, NEW kept \in [Keys -> List \cup {NoCache}],
           Begin(c, kind, b, step, seen, kept)
    PROVE  /\ call' \in [Calls -> CallRec] /\ met' \in [Calls -> SUBSET Calls]
           /\ call'[c] = [kind |-> kind, bastion |-> b, step |-> step,
                          seen |-> seen, kept |-> kept]
           /\ \A d \in Calls : d # c => call'[d] = call[d]
           /\ met'[c] = {d \in Calls : Running(d)}
           /\ \A d \in Calls : d # c => met'[d] = IF Running(d) THEN met[d] \cup {c} ELSE met[d]
  <1>1. /\ call' = [call EXCEPT ![c] = [kind |-> kind, bastion |-> b, step |-> step,
                                        seen |-> seen, kept |-> kept]]
        /\ met' = [d \in Calls |-> IF d = c THEN {x \in Calls : Running(x)}
                                   ELSE IF d \in {x \in Calls : Running(x)}
                                        THEN met[d] \cup {c} ELSE met[d]]
    BY DEF Begin
  <1>2. [kind |-> kind, bastion |-> b, step |-> step, seen |-> seen, kept |-> kept] \in CallRec
    BY DEF CallRec
  <1>3. /\ call' \in [Calls -> CallRec]
        /\ call'[c] = [kind |-> kind, bastion |-> b, step |-> step,
                       seen |-> seen, kept |-> kept]
        /\ \A d \in Calls : d # c => call'[d] = call[d]
    BY <1>1, <1>2 DEF ctypes
  <1>4. /\ met' \in [Calls -> SUBSET Calls]
        /\ met'[c] = {d \in Calls : Running(d)}
        /\ \A d \in Calls : d # c => met'[d] = IF Running(d) THEN met[d] \cup {c} ELSE met[d]
    BY <1>1 DEF ctypes
  <1> QED BY <1>3, <1>4

\* The caches stay current over a step when each list, if it is memoised at all,
\* reads as before and is stored as before, or has a call that will clear it.
LEMMA CachesKept ==
    ASSUME mtypes, CachesAreCurrent,
           \A k \in Keys :
              \/ cache'[k] = NoCache
              \/ /\ cache'[k] = cache[k] \/ cache'[k] = Listed(k)
                 /\ memento'.rows[k] = memento.rows[k]
                 /\ \A c \in Calls : k \in StillToForget(c) => k \in StillToForget(c)'
                 /\ k \in rejected => k \in rejected'
              \/ \E c \in Calls : k \in StillToForget(c)'
    PROVE  CachesAreCurrent'
  <1> SUFFICES ASSUME NEW k \in Keys, cache'[k] # NoCache, k \notin rejected',
                      ~(\E c \in Calls : k \in StillToForget(c)')
               PROVE  cache'[k] = [memento'.rows[k] EXCEPT ![Unstamped] = Absent]
    BY DEF CachesAreCurrent
  <1>1. /\ memento'.rows[k] = memento.rows[k]
        /\ ~(\E c \in Calls : k \in StillToForget(c)) /\ k \notin rejected
        /\ cache'[k] = cache[k] \/ cache'[k] = Listed(k)
    OBVIOUS
  <1>2. \/ cache[k] = NoCache
        \/ cache[k] = [memento.rows[k] EXCEPT ![Unstamped] = Absent]
    BY <1>1 DEF CachesAreCurrent
  <1> QED BY <1>1, <1>2, ListedTyped

----------------------------------------------------------------------------
\* The types, the steps and the caches are an inductive invariant.

LEMMA ForgetKeys ==
    ASSUME mtypes, NEW ks \in SUBSET Keys, Forget(ks), memento' = memento
    PROVE  /\ mtypes'
           /\ \A k \in ks : cache'[k] = NoCache
           /\ \A k \in Keys \ ks : cache'[k] = cache[k] /\ (k \in rejected => k \in rejected')
  BY DEF Forget, mtypes

LEMMA RowsReplaced ==
    ASSUME mtypes, ctypes, NEW c \in Calls, NEW k \in Keys, NEW b \in Bastions, NEW row \in Row,
           ReplaceRows(c, k, b, row)
    PROVE  /\ mtypes'
           /\ memento'.rows[k] = [Listed(k) EXCEPT ![b] = row]
           /\ \A j \in Keys \ {k} : memento'.rows[j] = memento.rows[j] /\ cache'[j] = cache[j]
           /\ cache'[k] = Listed(k) /\ rejected' = rejected
           /\ unflushed' = unflushed \cup {c}
  <1>1. [Listed(k) EXCEPT ![b] = row] \in List /\ Listed(k) \in List
    BY ListedTyped
  <1>2. Update(c, k, [Listed(k) EXCEPT ![b] = row]) /\ cache' = [cache EXCEPT ![k] = Listed(k)]
        /\ rejected' = rejected
    BY DEF ReplaceRows
  <1>3. /\ memento' \in Store /\ memento'.rows[k] = [Listed(k) EXCEPT ![b] = row]
        /\ \A j \in Keys \ {k} : memento'.rows[j] = memento.rows[j]
        /\ unflushed' = unflushed \cup {c}
    BY <1>1, <1>2, UpdateTyped
  <1>4. /\ cache' \in [Keys -> List \cup {NoCache}] /\ cache'[k] = Listed(k)
        /\ \A j \in Keys \ {k} : cache'[j] = cache[j]
    BY <1>1, <1>2 DEF mtypes
  <1> QED BY <1>2, <1>3, <1>4 DEF mtypes

\* What a step of a running call has to leave behind.
LEMMA GoesOn ==
    ASSUME CInv, NEW c \in Calls, NEW step \in Steps, Running(c), Go(c, step),
           UNCHANGED CallVars, secrets' \in [Slots -> BOOLEAN],
           mtypes', unflushed' \in {unflushed, unflushed \cup {c}},
           call[c].step = "trustSaved" =>
              step = "done" /\ \A k \in Keys \ {"trust"} : cache'[k] = cache[k],
           step \in {"started", "orgs"} => call[c].step \in {"started", "orgs"},
           step \in GoneSteps => call[c].step \in GoneSteps,
           step # "editSaved",
           step = "secret" => call[c].step \in GoneSteps \cup {"editSaved"},
           \A k \in Keys :
              \/ cache'[k] = NoCache
              \/ /\ cache'[k] = cache[k] \/ cache'[k] = Listed(k)
                 /\ memento'.rows[k] = memento.rows[k]
                 /\ k \in StillToForget(c) => k \in StillToForget(c)'
                 /\ k \in rejected => k \in rejected'
              \/ k \in StillToForget(c)'
    PROVE  CInv'
  <1>1. mtypes /\ ctypes /\ rtypes /\ Quiet /\ StepsFit /\ CachesAreCurrent
    BY TypesSplit DEF CInv
  <1>2. /\ call' \in [Calls -> CallRec] /\ call'[c].step = step
        /\ \A d \in Calls : /\ call'[d].kind = call[d].kind
                            /\ call'[d].bastion = call[d].bastion
                            /\ call'[d].seen = call[d].seen
                            /\ call'[d].kept = call[d].kept
                            /\ d # c => call'[d] = call[d]
    BY <1>1, GoTyped
  <1>3. TypeOK'
    <2>1. ctypes'
      BY <1>1, <1>2 DEF ctypes, CallVars
    <2>2. rtypes'
      BY <1>1 DEF rtypes, CallVars, Ids
    <2> QED BY <2>1, <2>2, TypesSplitNext
  <1>4. Quiet'
    <2>1. migration' = migration /\ (Migrator \in unflushed' => Migrator \in unflushed)
      BY ConfigAssumption DEF CallVars
    <2>2. ASSUME migration # "done", NEW d \in Calls, Running(d)'
          PROVE  call'[d].step = "trustSaved"
      <3>1. step = "done"
        BY <2>2, <1>1 DEF Quiet
      <3>2. d # c
        BY <2>2, <3>1, <1>2 DEF Running
      <3> QED BY <2>2, <3>2, <1>1, <1>2 DEF Quiet, Running
    <2>3. ASSUME migration # "done", NEW k \in Keys \ {"trust"} PROVE cache'[k] = NoCache
      BY <2>3, <1>1 DEF Quiet
    <2> QED BY <2>1, <2>2, <2>3, <1>1 DEF Quiet
  <1>5. StepsFit'
    <2> SUFFICES ASSUME NEW d \in Calls
                 PROVE  /\ call'[d].step \in {"started", "orgs"} => call'[d].seen # Absent
                        /\ call'[d].step \in GoneSteps =>
                              call'[d].kind = "delete" /\ \A k \in Keys : call'[d].kept[k] \in List
                        /\ call'[d].step = "editSaved" => call'[d].kind = "edit"
                        /\ call'[d].step = "secret" => call'[d].kind \in {"edit", "delete"}
      BY DEF StepsFit, GoneSteps
    <2>1. CASE d # c
      BY <2>1, <1>1, <1>2 DEF StepsFit
    <2>2. CASE d = c
      BY <2>2, <1>1, <1>2 DEF StepsFit
    <2> QED BY <2>1, <2>2
  <1>6. \A d \in Calls \ {c} : StillToForget(d)' = StillToForget(d)
    BY <1>2 DEF StillToForget
  <1>7. CachesAreCurrent'
    <2>1. \A k \in Keys :
              \/ cache'[k] = NoCache
              \/ /\ cache'[k] = cache[k] \/ cache'[k] = Listed(k)
                 /\ memento'.rows[k] = memento.rows[k]
                 /\ \A d \in Calls : k \in StillToForget(d) => k \in StillToForget(d)'
                 /\ k \in rejected => k \in rejected'
              \/ \E d \in Calls : k \in StillToForget(d)'
      BY <1>6
    <2> QED BY <2>1, <1>1, CachesKept
  <1> QED BY <1>3, <1>4, <1>5, <1>7 DEF CInv

LEMMA ContinueKeeps ==
    ASSUME CInv, NEW c \in Calls, Continue(c)
    PROVE  CInv'
  <1>1. mtypes /\ ctypes /\ rtypes /\ Quiet /\ StepsFit /\ CachesAreCurrent
    BY TypesSplit DEF CInv
  <1>2. /\ call[c].bastion \in Bastions /\ call[c].seen \in Row /\ c \in Row
        /\ call[c].bastion \in Slots /\ secrets \in [Slots -> BOOLEAN]
    BY <1>1, SlotFacts DEF ctypes, CallRec, rtypes
  <1> DEFINE K(step) == \A k \in Keys :
              \/ cache'[k] = NoCache
              \/ /\ cache'[k] = cache[k] \/ cache'[k] = Listed(k)
                 /\ memento'.rows[k] = memento.rows[k]
                 /\ k \in StillToForget(c) => k \in StillToForget(c)'
                 /\ k \in rejected => k \in rejected'
              \/ k \in StillToForget(c)'
  <1>3. ASSUME NEW step \in Steps, Go(c, step) PROVE call'[c].step = step
    BY <1>1, <1>3, GoTyped
  <1>4. CASE PasswordRead(c)
    <2>1. PICK step \in {"orgs", "nodes", "done"} : Go(c, step)
      BY <1>4 DEF PasswordRead
    <2>2. call'[c].step = step /\ call[c].step = "started" /\ Running(c)
      BY <1>4, <2>1, <1>3 DEF PasswordRead, Steps, Running
    <2>3. mtypes' /\ UNCHANGED <<memento, cache, rejected, unflushed, secrets, CallVars>>
      BY <1>1, <1>4 DEF PasswordRead, mtypes, Memo
    <2>4. K(step)
      BY <2>2, <2>3 DEF StillToForget
    <2> QED BY <2>1, <2>2, <2>3, <2>4, <1>1, <1>2, GoesOn DEF Steps, GoneSteps, ctypes
  <1>5. CASE OrgPicked(c)
    <2>1. call[c].step = "orgs" /\ Running(c) /\ UNCHANGED <<secrets, CallVars>>
      BY <1>5 DEF OrgPicked, Running
    <2>2. CASE ReplaceRows(c, "bastions", call[c].bastion, call[c].seen) /\ Go(c, "orgSaved")
      <3>1. "bastions" \in Keys
        BY DEF Keys
      <3>2. /\ mtypes'
            /\ \A j \in Keys \ {"bastions"} :
                  memento'.rows[j] = memento.rows[j] /\ cache'[j] = cache[j]
            /\ unflushed' = unflushed \cup {c} /\ rejected' = rejected
        BY <2>2, <3>1, <1>1, <1>2, RowsReplaced
      <3>3. call'[c].step = "orgSaved"
        BY <2>2, <1>3 DEF Steps
      <3>4. K("orgSaved")
        BY <2>1, <3>2, <3>3 DEF StillToForget
      <3> QED BY <2>1, <2>2, <3>2, <3>3, <3>4, <1>1, <1>2, GoesOn DEF Steps, GoneSteps, ctypes
    <2>3. CASE /\ \E step \in {"nodes", "done"} : Go(c, step)
               /\ UNCHANGED <<memento, unflushed, Memo>>
      <3>1. PICK step \in {"nodes", "done"} : Go(c, step)
        BY <2>3
      <3>2. call'[c].step = step
        BY <3>1, <1>3 DEF Steps
      <3>3. mtypes'
        BY <1>1, <2>3 DEF mtypes, Memo
      <3>4. K(step)
        BY <2>1, <2>3, <3>2 DEF StillToForget, Memo
      <3> QED BY <2>1, <2>3, <3>1, <3>2, <3>3, <3>4, <1>1, <1>2, GoesOn DEF Steps, GoneSteps, ctypes
    <2> QED BY <1>5, <2>2, <2>3 DEF OrgPicked
  <1>6. ASSUME NEW k \in {"nodes", "assets"}, NEW saved \in {"nodesSaved", "assetsSaved"},
               Listing(c, k, saved),
               k = "nodes" => saved = "nodesSaved", k = "assets" => saved = "assetsSaved"
        PROVE  CInv'
    <2>1. call[c].step = k /\ Running(c) /\ UNCHANGED <<secrets, CallVars>> /\ k \in Keys
      BY <1>6 DEF Listing, Running, Keys
    <2>2. CASE ReplaceRows(c, k, call[c].bastion, c) /\ Go(c, saved)
      <3>2. /\ mtypes'
            /\ \A j \in Keys \ {k} :
                  memento'.rows[j] = memento.rows[j] /\ cache'[j] = cache[j]
            /\ unflushed' = unflushed \cup {c} /\ rejected' = rejected
        BY <2>1, <2>2, <1>1, <1>2, RowsReplaced
      <3>3. call'[c].step = saved
        BY <2>2, <1>3 DEF Steps
      <3>4. K(saved)
        BY <2>1, <3>2, <3>3, <1>6 DEF StillToForget
      <3> QED BY <2>1, <2>2, <3>2, <3>3, <3>4, <1>1, <1>2, GoesOn DEF Steps, GoneSteps, ctypes
    <2>3. CASE Go(c, "done") /\ UNCHANGED <<memento, unflushed, Memo>>
      <3>2. call'[c].step = "done"
        BY <2>3, <1>3 DEF Steps
      <3>3. mtypes'
        BY <1>1, <2>3 DEF mtypes, Memo
      <3>4. K("done")
        BY <2>1, <2>3, <3>2 DEF StillToForget, Memo
      <3> QED BY <2>1, <2>3, <3>2, <3>3, <3>4, <1>1, <1>2, GoesOn DEF Steps, GoneSteps, ctypes
    <2> QED BY <1>6, <2>2, <2>3 DEF Listing
  <1>7. ASSUME NEW step \in {"orgSaved", "nodesSaved", "assetsSaved", "trustSaved", "editSaved"},
               NEW k \in Keys, NEW next \in {"nodes", "assets", "secret", "done"},
               Saved(c, step, k, next),
               next = "secret" => step = "editSaved",
               step = "trustSaved" => next = "done" /\ k = "trust",
               StillToForget(c) = {k}
        PROVE  CInv'
    <2>1. /\ call[c].step = step /\ Running(c) /\ Go(c, next) /\ Forget({k})
          /\ UNCHANGED <<memento, unflushed, secrets, CallVars>>
      BY <1>7 DEF Saved, Resumed, Running
    <2>2. call'[c].step = next
      BY <2>1, <1>3 DEF Steps
    <2>3. /\ mtypes' /\ cache'[k] = NoCache
          /\ \A j \in Keys \ {k} : cache'[j] = cache[j] /\ (j \in rejected => j \in rejected')
      BY <2>1, <1>1, ForgetKeys
    <2>4. K(next)
      BY <2>1, <2>3, <1>7
    <2> QED BY <2>1, <2>2, <2>3, <2>4, <1>1, <1>2, <1>7, GoesOn DEF Steps, GoneSteps, ctypes
  <1>8. ASSUME NEW step \in GoneSteps \ {"trustGone"}, NEW k \in Keys, NEW next \in GoneSteps,
               NextKeyGone(c, step, k, next),
               call[c].step = step /\ call'[c].step = next =>
                   StillToForget(c)' = StillToForget(c) \cup {k}
        PROVE  CInv'
    <2>1. /\ call[c].step = step /\ Running(c) /\ Go(c, next) /\ Update(c, k, call[c].kept[k])
          /\ UNCHANGED <<cache, rejected, secrets, CallVars>>
      BY <1>8 DEF NextKeyGone, Resumed, Running, GoneSteps, Memo
    <2>2. call'[c].step = next
      BY <2>1, <1>3 DEF Steps, GoneSteps
    <2>3. call[c].kept[k] \in List
      BY <2>1, <1>1 DEF StepsFit
    <2>4. /\ memento' \in Store
          /\ \A j \in Keys \ {k} : memento'.rows[j] = memento.rows[j]
          /\ unflushed' = unflushed \cup {c}
      BY <2>1, <2>3, <1>1, UpdateTyped
    <2>5. mtypes'
      BY <2>1, <2>4, <1>1 DEF mtypes
    <2>6. StillToForget(c)' = StillToForget(c) \cup {k}
      BY <2>1, <2>2, <1>8
    <2>7. K(next)
      BY <2>1, <2>4, <2>6
    <2> QED BY <2>1, <2>2, <2>4, <2>5, <2>7, <1>1, <1>2, GoesOn DEF Steps, GoneSteps, ctypes
  <1>9. CASE AllKeysGone(c)
    <2>1. /\ call[c].step = "trustGone" /\ Running(c) /\ Go(c, "secret") /\ Forget(Keys)
          /\ UNCHANGED <<memento, unflushed, secrets, CallVars>>
      BY <1>9 DEF AllKeysGone, Resumed, Running
    <2>2. call'[c].step = "secret"
      BY <2>1, <1>3 DEF Steps
    <2>3. mtypes' /\ \A j \in Keys : cache'[j] = NoCache
      BY <2>1, <1>1, ForgetKeys
    <2> QED BY <2>1, <2>2, <2>3, <1>1, <1>2, GoesOn DEF Steps, GoneSteps, ctypes
  <1>10. CASE SecretSet(c)
    <2>1. /\ call[c].step = "secret" /\ Running(c) /\ Go(c, "done")
          /\ secrets' = [secrets EXCEPT ![call[c].bastion] = call[c].kind = "edit"]
          /\ UNCHANGED <<memento, unflushed, cache, rejected, CallVars>>
      BY <1>10 DEF SecretSet, Running, Memo
    <2>2. call'[c].step = "done"
      BY <2>1, <1>3 DEF Steps
    <2>3. secrets' \in [Slots -> BOOLEAN]
      <3>1. (call[c].kind = "edit") \in BOOLEAN
        OBVIOUS
      <3> QED BY <2>1, <1>2, <3>1
    <2>4. mtypes' /\ K("done")
      BY <2>1, <2>2, <1>1 DEF mtypes, StillToForget
    <2> QED BY <2>1, <2>2, <2>3, <2>4, <1>1, <1>2, GoesOn DEF Steps, GoneSteps, ctypes
  <1>11. /\ call[c].step = "orgSaved" => StillToForget(c) = {"bastions"}
         /\ call[c].step = "nodesSaved" => StillToForget(c) = {"nodes"}
         /\ call[c].step = "assetsSaved" => StillToForget(c) = {"assets"}
         /\ call[c].step = "trustSaved" => StillToForget(c) = {"trust"}
         /\ call[c].step = "editSaved" => StillToForget(c) = {"bastions"}
    BY DEF StillToForget
  <1>12. CASE \/ Saved(c, "orgSaved", "bastions", "nodes")
              \/ Saved(c, "nodesSaved", "nodes", "assets")
              \/ Saved(c, "assetsSaved", "assets", "done")
              \/ Saved(c, "trustSaved", "trust", "done")
              \/ EditSaved(c)
    <2>1. CASE Saved(c, "orgSaved", "bastions", "nodes")
      BY <2>1, <1>7, <1>11 DEF Saved, Resumed, Keys
    <2>2. CASE Saved(c, "nodesSaved", "nodes", "assets")
      BY <2>2, <1>7, <1>11 DEF Saved, Resumed, Keys
    <2>3. CASE Saved(c, "assetsSaved", "assets", "done")
      BY <2>3, <1>7, <1>11 DEF Saved, Resumed, Keys
    <2>4. CASE Saved(c, "trustSaved", "trust", "done")
      BY <2>4, <1>7, <1>11 DEF Saved, Resumed, Keys
    <2>5. CASE EditSaved(c)
      <3>1. PICK next \in {"secret", "done"} : Saved(c, "editSaved", "bastions", next)
        BY <2>5 DEF EditSaved
      <3> QED BY <3>1, <1>7, <1>11 DEF Saved, Resumed, Keys
    <2> QED BY <1>12, <2>1, <2>2, <2>3, <2>4, <2>5
  <1>13. CASE \/ NextKeyGone(c, "bastionGone", "assets", "assetsGone")
              \/ NextKeyGone(c, "assetsGone", "nodes", "nodesGone")
              \/ NextKeyGone(c, "nodesGone", "trust", "trustGone")
    <2>1. CASE NextKeyGone(c, "bastionGone", "assets", "assetsGone")
      BY <2>1, <1>8 DEF GoneSteps, Keys, StillToForget
    <2>2. CASE NextKeyGone(c, "assetsGone", "nodes", "nodesGone")
      BY <2>2, <1>8 DEF GoneSteps, Keys, StillToForget
    <2>3. CASE NextKeyGone(c, "nodesGone", "trust", "trustGone")
      BY <2>3, <1>8 DEF GoneSteps, Keys, StillToForget
    <2> QED BY <1>13, <2>1, <2>2, <2>3
  <1>14. CASE Listing(c, "nodes", "nodesSaved") \/ Listing(c, "assets", "assetsSaved")
    BY <1>14, <1>6
  <1> QED BY <1>4, <1>5, <1>9, <1>10, <1>12, <1>13, <1>14 DEF Continue

\* What the first step of a call has to leave behind.
LEMMA SetsOut ==
    ASSUME CInv, NEW c \in Calls, NEW kind \in Kinds, NEW b \in Bastions,
           NEW step \in {"started", "editSaved", "bastionGone", "trustSaved"},
           NEW seen \in Row, NEW kept \in [Keys -> List \cup {NoCache}],
           Begin(c, kind, b, step, seen, kept),
           mtypes', unflushed' \in {unflushed, unflushed \cup {c}}, rejected' = rejected,
           kind = "trust" =>
              step = "trustSaved" /\ \A k \in Keys \ {"trust"} : cache'[k] = cache[k],
           step = "started" => seen # Absent,
           step = "editSaved" => kind = "edit",
           step = "bastionGone" => kind = "delete" /\ \A k \in Keys : kept[k] \in List,
           \A k \in Keys :
              \/ /\ cache'[k] = cache[k] \/ cache'[k] = Listed(k)
                 /\ memento'.rows[k] = memento.rows[k]
              \/ k = "bastions" /\ step \in {"editSaved", "bastionGone"}
              \/ k = "trust" /\ step = "trustSaved"
    PROVE  CInv'
  <1>1. mtypes /\ ctypes /\ rtypes /\ Quiet /\ StepsFit /\ CachesAreCurrent
    BY TypesSplit DEF CInv
  <1>2. /\ call' \in [Calls -> CallRec] /\ met' \in [Calls -> SUBSET Calls]
        /\ call'[c] = [kind |-> kind, bastion |-> b, step |-> step,
                       seen |-> seen, kept |-> kept]
        /\ \A d \in Calls : d # c => call'[d] = call[d]
    BY <1>1, BeginTyped DEF Steps
  <1>3. TypeOK'
    <2>1. ctypes'
      BY <1>1, <1>2 DEF ctypes
    <2>2. rtypes'
      BY <1>1 DEF rtypes, Begin, Ids
    <2> QED BY <2>1, <2>2, TypesSplitNext
  <1>4. Quiet'
    <2>1. /\ migration' = migration /\ (Migrator \in unflushed' => Migrator \in unflushed)
          /\ migration = "done" \/ kind = "trust"
      BY ConfigAssumption DEF Begin
    <2>2. \A d \in Calls : call'[d].step = "trustSaved" \/ call'[d] = call[d] \/ migration = "done"
      BY <2>1, <1>2
    <2> QED BY <2>1, <2>2, <1>1 DEF Quiet, Running
  <1>5. StepsFit'
    <2> SUFFICES ASSUME NEW d \in Calls
                 PROVE  /\ call'[d].step \in {"started", "orgs"} => call'[d].seen # Absent
                        /\ call'[d].step \in GoneSteps =>
                              call'[d].kind = "delete" /\ \A k \in Keys : call'[d].kept[k] \in List
                        /\ call'[d].step = "editSaved" => call'[d].kind = "edit"
                        /\ call'[d].step = "secret" => call'[d].kind \in {"edit", "delete"}
      BY DEF StepsFit, GoneSteps
    <2>1. CASE d # c
      BY <2>1, <1>1, <1>2 DEF StepsFit
    <2>2. CASE d = c
      BY <2>2, <1>2 DEF GoneSteps
    <2> QED BY <2>1, <2>2
  <1>6. CachesAreCurrent'
    <2>1. \A d \in Calls \ {c} : StillToForget(d)' = StillToForget(d)
      BY <1>2 DEF StillToForget
    <2>2. StillToForget(c) = {}
      BY DEF Begin, StillToForget
    <2>3. /\ step \in {"editSaved", "bastionGone"} => "bastions" \in StillToForget(c)'
          /\ step = "trustSaved" => "trust" \in StillToForget(c)'
      BY <1>2 DEF StillToForget
    <2>4. \A k \in Keys :
              \/ cache'[k] = NoCache
              \/ /\ cache'[k] = cache[k] \/ cache'[k] = Listed(k)
                 /\ memento'.rows[k] = memento.rows[k]
                 /\ \A d \in Calls : k \in StillToForget(d) => k \in StillToForget(d)'
                 /\ k \in rejected => k \in rejected'
              \/ \E d \in Calls : k \in StillToForget(d)'
      BY <2>1, <2>2, <2>3
    <2> QED BY <2>4, <1>1, CachesKept
  <1> QED BY <1>3, <1>4, <1>5, <1>6 DEF CInv

\* The lists a deletion takes with it.
KeptOf(b) == [k \in Keys |-> [Listed(k) EXCEPT ![b] = Absent]]

LEMMA DeletionStart ==
    ASSUME mtypes, ctypes, NEW c \in Calls, NEW b \in Bastions, StartDelete(c, b)
    PROVE  /\ KeptOf(b) \in [Keys -> List] /\ mtypes'
           /\ Begin(c, "delete", b, "bastionGone", Absent, KeptOf(b))
           /\ memento'.rows["bastions"] = [Listed("bastions") EXCEPT ![b] = Absent]
           /\ \A k \in Keys \ {"bastions"} : memento'.rows[k] = memento.rows[k]
           /\ \A k \in Keys : cache'[k] = Listed(k)
           /\ unflushed' = unflushed \cup {c}
           /\ UNCHANGED <<disk, secrets, migration, crashes, rejected, Ids>>
  <1>1. KeptOf(b) \in [Keys -> List]
    BY ListedTyped, SlotFacts DEF KeptOf
  <1>2. /\ Update(c, "bastions", KeptOf(b)["bastions"])
        /\ Begin(c, "delete", b, "bastionGone", Absent, KeptOf(b))
        /\ cache' = [k \in Keys |-> Listed(k)] /\ rejected' = rejected
    BY DEF StartDelete, KeptOf
  <1>3. KeptOf(b)["bastions"] = [Listed("bastions") EXCEPT ![b] = Absent] /\ "bastions" \in Keys
    BY DEF KeptOf, Keys
  <1>4. KeptOf(b)["bastions"] \in List
    BY <1>1, <1>3
  <1>5. /\ memento' \in Store /\ memento'.rows["bastions"] = KeptOf(b)["bastions"]
        /\ \A k \in Keys \ {"bastions"} : memento'.rows[k] = memento.rows[k]
        /\ unflushed' = unflushed \cup {c}
    BY <1>2, <1>3, <1>4, UpdateTyped
  <1>6. cache' \in [Keys -> List \cup {NoCache}] /\ \A k \in Keys : cache'[k] = Listed(k)
    BY <1>2, ListedTyped
  <1>7. UNCHANGED <<disk, secrets, migration, crashes, rejected, Ids>>
    BY <1>2 DEF Begin
  <1> QED BY <1>1, <1>2, <1>3, <1>5, <1>6, <1>7 DEF mtypes

LEMMA NoKept == NoCall.kept \in [Keys -> List \cup {NoCache}]
  BY DEF NoCall

LEMMA StartKeeps ==
    ASSUME CInv, NEW c \in Calls, Start(c)
    PROVE  CInv'
  <1>1. mtypes /\ ctypes /\ rtypes /\ Quiet /\ StepsFit /\ CachesAreCurrent
    BY TypesSplit DEF CInv
  <1> PICK b \in Bastions : \/ StartRefresh(c, b) \/ StartEdit(c, b) \/ StartDelete(c, b)
                            \/ \E level \in {c, Absent} : StartTrust(c, b, level)
    BY DEF Start
  <1>2. "bastions" \in Keys /\ "trust" \in Keys /\ Absent \in Row /\ c \in Row
    BY SlotFacts DEF Keys
  <1>3. CASE StartRefresh(c, b)
    <2>1. Listed("bastions") \in List
      BY <1>1, <1>2, ListedTyped
    <2>2. Listed("bastions")[b] \in Row /\ Listed("bastions")[b] # Absent
      BY <1>3, <2>1, SlotFacts DEF StartRefresh, List
    <2>3. /\ cache' = [cache EXCEPT !["bastions"] = Listed("bastions")]
          /\ Begin(c, "refresh", b, "started", Listed("bastions")[b], NoCall.kept)
          /\ UNCHANGED <<memento, unflushed, rejected>>
      BY <1>3 DEF StartRefresh
    <2>4. /\ mtypes'
          /\ \A k \in Keys : /\ cache'[k] = cache[k] \/ cache'[k] = Listed(k)
                             /\ memento'.rows[k] = memento.rows[k]
      BY <2>1, <2>3, <1>1, <1>2 DEF mtypes
    <2> QED BY <2>2, <2>3, <2>4, NoKept, SetsOut DEF Kinds
  <1>4. ASSUME NEW k \in {"bastions", "trust"}, NEW row \in Row, NEW kind \in Kinds,
               NEW step \in {"editSaved", "trustSaved"},
               ReplaceRows(c, k, b, row), Begin(c, kind, b, step, Absent, NoCall.kept),
               k = "bastions" => step = "editSaved" /\ kind = "edit",
               k = "trust" => step = "trustSaved" /\ kind = "trust"
        PROVE  CInv'
    <2>1. /\ mtypes'
          /\ \A j \in Keys \ {k} : memento'.rows[j] = memento.rows[j] /\ cache'[j] = cache[j]
          /\ unflushed' = unflushed \cup {c} /\ rejected' = rejected
      BY <1>1, <1>2, <1>4, RowsReplaced
    <2> QED BY <2>1, <1>2, <1>4, NoKept, SetsOut
  <1>5. CASE StartEdit(c, b)
    BY <1>5, <1>4, <1>2 DEF StartEdit, Kinds
  <1>6. CASE \E level \in {c, Absent} : StartTrust(c, b, level)
    BY <1>6, <1>4, <1>2 DEF StartTrust, Kinds
  <1>7. CASE StartDelete(c, b)
    <2>1. /\ KeptOf(b) \in [Keys -> List] /\ mtypes'
          /\ Begin(c, "delete", b, "bastionGone", Absent, KeptOf(b))
          /\ \A k \in Keys \ {"bastions"} : memento'.rows[k] = memento.rows[k]
          /\ \A k \in Keys : cache'[k] = Listed(k)
          /\ unflushed' = unflushed \cup {c} /\ rejected' = rejected
      BY <1>1, <1>7, DeletionStart
    <2>3. KeptOf(b) \in [Keys -> List \cup {NoCache}] /\ \A k \in Keys : KeptOf(b)[k] \in List
      BY <2>1
    <2> QED BY <2>1, <2>3, <1>2, SetsOut DEF Kinds
  <1> QED BY <1>3, <1>5, <1>6, <1>7

\* While the migration runs no call does, and only the trust overlay is memoised.
LEMMA MigrationTyped ==
    ASSUME mtypes, ctypes, rtypes, Quiet, MigrationNext
    PROVE  /\ memento' \in Store
           /\ migration # "done" /\ migration' # "none"
           /\ memento'.rows["trust"] = memento.rows["trust"]
           /\ migration' \in {"done", "failed"} => Migrator \notin unflushed'
           /\ \A k \in Keys : \/ cache'[k] = NoCache
                              \/ cache'[k] = cache[k] /\ (k \in rejected => k \in rejected')
           /\ mtypes' /\ ctypes' /\ rtypes' /\ call' = call /\ met' = met /\ disk' = disk
  <1>1. EmptyList \in List /\ Imported \in Row /\ Absent \in Row /\ Unstamped \in Slots
    BY SlotFacts
  <1>2. \A b \in Slots, row \in Row : [EmptyList EXCEPT ![b] = row] \in List
    BY <1>1 DEF List
  <1>3. \A k \in Keys : Stamped(k) \in List
    BY <1>1, <1>2 DEF Stamped, rtypes
  <1>4. CASE MigrationStart
    <2>1. /\ migration = "none" /\ Migrator \notin unflushed
          /\ UNCHANGED <<secrets, cache, rejected, disk, call, met, crashes>>
      BY <1>4 DEF MigrationStart, MigrationVars, Memo, Quiet
    <2>2. CASE /\ migration' = "done" /\ UNCHANGED <<memento, unflushed, Ids>>
      BY <2>1, <2>2 DEF mtypes, ctypes, rtypes, Ids
    <2>3. ASSUME NEW b \in Bastions,
                 Update(Migrator, "bastions", [EmptyList EXCEPT ![b] = Imported]),
                 newId' = b, allocated' = allocated \cup {b}, migration' = "password"
          PROVE  /\ memento' \in Store /\ memento'.rows["trust"] = memento.rows["trust"]
                 /\ ctypes' /\ rtypes'
      <3>1. b \in Slots /\ "bastions" \in Keys /\ "trust" \in Keys \ {"bastions"}
        BY SlotFacts DEF Keys
      <3>2. /\ memento' \in Store /\ memento'.rows["trust"] = memento.rows["trust"]
            /\ unflushed' = unflushed \cup {Migrator}
        BY <2>3, <3>1, <1>1, <1>2, UpdateTyped
      <3> QED BY <2>1, <2>3, <3>1, <3>2 DEF ctypes, rtypes
    <2> QED BY <1>4, <2>1, <2>2, <2>3 DEF MigrationStart, mtypes
  <1>5. CASE MovePassword \/ DropOldPassword
    <2>1. secrets' \in [Slots -> BOOLEAN]
      <3>1. secrets \in [Slots -> BOOLEAN] /\ (secrets[newId] \/ secrets[Unstamped]) \in BOOLEAN
        BY <1>1 DEF rtypes
      <3>2. CASE MovePassword
        <4>1. secrets' = [secrets EXCEPT ![newId] = secrets[newId] \/ secrets[Unstamped]]
          BY <3>2 DEF MovePassword
        <4> QED BY <3>1, <4>1, Zenon
      <3>3. CASE DropOldPassword
        BY <3>1, <3>3, Zenon DEF DropOldPassword
      <3> QED BY <1>5, <3>2, <3>3
    <2>2. /\ migration \in {"password", "drop"} /\ migration' \in {"drop", "assets"}
          /\ UNCHANGED <<memento, unflushed, cache, rejected, newId, allocated, disk, call, met,
                         crashes>>
      BY <1>5 DEF MovePassword, DropOldPassword, MigrationVars, Memo, Ids
    <2> QED BY <2>1, <2>2 DEF mtypes, ctypes, rtypes
  <1>6. ASSUME NEW k \in {"assets", "nodes"}, NEW next \in {"nodes", "settings"}, StampRows(k, next)
        PROVE  /\ memento' \in Store /\ memento'.rows["trust"] = memento.rows["trust"]
               /\ migration = k /\ migration' = next
               /\ unflushed' = unflushed \cup {Migrator}
               /\ UNCHANGED <<secrets, cache, rejected, newId, allocated, disk, call, met, crashes>>
    <2>1. k \in Keys /\ Update(Migrator, k, Stamped(k)) /\ "trust" \in Keys \ {k}
      BY <1>6 DEF Keys, StampRows
    <2>2. memento' \in Store /\ memento'.rows["trust"] = memento.rows["trust"]
          /\ unflushed' = unflushed \cup {Migrator}
      BY <2>1, <1>3, UpdateTyped
    <2> QED BY <2>2, <1>6 DEF StampRows, MigrationVars, Memo, Ids
  <1>7. CASE StampRows("assets", "nodes") \/ StampRows("nodes", "settings")
    BY <1>6, <1>7 DEF mtypes, ctypes, rtypes
  <1>8. CASE DropSettings
    <2>1. memento' \in Store /\ memento'.rows = memento.rows
      BY <1>8 DEF DropSettings, mtypes, Store
    <2>2. /\ migration = "settings" /\ migration' = "forget"
          /\ unflushed' = unflushed \cup {Migrator}
          /\ UNCHANGED <<secrets, cache, rejected, newId, allocated, disk, call, met, crashes>>
      BY <1>8 DEF DropSettings, MigrationVars, Memo, Ids
    <2> QED BY <2>1, <2>2 DEF mtypes, ctypes, rtypes
  <1>9. CASE MigrationEnd
    <2>0. {"bastions", "assets", "nodes"} \in SUBSET Keys
      BY DEF Keys
    <2>1. /\ mtypes'
          /\ \A k \in Keys : \/ cache'[k] = NoCache
                             \/ cache'[k] = cache[k] /\ (k \in rejected => k \in rejected')
      BY <1>9, <2>0, ForgetKeys DEF MigrationEnd
    <2>2. /\ migration = "forget" /\ migration' = "done" /\ Migrator \notin unflushed
          /\ UNCHANGED <<memento, unflushed, secrets, newId, allocated, disk, call, met, crashes>>
      BY <1>9 DEF MigrationEnd, MigrationVars, Ids
    <2> QED BY <2>1, <2>2 DEF mtypes, ctypes, rtypes
  <1>10. CASE MigrationFailed
    <2>1. /\ migration # "done" /\ migration' = "failed" /\ unflushed' = unflushed \ {Migrator}
          /\ UNCHANGED <<memento, secrets, cache, rejected, newId, allocated, disk, call, met,
                         crashes>>
      BY <1>10 DEF MigrationFailed, MigrationVars, Memo, Ids, Quiet
    <2> QED BY <2>1 DEF mtypes, ctypes, rtypes
  <1> QED BY <1>4, <1>5, <1>7, <1>8, <1>9, <1>10 DEF MigrationNext

LEMMA MigrationKeeps ==
    ASSUME CInv, MigrationNext
    PROVE  CInv'
  <1>1. mtypes /\ ctypes /\ rtypes /\ Quiet /\ StepsFit /\ CachesAreCurrent
    BY TypesSplit DEF CInv
  <1>2. /\ migration # "done" /\ migration' # "none"
        /\ memento'.rows["trust"] = memento.rows["trust"]
        /\ migration' \in {"done", "failed"} => Migrator \notin unflushed'
        /\ \A k \in Keys : \/ cache'[k] = NoCache
                           \/ cache'[k] = cache[k] /\ (k \in rejected => k \in rejected')
        /\ mtypes' /\ ctypes' /\ rtypes' /\ call' = call
    BY <1>1, MigrationTyped
  <1>3. \A k \in Keys \ {"trust"} : cache'[k] = NoCache
    BY <1>1, <1>2 DEF Quiet
  <1>4. TypeOK'
    BY <1>2, TypesSplitNext
  <1>5. Quiet'
    BY <1>1, <1>2, <1>3 DEF Quiet, Running
  <1>6. StepsFit'
    BY <1>1, <1>2 DEF StepsFit
  <1>7. CachesAreCurrent'
    <2>1. \A d \in Calls : StillToForget(d)' = StillToForget(d)
      BY <1>2 DEF StillToForget
    <2> QED BY <2>1, <1>1, <1>2, <1>3, CachesKept
  <1> QED BY <1>4, <1>5, <1>6, <1>7 DEF CInv

\* An update that rejects ends its call.
LEMMA RejectTyped ==
    ASSUME ctypes, NEW c \in Calls, Reject(c)
    PROVE  /\ call' \in [Calls -> CallRec] /\ call'[c].step = "done"
           /\ \A d \in Calls : /\ call'[d].kind = call[d].kind
                               /\ call'[d].bastion = call[d].bastion
                               /\ d # c => call'[d] = call[d]
           /\ UNCHANGED <<memento, disk, secrets, cache, migration, newId, allocated, met, crashes>>
           /\ unflushed' = unflushed \ {c} /\ rejected' = rejected \cup StillToForget(c)
  <1>1. Go(c, "done") /\ "done" \in Steps
    BY DEF Reject, Go, Steps
  <1> QED BY <1>1, GoTyped DEF Reject, Ids

LEMMA RejectKeeps ==
    ASSUME CInv, NEW c \in Calls, Reject(c)
    PROVE  CInv'
  <1>1. mtypes /\ ctypes /\ rtypes /\ Quiet /\ StepsFit /\ CachesAreCurrent
    BY TypesSplit DEF CInv
  <1>2. /\ call' \in [Calls -> CallRec] /\ call'[c].step = "done"
        /\ \A d \in Calls \ {c} : call'[d] = call[d]
        /\ UNCHANGED <<memento, disk, secrets, cache, migration, newId, allocated, met, crashes>>
        /\ unflushed' = unflushed \ {c} /\ rejected' = rejected \cup StillToForget(c)
    BY <1>1, RejectTyped
  <1>3. StillToForget(c) \subseteq Keys
    BY DEF StillToForget, Keys
  <1>4. TypeOK'
    BY <1>1, <1>2, <1>3, TypesSplitNext DEF mtypes, ctypes, rtypes
  <1>5. Quiet'
    BY <1>1, <1>2 DEF Quiet, Running
  <1>6. StepsFit'
    <2> SUFFICES ASSUME NEW d \in Calls
                 PROVE  /\ call'[d].step \in {"started", "orgs"} => call'[d].seen # Absent
                        /\ call'[d].step \in GoneSteps =>
                              call'[d].kind = "delete" /\ \A k \in Keys : call'[d].kept[k] \in List
                        /\ call'[d].step = "editSaved" => call'[d].kind = "edit"
                        /\ call'[d].step = "secret" => call'[d].kind \in {"edit", "delete"}
      BY DEF StepsFit, GoneSteps
    <2>1. CASE d # c
      BY <2>1, <1>1, <1>2 DEF StepsFit
    <2>2. CASE d = c
      BY <2>2, <1>2 DEF GoneSteps
    <2> QED BY <2>1, <2>2
  <1>7. CachesAreCurrent'
    <2>1. \A d \in Calls \ {c} : StillToForget(d)' = StillToForget(d)
      BY <1>2 DEF StillToForget
    <2> QED BY <2>1, <1>1, <1>2 DEF CachesAreCurrent
  <1> QED BY <1>4, <1>5, <1>6, <1>7 DEF CInv

LEMMA RestKeeps ==
    ASSUME CInv, Flush \/ Crash \/ (\E k \in Keys : Read(k)) \/ UNCHANGED vars
    PROVE  CInv'
  <1>1. mtypes /\ ctypes /\ rtypes /\ Quiet /\ StepsFit /\ CachesAreCurrent
    BY TypesSplit DEF CInv
  <1>2. CASE Flush
    <2>1. /\ disk' = memento /\ unflushed' = {}
          /\ UNCHANGED <<memento, secrets, cache, rejected, call, migration, newId, allocated, met,
                         crashes>>
      BY <1>2 DEF Flush, Memo, Ids
    <2>2. TypeOK' /\ StepsFit'
      BY <2>1, <1>1, TypesSplitNext DEF mtypes, ctypes, rtypes, StepsFit
    <2>3. Quiet'
      BY <2>1, <1>1 DEF Quiet, Running
    <2>4. CachesAreCurrent'
      BY <2>1, <1>1 DEF CachesAreCurrent, StillToForget
    <2> QED BY <2>2, <2>3, <2>4 DEF CInv
  <1>3. CASE Crash
    <2>1. /\ memento' = disk /\ unflushed' = {} /\ rejected' = {} /\ migration' = "none"
          /\ crashes' = crashes + 1 /\ crashes < MaxCrashes
          /\ cache' = [k \in Keys |-> NoCache]
          /\ UNCHANGED <<disk, secrets, newId, allocated, met>>
      BY <1>3 DEF Crash, Ids
    <2>2. /\ call' \in [Calls -> CallRec] /\ \A c \in Calls : ~Running(c)'
          /\ \A c \in Calls : \/ call'[c] = call[c]
                              \/ call'[c].step = "lost"
      BY <1>3, <1>1 DEF Crash, ctypes, CallRec, Running, Steps
    <2>3. TypeOK'
      <3>1. mtypes'
        BY <2>1, <1>1 DEF mtypes, rtypes
      <3>2. ctypes' /\ rtypes'
        BY <2>1, <2>2, <1>1, ConfigAssumption DEF ctypes, rtypes
      <3> QED BY <3>1, <3>2, TypesSplitNext
    <2>4. Quiet'
      BY <2>1, <2>2 DEF Quiet
    <2>5. StepsFit'
      <3> SUFFICES ASSUME NEW d \in Calls
                   PROVE  /\ call'[d].step \in {"started", "orgs"} => call'[d].seen # Absent
                          /\ call'[d].step \in GoneSteps =>
                                /\ call'[d].kind = "delete"
                                /\ \A k \in Keys : call'[d].kept[k] \in List
                          /\ call'[d].step = "editSaved" => call'[d].kind = "edit"
                          /\ call'[d].step = "secret" => call'[d].kind \in {"edit", "delete"}
        BY DEF StepsFit, GoneSteps
      <3>1. CASE call'[d] = call[d]
        BY <3>1, <1>1 DEF StepsFit
      <3>2. CASE call'[d].step = "lost"
        BY <3>2 DEF GoneSteps
      <3> QED BY <3>1, <3>2, <2>2
    <2>6. CachesAreCurrent'
      BY <2>1 DEF CachesAreCurrent
    <2> QED BY <2>3, <2>4, <2>5, <2>6 DEF CInv
  <1>4. CASE \E k \in Keys : Read(k)
    <2>1. PICK k \in Keys : Read(k)
      BY <1>4
    <2>2. /\ migration = "done" \/ k = "trust"
          /\ cache' = [cache EXCEPT ![k] = Listed(k)]
          /\ UNCHANGED <<memento, disk, secrets, call, unflushed, rejected, migration, newId,
                         allocated, met, crashes>>
      BY <2>1 DEF Read, Ids
    <2>3. /\ mtypes' /\ \A j \in Keys : cache'[j] = cache[j] \/ cache'[j] = Listed(j)
          /\ \A j \in Keys \ {k} : cache'[j] = cache[j]
      BY <2>2, <1>1, ListedTyped DEF mtypes
    <2>4. TypeOK' /\ StepsFit'
      BY <2>2, <2>3, <1>1, TypesSplitNext DEF ctypes, rtypes, StepsFit
    <2>5. Quiet'
      BY <2>2, <2>3, <1>1 DEF Quiet, Running
    <2>6. CachesAreCurrent'
      <3>1. \A d \in Calls : StillToForget(d)' = StillToForget(d)
        BY <2>2 DEF StillToForget
      <3> QED BY <3>1, <2>2, <2>3, <1>1, CachesKept
    <2> QED BY <2>4, <2>5, <2>6 DEF CInv
  <1>5. CASE UNCHANGED vars
    <2>1. TypeOK' /\ StepsFit' /\ CachesAreCurrent'
      BY <1>5, <1>1, TypesSplitNext
      DEF vars, mtypes, ctypes, rtypes, StepsFit, CachesAreCurrent, StillToForget
    <2>2. Quiet'
      BY <1>5, <1>1 DEF vars, Quiet, Running
    <2> QED BY <2>1, <2>2 DEF CInv
  <1> QED BY <1>2, <1>3, <1>4, <1>5

LEMMA CInvInit == Init => CInv
  <1> SUFFICES ASSUME Init PROVE CInv
    OBVIOUS
  <1>1. PICK legacy \in BOOLEAN :
          LET rows == IF legacy THEN [EmptyList EXCEPT ![Unstamped] = Imported]
                      ELSE [s \in Slots |-> IF s = Unstamped THEN Absent ELSE Imported]
          IN /\ memento = [settings |-> legacy,
                           rows |-> [k \in Keys |-> IF legacy /\ k \in {"bastions", "trust"}
                                                    THEN EmptyList ELSE rows]]
             /\ secrets = [s \in Slots |-> IF legacy THEN s = Unstamped ELSE s # Unstamped]
    BY DEF Init
  <1>2. memento \in Store
    <2>1. /\ EmptyList \in List
          /\ [EmptyList EXCEPT ![Unstamped] = Imported] \in List
          /\ [s \in Slots |-> IF s = Unstamped THEN Absent ELSE Imported] \in List
      BY SlotFacts DEF List
    <2> QED BY <1>1, <2>1 DEF Store
  <1>3. secrets \in [Slots -> BOOLEAN]
    BY <1>1
  <1>4. /\ disk = memento /\ cache = [k \in Keys |-> NoCache]
        /\ call = [c \in Calls |-> NoCall] /\ unflushed = {} /\ migration = "none"
        /\ met = [c \in Calls |-> {}] /\ crashes = 0 /\ rejected = {}
        /\ newId = Unstamped /\ allocated = {}
    BY DEF Init
  <1>5. NoCall \in CallRec
    <2>1. (CHOOSE b \in Bastions : TRUE) \in Bastions
      BY ConfigAssumption
    <2> QED BY <2>1, NoKept, SlotFacts DEF NoCall, CallRec, Kinds, Steps
  <1>6. mtypes /\ ctypes /\ rtypes
    BY <1>2, <1>3, <1>4, <1>5, SlotFacts, ConfigAssumption DEF mtypes, ctypes, rtypes
  <1>7. Quiet /\ StepsFit /\ CachesAreCurrent
    BY <1>4 DEF Quiet, StepsFit, CachesAreCurrent, Running, NoCall, GoneSteps
  <1> QED BY <1>6, <1>7, TypesSplit DEF CInv

LEMMA CInvNext == CInv /\ [Next]_vars => CInv'
  BY ContinueKeeps, StartKeeps, MigrationKeeps, RejectKeeps, RestKeeps DEF Next

LEMMA CInvariance == Spec => []CInv
  BY CInvInit, CInvNext, PTL DEF Spec

\* The stored lists, the memo fields and the calls keep their shape.
THEOREM TypeCorrect == Spec => []TypeOK
  <1>1. CInv => TypeOK
    BY DEF CInv
  <1> QED BY <1>1, CInvariance, PTL

\* A memoised list is the stored one, up to the keys that a running call has
\* updated and not yet forgotten, and those of which an update has rejected,
\* whatever calls and crashes came before.
THEOREM CachesStayCurrent == Spec => []CachesAreCurrent
  <1>1. CInv => CachesAreCurrent
    BY DEF CInv
  <1> QED BY <1>1, CInvariance, PTL

----------------------------------------------------------------------------
\* A call that runs alone.

LEMMA AtRest ==
    ASSUME NEW c \in Calls, ~Running(c)
    PROVE  StillToForget(c) = {} /\ StillToWrite(c) = {}
  BY DEF Running, StillToForget, StillToWrite

\* Of a key that nobody has still to forget every reader sees what is stored.
LEMMA ListedShows ==
    ASSUME mtypes, CachesAreCurrent, NEW k \in Keys \ rejected,
           \A c \in Calls : k \notin StillToForget(c)
    PROVE  \A b \in Bastions : Listed(k)[b] = memento.rows[k][b]
  <1>1. memento.rows[k] \in List
    BY DEF mtypes, Store
  <1>2. \A b \in Bastions :
          [memento.rows[k] EXCEPT ![Unstamped] = Absent][b] = memento.rows[k][b]
    BY <1>1, SlotFacts DEF List
  <1>3. Listed(k) = [memento.rows[k] EXCEPT ![Unstamped] = Absent]
    BY DEF CachesAreCurrent, Listed
  <1> QED BY <1>2, <1>3

\* Replacing the rows of one bastion leaves the others as they are stored.
LEMMA ReplacedShows ==
    ASSUME mtypes, ctypes, CachesAreCurrent, NEW k \in Keys, NEW b \in Bastions, NEW row \in Row,
           NEW c \in Calls, ReplaceRows(c, k, b, row),
           \A d \in Calls : k \notin StillToForget(d)
    PROVE  \A j \in Keys \ rejected, x \in Bastions \ {b} :
              memento'.rows[j][x] = memento.rows[j][x]
  <1>1. /\ memento'.rows[k] = [Listed(k) EXCEPT ![b] = row]
        /\ \A j \in Keys \ {k} : memento'.rows[j] = memento.rows[j]
    BY RowsReplaced
  <1>2. Listed(k) \in List /\ \A x \in Bastions : x \in Slots
    BY ListedTyped, SlotFacts
  <1>3. \A x \in Bastions \ {b} : memento'.rows[k][x] = Listed(k)[x]
    BY <1>1, <1>2 DEF List
  <1> QED BY <1>1, <1>3, ListedShows

LEMMA AloneStart ==
    ASSUME CInv, NEW c \in Calls, Start(c), met'[c] = {}
    PROVE  /\ \A k \in Keys \ rejected, b \in Bastions \ {call'[c].bastion} :
                 memento'.rows[k][b] = memento.rows[k][b]
           /\ \A k \in StillToWrite(c)' \ rejected', b \in Bastions \ {call'[c].bastion} :
                 call'[c].kept[k][b] = memento'.rows[k][b]
  <1>1. mtypes /\ ctypes /\ CachesAreCurrent
    BY TypesSplit DEF CInv
  <1> PICK b \in Bastions : \/ StartRefresh(c, b) \/ StartEdit(c, b) \/ StartDelete(c, b)
                            \/ \E level \in {c, Absent} : StartTrust(c, b, level)
    BY DEF Start
  <1>2. "bastions" \in Keys /\ "trust" \in Keys /\ Absent \in Row /\ c \in Row
    BY SlotFacts DEF Keys
  <1>3. ASSUME NEW kind \in Kinds, NEW step \in Steps \ {"bastionGone"},
               NEW seen \in Row, NEW kept \in [Keys -> List \cup {NoCache}],
               Begin(c, kind, b, step, seen, kept), step \in {"started", "editSaved", "trustSaved"}
        PROVE  /\ call'[c].bastion = b /\ StillToWrite(c)' = {}
               /\ \A d \in Calls : StillToForget(d) = {}
    <2>1. /\ call'[c] = [kind |-> kind, bastion |-> b, step |-> step, seen |-> seen, kept |-> kept]
          /\ met'[c] = {d \in Calls : Running(d)}
      BY <1>1, <1>3, BeginTyped
    <2> QED BY <2>1, <1>3, AtRest DEF StillToWrite
  <1>4. CASE StartRefresh(c, b)
    <2>1. Listed("bastions")[b] \in Row
      BY <1>1, <1>2, ListedTyped, SlotFacts DEF List
    <2>2. /\ memento' = memento
          /\ Begin(c, "refresh", b, "started", Listed("bastions")[b], NoCall.kept)
      BY <1>4 DEF StartRefresh
    <2> QED BY <2>1, <2>2, <1>3, NoKept DEF Kinds, Steps
  <1>5. CASE StartEdit(c, b)
    <2>1. ReplaceRows(c, "bastions", b, c) /\ Begin(c, "edit", b, "editSaved", Absent, NoCall.kept)
      BY <1>5 DEF StartEdit
    <2>2. /\ call'[c].bastion = b /\ StillToWrite(c)' = {}
          /\ \A d \in Calls : StillToForget(d) = {}
      BY <2>1, <1>2, <1>3, NoKept DEF Kinds, Steps
    <2> QED BY <2>1, <2>2, <1>1, <1>2, ReplacedShows
  <1>6. CASE \E level \in {c, Absent} : StartTrust(c, b, level)
    <2>1. PICK level \in Row : /\ ReplaceRows(c, "trust", b, level)
                               /\ Begin(c, "trust", b, "trustSaved", Absent, NoCall.kept)
      BY <1>6, <1>2 DEF StartTrust
    <2>2. /\ call'[c].bastion = b /\ StillToWrite(c)' = {}
          /\ \A d \in Calls : StillToForget(d) = {}
      BY <2>1, <1>2, <1>3, NoKept DEF Kinds, Steps
    <2> QED BY <2>1, <2>2, <1>1, <1>2, ReplacedShows
  <1>7. CASE StartDelete(c, b)
    <2>1. /\ KeptOf(b) \in [Keys -> List]
          /\ Begin(c, "delete", b, "bastionGone", Absent, KeptOf(b))
          /\ memento'.rows["bastions"] = [Listed("bastions") EXCEPT ![b] = Absent]
          /\ \A k \in Keys \ {"bastions"} : memento'.rows[k] = memento.rows[k]
          /\ rejected' = rejected
      BY <1>1, <1>7, DeletionStart
    <2>2. KeptOf(b) \in [Keys -> List \cup {NoCache}]
      BY <2>1
    <2>3. /\ call'[c] = [kind |-> "delete", bastion |-> b, step |-> "bastionGone",
                         seen |-> Absent, kept |-> KeptOf(b)]
          /\ met'[c] = {d \in Calls : Running(d)}
      <3>1. "delete" \in Kinds /\ "bastionGone" \in Steps
        BY DEF Kinds, Steps
      <3>2. ctypes /\ Absent \in Row
        BY <1>1, <1>2
      <3> QED BY <2>1, <2>2, <3>1, <3>2, BeginTyped
    <2>4. \A k \in Keys \ rejected, x \in Bastions : Listed(k)[x] = memento.rows[k][x]
      BY <2>3, <1>1, AtRest, ListedShows
    <2>5. \A k \in Keys \ rejected, x \in Bastions \ {b} :
             /\ [Listed(k) EXCEPT ![b] = Absent][x] = memento.rows[k][x]
             /\ KeptOf(b)[k][x] = memento.rows[k][x]
      BY <2>4, <1>1, ListedTyped, SlotFacts DEF List, KeptOf
    <2>6. \A k \in Keys \ rejected, x \in Bastions \ {b} : memento'.rows[k][x] = memento.rows[k][x]
      <3> TAKE k \in Keys \ rejected, x \in Bastions \ {b}
      <3>1. CASE k = "bastions"
        BY <3>1, <2>1, <2>5
      <3>2. CASE k # "bastions"
        BY <3>2, <2>1
      <3> QED BY <3>1, <3>2
    <2>7. StillToWrite(c)' \subseteq Keys
      BY <2>3 DEF StillToWrite, Keys
    <2> QED BY <2>1, <2>3, <2>5, <2>6, <2>7
  <1> QED BY <1>4, <1>5, <1>6, <1>7

\* A deletion updates the keys from the front of those it has still to write.
LEMMA GoneWrites ==
    ASSUME CInv, NEW c \in Calls, NEW step \in GoneSteps, NEW next \in GoneSteps, NEW k \in Keys,
           NextKeyGone(c, step, k, next),
           k \in StillToWrite(c),
           call'[c].step = next => StillToWrite(c)' \subseteq StillToWrite(c) \ {k}
    PROVE  /\ memento'.rows[k] = call[c].kept[k] /\ call'[c].kept = call[c].kept
           /\ \A j \in Keys \ {k} : memento'.rows[j] = memento.rows[j]
           /\ StillToWrite(c)' \subseteq StillToWrite(c) \ {k}
  <1>1. mtypes /\ ctypes /\ StepsFit
    BY TypesSplit DEF CInv
  <1>2. /\ call[c].step = step /\ Go(c, next) /\ Update(c, k, call[c].kept[k])
    BY DEF NextKeyGone, Resumed
  <1>3. call[c].kept[k] \in List
    BY <1>1, <1>2 DEF StepsFit
  <1>4. call'[c].step = next /\ call'[c].kept = call[c].kept
    BY <1>1, <1>2, GoTyped DEF Steps, GoneSteps
  <1> QED BY <1>1, <1>2, <1>3, <1>4, UpdateTyped

LEMMA AloneContinue ==
    ASSUME AInv, NEW c \in Calls, Continue(c), met[c] = {}
    PROVE  /\ \A k \in Keys \ rejected, b \in Bastions \ {call[c].bastion} :
                 memento'.rows[k][b] = memento.rows[k][b]
           /\ \A k \in StillToWrite(c)' \ rejected', b \in Bastions \ {call[c].bastion} :
                 call'[c].kept[k][b] = memento'.rows[k][b]
  <1>1. mtypes /\ ctypes /\ CachesAreCurrent /\ StepsFit /\ Met /\ KeptIsCurrent
    BY TypesSplit DEF AInv, CInv
  <1>2. /\ call[c].bastion \in Bastions /\ call[c].seen \in Row /\ c \in Row
    BY <1>1, SlotFacts DEF ctypes, CallRec
  <1>3. \A b \in Bastions \ {call[c].bastion}, k \in StillToWrite(c) \ rejected :
           call[c].kept[k][b] = memento.rows[k][b]
    BY <1>1 DEF KeptIsCurrent
  <1>4. ASSUME NEW step \in Steps \ GoneSteps, Go(c, step)
        PROVE  StillToWrite(c)' = {}
    <2>1. call'[c].step = step
      BY <1>1, <1>4, GoTyped
    <2> QED BY <2>1, <1>4 DEF StillToWrite, GoneSteps
  <1>5. ASSUME NEW k \in Keys, call[c].step \in {"orgs", "nodes", "assets"}
        PROVE  \A d \in Calls : k \notin StillToForget(d)
    <2>1. StillToForget(c) = {} /\ Running(c)
      BY <1>5 DEF StillToForget, Running
    <2>2. \A d \in Calls \ {c} : ~Running(d)
      BY <2>1, <1>1 DEF Met
    <2> QED BY <2>1, <2>2, AtRest
  <1>6. CASE \/ OrgPicked(c) \/ Listing(c, "nodes", "nodesSaved")
             \/ Listing(c, "assets", "assetsSaved")
    <2>1. \/ \E k \in Keys, row \in Row :
                /\ call[c].step \in {"orgs", "nodes", "assets"}
                /\ ReplaceRows(c, k, call[c].bastion, row)
          \/ memento' = memento
      BY <1>2, <1>6 DEF OrgPicked, Listing, Keys, Memo
    <2>2. \E step \in Steps \ GoneSteps : Go(c, step)
      BY <1>6 DEF OrgPicked, Listing, Steps, GoneSteps
    <2>3. \A k \in Keys \ rejected, b \in Bastions \ {call[c].bastion} :
             memento'.rows[k][b] = memento.rows[k][b]
      <3>1. CASE memento' = memento
        BY <3>1
      <3>2. CASE \E k \in Keys, row \in Row :
                    /\ call[c].step \in {"orgs", "nodes", "assets"}
                    /\ ReplaceRows(c, k, call[c].bastion, row)
        BY <3>2, <1>1, <1>2, <1>5, ReplacedShows
      <3> QED BY <2>1, <3>1, <3>2
    <2> QED BY <2>2, <2>3, <1>4
  <1>7. CASE \/ NextKeyGone(c, "bastionGone", "assets", "assetsGone")
             \/ NextKeyGone(c, "assetsGone", "nodes", "nodesGone")
             \/ NextKeyGone(c, "nodesGone", "trust", "trustGone")
    <2>1. \E k \in Keys :
            /\ k \in StillToWrite(c)
            /\ memento'.rows[k] = call[c].kept[k] /\ call'[c].kept = call[c].kept
            /\ \A j \in Keys \ {k} : memento'.rows[j] = memento.rows[j]
            /\ StillToWrite(c)' \subseteq StillToWrite(c) \ {k}
      <3>0. CInv
        BY DEF AInv
      <3>1. CASE NextKeyGone(c, "bastionGone", "assets", "assetsGone")
        <4>1. "assets" \in StillToWrite(c) /\ "assets" \in Keys
          BY <3>1 DEF NextKeyGone, Resumed, StillToWrite, Keys
        <4>2. call'[c].step = "assetsGone" => StillToWrite(c)' \subseteq StillToWrite(c) \ {"assets"}
          BY <3>1 DEF NextKeyGone, Resumed, StillToWrite
        <4> QED BY <3>0, <3>1, <4>1, <4>2, GoneWrites DEF GoneSteps
      <3>2. CASE NextKeyGone(c, "assetsGone", "nodes", "nodesGone")
        <4>1. "nodes" \in StillToWrite(c) /\ "nodes" \in Keys
          BY <3>2 DEF NextKeyGone, Resumed, StillToWrite, Keys
        <4>2. call'[c].step = "nodesGone" => StillToWrite(c)' \subseteq StillToWrite(c) \ {"nodes"}
          BY <3>2 DEF NextKeyGone, Resumed, StillToWrite
        <4> QED BY <3>0, <3>2, <4>1, <4>2, GoneWrites DEF GoneSteps
      <3>3. CASE NextKeyGone(c, "nodesGone", "trust", "trustGone")
        <4>1. "trust" \in StillToWrite(c) /\ "trust" \in Keys
          BY <3>3 DEF NextKeyGone, Resumed, StillToWrite, Keys
        <4>2. call'[c].step = "trustGone" => StillToWrite(c)' \subseteq StillToWrite(c) \ {"trust"}
          BY <3>3 DEF NextKeyGone, Resumed, StillToWrite
        <4> QED BY <3>0, <3>3, <4>1, <4>2, GoneWrites DEF GoneSteps
      <3> QED BY <1>7, <3>1, <3>2, <3>3
    <2>2. StillToWrite(c) \subseteq Keys
      BY DEF StillToWrite, Keys
    <2>3. rejected' = rejected
      BY <1>7 DEF NextKeyGone, Memo
    <2> QED BY <2>1, <2>2, <2>3, <1>3
  <1>8. CASE \/ PasswordRead(c)
             \/ Saved(c, "orgSaved", "bastions", "nodes")
             \/ Saved(c, "nodesSaved", "nodes", "assets")
             \/ Saved(c, "assetsSaved", "assets", "done")
             \/ Saved(c, "trustSaved", "trust", "done")
             \/ EditSaved(c) \/ AllKeysGone(c) \/ SecretSet(c)
    <2>1. /\ memento' = memento
          /\ \E step \in {"orgs", "nodes", "assets", "secret", "done"} : Go(c, step)
      BY <1>8 DEF PasswordRead, Saved, EditSaved, AllKeysGone, SecretSet
    <2>2. \A step \in {"orgs", "nodes", "assets", "secret", "done"} : step \in Steps \ GoneSteps
      BY DEF Steps, GoneSteps
    <2> QED BY <2>1, <2>2, <1>4
  <1> QED BY <1>6, <1>7, <1>8 DEF Continue

\* A call goes on only while it runs, and steps of its own.
LEMMA ContinueIsAStep ==
    ASSUME CInv, NEW c \in Calls, Continue(c)
    PROVE  /\ Running(c) /\ met' = met /\ call'[c].bastion = call[c].bastion
           /\ \A d \in Calls \ {c} : call'[d] = call[d]
  <1>1. ctypes
    BY TypesSplit DEF CInv
  <1>2. Running(c) /\ met' = met /\ \E step \in Steps : Go(c, step)
    <2>1. CASE PasswordRead(c)
      BY <2>1 DEF PasswordRead, Running, CallVars, Steps
    <2>2. CASE OrgPicked(c)
      BY <2>2 DEF OrgPicked, Running, CallVars, Steps
    <2>3. CASE Listing(c, "nodes", "nodesSaved") \/ Listing(c, "assets", "assetsSaved")
      BY <2>3 DEF Listing, Running, CallVars, Steps
    <2>4. CASE \/ Saved(c, "orgSaved", "bastions", "nodes")
               \/ Saved(c, "nodesSaved", "nodes", "assets")
               \/ Saved(c, "assetsSaved", "assets", "done")
               \/ Saved(c, "trustSaved", "trust", "done")
      BY <2>4 DEF Saved, Resumed, Running, CallVars, Steps
    <2>5. CASE EditSaved(c)
      BY <2>5 DEF EditSaved, Saved, Resumed, Running, CallVars, Steps
    <2>6. CASE \/ NextKeyGone(c, "bastionGone", "assets", "assetsGone")
               \/ NextKeyGone(c, "assetsGone", "nodes", "nodesGone")
               \/ NextKeyGone(c, "nodesGone", "trust", "trustGone")
      BY <2>6 DEF NextKeyGone, Resumed, Running, CallVars, Steps
    <2>7. CASE AllKeysGone(c) \/ SecretSet(c)
      BY <2>7 DEF AllKeysGone, SecretSet, Resumed, Running, CallVars, Steps
    <2> QED BY <2>1, <2>2, <2>3, <2>4, <2>5, <2>6, <2>7 DEF Continue
  <1> QED BY <1>1, <1>2, GoTyped

LEMMA StartIsAStep ==
    ASSUME CInv, NEW c \in Calls, Start(c)
    PROVE  /\ ~Running(c) /\ met'[c] = {d \in Calls : Running(d)}
           /\ \A d \in Calls \ {c} : /\ call'[d] = call[d]
                                     /\ met'[d] = IF Running(d) THEN met[d] \cup {c} ELSE met[d]
  <1>1. ctypes
    BY TypesSplit DEF CInv
  <1>2. PICK kind, b, step, seen, kept : Begin(c, kind, b, step, seen, kept)
    BY DEF Start, StartRefresh, StartEdit, StartDelete, StartTrust
  <1>3. /\ call[c].step = "idle"
        /\ call' = [call EXCEPT ![c] = [kind |-> kind, bastion |-> b, step |-> step,
                                        seen |-> seen, kept |-> kept]]
        /\ met' = [d \in Calls |-> IF d = c THEN {x \in Calls : Running(x)}
                                   ELSE IF d \in {x \in Calls : Running(x)}
                                        THEN met[d] \cup {c} ELSE met[d]]
    BY <1>2 DEF Begin
  <1>4. ~Running(c) /\ \A d \in Calls \ {c} : call'[d] = call[d]
    BY <1>1, <1>3 DEF Running, ctypes
  <1>5. \A d \in Calls : met'[d] = IF d = c THEN {x \in Calls : Running(x)}
                                   ELSE IF Running(d) THEN met[d] \cup {c} ELSE met[d]
    BY <1>3
  <1> QED BY <1>4, <1>5

LEMMA AInvInit == Init => AInv
  <1>1. ASSUME Init PROVE Met /\ KeptIsCurrent
    <2>1. \A c \in Calls : call[c].step = "idle"
      BY <1>1 DEF Init, NoCall
    <2>2. \A c \in Calls : ~Running(c) /\ StillToWrite(c) = {}
      BY <2>1 DEF Running, StillToWrite
    <2> QED BY <2>2 DEF Met, KeptIsCurrent
  <1> QED BY <1>1, CInvInit DEF AInv

LEMMA AInvNext == AInv /\ [Next]_vars => AInv'
  <1> SUFFICES ASSUME AInv, [Next]_vars PROVE AInv'
    OBVIOUS
  <1>1. CInv /\ Met /\ KeptIsCurrent /\ CInv'
    BY CInvNext DEF AInv
  <1>2. mtypes /\ ctypes /\ rtypes /\ Quiet
    BY <1>1, TypesSplit DEF CInv
  <1> SUFFICES Met' /\ KeptIsCurrent'
    BY <1>1 DEF AInv
  <1>3. \A d \in Calls : ~Running(d)' => StillToWrite(d)' = {}
    BY DEF Running, StillToWrite
  <1>4. ASSUME NEW c \in Calls, Start(c)
        PROVE  Met' /\ KeptIsCurrent'
    <2>1. /\ ~Running(c) /\ met'[c] = {d \in Calls : Running(d)}
          /\ \A d \in Calls \ {c} : /\ call'[d] = call[d]
                                    /\ met'[d] = IF Running(d) THEN met[d] \cup {c} ELSE met[d]
      BY <1>1, <1>4, StartIsAStep
    <2>2. \A d \in Calls \ {c} : Running(d)' <=> Running(d)
      BY <2>1 DEF Running
    <2>3. Met'
      <3> SUFFICES ASSUME NEW d \in Calls, NEW e \in Calls, d # e, Running(d)', Running(e)'
                   PROVE  e \in met'[d]
        BY DEF Met
      <3>1. CASE d = c
        BY <3>1, <2>1, <2>2
      <3>2. CASE d # c
        BY <3>2, <2>1, <2>2, <1>1 DEF Met
      <3> QED BY <3>1, <3>2
    <2>4. KeptIsCurrent'
      <3> SUFFICES ASSUME NEW d \in Calls, met'[d] = {}
                   PROVE  \A k \in StillToWrite(d)' \ rejected', x \in Bastions \ {call'[d].bastion} :
                             call'[d].kept[k][x] = memento'.rows[k][x]
        BY DEF KeptIsCurrent
      <3>1. CASE d = c
        BY <3>1, <1>1, <1>4, AloneStart
      <3>2. CASE d # c
        <4>1. ~Running(d)
          BY <3>2, <2>1
        <4> QED BY <4>1, <3>2, <2>2, <1>3
      <3> QED BY <3>1, <3>2
    <2> QED BY <2>3, <2>4
  <1>5. ASSUME NEW c \in Calls, Continue(c)
        PROVE  Met' /\ KeptIsCurrent'
    <2>1. /\ Running(c) /\ met' = met /\ call'[c].bastion = call[c].bastion
          /\ \A d \in Calls \ {c} : call'[d] = call[d]
      BY <1>1, <1>5, ContinueIsAStep
    <2>2. \A d \in Calls : Running(d)' => Running(d)
      BY <2>1 DEF Running
    <2>3. Met'
      BY <2>1, <2>2, <1>1 DEF Met
    <2>4. KeptIsCurrent'
      <3> SUFFICES ASSUME NEW d \in Calls, met'[d] = {}
                   PROVE  \A k \in StillToWrite(d)' \ rejected', x \in Bastions \ {call'[d].bastion} :
                             call'[d].kept[k][x] = memento'.rows[k][x]
        BY DEF KeptIsCurrent
      <3>1. CASE d = c
        BY <3>1, <2>1, <1>5, AloneContinue
      <3>2. CASE d # c
        <4>1. ~Running(d)
          BY <3>2, <2>1, <1>1 DEF Met
        <4> QED BY <4>1, <2>2, <1>3
      <3> QED BY <3>1, <3>2
    <2> QED BY <2>3, <2>4
  <1>6. ASSUME call' = call, met' = met,
               \/ memento'.rows = memento.rows /\ rejected' = rejected
               \/ \A d \in Calls : StillToWrite(d) = {}
        PROVE  Met' /\ KeptIsCurrent'
    <2>1. \A d \in Calls : (Running(d)' <=> Running(d)) /\ StillToWrite(d)' = StillToWrite(d)
      BY <1>6 DEF Running, StillToWrite
    <2> QED BY <2>1, <1>1, <1>3, <1>6 DEF Met, KeptIsCurrent
  <1>7. CASE MigrationNext
    <2>1. call' = call /\ met' = met /\ migration # "done"
      BY <1>2, <1>7, MigrationTyped
    <2>2. ASSUME NEW d \in Calls PROVE StillToWrite(d) = {}
      BY <2>1, <1>2 DEF Quiet, Running, StillToWrite
    <2> QED BY <2>1, <2>2, <1>6
  <1>8. CASE Flush \/ (\E k \in Keys : Read(k)) \/ UNCHANGED vars
    BY <1>6, <1>8 DEF Flush, Read, vars, Memo
  <1>10. ASSUME NEW c \in Calls, Reject(c)
         PROVE  Met' /\ KeptIsCurrent'
    <2>1. /\ call'[c].step = "done" /\ \A d \in Calls \ {c} : call'[d] = call[d]
          /\ UNCHANGED <<memento, met>> /\ rejected \subseteq rejected'
      BY <1>2, <1>10, RejectTyped
    <2>2. ~Running(c)' /\ \A d \in Calls \ {c} : Running(d)' <=> Running(d)
      BY <2>1 DEF Running
    <2>3. /\ StillToWrite(c)' = {}
          /\ \A d \in Calls \ {c} : StillToWrite(d)' = StillToWrite(d)
      BY <2>1 DEF StillToWrite
    <2> QED BY <2>1, <2>2, <2>3, <1>1 DEF Met, KeptIsCurrent
  <1>9. CASE Crash
    <2>1. \A d \in Calls : ~Running(d)'
      BY <1>9, <1>2 DEF Crash, ctypes, CallRec, Running, Steps
    <2> QED BY <2>1, <1>3 DEF Met, KeptIsCurrent
  <1> QED BY <1>4, <1>5, <1>7, <1>8, <1>9, <1>10 DEF Next

LEMMA AloneStep ==
    ASSUME AInv, [Next]_vars, NEW c \in Calls,
           call'[c] # call[c], met'[c] = {}, crashes' = crashes
    PROVE  \A k \in Keys \ rejected, b \in Bastions \ {call'[c].bastion} :
              memento'.rows[k][b] = memento.rows[k][b]
  <1>1. CInv /\ mtypes /\ ctypes /\ rtypes /\ Quiet
    BY TypesSplit DEF AInv, CInv
  <1>2. ASSUME NEW d \in Calls, Start(d) PROVE d = c
    BY <1>1, <1>2, StartIsAStep
  <1>3. ASSUME NEW d \in Calls, Continue(d)
        PROVE  d = c /\ met' = met /\ call'[c].bastion = call[c].bastion
    BY <1>1, <1>3, ContinueIsAStep
  <1>9. CASE \E d \in Calls : Reject(d)
    BY <1>9 DEF Reject
  <1>4. CASE MigrationNext
    BY <1>1, <1>4, MigrationTyped
  <1>5. ~Crash
    BY <1>1 DEF Crash, rtypes
  <1>6. CASE Flush \/ (\E k \in Keys : Read(k)) \/ UNCHANGED vars
    BY <1>6 DEF Flush, Read, vars
  <1>7. CASE \E d \in Calls : Start(d)
    BY <1>1, <1>2, <1>7, AloneStart
  <1>8. CASE \E d \in Calls : Continue(d)
    BY <1>3, <1>8, AloneContinue
  <1> QED BY <1>4, <1>5, <1>6, <1>7, <1>8, <1>9 DEF Next

\* A call during which no other runs leaves the rows of the other bastions alone:
\* it writes whole lists, but each shows what is stored.  Calls that overlapped
\* before it, and crashes that cut calls short, do not change that; an update that
\* rejects does, for its key, until that is written again.
THEOREM AloneKeepsToItsRows == Spec => AloneTouchesItsOwnRows
  <1>1. Spec => []AInv
    BY AInvInit, AInvNext, PTL DEF Spec
  <1>2. AInv /\ [Next]_vars =>
           [\A c \in Calls :
              (call'[c] # call[c] /\ met'[c] = {} /\ crashes' = crashes) =>
                  \A k \in Keys \ rejected, b \in Bastions \ {call'[c].bastion} :
                      memento'.rows[k][b] = memento.rows[k][b]]_vars
    BY AloneStep
  <1> QED BY <1>1, <1>2, PTL DEF Spec, AloneTouchesItsOwnRows

----------------------------------------------------------------------------
\* The password of a singleton install.

\* An id has been allocated and the bastion that has it is not deleted.
Active == newId \in Bastions /\ newId \in allocated /\ ~Deleted

LEMMA ActiveIs ==
    ASSUME rtypes, IdsFit, allocated # {}, ~Deleted
    PROVE  Active
  BY DEF rtypes, IdsFit, Active

\* A step that changes neither the list of bastions nor a secret, nor the migration.
LEMMA ProfileSame ==
    ASSUME ProfileInv, Active, memento'.rows["bastions"] = memento.rows["bastions"],
           memento'.settings = memento.settings,
           cache'["bastions"] \in {NoCache, cache["bastions"]},
           Migrator \in unflushed => Migrator \in unflushed',
           UNCHANGED <<disk, secrets, migration, newId, allocated>>
    PROVE  ProfileInv'
  BY DEF ProfileInv, Active, Profile, Fresh

\* The calls change neither the stored profile's presence nor its password, as
\* long as nobody deletes its bastion.
LEMMA ProfileKept ==
    ASSUME ProfileInv, Active, migration = "done",
           memento'.rows["bastions"][newId] # Absent,
           cache'["bastions"] # NoCache => cache'["bastions"][newId] # Absent,
           secrets'[Unstamped] = secrets[Unstamped],
           secrets[newId] => secrets'[newId],
           UNCHANGED <<disk, migration, newId, allocated>>
    PROVE  ProfileInv'
  BY DEF ProfileInv, Active, Profile, Fresh

LEMMA ProfileListed ==
    ASSUME mtypes, ProfileInv, Active, migration = "done"
    PROVE  Listed("bastions")[newId] # Absent /\ memento.rows["bastions"][newId] # Absent
  <1>1. "bastions" \in Keys /\ newId \in Bastions
    BY DEF Keys, Active
  <1>2. memento.rows["bastions"] \in List
    BY <1>1 DEF mtypes, Store
  <1>3. [memento.rows["bastions"] EXCEPT ![Unstamped] = Absent][newId]
           = memento.rows["bastions"][newId]
    BY <1>1, <1>2, SlotFacts DEF List
  <1>4. /\ memento.rows["bastions"][newId] # Absent
        /\ cache["bastions"] # NoCache => cache["bastions"][newId] # Absent
    BY DEF ProfileInv, Profile, Active
  <1> QED BY <1>1, <1>3, <1>4, ListedTyped

\* A row of bastions that is replaced by one that exists leaves the profile there.
LEMMA ProfileReplaced ==
    ASSUME mtypes, ctypes, ProfileInv, Active, migration = "done",
           NEW c \in Calls, NEW b \in Bastions, NEW row \in Row, row # Absent,
           ReplaceRows(c, "bastions", b, row)
    PROVE  /\ memento'.rows["bastions"][newId] # Absent
           /\ cache'["bastions"][newId] # Absent
  <1>1. "bastions" \in Keys
    BY DEF Keys
  <1>2. /\ memento'.rows["bastions"] = [Listed("bastions") EXCEPT ![b] = row]
        /\ cache'["bastions"] = Listed("bastions")
    BY <1>1, RowsReplaced
  <1>3. Listed("bastions") \in List /\ newId \in Slots
    BY <1>1, ListedTyped, SlotFacts DEF Active
  <1> QED BY <1>2, <1>3, ProfileListed DEF List

\* The trust overlay is written at any time, and the caches once the migration is over.
LEMMA ProfileOther ==
    ASSUME mtypes, ctypes, ProfileInv, Active, NEW c \in Calls, NEW k \in Keys \ {"bastions"},
           NEW b \in Bastions, NEW row \in Row, ReplaceRows(c, k, b, row),
           UNCHANGED <<disk, secrets, migration, newId, allocated>>
    PROVE  ProfileInv'
  <1>1. /\ memento'.rows["bastions"] = memento.rows["bastions"]
        /\ cache'["bastions"] = cache["bastions"] /\ unflushed' = unflushed \cup {c}
    BY RowsReplaced DEF Keys
  <1>2. memento'.settings = memento.settings
    BY DEF ReplaceRows, Update, mtypes, Store
  <1> QED BY <1>1, <1>2, ProfileSame

LEMMA ProfileStart ==
    ASSUME CInv, ProfileInv, Active, ~Deleted', NEW c \in Calls, Start(c)
    PROVE  ProfileInv'
  <1>1. mtypes /\ ctypes
    BY TypesSplit DEF CInv
  <1> PICK b \in Bastions : \/ StartRefresh(c, b) \/ StartEdit(c, b) \/ StartDelete(c, b)
                            \/ \E level \in {c, Absent} : StartTrust(c, b, level)
    BY DEF Start
  <1>2. /\ "bastions" \in Keys /\ "trust" \in Keys \ {"bastions"} /\ Absent \in Row
        /\ c \in Row /\ c # Absent
    BY SlotFacts DEF Keys
  <1>3. UNCHANGED <<disk, secrets, migration, newId, allocated>>
    BY DEF StartRefresh, StartEdit, StartDelete, StartTrust, Begin, Ids
  <1>4. ASSUME migration = "done"
        PROVE  Listed("bastions")[newId] # Absent /\ memento.rows["bastions"][newId] # Absent
    BY <1>1, <1>4, ProfileListed
  <1>5. CASE StartRefresh(c, b)
    <2>1. memento' = memento /\ cache'["bastions"] = Listed("bastions") /\ migration = "done"
      BY <1>1, <1>2, <1>5 DEF StartRefresh, Begin, mtypes
    <2> QED BY <2>1, <1>3, <1>4, ProfileKept
  <1>6. CASE StartEdit(c, b)
    <2>1. migration = "done" /\ ReplaceRows(c, "bastions", b, c)
      BY <1>6 DEF StartEdit, Begin
    <2>2. /\ memento'.rows["bastions"][newId] # Absent
          /\ cache'["bastions"][newId] # Absent
      BY <2>1, <1>1, <1>2, ProfileReplaced
    <2> QED BY <2>1, <2>2, <1>3, ProfileKept
  <1>7. CASE \E level \in {c, Absent} : StartTrust(c, b, level)
    <2>1. PICK level \in Row : ReplaceRows(c, "trust", b, level)
      BY <1>2, <1>7 DEF StartTrust
    <2> QED BY <2>1, <1>1, <1>2, <1>3, ProfileOther
  <1>8. CASE StartDelete(c, b)
    <2>1. /\ KeptOf(b) \in [Keys -> List]
          /\ Begin(c, "delete", b, "bastionGone", Absent, KeptOf(b))
          /\ memento'.rows["bastions"] = [Listed("bastions") EXCEPT ![b] = Absent]
          /\ cache'["bastions"] = Listed("bastions")
      BY <1>1, <1>2, <1>8, DeletionStart
    <2>2. call'[c].kind = "delete" /\ call'[c].bastion = b /\ migration = "done"
      BY <2>1, <1>1 DEF Begin, ctypes
    <2>3. newId \in allocated'
      BY <1>3 DEF Active
    <2>4. b # newId
      BY <2>2, <2>3 DEF Deleted
    <2>5. Listed("bastions") \in List /\ newId \in Slots
      BY <1>1, <1>2, ListedTyped, SlotFacts DEF Active
    <2>6. memento'.rows["bastions"][newId] # Absent
      BY <2>1, <2>2, <2>4, <2>5, <1>4 DEF List
    <2> QED BY <2>1, <2>2, <2>6, <1>3, <1>4, ProfileKept
  <1> QED BY <1>5, <1>6, <1>7, <1>8

LEMMA ProfileContinue ==
    ASSUME CInv, ProfileInv, Active, NEW c \in Calls, Continue(c)
    PROVE  ProfileInv'
  <1>1. mtypes /\ ctypes /\ rtypes /\ Quiet /\ StepsFit
    BY TypesSplit DEF CInv
  <1>2. Running(c)
    BY ContinueIsAStep
  <1>3. UNCHANGED <<disk, migration, newId, allocated>>
    <2>1. UNCHANGED CallVars
      BY DEF Continue, PasswordRead, OrgPicked, Listing, Saved, EditSaved, NextKeyGone,
             AllKeysGone, SecretSet
    <2> QED BY <2>1 DEF CallVars, Ids
  <1>4. ASSUME call[c].step # "trustSaved"
        PROVE  /\ migration = "done" /\ Listed("bastions")[newId] # Absent
               /\ memento.rows["bastions"][newId] # Absent
    <2>1. migration = "done"
      BY <1>1, <1>2, <1>4 DEF Quiet
    <2> QED BY <2>1, <1>1, ProfileListed
  <1>5. "bastions" \in Keys /\ call[c].bastion \in Bastions /\ call[c].seen \in Row /\ c \in Row
    BY <1>1, SlotFacts DEF Keys, ctypes, CallRec
  <1>7. CASE OrgPicked(c)
    <2>0. call[c].step = "orgs" /\ secrets' = secrets
      BY <1>7 DEF OrgPicked
    <2>1. CASE ReplaceRows(c, "bastions", call[c].bastion, call[c].seen)
      <3>1. call[c].seen # Absent
        BY <2>0, <1>1 DEF StepsFit
      <3>2. migration = "done"
        BY <2>0, <1>4
      <3>3. /\ memento'.rows["bastions"][newId] # Absent
            /\ cache'["bastions"][newId] # Absent
        BY <2>1, <3>1, <3>2, <1>1, <1>5, ProfileReplaced
      <3> QED BY <2>0, <3>2, <3>3, <1>3, ProfileKept
    <2>2. CASE UNCHANGED <<memento, unflushed, Memo>>
      BY <2>0, <2>2, <1>3, ProfileSame DEF Memo
    <2> QED BY <1>7, <2>1, <2>2 DEF OrgPicked
  <1>8. CASE Listing(c, "nodes", "nodesSaved") \/ Listing(c, "assets", "assetsSaved")
    <2>1. secrets' = secrets
      BY <1>8 DEF Listing
    <2>2. CASE \E k \in Keys \ {"bastions"} : ReplaceRows(c, k, call[c].bastion, c)
      BY <2>1, <2>2, <1>1, <1>3, <1>5, ProfileOther
    <2>3. CASE UNCHANGED <<memento, unflushed, Memo>>
      BY <2>1, <2>3, <1>3, ProfileSame DEF Memo
    <2> QED BY <2>2, <2>3, <1>8 DEF Listing, Keys
  <1>9. CASE \/ PasswordRead(c)
             \/ Saved(c, "orgSaved", "bastions", "nodes")
             \/ Saved(c, "nodesSaved", "nodes", "assets")
             \/ Saved(c, "assetsSaved", "assets", "done")
             \/ Saved(c, "trustSaved", "trust", "done")
             \/ EditSaved(c) \/ AllKeysGone(c)
    <2>1. /\ memento' = memento /\ secrets' = secrets /\ unflushed' = unflushed
          /\ cache' = cache \/ \E ks \in SUBSET Keys : Forget(ks)
      BY <1>9 DEF PasswordRead, Saved, EditSaved, AllKeysGone, Keys, Memo
    <2>2. cache'["bastions"] \in {NoCache, cache["bastions"]}
      BY <2>1, <1>5 DEF Forget
    <2> QED BY <2>1, <2>2, <1>3, ProfileSame
  <1>10. CASE \/ NextKeyGone(c, "bastionGone", "assets", "assetsGone")
              \/ NextKeyGone(c, "assetsGone", "nodes", "nodesGone")
              \/ NextKeyGone(c, "nodesGone", "trust", "trustGone")
    <2>1. /\ cache' = cache /\ secrets' = secrets /\ call[c].step \in GoneSteps
          /\ \E k \in {"assets", "nodes", "trust"} : Update(c, k, call[c].kept[k])
      BY <1>10 DEF NextKeyGone, Resumed, GoneSteps, Memo
    <2>2. PICK k \in {"assets", "nodes", "trust"} : Update(c, k, call[c].kept[k])
      BY <2>1
    <2>3. k \in Keys /\ "bastions" \in Keys \ {k}
      BY DEF Keys
    <2>4. call[c].kept[k] \in List
      BY <2>1, <2>3, <1>1 DEF StepsFit
    <2>5. /\ memento'.rows["bastions"] = memento.rows["bastions"]
          /\ memento'.settings = memento.settings /\ unflushed' = unflushed \cup {c}
      BY <2>2, <2>3, <2>4, <1>1, UpdateTyped
    <2> QED BY <2>1, <2>5, <1>3, ProfileSame
  <1>11. CASE SecretSet(c)
    <2>1. /\ memento' = memento /\ cache' = cache /\ call[c].step = "secret"
          /\ secrets' = [secrets EXCEPT ![call[c].bastion] = call[c].kind = "edit"]
      BY <1>11 DEF SecretSet, Memo
    <2>2. call[c].kind \in {"edit", "delete"}
      BY <2>1, <1>1 DEF StepsFit
    <2>3. call[c].bastion = newId => call[c].kind = "edit"
      BY <2>2 DEF Deleted, Active
    <2>4. call[c].bastion # Unstamped /\ call[c].bastion \in Slots
      BY <1>5, SlotFacts
    <2>5. secrets'[Unstamped] = secrets[Unstamped]
      BY <2>1, <2>4, <1>1, SlotFacts DEF rtypes
    <2>6. secrets[newId] => secrets'[newId]
      BY <2>1, <2>3, <2>4, <1>1, SlotFacts DEF rtypes, Active
    <2>7. /\ migration = "done" /\ memento.rows["bastions"][newId] # Absent
          /\ cache["bastions"] # NoCache => cache["bastions"][newId] # Absent
      BY <2>1, <1>4 DEF ProfileInv, Active
    <2> QED BY <2>1, <2>5, <2>6, <2>7, <1>3, ProfileKept
  <1> QED BY <1>7, <1>8, <1>9, <1>10, <1>11 DEF Continue

\* The migration stores the profile before it moves the password, and moves the
\* password before it drops the old one.
LEMMA ProfileMigration ==
    ASSUME CInv, Unborn, IdsFit, ProfileInv, ~Deleted', MigrationNext, allocated' # {}
    PROVE  ProfileInv'
  <1>1. mtypes /\ ctypes /\ rtypes /\ Quiet
    BY TypesSplit DEF CInv
  <1>2. "bastions" \in Keys /\ Imported # Absent /\ EmptyList \in List
        /\ Unstamped \in Slots /\ Imported \in Row
    BY SlotFacts, ConfigAssumption DEF Keys
  <1>3. migration # "done" /\ cache'["bastions"] = NoCache /\ call' = call
    <2>1. /\ migration # "done" /\ call' = call
          /\ cache'["bastions"] \in {NoCache, cache["bastions"]}
      BY <1>1, <1>2, MigrationTyped
    <2> QED BY <2>1, <1>1 DEF Quiet, Keys
  <1>4. CASE MigrationStart
    <2>1. UNCHANGED <<secrets, disk>>
      BY <1>4 DEF MigrationStart, MigrationVars
    <2>2. CASE Fresh(memento)
      <3>1. PICK b \in Bastions :
               /\ Unused(b) /\ Update(Migrator, "bastions", [EmptyList EXCEPT ![b] = Imported])
               /\ newId' = b /\ allocated' = allocated \cup {b} /\ migration' = "password"
        BY <2>2, <1>4 DEF MigrationStart, Fresh
      <3>2. b \in Slots /\ [EmptyList EXCEPT ![b] = Imported] \in List
        BY <1>2, SlotFacts DEF List
      <3>3. /\ memento'.rows["bastions"] = [EmptyList EXCEPT ![b] = Imported]
            /\ Migrator \in unflushed'
        BY <3>1, <3>2, <1>1, <1>2, UpdateTyped
      <3>4. Profile(memento)' # Absent
        BY <3>1, <3>2, <3>3, <1>2 DEF List, Profile
      <3>5. secrets[Unstamped] /\ Fresh(disk)
        <4>1. CASE allocated = {}
          BY <4>1, <2>2 DEF IdsFit, Fresh
        <4>2. CASE allocated # {}
          <5>1. ~Deleted
            BY <3>1, <1>3 DEF Deleted
          <5>2. Profile(memento) = Absent
            BY <4>2, <5>1, <1>1, <2>2, ActiveIs DEF Active, Fresh, Profile
          <5> QED BY <4>2, <5>1, <5>2 DEF ProfileInv
        <4> QED BY <4>1, <4>2
      <3>6. Fresh(disk)' /\ secrets'[Unstamped]
        BY <3>5, <2>1 DEF Fresh
      <3> QED BY <3>1, <3>3, <3>4, <3>6, <1>3 DEF ProfileInv
    <2>3. CASE ~Fresh(memento)
      <3>1. memento' = memento /\ migration' = "done" /\ newId' = newId /\ allocated' = allocated
        BY <2>3, <1>4 DEF MigrationStart, Fresh, Ids
      <3>2. ~Deleted
        BY <3>1, <1>3 DEF Deleted
      <3> QED BY <2>1, <2>3, <3>1, <3>2, <1>3 DEF ProfileInv, Profile, Fresh
    <2> QED BY <2>2, <2>3
  <1>5. ASSUME ~MigrationStart PROVE newId' = newId /\ allocated' = allocated
    BY <1>5 DEF MigrationNext, MovePassword, DropOldPassword, StampRows, DropSettings,
                MigrationEnd, MigrationFailed, Ids
  <1>6. ASSUME ~MigrationStart PROVE ~Deleted /\ newId \in Slots /\ newId # Unstamped
    BY <1>1, <1>3, <1>5, <1>6, ActiveIs, SlotFacts DEF Deleted, Active
  <1>7. ASSUME ~MigrationStart
        PROVE  /\ Fresh(memento) \/ Profile(memento) # Absent
               /\ Fresh(disk) \/ Profile(disk) # Absent
               /\ migration # "none" => Profile(memento) # Absent
               /\ Profile(disk) # Absent => Profile(memento) # Absent
               /\ migration = "password" /\ Migrator \notin unflushed => Profile(disk) # Absent
               /\ migration = "drop" => secrets[newId] /\ Profile(disk) # Absent
               /\ secrets[Unstamped] \/ (secrets[newId] /\ Profile(disk) # Absent)
    BY <1>5, <1>6, <1>7 DEF ProfileInv
  <1>8. CASE ~MigrationStart /\ MovePassword
    <2>1. /\ migration = "password" /\ Migrator \notin unflushed /\ migration' = "drop"
          /\ UNCHANGED <<memento, unflushed, disk>>
      BY <1>8 DEF MovePassword, MigrationVars
    <2>2. /\ secrets' = [secrets EXCEPT ![newId] = secrets[newId] \/ secrets[Unstamped]]
          /\ secrets \in [Slots -> BOOLEAN]
      BY <1>1, <1>8 DEF MovePassword, rtypes
    <2>3. secrets[Unstamped] \/ secrets[newId]
      BY <1>7, <1>8
    <2>4. secrets'[newId]
      BY <2>2, <2>3, <1>6, <1>8, Zenon
    <2>5. /\ Fresh(memento)' \/ Profile(memento)' # Absent
          /\ Profile(disk)' # Absent /\ Profile(memento)' # Absent
      BY <2>1, <1>5, <1>7, <1>8 DEF Profile, Fresh
    <2>6. secrets'[newId']
      BY <2>4, <1>5, <1>8
    <2> QED BY <2>1, <2>5, <2>6, <1>3 DEF ProfileInv
  <1>9. CASE ~MigrationStart /\ DropOldPassword
    <2>1. /\ migration = "drop" /\ migration' = "assets"
          /\ UNCHANGED <<memento, unflushed, disk>>
      BY <1>9 DEF DropOldPassword, MigrationVars
    <2>2. secrets'[newId] = secrets[newId]
      BY <1>1, <1>2, <1>6, <1>9 DEF DropOldPassword, rtypes
    <2> QED BY <2>1, <2>2, <1>3, <1>5, <1>7, <1>9 DEF ProfileInv, Profile, Fresh
  <1>10. CASE /\ ~MigrationStart
              /\ \/ StampRows("assets", "nodes") \/ StampRows("nodes", "settings")
                 \/ DropSettings \/ MigrationEnd \/ MigrationFailed
    <2>1. /\ UNCHANGED <<disk, secrets>> /\ migration # "none"
          /\ migration' \in {"nodes", "settings", "forget", "done", "failed"}
      BY <1>1, <1>10 DEF StampRows, DropSettings, MigrationEnd, MigrationFailed, MigrationVars, Quiet
    <2>2. memento'.rows["bastions"] = memento.rows["bastions"]
      <3>1. CASE StampRows("assets", "nodes") \/ StampRows("nodes", "settings")
        <4>1. PICK k \in {"assets", "nodes"} : Update(Migrator, k, Stamped(k))
          BY <3>1 DEF StampRows
        <4>2. memento'.rows = [memento.rows EXCEPT ![k] = Stamped(k)]
          BY <4>1, <1>1 DEF Update, mtypes, Store
        <4>3. memento.rows \in [Keys -> List]
          BY <1>1 DEF mtypes, Store
        <4> QED BY <4>2, <4>3, <1>2
      <3>2. CASE DropSettings \/ MigrationEnd \/ MigrationFailed
        BY <3>2, <1>1 DEF DropSettings, MigrationEnd, MigrationFailed, mtypes, Store
      <3> QED BY <1>10, <3>1, <3>2
    <2>3. Profile(memento)' # Absent /\ Profile(disk)' = Profile(disk) /\ Fresh(disk)' = Fresh(disk)
      BY <2>1, <2>2, <1>5, <1>7, <1>10 DEF Profile, Fresh
    <2>4. secrets'[Unstamped] \/ (secrets'[newId'] /\ Profile(disk)' # Absent)
      BY <2>1, <2>3, <1>5, <1>7, <1>10
    <2> QED BY <2>1, <2>3, <2>4, <1>3, <1>7, <1>10 DEF ProfileInv
  <1> QED BY <1>4, <1>8, <1>9, <1>10 DEF MigrationNext

LEMMA ProfileRest ==
    ASSUME CInv, ProfileInv, Active,
           \/ Flush \/ Crash \/ (\E k \in Keys : Read(k)) \/ UNCHANGED vars
           \/ \E c \in Calls : Reject(c)
    PROVE  ProfileInv'
  <1>1. mtypes /\ ctypes /\ rtypes /\ Quiet /\ "bastions" \in Keys /\ allocated # {}
    BY TypesSplit DEF CInv, Keys, Active
  <1>2. CASE Flush
    <2>1. /\ disk' = memento /\ unflushed # {} /\ unflushed' = {}
          /\ UNCHANGED <<memento, secrets, cache, call, migration, newId, allocated>>
      BY <1>2 DEF Flush, Memo, Ids
    <2> QED BY <2>1, <1>1 DEF ProfileInv, Profile, Fresh, Active
  <1>3. CASE Crash
    <2>1. /\ memento' = disk /\ migration' = "none" /\ UNCHANGED <<disk, secrets, newId, allocated>>
          /\ cache'["bastions"] = NoCache
      BY <1>1, <1>3 DEF Crash, Ids
    <2> QED BY <2>1, <1>1 DEF ProfileInv, Profile, Fresh, Active
  <1>4. CASE \E k \in Keys : Read(k)
    <2>1. PICK k \in Keys : Read(k)
      BY <1>4
    <2>2. /\ migration = "done" \/ k = "trust"
          /\ cache' = [cache EXCEPT ![k] = Listed(k)]
          /\ UNCHANGED <<memento, disk, secrets, unflushed, migration, newId, allocated>>
      BY <2>1 DEF Read, Ids
    <2>3. cache'["bastions"] # NoCache => cache'["bastions"][newId] # Absent
      <3>1. CASE k = "bastions"
        <4>1. migration = "done" /\ cache'["bastions"] = Listed("bastions")
          BY <3>1, <2>2, <1>1 DEF mtypes
        <4> QED BY <4>1, <1>1, ProfileListed
      <3>2. CASE k # "bastions"
        BY <3>2, <2>2, <1>1 DEF mtypes, ProfileInv, Active
      <3> QED BY <3>1, <3>2
    <2> QED BY <2>2, <2>3, <1>1 DEF ProfileInv, Profile, Fresh, Active
  <1>5. CASE UNCHANGED vars
    BY <1>5, <1>1 DEF vars, ProfileInv, Profile, Fresh, Active
  <1>6. CASE \E c \in Calls : Reject(c)
    <2>1. PICK c \in Calls : Reject(c)
      BY <1>6
    <2>2. /\ UNCHANGED <<memento, disk, secrets, cache, migration, newId, allocated>>
          /\ unflushed' = unflushed \ {c} /\ c # Migrator
      BY <2>1, <1>1, RejectTyped, ConfigAssumption
    <2> QED BY <2>2, ProfileSame
  <1> QED BY <1>2, <1>3, <1>4, <1>5, <1>6

\* No call touches the old settings, nor the id that the migration has made.
LEMMA CallsKeepSettings ==
    ASSUME CInv, NEW c \in Calls, Start(c) \/ Continue(c)
    PROVE  /\ UNCHANGED <<disk, migration, newId, allocated>>
           /\ memento'.settings = memento.settings
           /\ migration = "none" => /\ secrets' = secrets
                                    /\ memento'.rows["bastions"] = memento.rows["bastions"]
  <1>1. mtypes /\ ctypes /\ Quiet
    BY TypesSplit DEF CInv
  <1>2. ASSUME NEW k \in Keys, NEW list, NEW d, Update(d, k, list)
        PROVE  /\ memento'.settings = memento.settings
               /\ k # "bastions" => memento'.rows["bastions"] = memento.rows["bastions"]
    <2>1. memento' = [memento EXCEPT !.rows[k] = list] /\ memento \in Store
      BY <1>1, <1>2 DEF Update, mtypes
    <2> QED BY <2>1 DEF Store, Keys
  <1>3. CASE Start(c)
    <2> PICK b \in Bastions : \/ StartRefresh(c, b) \/ StartEdit(c, b) \/ StartDelete(c, b)
                              \/ \E level \in {c, Absent} : StartTrust(c, b, level)
      BY <1>3 DEF Start
    <2>1. UNCHANGED <<disk, secrets, migration, newId, allocated>>
      BY DEF StartRefresh, StartEdit, StartDelete, StartTrust, Begin, Ids
    <2>2. CASE StartRefresh(c, b) \/ StartEdit(c, b) \/ StartDelete(c, b)
      <3>1. migration = "done"
        BY <2>2 DEF StartRefresh, StartEdit, StartDelete, Begin
      <3>2. memento' = memento \/ \E list : Update(c, "bastions", list)
        BY <2>2 DEF StartRefresh, StartEdit, StartDelete, ReplaceRows
      <3> QED BY <2>1, <3>1, <3>2, <1>2 DEF Keys
    <2>3. CASE \E level \in {c, Absent} : StartTrust(c, b, level)
      <3>1. \E list : Update(c, "trust", list)
        BY <2>3 DEF StartTrust, ReplaceRows
      <3> QED BY <2>1, <3>1, <1>2 DEF Keys
    <2> QED BY <2>2, <2>3
  <1>4. CASE Continue(c)
    <2>1. UNCHANGED <<disk, migration, newId, allocated>>
      <3>1. UNCHANGED CallVars
        BY <1>4 DEF Continue, PasswordRead, OrgPicked, Listing, Saved, EditSaved, NextKeyGone,
                    AllKeysGone, SecretSet
      <3> QED BY <3>1 DEF CallVars, Ids
    <2>2. memento' = memento \/ \E k \in Keys : \E list : Update(c, k, list)
      BY <1>4 DEF Continue, PasswordRead, OrgPicked, Listing, Saved, EditSaved, NextKeyGone,
                  AllKeysGone, SecretSet, ReplaceRows, Keys
    <2>3. ASSUME migration = "none" PROVE memento' = memento /\ secrets' = secrets
      <3>1. Running(c)
        BY <1>4, ContinueIsAStep
      <3>2. call[c].step = "trustSaved"
        BY <3>1, <2>3, <1>1 DEF Quiet
      <3>3. Saved(c, "trustSaved", "trust", "done")
        BY <3>2, <1>4 DEF Continue, PasswordRead, OrgPicked, Listing, Saved, EditSaved, NextKeyGone,
                          AllKeysGone, SecretSet, Resumed
      <3> QED BY <3>3 DEF Saved
    <2> QED BY <2>1, <2>2, <2>3, <1>2
  <1> QED BY <1>3, <1>4

LEMMA IdsFitNext ==
    ASSUME CInv, IdsFit, [Next]_vars
    PROVE  IdsFit'
  <1>1. mtypes /\ ctypes /\ rtypes /\ Quiet
    BY TypesSplit DEF CInv
  <1>2. CASE \E c \in Calls : Start(c) \/ Continue(c)
    BY <1>2, CallsKeepSettings DEF IdsFit, Fresh
  <1>3. CASE \E c \in Calls : Reject(c)
    <2>1. UNCHANGED <<memento, disk, secrets, migration, newId, allocated>>
      BY <1>3 DEF Reject, Ids
    <2> QED BY <2>1 DEF IdsFit, Fresh
  <1>4. CASE Flush \/ (\E k \in Keys : Read(k)) \/ UNCHANGED vars
    <2>1. /\ UNCHANGED <<memento, secrets, migration, newId, allocated>>
          /\ disk' \in {disk, memento}
      BY <1>4 DEF Flush, Read, vars, Ids
    <2> QED BY <2>1 DEF IdsFit, Fresh
  <1>5. CASE Crash
    <2>1. /\ memento' = disk /\ migration' = "none" /\ UNCHANGED <<disk, secrets, newId, allocated>>
      BY <1>5 DEF Crash, Ids
    <2> QED BY <2>1 DEF IdsFit, Fresh
  <1>6. CASE MigrationStart
    <2>1. CASE Fresh(memento)
      <3>1. newId' \in allocated'
        BY <2>1, <1>6 DEF MigrationStart, Fresh
      <3> QED BY <3>1 DEF IdsFit
    <2>2. CASE ~Fresh(memento)
      <3>1. /\ migration' = "done" /\ UNCHANGED <<memento, secrets, disk, newId, allocated>>
        BY <2>2, <1>6 DEF MigrationStart, Fresh, Ids, MigrationVars
      <3> QED BY <2>2, <3>1 DEF IdsFit, Fresh
    <2> QED BY <2>1, <2>2
  <1>7. CASE MigrationNext /\ ~MigrationStart
    <2>1. migration \notin {"none", "done"} /\ newId' = newId /\ allocated' = allocated
      BY <1>1, <1>7 DEF MigrationNext, MovePassword, DropOldPassword, StampRows, DropSettings,
                        MigrationEnd, MigrationFailed, Ids, Quiet
    <2> QED BY <2>1 DEF IdsFit
  <1> QED BY <1>2, <1>3, <1>4, <1>5, <1>6, <1>7 DEF Next

\* A call that starts was not there before: no deletion is forgotten.
LEMMA UnbornNext ==
    ASSUME CInv, Unborn, [Next]_vars
    PROVE  Unborn' /\ (Deleted => Deleted')
  <1>10. NoCall.kind = "edit" /\ NoCall.step = "idle"
    BY DEF NoCall
  <1>0. allocated \subseteq allocated'
    BY CallsKeepSettings DEF Next, MigrationNext, MigrationStart, MovePassword, DropOldPassword,
       StampRows, DropSettings, MigrationEnd, MigrationFailed, Flush, Crash, Read, Reject, vars, Ids
  <1>1. mtypes /\ ctypes /\ rtypes /\ Quiet
    BY TypesSplit DEF CInv
  <1>2. CASE \E c \in Calls : Start(c)
    <2>1. PICK c \in Calls : Start(c)
      BY <1>2
    <2>2. PICK kind, b, step, seen, kept :
             /\ Begin(c, kind, b, step, seen, kept)
             /\ step \in {"started", "editSaved", "bastionGone", "trustSaved"}
      BY <2>1 DEF Start, StartRefresh, StartEdit, StartDelete, StartTrust
    <2>3. /\ call[c].step = "idle" /\ call'[c].step = step
          /\ \A d \in Calls \ {c} : call'[d] = call[d]
      BY <2>2, <1>1 DEF Begin, ctypes
    <2>4. call[c].kind # "delete"
      BY <2>3, <1>10 DEF Unborn
    <2> QED BY <1>0, <2>2, <2>3, <2>4 DEF Unborn, Deleted
  <1>3. CASE \E c \in Calls : Continue(c)
    <2>1. PICK c \in Calls : Continue(c)
      BY <1>3
    <2>2. PICK step \in Steps \ {"idle"} : Go(c, step)
      BY <2>1 DEF Continue, PasswordRead, OrgPicked, Listing, Saved, EditSaved, NextKeyGone,
                  AllKeysGone, SecretSet, Steps
    <2> QED BY <1>0, <2>2, <1>1, GoTyped DEF Unborn, Deleted
  <1>4. CASE Crash
    <2>1. \A c \in Calls : \/ call'[c] = call[c]
                           \/ /\ call'[c].step = "lost" /\ call'[c].kind = call[c].kind
                              /\ call'[c].bastion = call[c].bastion
      BY <1>1, <1>4 DEF Crash, ctypes, CallRec
    <2> QED BY <1>0, <2>1 DEF Unborn, Deleted
  <1>5. CASE MigrationNext
    <2>1. call' = call
      BY <1>1, <1>5, MigrationTyped
    <2> QED BY <2>1, <1>0 DEF Unborn, Deleted
  <1>6. CASE Flush \/ (\E k \in Keys : Read(k)) \/ UNCHANGED vars
    BY <1>0, <1>6 DEF Flush, Read, vars, Unborn, Deleted
  <1>7. CASE \E c \in Calls : Reject(c)
    <2>1. PICK c \in Calls : Reject(c)
      BY <1>7
    <2>2. /\ call'[c].step = "done"
          /\ \A d \in Calls : /\ call'[d].kind = call[d].kind
                              /\ call'[d].bastion = call[d].bastion
                              /\ d # c => call'[d] = call[d]
      BY <2>1, <1>1, RejectTyped
    <2> QED BY <2>2, <1>0 DEF Unborn, Deleted
  <1> QED BY <1>2, <1>3, <1>4, <1>5, <1>6, <1>7 DEF Next

LEMMA PInvInit == Init => PInv
  <1> SUFFICES ASSUME Init PROVE IdsFit /\ ProfileInv /\ Unborn
    BY CInvInit DEF PInv
  <1>1. PICK legacy \in BOOLEAN :
          LET rows == IF legacy THEN [EmptyList EXCEPT ![Unstamped] = Imported]
                      ELSE [s \in Slots |-> IF s = Unstamped THEN Absent ELSE Imported]
          IN /\ memento = [settings |-> legacy,
                           rows |-> [k \in Keys |-> IF legacy /\ k \in {"bastions", "trust"}
                                                    THEN EmptyList ELSE rows]]
             /\ secrets = [s \in Slots |-> IF legacy THEN s = Unstamped ELSE s # Unstamped]
    BY DEF Init
  <1>2. /\ disk = memento /\ migration = "none" /\ allocated = {}
        /\ call = [c \in Calls |-> NoCall] /\ "bastions" \in Keys
    BY DEF Init, Keys
  <1>3. memento.settings = legacy
    BY <1>1
  <1>4. ASSUME legacy PROVE secrets[Unstamped] /\ Fresh(memento)
    <2>1. memento.settings /\ memento.rows["bastions"] = EmptyList
      BY <1>1, <1>2, <1>4
    <2>2. secrets = [s \in Slots |-> s = Unstamped]
      BY <1>1, <1>4
    <2> QED BY <2>1, <2>2, SlotFacts DEF Fresh, EmptyList
  <1>5. IdsFit
    BY <1>2, <1>3, <1>4 DEF IdsFit, Fresh
  <1>6. Unborn /\ ProfileInv
    BY <1>2 DEF Unborn, ProfileInv
  <1> QED BY <1>5, <1>6

LEMMA PInvNext == PInv /\ [Next]_vars => PInv'
  <1> SUFFICES ASSUME PInv, [Next]_vars PROVE PInv'
    OBVIOUS
  <1>1. CInv /\ IdsFit /\ ProfileInv /\ Unborn /\ CInv' /\ rtypes
    BY CInvNext, TypesSplit DEF PInv, CInv
  <1>2. IdsFit' /\ Unborn' /\ (Deleted => Deleted')
    BY <1>1, IdsFitNext, UnbornNext
  <1>3. ProfileInv'
    <2>1. CASE Deleted' \/ allocated' = {}
      BY <2>1 DEF ProfileInv
    <2>2. CASE ~Deleted' /\ allocated' # {} /\ MigrationNext
      BY <2>2, <1>1, ProfileMigration
    <2>3. CASE ~Deleted' /\ allocated' # {} /\ ~MigrationNext
      <3>1. allocated' = allocated
        BY <1>1, <2>3, CallsKeepSettings DEF Next, Flush, Crash, Read, Reject, vars, Ids
      <3>2. Active
        BY <3>1, <2>3, <1>1, <1>2, ActiveIs
      <3>3. CASE \E c \in Calls : Start(c) \/ Continue(c)
        BY <3>2, <3>3, <2>3, <1>1, ProfileStart, ProfileContinue
      <3>4. CASE \/ Flush \/ Crash \/ (\E k \in Keys : Read(k)) \/ UNCHANGED vars
                 \/ \E c \in Calls : Reject(c)
        BY <3>2, <3>4, <1>1, ProfileRest
      <3> QED BY <3>3, <3>4, <2>3 DEF Next
    <2> QED BY <2>1, <2>2, <2>3
  <1> QED BY <1>1, <1>2, <1>3 DEF PInv

\* The password of a singleton install is not lost, by a crash or a rejected update
\* at any point of its migration or by any calls after it: it stays under the old key,
\* or under that of a bastion that the migration has made and stored, until somebody
\* deletes such a bastion.  A later start does not always move it: see the README on
\* MigrationIsWhole.
THEOREM PasswordStays == Spec => []PasswordIsKept
  <1>1. PInv => PasswordIsKept
    <2> SUFFICES ASSUME PInv PROVE PasswordIsKept
      OBVIOUS
    <2>1. CASE allocated = {}
      BY <2>1 DEF PInv, IdsFit, PasswordIsKept
    <2>2. CASE allocated # {} /\ Deleted
      BY <2>2 DEF Deleted, PasswordIsKept
    <2>3. CASE allocated # {} /\ ~Deleted
      BY <2>3 DEF PInv, IdsFit, ProfileInv, Profile, PasswordIsKept
    <2> QED BY <2>1, <2>2, <2>3
  <1> QED BY <1>1, PInvInit, PInvNext, PTL DEF Spec

=============================================================================
