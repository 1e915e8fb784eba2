------------------------------ MODULE ConfigStore ------------------------------
(***************************************************************************)
(* JumpServerConfigManager (src/src/config/JumpServerConfigManager.ts) and *)
(* the commands of the extension that write through it: refreshBastion,    *)
(* the configuration panel's save, removeBastion and setAssetTrust.        *)
(*                                                                         *)
(* Four keys of the extension's memento hold lists that every writer       *)
(* replaces as a whole: it takes the memoised list, changes the rows of    *)
(* its own bastion, updates the key, and forgets the memoised list when    *)
(* the update has been stored.  memento.update() shows in memory at once   *)
(* and resolves when VS Code has flushed it, so other calls run in between;*)
(* when it rejects, the call ends there and the memoised list stays.       *)
(* A list is modelled as the rows of each bastion, and the rows by the     *)
(* call that wrote them.  deleteSettings and saveSettings have no caller.  *)
(***************************************************************************)
EXTENDS Naturals

CONSTANTS Bastions,     \* bastion ids
          Calls,        \* calls in the life of the installation, each made once
          MaxCrashes,   \* bound on the crashes of the extension host
          Absent,       \* no row for the bastion
          Imported,     \* rows that were there before the first call
          NoCache       \* a memo field that is undefined

\* Rows of a singleton install carry no bastion id; its password neither.
Unstamped == "unstamped"
Migrator == "migrator"

ASSUME ConfigAssumption ==
    /\ Bastions # {}
    /\ MaxCrashes \in Nat
    /\ Absent \notin Calls /\ Imported \notin Calls /\ Absent # Imported
    /\ Unstamped \notin Bastions /\ Migrator \notin Calls

VARIABLES memento,      \* what memento.get() returns
          disk,         \* what a restart reads
          secrets,      \* whose password SecretStorage holds
          cache,        \* the four memo fields
          call,         \* the state of each call
          unflushed,    \* calls whose memento.update() has not resolved
          rejected,     \* keys memoised since before an update of theirs that rejected
          migration,    \* the step of runMigration
          newId,        \* the id it has allocated last
          allocated,    \* history: all ids it has allocated
          met,          \* history: the calls that overlapped each call
          crashes

vars == <<memento, disk, secrets, cache, call, unflushed, rejected, migration, newId,
          allocated, met, crashes>>
Memo == <<cache, rejected>>
Ids == <<newId, allocated>>

Keys == {"bastions", "assets", "nodes", "trust"}
Slots == Bastions \cup {Unstamped}
Row == Calls \cup {Absent, Imported}
List == [Slots -> Row]

Kinds == {"refresh", "edit", "delete", "trust"}
Steps == {"idle", "started", "orgs", "orgSaved", "nodes", "nodesSaved", "assets",
          "assetsSaved", "editSaved", "secret", "bastionGone", "assetsGone",
          "nodesGone", "trustGone", "trustSaved", "done", "lost"}
NoCall == [kind |-> "edit", bastion |-> CHOOSE b \in Bastions : TRUE, step |-> "idle",
           seen |-> Absent, kept |-> [k \in Keys |-> NoCache]]

Store == [rows : [Keys -> List], settings : BOOLEAN]
EmptyList == [s \in Slots |-> Absent]

Init ==
    /\ \E legacy \in BOOLEAN :
        LET rows == IF legacy THEN [EmptyList EXCEPT ![Unstamped] = Imported]
                    ELSE [s \in Slots |-> IF s = Unstamped THEN Absent ELSE Imported]
        IN /\ memento = [settings |-> legacy,
                         rows |-> [k \in Keys |-> IF legacy /\ k \in {"bastions", "trust"}
                                                  THEN EmptyList ELSE rows]]
           /\ secrets = [s \in Slots |-> IF legacy THEN s = Unstamped ELSE s # Unstamped]
    /\ disk = memento
    /\ cache = [k \in Keys |-> NoCache]
    /\ call = [c \in Calls |-> NoCall]
    /\ unflushed = {} /\ rejected = {}
    /\ migration = "none" /\ newId = Unstamped /\ allocated = {}
    /\ met = [c \in Calls |-> {}]
    /\ crashes = 0

-----------------------------------------------------------------------------
(* Reading and writing a key                                                *)

\* listBastions, listCachedAssets, listCachedAssetNodes, readAssetTrustOverlay:
\* parsing drops the rows without a bastion id.
Listed(k) == IF cache[k] = NoCache
             THEN [memento.rows[k] EXCEPT ![Unstamped] = Absent] ELSE cache[k]

\* The call starts memento.update() for the key and awaits it.
Update(c, k, list) ==
    /\ memento' = [memento EXCEPT !.rows[k] = list]
    /\ unflushed' = unflushed \cup {c}

\* saveBastion, saveCachedAssets, saveCachedAssetNodes, setAssetTrust: the whole
\* list with the rows of one bastion replaced.
ReplaceRows(c, k, b, row) ==
    /\ Update(c, k, [Listed(k) EXCEPT ![b] = row])
    /\ cache' = [cache EXCEPT ![k] = Listed(k)]
    /\ UNCHANGED rejected

Forget(ks) ==
    /\ cache' = [k \in Keys |-> IF k \in ks THEN NoCache ELSE cache[k]]
    /\ rejected' = rejected \ ks

Go(c, step) == call' = [call EXCEPT ![c].step = step]

Running(c) == call[c].step \notin {"idle", "done", "lost"}

\* The call is at a step whose awaited update has resolved.
Resumed(c, step) == call[c].step = step /\ c \notin unflushed

\* A tree, a tool call or a picker reads a list while it is not memoised.
Read(k) ==
    /\ migration = "done" \/ k = "trust"
    /\ cache[k] = NoCache
    /\ cache' = [cache EXCEPT ![k] = Listed(k)]
    /\ UNCHANGED <<memento, disk, secrets, call, unflushed, rejected, migration, Ids, met, crashes>>

\* The keys a call has updated and whose memo fields it has still to clear.
StillToForget(c) ==
    CASE call[c].step \in {"orgSaved", "editSaved"} -> {"bastions"}
      [] call[c].step = "nodesSaved" -> {"nodes"}
      [] call[c].step = "assetsSaved" -> {"assets"}
      [] call[c].step = "trustSaved" -> {"trust"}
      [] call[c].step = "bastionGone" -> {"bastions"}
      [] call[c].step = "assetsGone" -> {"bastions", "assets"}
      [] call[c].step = "nodesGone" -> {"bastions", "assets", "nodes"}
      [] call[c].step = "trustGone" -> Keys
      [] OTHER -> {}

\* VS Code has stored the memento; the updates made until then resolve.
Flush ==
    /\ unflushed # {}
    /\ disk' = memento
    /\ unflushed' = {}
    /\ UNCHANGED <<memento, secrets, Memo, call, migration, Ids, met, crashes>>

\* VS Code could not store the memento, and the update of a call rejects: what it
\* has changed stays in memory, and the fields it was to clear stay memoised.
Reject(c) ==
    /\ c \in unflushed
    /\ unflushed' = unflushed \ {c}
    /\ call' = [call EXCEPT ![c].step = "done"]
    /\ rejected' = rejected \cup StillToForget(c)
    /\ UNCHANGED <<memento, disk, secrets, cache, migration, Ids, met, crashes>>

-----------------------------------------------------------------------------
(* runMigration and migrateFromLegacy: all but setAssetTrust await them     *)

MigrationVars == <<disk, call, met, crashes>>

\* idFactory is randomUUID: an id of which nothing is stored and no call knows.
Unused(b) ==
    /\ ~secrets[b] /\ \A k \in Keys : memento.rows[k][b] = Absent
    /\ \A c \in Calls : call[c].step # "idle" => call[c].bastion # b

MigrationStart ==
    /\ migration = "none"
    /\ IF memento.settings /\ \A b \in Bastions : memento.rows["bastions"][b] = Absent
       THEN \E b \in Bastions :
            /\ Unused(b)
            /\ Update(Migrator, "bastions", [EmptyList EXCEPT ![b] = Imported])
            /\ newId' = b /\ allocated' = allocated \cup {b}
            /\ migration' = "password"
       ELSE migration' = "done" /\ UNCHANGED <<memento, unflushed, Ids>>
    /\ UNCHANGED <<secrets, Memo, MigrationVars>>

\* The promise of the migration has rejected, and so does every call that awaits
\* it until the extension host is started again.
MigrationFailed ==
    /\ Migrator \in unflushed
    /\ unflushed' = unflushed \ {Migrator}
    /\ migration' = "failed"
    /\ UNCHANGED <<memento, secrets, Memo, Ids, MigrationVars>>

\* Mutant: the old password is gone before the new profile has been stored.
MovePasswordEarly ==
    /\ migration = "password"
    /\ secrets' = [secrets EXCEPT ![newId] = @ \/ secrets[Unstamped], ![Unstamped] = FALSE]
    /\ migration' = "drop"
    /\ UNCHANGED <<memento, unflushed, Memo, Ids, MigrationVars>>

MovePassword ==
    /\ migration = "password" /\ Migrator \notin unflushed
    /\ secrets' = [secrets EXCEPT ![newId] = @ \/ secrets[Unstamped]]
    /\ migration' = "drop"
    /\ UNCHANGED <<memento, unflushed, Memo, Ids, MigrationVars>>

DropOldPassword ==
    /\ migration = "drop"
    /\ secrets' = [secrets EXCEPT ![Unstamped] = FALSE]
    /\ migration' = "assets"
    /\ UNCHANGED <<memento, unflushed, Memo, Ids, MigrationVars>>

\* Every row there is gets the new id, whatever bastion it belonged to.
Stamped(k) ==
    [EmptyList EXCEPT ![newId] = IF memento.rows[k] = EmptyList THEN Absent ELSE Imported]

StampRows(k, next) ==
    /\ migration = k /\ Migrator \notin unflushed
    /\ Update(Migrator, k, Stamped(k))
    /\ migration' = next
    /\ UNCHANGED <<secrets, Memo, Ids, MigrationVars>>

DropSettings ==
    /\ migration = "settings" /\ Migrator \notin unflushed
    /\ memento' = [memento EXCEPT !.settings = FALSE]
    /\ unflushed' = unflushed \cup {Migrator}
    /\ migration' = "forget"
    /\ UNCHANGED <<secrets, Memo, Ids, MigrationVars>>

MigrationEnd ==
    /\ migration = "forget" /\ Migrator \notin unflushed
    /\ Forget({"bastions", "assets", "nodes"})
    /\ migration' = "done"
    /\ UNCHANGED <<memento, unflushed, secrets, Ids, MigrationVars>>

-----------------------------------------------------------------------------
(* Calls                                                                    *)

\* Bookkeeping of a call that starts now on bastion b.
Begin(c, kind, b, step, seen, kept) ==
    /\ migration = "done" \/ kind = "trust"
    /\ call[c].step = "idle"
    /\ call' = [call EXCEPT ![c] = [kind |-> kind, bastion |-> b, step |-> step,
                                    seen |-> seen, kept |-> kept]]
    /\ LET others == {d \in Calls : Running(d)}
       IN met' = [d \in Calls |-> IF d = c THEN others
                                  ELSE IF d \in others THEN met[d] \cup {c} ELSE met[d]]
    /\ UNCHANGED <<disk, secrets, migration, Ids, crashes>>

\* refreshBastion: requireBastion, then the password is read.
StartRefresh(c, b) ==
    /\ Listed("bastions")[b] # Absent
    /\ cache' = [cache EXCEPT !["bastions"] = Listed("bastions")]
    /\ Begin(c, "refresh", b, "started", Listed("bastions")[b], NoCall.kept)
    /\ UNCHANGED <<memento, unflushed, rejected>>

\* The configuration panel saves what the user typed, also for a bastion that
\* has been removed since the panel was opened.
StartEdit(c, b) ==
    /\ ReplaceRows(c, "bastions", b, c)
    /\ Begin(c, "edit", b, "editSaved", Absent, NoCall.kept)

\* Mutant: the lists of one key are not kept over the updates.
StartDeleteUnread(c, b) ==
    /\ Listed("bastions")[b] # Absent
    /\ Update(c, "bastions", [Listed("bastions") EXCEPT ![b] = Absent])
    /\ Begin(c, "delete", b, "bastionGone", Absent, NoCall.kept)
    /\ cache' = [k \in Keys |-> Listed(k)]
    /\ UNCHANGED rejected

\* deleteBastion reads all four lists before its first update.
StartDelete(c, b) ==
    /\ Listed("bastions")[b] # Absent
    /\ LET kept == [k \in Keys |-> [Listed(k) EXCEPT ![b] = Absent]]
       IN /\ Update(c, "bastions", kept["bastions"])
          /\ Begin(c, "delete", b, "bastionGone", Absent, kept)
    /\ cache' = [k \in Keys |-> Listed(k)]
    /\ UNCHANGED rejected

\* setAssetTrust, also before and during the migration: 'none' deletes the entry.
StartTrust(c, b, level) ==
    /\ ReplaceRows(c, "trust", b, level)
    /\ Begin(c, "trust", b, "trustSaved", Absent, NoCall.kept)

CallVars == <<disk, migration, Ids, met, crashes>>

\* createClient has the password or fails; ensureOrgContext trusts a saved
\* organisation or lists the accessible ones.
PasswordRead(c) ==
    /\ call[c].step = "started"
    /\ \E step \in (IF secrets[call[c].bastion] THEN {"orgs", "nodes"} ELSE {"done"}) :
           Go(c, step)
    /\ UNCHANGED <<memento, unflushed, Memo, secrets, CallVars>>

\* The organisation is picked and saved into the profile read at the start, or
\* it needs no saving, or the user cancels, or the listing fails.
OrgPicked(c) ==
    /\ call[c].step = "orgs"
    /\ \/ /\ ReplaceRows(c, "bastions", call[c].bastion, call[c].seen)
          /\ Go(c, "orgSaved")
       \/ /\ \E step \in {"nodes", "done"} : Go(c, step)
          /\ UNCHANGED <<memento, unflushed, Memo>>
    /\ UNCHANGED <<secrets, CallVars>>

\* The REST listing is answered and saved, or it fails.
Listing(c, k, saved) ==
    /\ call[c].step = k
    /\ \/ ReplaceRows(c, k, call[c].bastion, c) /\ Go(c, saved)
       \/ Go(c, "done") /\ UNCHANGED <<memento, unflushed, Memo>>
    /\ UNCHANGED <<secrets, CallVars>>

\* Mutant: the memoised list survives the update.
SavedStale(c, step, k, next) ==
    /\ Resumed(c, step)
    /\ Go(c, next)
    /\ UNCHANGED <<memento, unflushed, Memo, secrets, CallVars>>

\* The update of one key has resolved: its list is no longer memoised.
Saved(c, step, k, next) ==
    /\ Resumed(c, step)
    /\ Forget({k})
    /\ Go(c, next)
    /\ UNCHANGED <<memento, unflushed, secrets, CallVars>>

\* saveBastion stores the password after the row, when one was typed.
EditSaved(c) == \E next \in {"secret", "done"} : Saved(c, "editSaved", "bastions", next)

\* deleteBastion goes on to the next key with the list it read at the start.
NextKeyGone(c, step, k, next) ==
    /\ Resumed(c, step)
    /\ Update(c, k, call[c].kept[k])
    /\ Go(c, next)
    /\ UNCHANGED <<Memo, secrets, CallVars>>

\* Mutant: deleteBastion forgets to clear the trust overlay.
AllKeysGoneButTrust(c) ==
    /\ Resumed(c, "trustGone")
    /\ Forget(Keys \ {"trust"})
    /\ Go(c, "secret")
    /\ UNCHANGED <<memento, unflushed, secrets, CallVars>>

AllKeysGone(c) ==
    /\ Resumed(c, "trustGone")
    /\ Forget(Keys)
    /\ Go(c, "secret")
    /\ UNCHANGED <<memento, unflushed, secrets, CallVars>>

SecretSet(c) ==
    /\ call[c].step = "secret"
    /\ secrets' = [secrets EXCEPT ![call[c].bastion] = call[c].kind = "edit"]
    /\ Go(c, "done")
    /\ UNCHANGED <<memento, unflushed, Memo, CallVars>>

\* The extension host dies and is started again: calls and memo fields are gone,
\* and so is what has not been flushed.
Crash ==
    /\ crashes < MaxCrashes
    /\ crashes' = crashes + 1
    /\ memento' = disk
    /\ cache' = [k \in Keys |-> NoCache]
    /\ unflushed' = {} /\ rejected' = {}
    /\ migration' = "none"
    /\ call' = [c \in Calls |-> IF Running(c) THEN [call[c] EXCEPT !.step = "lost"] ELSE call[c]]
    /\ UNCHANGED <<disk, secrets, Ids, met>>

MigrationNext ==
    \/ MigrationStart \/ MovePassword \/ DropOldPassword
    \/ StampRows("assets", "nodes") \/ StampRows("nodes", "settings")
    \/ DropSettings \/ MigrationEnd \/ MigrationFailed

Start(c) ==
    \E b \in Bastions : \/ StartRefresh(c, b) \/ StartEdit(c, b) \/ StartDelete(c, b)
                        \/ \E level \in {c, Absent} : StartTrust(c, b, level)

Continue(c) ==
    \/ PasswordRead(c) \/ OrgPicked(c)
    \/ Listing(c, "nodes", "nodesSaved") \/ Listing(c, "assets", "assetsSaved")
    \/ Saved(c, "orgSaved", "bastions", "nodes")
    \/ Saved(c, "nodesSaved", "nodes", "assets")
    \/ Saved(c, "assetsSaved", "assets", "done")
    \/ Saved(c, "trustSaved", "trust", "done")
    \/ EditSaved(c)
    \/ NextKeyGone(c, "bastionGone", "assets", "assetsGone")
    \/ NextKeyGone(c, "assetsGone", "nodes", "nodesGone")
    \/ NextKeyGone(c, "nodesGone", "trust", "trustGone")
    \/ AllKeysGone(c) \/ SecretSet(c)

Next ==
    \/ MigrationNext \/ Flush \/ Crash
    \/ \E k \in Keys : Read(k)
    \/ \E c \in Calls : Start(c) \/ Continue(c) \/ Reject(c)

Spec == Init /\ [][Next]_vars

-----------------------------------------------------------------------------
(* Properties                                                               *)

TypeOK ==
    /\ memento \in Store /\ disk \in Store
    /\ secrets \in [Slots -> BOOLEAN]
    /\ cache \in [Keys -> List \cup {NoCache}]
    /\ call \in [Calls -> [kind : Kinds, bastion : Bastions, step : Steps, seen : Row,
                           kept : [Keys -> List \cup {NoCache}]]]
    /\ unflushed \subseteq Calls \cup {Migrator}
    /\ rejected \subseteq Keys
    /\ migration \in {"none", "password", "drop", "assets", "nodes", "settings", "forget",
                      "done", "failed"}
    /\ newId \in Slots /\ allocated \subseteq Bastions
    /\ met \in [Calls -> SUBSET Calls]
    /\ crashes \in 0..MaxCrashes

\* A memoised list differs from the stored one only while a call that has
\* updated the key has yet to clear it (the "cache = undefined" that follows
\* each await globalState.update), or after an update of the key has rejected,
\* until the next one resolves: whatever calls overlapped before, once they have
\* returned every reader, also resolveAssetTrust, sees what is stored.
CachesAreCurrent ==
    \A k \in Keys :
        \/ cache[k] = NoCache
        \/ cache[k] = [memento.rows[k] EXCEPT ![Unstamped] = Absent]
        \/ k \in rejected
        \/ \E c \in Calls : k \in StillToForget(c)

\* A call during which no other call ran changes the rows of its own bastion
\* only, whatever calls, overlapping or interrupted by a crash, came before it;
\* but for a key that is still memoised from before an update that rejected.
AloneTouchesItsOwnRows ==
    [][\A c \in Calls :
          (call'[c] # call[c] /\ met'[c] = {} /\ crashes' = crashes) =>
              \A k \in Keys \ rejected, b \in Bastions \ {call'[c].bastion} :
                  memento'.rows[k][b] = memento.rows[k][b]]_vars

\* The same without the proviso, as the design has it: "does not wipe other
\* bastions", "replaces only the given bastion cached assets".  It does not
\* hold: see the README.
TouchesItsOwnRows ==
    [][\A c \in Calls :
          (call'[c] # call[c] /\ crashes' = crashes) =>
              \A k \in Keys, b \in Bastions \ {call'[c].bastion} :
                  memento'.rows[k][b] = memento.rows[k][b]]_vars

\* The password of a singleton install is not lost by a crash or a rejected update
\* at any point of its migration: until a bastion that it has made is deleted,
\* SecretStorage holds it under the old key, or under that of such a bastion whose
\* profile is stored.  That a later start still moves it is not said: see
\* MigrationIsWhole.
PasswordIsKept ==
    \/ secrets[Unstamped]
    \/ \E b \in allocated : secrets[b] /\ disk.rows["bastions"][b] # Absent
    \/ \E c \in Calls : call[c].kind = "delete" /\ call[c].bastion \in allocated
    \/ allocated = {} /\ ~memento.settings     \* it never was one

\* What the design says of the migration: "Old singleton settings + password +
\* caches become one bastion; old keys gone; assets tagged with the new id".  It
\* does not hold after a crash between its first update and its last: see the
\* README.
MigrationIsWhole ==
    migration = "done" =>
        ~secrets[Unstamped] /\ \A k \in Keys : memento.rows[k][Unstamped] = Absent

=============================================================================
