------------------------- MODULE SettingsTransaction -------------------------
(***************************************************************************)
(* data/settings.json and data/secrets.bin (config/settings.js).  A save   *)
(* may have to replace both.  It then backs both files up, writes a        *)
(* journal that says "prepared", replaces settings, replaces secrets, lets *)
(* the journal say "committed" and removes backups and journal.  Every     *)
(* load, and every save first of all, looks for a journal and rolls a      *)
(* prepared one back.  Saves form a queue; a load waits for the saves that *)
(* are queued when it is asked for, and from then on goes beside the later *)
(* ones, unless it was asked for with wait_for_writes=1: then it takes its *)
(* own turn in the queue.                                                  *)
(*                                                                         *)
(* The content of a file is the number of the save that wrote it: 0 is what *)
(* the first run finds, NoFile is no file.  A step is one file operation.  *)
(***************************************************************************)
EXTENDS Integers

CONSTANTS Client,     \* browser tabs and service jobs
          None,
          LoadKinds,  \* the loads asked for: TRUE takes a turn in the queue
          MaxSave,    \* bound: saves
          MaxFault    \* bound: crashes and failed file operations

ASSUME NoneAssumption == None \notin Client
ASSUME LoadKindsAssumption == LoadKinds \subseteq BOOLEAN
ASSUME BoundsAssumption == MaxSave \in Nat /\ MaxFault \in Nat

Kind == {"settings", "secrets"}
Save == 1..MaxSave
NoFile == -1
Version == NoFile..MaxSave
Content == [Kind -> Version]

\* What a save changes: the settings, both files, or (a verified database
\* key) the secrets alone.
Change == {"settings", "both", "secrets"}

VARIABLES
    file,     \* what is in the two files
    journal,  \* the journal file: its state and the save it belongs to
    entries,  \* what each save found in the files it backed up
    backup,   \* the backup files on disk
    req,      \* the request each client has under way
    view,     \* the document a tab shows, its settings_revision, and whether
              \* it was read in a turn of the queue
    saver,    \* whose turn it is in the save queue
    change,   \* what the save in progress changes
    saves,    \* number of saves begun; the one in progress has this number
    acked,    \* ghost: the last confirmed save of each file
    legit,    \* ghost: the pairs of contents that some save meant to leave
    unsure,   \* ghost: a journal write failed although it took effect, or a
              \* file that had to go stayed
    raced,    \* ghost: a recovery beside a save
    faults
disk == <<file, journal, entries, backup>>
ghosts == <<acked, legit, unsure, raced>>
vars == <<disk, req, view, saver, change, saves, ghosts, faults>>

NoJournal == [state |-> "none", id |-> 0]
NoView == [content |-> [k \in Kind |-> NoFile], revision |-> <<>>, settled |-> FALSE]
Documents == [content : Content, revision : (Version \X Version) \cup {<<>>},
              settled : BOOLEAN]

Recovering == {"backups", "restore_settings", "restore_secrets", "mark",
               "drop", "drop_journal"}
Loading == {"journal", "settings", "secrets", "revision"}
Saving == {"back_settings", "back_secrets", "prepare", "write", "rename", "commit"}

\* What a load is for (to be shown, to be shown as it is after the writes that
\* are queued, to be saved over) and what it has read so far; the transaction that
\* is rolled back or cleaned up, and what follows the clean-up.
Request == [pc : {"idle"} \cup Loading \cup Recovering \cup Saving,
            goal : {"view", "settled", "save"}, got : Content, txn : 0..MaxSave,
            then : {"load", "failed", "acked"}]
NoContent == [k \in Kind |-> NoFile]
Idle == [pc |-> "idle", goal |-> "view", got |-> NoContent, txn |-> 0, then |-> "load"]

TypeOK ==
    /\ file \in Content
    /\ journal \in [state : {"none", "prepared", "committed", "rolled_back"},
                    id : 0..MaxSave]
    /\ entries \in [Save -> Content]
    /\ backup \in SUBSET (Save \X Kind)
    /\ req \in [Client -> Request]
    /\ view \in [Client -> Documents]
    /\ saver \in Client \cup {None}
    /\ change \in Change
    /\ saves \in 0..MaxSave
    /\ acked \in Content
    /\ legit \in SUBSET (Version \X Version)
    /\ unsure \in BOOLEAN /\ raced \in BOOLEAN
    /\ faults \in 0..MaxFault

Pair(c) == <<c["settings"], c["secrets"]>>

Init ==
    /\ file \in [Kind -> {NoFile, 0}]
    /\ journal = NoJournal
    /\ entries = [s \in Save |-> [k \in Kind |-> NoFile]]
    /\ backup = {}
    /\ req = [p \in Client |-> Idle]
    /\ view = [p \in Client |-> NoView]
    /\ saver = None /\ change = "settings" /\ saves = 0
    /\ acked = file /\ legit = {Pair(file)}
    /\ unsure = FALSE /\ raced = FALSE /\ faults = 0

At(p, l) == req[p].pc = l
Goto(p, l) == req' = [req EXCEPT ![p].pc = l]
\* The clean-up of a transaction, and what follows it.
GotoTxn(p, l, t, next) ==
    req' = [req EXCEPT ![p].pc = l, ![p].txn = t, ![p].then = next]
Fault == faults < MaxFault /\ faults' = faults + 1
Replace(k, v) == file' = [file EXCEPT ![k] = v]

\* The request ends: its turn in the queue, if it has one, is over.
End(p) ==
    /\ req' = [req EXCEPT ![p] = Idle]
    /\ saver' = IF saver = p THEN None ELSE saver

\* A load, from its first step on.
LoadFor(g) == [Idle EXCEPT !.pc = "journal", !.goal = g]

\* A save that is done answers with a load in its own turn.
ReadBack(p) == req' = [req EXCEPT ![p] = LoadFor("settled")]

-----------------------------------------------------------------------------
(* Loading *)

\* Another client is busy with a recovery that began outside the queue.
RecoveryBeside(p) == \E q \in Client \ {p} : req[q].pc \in Recovering

\* Mutated: a load that asks to wait for the writes does not hold them up.
LoadAside(p, turn) ==
    /\ At(p, "idle") /\ saver = None
    /\ req' = [req EXCEPT ![p] = LoadFor(IF turn THEN "settled" ELSE "view")]
    /\ raced' = (raced \/ (turn /\ RecoveryBeside(p)))
    /\ UNCHANGED <<disk, view, saver, change, saves, acked, legit, unsure, faults>>

Load(p, turn) ==
    /\ At(p, "idle") /\ saver = None
    /\ req' = [req EXCEPT ![p] = LoadFor(IF turn THEN "settled" ELSE "view")]
    /\ saver' = IF turn THEN p ELSE saver
    /\ raced' = (raced \/ (turn /\ RecoveryBeside(p)))
    /\ UNCHANGED <<disk, view, change, saves, acked, legit, unsure, faults>>

\* A save begins like a load.  A patch of the settings names the revision of
\* the document it was made on.
BeginSave(p, c) ==
    /\ At(p, "idle") /\ saver = None /\ saves < MaxSave
    /\ c = "secrets" \/ view[p] # NoView
    /\ saver' = p /\ saves' = saves + 1 /\ change' = c
    /\ req' = [req EXCEPT ![p] = LoadFor("save")]
    /\ raced' = (raced \/ RecoveryBeside(p))
    /\ UNCHANGED <<disk, view, acked, legit, unsure, faults>>

\* Mutated: a journal of any state is rolled back.
ReadJournalAny(p) ==
    /\ At(p, "journal")
    /\ IF journal.state = "none"
       THEN Goto(p, "settings") /\ UNCHANGED raced
       ELSE /\ GotoTxn(p, "backups", journal.id, "load")
            /\ raced' = (raced \/ saver \notin {None, p})
    /\ UNCHANGED <<disk, view, saver, change, saves, acked, legit, unsure, faults>>

\* Mutated: only a finished journal is looked after.
ReadJournalSkips(p) ==
    /\ At(p, "journal")
    /\ IF journal.state \in {"none", "prepared"}
       THEN Goto(p, "settings") /\ UNCHANGED raced
       ELSE /\ GotoTxn(p, "drop", journal.id, "load")
            /\ raced' = (raced \/ saver \notin {None, p})
    /\ UNCHANGED <<disk, view, saver, change, saves, acked, legit, unsure, faults>>

\* A prepared journal is rolled back, a finished one cleaned up.
ReadJournal(p) ==
    /\ At(p, "journal")
    /\ IF journal.state = "none"
       THEN Goto(p, "settings") /\ UNCHANGED raced
       ELSE /\ GotoTxn(p, IF journal.state = "prepared" THEN "backups" ELSE "drop",
                       journal.id, "load")
            /\ raced' = (raced \/ saver \notin {None, p})
    /\ UNCHANGED <<disk, view, saver, change, saves, acked, legit, unsure, faults>>

ReadSettings(p) ==
    /\ At(p, "settings")
    /\ req' = [req EXCEPT ![p].got["settings"] = file["settings"], ![p].pc = "secrets"]
    /\ UNCHANGED <<disk, view, saver, change, saves, ghosts, faults>>

ReadSecrets(p) ==
    /\ At(p, "secrets")
    /\ req' = [req EXCEPT ![p].got["secrets"] = file["secrets"], ![p].pc = "revision"]
    /\ UNCHANGED <<disk, view, saver, change, saves, ghosts, faults>>

\* The revision is a hash of the secrets read before and of the settings file,
\* which is read once more.  (What the hash leaves out - records of key checks,
\* the recent groups - is no content here.)
Revision(p) == <<file["settings"], req[p].got["secrets"]>>

\* The document is answered.
Loaded(p) ==
    /\ At(p, "revision") /\ req[p].goal # "save"
    /\ view' = [view EXCEPT ![p] = [content |-> req[p].got, revision |-> Revision(p),
                                    settled |-> req[p].goal = "settled"]]
    /\ End(p)
    /\ UNCHANGED <<disk, change, saves, ghosts, faults>>

\* Reading, decrypting or validating fails: so does the request.
LoadFails(p) ==
    /\ req[p].pc \in Loading /\ Fault
    /\ End(p)
    /\ UNCHANGED <<disk, view, change, saves, ghosts>>

-----------------------------------------------------------------------------
(* Rolling back and cleaning up: by a load that finds a journal, or by the *)
(* save that failed *)

\* A rollback that cannot go on is abandoned where it is; the journal stays.
Abandon(p) == End(p)

HasBackups(t) == \A k \in Kind : entries[t][k] # NoFile => <<t, k>> \in backup

\* Every backup is read before anything is restored.
ReadBackups(p) ==
    /\ At(p, "backups") /\ HasBackups(req[p].txn)
    /\ Goto(p, "restore_settings")
    /\ UNCHANGED <<disk, view, saver, change, saves, ghosts, faults>>

\* A backup is missing or cannot be read (settings_transaction_recovery_unsafe).
RecoveryUnsafe(p) ==
    /\ At(p, "backups")
    /\ IF HasBackups(req[p].txn) THEN Fault ELSE UNCHANGED faults
    /\ Abandon(p)
    /\ UNCHANGED <<disk, view, change, saves, ghosts>>

RestoreStep == [settings |-> "restore_settings", secrets |-> "restore_secrets"]
\* Mutated: the secrets are not restored.
AfterRestoreFirst == [settings |-> "mark", secrets |-> "mark"]
\* Mutated: the clean-up begins while the journal still says prepared.
AfterRestoreUnmarked == [settings |-> "restore_secrets", secrets |-> "drop"]
AfterRestore == [settings |-> "restore_secrets", secrets |-> "mark"]

Restore(p, k) ==
    /\ At(p, RestoreStep[k])
    /\ Replace(k, entries[req[p].txn][k])
    /\ Goto(p, AfterRestore[k])
    /\ UNCHANGED <<journal, entries, backup, view, saver, change, saves, ghosts, faults>>

\* Writing a file back fails before or after it takes effect; removing a file
\* that was not there before fails without a word.
RestoreFails(p, k) ==
    /\ At(p, RestoreStep[k]) /\ Fault
    /\ IF entries[req[p].txn][k] = NoFile
       THEN Goto(p, AfterRestore[k]) /\ unsure' = TRUE /\ UNCHANGED <<file, saver>>
       ELSE /\ file' = file \/ Replace(k, entries[req[p].txn][k])
            /\ Abandon(p)
            /\ UNCHANGED unsure
    /\ UNCHANGED <<journal, entries, backup, view, change, saves, acked, legit, raced>>

Mark(p) ==
    /\ At(p, "mark")
    /\ journal' = [state |-> "rolled_back", id |-> req[p].txn]
    /\ Goto(p, "drop")
    /\ UNCHANGED <<file, entries, backup, view, saver, change, saves, ghosts, faults>>

MarkFails(p) ==
    /\ At(p, "mark") /\ Fault
    /\ \/ UNCHANGED journal
       \/ journal' = [state |-> "rolled_back", id |-> req[p].txn]
    /\ Abandon(p)
    /\ UNCHANGED <<file, entries, backup, view, change, saves, ghosts>>

\* Files that cannot be removed stay.
DropBackups(p) ==
    /\ At(p, "drop")
    /\ \/ backup' = backup \ ({req[p].txn} \X Kind) /\ UNCHANGED faults
       \/ Fault /\ \E k \in Kind : backup' = backup \ {<<req[p].txn, k>>}
    /\ Goto(p, "drop_journal")
    /\ UNCHANGED <<file, journal, entries, view, saver, change, saves, ghosts>>

\* The journal goes by its name, whosever it is by now.  A load goes on; a
\* failed save ends; a finished one is confirmed and answered with a load.
DropJournal(p) ==
    /\ At(p, "drop_journal")
    /\ \/ journal' = NoJournal /\ UNCHANGED faults
       \/ Fault /\ UNCHANGED journal
    /\ CASE req[p].then = "load" -> Goto(p, "settings") /\ UNCHANGED <<saver, acked>>
         [] req[p].then = "failed" -> End(p) /\ UNCHANGED acked
         [] req[p].then = "acked" ->
              /\ acked' = [k \in Kind |-> saves]
              /\ ReadBack(p) /\ UNCHANGED saver
    /\ UNCHANGED <<file, entries, backup, view, change, saves, legit, unsure, raced>>

-----------------------------------------------------------------------------
(* Saving *)

\* The pair of contents the save is to leave behind.
Intended(p) ==
    CASE change = "both" -> <<saves, saves>>
      [] change = "settings" -> <<saves, req[p].got["secrets"]>>
      [] change = "secrets" -> <<req[p].got["settings"], saves>>

FirstStep == [settings |-> "write", both |-> "back_settings", secrets |-> "rename"]

\* The current document is loaded; a save that names another revision is refused
\* (settings_revision_conflict).  A patch names one, a save of a key may.
Check(p) ==
    /\ At(p, "revision") /\ req[p].goal = "save"
    /\ \/ /\ change = "secrets" \/ view[p].revision = Revision(p)
          /\ Goto(p, FirstStep[change])
          /\ legit' = legit \cup {Intended(p)}
          /\ UNCHANGED saver
       \/ view[p].revision # Revision(p) /\ End(p) /\ UNCHANGED legit
    /\ UNCHANGED <<disk, view, change, saves, acked, unsure, raced, faults>>

BackStep == [settings |-> "back_settings", secrets |-> "back_secrets"]
AfterBack == [settings |-> "back_secrets", secrets |-> "prepare"]

BackUp(p, k) ==
    /\ At(p, BackStep[k])
    /\ entries' = [entries EXCEPT ![saves][k] = file[k]]
    /\ backup' = IF file[k] = NoFile THEN backup ELSE backup \cup {<<saves, k>>}
    /\ Goto(p, AfterBack[k])
    /\ UNCHANGED <<file, journal, view, saver, change, saves, ghosts, faults>>

Prepare(p) ==
    /\ At(p, "prepare")
    /\ journal' = [state |-> "prepared", id |-> saves]
    /\ Goto(p, "write")
    /\ UNCHANGED <<file, entries, backup, view, saver, change, saves, ghosts, faults>>

Preparing == {"back_settings", "back_secrets", "prepare"}

\* A failed preparation is cleaned up, not rolled back.
PrepareFails(p) ==
    /\ req[p].pc \in Preparing /\ Fault
    /\ \/ UNCHANGED <<journal, unsure>>
       \/ /\ At(p, "prepare")
          /\ journal' = [state |-> "prepared", id |-> saves]
          /\ unsure' = TRUE
    /\ GotoTxn(p, "drop", saves, "failed")
    /\ UNCHANGED <<file, entries, backup, view, saver, change, saves, acked, legit, raced>>

Confirm(p, ks) ==
    /\ acked' = [k \in Kind |-> IF k \in ks THEN saves ELSE acked[k]]
    /\ ReadBack(p)

\* settings.json is replaced.
Write(p) ==
    /\ At(p, "write")
    /\ Replace("settings", saves)
    /\ IF change = "both"
       THEN Goto(p, "rename") /\ UNCHANGED acked
       ELSE Confirm(p, {"settings"})
    /\ UNCHANGED <<journal, entries, backup, view, saver, change, saves, legit, unsure,
                   raced, faults>>

\* secrets.bin is replaced by the encrypted file prepared before.
Rename(p) ==
    /\ At(p, "rename")
    /\ Replace("secrets", saves)
    /\ IF change = "both"
       THEN Goto(p, "commit") /\ UNCHANGED acked
       ELSE Confirm(p, {"secrets"})
    /\ UNCHANGED <<journal, entries, backup, view, saver, change, saves, legit, unsure,
                   raced, faults>>

\* The journal says committed: from here on the save counts.
Commit(p) ==
    /\ At(p, "commit")
    /\ journal' = [state |-> "committed", id |-> saves]
    /\ GotoTxn(p, "drop", saves, "acked")
    /\ UNCHANGED <<file, entries, backup, view, saver, change, saves, ghosts, faults>>

\* A step of the save fails, before or after it took effect.  With a journal
\* the save is rolled back, without one it is left as it is.
SaveFails(p) ==
    /\ req[p].pc \in {"write", "rename", "commit"} /\ Fault
    /\ \/ UNCHANGED <<file, journal, unsure>>
       \/ At(p, "write") /\ Replace("settings", saves) /\ UNCHANGED <<journal, unsure>>
       \/ At(p, "rename") /\ Replace("secrets", saves) /\ UNCHANGED <<journal, unsure>>
       \/ /\ At(p, "commit")
          /\ journal' = [state |-> "committed", id |-> saves]
          /\ unsure' = TRUE /\ UNCHANGED file
    /\ IF change = "both"
       THEN GotoTxn(p, "backups", saves, "failed") /\ UNCHANGED saver
       ELSE End(p)
    /\ UNCHANGED <<entries, backup, view, change, saves, acked, legit, raced>>

\* The service dies and is started again; tabs keep what they show.
Crash ==
    /\ Fault
    /\ req' = [p \in Client |-> Idle]
    /\ saver' = None
    /\ UNCHANGED <<disk, view, change, saves, ghosts>>

Step(p) ==
    \/ \E turn \in LoadKinds : Load(p, turn)
    \/ \E c \in Change : BeginSave(p, c)
    \/ ReadJournal(p) \/ ReadSettings(p) \/ ReadSecrets(p) \/ Loaded(p)
    \/ LoadFails(p)
    \/ ReadBackups(p) \/ RecoveryUnsafe(p)
    \/ Mark(p) \/ MarkFails(p) \/ DropBackups(p) \/ DropJournal(p)
    \/ \E k \in Kind : Restore(p, k) \/ RestoreFails(p, k) \/ BackUp(p, k)
    \/ Check(p) \/ Prepare(p) \/ PrepareFails(p)
    \/ Write(p) \/ Rename(p) \/ Commit(p) \/ SaveFails(p)

Next == Crash \/ \E p \in Client : Step(p)

Spec == Init /\ [][Next]_vars

\* A request that is under way goes on, and settings are loaded again and again.
FairSpec == Spec /\ \A p \in Client : WF_vars(Step(p))

-----------------------------------------------------------------------------
(* Properties *)

\* A document that was read in a turn of the queue holds two contents that belong
\* together: the ones some save left, or what was there before it, but never the
\* settings of one save with the secrets of another (recoverSettingsTransaction),
\* whatever other loads do beside the saves, as long as none of them recovers there.
LoadsAreWhole ==
    \A p \in Client :
        view[p].settled /\ ~unsure /\ ~raced => Pair(view[p].content) \in legit

\* Whenever no save and no recovery is under way and no journal asks for one, the
\* two files on disk belong together, whatever crashed or failed before.
DiskIsWhole ==
    /\ saver = None /\ \A p \in Client : req[p].pc \notin Recovering
    /\ journal.state # "prepared"
    /\ ~unsure /\ ~raced
    => Pair(file) \in legit

\* Neither a crash nor a failure separates the two files, on disk or in what a
\* client that waits for the writes is shown.
FilesAreWhole == TypeOK /\ LoadsAreWhole /\ DiskIsWhole

\* Unless a load meets the journal of a save beside it, a save that was confirmed
\* is not undone: not by a crash, not by the rollback of a later save that failed,
\* not by a journal left behind.
AckedKept == ~raced => \A k \in Kind : file[k] >= acked[k]

\* The same for every load, those beside the saves included: ordinary reads wait
\* for the commits in flight and leave them alone.
ConfirmedSavesStay == \A k \in Kind : file[k] >= acked[k]

\* A patch that a page makes on a document which waited for the writes, as the
\* pages do before every patch (settings-write-coordinator.js), passes the revision
\* check only on the contents of that document, although its revision came from
\* another read of the settings than its contents (saveSettingsPatchUnlocked).
PatchMadeOnCurrent ==
    \A p \in Client :
        /\ view[p].settled /\ ~raced
        /\ req[p].goal = "save" /\ change # "secrets" /\ req[p].pc \in Saving
        => view[p].content = req[p].got

\* A journal that asks for a rollback has the backups the rollback needs.
RollbackPossible == journal.state = "prepared" /\ ~unsure /\ ~raced => HasBackups(journal.id)

\* A half-done save is undone in the end: the journal does not block the
\* settings for ever.
JournalSettled ==
    journal.state = "prepared" ~> (journal.state # "prepared" \/ unsure \/ raced)
=============================================================================
