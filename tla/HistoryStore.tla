---------------------------- MODULE HistoryStore ----------------------------
(***************************************************************************)
(* The output directory of the digests (renderer/output.js): per digest a  *)
(* PNG, its digest JSON and the marker of the save, and one index.json for *)
(* all of them.                                                            *)
(*                                                                         *)
(* A save publishes temp, marker, PNG, JSON, lets the marker say           *)
(* "committed", enters the digest in the index and lets the marker say     *)
(* "indexed".  A removal (by the user, or by the retention) renames the    *)
(* files to pending names, each under a manifest, then writes the index,   *)
(* then unlinks.  Removals and index writes take turns (withHistoryWrite-  *)
(* Lock); the file steps of a save, and the recovery of interrupted saves  *)
(* by a refresh of the history, go beside them.  A step is one file        *)
(* operation.                                                              *)
(***************************************************************************)
EXTENDS Integers, FiniteSets

CONSTANTS Item,      \* the file names digests are saved under
          Saved,     \* those saved and listed at the start
          None,
          MaxFault   \* bound: crashes, failed file operations, damage

ASSUME SavedAssumption == Saved \subseteq Item
ASSUME NoneAssumption == None \notin Item
ASSUME BoundsAssumption == MaxFault \in Nat

File == {"marker", "json", "png"}
Artifact == Item \X File
FilesOf(i) == {i} \X File

VARIABLES
    there,     \* artifacts under their own name
    pending,   \* artifacts renamed away by a removal
    manifest,  \* artifacts with the manifest of a removal (one is enough: a file
               \* with a leftover is not removed again, see NameStaysFree)
    temp,      \* temporary PNGs of saves
    mark,      \* what the save marker says
    index,     \* the digests in index.json
    damaged,   \* index.json cannot be read
    save,      \* how far each save is
    own,       \* the artifacts a save has to remove if it fails
    op,        \* the removal that holds the history lock
    rf,        \* the refresh that recovers saves and repairs the index
    recovered, \* interrupted saves were looked after in this process
    gone,      \* ghost: digests whose removal is in the index
    beside,    \* ghost: digests that a refresh handled or listed beside their
               \* save, or that their failed save did not clean up to the end
    crossed,   \* ghost: digests whose unfinished save a refresh handled beside files
               \* of an unfinished removal
    lost,      \* ghost: the index was damaged once
    faults
files == <<there, pending, manifest, temp, mark>>
ghosts == <<gone, beside, crossed, lost>>
vars == <<files, index, damaged, save, own, op, rf, recovered, ghosts, faults>>

\* A save is protected from the refresh while its marker is registered; it
\* is published ("reserved") a moment before that.
Active == {"marker", "png", "json"}
SaveStep == {"none", "temp", "reserved", "withdraw", "committed", "discard",
             "listed", "leave", "over"} \cup Active

OpStep == {"free", "recover", "manifest", "rename", "undo", "write", "finish"}
Free == [step |-> "free", kind |-> "delete", todo |-> {}, left |-> {}, item |-> None,
         next |-> {}, staged |-> {}, done |-> {}, blind |-> FALSE, failed |-> FALSE]
Rest == [step |-> "idle", force |-> FALSE, todo |-> {}, item |-> None,
         saw |-> "prepared", json |-> FALSE, needs |-> {}]

OpRecord == [step : OpStep, kind : {"settle", "delete", "clean"},
             todo : SUBSET Artifact, left : SUBSET Item, item : Item \cup {None},
             next : SUBSET File, staged : SUBSET Artifact, done : SUBSET Item,
             blind : BOOLEAN, failed : BOOLEAN]
RfRecord == [step : {"idle", "scan", "link", "json", "commit", "merge", "mark"},
             force : BOOLEAN, todo : SUBSET Item, item : Item \cup {None},
             saw : {"prepared", "committed"}, json : BOOLEAN, needs : SUBSET Item]

TypeOK ==
    /\ there \in SUBSET Artifact /\ pending \in SUBSET Artifact
    /\ manifest \in SUBSET Artifact
    /\ temp \in SUBSET Item
    /\ mark \in [Item -> {"prepared", "committed", "indexed"}]
    /\ index \in SUBSET Item /\ damaged \in BOOLEAN
    /\ save \in [Item -> SaveStep] /\ own \in [Item -> SUBSET File]
    /\ op \in OpRecord /\ rf \in RfRecord /\ recovered \in BOOLEAN
    /\ gone \in SUBSET Item /\ beside \in SUBSET Item
    /\ crossed \in SUBSET Item /\ lost \in BOOLEAN
    /\ faults \in 0..MaxFault

Init ==
    /\ there = Saved \X File /\ pending = {} /\ manifest = {} /\ temp = {}
    /\ mark = [i \in Item |-> IF i \in Saved THEN "indexed" ELSE "prepared"]
    /\ index = Saved /\ damaged = FALSE
    /\ save = [i \in Item |-> IF i \in Saved THEN "over" ELSE "none"] /\ own = [i \in Item |-> {}]
    /\ op = Free /\ rf = Rest /\ recovered = FALSE
    /\ gone = {} /\ beside = {} /\ crossed = {} /\ lost = FALSE /\ faults = 0

Fault == faults < MaxFault /\ faults' = faults + 1

LockFree == op.step = "free"
HasJson == {i \in Item : <<i, "json">> \in there}
\* A reader that cannot parse the index keeps a copy and rebuilds it from the
\* digests on disk.
Listed == IF damaged THEN HasJson ELSE index
Saving(i) == save[i] \notin {"none", "over"}

\* index.json is replaced.
SetIndex(new) ==
    /\ index' = new /\ damaged' = FALSE
    /\ beside' = beside \cup {i \in new \ index : Saving(i)}

\* A save enters its own digest.
Enter(i) ==
    /\ index' = Listed \cup {i} /\ damaged' = FALSE
    /\ beside' = beside \cup {j \in Listed \ index : j # i /\ Saving(j)}

-----------------------------------------------------------------------------
(* Saving *)

Goto(i, s) == save' = [save EXCEPT ![i] = s]
Owns(i, f) == own' = [own EXCEPT ![i] = @ \cup {f}]
OthersRest == UNCHANGED <<pending, manifest, index, damaged, op, rf, recovered, ghosts>>

WriteTemp(i) ==
    /\ save[i] = "none"
    /\ temp' = temp \cup {i} /\ Goto(i, "temp")
    /\ OthersRest /\ UNCHANGED <<there, mark, own, faults>>

PublishMarker(i) ==
    /\ save[i] = "temp"
    /\ there' = there \cup {<<i, "marker">>}
    /\ Owns(i, "marker") /\ Goto(i, "reserved")
    /\ OthersRest /\ UNCHANGED <<temp, mark, faults>>

Register(i) ==
    /\ save[i] = "reserved"
    /\ Goto(i, "marker")
    /\ OthersRest /\ UNCHANGED <<there, temp, mark, own, faults>>

\* A name that is taken meanwhile is left, and the save goes on under another.
PublishPng(i) ==
    /\ save[i] = "marker"
    /\ \/ /\ <<i, "png">> \in there
          /\ there' = there \ {<<i, "marker">>} /\ Goto(i, "leave") /\ UNCHANGED own
       \/ /\ <<i, "png">> \notin there /\ i \in temp
          /\ there' = there \cup {<<i, "png">>} /\ Owns(i, "png") /\ Goto(i, "png")
    /\ OthersRest /\ UNCHANGED <<temp, mark, faults>>

\* A digest that is there already, with the same content, is as good.
PublishJson(i) ==
    /\ save[i] = "png"
    /\ there' = there \cup {<<i, "json">>}
    /\ IF <<i, "json">> \in there THEN UNCHANGED own ELSE Owns(i, "json")
    /\ Goto(i, "json")
    /\ OthersRest /\ UNCHANGED <<temp, mark, faults>>

CommitMarker(i) ==
    /\ save[i] = "json" /\ FilesOf(i) \subseteq there
    /\ mark' = [mark EXCEPT ![i] = "committed"]
    /\ temp' = temp \ {i}
    /\ Goto(i, "committed")
    /\ OthersRest /\ UNCHANGED <<there, own, faults>>

\* A step fails, a file is gone, or the save is cancelled.
PublishFails(i) ==
    /\ save[i] \in {"temp"} \cup Active
    /\ Goto(i, "withdraw")
    /\ OthersRest /\ UNCHANGED <<there, temp, mark, own, faults>>

\* What the save owns is removed.
Remove(i, f) ==
    /\ save[i] \in {"withdraw", "discard"} /\ f \in own[i]
    /\ there' = there \ {<<i, f>>}
    /\ own' = [own EXCEPT ![i] = @ \ {f}]
    /\ OthersRest /\ UNCHANGED <<temp, mark, save, faults>>

RemoveFails(i, f) ==
    /\ save[i] \in {"withdraw", "discard"} /\ f \in own[i] /\ Fault
    /\ own' = [own EXCEPT ![i] = @ \ {f}]
    /\ beside' = beside \cup {i}
    /\ recovered' = (recovered /\ save[i] = "withdraw")
    /\ UNCHANGED <<files, index, damaged, save, op, rf, gone, crossed, lost>>

\* The temporary PNG goes last.
RemoveTemp(i) ==
    /\ \/ save[i] \in {"withdraw", "discard"} /\ own[i] = {}
       \/ save[i] = "leave"
    /\ temp' = temp \ {i} /\ Goto(i, "over")
    /\ own' = [own EXCEPT ![i] = {}]
    /\ OthersRest /\ UNCHANGED <<there, mark, faults>>

\* The digest is entered in the index, in its turn (upsertHistory).
Upsert(i) ==
    /\ save[i] = "committed" /\ LockFree
    /\ Enter(i)
    /\ Goto(i, "listed")
    /\ UNCHANGED <<files, own, op, rf, recovered, gone, crossed, lost, faults>>

\* The account or the settings changed, or the save was cancelled: the index is
\* left or put back as it was read, the pair is removed.
Reject(i) ==
    /\ save[i] = "committed"
    /\ (LockFree /\ SetIndex(Listed)) \/ UNCHANGED <<index, damaged, beside>>
    /\ own' = [own EXCEPT ![i] = File] /\ Goto(i, "discard")
    /\ UNCHANGED <<files, op, rf, recovered, gone, crossed, lost, faults>>

\* Writing the index fails, before or after it took effect, or cannot be put
\* back: the pair stays for the recovery.
UpsertFails(i) ==
    /\ save[i] = "committed" /\ LockFree /\ Fault
    /\ Enter(i) \/ UNCHANGED <<index, damaged, beside>>
    /\ Goto(i, "over") /\ recovered' = FALSE
    /\ own' = [own EXCEPT ![i] = {}]
    /\ UNCHANGED <<files, op, rf, gone, crossed, lost>>

MarkIndexed(i) ==
    /\ save[i] = "listed"
    /\ \/ /\ mark' = IF <<i, "marker">> \in there
                      THEN [mark EXCEPT ![i] = "indexed"] ELSE mark
          /\ UNCHANGED <<recovered, faults>>
       \/ Fault /\ recovered' = FALSE /\ UNCHANGED mark
    /\ Goto(i, "over")
    /\ own' = [own EXCEPT ![i] = {}]
    /\ UNCHANGED <<there, pending, manifest, temp, index, damaged, op, rf, ghosts>>

-----------------------------------------------------------------------------
(* Removing: by the user ("delete"), by the retention ("clean"); or only    *)
(* looking after what an interrupted removal left ("settle")                *)

SavesRest == UNCHANGED <<temp, mark, save, own, rf, recovered>>

Start(kind, targets, blind) ==
    op' = [Free EXCEPT !.step = "recover", !.kind = kind, !.todo = manifest,
                       !.left = targets, !.blind = blind /\ manifest # {}]

Settle ==
    /\ LockFree /\ manifest # {}
    /\ Start("settle", {}, damaged)
    /\ SavesRest /\ UNCHANGED <<there, pending, manifest, index, damaged, ghosts, faults>>

\* The request of the user is checked against the history, which is read (and
\* if need be rebuilt) for it.
Delete(i) ==
    /\ LockFree /\ i \in Listed
    /\ SetIndex(Listed)
    /\ Start("delete", {i}, FALSE)
    /\ SavesRest /\ UNCHANGED <<there, pending, manifest, gone, crossed, lost, faults>>

\* Some digests are old enough.
Clean(targets) ==
    /\ LockFree /\ targets # {} /\ targets \subseteq Listed
    /\ Start("clean", targets, damaged)
    /\ SavesRest /\ UNCHANGED <<there, pending, manifest, index, damaged, ghosts, faults>>

\* Mutated: a file gets its name back whatever the index says.
RecoverOneRestores(a) ==
    /\ op.step = "recover" /\ a \in op.todo
    /\ IF a \in pending /\ a \notin there
       THEN /\ pending' = pending \ {a} /\ there' = there \cup {a}
            /\ UNCHANGED <<manifest, op>>
       ELSE /\ manifest' = IF a \notin pending THEN manifest \ {a} ELSE manifest
            /\ op' = [op EXCEPT !.todo = @ \ {a}]
            /\ UNCHANGED <<there, pending>>
    /\ SavesRest /\ UNCHANGED <<index, damaged, ghosts, faults>>

\* Per manifest: what is still listed gets its file back, the rest is unlinked;
\* when both names are taken nothing is touched.  If the index could not be read
\* when the removal began (blind), everything gets its file back.
RecoverOne(a) ==
    /\ op.step = "recover" /\ a \in op.todo
    /\ LET unlisted == ~op.blind /\ a[1] \notin index IN
       IF a \in pending /\ a \notin there
       THEN /\ pending' = pending \ {a}
            /\ there' = IF unlisted THEN there ELSE there \cup {a}
            /\ UNCHANGED <<manifest, op>>
       ELSE /\ manifest' = IF a \notin pending /\ (a \in there \/ unlisted)
                           THEN manifest \ {a} ELSE manifest
            /\ op' = [op EXCEPT !.todo = @ \ {a}]
            /\ UNCHANGED <<there, pending>>
    /\ SavesRest /\ UNCHANGED <<index, damaged, ghosts, faults>>

RecoverFails ==
    /\ op.step = "recover" /\ op.todo # {} /\ Fault
    /\ op' = Free
    /\ SavesRest /\ UNCHANGED <<there, pending, manifest, index, damaged, ghosts>>

\* Mutated: the files are unlinked before the index is written.
NextItemUnlinks(o) ==
    IF o.left # {}
    THEN {[o EXCEPT !.step = "manifest", !.item = i, !.left = @ \ {i}, !.next = File] :
              i \in o.left}
    ELSE IF o.done # {} THEN {[o EXCEPT !.step = "finish", !.item = None, !.todo = o.staged]}
    ELSE {Free}

\* What follows when an item is done with: the next one, the index, or the end.
NextItem(o) ==
    IF o.left # {}
    THEN {[o EXCEPT !.step = "manifest", !.item = i, !.left = @ \ {i}, !.next = File] :
              i \in o.left}
    ELSE IF o.done # {} THEN {[o EXCEPT !.step = "write", !.item = None]}
    ELSE {Free}

\* The index is read once more; a target that is not in it is dropped.
RecoverDone ==
    /\ op.step = "recover" /\ op.todo = {}
    /\ IF op.kind = "settle"
       THEN op' = Free /\ UNCHANGED <<index, damaged, beside>>
       ELSE /\ SetIndex(Listed)
            /\ op' \in NextItem([op EXCEPT !.left = @ \cap Listed, !.blind = FALSE])
    /\ SavesRest /\ UNCHANGED <<there, pending, manifest, gone, crossed, lost, faults>>

Rank == [marker |-> 1, json |-> 2, png |-> 3]
This == <<op.item, CHOOSE f \in op.next : \A g \in op.next : Rank[f] <= Rank[g]>>

\* On to the next file of the item.
Onwards(o) ==
    LET left == o.next \ {This[2]} IN
    IF left # {} THEN {[o EXCEPT !.step = "manifest", !.next = left]}
    ELSE NextItem([o EXCEPT !.next = {}, !.done = @ \cup {o.item}])

\* A file is renamed away under a manifest; a missing one is passed over.
WriteManifest ==
    /\ op.step = "manifest"
    /\ IF This \in there
       THEN /\ manifest' = manifest \cup {This}
            /\ op' = [op EXCEPT !.step = "rename"]
       ELSE op' \in Onwards(op) /\ UNCHANGED manifest
    /\ SavesRest /\ UNCHANGED <<there, pending, index, damaged, ghosts, faults>>

RenameAway ==
    /\ op.step = "rename" /\ This \in there
    /\ there' = there \ {This} /\ pending' = pending \cup {This}
    /\ op' \in Onwards([op EXCEPT !.staged = @ \cup {This}])
    /\ SavesRest /\ UNCHANGED <<manifest, index, damaged, ghosts, faults>>

\* The file is away, but checking it or flushing its directory fails: it goes back
\* with the others of the item.
RenameAwayFails ==
    /\ op.step = "rename" /\ This \in there /\ Fault
    /\ there' = there \ {This} /\ pending' = pending \cup {This}
    /\ op' = [op EXCEPT !.step = "undo", !.next = {}, !.staged = @ \cup {This},
                        !.todo = (op.staged \cap FilesOf(op.item)) \cup {This}]
    /\ SavesRest /\ UNCHANGED <<manifest, index, damaged, ghosts>>

\* A file cannot be staged, or is gone: what is staged of the item goes back.
StageFails ==
    /\ op.step \in {"manifest", "rename"}
    /\ \/ Fault
       \/ op.step = "rename" /\ This \notin there /\ UNCHANGED faults
    /\ manifest' = manifest \ {This} \/ (op.step = "rename" /\ UNCHANGED manifest)
    /\ op' = [op EXCEPT !.step = "undo", !.todo = op.staged \cap FilesOf(op.item),
                        !.next = {}]
    /\ SavesRest /\ UNCHANGED <<there, pending, index, damaged, ghosts>>

\* One file goes back to its name, then its manifest goes.
Undo(a) ==
    /\ op.step = "undo" /\ a \in op.todo
    /\ IF a \in pending /\ a \notin there
       THEN /\ pending' = pending \ {a} /\ there' = there \cup {a}
            /\ UNCHANGED <<manifest, op>>
       ELSE /\ manifest' = IF a \in there /\ a \notin pending
                           THEN manifest \ {a} ELSE manifest
            /\ op' = [op EXCEPT !.todo = @ \ {a}, !.staged = @ \ {a},
                                !.failed = @ \/ a \in pending \/ a \notin there]
            /\ UNCHANGED <<there, pending>>
    /\ SavesRest /\ UNCHANGED <<index, damaged, ghosts, faults>>

UndoFails(a) ==
    /\ op.step = "undo" /\ a \in op.todo /\ Fault
    /\ op' = [op EXCEPT !.todo = @ \ {a}, !.failed = TRUE]
    /\ SavesRest /\ UNCHANGED <<there, pending, manifest, index, damaged, ghosts>>

\* The retention goes on without the item, unless something could not be put
\* back; then it stops like a deletion, and the index is not touched.
UndoDone ==
    /\ op.step = "undo" /\ op.todo = {}
    /\ IF op.kind = "clean" /\ op.item # None /\ ~op.failed
       THEN op' \in NextItem(op)
       ELSE op' = Free
    /\ SavesRest /\ UNCHANGED <<there, pending, manifest, index, damaged, ghosts, faults>>

WriteIndex ==
    /\ op.step = "write"
    /\ index' = index \ op.done /\ damaged' = FALSE
    /\ gone' = gone \cup op.done
    /\ op' = [op EXCEPT !.step = "finish", !.todo = op.staged]
    /\ SavesRest /\ UNCHANGED <<there, pending, manifest, beside, crossed, lost, faults>>

\* The write fails, before or after it took effect (took).  The index is read
\* back: if that fails too (seen is FALSE) everything is left as it is.
WriteIndexFails(took, seen) ==
    /\ op.step = "write" /\ Fault
    /\ index' = IF took THEN index \ op.done ELSE index
    /\ damaged' = (damaged /\ ~took)
    /\ gone' = IF took THEN gone \cup op.done ELSE gone
    /\ op' = IF ~seen \/ damaged' THEN Free
             ELSE [op EXCEPT !.step = IF took THEN "finish" ELSE "undo",
                             !.todo = op.staged]
    /\ SavesRest /\ UNCHANGED <<there, pending, manifest, beside, crossed, lost>>

\* One file is unlinked, then its manifest goes; what fails stays.
Finish(a) ==
    /\ op.step = "finish" /\ a \in op.todo
    /\ IF a \in pending
       THEN pending' = pending \ {a} /\ UNCHANGED <<manifest, op>>
       ELSE /\ manifest' = manifest \ {a}
            /\ op' = [op EXCEPT !.todo = @ \ {a}]
            /\ UNCHANGED pending
    /\ SavesRest /\ UNCHANGED <<there, index, damaged, ghosts, faults>>

\* Mutated: the manifest goes although the file could not be unlinked.
FinishFailsDrops(a) ==
    /\ op.step = "finish" /\ a \in op.todo /\ Fault
    /\ manifest' = manifest \ {a}
    /\ op' = [op EXCEPT !.todo = @ \ {a}]
    /\ SavesRest /\ UNCHANGED <<there, pending, index, damaged, ghosts>>

FinishFails(a) ==
    /\ op.step = "finish" /\ a \in op.todo /\ Fault
    /\ op' = [op EXCEPT !.todo = @ \ {a}]
    /\ SavesRest /\ UNCHANGED <<there, pending, manifest, index, damaged, ghosts>>

FinishDone ==
    /\ op.step = "finish" /\ op.todo = {}
    /\ op' = Free
    /\ SavesRest /\ UNCHANGED <<there, pending, manifest, index, damaged, ghosts, faults>>

-----------------------------------------------------------------------------
(* A refresh of the history: interrupted saves are completed, then the      *)
(* digests on disk are merged into the index, in its turn                   *)

RemovalsRest == UNCHANGED <<pending, manifest, save, own, op>>

\* force: the user asks for a refresh; otherwise saves are looked after once.
Refresh(force) ==
    /\ rf.step = "idle"
    /\ rf' = [Rest EXCEPT !.force = force,
                          !.step = IF force \/ ~recovered THEN "scan" ELSE "merge",
                          !.todo = {i \in Item : <<i, "marker">> \in there}]
    /\ RemovalsRest
    /\ UNCHANGED <<there, temp, mark, index, damaged, recovered, ghosts, faults>>

Working(i, step) == [rf EXCEPT !.step = step, !.item = i, !.todo = @ \ {i},
                               !.saw = mark[i], !.json = <<i, "json">> \in there]
Skip(i) == [rf EXCEPT !.todo = @ \ {i}]

\* A registered save, one that is indexed, one whose marker is gone, is passed over.
PassOver(i) ==
    /\ rf.step = "scan" /\ i \in rf.todo
    /\ save[i] \in Active \/ <<i, "marker">> \notin there \/ mark[i] = "indexed"
    /\ rf' = Skip(i)
    /\ RemovalsRest
    /\ UNCHANGED <<there, temp, mark, index, damaged, recovered, ghosts, faults>>

\* Without PNG and JSON an old marker is removed, a young one waits.
Look(i) ==
    /\ rf.step = "scan" /\ i \in rf.todo
    /\ save[i] \notin Active /\ <<i, "marker">> \in there /\ mark[i] # "indexed"
    /\ \/ /\ <<i, "png">> \in there
          /\ rf' = Working(i, "json") /\ UNCHANGED there
       \/ /\ <<i, "png">> \notin there /\ mark[i] = "prepared" /\ i \in temp
          /\ rf' = Working(i, "link") /\ UNCHANGED there
       \/ /\ <<i, "png">> \notin there /\ (mark[i] # "prepared" \/ i \notin temp)
          /\ rf' = Skip(i)
          /\ \/ UNCHANGED there
             \/ /\ <<i, "json">> \notin there /\ mark[i] = "prepared" /\ ~Saving(i)
                /\ there' = there \ {<<i, "marker">>}
    /\ beside' = IF Saving(i) THEN beside \cup {i} ELSE beside
    /\ crossed' = IF mark[i] = "prepared" /\ pending \cap FilesOf(i) # {}
                  THEN crossed \cup {i} ELSE crossed
    /\ RemovalsRest
    /\ UNCHANGED <<temp, mark, index, damaged, recovered, gone, lost, faults>>

GiveUp == [Rest EXCEPT !.step = "merge", !.force = rf.force]
Back == [Rest EXCEPT !.step = "scan", !.force = rf.force, !.todo = rf.todo,
                     !.needs = rf.needs]

\* The PNG is published from the temporary file the marker names.
LinkPng ==
    /\ rf.step = "link"
    /\ IF <<rf.item, "png">> \notin there /\ rf.item \notin temp
       THEN rf' = GiveUp /\ UNCHANGED there
       ELSE /\ there' = there \cup {<<rf.item, "png">>}
            /\ rf' = [rf EXCEPT !.step = "json"]
    /\ RemovalsRest
    /\ UNCHANGED <<temp, mark, index, damaged, recovered, ghosts, faults>>

\* The JSON is written from the marker, unless the save was complete once.
WriteJson ==
    LET i == rf.item IN
    /\ rf.step = "json"
    /\ IF <<i, "png">> \notin there THEN rf' = Back /\ UNCHANGED <<there, temp>>
       ELSE /\ temp' = temp \ {i}
            /\ IF ~rf.json /\ rf.saw = "prepared"
               THEN there' = there \cup {<<i, "json">>} /\ rf' = [rf EXCEPT !.step = "commit"]
               ELSE /\ rf' = IF rf.json /\ <<i, "json">> \in there
                             THEN [rf EXCEPT !.step = "commit"] ELSE Back
                    /\ UNCHANGED there
    /\ RemovalsRest
    /\ UNCHANGED <<mark, index, damaged, recovered, ghosts, faults>>

\* Mutated: the marker says indexed before the digest is listed.
CommitSaveIndexed ==
    LET i == rf.item IN
    /\ rf.step = "commit"
    /\ IF rf.saw = "prepared" /\ <<i, "marker">> \notin there
       THEN rf' = GiveUp /\ UNCHANGED mark
       ELSE /\ mark' = IF rf.saw = "prepared" THEN [mark EXCEPT ![i] = "indexed"] ELSE mark
            /\ rf' = [Back EXCEPT !.needs = @ \cup {i}]
    /\ RemovalsRest
    /\ UNCHANGED <<there, temp, index, damaged, recovered, ghosts, faults>>

\* The marker says committed; one that is gone stops the recovery.
CommitSave ==
    LET i == rf.item IN
    /\ rf.step = "commit"
    /\ IF rf.saw = "prepared" /\ <<i, "marker">> \notin there
       THEN rf' = GiveUp /\ UNCHANGED mark
       ELSE /\ mark' = IF rf.saw = "prepared" THEN [mark EXCEPT ![i] = "committed"] ELSE mark
            /\ rf' = [Back EXCEPT !.needs = @ \cup {i}]
    /\ RemovalsRest
    /\ UNCHANGED <<there, temp, index, damaged, recovered, ghosts, faults>>

RecoveryFails ==
    /\ rf.step \in {"scan", "link", "json", "commit"} /\ Fault
    /\ rf' = GiveUp
    /\ RemovalsRest
    /\ UNCHANGED <<there, temp, mark, index, damaged, recovered, ghosts>>

ScanDone ==
    /\ rf.step = "scan" /\ rf.todo = {}
    /\ rf' = [rf EXCEPT !.step = "merge"] /\ recovered' = TRUE
    /\ RemovalsRest
    /\ UNCHANGED <<there, temp, mark, index, damaged, ghosts, faults>>

\* The walk through the directory also removes temporary files that are old.
Merge ==
    LET merged == IF rf.force \/ rf.needs # {} THEN Listed \cup HasJson ELSE Listed
        needs == rf.needs \cap merged IN
    /\ rf.step = "merge" /\ LockFree
    /\ SetIndex(merged)
    /\ \E old \in SUBSET {i \in temp : ~Saving(i)} : temp' = temp \ old
    /\ rf' = IF needs = {} THEN Rest
             ELSE [Rest EXCEPT !.step = "mark", !.needs = needs]
    /\ RemovalsRest
    /\ UNCHANGED <<there, mark, recovered, gone, crossed, lost, faults>>

MarkMerged ==
    /\ rf.step = "mark"
    /\ mark' = [i \in Item |-> IF i \in rf.needs /\ <<i, "marker">> \in there
                               THEN "indexed" ELSE mark[i]]
    /\ rf' = Rest
    /\ RemovalsRest
    /\ UNCHANGED <<there, temp, index, damaged, recovered, ghosts, faults>>

-----------------------------------------------------------------------------
(* The environment *)

DamageIndex ==
    /\ ~damaged /\ Fault
    /\ damaged' = TRUE /\ lost' = TRUE
    /\ UNCHANGED <<files, index, save, own, op, rf, recovered, gone, beside, crossed>>

Crash ==
    /\ Fault
    /\ save' = [i \in Item |-> IF Saving(i) THEN "over" ELSE save[i]]
    /\ own' = [i \in Item |-> {}]
    /\ op' = Free /\ rf' = Rest /\ recovered' = FALSE
    /\ beside' = beside \cup {i \in Item : save[i] \in {"withdraw", "discard"}}
    /\ UNCHANGED <<files, index, damaged, gone, crossed, lost>>

SaveNext(i) ==
    \/ WriteTemp(i) \/ PublishMarker(i) \/ Register(i) \/ PublishPng(i)
    \/ PublishJson(i) \/ CommitMarker(i) \/ PublishFails(i)
    \/ \E f \in File : Remove(i, f) \/ RemoveFails(i, f)
    \/ RemoveTemp(i) \/ Upsert(i) \/ Reject(i) \/ UpsertFails(i) \/ MarkIndexed(i)

RemovalNext ==
    \/ \E a \in op.todo : RecoverOne(a) \/ Undo(a) \/ UndoFails(a)
                         \/ Finish(a) \/ FinishFails(a)
    \/ RecoverFails \/ RecoverDone \/ WriteManifest \/ RenameAway \/ RenameAwayFails
    \/ StageFails \/ UndoDone \/ WriteIndex \/ FinishDone
    \/ \E took, seen \in BOOLEAN : WriteIndexFails(took, seen)

RefreshNext ==
    \/ \E i \in Item : PassOver(i) \/ Look(i)
    \/ LinkPng \/ WriteJson \/ CommitSave \/ RecoveryFails \/ ScanDone \/ Merge
    \/ MarkMerged

Next ==
    \/ \E i \in Item : SaveNext(i) \/ Delete(i)
    \/ \E targets \in SUBSET Item : Clean(targets)
    \/ Settle \/ RemovalNext
    \/ \E force \in BOOLEAN : Refresh(force)
    \/ RefreshNext
    \/ DamageIndex \/ Crash

Spec == Init /\ [][Next]_vars

-----------------------------------------------------------------------------
(* Properties *)

\* The digests a refresh took up although their save or their removal was not over,
\* or listed too early, and those a failed save left behind.
Excused(i) == i \in beside \cup crossed

Kept(i) == {"json", "png"} \subseteq {f \in File : <<i, f>> \in there \cup (pending \cap manifest)}

\* Whatever the index lists is on disk, or under the name a removal gave it with the
\* manifest that brings it back - at every step of a removal, whatever crashed.
ListedIsKept == \A i \in index : Excused(i) \/ lost \/ Kept(i)

\* A digest whose removal is in the index does not come back: not by the recovery
\* of saves or removals, not by the repair of the index.
RemovedStaysAway == \A i \in gone : i \notin index \/ Excused(i) \/ lost

\* The marker of a save says indexed only while the digest is listed: the recovery
\* passes it over then.
IndexedMarkerIsTrue ==
    \A i \in Item : <<i, "marker">> \in there /\ mark[i] = "indexed"
        => i \in index \/ Excused(i) \/ lost

\* When nobody is at work on a digest, and no manifest and no prepared marker asks
\* for more, its PNG and its JSON are both there or both away.
WholeAtRest ==
    \A i \in Item :
        /\ LockFree /\ rf.step = "idle" /\ ~Saving(i) /\ ~Excused(i) /\ ~lost
        /\ manifest \cap FilesOf(i) = {}
        /\ ~(<<i, "marker">> \in there /\ mark[i] = "prepared")
        => (<<i, "png">> \in there <=> <<i, "json">> \in there)

\* The two together: the save of a digest is done for good or is still to be
\* completed or taken back, and the marker says which.
SavesAreSettled == TypeOK /\ IndexedMarkerIsTrue /\ WholeAtRest

\* Nobody makes a file again whose removal is under way or interrupted: otherwise
\* neither could be told from the other, and the removal would never be settled.
NameStaysFree ==
    \A a \in pending : a \notin there \/ Excused(a[1])

\* What a removal renamed away always has the manifest by which the next start
\* finds it, and puts it back or removes it (recoverInterruptedRetentionCleanup).
LeftoversHaveManifest ==
    \A a \in pending : a \in manifest \/ Excused(a[1])

\* Both: whatever an interrupted removal left can be settled by the next one.
LeftoversCanBeSettled == NameStaysFree /\ LeftoversHaveManifest
=============================================================================
