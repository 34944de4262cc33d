------------------------ MODULE SchedulerDigestCommit ------------------------
(***************************************************************************)
(* How the scheduler turns the new messages of one group into one saved    *)
(* digest and moves its cursor past them (daemon/scheduler.js,             *)
(* runGroupDigest), across crashes, failed writes, changed settings and a  *)
(* user who deletes outputs.  Three stores take part, each written         *)
(* atomically but never together:                                          *)
(*   pending  data/scheduler-pending-cursors.json, the recovery record;    *)
(*   art      the output folder: transaction marker, PNG with its digest   *)
(*            JSON, and the history index (renderer/output.js);            *)
(*   cursor   the cursor store (store/cursors.js).                         *)
(* One group of one verified account is modelled: records and cursors are  *)
(* keyed by it.  Every message stays inside the collection window.         *)
(***************************************************************************)
EXTENDS Naturals, FiniteSets

CONSTANTS Msg,          \* messages that may arrive in the group
          Rule,         \* rule fingerprints (window, keywords, minimum)
          Matching,     \* the messages that pass each rule's keywords
          None,
          MinMessages,  \* min_messages_per_digest
          MaxDigest,    \* bound: digests the AI is asked for
          MaxFault,     \* bound: crashes, aborts, failed writes, deletions
          MaxRev,       \* bound: settings changes
          MaxTick       \* bound: runs that stamp a new checked window

ASSUME NoneAssumption == None \notin Rule
ASSUME MatchingAssumption == Matching \in [Rule -> SUBSET Msg]
ASSUME BoundsAssumption ==
    MinMessages \in Nat /\ MaxDigest \in Nat /\ MaxFault \in Nat
    /\ MaxRev \in Nat /\ MaxTick \in Nat

Digest == 1..MaxDigest

VARIABLES
    arrived,   \* messages the project copy of the database shows
    rule, rev, \* the saved settings: rule fingerprint and runtime revision
    cursor,    \* the committed cursor state of the group
    pending,   \* the recovery record of the group, or NoRecord
    art,       \* where each digest's files are
    content,   \* the messages each digest covers (written in its JSON)
    stamp,     \* ghost: the rule and the settings epoch that made each digest
    epoch,     \* ghost: how often the rule has changed
    shown,     \* ghost: digests that ever were in the history index
    dropped,   \* ghost: digests whose record was given up while their
               \* save transaction could still be rolled forward
    run,       \* the run in progress (volatile)
    next,      \* the next digest id
    faults, ticks
vars == <<arrived, rule, rev, cursor, pending, art, content, stamp, epoch,
          shown, dropped, run, next, faults, ticks>>

CursorState == [seen : SUBSET Msg, rule : Rule \cup {None}, win : 0..MaxTick]
EmptyCursor == [seen |-> {}, rule |-> None, win |-> 0]
NoRecord == [d |-> 0, state |-> EmptyCursor, phase |-> "none"]

\* "intent": marker and temporary PNG (or the PNG) without the digest JSON;
\* "pair": PNG and digest JSON; "indexed": also listed in the history;
\* "removed": the files are gone after they had been published.
Artifact == {"none", "intent", "pair", "indexed", "removed"}

Phases == {"idle", "recover", "reindex", "collect", "summarize", "prepare",
           "intent", "pair", "index", "record", "commit", "forget"}

Idle == [pc |-> "idle", rule |-> None, rev |-> 0, epoch |-> 0, win |-> 0,
         d |-> 0, state |-> EmptyCursor, kind |-> "none"]

PendingRecord == [d : 0..MaxDigest, state : CursorState,
                  phase : {"none", "prepared", "saved"}]
RunState == [pc : Phases, rule : Rule \cup {None}, rev : 0..MaxRev,
             epoch : 0..MaxRev, win : 0..MaxTick, d : 0..MaxDigest,
             state : CursorState,
             kind : {"none", "digest", "unbound", "checked", "recover"}]

TypeOK ==
    /\ arrived \in SUBSET Msg
    /\ rule \in Rule /\ rev \in 0..MaxRev /\ epoch \in 0..MaxRev
    /\ cursor \in CursorState
    /\ pending \in PendingRecord
    /\ art \in [Digest -> Artifact]
    /\ content \in [Digest -> SUBSET Msg]
    /\ stamp \in [Digest -> [rule : Rule \cup {None}, epoch : 0..MaxRev]]
    /\ shown \in SUBSET Digest /\ dropped \in SUBSET Digest
    /\ run \in RunState
    /\ next \in 1..(MaxDigest + 1)
    /\ faults \in 0..MaxFault /\ ticks \in 0..MaxTick

Init ==
    /\ arrived = {} /\ rule \in Rule /\ rev = 0 /\ epoch = 0
    /\ cursor = EmptyCursor /\ pending = NoRecord
    /\ art = [d \in Digest |-> "none"]
    /\ content = [d \in Digest |-> {}]
    /\ stamp = [d \in Digest |-> [rule |-> None, epoch |-> 0]]
    /\ shown = {} /\ dropped = {}
    /\ run = Idle /\ next = 1 /\ faults = 0 /\ ticks = 0

\* What the steps of a run leave alone.
env == <<arrived, rule, rev, epoch>>
files == <<art, shown>>
digests == <<content, stamp, next>>

At(p) == run.pc = p
Goto(p) == run' = [run EXCEPT !.pc = p]
Fault == faults < MaxFault /\ faults' = faults + 1
SettingsFresh == run.rev = rev

-----------------------------------------------------------------------------
(* The recovery record *)

Record(phase) == [d |-> run.d, state |-> run.state, phase |-> phase]

\* An artifact that only the save-transaction recovery can still complete.
GivenUp == IF pending.d # 0 /\ art[pending.d] = "intent" THEN {pending.d} ELSE {}

\* forgetPendingSchedulerCursorCommit with its failure caught: the record goes,
\* or a failed write leaves it.
TryForget ==
    \/ pending' = NoRecord /\ UNCHANGED faults
    \/ Fault /\ UNCHANGED pending

-----------------------------------------------------------------------------
(* A run *)

\* The run snapshots the settings; its cursor state will carry this window.
BeginRun ==
    /\ At("idle")
    /\ ticks' = IF ticks < MaxTick THEN ticks + 1 ELSE ticks
    /\ run' = [Idle EXCEPT !.pc = "recover", !.rule = rule, !.rev = rev,
                           !.epoch = epoch, !.win = ticks']
    /\ UNCHANGED <<env, cursor, pending, files, digests, dropped, faults>>

\* No record: straight to the messages.
RecoverNothing ==
    /\ At("recover") /\ pending = NoRecord
    /\ Goto("collect")
    /\ UNCHANGED <<env, cursor, pending, files, digests, dropped, faults, ticks>>

\* The recorded file is gone (or nothing of a prepared digest is found by its
\* id): the record is dropped and the messages are read again.
RecoverGone ==
    /\ At("recover") /\ pending # NoRecord
    /\ art[pending.d] \notin {"pair", "indexed"}
    /\ dropped' = dropped \cup GivenUp
    /\ TryForget
    /\ Goto("collect")
    /\ UNCHANGED <<env, cursor, files, digests, ticks>>

\* The file is there and is (put) in the history index.
RecoverFound ==
    /\ At("recover") /\ pending # NoRecord
    /\ art[pending.d] \in {"pair", "indexed"}
    /\ art' = [art EXCEPT ![pending.d] = "indexed"]
    /\ shown' = shown \cup {pending.d}
    /\ Goto("reindex")
    /\ UNCHANGED <<env, cursor, pending, digests, dropped, faults, ticks>>

\* The file cannot be checked, or the index repair fails: the run ends and the
\* record stays (recovery_failed).
RecoverFails ==
    /\ At("recover") /\ pending # NoRecord
    /\ Fault
    /\ run' = Idle
    /\ UNCHANGED <<env, cursor, pending, files, digests, dropped, ticks>>

\* Indexed, but the rule has changed since: the record is dropped, the digest
\* stays in the history and the current rule starts over.
RecoverOtherRule ==
    /\ At("reindex") /\ pending.state.rule # run.rule
    /\ TryForget
    /\ Goto("collect")
    /\ UNCHANGED <<env, cursor, files, digests, dropped, ticks>>

\* Indexed, and the cursor already is where the record would put it.
RecoverCommitted ==
    /\ At("reindex") /\ pending.state.rule = run.rule
    /\ pending.state = cursor
    /\ TryForget
    /\ Goto("collect")
    /\ UNCHANGED <<env, cursor, files, digests, dropped, ticks>>

\* Mutated: a record whose cursor commit is missing is dropped.
RecoverCommitDropped ==
    /\ At("reindex") /\ pending.state.rule = run.rule
    /\ pending.state # cursor
    /\ TryForget
    /\ Goto("collect")
    /\ UNCHANGED <<env, cursor, files, digests, dropped, ticks>>

\* Indexed, and the cursor commit is still missing.
RecoverCommit ==
    /\ At("reindex") /\ pending.state.rule = run.rule
    /\ pending.state # cursor
    /\ run' = [run EXCEPT !.pc = "commit", !.kind = "recover",
                          !.state = pending.state]
    /\ UNCHANGED <<env, cursor, pending, files, digests, dropped, faults, ticks>>

RuleChanged == cursor # EmptyCursor /\ cursor.rule # run.rule
ActiveSeen == IF RuleChanged THEN {} ELSE cursor.seen
NewMessages == arrived \ ActiveSeen
ToDigest == NewMessages \cap Matching[run.rule]
Window(seen) == [seen |-> seen, rule |-> run.rule, win |-> run.win]

\* Mutated: the state to commit covers only what was new.
CollectNothingNewOnly ==
    /\ At("collect") /\ NewMessages = {}
    /\ run' = [run EXCEPT !.pc = "commit", !.kind = "checked",
                          !.state = Window(NewMessages)]
    /\ UNCHANGED <<env, cursor, pending, files, digests, dropped, faults, ticks>>

\* Nothing to digest: the checked window is committed without a digest.
CollectNothingNew ==
    /\ At("collect") /\ NewMessages = {}
    /\ run' = [run EXCEPT !.pc = "commit", !.kind = "checked",
                          !.state = Window(arrived)]
    /\ UNCHANGED <<env, cursor, pending, files, digests, dropped, faults, ticks>>

\* An empty window that the mirror check could not vouch for commits nothing.
CollectUnsafeEmpty ==
    /\ At("collect") /\ arrived = {}
    /\ run' = Idle
    /\ UNCHANGED <<env, cursor, pending, files, digests, dropped, faults, ticks>>

\* Mutated: exactly the minimum counts as too few.
CollectUpToMinimum ==
    /\ At("collect") /\ NewMessages # {}
    /\ ToDigest = {} \/ Cardinality(ToDigest) <= MinMessages
    /\ run' = Idle
    /\ UNCHANGED <<env, cursor, pending, files, digests, dropped, faults, ticks>>

\* Fewer new matching messages than the rule asks for: nothing is written.
CollectBelowMinimum ==
    /\ At("collect") /\ NewMessages # {}
    /\ ToDigest = {} \/ Cardinality(ToDigest) < MinMessages
    /\ run' = Idle
    /\ UNCHANGED <<env, cursor, pending, files, digests, dropped, faults, ticks>>

EnoughToDigest == ToDigest # {} /\ Cardinality(ToDigest) >= MinMessages

\* The settings are checked, then the AI is asked for a digest of the new
\* matching messages; the cursor state to commit covers the whole window read.
Summarize ==
    /\ At("collect") /\ EnoughToDigest
    /\ SettingsFresh
    /\ next \in Digest
    /\ content' = [content EXCEPT ![next] = ToDigest]
    /\ stamp' = [stamp EXCEPT ![next] = [rule |-> run.rule, epoch |-> run.epoch]]
    /\ next' = next + 1
    /\ run' = [run EXCEPT !.pc = "prepare", !.kind = "digest", !.d = next,
                          !.state = Window(arrived)]
    /\ UNCHANGED <<env, cursor, pending, files, dropped, faults, ticks>>

\* Settings that changed before the AI call, after it or after rendering end
\* the run before anything is written.
StaleBeforeSave ==
    /\ At("collect") \/ At("prepare")
    /\ ~SettingsFresh
    /\ run' = Idle
    /\ UNCHANGED <<env, cursor, pending, files, digests, dropped, faults, ticks>>

\* The AI gives no digest, or rendering fails; past the bound it always fails.
SummarizeFails ==
    /\ At("collect") /\ EnoughToDigest
    /\ IF next \in Digest THEN Fault ELSE UNCHANGED faults
    /\ run' = Idle
    /\ UNCHANGED <<env, cursor, pending, files, digests, dropped, ticks>>

\* The write-ahead record: it replaces whatever record the group had.
Prepare ==
    /\ At("prepare") /\ SettingsFresh
    /\ pending' = Record("prepared")
    /\ dropped' = dropped \cup GivenUp
    /\ Goto("intent")
    /\ UNCHANGED <<env, cursor, files, digests, faults, ticks>>

\* commitBarrier passed: marker and temporary PNG are published.
SaveIntent ==
    /\ At("intent") /\ SettingsFresh
    /\ art' = [art EXCEPT ![run.d] = "intent"]
    /\ Goto("pair")
    /\ UNCHANGED <<env, cursor, pending, shown, digests, dropped, faults, ticks>>

\* PNG and digest JSON are in place and the marker says committed.
SavePair ==
    /\ At("pair")
    /\ art' = [art EXCEPT ![run.d] = "pair"]
    /\ Goto("index")
    /\ UNCHANGED <<env, cursor, pending, shown, digests, dropped, faults, ticks>>

\* The history index is written; a failure that certainly wrote nothing leaves
\* the artifact unbound, and the save still returns.
SaveIndex ==
    /\ At("index") /\ SettingsFresh
    /\ \/ /\ art' = [art EXCEPT ![run.d] = "indexed"]
          /\ shown' = shown \cup {run.d}
          /\ run' = [run EXCEPT !.pc = "record"]
          /\ UNCHANGED faults
       \/ /\ Fault
          /\ run' = [run EXCEPT !.pc = "record", !.kind = "unbound"]
          /\ UNCHANGED files
    /\ UNCHANGED <<env, cursor, pending, digests, dropped, ticks>>

\* The index write fails after it may have happened: the save throws, the
\* files and the record stay.
SaveIndexUnknown ==
    /\ At("index") /\ Fault
    /\ \/ UNCHANGED files
       \/ art' = [art EXCEPT ![run.d] = "indexed"] /\ shown' = shown \cup {run.d}
    /\ run' = Idle
    /\ UNCHANGED <<env, cursor, pending, digests, dropped, ticks>>

\* A barrier refuses (settings changed), or the save fails or is aborted: the
\* files are removed, the failure is certain, the record is dropped.
CleanFiles == art' = [art EXCEPT ![run.d] =
                        IF run.d \in shown THEN "removed" ELSE "none"]

SaveRefused ==
    /\ At("intent") \/ At("pair") \/ At("index")
    /\ ~SettingsFresh
    /\ CleanFiles
    /\ TryForget
    /\ run' = Idle
    /\ UNCHANGED <<env, cursor, shown, digests, dropped, ticks>>

SaveFails ==
    /\ At("intent") \/ At("pair") \/ At("index")
    /\ Fault
    /\ CleanFiles
    /\ pending' = NoRecord
    /\ run' = Idle
    /\ UNCHANGED <<env, cursor, shown, digests, dropped, ticks>>

\* Mutated: the record is dropped although the files may still be there.
SaveCleanupFailsForgets ==
    /\ At("pair") \/ At("index")
    /\ Fault
    /\ pending' = NoRecord
    /\ run' = Idle
    /\ UNCHANGED <<env, cursor, files, digests, dropped, ticks>>

\* ... unless the removal fails too (output_save_cleanup_failed): what was
\* there may still be there, and the record is kept.
SaveCleanupFails ==
    /\ At("pair") \/ At("index")
    /\ Fault
    /\ run' = Idle
    /\ UNCHANGED <<env, cursor, pending, files, digests, dropped, ticks>>

\* Mutated: the cursor moves for an artifact the history does not list.
RecordSavedUnbound ==
    /\ At("record")
    /\ pending' = Record("saved")
    /\ run' = [run EXCEPT !.pc = "commit"]
    /\ UNCHANGED <<env, cursor, files, digests, dropped, faults, ticks>>

\* The record learns the file and its version; then, if the history is bound,
\* the cursor may move.
RecordSaved ==
    /\ At("record")
    /\ pending' = Record("saved")
    /\ run' = IF run.kind = "unbound" THEN Idle ELSE [run EXCEPT !.pc = "commit"]
    /\ UNCHANGED <<env, cursor, files, digests, dropped, faults, ticks>>

RecordFails ==
    /\ At("record") /\ Fault
    /\ \/ pending' = Record("saved")
       \/ UNCHANGED pending
    /\ run' = Idle
    /\ UNCHANGED <<env, cursor, files, digests, dropped, ticks>>

\* Mutated: the settings are not compared again before the write.
CommitCursorUnchecked ==
    /\ At("commit")
    /\ cursor' = run.state
    /\ run' = IF run.kind = "checked" THEN Idle ELSE [run EXCEPT !.pc = "forget"]
    /\ UNCHANGED <<env, pending, files, digests, dropped, faults, ticks>>

\* commitSchedulerCursorState: under the settings transaction, only for the
\* settings the run started with.
CommitCursor ==
    /\ At("commit") /\ SettingsFresh
    /\ cursor' = run.state
    /\ run' = IF run.kind = "checked" THEN Idle ELSE [run EXCEPT !.pc = "forget"]
    /\ UNCHANGED <<env, pending, files, digests, dropped, faults, ticks>>

CommitRefused ==
    /\ At("commit") /\ ~SettingsFresh
    /\ run' = Idle
    /\ UNCHANGED <<env, cursor, pending, files, digests, dropped, faults, ticks>>

\* The cursor file may have been replaced although the write reports failure.
CommitFails ==
    /\ At("commit") /\ Fault
    /\ \/ SettingsFresh /\ cursor' = run.state
       \/ UNCHANGED cursor
    /\ run' = Idle
    /\ UNCHANGED <<env, pending, files, digests, dropped, ticks>>

Forget ==
    /\ At("forget")
    /\ TryForget
    /\ run' = Idle
    /\ UNCHANGED <<env, cursor, files, digests, dropped, ticks>>

\* Abort or failure while nothing is being written, and a crash anywhere: the
\* run is lost, the stores stay as they are.
RunLost ==
    /\ ~At("idle") /\ Fault
    /\ run' = Idle
    /\ UNCHANGED <<env, cursor, pending, files, digests, dropped, ticks>>

-----------------------------------------------------------------------------
(* The rest of the program, and the world *)

MessageArrives(m) ==
    /\ m \notin arrived
    /\ arrived' = arrived \cup {m}
    /\ UNCHANGED <<rule, rev, epoch, cursor, pending, files, digests, dropped,
                   run, faults, ticks>>

\* The user saves settings; the rule fingerprint may change with them.
SaveSettings(r) ==
    /\ rev < MaxRev
    /\ rev' = rev + 1
    /\ rule' = r
    /\ epoch' = IF r = rule THEN epoch ELSE epoch + 1
    /\ UNCHANGED <<arrived, cursor, pending, files, digests, dropped, run,
                   faults, ticks>>

\* The history's recovery (startup, or a refresh of the history page) rolls an
\* interrupted save forward and indexes complete pairs; it skips the marker of
\* a save in progress.
HistoryRecovery(d) ==
    /\ art[d] \in {"intent", "pair"}
    /\ ~(run.d = d /\ At("pair"))
    /\ art' = [art EXCEPT ![d] = "indexed"]
    /\ shown' = shown \cup {d}
    /\ UNCHANGED <<env, cursor, pending, digests, dropped, run, faults, ticks>>

\* The user deletes a digest from the history.
UserDelete(d) ==
    /\ art[d] = "indexed"
    /\ Fault
    /\ art' = [art EXCEPT ![d] = "removed"]
    /\ UNCHANGED <<env, cursor, pending, shown, digests, dropped, run, ticks>>

-----------------------------------------------------------------------------
RunStep ==
    \/ BeginRun \/ RecoverNothing \/ RecoverGone \/ RecoverFound
    \/ RecoverOtherRule \/ RecoverCommitted \/ RecoverCommit
    \/ CollectNothingNew \/ CollectUnsafeEmpty \/ CollectBelowMinimum
    \/ Summarize \/ SummarizeFails \/ StaleBeforeSave
    \/ Prepare \/ SaveIntent \/ SavePair \/ SaveIndex \/ SaveRefused
    \/ RecordSaved \/ CommitCursor \/ CommitRefused \/ Forget

FaultStep ==
    \/ RecoverFails \/ SaveIndexUnknown \/ SaveFails \/ SaveCleanupFails
    \/ RecordFails \/ CommitFails \/ RunLost

Next ==
    \/ RunStep \/ FaultStep
    \/ \E m \in Msg : MessageArrives(m)
    \/ \E r \in Rule : SaveSettings(r)
    \/ \E d \in Digest : HistoryRecovery(d) \/ UserDelete(d)

Spec == Init /\ [][Next]_vars

\* The timer keeps starting runs and a started run keeps taking steps.
FairSpec == Spec /\ WF_vars(RunStep)

-----------------------------------------------------------------------------
(* Properties *)

Live(d) == art[d] \in {"pair", "indexed"}

\* The digests D account for the matching messages of a cursor state.
Covered(st, D) ==
    \A m \in st.seen : st.rule \in Rule /\ m \in Matching[st.rule] =>
        \E d \in D : stamp[d].rule = st.rule /\ m \in content[d]

\* The cursor never covers a matching message that no digest made under the
\* cursor's rule, and shown in the history at some time, covers: no failure,
\* crash or replay of a record skips messages.
NoSilentLoss == Covered(cursor, shown)

\* Why that is so: the states on their way to the cursor are accounted for too,
\* by the digest that goes with them or by those already shown.
Saving == {"prepare", "intent", "pair", "index", "record"}
CoverInv ==
    /\ NoSilentLoss
    /\ pending # NoRecord => Covered(pending.state, shown \cup {pending.d})
    /\ run.pc \in Saving => Covered(run.state, shown \cup {run.d})
    /\ run.pc = "record" /\ run.kind # "unbound" => run.d \in shown
    /\ run.pc = "reindex" => pending # NoRecord /\ pending.d \in shown
    /\ run.pc = "commit" => Covered(run.state, shown)

\* The next digest is new, and nothing covers a message that has not arrived.
FreshInv ==
    /\ \A d \in Digest : d \in shown \/ art[d] # "none" => d < next
    /\ pending.d < next /\ run.d < next
    /\ pending # NoRecord => pending.d \in Digest
    /\ run.pc \in Saving => run.d \in Digest
    /\ cursor.seen \subseteq arrived
    /\ pending.state.seen \subseteq arrived
    /\ run.state.seen \subseteq arrived

\* A run whose settings are the saved ones works under the saved rule, and what
\* it wants to commit carries that rule.
RuleInv ==
    /\ run.rev <= rev /\ epoch <= rev
    /\ run.pc # "idle" => run.rule \in Rule /\ (SettingsFresh => run.rule = rule)
    /\ run.pc \in Saving \cup {"commit"} => run.state.rule = run.rule
    /\ pending # NoRecord => pending.state.rule \in Rule
    /\ cursor.rule = None => cursor.seen = {}

\* Within a rule, what is to be committed is no less than the cursor, and a
\* record the cursor has passed is of another rule.
GrowInv ==
    /\ pending # NoRecord /\ pending.state.rule = cursor.rule
         => cursor.seen \subseteq pending.state.seen
    /\ run.pc \in Saving \cup {"commit"} /\ run.state.rule = cursor.rule
         => cursor.seen \subseteq run.state.seen
    /\ run.pc \in Saving => run.kind \in {"digest", "unbound"}
    /\ run.pc = "commit" /\ run.kind # "checked"
         => pending # NoRecord /\ pending.state = run.state
    /\ run.pc = "commit" /\ run.kind = "checked"
         => \/ run.state.seen = {}
            \/ run.state.rule = cursor.rule /\ run.state.seen \subseteq cursor.seen

IndInv == TypeOK /\ CoverInv /\ FreshInv /\ RuleInv /\ GrowInv

\* One message is in one digest per rule epoch, however the run that made it
\* was interrupted; digests given up before their save was rolled forward are
\* the exception (the recovery by digest id does not complete their save, that
\* of the history does).
DigestedOnceOrDropped ==
    \A d, e \in Digest :
        d # e /\ Live(d) /\ Live(e) /\ stamp[d] = stamp[e]
              /\ d \notin dropped /\ e \notin dropped
           => content[d] \cap content[e] = {}

\* The cursor moves only under the settings that are saved at that moment.
CursorMovesUnderCurrentRule == [][cursor' # cursor => cursor'.rule = rule]_vars

\* Within a rule the cursor never forgets a message it has covered, whatever
\* stale records are replayed.
CursorNeverRegresses ==
    [][cursor'.rule = cursor.rule => cursor.seen \subseteq cursor'.seen]_vars

\* A record whose artifact is published is given up only when the cursor is
\* past it, the settings have changed, the artifact goes with it, or it had been
\* found missing before.
RecordKeptUntilSettled ==
    [][pending # NoRecord /\ pending' # pending /\ Live(pending.d)
         => \/ pending'.d = pending.d
            \/ pending.d \in dropped
            \/ pending.state.seen \subseteq cursor.seen
            \/ pending.state.rule # rule \/ ~SettingsFresh
            \/ art'[pending.d] \notin {"pair", "indexed"}]_vars

\* Once faults and settings changes are over, what arrived gets covered.
EventuallyCovered ==
    <>[](arrived \cap Matching[rule] \subseteq cursor.seen
         /\ (arrived \cap Matching[rule] # {} => cursor.rule = rule))
=============================================================================
