--------------------- MODULE SchedulerDigestCommit_proofs ---------------------
(***************************************************************************)
(* Proofs about the digest and cursor protocol of one group, for any set   *)
(* of messages and rules, any filter and any bounds.                       *)
(***************************************************************************)
EXTENDS SchedulerDigestCommit, TLAPS

\* The initial state satisfies the inductive invariant.
LEMMA InitInv == Init => IndInv
<1> SUFFICES ASSUME Init PROVE IndInv
  OBVIOUS
<1> USE NoneAssumption, BoundsAssumption
<1>1. Idle \in RunState /\ NoRecord \in PendingRecord /\ EmptyCursor \in CursorState
  BY DEF RunState, Idle, EmptyCursor, CursorState, Phases, NoRecord, PendingRecord
<1>2. TypeOK
  BY <1>1 DEF Init, TypeOK, Artifact, Digest
<1>3. CoverInv
  BY DEF Init, CoverInv, NoSilentLoss, Covered, EmptyCursor, Idle, Saving
<1>4. FreshInv
  BY DEF Init, FreshInv, EmptyCursor, NoRecord, Idle, Saving
<1>5. RuleInv
  BY DEF Init, RuleInv, EmptyCursor, NoRecord, Idle, Saving
<1>6. GrowInv
  BY DEF Init, GrowInv, NoRecord, Idle, Saving
<1> QED
  BY <1>2, <1>3, <1>4, <1>5, <1>6 DEF IndInv

\* The empty run, the empty record and what is given up have their types.
LEMMA Typed ==
  ASSUME TypeOK
  PROVE  /\ Idle \in RunState /\ NoRecord \in PendingRecord
         /\ GivenUp \subseteq Digest
<1>1. Idle \in RunState
  BY BoundsAssumption DEF RunState, Idle, EmptyCursor, CursorState, Phases
<1>2. NoRecord \in PendingRecord
  BY BoundsAssumption DEF NoRecord, PendingRecord, EmptyCursor, CursorState
<1>3. GivenUp \subseteq Digest
  BY DEF TypeOK, GivenUp, PendingRecord, Digest
<1> QED
  BY <1>1, <1>2, <1>3

\* So is what a forgotten or kept record leaves.
LEMMA ForgetTyped ==
  ASSUME TypeOK, TryForget
  PROVE  pending' \in PendingRecord /\ faults' \in 0..MaxFault
BY Typed, BoundsAssumption DEF TypeOK, TryForget, Fault

\* Every step keeps the types.
LEMMA TypeStep == IndInv /\ [Next]_vars => TypeOK'
<1> SUFFICES ASSUME IndInv, [Next]_vars PROVE TypeOK'
  OBVIOUS
<1> USE BoundsAssumption
<1> TypeOK
  BY DEF IndInv
<1> USE Typed
<1>1. CASE BeginRun
  <2>1. ticks' \in 0..MaxTick
    BY <1>1 DEF TypeOK, BeginRun
  <2>2. run' \in RunState
    BY <1>1, <2>1 DEF TypeOK, BeginRun, RunState, Phases, env
  <2> QED
    BY <1>1, <2>1, <2>2 DEF TypeOK, BeginRun, env, files, digests
<1>2. CASE RecoverNothing
  <2>1. run' \in RunState /\ pending' \in PendingRecord /\ cursor' \in CursorState
    BY <1>2 DEF TypeOK, RecoverNothing, RunState, PendingRecord, CursorState, Phases,
       Goto, env
  <2> QED
    BY <1>2, <2>1 DEF IndInv, FreshInv, TypeOK, RecoverNothing, Artifact, Digest,
       NoRecord, Saving, At, env, files, digests
<1>3. CASE RecoverGone
  <2>1. run' \in RunState /\ pending' \in PendingRecord /\ cursor' \in CursorState
    BY <1>3, ForgetTyped DEF TypeOK, RecoverGone, RunState, PendingRecord, CursorState,
       Phases, Goto, env
  <2> QED
    BY <1>3, <2>1, ForgetTyped DEF IndInv, FreshInv, TypeOK, RecoverGone, Fault,
       Artifact, Digest, NoRecord, Saving, At, env, files, digests
<1>4. CASE RecoverFound
  <2>1. run' \in RunState /\ pending' \in PendingRecord /\ cursor' \in CursorState
    BY <1>4 DEF TypeOK, RecoverFound, RunState, PendingRecord, CursorState, Phases,
       Goto, env
  <2> QED
    BY <1>4, <2>1 DEF IndInv, FreshInv, TypeOK, RecoverFound, Artifact, Digest,
       NoRecord, Saving, At, env, files, digests
<1>5. CASE RecoverOtherRule
  <2>1. run' \in RunState /\ pending' \in PendingRecord /\ cursor' \in CursorState
    BY <1>5, ForgetTyped DEF TypeOK, RecoverOtherRule, RunState, PendingRecord,
       CursorState, Phases, Goto, env
  <2> QED
    BY <1>5, <2>1, ForgetTyped DEF IndInv, FreshInv, TypeOK, RecoverOtherRule, Fault,
       Artifact, Digest, NoRecord, Saving, At, env, files, digests
<1>6. CASE RecoverCommitted
  <2>1. run' \in RunState /\ pending' \in PendingRecord /\ cursor' \in CursorState
    BY <1>6, ForgetTyped DEF TypeOK, RecoverCommitted, RunState, PendingRecord,
       CursorState, Phases, Goto, env
  <2> QED
    BY <1>6, <2>1, ForgetTyped DEF IndInv, FreshInv, TypeOK, RecoverCommitted, Fault,
       Artifact, Digest, NoRecord, Saving, At, env, files, digests
<1>7. CASE RecoverCommit
  <2>1. run' \in RunState /\ pending' \in PendingRecord /\ cursor' \in CursorState
    BY <1>7 DEF TypeOK, RecoverCommit, RunState, PendingRecord, CursorState, Phases, env
  <2> QED
    BY <1>7, <2>1 DEF IndInv, FreshInv, TypeOK, RecoverCommit, Artifact, Digest,
       NoRecord, Saving, At, env, files, digests
<1>8. CASE CollectNothingNew
  <2>1. run' \in RunState /\ pending' \in PendingRecord /\ cursor' \in CursorState
    BY <1>8 DEF TypeOK, CollectNothingNew, RunState, PendingRecord, CursorState, Phases,
       Window, env
  <2> QED
    BY <1>8, <2>1 DEF IndInv, FreshInv, TypeOK, CollectNothingNew, Artifact, Digest,
       NoRecord, Saving, At, env, files, digests
<1>9. CASE Summarize
  <2>1. run' \in RunState
    <3>1. Window(arrived) \in CursorState
      BY <1>9 DEF TypeOK, IndInv, RuleInv, Summarize, Window, CursorState, RunState, At
    <3>2. run \in RunState /\ next \in 0..MaxDigest
      BY <1>9 DEF TypeOK, Summarize, Digest
    <3> QED
      BY <1>9, <3>1, <3>2 DEF Summarize, RunState, Phases
  <2>2. content' \in [Digest -> SUBSET Msg]
    BY <1>9, MatchingAssumption DEF TypeOK, Summarize, ToDigest, NewMessages
  <2>3. [rule |-> run.rule, epoch |-> run.epoch] \in [rule : Rule \cup {None}, epoch :
     0..MaxRev]
    BY DEF TypeOK, RunState
  <2>4. stamp' \in [Digest -> [rule : Rule \cup {None}, epoch : 0..MaxRev]]
    BY <1>9, <2>3 DEF TypeOK, Summarize
  <2>5. next' \in 1..(MaxDigest + 1)
    BY <1>9 DEF TypeOK, Summarize, Digest
  <2> QED
    BY <1>9, <2>1, <2>2, <2>4, <2>5 DEF TypeOK, Summarize, env, files
<1>10. CASE Prepare
  <2>1. run' \in RunState /\ pending' \in PendingRecord /\ cursor' \in CursorState
    BY <1>10 DEF TypeOK, Prepare, RunState, PendingRecord, CursorState, Phases, Goto,
       Record, env
  <2> QED
    BY <1>10, <2>1 DEF IndInv, FreshInv, TypeOK, Prepare, Artifact, Digest, NoRecord,
       Saving, At, env, files, digests
<1>11. CASE SaveIntent
  <2>1. run' \in RunState /\ pending' \in PendingRecord /\ cursor' \in CursorState
    BY <1>11 DEF TypeOK, SaveIntent, RunState, PendingRecord, CursorState, Phases, Goto,
       env
  <2> QED
    BY <1>11, <2>1 DEF IndInv, FreshInv, TypeOK, SaveIntent, Artifact, Digest, NoRecord,
       Saving, At, env, files, digests
<1>12. CASE SavePair
  <2>1. run' \in RunState /\ pending' \in PendingRecord /\ cursor' \in CursorState
    BY <1>12 DEF TypeOK, SavePair, RunState, PendingRecord, CursorState, Phases, Goto,
       env
  <2> QED
    BY <1>12, <2>1 DEF IndInv, FreshInv, TypeOK, SavePair, Artifact, Digest, NoRecord,
       Saving, At, env, files, digests
<1>13. CASE SaveIndex
  <2>1. run' \in RunState
    BY <1>13 DEF TypeOK, SaveIndex, RunState, Phases
  <2>2. run.d \in Digest
    BY <1>13 DEF IndInv, FreshInv, SaveIndex, At, Saving
  <2>3. art' \in [Digest -> Artifact] /\ shown' \in SUBSET Digest
    BY <1>13, <2>2 DEF TypeOK, SaveIndex, Artifact, files
  <2>4. faults' \in 0..MaxFault
    BY <1>13 DEF TypeOK, SaveIndex, Fault
  <2> QED
    BY <1>13, <2>1, <2>3, <2>4 DEF TypeOK, SaveIndex, env, digests
<1>14. CASE SaveIndexUnknown
  <2>1. run' \in RunState
    BY <1>14 DEF TypeOK, SaveIndexUnknown, RunState, Phases
  <2>2. run.d \in Digest
    BY <1>14 DEF IndInv, FreshInv, SaveIndexUnknown, At, Saving
  <2>3. art' \in [Digest -> Artifact] /\ shown' \in SUBSET Digest
    BY <1>14, <2>2 DEF TypeOK, SaveIndexUnknown, Artifact, files
  <2>4. faults' \in 0..MaxFault
    BY <1>14 DEF TypeOK, SaveIndexUnknown, Fault
  <2> QED
    BY <1>14, <2>1, <2>3, <2>4 DEF TypeOK, SaveIndexUnknown, env, digests
<1>15. CASE SaveRefused
  <2>1. run' \in RunState /\ pending' \in PendingRecord /\ cursor' \in CursorState
    BY <1>15, ForgetTyped DEF TypeOK, SaveRefused, RunState, PendingRecord, CursorState,
       Phases, env
  <2> QED
    BY <1>15, <2>1, ForgetTyped DEF IndInv, FreshInv, TypeOK, SaveRefused, Fault,
       CleanFiles, Artifact, Digest, NoRecord, Saving, At, env, files, digests
<1>16. CASE SaveFails
  <2>1. run' \in RunState /\ pending' \in PendingRecord /\ cursor' \in CursorState
    BY <1>16 DEF TypeOK, SaveFails, RunState, PendingRecord, CursorState, Phases, env
  <2> QED
    BY <1>16, <2>1 DEF IndInv, FreshInv, TypeOK, SaveFails, Fault, CleanFiles, Artifact,
       Digest, NoRecord, Saving, At, env, files, digests
<1>17. CASE RecordSaved
  <2>1. run' \in RunState /\ pending' \in PendingRecord /\ cursor' \in CursorState
    BY <1>17 DEF TypeOK, RecordSaved, RunState, PendingRecord, CursorState, Phases,
       Record, env
  <2> QED
    BY <1>17, <2>1 DEF IndInv, FreshInv, TypeOK, RecordSaved, Artifact, Digest,
       NoRecord, Saving, At, env, files, digests
<1>18. CASE RecordFails
  <2>1. run' \in RunState /\ pending' \in PendingRecord /\ cursor' \in CursorState
    BY <1>18 DEF TypeOK, RecordFails, RunState, PendingRecord, CursorState, Phases,
       Record, env
  <2> QED
    BY <1>18, <2>1 DEF IndInv, FreshInv, TypeOK, RecordFails, Fault, Artifact, Digest,
       NoRecord, Saving, At, env, files, digests
<1>19. CASE CommitCursor
  <2>1. run' \in RunState /\ pending' \in PendingRecord /\ cursor' \in CursorState
    BY <1>19 DEF TypeOK, CommitCursor, RunState, PendingRecord, CursorState, Phases, env
  <2> QED
    BY <1>19, <2>1 DEF IndInv, FreshInv, TypeOK, CommitCursor, Artifact, Digest,
       NoRecord, Saving, At, env, files, digests
<1>20. CASE CommitFails
  <2>1. run' \in RunState /\ pending' \in PendingRecord /\ cursor' \in CursorState
    BY <1>20 DEF TypeOK, CommitFails, RunState, PendingRecord, CursorState, Phases, env
  <2> QED
    BY <1>20, <2>1 DEF IndInv, FreshInv, TypeOK, CommitFails, Fault, Artifact, Digest,
       NoRecord, Saving, At, env, files, digests
<1>21. CASE Forget
  <2>1. run' \in RunState /\ pending' \in PendingRecord /\ cursor' \in CursorState
    BY <1>21, ForgetTyped DEF TypeOK, Forget, RunState, PendingRecord, CursorState,
       Phases, env
  <2> QED
    BY <1>21, <2>1, ForgetTyped DEF IndInv, FreshInv, TypeOK, Forget, Fault, Artifact,
       Digest, NoRecord, Saving, At, env, files, digests
<1>22. ASSUME NEW m \in Msg, MessageArrives(m) PROVE TypeOK'
  BY <1>22 DEF TypeOK, MessageArrives, Artifact, env, files, digests
<1>23. ASSUME NEW r \in Rule, SaveSettings(r) PROVE TypeOK'
  BY <1>23 DEF IndInv, RuleInv, TypeOK, SaveSettings, Artifact, env, files, digests
<1>24. ASSUME NEW d \in Digest, HistoryRecovery(d) PROVE TypeOK'
  BY <1>24 DEF TypeOK, HistoryRecovery, Artifact, env, files, digests
<1>25. ASSUME NEW d \in Digest, UserDelete(d) PROVE TypeOK'
  BY <1>25 DEF TypeOK, UserDelete, Fault, Artifact, env, files, digests
<1>26. CASE RecoverFails \/ CollectUnsafeEmpty \/ CollectBelowMinimum \/ StaleBeforeSave
   \/ SummarizeFails \/ SaveCleanupFails \/ CommitRefused \/ RunLost
  <2>1. run' = Idle /\ faults' \in 0..MaxFault
    BY <1>26 DEF TypeOK, Fault, RecoverFails, CollectUnsafeEmpty, CollectBelowMinimum,
       StaleBeforeSave, SummarizeFails, SaveCleanupFails, CommitRefused, RunLost
  <2> QED
    BY <1>26, <2>1 DEF TypeOK, env, files, digests, RecoverFails, CollectUnsafeEmpty,
       CollectBelowMinimum, StaleBeforeSave, SummarizeFails, SaveCleanupFails,
       CommitRefused, RunLost
<1>27. CASE UNCHANGED vars
  BY <1>27 DEF TypeOK, vars
<1> QED
  BY <1>1, <1>2, <1>3, <1>4, <1>5, <1>6, <1>7, <1>8, <1>9, <1>10, <1>11, <1>12, <1>13,
     <1>14, <1>15, <1>16, <1>17, <1>18, <1>19, <1>20, <1>21, <1>22, <1>23, <1>24, <1>25,
     <1>26, <1>27 DEF Next, RunStep, FaultStep

\* A run that ends without having written anything.
LEMMA RunEnds ==
  ASSUME IndInv, run' = Idle,
         UNCHANGED <<env, cursor, pending, files, digests, dropped, ticks>>
  PROVE  CoverInv' /\ FreshInv' /\ RuleInv' /\ GrowInv'
<1>1. CoverInv'
  BY DEF IndInv, CoverInv, NoSilentLoss, Covered, env, files, digests, Idle, Saving
<1>2. FreshInv'
  BY DEF IndInv, TypeOK, FreshInv, env, files, digests, Idle, EmptyCursor, Saving,
     Digest
<1>3. RuleInv'
  BY BoundsAssumption DEF IndInv, TypeOK, RuleInv, env, files, digests, Idle, Saving
<1>4. GrowInv'
  BY DEF IndInv, GrowInv, env, files, digests, Idle, Saving
<1> QED
  BY <1>1, <1>2, <1>3, <1>4

\* Every step keeps the invariant: one step of the proof per action, and under it
\* one per part of the invariant.
LEMMA StepInv == IndInv /\ [Next]_vars => IndInv'
<1> SUFFICES ASSUME IndInv, [Next]_vars
             PROVE  CoverInv' /\ FreshInv' /\ RuleInv' /\ GrowInv'
  BY TypeStep DEF IndInv
<1> USE NoneAssumption, BoundsAssumption, TypeStep
<1> USE DEF At, Goto, Record, Window, env, files, digests, Saving
<1>1. CASE BeginRun
  <2>1. CoverInv'
    BY <1>1 DEF IndInv, TypeOK, BeginRun, CoverInv, FreshInv, NoSilentLoss, Covered,
       Idle, NoRecord, Digest
  <2>2. FreshInv'
    BY <1>1 DEF IndInv, TypeOK, BeginRun, FreshInv, CoverInv, Idle, NoRecord,
       EmptyCursor, Digest
  <2>3. RuleInv'
    BY <1>1 DEF IndInv, TypeOK, BeginRun, RuleInv, CoverInv, SettingsFresh, Idle,
       NoRecord, EmptyCursor
  <2>4. GrowInv'
    BY <1>1 DEF IndInv, TypeOK, BeginRun, GrowInv, FreshInv, RuleInv, CoverInv, Idle,
       NoRecord, EmptyCursor
  <2> QED
    BY <2>1, <2>2, <2>3, <2>4
<1>2. CASE RecoverNothing
  <2>1. CoverInv'
    BY <1>2 DEF IndInv, TypeOK, RecoverNothing, CoverInv, FreshInv, NoSilentLoss,
       Covered, NoRecord, Digest
  <2>2. FreshInv'
    BY <1>2 DEF IndInv, TypeOK, RecoverNothing, FreshInv, CoverInv, NoRecord,
       EmptyCursor, Digest
  <2>3. RuleInv'
    BY <1>2 DEF IndInv, TypeOK, RecoverNothing, RuleInv, CoverInv, SettingsFresh,
       NoRecord, EmptyCursor
  <2>4. GrowInv'
    BY <1>2 DEF IndInv, TypeOK, RecoverNothing, GrowInv, FreshInv, RuleInv, CoverInv,
       NoRecord, EmptyCursor
  <2> QED
    BY <2>1, <2>2, <2>3, <2>4
<1>3. CASE RecoverGone
  <2>1. CoverInv'
    <3>1. run'.pc = "collect"
      BY <1>3 DEF IndInv, TypeOK, RunState, RecoverGone
    <3>2. pending' = NoRecord \/ pending' = pending
      BY <1>3 DEF RecoverGone, TryForget
    <3> QED
      BY <1>3, <3>1, <3>2 DEF IndInv, RecoverGone, CoverInv, NoSilentLoss, Covered
  <2>2. FreshInv'
    BY <1>3 DEF IndInv, TypeOK, RecoverGone, FreshInv, CoverInv, NoRecord, EmptyCursor,
       TryForget, Digest
  <2>3. RuleInv'
    BY <1>3 DEF IndInv, TypeOK, RecoverGone, RuleInv, CoverInv, SettingsFresh, NoRecord,
       EmptyCursor, TryForget
  <2>4. GrowInv'
    BY <1>3 DEF IndInv, TypeOK, RecoverGone, GrowInv, FreshInv, RuleInv, CoverInv,
       NoRecord, EmptyCursor, TryForget
  <2> QED
    BY <2>1, <2>2, <2>3, <2>4
<1>4. CASE RecoverFound
  <2>1. CoverInv'
    BY <1>4 DEF IndInv, TypeOK, RecoverFound, CoverInv, FreshInv, NoSilentLoss, Covered,
       NoRecord, Digest
  <2>2. FreshInv'
    BY <1>4 DEF IndInv, TypeOK, RecoverFound, FreshInv, CoverInv, NoRecord, EmptyCursor,
       Digest
  <2>3. RuleInv'
    BY <1>4 DEF IndInv, TypeOK, RecoverFound, RuleInv, CoverInv, SettingsFresh,
       NoRecord, EmptyCursor
  <2>4. GrowInv'
    BY <1>4 DEF IndInv, TypeOK, RecoverFound, GrowInv, FreshInv, RuleInv, CoverInv,
       NoRecord, EmptyCursor
  <2> QED
    BY <2>1, <2>2, <2>3, <2>4
<1>5. CASE RecoverOtherRule
  <2>1. CoverInv'
    <3>1. run'.pc = "collect"
      BY <1>5 DEF IndInv, TypeOK, RunState, RecoverOtherRule
    <3>2. pending' = NoRecord \/ pending' = pending
      BY <1>5 DEF RecoverOtherRule, TryForget
    <3> QED
      BY <1>5, <3>1, <3>2 DEF IndInv, RecoverOtherRule, CoverInv, NoSilentLoss, Covered
  <2>2. FreshInv'
    BY <1>5 DEF IndInv, TypeOK, RecoverOtherRule, FreshInv, CoverInv, NoRecord,
       EmptyCursor, TryForget, Digest
  <2>3. RuleInv'
    BY <1>5 DEF IndInv, TypeOK, RecoverOtherRule, RuleInv, CoverInv, SettingsFresh,
       NoRecord, EmptyCursor, TryForget
  <2>4. GrowInv'
    BY <1>5 DEF IndInv, TypeOK, RecoverOtherRule, GrowInv, FreshInv, RuleInv, CoverInv,
       NoRecord, EmptyCursor, TryForget
  <2> QED
    BY <2>1, <2>2, <2>3, <2>4
<1>6. CASE RecoverCommitted
  <2>1. CoverInv'
    BY <1>6 DEF IndInv, TypeOK, RecoverCommitted, CoverInv, FreshInv, NoSilentLoss,
       Covered, NoRecord, TryForget, Digest
  <2>2. FreshInv'
    BY <1>6 DEF IndInv, TypeOK, RecoverCommitted, FreshInv, CoverInv, NoRecord,
       EmptyCursor, TryForget, Digest
  <2>3. RuleInv'
    BY <1>6 DEF IndInv, TypeOK, RecoverCommitted, RuleInv, CoverInv, SettingsFresh,
       NoRecord, EmptyCursor, TryForget
  <2>4. GrowInv'
    BY <1>6 DEF IndInv, TypeOK, RecoverCommitted, GrowInv, FreshInv, RuleInv, CoverInv,
       NoRecord, EmptyCursor, TryForget
  <2> QED
    BY <2>1, <2>2, <2>3, <2>4
<1>7. CASE RecoverCommit
  <2>1. CoverInv'
    <3>1. run'.pc = "commit" /\ run'.state = pending.state /\ shown \cup {pending.d} =
       shown
      BY <1>7 DEF IndInv, TypeOK, RunState, RecoverCommit, CoverInv
    <3> QED
      BY <1>7, <3>1 DEF IndInv, RecoverCommit, CoverInv, NoSilentLoss, Covered
  <2>2. FreshInv'
    BY <1>7 DEF IndInv, TypeOK, RecoverCommit, FreshInv, CoverInv, NoRecord,
       EmptyCursor, Digest
  <2>3. RuleInv'
    BY <1>7 DEF IndInv, TypeOK, RecoverCommit, RuleInv, CoverInv, SettingsFresh,
       NoRecord, EmptyCursor
  <2>4. GrowInv'
    BY <1>7 DEF IndInv, TypeOK, RecoverCommit, GrowInv, FreshInv, RuleInv, CoverInv,
       NoRecord, EmptyCursor
  <2> QED
    BY <2>1, <2>2, <2>3, <2>4
<1>8. CASE CollectNothingNew
  <2>1. CoverInv'
    <3>1. run'.pc = "commit" /\ run'.state.seen = arrived /\ run'.state.rule = run.rule
      BY <1>8 DEF IndInv, TypeOK, RunState, CollectNothingNew
    <3>2. arrived \subseteq ActiveSeen
      BY <1>8 DEF CollectNothingNew, NewMessages
    <3>3. \/ ActiveSeen = {}
          \/ ActiveSeen = cursor.seen /\ (cursor = EmptyCursor \/ cursor.rule =
             run.rule)
      BY DEF ActiveSeen, RuleChanged
    <3>4. Covered(run'.state, shown)
      BY <3>1, <3>2, <3>3 DEF IndInv, CoverInv, NoSilentLoss, Covered, EmptyCursor
    <3> QED
      BY <1>8, <3>1, <3>4 DEF IndInv, CollectNothingNew, CoverInv, NoSilentLoss, Covered
  <2>2. FreshInv'
    BY <1>8 DEF IndInv, TypeOK, CollectNothingNew, FreshInv, CoverInv, NoRecord,
       EmptyCursor, Digest
  <2>3. RuleInv'
    BY <1>8 DEF IndInv, TypeOK, CollectNothingNew, RuleInv, CoverInv, SettingsFresh,
       NoRecord, EmptyCursor
  <2>4. GrowInv'
    <3>1. run'.pc = "commit" /\ run'.kind = "checked"
          /\ run'.state.seen = arrived /\ run'.state.rule = run.rule
      BY <1>8 DEF IndInv, TypeOK, RunState, CollectNothingNew
    <3>2. arrived \subseteq ActiveSeen
      BY <1>8 DEF CollectNothingNew, NewMessages
    <3>3. \/ ActiveSeen = {}
          \/ ActiveSeen = cursor.seen /\ (cursor = EmptyCursor \/ cursor.rule =
             run.rule)
      BY DEF ActiveSeen, RuleChanged
    <3>4. cursor.seen \subseteq arrived
      BY DEF IndInv, FreshInv
    <3> QED
      BY <1>8, <3>1, <3>2, <3>3, <3>4 DEF IndInv, CollectNothingNew, GrowInv,
         EmptyCursor
  <2> QED
    BY <2>1, <2>2, <2>3, <2>4
<1>9. CASE Summarize
  <2>1. CoverInv'
    <3>1. /\ run'.pc = "prepare" /\ run'.d = next /\ next \in Digest
          /\ run'.state.seen = arrived /\ run'.state.rule = run.rule
      BY <1>9 DEF IndInv, TypeOK, RunState, Summarize
    <3>2. \A d \in Digest : d # next => content'[d] = content[d] /\ stamp'[d] = stamp[d]
      BY <1>9 DEF IndInv, TypeOK, Summarize
    <3>3. content'[next] = ToDigest /\ stamp'[next].rule = run.rule
      BY <1>9, <3>1 DEF IndInv, TypeOK, Summarize
    <3>4. /\ next \notin shown /\ shown \subseteq Digest /\ pending.d # next
          /\ (pending # NoRecord => pending.d \in Digest)
      <4>1. next \notin shown
        BY <3>1 DEF IndInv, TypeOK, FreshInv, Digest
      <4>2. pending.d # next
        BY DEF IndInv, TypeOK, FreshInv, PendingRecord
      <4> QED
        BY <4>1, <4>2 DEF IndInv, TypeOK, FreshInv
    <3>5. Covered(cursor, shown)'
      BY <1>9, <3>2, <3>4 DEF IndInv, CoverInv, NoSilentLoss, Covered, Summarize
    <3>6. pending # NoRecord => Covered(pending.state, shown \cup {pending.d})'
      BY <1>9, <3>2, <3>4 DEF IndInv, CoverInv, Covered, Summarize
    <3>7. \A m \in arrived : m \in Matching[run.rule] =>
             m \in ToDigest \/ (m \in cursor.seen /\ cursor.rule = run.rule)
      BY DEF ToDigest, NewMessages, ActiveSeen, RuleChanged, EmptyCursor
    <3>8. Covered(run.state, shown \cup {run.d})'
      BY <1>9, <3>1, <3>2, <3>3, <3>4, <3>5, <3>7 DEF Covered, Summarize
    <3> QED
      BY <1>9, <3>1, <3>5, <3>6, <3>8 DEF CoverInv, NoSilentLoss, Summarize
  <2>2. FreshInv'
    <3>1. /\ run'.pc = "prepare" /\ run'.d = next /\ next \in Digest
          /\ run'.state.seen = arrived /\ next' = next + 1
      BY <1>9 DEF IndInv, TypeOK, RunState, Summarize
    <3>2. next \in Nat /\ pending.d \in Nat /\ Digest \subseteq Nat
      BY DEF IndInv, TypeOK, PendingRecord, Digest
    <3> QED
      BY <1>9, <3>1, <3>2 DEF IndInv, Summarize, FreshInv
  <2>3. RuleInv'
    BY <1>9 DEF IndInv, TypeOK, Summarize, RuleInv, CoverInv, SettingsFresh, NoRecord,
       EmptyCursor
  <2>4. GrowInv'
    BY <1>9 DEF IndInv, TypeOK, Summarize, GrowInv, FreshInv, RuleInv, CoverInv,
       NoRecord, EmptyCursor
  <2> QED
    BY <2>1, <2>2, <2>3, <2>4
<1>10. CASE Prepare
  <2>1. CoverInv'
    BY <1>10 DEF IndInv, TypeOK, Prepare, CoverInv, FreshInv, NoSilentLoss, Covered,
       NoRecord, Digest
  <2>2. FreshInv'
    BY <1>10 DEF IndInv, TypeOK, Prepare, FreshInv, CoverInv, NoRecord, EmptyCursor,
       Digest
  <2>3. RuleInv'
    BY <1>10 DEF IndInv, TypeOK, Prepare, RuleInv, CoverInv, SettingsFresh, NoRecord,
       EmptyCursor
  <2>4. GrowInv'
    BY <1>10 DEF IndInv, TypeOK, Prepare, GrowInv, FreshInv, RuleInv, CoverInv,
       NoRecord, EmptyCursor
  <2> QED
    BY <2>1, <2>2, <2>3, <2>4
<1>11. CASE SaveIntent
  <2>1. CoverInv'
    BY <1>11 DEF IndInv, TypeOK, SaveIntent, CoverInv, FreshInv, NoSilentLoss, Covered,
       NoRecord, Digest
  <2>2. FreshInv'
    BY <1>11 DEF IndInv, TypeOK, SaveIntent, FreshInv, CoverInv, NoRecord, EmptyCursor,
       Digest
  <2>3. RuleInv'
    BY <1>11 DEF IndInv, TypeOK, SaveIntent, RuleInv, CoverInv, SettingsFresh, NoRecord,
       EmptyCursor
  <2>4. GrowInv'
    BY <1>11 DEF IndInv, TypeOK, SaveIntent, GrowInv, FreshInv, RuleInv, CoverInv,
       NoRecord, EmptyCursor
  <2> QED
    BY <2>1, <2>2, <2>3, <2>4
<1>12. CASE SavePair
  <2>1. CoverInv'
    BY <1>12 DEF IndInv, TypeOK, SavePair, CoverInv, FreshInv, NoSilentLoss, Covered,
       NoRecord, Digest
  <2>2. FreshInv'
    BY <1>12 DEF IndInv, TypeOK, SavePair, FreshInv, CoverInv, NoRecord, EmptyCursor,
       Digest
  <2>3. RuleInv'
    BY <1>12 DEF IndInv, TypeOK, SavePair, RuleInv, CoverInv, SettingsFresh, NoRecord,
       EmptyCursor
  <2>4. GrowInv'
    BY <1>12 DEF IndInv, TypeOK, SavePair, GrowInv, FreshInv, RuleInv, CoverInv,
       NoRecord, EmptyCursor
  <2> QED
    BY <2>1, <2>2, <2>3, <2>4
<1>13. CASE SaveIndex
  <2>1. CoverInv'
    <3>1. /\ run'.pc = "record" /\ run'.d = run.d /\ run'.state = run.state
          /\ run'.rule = run.rule /\ run'.rev = run.rev
      BY <1>13 DEF IndInv, TypeOK, RunState, SaveIndex
    <3>2. \/ shown' = shown \cup {run.d}
          \/ shown' = shown /\ run'.kind = "unbound"
      BY <1>13 DEF IndInv, TypeOK, RunState, SaveIndex
    <3>3. Covered(run.state, shown \cup {run.d})
      BY <1>13 DEF IndInv, CoverInv, SaveIndex
    <3> QED
      BY <1>13, <3>1, <3>2, <3>3 DEF IndInv, CoverInv, NoSilentLoss, Covered, SaveIndex
  <2>2. FreshInv'
    <3>1. /\ run'.pc = "record" /\ run'.d = run.d /\ run'.state = run.state
          /\ run'.rule = run.rule /\ run'.rev = run.rev
      BY <1>13 DEF IndInv, TypeOK, RunState, SaveIndex
    <3>2. run.d \in Digest /\ run.d < next
      BY <1>13 DEF IndInv, FreshInv, SaveIndex
    <3>3. \A d \in Digest : d \in shown' \/ art'[d] # "none" => d = run.d \/ d \in shown
       \/ art[d] # "none"
      BY <1>13 DEF IndInv, TypeOK, SaveIndex
    <3> QED
      BY <1>13, <3>1, <3>2, <3>3 DEF IndInv, FreshInv, SaveIndex
  <2>3. RuleInv'
    <3>1. /\ run'.pc = "record" /\ run'.d = run.d /\ run'.state = run.state
          /\ run'.rule = run.rule /\ run'.rev = run.rev
      BY <1>13 DEF IndInv, TypeOK, RunState, SaveIndex
    <3> QED
      BY <1>13, <3>1 DEF IndInv, RuleInv, SettingsFresh, SaveIndex
  <2>4. GrowInv'
    <3>1. /\ run'.pc = "record" /\ run'.d = run.d /\ run'.state = run.state
          /\ run'.rule = run.rule /\ run'.rev = run.rev
      BY <1>13 DEF IndInv, TypeOK, RunState, SaveIndex
    <3>2. run.kind \in {"digest", "unbound"} /\ run'.kind \in {"digest", "unbound"}
      BY <1>13 DEF IndInv, TypeOK, RunState, GrowInv, SaveIndex
    <3> QED
      BY <1>13, <3>1, <3>2 DEF IndInv, GrowInv, SaveIndex
  <2> QED
    BY <2>1, <2>2, <2>3, <2>4
<1>14. CASE SaveIndexUnknown
  <2>1. CoverInv'
    BY <1>14 DEF IndInv, TypeOK, SaveIndexUnknown, CoverInv, FreshInv, NoSilentLoss,
       Covered, Idle, NoRecord, Digest
  <2>2. FreshInv'
    BY <1>14 DEF IndInv, TypeOK, SaveIndexUnknown, FreshInv, CoverInv, Idle, NoRecord,
       EmptyCursor, Digest
  <2>3. RuleInv'
    BY <1>14 DEF IndInv, TypeOK, SaveIndexUnknown, RuleInv, CoverInv, SettingsFresh,
       Idle, NoRecord, EmptyCursor
  <2>4. GrowInv'
    BY <1>14 DEF IndInv, TypeOK, SaveIndexUnknown, GrowInv, FreshInv, RuleInv, CoverInv,
       Idle, NoRecord, EmptyCursor
  <2> QED
    BY <2>1, <2>2, <2>3, <2>4
<1>15. CASE SaveRefused
  <2>1. CoverInv'
    BY <1>15 DEF IndInv, TypeOK, SaveRefused, CoverInv, FreshInv, NoSilentLoss, Covered,
       Idle, NoRecord, TryForget, CleanFiles, Digest
  <2>2. FreshInv'
    <3>1. run' = Idle /\ (pending' = NoRecord \/ pending' = pending)
      BY <1>15 DEF SaveRefused, TryForget
    <3>2. \A d \in Digest : art'[d] # "none" => art[d] # "none" \/ d \in shown
      BY <1>15 DEF IndInv, TypeOK, SaveRefused, CleanFiles
    <3>3. next \in Nat /\ next > 0
      BY DEF IndInv, TypeOK
    <3> QED
      BY <1>15, <3>1, <3>2, <3>3 DEF IndInv, SaveRefused, FreshInv, Idle, NoRecord,
         EmptyCursor
  <2>3. RuleInv'
    BY <1>15 DEF IndInv, TypeOK, SaveRefused, RuleInv, CoverInv, SettingsFresh, Idle,
       NoRecord, EmptyCursor, TryForget
  <2>4. GrowInv'
    BY <1>15 DEF IndInv, TypeOK, SaveRefused, GrowInv, FreshInv, RuleInv, CoverInv,
       Idle, NoRecord, EmptyCursor, TryForget
  <2> QED
    BY <2>1, <2>2, <2>3, <2>4
<1>16. CASE SaveFails
  <2>1. CoverInv'
    BY <1>16 DEF IndInv, TypeOK, SaveFails, CoverInv, FreshInv, NoSilentLoss, Covered,
       Idle, NoRecord, CleanFiles, Digest
  <2>2. FreshInv'
    BY <1>16 DEF IndInv, TypeOK, SaveFails, FreshInv, CoverInv, Idle, NoRecord,
       EmptyCursor, CleanFiles, Digest
  <2>3. RuleInv'
    BY <1>16 DEF IndInv, TypeOK, SaveFails, RuleInv, CoverInv, SettingsFresh, Idle,
       NoRecord, EmptyCursor
  <2>4. GrowInv'
    BY <1>16 DEF IndInv, TypeOK, SaveFails, GrowInv, FreshInv, RuleInv, CoverInv, Idle,
       NoRecord, EmptyCursor
  <2> QED
    BY <2>1, <2>2, <2>3, <2>4
<1>17. CASE RecordSaved
  <2>1. CoverInv'
    <3>1. pending'.d = run.d /\ pending'.state = run.state
      BY <1>17 DEF RecordSaved
    <3>2. \/ run' = Idle /\ run.kind = "unbound"
          \/ /\ run'.pc = "commit" /\ run'.state = run.state /\ run'.kind = run.kind
             /\ run.kind # "unbound"
      BY <1>17 DEF IndInv, TypeOK, RunState, RecordSaved
    <3>3. Covered(run.state, shown \cup {run.d})
          /\ (run.kind # "unbound" => shown \cup {run.d} = shown)
      BY <1>17 DEF IndInv, CoverInv, RecordSaved
    <3> QED
      BY <1>17, <3>1, <3>2, <3>3 DEF IndInv, CoverInv, NoSilentLoss, Covered,
         RecordSaved, Idle
  <2>2. FreshInv'
    BY <1>17 DEF IndInv, TypeOK, RecordSaved, FreshInv, CoverInv, Idle, NoRecord,
       EmptyCursor, Digest
  <2>3. RuleInv'
    BY <1>17 DEF IndInv, TypeOK, RecordSaved, RuleInv, CoverInv, SettingsFresh, Idle,
       NoRecord, EmptyCursor
  <2>4. GrowInv'
    <3>1. pending'.d = run.d /\ pending'.state = run.state
      BY <1>17 DEF RecordSaved
    <3>2. \/ run' = Idle /\ run.kind = "unbound"
          \/ /\ run'.pc = "commit" /\ run'.state = run.state /\ run'.kind = run.kind
             /\ run.kind # "unbound"
      BY <1>17 DEF IndInv, TypeOK, RunState, RecordSaved
    <3>3. pending' # NoRecord
      BY <1>17 DEF RecordSaved, NoRecord
    <3> QED
      BY <1>17, <3>1, <3>2, <3>3 DEF IndInv, GrowInv, RecordSaved, Idle
  <2> QED
    BY <2>1, <2>2, <2>3, <2>4
<1>18. CASE RecordFails
  <2>1. CoverInv'
    <3>1. run' = Idle /\ (pending' = pending \/ (pending'.d = run.d /\ pending'.state =
       run.state))
      BY <1>18 DEF RecordFails
    <3>2. Covered(run.state, shown \cup {run.d})
      BY <1>18 DEF IndInv, CoverInv, RecordFails
    <3> QED
      BY <1>18, <3>1, <3>2 DEF IndInv, CoverInv, NoSilentLoss, Covered, RecordFails,
         Idle
  <2>2. FreshInv'
    BY <1>18 DEF IndInv, TypeOK, RecordFails, FreshInv, CoverInv, Idle, NoRecord,
       EmptyCursor, Digest
  <2>3. RuleInv'
    BY <1>18 DEF IndInv, TypeOK, RecordFails, RuleInv, CoverInv, SettingsFresh, Idle,
       NoRecord, EmptyCursor
  <2>4. GrowInv'
    BY <1>18 DEF IndInv, TypeOK, RecordFails, GrowInv, FreshInv, RuleInv, CoverInv,
       Idle, NoRecord, EmptyCursor
  <2> QED
    BY <2>1, <2>2, <2>3, <2>4
<1>19. CASE CommitCursor
  <2>1. CoverInv'
    BY <1>19 DEF IndInv, TypeOK, CommitCursor, CoverInv, FreshInv, NoSilentLoss,
       Covered, Idle, NoRecord, Digest
  <2>2. FreshInv'
    BY <1>19 DEF IndInv, TypeOK, CommitCursor, FreshInv, CoverInv, Idle, NoRecord,
       EmptyCursor, Digest
  <2>3. RuleInv'
    BY <1>19 DEF IndInv, TypeOK, CommitCursor, RuleInv, CoverInv, SettingsFresh, Idle,
       NoRecord, EmptyCursor
  <2>4. GrowInv'
    BY <1>19 DEF IndInv, TypeOK, CommitCursor, GrowInv, FreshInv, RuleInv, CoverInv,
       Idle, NoRecord, EmptyCursor
  <2> QED
    BY <2>1, <2>2, <2>3, <2>4
<1>20. CASE CommitFails
  <2>1. CoverInv'
    BY <1>20 DEF IndInv, TypeOK, CommitFails, CoverInv, FreshInv, NoSilentLoss, Covered,
       Idle, NoRecord, Digest
  <2>2. FreshInv'
    BY <1>20 DEF IndInv, TypeOK, CommitFails, FreshInv, CoverInv, Idle, NoRecord,
       EmptyCursor, Digest
  <2>3. RuleInv'
    BY <1>20 DEF IndInv, TypeOK, CommitFails, RuleInv, CoverInv, SettingsFresh, Idle,
       NoRecord, EmptyCursor
  <2>4. GrowInv'
    BY <1>20 DEF IndInv, TypeOK, CommitFails, GrowInv, FreshInv, RuleInv, CoverInv,
       Idle, NoRecord, EmptyCursor
  <2> QED
    BY <2>1, <2>2, <2>3, <2>4
<1>21. CASE Forget
  <2>1. CoverInv'
    BY <1>21 DEF IndInv, TypeOK, Forget, CoverInv, FreshInv, NoSilentLoss, Covered,
       Idle, NoRecord, TryForget, Digest
  <2>2. FreshInv'
    BY <1>21 DEF IndInv, TypeOK, Forget, FreshInv, CoverInv, Idle, NoRecord,
       EmptyCursor, TryForget, Digest
  <2>3. RuleInv'
    BY <1>21 DEF IndInv, TypeOK, Forget, RuleInv, CoverInv, SettingsFresh, Idle,
       NoRecord, EmptyCursor, TryForget
  <2>4. GrowInv'
    BY <1>21 DEF IndInv, TypeOK, Forget, GrowInv, FreshInv, RuleInv, CoverInv, Idle,
       NoRecord, EmptyCursor, TryForget
  <2> QED
    BY <2>1, <2>2, <2>3, <2>4
<1>22. ASSUME NEW m \in Msg, MessageArrives(m)
       PROVE  CoverInv' /\ FreshInv' /\ RuleInv' /\ GrowInv'
  <2>1. CoverInv'
    BY <1>22 DEF IndInv, TypeOK, MessageArrives, CoverInv, FreshInv, NoSilentLoss,
       Covered, NoRecord, Digest
  <2>2. FreshInv'
    BY <1>22 DEF IndInv, TypeOK, MessageArrives, FreshInv, CoverInv, NoRecord,
       EmptyCursor, Digest
  <2>3. RuleInv'
    BY <1>22 DEF IndInv, TypeOK, MessageArrives, RuleInv, CoverInv, SettingsFresh,
       NoRecord, EmptyCursor
  <2>4. GrowInv'
    BY <1>22 DEF IndInv, TypeOK, MessageArrives, GrowInv, FreshInv, RuleInv, CoverInv,
       NoRecord, EmptyCursor
  <2> QED
    BY <2>1, <2>2, <2>3, <2>4
<1>23. ASSUME NEW r \in Rule, SaveSettings(r)
       PROVE  CoverInv' /\ FreshInv' /\ RuleInv' /\ GrowInv'
  <2>1. CoverInv'
    BY <1>23 DEF IndInv, TypeOK, SaveSettings, CoverInv, FreshInv, NoSilentLoss,
       Covered, NoRecord, Digest
  <2>2. FreshInv'
    BY <1>23 DEF IndInv, TypeOK, SaveSettings, FreshInv, CoverInv, NoRecord,
       EmptyCursor, Digest
  <2>3. RuleInv'
    <3> QED
      BY <1>23 DEF IndInv, TypeOK, RunState, SaveSettings, RuleInv, SettingsFresh
  <2>4. GrowInv'
    BY <1>23 DEF IndInv, TypeOK, SaveSettings, GrowInv, FreshInv, RuleInv, CoverInv,
       NoRecord, EmptyCursor
  <2> QED
    BY <2>1, <2>2, <2>3, <2>4
<1>24. ASSUME NEW d \in Digest, HistoryRecovery(d)
       PROVE  CoverInv' /\ FreshInv' /\ RuleInv' /\ GrowInv'
  <2>1. CoverInv'
    BY <1>24 DEF IndInv, TypeOK, HistoryRecovery, CoverInv, FreshInv, NoSilentLoss,
       Covered, NoRecord, Digest
  <2>2. FreshInv'
    BY <1>24 DEF IndInv, TypeOK, HistoryRecovery, FreshInv, CoverInv, NoRecord,
       EmptyCursor, Digest
  <2>3. RuleInv'
    BY <1>24 DEF IndInv, TypeOK, HistoryRecovery, RuleInv, CoverInv, SettingsFresh,
       NoRecord, EmptyCursor
  <2>4. GrowInv'
    BY <1>24 DEF IndInv, TypeOK, HistoryRecovery, GrowInv, FreshInv, RuleInv, CoverInv,
       NoRecord, EmptyCursor
  <2> QED
    BY <2>1, <2>2, <2>3, <2>4
<1>25. ASSUME NEW d \in Digest, UserDelete(d)
       PROVE  CoverInv' /\ FreshInv' /\ RuleInv' /\ GrowInv'
  <2>1. CoverInv'
    BY <1>25 DEF IndInv, TypeOK, UserDelete, CoverInv, FreshInv, NoSilentLoss, Covered,
       NoRecord, Digest
  <2>2. FreshInv'
    BY <1>25 DEF IndInv, TypeOK, UserDelete, FreshInv, CoverInv, NoRecord, EmptyCursor,
       Digest
  <2>3. RuleInv'
    BY <1>25 DEF IndInv, TypeOK, UserDelete, RuleInv, CoverInv, SettingsFresh, NoRecord,
       EmptyCursor
  <2>4. GrowInv'
    BY <1>25 DEF IndInv, TypeOK, UserDelete, GrowInv, FreshInv, RuleInv, CoverInv,
       NoRecord, EmptyCursor
  <2> QED
    BY <2>1, <2>2, <2>3, <2>4
<1>26. CASE RecoverFails \/ CollectUnsafeEmpty \/ CollectBelowMinimum \/ StaleBeforeSave
   \/ SummarizeFails \/ SaveCleanupFails \/ CommitRefused \/ RunLost
  BY <1>26, RunEnds DEF RecoverFails, CollectUnsafeEmpty, CollectBelowMinimum,
     StaleBeforeSave, SummarizeFails, SaveCleanupFails, CommitRefused, RunLost
<1>27. CASE UNCHANGED vars
  BY <1>27 DEF IndInv, TypeOK, CoverInv, FreshInv, RuleInv, GrowInv, vars, NoSilentLoss,
     Covered, SettingsFresh
<1> QED
  BY <1>1, <1>2, <1>3, <1>4, <1>5, <1>6, <1>7, <1>8, <1>9, <1>10, <1>11, <1>12, <1>13,
     <1>14, <1>15, <1>16, <1>17, <1>18, <1>19, <1>20, <1>21, <1>22, <1>23, <1>24, <1>25,
     <1>26, <1>27 DEF Next, RunStep, FaultStep

\* Type correctness and the protocol's invariant hold in every reachable state.
THEOREM Invariance == Spec => []IndInv
BY InitInv, StepInv, PTL DEF Spec

\* No message is skipped: whatever failed, crashed or was replayed, the cursor
\* covers a matching message only when a digest that was shown covers it.
THEOREM NoMessageIsLost == Spec => []NoSilentLoss
<1>1. IndInv => NoSilentLoss
  BY DEF IndInv, CoverInv
<1> QED
  BY <1>1, Invariance, PTL

\* The two actions that move the cursor move it to what the run carries.
LEMMA CursorMoves ==
  ASSUME IndInv, [Next]_vars, cursor' # cursor
  PROVE  run.pc = "commit" /\ SettingsFresh /\ cursor' = run.state
BY DEF Next, RunStep, FaultStep, vars, env, At, BeginRun, RecoverNothing, RecoverGone,
       RecoverFound, RecoverFails, RecoverOtherRule, RecoverCommitted, RecoverCommit,
       CollectNothingNew, CollectUnsafeEmpty, CollectBelowMinimum, Summarize,
       StaleBeforeSave, SummarizeFails, Prepare, SaveIntent, SavePair, SaveIndex,
       SaveIndexUnknown, SaveRefused, SaveFails, SaveCleanupFails, RecordSaved,
       RecordFails, CommitCursor, CommitRefused, CommitFails, Forget, RunLost,
       MessageArrives, SaveSettings, HistoryRecovery, UserDelete

\* The cursor is only ever moved under the rule that is saved at that moment.
THEOREM CursorFollowsRule == Spec => CursorMovesUnderCurrentRule
<1>1. IndInv /\ [Next]_vars => [cursor' # cursor => cursor'.rule = rule]_vars
  <2> SUFFICES ASSUME IndInv, [Next]_vars, cursor' # cursor
               PROVE  cursor'.rule = rule
    OBVIOUS
  <2> QED
    BY CursorMoves DEF IndInv, RuleInv
<1> QED
  BY <1>1, Invariance, PTL DEF Spec, CursorMovesUnderCurrentRule

\* Within a rule no replay of a record takes the cursor back.
THEOREM CursorOnlyGrows == Spec => CursorNeverRegresses
<1>1. IndInv /\ [Next]_vars
        => [cursor'.rule = cursor.rule => cursor.seen \subseteq cursor'.seen]_vars
  <2> SUFFICES ASSUME IndInv, [Next]_vars, cursor' # cursor,
                      cursor'.rule = cursor.rule
               PROVE  cursor.seen \subseteq cursor'.seen
    OBVIOUS
  <2> QED
    BY CursorMoves DEF IndInv, GrowInv
<1> QED
  BY <1>1, Invariance, PTL DEF Spec, CursorNeverRegresses
-----------------------------------------------------------------------------
(* One message in one digest of an epoch *)

\* The files of d are there or may still come: what is only begun can be rolled
\* forward at any time.
Begun(d) == art[d] \in {"intent", "pair", "indexed"} \/ (run.pc \in Saving /\ run.d = d)

\* Epochs only grow, and the current one has the saved rule.
EpochInv ==
  /\ \A d \in Digest :
       /\ stamp[d].epoch <= epoch
       /\ d < next /\ stamp[d].epoch = epoch => stamp[d].rule = rule
  /\ run.pc # "idle" =>
       /\ run.epoch <= epoch
       /\ run.epoch = epoch => run.rule = rule
       /\ SettingsFresh => run.epoch = epoch

\* A record covers its digest, and so does what a run is about to commit; the
\* record of a save in progress is its own.
RecordInv ==
  /\ pending # NoRecord =>
       /\ content[pending.d] \subseteq pending.state.seen
       /\ stamp[pending.d].rule = pending.state.rule
       /\ run.pc # "idle" => stamp[pending.d].epoch <= run.epoch
  /\ run.pc \in Saving =>
       /\ content[run.d] \subseteq run.state.seen
       /\ stamp[run.d] = [rule |-> run.rule, epoch |-> run.epoch]
       /\ run.pc # "prepare" => pending.d = run.d /\ pending.state = run.state
  /\ run.pc \in {"prepare", "intent"} => art[run.d] = "none"
  /\ run.pc = "forget" => pending.state = cursor

\* A record that is still there when messages are read has nothing to say: its
\* digest cannot come back or was given up, its rule is not the one of the run,
\* or the cursor is where it would put it.
PassedInv ==
  run.pc \in {"collect", "prepare"} /\ pending # NoRecord =>
    \/ pending.d \in dropped \/ art[pending.d] \in {"none", "removed"}
    \/ pending.state.rule # run.rule \/ pending.state = cursor

\* What a digest of the current epoch covers is behind the cursor, or in the
\* record, or being saved.
SettledInv ==
  \A d \in Digest : Begun(d) /\ d \notin dropped /\ stamp[d].epoch = epoch =>
    \/ cursor.rule = rule /\ content[d] \subseteq cursor.seen
    \/ pending.d = d
    \/ run.pc \in Saving /\ run.d = d

\* So no message is in two digests of one epoch that are there or may come.
ApartInv ==
  \A d, e \in Digest :
    d # e /\ Begun(d) /\ Begun(e) /\ stamp[d] = stamp[e] /\ d \notin dropped /\ e \notin dropped
      => content[d] \cap content[e] = {}

OnceInv == EpochInv /\ RecordInv /\ PassedInv /\ SettledInv /\ ApartInv
\* A run begins with the settings of the moment, and the epoch they belong to.
LEMMA BeginRunOnce == ASSUME IndInv, OnceInv, BeginRun PROVE OnceInv'
<1>1. EpochInv'
  BY NoneAssumption, BoundsAssumption DEF OnceInv, BeginRun, EpochInv, RunState, Digest,
     At, Idle, NoRecord, Saving, SettingsFresh, env, files, digests, TypeOK, IndInv,
     RuleInv, FreshInv
<1>2. RecordInv'
  BY DEF OnceInv, BeginRun, RecordInv, EpochInv, Saving, digests, IndInv, FreshInv
<1>3. PassedInv'
  BY DEF BeginRun, PassedInv
<1>4. SettledInv'
  BY DEF OnceInv, BeginRun, SettledInv, RecordInv, Begun, env, files, digests
<1>5. ApartInv'
  BY DEF OnceInv, BeginRun, ApartInv, Begun, Saving, files, digests
<1> QED
  BY <1>1, <1>2, <1>3, <1>4, <1>5 DEF OnceInv

\* Without a record nothing has to be passed.
LEMMA RecoverNothingOnce == ASSUME IndInv, OnceInv, RecoverNothing PROVE OnceInv'
<1>1. EpochInv'
  BY DEF OnceInv, RecoverNothing, EpochInv, At, Goto, SettingsFresh, env, digests
<1>2. RecordInv'
  BY DEF RecoverNothing, RecordInv, Goto, Saving
<1>3. PassedInv'
  BY DEF RecoverNothing, PassedInv
<1>4. SettledInv'
  BY DEF OnceInv, RecoverNothing, SettledInv, RecordInv, Begun, env, files, digests
<1>5. ApartInv'
  BY DEF OnceInv, RecoverNothing, ApartInv, Begun, Goto, Saving, files, digests
<1> QED
  BY <1>1, <1>2, <1>3, <1>4, <1>5 DEF OnceInv

\* A record whose digest is gone: it is given up, or cannot come back.
LEMMA RecoverGoneOnce == ASSUME IndInv, OnceInv, RecoverGone PROVE OnceInv'
<1>1. EpochInv'
  BY DEF OnceInv, RecoverGone, EpochInv, At, Goto, SettingsFresh, env, digests
<1>2. RecordInv'
  BY DEF OnceInv, RecoverGone, TryForget, RecordInv, At, Goto, Saving, digests
<1>3. PassedInv'
  <2>1. pending # NoRecord => art[pending.d] \in {"none", "intent", "removed"}
    BY DEF IndInv, TypeOK, FreshInv, RecoverGone, Artifact
  <2>2. pending # NoRecord => pending.d \in dropped' \/ art[pending.d] \in {"none", "removed"}
    BY <2>1 DEF IndInv, FreshInv, RecoverGone, GivenUp, Digest
  <2>3. pending' \in {pending, NoRecord} /\ art' = art
    BY DEF RecoverGone, TryForget, files
  <2> QED
    BY <2>2, <2>3 DEF PassedInv
<1>4. SettledInv'
  BY DEF OnceInv, RecoverGone, TryForget, GivenUp, SettledInv, RecordInv, Begun, NoRecord,
     env, files, digests
<1>5. ApartInv'
  BY DEF OnceInv, RecoverGone, ApartInv, Begun, Goto, Saving, files, digests
<1> QED
  BY <1>1, <1>2, <1>3, <1>4, <1>5 DEF OnceInv

\* The digest of the record is (put) in the index.
LEMMA RecoverFoundOnce == ASSUME IndInv, OnceInv, RecoverFound PROVE OnceInv'
<1>1. EpochInv'
  BY DEF OnceInv, RecoverFound, EpochInv, At, Goto, SettingsFresh, env, digests
<1>2. RecordInv'
  BY DEF OnceInv, RecoverFound, RecordInv, At, Goto, Saving, digests
<1>3. PassedInv'
  BY DEF RecoverFound, PassedInv, Goto
<1>4. SettledInv'
  BY DEF OnceInv, RecoverFound, SettledInv, RecordInv, Begun, env, digests
<1>5. ApartInv'
  BY DEF OnceInv, RecoverFound, ApartInv, Begun, Goto, Saving, digests
<1> QED
  BY <1>1, <1>2, <1>3, <1>4, <1>5 DEF OnceInv

\* A record of another rule is of an earlier epoch.
LEMMA RecoverOtherRuleOnce == ASSUME IndInv, OnceInv, RecoverOtherRule PROVE OnceInv'
<1>1. EpochInv'
  BY DEF OnceInv, RecoverOtherRule, EpochInv, At, Goto, SettingsFresh, env, digests
<1>2. RecordInv'
  BY DEF OnceInv, RecoverOtherRule, TryForget, RecordInv, At, Goto, Saving, digests
<1>3. PassedInv'
  BY DEF RecoverOtherRule, TryForget, PassedInv, Goto
<1>4. SettledInv'
  <2>1. stamp[pending.d].epoch # epoch
    <3>1. pending # NoRecord /\ pending.d \in Digest /\ pending.d < next
      BY DEF RecoverOtherRule, IndInv, CoverInv, FreshInv, At
    <3>2. stamp[pending.d].rule # run.rule /\ stamp[pending.d].epoch <= run.epoch
      BY <3>1 DEF RecoverOtherRule, OnceInv, RecordInv, At
    <3>3. run.epoch <= epoch /\ (run.epoch = epoch => run.rule = rule)
      BY DEF RecoverOtherRule, OnceInv, EpochInv, At
    <3> SUFFICES ASSUME stamp[pending.d].epoch = epoch PROVE FALSE
      OBVIOUS
    <3>4. run.epoch = epoch
      BY <3>2, <3>3 DEF IndInv, TypeOK, RunState
    <3> QED
      BY <3>1, <3>2, <3>3, <3>4 DEF OnceInv, EpochInv
  <2>2. ASSUME NEW d \in Digest, Begun(d)' PROVE Begun(d) /\ ~(run.pc \in Saving /\ run.d = d)
    BY <2>2 DEF RecoverOtherRule, Begun, At, Goto, Saving, files
  <2> QED
    BY <2>1, <2>2 DEF RecoverOtherRule, OnceInv, SettledInv, env, digests
<1>5. ApartInv'
  BY DEF OnceInv, RecoverOtherRule, ApartInv, Begun, Goto, Saving, files, digests
<1> QED
  BY <1>1, <1>2, <1>3, <1>4, <1>5 DEF OnceInv

\* A record the cursor is already past has nothing to add.
LEMMA RecoverCommittedOnce == ASSUME IndInv, OnceInv, RecoverCommitted PROVE OnceInv'
<1>1. EpochInv'
  BY DEF OnceInv, RecoverCommitted, EpochInv, At, Goto, SettingsFresh, env, digests
<1>2. RecordInv'
  BY DEF OnceInv, RecoverCommitted, TryForget, RecordInv, At, Goto, Saving, digests
<1>3. PassedInv'
  BY DEF RecoverCommitted, TryForget, PassedInv
<1>4. SettledInv'
  BY DEF OnceInv, RecoverCommitted, TryForget, SettledInv, EpochInv, RecordInv, Begun,
     env, files, digests, IndInv, FreshInv
<1>5. ApartInv'
  BY DEF OnceInv, RecoverCommitted, ApartInv, Begun, Goto, Saving, files, digests
<1> QED
  BY <1>1, <1>2, <1>3, <1>4, <1>5 DEF OnceInv

\* The run takes over what the record has to commit.
LEMMA RecoverCommitOnce == ASSUME IndInv, OnceInv, RecoverCommit PROVE OnceInv'
<1>1. EpochInv'
  BY DEF OnceInv, RecoverCommit, EpochInv, At, SettingsFresh, env, digests
<1>2. RecordInv'
  BY DEF OnceInv, RecoverCommit, RecordInv, At, Saving, digests
<1>3. PassedInv'
  BY DEF RecoverCommit, PassedInv
<1>4. SettledInv'
  BY DEF OnceInv, RecoverCommit, SettledInv, RecordInv, Begun, env, files, digests
<1>5. ApartInv'
  BY DEF OnceInv, RecoverCommit, ApartInv, Begun, Saving, files, digests
<1> QED
  BY <1>1, <1>2, <1>3, <1>4, <1>5 DEF OnceInv

\* A window without a digest only moves the cursor.
LEMMA CollectNothingNewOnce == ASSUME IndInv, OnceInv, CollectNothingNew PROVE OnceInv'
<1>1. EpochInv'
  BY DEF OnceInv, CollectNothingNew, EpochInv, At, SettingsFresh, env, digests
<1>2. RecordInv'
  BY DEF OnceInv, CollectNothingNew, RecordInv, At, Saving, digests
<1>3. PassedInv'
  BY DEF CollectNothingNew, PassedInv
<1>4. SettledInv'
  BY DEF OnceInv, CollectNothingNew, SettledInv, RecordInv, Begun, env, files, digests
<1>5. ApartInv'
  BY DEF OnceInv, CollectNothingNew, ApartInv, Begun, Saving, files, digests
<1> QED
  BY <1>1, <1>2, <1>3, <1>4, <1>5 DEF OnceInv

\* A new digest covers messages no cursor and no record is past.
LEMMA SummarizeOnce == ASSUME IndInv, OnceInv, Summarize PROVE OnceInv'
<1>1. EpochInv'
  BY DEF OnceInv, Summarize, EpochInv, Digest, At, env, TypeOK, IndInv
<1>2. RecordInv'
  BY DEF OnceInv, Summarize, Window, ToDigest, NewMessages, RecordInv, At, files, TypeOK,
     IndInv, FreshInv
<1>3. PassedInv'
  BY DEF OnceInv, Summarize, PassedInv, At, files
<1>4. SettledInv'
  BY DEF OnceInv, Summarize, SettledInv, RecordInv, Begun, Saving, env, files
<1>5. ApartInv'
  <2>1. next \in Digest /\ run.epoch = epoch /\ run.rule = rule /\ run.pc = "collect"
    BY DEF Summarize, OnceInv, EpochInv, At
  <2>2. stamp' = [stamp EXCEPT ![next] = [rule |-> run.rule, epoch |-> run.epoch]]
        /\ content' = [content EXCEPT ![next] = ToDigest]
    BY DEF Summarize
  <2>3. ASSUME NEW d \in Digest, d # next
        PROVE  stamp'[d] = stamp[d] /\ content'[d] = content[d] /\ (Begun(d)' => Begun(d))
    BY <2>3 DEF Summarize, Begun, files
  <2>4. stamp'[next] = [rule |-> rule, epoch |-> epoch] /\ content'[next] = ToDigest
    BY <2>1, <2>2 DEF IndInv, TypeOK
  <2>5. ASSUME NEW d \in Digest, d # next, Begun(d), d \notin dropped, stamp[d] = stamp'[next]
        PROVE  content[d] \cap ToDigest = {}
    <3>1. stamp[d].epoch = epoch
      BY <2>4, <2>5
    <3>2. cursor.rule = rule /\ content[d] \subseteq cursor.seen
      <4>1. CASE pending.d # d
        BY <2>1, <2>5, <3>1, <4>1 DEF OnceInv, SettledInv, Saving
      <4>2. CASE pending.d = d
        <5>1. pending # NoRecord /\ art[d] \notin {"none", "removed"}
          BY <2>1, <2>5, <4>2 DEF NoRecord, Digest, Begun, Saving
        <5>2. pending.state.rule = rule /\ content[d] \subseteq pending.state.seen
          BY <2>4, <2>5, <4>2, <5>1 DEF OnceInv, RecordInv
        <5>3. pending.state = cursor
          BY <2>1, <2>5, <4>2, <5>1, <5>2 DEF OnceInv, PassedInv
        <5> QED
          BY <5>2, <5>3
      <4> QED
        BY <4>1, <4>2
    <3>3. ActiveSeen = cursor.seen
      BY <2>1, <3>2 DEF ActiveSeen, RuleChanged
    <3> QED
      BY <3>2, <3>3 DEF ToDigest, NewMessages
  <2>6. ASSUME NEW d \in Digest, NEW e \in Digest, d # e, Begun(d)', Begun(e)', stamp'[d] = stamp'[e],
               d \notin dropped, e \notin dropped
        PROVE  content'[d] \cap content'[e] = {}
    <3>1. CASE d = next
      BY <2>3, <2>4, <2>5, <2>6, <3>1
    <3>2. CASE e = next
      BY <2>3, <2>4, <2>5, <2>6, <3>2
    <3>3. CASE d # next /\ e # next
      BY <2>3, <2>6, <3>3 DEF OnceInv, ApartInv
    <3> QED
      BY <3>1, <3>2, <3>3
  <2> QED
    BY <2>6 DEF ApartInv, Summarize
<1> QED
  BY <1>1, <1>2, <1>3, <1>4, <1>5 DEF OnceInv

\* The record of the new digest replaces one that has nothing to add.
LEMMA PrepareOnce == ASSUME IndInv, OnceInv, Prepare PROVE OnceInv'
<1>1. EpochInv'
  BY DEF OnceInv, Prepare, EpochInv, At, Goto, env, digests
<1>2. RecordInv'
  BY DEF OnceInv, Prepare, Record, RecordInv, EpochInv, At, Goto, Saving, files, digests,
     IndInv, RuleInv
<1>3. PassedInv'
  BY DEF Prepare, PassedInv, Goto
<1>4. SettledInv'
  <2>1. run.pc = "prepare" /\ run.epoch = epoch /\ run.rule = rule
    BY DEF Prepare, OnceInv, EpochInv, At
  <2>2. pending'.d = run.d /\ run'.d = run.d /\ art' = art /\ dropped \subseteq dropped'
    BY DEF Prepare, Record, Goto, files
  <2>3. ASSUME NEW d \in Digest, d # run.d, Begun(d)', d \notin dropped, stamp[d].epoch = epoch
        PROVE  cursor.rule = rule /\ content[d] \subseteq cursor.seen
    <3>1. art[d] \in {"intent", "pair", "indexed"}
      BY <2>2, <2>3 DEF Begun
    <3>2. CASE pending.d # d
      BY <2>3, <3>1, <3>2 DEF OnceInv, SettledInv, Begun
    <3>3. CASE pending.d = d
      <4>1. pending # NoRecord /\ d < next
        BY <3>3 DEF NoRecord, Digest, IndInv, FreshInv
      <4>2. pending.state.rule = rule /\ content[d] \subseteq pending.state.seen
        BY <2>3, <3>3, <4>1 DEF OnceInv, RecordInv, EpochInv
      <4>3. pending.state = cursor
        BY <2>1, <2>3, <3>1, <3>3, <4>1, <4>2 DEF OnceInv, PassedInv
      <4> QED
        BY <4>2, <4>3
    <3> QED
      BY <3>2, <3>3
  <2> QED
    BY <2>2, <2>3 DEF SettledInv, Prepare, env, digests
<1>5. ApartInv'
  BY DEF OnceInv, Prepare, ApartInv, Begun, At, Goto, Saving, files, digests
<1> QED
  BY <1>1, <1>2, <1>3, <1>4, <1>5 DEF OnceInv

\* From the marker on the digest may come back.
LEMMA SaveIntentOnce == ASSUME IndInv, OnceInv, SaveIntent PROVE OnceInv'
<1>1. EpochInv'
  BY DEF OnceInv, SaveIntent, EpochInv, At, Goto, env, digests
<1>2. RecordInv'
  BY DEF OnceInv, SaveIntent, RecordInv, At, Goto, Saving, digests
<1>3. PassedInv'
  BY DEF SaveIntent, PassedInv, Goto
<1>4. SettledInv'
  BY DEF OnceInv, SaveIntent, SettledInv, RecordInv, Begun, At, Saving, env, digests
<1>5. ApartInv'
  BY DEF OnceInv, SaveIntent, ApartInv, Begun, At, Goto, Saving, digests
<1> QED
  BY <1>1, <1>2, <1>3, <1>4, <1>5 DEF OnceInv

\* The pair is published.
LEMMA SavePairOnce == ASSUME IndInv, OnceInv, SavePair PROVE OnceInv'
<1>1. EpochInv'
  BY DEF OnceInv, SavePair, EpochInv, At, Goto, SettingsFresh, env, digests
<1>2. RecordInv'
  BY DEF OnceInv, SavePair, RecordInv, At, Goto, Saving, digests
<1>3. PassedInv'
  BY DEF SavePair, PassedInv, Goto
<1>4. SettledInv'
  BY DEF OnceInv, SavePair, SettledInv, RecordInv, Begun, At, Saving, env, digests
<1>5. ApartInv'
  BY DEF OnceInv, SavePair, ApartInv, Begun, At, Goto, Saving, digests
<1> QED
  BY <1>1, <1>2, <1>3, <1>4, <1>5 DEF OnceInv

\* The index is written, or certainly is not.
LEMMA SaveIndexOnce == ASSUME IndInv, OnceInv, SaveIndex PROVE OnceInv'
<1>1. EpochInv'
  BY NoneAssumption, BoundsAssumption DEF OnceInv, SaveIndex, EpochInv, RunState, Digest,
     At, Fault, NoRecord, Saving, SettingsFresh, env, files, digests, TypeOK, IndInv,
     RuleInv, FreshInv
<1>2. RecordInv'
  <2>1. run.pc = "index" /\ run.d \in Digest /\ run'.d = run.d /\ run'.state = run.state
        /\ run'.rule = run.rule /\ run'.epoch = run.epoch /\ run'.pc = "record"
    BY DEF SaveIndex, At, IndInv, FreshInv, Saving, TypeOK, RunState
  <2>2. ASSUME NEW d \in Digest, d # run.d PROVE art'[d] = art[d]
    BY <2>2 DEF SaveIndex, files, IndInv, TypeOK
  <2> QED
    BY <2>1 DEF OnceInv, RecordInv, SaveIndex, Saving, digests
<1>3. PassedInv'
  <2>1. run.pc = "index" /\ run.d \in Digest /\ run'.d = run.d /\ run'.state = run.state
        /\ run'.rule = run.rule /\ run'.epoch = run.epoch /\ run'.pc = "record"
    BY DEF SaveIndex, At, IndInv, FreshInv, Saving, TypeOK, RunState
  <2>2. ASSUME NEW d \in Digest, d # run.d PROVE art'[d] = art[d]
    BY <2>2 DEF SaveIndex, files, IndInv, TypeOK
  <2> QED
    BY <2>1 DEF PassedInv
<1>4. SettledInv'
  BY DEF OnceInv, SaveIndex, SettledInv, RecordInv, Begun, At, Saving, env, files,
     digests, TypeOK, IndInv
<1>5. ApartInv'
  <2>1. run.pc = "index" /\ run.d \in Digest /\ run'.d = run.d /\ run'.state = run.state
        /\ run'.rule = run.rule /\ run'.epoch = run.epoch /\ run'.pc = "record"
    BY DEF SaveIndex, At, IndInv, FreshInv, Saving, TypeOK, RunState
  <2>2. ASSUME NEW d \in Digest, d # run.d PROVE art'[d] = art[d]
    BY <2>2 DEF SaveIndex, files, IndInv, TypeOK
  <2> QED
    BY <2>1, <2>2 DEF OnceInv, ApartInv, Begun, SaveIndex, Saving, digests
<1> QED
  BY <1>1, <1>2, <1>3, <1>4, <1>5 DEF OnceInv

\* The index may have been written: the record stays.
LEMMA SaveIndexUnknownOnce == ASSUME IndInv, OnceInv, SaveIndexUnknown PROVE OnceInv'
<1>1. EpochInv'
  BY DEF OnceInv, SaveIndexUnknown, EpochInv, Idle, env, digests
<1>2. RecordInv'
  BY DEF OnceInv, SaveIndexUnknown, RecordInv, Idle, Saving, digests
<1>3. PassedInv'
  BY DEF SaveIndexUnknown, PassedInv, Idle
<1>4. SettledInv'
  BY DEF OnceInv, SaveIndexUnknown, SettledInv, RecordInv, Begun, At, Saving, env, files,
     digests, TypeOK, IndInv
<1>5. ApartInv'
  BY DEF OnceInv, SaveIndexUnknown, ApartInv, Begun, At, Idle, Saving, files, digests,
     TypeOK, IndInv
<1> QED
  BY <1>1, <1>2, <1>3, <1>4, <1>5 DEF OnceInv

\* A save refused by changed settings belongs to an earlier epoch.
LEMMA SaveRefusedOnce == ASSUME IndInv, OnceInv, SaveRefused PROVE OnceInv'
<1>1. EpochInv'
  BY DEF OnceInv, SaveRefused, EpochInv, Idle, env, digests
<1>2. RecordInv'
  BY DEF OnceInv, SaveRefused, TryForget, RecordInv, Idle, Saving, digests
<1>3. PassedInv'
  BY DEF SaveRefused, PassedInv, Idle
<1>4. SettledInv'
  BY DEF OnceInv, SaveRefused, CleanFiles, SettledInv, RecordInv, Begun, At, Saving, env,
     digests, TypeOK, IndInv
<1>5. ApartInv'
  BY DEF OnceInv, SaveRefused, CleanFiles, ApartInv, Begun, Idle, Saving, digests
<1> QED
  BY <1>1, <1>2, <1>3, <1>4, <1>5 DEF OnceInv

\* A save that certainly failed leaves no file that can come back.
LEMMA SaveFailsOnce == ASSUME IndInv, OnceInv, SaveFails PROVE OnceInv'
<1>1. EpochInv'
  BY DEF OnceInv, SaveFails, EpochInv, Idle, env, digests
<1>2. RecordInv'
  BY DEF SaveFails, RecordInv, Idle, Saving
<1>3. PassedInv'
  BY DEF SaveFails, PassedInv
<1>4. SettledInv'
  BY DEF OnceInv, SaveFails, CleanFiles, SettledInv, RecordInv, Begun, At, Saving, env,
     digests, TypeOK, IndInv
<1>5. ApartInv'
  BY DEF OnceInv, SaveFails, CleanFiles, ApartInv, Begun, Idle, Saving, digests
<1> QED
  BY <1>1, <1>2, <1>3, <1>4, <1>5 DEF OnceInv

\* The record learns the file.
LEMMA RecordSavedOnce == ASSUME IndInv, OnceInv, RecordSaved PROVE OnceInv'
<1>1. EpochInv'
  BY DEF OnceInv, RecordSaved, EpochInv, At, Idle, SettingsFresh, env, digests
<1>2. RecordInv'
  BY DEF OnceInv, RecordSaved, Record, RecordInv, At, Idle, Saving, digests, TypeOK,
     IndInv, RuleInv, FreshInv
<1>3. PassedInv'
  BY DEF RecordSaved, PassedInv, Idle
<1>4. SettledInv'
  BY DEF OnceInv, RecordSaved, Record, SettledInv, RecordInv, Begun, At, Saving, env,
     files, digests
<1>5. ApartInv'
  BY DEF OnceInv, RecordSaved, ApartInv, Begun, Idle, Saving, files, digests
<1> QED
  BY <1>1, <1>2, <1>3, <1>4, <1>5 DEF OnceInv

\* The record could not be rewritten: it is what it was.
LEMMA RecordFailsOnce == ASSUME IndInv, OnceInv, RecordFails PROVE OnceInv'
<1>1. EpochInv'
  BY DEF OnceInv, RecordFails, EpochInv, Idle, env, digests
<1>2. RecordInv'
  BY DEF OnceInv, RecordFails, Record, RecordInv, At, Idle, Saving, digests, IndInv,
     RuleInv
<1>3. PassedInv'
  BY DEF RecordFails, PassedInv, Idle
<1>4. SettledInv'
  BY DEF OnceInv, RecordFails, Record, SettledInv, RecordInv, Begun, At, Saving, env,
     files, digests
<1>5. ApartInv'
  BY DEF OnceInv, RecordFails, ApartInv, Begun, Idle, Saving, files, digests
<1> QED
  BY <1>1, <1>2, <1>3, <1>4, <1>5 DEF OnceInv

\* The cursor takes over what the digest covers.
LEMMA CommitCursorOnce == ASSUME IndInv, OnceInv, CommitCursor PROVE OnceInv'
<1>1. EpochInv'
  BY DEF OnceInv, CommitCursor, EpochInv, At, Idle, env, digests
<1>2. RecordInv'
  BY DEF OnceInv, CommitCursor, RecordInv, GrowInv, At, Idle, Saving, digests, IndInv
<1>3. PassedInv'
  BY DEF CommitCursor, PassedInv, Idle
<1>4. SettledInv'
  BY DEF OnceInv, CommitCursor, SettledInv, RecordInv, GrowInv, Begun, At, env, files,
     digests, IndInv, RuleInv
<1>5. ApartInv'
  BY DEF OnceInv, CommitCursor, ApartInv, Begun, Idle, Saving, files, digests
<1> QED
  BY <1>1, <1>2, <1>3, <1>4, <1>5 DEF OnceInv

\* The cursor may have moved all the same: the record stays.
LEMMA CommitFailsOnce == ASSUME IndInv, OnceInv, CommitFails PROVE OnceInv'
<1>1. EpochInv'
  BY DEF OnceInv, CommitFails, EpochInv, Idle, env, digests
<1>2. RecordInv'
  BY DEF OnceInv, CommitFails, RecordInv, Idle, Saving, digests
<1>3. PassedInv'
  BY DEF CommitFails, PassedInv, Idle
<1>4. SettledInv'
  BY DEF OnceInv, CommitFails, SettledInv, RecordInv, GrowInv, Begun, At, env, files,
     digests, IndInv, RuleInv
<1>5. ApartInv'
  BY DEF OnceInv, CommitFails, ApartInv, Begun, Idle, Saving, files, digests
<1> QED
  BY <1>1, <1>2, <1>3, <1>4, <1>5 DEF OnceInv

\* The record is removed when the cursor is where it would put it.
LEMMA ForgetOnce == ASSUME IndInv, OnceInv, Forget PROVE OnceInv'
<1>1. EpochInv'
  BY DEF OnceInv, Forget, EpochInv, Idle, env, digests
<1>2. RecordInv'
  BY DEF OnceInv, Forget, TryForget, RecordInv, Idle, Saving, digests
<1>3. PassedInv'
  BY DEF OnceInv, Forget, TryForget, PassedInv, RecordInv, At
<1>4. SettledInv'
  BY DEF OnceInv, Forget, TryForget, SettledInv, EpochInv, RecordInv, Begun, At, env,
     files, digests, IndInv, FreshInv
<1>5. ApartInv'
  BY DEF OnceInv, Forget, ApartInv, Begun, Idle, Saving, files, digests
<1> QED
  BY <1>1, <1>2, <1>3, <1>4, <1>5 DEF OnceInv

\* A new message is in no digest.
LEMMA MessageArrivesOnce ==
  ASSUME IndInv, OnceInv, NEW m \in Msg, MessageArrives(m)
  PROVE  OnceInv'
<1>1. EpochInv'
  BY DEF OnceInv, MessageArrives, EpochInv, SettingsFresh, digests
<1>2. RecordInv'
  BY DEF OnceInv, MessageArrives, RecordInv, files, digests
<1>3. PassedInv'
  BY DEF OnceInv, MessageArrives, PassedInv, files
<1>4. SettledInv'
  BY DEF OnceInv, MessageArrives, SettledInv, Begun, files, digests
<1>5. ApartInv'
  BY DEF OnceInv, MessageArrives, ApartInv, Begun, files, digests
<1> QED
  BY <1>1, <1>2, <1>3, <1>4, <1>5 DEF OnceInv

\* Changed settings begin a new epoch, which has no digest.
LEMMA SaveSettingsOnce ==
  ASSUME IndInv, OnceInv, NEW r \in Rule, SaveSettings(r)
  PROVE  OnceInv'
<1>1. EpochInv'
  BY DEF OnceInv, SaveSettings, EpochInv, RunState, NoRecord, SettingsFresh, digests,
     TypeOK, IndInv, RuleInv
<1>2. RecordInv'
  BY DEF OnceInv, SaveSettings, RecordInv, files, digests
<1>3. PassedInv'
  BY DEF OnceInv, SaveSettings, PassedInv, files
<1>4. SettledInv'
  BY DEF OnceInv, SaveSettings, SettledInv, EpochInv, Begun, files, digests, TypeOK,
     IndInv
<1>5. ApartInv'
  BY DEF OnceInv, SaveSettings, ApartInv, Begun, files, digests
<1> QED
  BY <1>1, <1>2, <1>3, <1>4, <1>5 DEF OnceInv

\* What the history rolls forward was begun before.
LEMMA HistoryRecoveryOnce ==
  ASSUME IndInv, OnceInv, NEW d \in Digest, HistoryRecovery(d)
  PROVE  OnceInv'
<1>1. EpochInv'
  BY DEF OnceInv, HistoryRecovery, EpochInv, SettingsFresh, env, digests
<1>2. RecordInv'
  BY DEF OnceInv, HistoryRecovery, RecordInv, digests
<1>3. PassedInv'
  BY DEF OnceInv, HistoryRecovery, PassedInv
<1>4. SettledInv'
  BY DEF OnceInv, HistoryRecovery, SettledInv, Begun, env, digests
<1>5. ApartInv'
  BY DEF OnceInv, HistoryRecovery, ApartInv, Begun, digests
<1> QED
  BY <1>1, <1>2, <1>3, <1>4, <1>5 DEF OnceInv

\* A digest that is removed does not come back.
LEMMA UserDeleteOnce ==
  ASSUME IndInv, OnceInv, NEW d \in Digest, UserDelete(d)
  PROVE  OnceInv'
<1>1. EpochInv'
  BY DEF OnceInv, UserDelete, EpochInv, SettingsFresh, env, digests
<1>2. RecordInv'
  BY DEF OnceInv, UserDelete, RecordInv, digests
<1>3. PassedInv'
  BY DEF OnceInv, UserDelete, PassedInv
<1>4. SettledInv'
  BY DEF OnceInv, UserDelete, SettledInv, Begun, env, digests
<1>5. ApartInv'
  BY DEF OnceInv, UserDelete, ApartInv, Begun, digests
<1> QED
  BY <1>1, <1>2, <1>3, <1>4, <1>5 DEF OnceInv

\* A run that ends, for whatever reason, without touching a store leaves its
\* digest in the record, or has not begun to write it.
LEMMA EndOnce ==
  ASSUME IndInv, OnceInv, run' = Idle,
         UNCHANGED <<env, cursor, pending, files, digests, dropped>>
  PROVE  OnceInv'
<1>1. EpochInv'
  BY DEF OnceInv, EpochInv, Idle, env, digests
<1>2. RecordInv' /\ PassedInv'
  BY DEF OnceInv, RecordInv, PassedInv, Idle, Saving, digests
<1>3. ASSUME NEW d \in Digest, Begun(d)'
      PROVE  Begun(d) /\ (run.pc \in Saving /\ run.d = d => pending.d = d)
  BY <1>3 DEF OnceInv, RecordInv, Begun, Idle, Saving, files
<1>4. SettledInv'
  BY <1>3 DEF OnceInv, SettledInv, env, digests
<1>5. ApartInv'
  BY <1>3 DEF OnceInv, ApartInv, digests
<1> QED
  BY <1>1, <1>2, <1>4, <1>5 DEF OnceInv

\* Nothing is digested at first.
LEMMA InitOnce == Init => OnceInv
<1> SUFFICES ASSUME Init PROVE OnceInv
  OBVIOUS
<1>1. EpochInv
  BY DEF Init, EpochInv, Idle, Digest
<1>2. RecordInv /\ PassedInv
  BY DEF Init, RecordInv, PassedInv, Idle, Saving
<1>3. \A d \in Digest : ~Begun(d)
  BY DEF Init, Begun, Idle, Saving
<1> QED
  BY <1>1, <1>2, <1>3 DEF OnceInv, SettledInv, ApartInv

\* Every action keeps it.
LEMMA StepOnce == IndInv /\ OnceInv /\ [Next]_vars => OnceInv'
<1> SUFFICES ASSUME IndInv, OnceInv, [Next]_vars PROVE OnceInv'
  OBVIOUS
<1>1. CASE BeginRun \/ RecoverNothing \/ RecoverGone \/ RecoverFound
           \/ RecoverOtherRule \/ RecoverCommitted \/ RecoverCommit
  BY <1>1, BeginRunOnce, RecoverNothingOnce, RecoverGoneOnce, RecoverFoundOnce,
     RecoverOtherRuleOnce, RecoverCommittedOnce, RecoverCommitOnce
<1>2. CASE CollectNothingNew \/ Summarize \/ Prepare \/ SaveIntent \/ SavePair \/ SaveIndex
  BY <1>2, CollectNothingNewOnce, SummarizeOnce, PrepareOnce, SaveIntentOnce,
     SavePairOnce, SaveIndexOnce
<1>3. CASE SaveIndexUnknown \/ SaveRefused \/ SaveFails
  BY <1>3, SaveIndexUnknownOnce, SaveRefusedOnce, SaveFailsOnce
<1>4. CASE RecordSaved \/ RecordFails \/ CommitCursor \/ CommitFails \/ Forget
  BY <1>4, RecordSavedOnce, RecordFailsOnce, CommitCursorOnce, CommitFailsOnce, ForgetOnce
<1>5. CASE RecoverFails \/ CollectUnsafeEmpty \/ CollectBelowMinimum \/ StaleBeforeSave
           \/ SummarizeFails \/ SaveCleanupFails \/ CommitRefused \/ RunLost
  BY <1>5, EndOnce DEF RecoverFails, CollectUnsafeEmpty, CollectBelowMinimum,
     StaleBeforeSave, SummarizeFails, SaveCleanupFails, CommitRefused, RunLost
<1>6. CASE \/ \E m \in Msg : MessageArrives(m)
           \/ \E r \in Rule : SaveSettings(r)
           \/ \E d \in Digest : HistoryRecovery(d) \/ UserDelete(d)
  BY <1>6, MessageArrivesOnce, SaveSettingsOnce, HistoryRecoveryOnce, UserDeleteOnce
<1>7. CASE UNCHANGED vars
  BY <1>7 DEF OnceInv, EpochInv, RecordInv, PassedInv, SettledInv, ApartInv, Begun,
     SettingsFresh, vars
<1> QED
  BY <1>1, <1>2, <1>3, <1>4, <1>5, <1>6, <1>7 DEF Next, RunStep, FaultStep

\* So it holds in every reachable state.
LEMMA OnceInvariance == Spec => []OnceInv
BY InitOnce, StepOnce, Invariance, PTL DEF Spec

\* However the runs that made them were interrupted, no message is in two digests
\* of one rule epoch that are there, unless one of them was given up while its save
\* could still be rolled forward (runGroupDigest and its recovery).
THEOREM NothingIsDigestedTwice == Spec => []DigestedOnceOrDropped
<1>1. OnceInv => DigestedOnceOrDropped
  BY DEF OnceInv, ApartInv, Begun, DigestedOnceOrDropped, Live
<1> QED
  BY <1>1, OnceInvariance, PTL

\* The steps that change the record.
LEMMA RecordMoves ==
  ASSUME IndInv, OnceInv, [Next]_vars, pending # NoRecord, pending' # pending, Live(pending.d)
  PROVE  \/ pending'.d = pending.d
         \/ pending.d \in dropped
         \/ pending.state.seen \subseteq cursor.seen
         \/ pending.state.rule # rule \/ ~SettingsFresh
         \/ art'[pending.d] \notin {"pair", "indexed"}
<1>1. \/ RecoverGone \/ RecoverOtherRule \/ RecoverCommitted \/ Prepare
      \/ SaveRefused \/ SaveFails \/ RecordSaved \/ RecordFails \/ Forget
  BY DEF Next, RunStep, FaultStep, vars, BeginRun, RecoverNothing, RecoverFound, RecoverFails,
     RecoverCommit, CollectNothingNew, CollectUnsafeEmpty, CollectBelowMinimum, Summarize,
     StaleBeforeSave, SummarizeFails, SaveIntent, SavePair, SaveIndex, SaveIndexUnknown,
     SaveCleanupFails, CommitCursor, CommitRefused, CommitFails, RunLost, MessageArrives,
     SaveSettings, HistoryRecovery, UserDelete
<1>2. CASE RecoverGone
  BY <1>2 DEF RecoverGone, Live
<1>3. CASE RecoverOtherRule
  BY <1>3 DEF RecoverOtherRule, At, IndInv, RuleInv
<1>4. CASE RecoverCommitted
  BY <1>4 DEF RecoverCommitted
<1>5. CASE Prepare
  BY <1>5 DEF Prepare, At, OnceInv, PassedInv, IndInv, RuleInv, Live
<1>6. CASE SaveRefused
  BY <1>6 DEF SaveRefused
<1>7. CASE SaveFails
  <2>1. pending.d = run.d /\ run.d \in Digest
    BY <1>7 DEF SaveFails, OnceInv, RecordInv, IndInv, FreshInv, At, Saving
  <2> QED
    BY <1>7, <2>1 DEF SaveFails, CleanFiles, IndInv, TypeOK
<1>8. CASE RecordSaved \/ RecordFails
  BY <1>8 DEF RecordSaved, RecordFails, Record, OnceInv, RecordInv, At, Saving
<1>9. CASE Forget
  BY <1>9 DEF Forget, OnceInv, RecordInv, At
<1> QED
  BY <1>1, <1>2, <1>3, <1>4, <1>5, <1>6, <1>7, <1>8, <1>9

\* A record whose digest is published is given up only when the cursor is past it,
\* the settings have changed, or the digest goes with it or was given up before.
THEOREM RecordsAreKept == Spec => RecordKeptUntilSettled
<1>1. IndInv /\ OnceInv /\ [Next]_vars
        => [pending # NoRecord /\ pending' # pending /\ Live(pending.d)
             => \/ pending'.d = pending.d
                \/ pending.d \in dropped
                \/ pending.state.seen \subseteq cursor.seen
                \/ pending.state.rule # rule \/ ~SettingsFresh
                \/ art'[pending.d] \notin {"pair", "indexed"}]_vars
  BY RecordMoves
<1> QED
  BY <1>1, Invariance, OnceInvariance, PTL DEF Spec, RecordKeptUntilSettled
=============================================================================
