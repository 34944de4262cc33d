------------------------- MODULE DigestBatch_proofs -------------------------
(***************************************************************************)
(* Proofs about the digests made by hand, for any number of batches, save  *)
(* slots and changes of the settings.  One lemma per part of the inductive *)
(* invariant, one step of its proof per action.                            *)
(***************************************************************************)
EXTENDS DigestBatch, TLAPS

\* The initial state satisfies the inductive invariant.
LEMMA InitInv == Init => IndInv
<1> SUFFICES ASSUME Init PROVE IndInv
  OBVIOUS
<1> USE ConstantsAssumption DEF Init, NoStart, NoRequest, NoSave
<1>1. TypeOK /\ unswept <= rev
  <2>1. 0 \in Rev /\ unswept <= rev
    BY DEF Rev
  <2>2. NoStart \in StartRecord /\ NoRequest \in RequestRecord /\ NoSave \in SaveRecord
    BY DEF StartRecord, RequestRecord, SaveRecord
  <2>3. lease \in [Batch -> {"none", "batch_start", "other"}] /\ finished \subseteq Batch
        /\ snapshot \in [Batch -> Rev \cup {None}] /\ cancelled \in [Batch -> {"no", "soft", "hard"}]
    OBVIOUS
  <2>4. starts \in [Batch -> StartRecord] /\ request \in RequestRecord
        /\ saves \in [Save -> SaveRecord]
    BY <2>2
  <2>5. scheduler \in {"idle", "run"} /\ closed \in BOOLEAN /\ client \in BOOLEAN
    OBVIOUS
  <2> QED
    BY <2>1, <2>3, <2>4, <2>5 DEF TypeOK
<1>2. SchedulerAlone /\ SnapshotIsCurrent /\ FinishedIsQuiet /\ CleanAnswerIsTrue
  BY DEF SchedulerAlone, SnapshotIsCurrent, FinishedIsQuiet, CleanAnswerIsTrue
<1>3. StartsAreCurrent /\ SavesHoldTheirBatch /\ HardAborts /\ SpoiledIsSeen
  BY DEF StartsAreCurrent, SavesHoldTheirBatch, HardAborts, SpoiledIsSeen
<1> QED
  BY <1>1, <1>2, <1>3 DEF IndInv

\* An aborted request or start is still one.
LEMMA AbortedTypes ==
  ASSUME TypeOK
  PROVE  AbortedRequest \in RequestRecord /\ \A b \in Batch : AbortedStart(b) \in StartRecord
<1>1. AbortedRequest \in RequestRecord
  BY DEF TypeOK, RequestRecord, AbortedRequest
<1>2. ASSUME NEW b \in Batch PROVE AbortedStart(b) \in StartRecord
  <2>1. starts[b] \in StartRecord
    BY DEF TypeOK
  <2>2. [starts[b] EXCEPT !.aborted = TRUE] \in StartRecord
    BY <2>1 DEF StartRecord
  <2> QED
    BY <2>1, <2>2 DEF AbortedStart
<1> QED
  BY <1>1, <1>2

\* So is a save with one of its fields changed.
LEMMA SaveTypes ==
  ASSUME NEW v \in SaveRecord, NEW says \in BOOLEAN, rev \in Rev
  PROVE  /\ [v EXCEPT !.aborted = TRUE] \in SaveRecord
         /\ [v EXCEPT !.allow = TRUE] \in SaveRecord
         /\ [v EXCEPT !.pc = "prepare"] \in SaveRecord
         /\ [v EXCEPT !.pc = "prepare", !.rev = v.rev] \in SaveRecord
         /\ [v EXCEPT !.pc = "prepare", !.rev = v.rev, !.allow = TRUE] \in SaveRecord
         /\ [v EXCEPT !.pc = "write", !.rev = rev] \in SaveRecord
         /\ [v EXCEPT !.pc = "write", !.rev = rev, !.allow = TRUE] \in SaveRecord
         /\ [v EXCEPT !.pc = "commit"] \in SaveRecord
         /\ [v EXCEPT !.pc = "settle", !.spoiled = says] \in SaveRecord
         /\ [v EXCEPT !.pc = "done", !.flagged = says] \in SaveRecord
<1>1. [v EXCEPT !.aborted = TRUE] \in SaveRecord /\ [v EXCEPT !.allow = TRUE] \in SaveRecord
  BY DEF SaveRecord
<1>2. [v EXCEPT !.pc = "prepare"] \in SaveRecord /\ [v EXCEPT !.pc = "commit"] \in SaveRecord
  BY DEF SaveRecord
<1>3. [v EXCEPT !.pc = "prepare", !.rev = v.rev] \in SaveRecord
  BY DEF SaveRecord
<1>4. [v EXCEPT !.pc = "prepare", !.rev = v.rev, !.allow = TRUE] \in SaveRecord
  BY DEF SaveRecord
<1>5. [v EXCEPT !.pc = "settle", !.spoiled = says] \in SaveRecord
  BY DEF SaveRecord
<1>6. [v EXCEPT !.pc = "done", !.flagged = says] \in SaveRecord
  BY DEF SaveRecord
<1>7. [v EXCEPT !.pc = "write", !.rev = rev] \in SaveRecord
  BY DEF SaveRecord
<1>8. [v EXCEPT !.pc = "write", !.rev = rev, !.allow = TRUE] \in SaveRecord
  BY DEF SaveRecord
<1> QED
  BY <1>1, <1>2, <1>3, <1>4, <1>5, <1>6, <1>7, <1>8

\* Every step keeps the types, and never more requests have to cancel work
\* than have changed the settings.
LEMMA TypeStep == IndInv /\ [Next]_vars => (TypeOK /\ unswept <= rev)'
<1> SUFFICES ASSUME IndInv, [Next]_vars PROVE (TypeOK /\ unswept <= rev)'
  OBVIOUS
<1> USE ConstantsAssumption DEF vars, batchVars, workVars, envVars, NoStart, NoRequest, NoSave, IndInv
<1>1. ASSUME NEW b \in Batch, BatchStart(b) PROVE (TypeOK /\ unswept <= rev)'
  BY <1>1 DEF BatchStart, TypeOK, Rev, StartRecord, RequestRecord, SaveRecord
<1>2. ASSUME NEW b \in Batch, StartEnter(b) PROVE (TypeOK /\ unswept <= rev)'
  <2>1. NoStart \in StartRecord /\ [starts[b] EXCEPT !.pc = "settings"] \in StartRecord
    BY DEF TypeOK, StartRecord
  <2>2. starts' = [starts EXCEPT ![b] = NoStart]
        \/ starts' = [starts EXCEPT ![b] = [starts[b] EXCEPT !.pc = "settings"]]
    BY <1>2 DEF StartEnter, TypeOK
  <2>3. starts' \in [Batch -> StartRecord]
    BY <2>1, <2>2 DEF TypeOK
  <2> QED
    BY <2>3, <1>2 DEF StartEnter, Register, TypeOK
<1>3. ASSUME NEW b \in Batch, StartReuse(b) PROVE (TypeOK /\ unswept <= rev)'
  BY <1>3 DEF StartReuse, Touch, TypeOK, Rev, StartRecord, RequestRecord, SaveRecord
<1>4. ASSUME NEW b \in Batch, StartLoad(b) PROVE (TypeOK /\ unswept <= rev)'
  <2>1. [starts[b] EXCEPT !.pc = "models", !.rev = rev] \in StartRecord
    BY DEF TypeOK, StartRecord
  <2>2. starts' = [starts EXCEPT ![b] = [starts[b] EXCEPT !.pc = "models", !.rev = rev]]
    BY <1>4 DEF StartLoad, TypeOK
  <2> QED
    BY <2>1, <2>2, <1>4 DEF StartLoad, TypeOK
<1>5. ASSUME NEW b \in Batch, StartCreate(b) PROVE (TypeOK /\ unswept <= rev)'
  BY <1>5 DEF StartCreate, GiveUp, Touch, TypeOK, Rev, StartRecord, RequestRecord, SaveRecord
<1>6. ASSUME NEW b \in Batch, StartFail(b) PROVE (TypeOK /\ unswept <= rev)'
  BY <1>6 DEF StartFail, GiveUp, TypeOK, Rev, StartRecord, RequestRecord, SaveRecord
<1>7. ASSUME NEW b \in Batch, Digest(b) PROVE (TypeOK /\ unswept <= rev)'
  BY <1>7 DEF Digest, Register, TypeOK, Rev, StartRecord, RequestRecord, SaveRecord
<1>8. ASSUME NEW b \in Batch, Heartbeat(b) PROVE (TypeOK /\ unswept <= rev)'
  BY <1>8 DEF Heartbeat, Register, TypeOK, Rev, StartRecord, RequestRecord, SaveRecord
<1>9. ASSUME NEW b \in Batch, BatchFinish(b) PROVE (TypeOK /\ unswept <= rev)'
  BY <1>9 DEF BatchFinish, Pending, RequestActive, SaveActive, TypeOK, Rev,
       StartRecord, RequestRecord, SaveRecord
<1>10. ASSUME NEW b \in Batch, FinishRelease(b) PROVE (TypeOK /\ unswept <= rev)'
  BY <1>10 DEF FinishRelease, Release, TypeOK, Rev, StartRecord, RequestRecord,
       SaveRecord
<1>11. ASSUME NEW b \in Batch, LeaseExpires(b) PROVE (TypeOK /\ unswept <= rev)'
  BY <1>11 DEF LeaseExpires, TypeOK, Rev, StartRecord, RequestRecord, SaveRecord
<1>12. ASSUME NEW b \in Batch, NEW hard \in BOOLEAN, DigestCancel(b, hard)
      PROVE (TypeOK /\ unswept <= rev)'
  <2>1. AbortedStart(b) \in StartRecord /\ AbortedRequest \in RequestRecord
    BY AbortedTypes
  <2>2. starts' \in [Batch -> StartRecord] /\ request' \in RequestRecord
    BY <2>1, <1>12 DEF DigestCancel, AbortBatch, TypeOK
  <2>3. \A s \in Save : /\ [saves[s] EXCEPT !.aborted = TRUE] \in SaveRecord
                       /\ [saves[s] EXCEPT !.allow = TRUE] \in SaveRecord
    BY SaveTypes DEF TypeOK
  <2>4. saves' \in [Save -> SaveRecord]
    BY <2>3, <1>12 DEF DigestCancel, AbortBatch, TypeOK
  <2>5. lease' \in [Batch -> {"none", "batch_start", "other"}]
        /\ cancelled' \in [Batch -> {"no", "soft", "hard"}]
        /\ snapshot' \in [Batch -> Rev \cup {None}]
    BY <1>12 DEF DigestCancel, Release, TypeOK
  <2> QED
    BY <2>2, <2>4, <2>5, <1>12 DEF DigestCancel, TypeOK
<1>13. ASSUME NEW b \in Batch, NEW s \in Save, NEW kind \in {"render", "export"}, SaveBegin(s, b, kind)
      PROVE (TypeOK /\ unswept <= rev)'
  BY <1>13 DEF SaveBegin, TypeOK, Rev, StartRecord, RequestRecord, SaveRecord
<1>14. ASSUME NEW s \in Save, SaveUploaded(s) PROVE (TypeOK /\ unswept <= rev)'
  <2>1. [saves[s] EXCEPT !.pc = "prepare"] \in SaveRecord
        /\ [saves[s] EXCEPT !.pc = "prepare", !.rev = saves[s].rev] \in SaveRecord
        /\ [saves[s] EXCEPT !.pc = "prepare", !.rev = saves[s].rev, !.allow = TRUE] \in SaveRecord
    BY SaveTypes DEF TypeOK
  <2>2. \/ saves' = [saves EXCEPT ![s] = [saves[s] EXCEPT !.pc = "prepare"]]
        \/ saves' = [saves EXCEPT ![s] =
              [saves[s] EXCEPT !.pc = "prepare", !.rev = saves[s].rev]]
        \/ saves' = [saves EXCEPT ![s] =
              [saves[s] EXCEPT !.pc = "prepare", !.rev = saves[s].rev, !.allow = TRUE]]
    BY <1>14 DEF SaveUploaded, Allowed, TypeOK
  <2>3. saves' \in [Save -> SaveRecord]
    BY <2>1, <2>2 DEF TypeOK
  <2>4. lease' \in [Batch -> {"none", "batch_start", "other"}]
    BY <1>14 DEF SaveUploaded, Register, TypeOK
  <2> QED
    BY <2>3, <2>4, <1>14 DEF SaveUploaded, TypeOK
<1>15. ASSUME NEW s \in Save, SavePrepare(s) PROVE (TypeOK /\ unswept <= rev)'
  <2>1. \/ saves' = [saves EXCEPT ![s] = [saves[s] EXCEPT !.pc = "write", !.rev = rev]]
        \/ saves' = [saves EXCEPT ![s] =
              [saves[s] EXCEPT !.pc = "write", !.rev = rev, !.allow = TRUE]]
    BY <1>15 DEF SavePrepare, Allowed, TypeOK
  <2>2. saves[s] \in SaveRecord /\ rev \in Rev
    BY DEF TypeOK
  <2>3. saves' \in [Save -> SaveRecord]
    BY <2>1, <2>2, SaveTypes DEF TypeOK
  <2> QED
    BY <2>3, <1>15 DEF SavePrepare, TypeOK
<1>16. ASSUME NEW s \in Save, SaveWrite(s) PROVE (TypeOK /\ unswept <= rev)'
  <2>1. saves' = [saves EXCEPT ![s] = [saves[s] EXCEPT !.pc = "commit"]]
    BY <1>16 DEF SaveWrite, TypeOK
  <2>2. saves' \in [Save -> SaveRecord]
    BY <2>1, SaveTypes DEF TypeOK
  <2> QED
    BY <2>2, <1>16 DEF SaveWrite, TypeOK
<1>17. ASSUME NEW s \in Save, SaveCommit(s) PROVE (TypeOK /\ unswept <= rev)'
  <2>1. PICK says \in BOOLEAN : saves' = [saves EXCEPT ![s] =
          [saves[s] EXCEPT !.pc = "settle", !.spoiled = says]]
    BY <1>17 DEF SaveCommit, TypeOK
  <2>2. [saves[s] EXCEPT !.pc = "settle", !.spoiled = says] \in SaveRecord
    BY SaveTypes DEF TypeOK
  <2>3. saves' \in [Save -> SaveRecord]
    BY <2>1, <2>2 DEF TypeOK
  <2> QED
    BY <2>3, <1>17 DEF SaveCommit, TypeOK
<1>18. ASSUME NEW s \in Save, SaveSettle(s) PROVE (TypeOK /\ unswept <= rev)'
  <2> DEFINE v == saves[s]
             says == \/ v.rev # rev
                     \/ v.kind = "render" /\ cancelled[v.batch] = "hard"
                     \/ v.aborted /\ (v.kind = "export" \/ cancelled[v.batch] # "soft")
  <2>1. saves' = [saves EXCEPT ![s] = [saves[s] EXCEPT !.pc = "done", !.flagged = says]]
        /\ says \in BOOLEAN
    BY <1>18 DEF SaveSettle
  <2>2. [saves[s] EXCEPT !.pc = "done", !.flagged = says] \in SaveRecord
    BY SaveTypes DEF TypeOK
  <2>3. saves' \in [Save -> SaveRecord]
    BY <2>1, <2>2 DEF TypeOK
  <2> QED
    BY <2>3, <1>18 DEF SaveSettle, TypeOK
<1>19. ASSUME NEW s \in Save, SaveEnd(s) PROVE (TypeOK /\ unswept <= rev)'
  BY <1>19 DEF SaveEnd, Touch, HoldsLease, TypeOK, Rev, StartRecord, RequestRecord,
       SaveRecord
<1>20. ASSUME DigestEnd PROVE (TypeOK /\ unswept <= rev)'
  BY <1>20 DEF DigestEnd, Touch, TypeOK, Rev, StartRecord, RequestRecord, SaveRecord
<1>21. ASSUME SettingsCommit PROVE (TypeOK /\ unswept <= rev)'
  BY <1>21 DEF SettingsCommit, TypeOK, Rev, StartRecord, RequestRecord, SaveRecord
<1>22. ASSUME SettingsSweep PROVE (TypeOK /\ unswept <= rev)'
  <2>1. AbortedRequest \in RequestRecord /\ \A b \in Batch : AbortedStart(b) \in StartRecord
    BY AbortedTypes
  <2>2. \A s \in Save : [saves[s] EXCEPT !.aborted = TRUE] \in SaveRecord
    BY SaveTypes DEF TypeOK
  <2>3. starts' \in [Batch -> StartRecord] /\ request' \in RequestRecord
        /\ saves' \in [Save -> SaveRecord]
    BY <2>1, <2>2, <1>22 DEF SettingsSweep, CancelWork, TypeOK
  <2>4. cancelled' \in [Batch -> {"no", "soft", "hard"}]
        /\ snapshot' \in [Batch -> Rev \cup {None}]
    BY <1>22 DEF SettingsSweep, CancelWork, TypeOK
  <2> QED
    BY <2>3, <2>4, <1>22 DEF SettingsSweep, TypeOK, Rev
<1>23. ASSUME SchedulerRun PROVE (TypeOK /\ unswept <= rev)'
  BY <1>23 DEF SchedulerRun, ManualIdle, TypeOK, Rev, StartRecord, RequestRecord,
       SaveRecord
<1>24. ASSUME SchedulerEnd PROVE (TypeOK /\ unswept <= rev)'
  BY <1>24 DEF SchedulerEnd, TypeOK, Rev, StartRecord, RequestRecord, SaveRecord
<1>25. ASSUME ClientGone PROVE (TypeOK /\ unswept <= rev)'
  <2>1. \A b \in Batch : [starts[b] EXCEPT !.aborted = TRUE] \in StartRecord
    BY DEF TypeOK, StartRecord
  <2>2. \A s \in Save : [saves[s] EXCEPT !.aborted = TRUE] \in SaveRecord
    BY SaveTypes DEF TypeOK
  <2>3. starts' \in [Batch -> StartRecord] /\ saves' \in [Save -> SaveRecord]
    BY <2>1, <2>2, <1>25 DEF ClientGone, TypeOK
  <2> QED
    BY <2>3, <1>25 DEF ClientGone, TypeOK
<1>26. ASSUME Shutdown PROVE (TypeOK /\ unswept <= rev)'
  <2>1. AbortedRequest \in RequestRecord /\ \A b \in Batch : AbortedStart(b) \in StartRecord
    BY AbortedTypes
  <2>2. \A s \in Save : [saves[s] EXCEPT !.aborted = TRUE] \in SaveRecord
    BY SaveTypes DEF TypeOK
  <2>3. starts' \in [Batch -> StartRecord] /\ request' \in RequestRecord
        /\ saves' \in [Save -> SaveRecord]
    BY <2>1, <2>2, <1>26 DEF Shutdown, CancelWork, TypeOK
  <2>4. cancelled' \in [Batch -> {"no", "soft", "hard"}]
        /\ snapshot' \in [Batch -> Rev \cup {None}]
    BY <1>26 DEF Shutdown, CancelWork, TypeOK
  <2> QED
    BY <2>3, <2>4, <1>26 DEF Shutdown, TypeOK, Rev
<1>27. ASSUME UNCHANGED vars PROVE (TypeOK /\ unswept <= rev)'
  BY <1>27 DEF TypeOK, Rev, StartRecord, RequestRecord, SaveRecord
<1> QED
  BY <1>1, <1>2, <1>3, <1>4, <1>5, <1>6, <1>7, <1>8, <1>9, <1>10, <1>11, <1>12,
       <1>13, <1>14, <1>15, <1>16, <1>17, <1>18, <1>19, <1>20, <1>21, <1>22, <1>23,
       <1>24, <1>25, <1>26, <1>27 DEF Next, StartStep, SaveStep

\* The probe of each side and what it lets happen are one step.
LEMMA SchedulerStep == IndInv /\ [Next]_vars => SchedulerAlone'
<1> SUFFICES ASSUME IndInv, [Next]_vars PROVE SchedulerAlone'
  OBVIOUS
<1> USE ConstantsAssumption DEF vars, batchVars, workVars, envVars, NoStart, NoRequest, NoSave, IndInv
<1>1. CASE \E b \in Batch : Heartbeat(b) \/ BatchFinish(b) \/ FinishRelease(b)
      \/ LeaseExpires(b)
  BY <1>1 DEF Heartbeat, BatchFinish, FinishRelease, LeaseExpires, TypeOK,
       StartRecord, SchedulerAlone, StartActive
<1>2. CASE \E s \in Save : SaveUploaded(s) \/ SavePrepare(s) \/ SaveWrite(s)
      \/ SaveCommit(s) \/ SaveSettle(s) \/ SaveEnd(s)
      \/ \E b \in Batch, kind \in {"render", "export"} : SaveBegin(s, b, kind)
  BY <1>2 DEF SaveUploaded, SavePrepare, SaveWrite, SaveCommit, SaveSettle, SaveEnd,
       SaveBegin, TypeOK, StartRecord, SchedulerAlone, StartActive
<1>3. CASE SettingsCommit \/ UNCHANGED vars
  BY <1>3 DEF SettingsCommit, TypeOK, StartRecord, SchedulerAlone, StartActive
<1>4. ASSUME NEW b \in Batch, BatchStart(b) PROVE SchedulerAlone'
  BY <1>4 DEF BatchStart, TypeOK, StartRecord, SchedulerAlone, StartActive
<1>5. ASSUME NEW b \in Batch, StartEnter(b) PROVE SchedulerAlone'
  BY <1>5 DEF StartEnter, Register, TypeOK, StartRecord, SchedulerAlone, StartActive
<1>6. ASSUME NEW b \in Batch, StartReuse(b) PROVE SchedulerAlone'
  BY <1>6 DEF StartReuse, Touch, TypeOK, StartRecord, SchedulerAlone, StartActive
<1>7. ASSUME NEW b \in Batch, StartLoad(b) PROVE SchedulerAlone'
  BY <1>7 DEF StartLoad, TypeOK, StartRecord, SchedulerAlone, StartActive
<1>8. ASSUME NEW b \in Batch, StartCreate(b) PROVE SchedulerAlone'
  BY <1>8 DEF StartCreate, GiveUp, Touch, TypeOK, StartRecord, SchedulerAlone, StartActive
<1>9. ASSUME NEW b \in Batch, StartFail(b) PROVE SchedulerAlone'
  BY <1>9 DEF StartFail, GiveUp, TypeOK, StartRecord, SchedulerAlone, StartActive
<1>10. ASSUME NEW b \in Batch, Digest(b) PROVE SchedulerAlone'
  BY <1>10 DEF Digest, Register, TypeOK, StartRecord, SchedulerAlone, StartActive
<1>11. ASSUME NEW b \in Batch, NEW hard \in BOOLEAN, DigestCancel(b, hard)
      PROVE SchedulerAlone'
  BY <1>11 DEF DigestCancel, AbortBatch, AbortedStart, AbortedRequest,
       RequestActive, Release, TypeOK, StartRecord, SchedulerAlone, StartActive
<1>12. ASSUME DigestEnd PROVE SchedulerAlone'
  BY <1>12 DEF DigestEnd, Touch, TypeOK, StartRecord, SchedulerAlone, StartActive
<1>13. ASSUME SettingsSweep PROVE SchedulerAlone'
  BY <1>13 DEF SettingsSweep, CancelWork, AbortedStart, AbortedRequest, TypeOK,
       StartRecord, SchedulerAlone, StartActive
<1>14. ASSUME SchedulerRun PROVE SchedulerAlone'
  BY <1>14 DEF SchedulerRun, ManualIdle, TypeOK, StartRecord, SchedulerAlone,
       StartActive
<1>15. ASSUME SchedulerEnd PROVE SchedulerAlone'
  BY <1>15 DEF SchedulerEnd, TypeOK, StartRecord, SchedulerAlone, StartActive
<1>16. ASSUME ClientGone PROVE SchedulerAlone'
  BY <1>16 DEF ClientGone, Kept, TypeOK, StartRecord, SchedulerAlone, StartActive
<1>17. ASSUME Shutdown PROVE SchedulerAlone'
  BY <1>17 DEF Shutdown, CancelWork, AbortedStart, AbortedRequest, TypeOK,
       StartRecord, SchedulerAlone, StartActive
<1> QED
  BY <1>1, <1>2, <1>3, <1>4, <1>5, <1>6, <1>7, <1>8, <1>9, <1>10, <1>11, <1>12,
       <1>13, <1>14, <1>15, <1>16, <1>17 DEF Next, StartStep, SaveStep

\* A settings request that cancels the work leaves no revision behind it.
LEMMA SnapshotStep == IndInv /\ [Next]_vars => (SnapshotIsCurrent /\ StartsAreCurrent)'
<1> SUFFICES ASSUME IndInv, [Next]_vars PROVE (SnapshotIsCurrent /\ StartsAreCurrent)'
  OBVIOUS
<1> USE ConstantsAssumption DEF vars, batchVars, workVars, envVars, NoStart, NoRequest, NoSave, IndInv
<1>1. CASE \E b \in Batch : BatchStart(b) \/ Heartbeat(b) \/ BatchFinish(b)
      \/ FinishRelease(b) \/ LeaseExpires(b)
  BY <1>1 DEF BatchStart, Heartbeat, BatchFinish, FinishRelease, LeaseExpires,
       TypeOK, StartRecord, RequestRecord, Rev, SnapshotIsCurrent, StartsAreCurrent,
       StartActive
<1>2. CASE \E s \in Save : SaveUploaded(s) \/ SavePrepare(s) \/ SaveWrite(s)
      \/ SaveCommit(s) \/ SaveSettle(s) \/ SaveEnd(s)
      \/ \E b \in Batch, kind \in {"render", "export"} : SaveBegin(s, b, kind)
  <2>1. UNCHANGED <<snapshot, cancelled, starts, request, rev, unswept>>
    BY <1>2 DEF SaveUploaded, SavePrepare, SaveWrite, SaveCommit, SaveSettle, SaveEnd,
         SaveBegin
  <2> QED
    BY <2>1 DEF SnapshotIsCurrent, StartsAreCurrent
<1>3. CASE SchedulerRun \/ SchedulerEnd \/ UNCHANGED vars
  <2>1. UNCHANGED <<lease, snapshot, cancelled, finished, starts, request, saves, rev,
                    unswept>>
    BY <1>3 DEF SchedulerRun, SchedulerEnd
  <2> QED
    BY <2>1 DEF SnapshotIsCurrent, StartsAreCurrent
<1>4. ASSUME NEW b \in Batch, StartEnter(b)
      PROVE (SnapshotIsCurrent /\ StartsAreCurrent)'
  BY <1>4 DEF StartEnter, Register, TypeOK, StartRecord, RequestRecord, Rev,
       SnapshotIsCurrent, StartsAreCurrent, StartActive
<1>5. ASSUME NEW b \in Batch, StartReuse(b)
      PROVE (SnapshotIsCurrent /\ StartsAreCurrent)'
  BY <1>5 DEF StartReuse, Touch, TypeOK, StartRecord, RequestRecord, Rev,
       SnapshotIsCurrent, StartsAreCurrent, StartActive
<1>6. ASSUME NEW b \in Batch, StartLoad(b)
      PROVE (SnapshotIsCurrent /\ StartsAreCurrent)'
  BY <1>6 DEF StartLoad, TypeOK, StartRecord, RequestRecord, Rev, SnapshotIsCurrent,
       StartsAreCurrent, StartActive
<1>7. ASSUME NEW b \in Batch, StartCreate(b)
      PROVE (SnapshotIsCurrent /\ StartsAreCurrent)'
  BY <1>7 DEF StartCreate, GiveUp, Touch, TypeOK, StartRecord, RequestRecord, Rev,
       SnapshotIsCurrent, StartsAreCurrent, StartActive
<1>8. ASSUME NEW b \in Batch, StartFail(b)
      PROVE (SnapshotIsCurrent /\ StartsAreCurrent)'
  BY <1>8 DEF StartFail, GiveUp, TypeOK, StartRecord, RequestRecord, Rev, SnapshotIsCurrent,
       StartsAreCurrent, StartActive
<1>9. ASSUME NEW b \in Batch, Digest(b) PROVE (SnapshotIsCurrent /\ StartsAreCurrent)'
  BY <1>9 DEF Digest, Register, TypeOK, StartRecord, RequestRecord, Rev,
       SnapshotIsCurrent, StartsAreCurrent, StartActive
<1>10. ASSUME NEW b \in Batch, NEW hard \in BOOLEAN, DigestCancel(b, hard)
      PROVE (SnapshotIsCurrent /\ StartsAreCurrent)'
  BY <1>10 DEF DigestCancel, AbortBatch, AbortedStart, AbortedRequest,
       RequestActive, Release, TypeOK, StartRecord, RequestRecord, Rev,
       SnapshotIsCurrent, StartsAreCurrent, StartActive
<1>11. ASSUME DigestEnd PROVE (SnapshotIsCurrent /\ StartsAreCurrent)'
  BY <1>11 DEF DigestEnd, Touch, TypeOK, StartRecord, RequestRecord, Rev,
       SnapshotIsCurrent, StartsAreCurrent, StartActive
<1>12. ASSUME SettingsCommit PROVE (SnapshotIsCurrent /\ StartsAreCurrent)'
  BY <1>12 DEF SettingsCommit, TypeOK, StartRecord, RequestRecord, Rev,
       SnapshotIsCurrent, StartsAreCurrent, StartActive
<1>13. ASSUME SettingsSweep PROVE (SnapshotIsCurrent /\ StartsAreCurrent)'
  <2>1. SnapshotIsCurrent'
    BY <1>13 DEF SettingsSweep, CancelWork, AbortedRequest, TypeOK, RequestRecord, Rev,
         SnapshotIsCurrent
  <2>2. ASSUME NEW b \in Batch, starts[b].pc = "models" PROVE cancelled'[b] = "hard"
    BY <2>2, <1>13 DEF SettingsSweep, CancelWork, Pending, StartActive
  <2>3. \A b \in Batch : starts'[b].pc = starts[b].pc
    BY <1>13 DEF SettingsSweep, CancelWork, AbortedStart, TypeOK, StartRecord
  <2> QED
    BY <2>1, <2>2, <2>3 DEF StartsAreCurrent
<1>14. ASSUME ClientGone PROVE (SnapshotIsCurrent /\ StartsAreCurrent)'
  BY <1>14 DEF ClientGone, Kept, TypeOK, StartRecord, RequestRecord, Rev,
       SnapshotIsCurrent, StartsAreCurrent, StartActive
<1>15. ASSUME Shutdown PROVE (SnapshotIsCurrent /\ StartsAreCurrent)'
  BY <1>15 DEF Shutdown, CancelWork, AbortedStart, AbortedRequest, TypeOK,
       StartRecord, RequestRecord, Rev, SnapshotIsCurrent, StartsAreCurrent,
       StartActive
<1> QED
  BY <1>1, <1>2, <1>3, <1>4, <1>5, <1>6, <1>7, <1>8, <1>9, <1>10, <1>11, <1>12,
       <1>13, <1>14, <1>15 DEF Next, StartStep, SaveStep

\* A batch is finished only without work, and a finished one is given none.
LEMMA FinishedStep == IndInv /\ [Next]_vars => (FinishedIsQuiet /\ SavesHoldTheirBatch)'
<1> SUFFICES ASSUME IndInv, [Next]_vars
      PROVE (FinishedIsQuiet /\ SavesHoldTheirBatch)'
  OBVIOUS
<1> USE ConstantsAssumption DEF vars, batchVars, workVars, envVars, NoStart, NoRequest, NoSave, IndInv
<1>1. CASE \E b \in Batch : BatchStart(b) \/ StartEnter(b) \/ StartReuse(b)
      \/ StartLoad(b) \/ StartCreate(b) \/ StartFail(b) \/ Heartbeat(b)
      \/ FinishRelease(b) \/ LeaseExpires(b)
  BY <1>1 DEF BatchStart, StartEnter, StartReuse, StartLoad, StartCreate, StartFail,
       Heartbeat, FinishRelease, LeaseExpires, TypeOK, RequestRecord, SaveRecord,
       FinishedIsQuiet, SavesHoldTheirBatch, RequestActive, SaveActive
<1>2. CASE SettingsCommit \/ SchedulerRun \/ SchedulerEnd \/ UNCHANGED vars
  BY <1>2 DEF SettingsCommit, SchedulerRun, SchedulerEnd, TypeOK, RequestRecord,
       SaveRecord, FinishedIsQuiet, SavesHoldTheirBatch, RequestActive, SaveActive
<1>3. ASSUME NEW b \in Batch, Digest(b)
      PROVE (FinishedIsQuiet /\ SavesHoldTheirBatch)'
  BY <1>3 DEF Digest, Register, TypeOK, RequestRecord, SaveRecord, FinishedIsQuiet,
       SavesHoldTheirBatch, RequestActive, SaveActive
<1>4. ASSUME NEW b \in Batch, BatchFinish(b)
      PROVE (FinishedIsQuiet /\ SavesHoldTheirBatch)'
  BY <1>4 DEF BatchFinish, Pending, RequestActive, SaveActive, TypeOK,
       RequestRecord, SaveRecord, FinishedIsQuiet, SavesHoldTheirBatch,
       RequestActive, SaveActive
<1>5. ASSUME NEW b \in Batch, NEW hard \in BOOLEAN, DigestCancel(b, hard)
      PROVE (FinishedIsQuiet /\ SavesHoldTheirBatch)'
  BY <1>5 DEF DigestCancel, AbortBatch, AbortedStart, AbortedRequest, RequestActive,
       Release, TypeOK, RequestRecord, SaveRecord, FinishedIsQuiet,
       SavesHoldTheirBatch, RequestActive, SaveActive
<1>6. ASSUME NEW b \in Batch, NEW s \in Save, NEW kind \in {"render", "export"}, SaveBegin(s, b, kind)
      PROVE (FinishedIsQuiet /\ SavesHoldTheirBatch)'
  BY <1>6 DEF SaveBegin, TypeOK, RequestRecord, SaveRecord, FinishedIsQuiet,
       SavesHoldTheirBatch, RequestActive, SaveActive
<1>7. ASSUME NEW s \in Save, SaveUploaded(s)
      PROVE (FinishedIsQuiet /\ SavesHoldTheirBatch)'
  <2>1. CASE saves[s].kind = "render"
    BY <1>7, <2>1 DEF SaveUploaded, TypeOK, SaveRecord, RequestRecord,
         FinishedIsQuiet, SavesHoldTheirBatch, RequestActive
  <2>2. CASE saves[s].kind = "export" /\ cancelled[saves[s].batch] = "no"
    BY <1>7, <2>2 DEF SaveUploaded, Allowed, TypeOK, SaveRecord, RequestRecord,
         FinishedIsQuiet, SavesHoldTheirBatch, RequestActive
  <2>3. CASE saves[s].kind = "export" /\ cancelled[saves[s].batch] = "soft"
    BY <1>7, <2>3 DEF SaveUploaded, Allowed, TypeOK, SaveRecord, RequestRecord,
         FinishedIsQuiet, SavesHoldTheirBatch, RequestActive
  <2> QED
    BY <2>1, <2>2, <2>3, <1>7 DEF SaveUploaded, Allowed
<1>8. ASSUME NEW s \in Save, SavePrepare(s)
      PROVE (FinishedIsQuiet /\ SavesHoldTheirBatch)'
  <2>1. CASE saves[s].kind = "export"
    BY <1>8, <2>1 DEF SavePrepare, TypeOK, SaveRecord, RequestRecord,
         FinishedIsQuiet, SavesHoldTheirBatch, RequestActive
  <2>2. CASE saves[s].kind = "render" /\ cancelled[saves[s].batch] = "no"
    BY <1>8, <2>2 DEF SavePrepare, Allowed, TypeOK, SaveRecord, RequestRecord,
         FinishedIsQuiet, SavesHoldTheirBatch, RequestActive
  <2>3. CASE saves[s].kind = "render" /\ cancelled[saves[s].batch] = "soft"
    BY <1>8, <2>3 DEF SavePrepare, Allowed, TypeOK, SaveRecord, RequestRecord,
         FinishedIsQuiet, SavesHoldTheirBatch, RequestActive
  <2> QED
    BY <2>1, <2>2, <2>3, <1>8 DEF SavePrepare, Allowed
<1>9. ASSUME NEW s \in Save, SaveWrite(s)
      PROVE (FinishedIsQuiet /\ SavesHoldTheirBatch)'
  BY <1>9 DEF SaveWrite, MaySave, Stopped, TypeOK, RequestRecord, SaveRecord,
       FinishedIsQuiet, SavesHoldTheirBatch, RequestActive, SaveActive
<1>10. ASSUME NEW s \in Save, SaveCommit(s)
      PROVE (FinishedIsQuiet /\ SavesHoldTheirBatch)'
  BY <1>10 DEF SaveCommit, TypeOK, RequestRecord, SaveRecord, FinishedIsQuiet,
       SavesHoldTheirBatch, RequestActive, SaveActive
<1>11. ASSUME NEW s \in Save, SaveSettle(s)
      PROVE (FinishedIsQuiet /\ SavesHoldTheirBatch)'
  BY <1>11 DEF SaveSettle, TypeOK, RequestRecord, SaveRecord, FinishedIsQuiet,
       SavesHoldTheirBatch, RequestActive, SaveActive
<1>12. ASSUME NEW s \in Save, SaveEnd(s)
      PROVE (FinishedIsQuiet /\ SavesHoldTheirBatch)'
  BY <1>12 DEF SaveEnd, Touch, HoldsLease, TypeOK, RequestRecord, SaveRecord,
       FinishedIsQuiet, SavesHoldTheirBatch, RequestActive, SaveActive
<1>13. ASSUME DigestEnd PROVE (FinishedIsQuiet /\ SavesHoldTheirBatch)'
  BY <1>13 DEF DigestEnd, Touch, TypeOK, RequestRecord, SaveRecord, FinishedIsQuiet,
       SavesHoldTheirBatch, RequestActive, SaveActive
<1>14. ASSUME SettingsSweep PROVE (FinishedIsQuiet /\ SavesHoldTheirBatch)'
  BY <1>14 DEF SettingsSweep, CancelWork, AbortedStart, AbortedRequest, TypeOK,
       RequestRecord, SaveRecord, FinishedIsQuiet, SavesHoldTheirBatch,
       RequestActive, SaveActive
<1>15. ASSUME ClientGone PROVE (FinishedIsQuiet /\ SavesHoldTheirBatch)'
  BY <1>15 DEF ClientGone, Kept, TypeOK, RequestRecord, SaveRecord, FinishedIsQuiet,
       SavesHoldTheirBatch, RequestActive, SaveActive
<1>16. ASSUME Shutdown PROVE (FinishedIsQuiet /\ SavesHoldTheirBatch)'
  BY <1>16 DEF Shutdown, CancelWork, AbortedStart, AbortedRequest, TypeOK,
       RequestRecord, SaveRecord, FinishedIsQuiet, SavesHoldTheirBatch,
       RequestActive, SaveActive
<1> QED
  BY <1>1, <1>2, <1>3, <1>4, <1>5, <1>6, <1>7, <1>8, <1>9, <1>10, <1>11, <1>12,
       <1>13, <1>14, <1>15, <1>16 DEF Next, StartStep, SaveStep

\* Whatever goes on saving when its batch is cancelled hard is aborted.
LEMMA HardStep == IndInv /\ [Next]_vars => HardAborts'
<1> SUFFICES ASSUME IndInv, [Next]_vars PROVE HardAborts'
  OBVIOUS
<1> USE ConstantsAssumption DEF vars, batchVars, workVars, envVars, NoStart, NoRequest, NoSave, IndInv
<1>1. CASE \E b \in Batch : BatchStart(b) \/ StartEnter(b) \/ StartReuse(b)
      \/ StartLoad(b) \/ StartCreate(b) \/ StartFail(b) \/ Digest(b) \/ Heartbeat(b)
      \/ BatchFinish(b) \/ FinishRelease(b) \/ LeaseExpires(b)
  BY <1>1 DEF BatchStart, StartEnter, StartReuse, StartLoad, StartCreate, StartFail,
       Digest, Heartbeat, BatchFinish, FinishRelease, LeaseExpires, TypeOK,
       SaveRecord, HardAborts, SavesHoldTheirBatch
<1>2. CASE DigestEnd \/ SettingsCommit \/ SchedulerRun \/ SchedulerEnd
      \/ UNCHANGED vars
  BY <1>2 DEF DigestEnd, SettingsCommit, SchedulerRun, SchedulerEnd, TypeOK,
       SaveRecord, HardAborts, SavesHoldTheirBatch
<1>3. ASSUME NEW b \in Batch, NEW hard \in BOOLEAN, DigestCancel(b, hard)
      PROVE HardAborts'
  BY <1>3 DEF DigestCancel, AbortBatch, AbortedStart, AbortedRequest, RequestActive,
       Release, TypeOK, SaveRecord, HardAborts, SavesHoldTheirBatch
<1>4. ASSUME NEW b \in Batch, NEW s \in Save, NEW kind \in {"render", "export"}, SaveBegin(s, b, kind)
      PROVE HardAborts'
  BY <1>4 DEF SaveBegin, TypeOK, SaveRecord, HardAborts, SavesHoldTheirBatch
<1>5. ASSUME NEW s \in Save, SaveUploaded(s) PROVE HardAborts'
  <2>1. CASE saves[s].kind = "render"
    BY <1>5, <2>1 DEF SaveUploaded, TypeOK, SaveRecord, HardAborts,
         SavesHoldTheirBatch
  <2>2. CASE saves[s].kind = "export" /\ cancelled[saves[s].batch] = "no"
    BY <1>5, <2>2 DEF SaveUploaded, Allowed, TypeOK, SaveRecord, HardAborts,
         SavesHoldTheirBatch
  <2>3. CASE saves[s].kind = "export" /\ cancelled[saves[s].batch] = "soft"
    BY <1>5, <2>3 DEF SaveUploaded, Allowed, TypeOK, SaveRecord, HardAborts,
         SavesHoldTheirBatch
  <2> QED
    BY <2>1, <2>2, <2>3, <1>5 DEF SaveUploaded, Allowed
<1>6. ASSUME NEW s \in Save, SavePrepare(s) PROVE HardAborts'
  <2>1. CASE saves[s].kind = "export"
    BY <1>6, <2>1 DEF SavePrepare, TypeOK, SaveRecord, HardAborts, SavesHoldTheirBatch
  <2>2. CASE saves[s].kind = "render" /\ cancelled[saves[s].batch] = "no"
    BY <1>6, <2>2 DEF SavePrepare, Allowed, TypeOK, SaveRecord, HardAborts,
         SavesHoldTheirBatch
  <2>3. CASE saves[s].kind = "render" /\ cancelled[saves[s].batch] = "soft"
    BY <1>6, <2>3 DEF SavePrepare, Allowed, TypeOK, SaveRecord, HardAborts,
         SavesHoldTheirBatch
  <2> QED
    BY <2>1, <2>2, <2>3, <1>6 DEF SavePrepare, Allowed
<1>7. ASSUME NEW s \in Save, SaveWrite(s) PROVE HardAborts'
  BY <1>7 DEF SaveWrite, MaySave, Stopped, TypeOK, SaveRecord, HardAborts,
       SavesHoldTheirBatch
<1>8. ASSUME NEW s \in Save, SaveCommit(s) PROVE HardAborts'
  BY <1>8 DEF SaveCommit, TypeOK, SaveRecord, HardAborts, SavesHoldTheirBatch
<1>9. ASSUME NEW s \in Save, SaveSettle(s) PROVE HardAborts'
  BY <1>9 DEF SaveSettle, TypeOK, SaveRecord, HardAborts, SavesHoldTheirBatch
<1>10. ASSUME NEW s \in Save, SaveEnd(s) PROVE HardAborts'
  BY <1>10 DEF SaveEnd, Touch, HoldsLease, TypeOK, SaveRecord, HardAborts,
       SavesHoldTheirBatch
<1>11. ASSUME SettingsSweep PROVE HardAborts'
  BY <1>11 DEF SettingsSweep, CancelWork, AbortedStart, AbortedRequest, TypeOK,
       SaveRecord, HardAborts, SavesHoldTheirBatch
<1>12. ASSUME ClientGone PROVE HardAborts'
  BY <1>12 DEF ClientGone, Kept, TypeOK, SaveRecord, HardAborts, SavesHoldTheirBatch
<1>13. ASSUME Shutdown PROVE HardAborts'
  BY <1>13 DEF Shutdown, CancelWork, AbortedStart, AbortedRequest, TypeOK,
       SaveRecord, HardAborts, SavesHoldTheirBatch
<1> QED
  BY <1>1, <1>2, <1>3, <1>4, <1>5, <1>6, <1>7, <1>8, <1>9, <1>10, <1>11, <1>12,
       <1>13 DEF Next, StartStep, SaveStep

\* A change that overtook a commit is still there to be seen when it is answered.
LEMMA SpoiledStep == IndInv /\ [Next]_vars => (CleanAnswerIsTrue /\ SpoiledIsSeen)'
<1> SUFFICES ASSUME IndInv, [Next]_vars PROVE (CleanAnswerIsTrue /\ SpoiledIsSeen)'
  OBVIOUS
<1> USE ConstantsAssumption DEF vars, batchVars, workVars, envVars, NoStart, NoRequest, NoSave, IndInv
<1>1. CASE \E b \in Batch : BatchStart(b) \/ StartEnter(b) \/ StartReuse(b)
      \/ StartLoad(b) \/ StartCreate(b) \/ StartFail(b) \/ Digest(b) \/ Heartbeat(b)
      \/ BatchFinish(b) \/ FinishRelease(b) \/ LeaseExpires(b)
  BY <1>1 DEF BatchStart, StartEnter, StartReuse, StartLoad, StartCreate, StartFail,
       Digest, Heartbeat, BatchFinish, FinishRelease, LeaseExpires, TypeOK,
       SaveRecord, Rev, CleanAnswerIsTrue, SpoiledIsSeen, HardAborts,
       SavesHoldTheirBatch
<1>2. CASE DigestEnd \/ SchedulerRun \/ SchedulerEnd \/ UNCHANGED vars
  BY <1>2 DEF DigestEnd, SchedulerRun, SchedulerEnd, TypeOK, SaveRecord, Rev,
       CleanAnswerIsTrue, SpoiledIsSeen, HardAborts, SavesHoldTheirBatch
<1>3. ASSUME NEW b \in Batch, NEW hard \in BOOLEAN, DigestCancel(b, hard)
      PROVE (CleanAnswerIsTrue /\ SpoiledIsSeen)'
  BY <1>3 DEF DigestCancel, AbortBatch, AbortedStart, AbortedRequest, RequestActive,
       Release, TypeOK, SaveRecord, Rev, CleanAnswerIsTrue, SpoiledIsSeen,
       HardAborts, SavesHoldTheirBatch
<1>4. ASSUME NEW b \in Batch, NEW s \in Save, NEW kind \in {"render", "export"}, SaveBegin(s, b, kind)
      PROVE (CleanAnswerIsTrue /\ SpoiledIsSeen)'
  BY <1>4 DEF SaveBegin, TypeOK, SaveRecord, Rev, CleanAnswerIsTrue, SpoiledIsSeen,
       HardAborts, SavesHoldTheirBatch
<1>5. ASSUME NEW s \in Save, SaveUploaded(s)
      PROVE (CleanAnswerIsTrue /\ SpoiledIsSeen)'
  <2>1. CASE saves[s].kind = "render"
    BY <1>5, <2>1 DEF SaveUploaded, TypeOK, SaveRecord, Rev, CleanAnswerIsTrue,
         SpoiledIsSeen, HardAborts, SavesHoldTheirBatch
  <2>2. CASE saves[s].kind = "export" /\ cancelled[saves[s].batch] = "no"
    BY <1>5, <2>2 DEF SaveUploaded, Allowed, TypeOK, SaveRecord, Rev,
         CleanAnswerIsTrue, SpoiledIsSeen, HardAborts, SavesHoldTheirBatch
  <2>3. CASE saves[s].kind = "export" /\ cancelled[saves[s].batch] = "soft"
    BY <1>5, <2>3 DEF SaveUploaded, Allowed, TypeOK, SaveRecord, Rev,
         CleanAnswerIsTrue, SpoiledIsSeen, HardAborts, SavesHoldTheirBatch
  <2> QED
    BY <2>1, <2>2, <2>3, <1>5 DEF SaveUploaded, Allowed
<1>6. ASSUME NEW s \in Save, SavePrepare(s)
      PROVE (CleanAnswerIsTrue /\ SpoiledIsSeen)'
  <2>1. CASE saves[s].kind = "export"
    BY <1>6, <2>1 DEF SavePrepare, TypeOK, SaveRecord, Rev, CleanAnswerIsTrue,
         SpoiledIsSeen, HardAborts, SavesHoldTheirBatch
  <2>2. CASE saves[s].kind = "render" /\ cancelled[saves[s].batch] = "no"
    BY <1>6, <2>2 DEF SavePrepare, Allowed, TypeOK, SaveRecord, Rev,
         CleanAnswerIsTrue, SpoiledIsSeen, HardAborts, SavesHoldTheirBatch
  <2>3. CASE saves[s].kind = "render" /\ cancelled[saves[s].batch] = "soft"
    BY <1>6, <2>3 DEF SavePrepare, Allowed, TypeOK, SaveRecord, Rev,
         CleanAnswerIsTrue, SpoiledIsSeen, HardAborts, SavesHoldTheirBatch
  <2> QED
    BY <2>1, <2>2, <2>3, <1>6 DEF SavePrepare, Allowed
<1>7. ASSUME NEW s \in Save, SaveWrite(s) PROVE (CleanAnswerIsTrue /\ SpoiledIsSeen)'
  BY <1>7 DEF SaveWrite, MaySave, Stopped, TypeOK, SaveRecord, Rev,
       CleanAnswerIsTrue, SpoiledIsSeen, HardAborts, SavesHoldTheirBatch
<1>8. ASSUME NEW s \in Save, SaveCommit(s) PROVE (CleanAnswerIsTrue /\ SpoiledIsSeen)'
  BY <1>8 DEF SaveCommit, TypeOK, SaveRecord, Rev, CleanAnswerIsTrue, SpoiledIsSeen,
       HardAborts, SavesHoldTheirBatch
<1>9. ASSUME NEW s \in Save, SaveSettle(s) PROVE (CleanAnswerIsTrue /\ SpoiledIsSeen)'
  BY <1>9 DEF SaveSettle, TypeOK, SaveRecord, Rev, CleanAnswerIsTrue, SpoiledIsSeen,
       HardAborts, SavesHoldTheirBatch
<1>10. ASSUME NEW s \in Save, SaveEnd(s) PROVE (CleanAnswerIsTrue /\ SpoiledIsSeen)'
  BY <1>10 DEF SaveEnd, Touch, HoldsLease, TypeOK, SaveRecord, Rev,
       CleanAnswerIsTrue, SpoiledIsSeen, HardAborts, SavesHoldTheirBatch
<1>11. ASSUME SettingsCommit PROVE (CleanAnswerIsTrue /\ SpoiledIsSeen)'
  BY <1>11 DEF SettingsCommit, TypeOK, SaveRecord, Rev, CleanAnswerIsTrue,
       SpoiledIsSeen, HardAborts, SavesHoldTheirBatch
<1>12. ASSUME SettingsSweep PROVE (CleanAnswerIsTrue /\ SpoiledIsSeen)'
  BY <1>12 DEF SettingsSweep, CancelWork, AbortedStart, AbortedRequest, TypeOK,
       SaveRecord, Rev, CleanAnswerIsTrue, SpoiledIsSeen, HardAborts,
       SavesHoldTheirBatch
<1>13. ASSUME ClientGone PROVE (CleanAnswerIsTrue /\ SpoiledIsSeen)'
  BY <1>13 DEF ClientGone, Kept, TypeOK, SaveRecord, Rev, CleanAnswerIsTrue,
       SpoiledIsSeen, HardAborts, SavesHoldTheirBatch
<1>14. ASSUME Shutdown PROVE (CleanAnswerIsTrue /\ SpoiledIsSeen)'
  BY <1>14 DEF Shutdown, CancelWork, AbortedStart, AbortedRequest, TypeOK,
       SaveRecord, Rev, CleanAnswerIsTrue, SpoiledIsSeen, HardAborts,
       SavesHoldTheirBatch
<1> QED
  BY <1>1, <1>2, <1>3, <1>4, <1>5, <1>6, <1>7, <1>8, <1>9, <1>10, <1>11, <1>12,
       <1>13, <1>14 DEF Next, StartStep, SaveStep

\* Every step keeps the inductive invariant.
LEMMA StepInv == IndInv /\ [Next]_vars => IndInv'
  BY TypeStep, SchedulerStep, SnapshotStep, FinishedStep, HardStep, SpoiledStep DEF IndInv

\* The scheduler and the work by hand exclude each other, no batch holds old
\* settings, a finished batch is quiet, and an answer without a warning is true.
THEOREM BatchesAreSafe == Spec => []IndInv
<1>1. Init => IndInv
  BY InitInv
<1>2. IndInv /\ [Next]_vars => IndInv'
  BY StepInv
<1> QED
  BY <1>1, <1>2, PTL DEF Spec

\* Only SaveWrite takes a save over its last look.
LEMMA LastLook ==
  ASSUME IndInv, [Next]_vars, NEW s \in Save,
         saves[s].pc = "write", saves'[s].pc = "commit"
  PROVE  cancelled[saves[s].batch] # "hard"
<1> USE DEF IndInv, vars, batchVars, workVars, envVars
<1>1. CASE \E t \in Save : SaveWrite(t)
  BY <1>1 DEF SaveWrite, Stopped, HardAborts, SavesHoldTheirBatch, TypeOK, SaveRecord
<1>2. CASE \E b \in Batch : StartStep(b) \/ BatchStart(b) \/ Digest(b) \/ Heartbeat(b)
                            \/ BatchFinish(b) \/ FinishRelease(b) \/ LeaseExpires(b)
  BY <1>2 DEF StartStep, StartEnter, StartReuse, StartLoad, StartCreate, StartFail,
       BatchStart, Digest, Heartbeat, BatchFinish, FinishRelease, LeaseExpires
<1>3. CASE \E b \in Batch, hard \in BOOLEAN : DigestCancel(b, hard)
  BY <1>3 DEF DigestCancel, AbortBatch, TypeOK, SaveRecord
<1>4. CASE \E b \in Batch, t \in Save, kind \in {"render", "export"} : SaveBegin(t, b, kind)
  BY <1>4 DEF SaveBegin, NoSave, TypeOK, SaveRecord
<1>5. CASE \E t \in Save : SaveUploaded(t) \/ SavePrepare(t) \/ SaveCommit(t)
                           \/ SaveSettle(t) \/ SaveEnd(t)
  <2> PICK t \in Save : SaveUploaded(t) \/ SavePrepare(t) \/ SaveCommit(t)
                        \/ SaveSettle(t) \/ SaveEnd(t)
    BY <1>5
  <2>1. t # s => saves'[s] = saves[s]
    BY DEF SaveUploaded, SavePrepare, Allowed, SaveCommit, SaveSettle, SaveEnd, TypeOK
  <2>2. saves'[t].pc # "commit" \/ saves[t].pc = "commit"
    BY DEF SaveUploaded, SavePrepare, Allowed, SaveCommit, SaveSettle, SaveEnd,
         NoSave, TypeOK, SaveRecord
  <2> QED
    BY <2>1, <2>2
<1>6. CASE DigestEnd \/ SettingsCommit \/ SchedulerRun \/ SchedulerEnd \/ UNCHANGED vars
  BY <1>6 DEF DigestEnd, SettingsCommit, SchedulerRun, SchedulerEnd
<1>7. CASE SettingsSweep \/ Shutdown \/ ClientGone
  BY <1>7 DEF SettingsSweep, Shutdown, ClientGone, CancelWork, TypeOK, SaveRecord
<1> QED
  BY <1>1, <1>2, <1>3, <1>4, <1>5, <1>6, <1>7 DEF Next, SaveStep

\* A hard cancellation stops every save that has not passed its last look, also
\* one that a soft stop had let go on.
THEOREM HardCancelIsFinal == Spec => HardCancelStopsSaves
<1> DEFINE Look == \A s \in Save : saves[s].pc = "write" /\ saves'[s].pc = "commit"
                                   => cancelled[saves[s].batch] # "hard"
<1>1. IndInv /\ [Next]_vars => [Look]_vars
  BY LastLook
<1> QED
  BY <1>1, BatchesAreSafe, PTL DEF Spec, HardCancelStopsSaves
=============================================================================
