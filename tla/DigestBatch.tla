----------------------------- MODULE DigestBatch -----------------------------
(***************************************************************************)
(* The digests made by hand (main.js): a page starts a batch, which takes  *)
(* a snapshot of the settings, asks for one digest after another, saves or *)
(* exports the results, renews the lease of the batch and finishes or      *)
(* cancels it.  Beside it the settings change, the scheduler runs, the     *)
(* page goes away and the service shuts down.  A step stands for the code  *)
(* between two awaits of a handler.  The page is free: it may send any     *)
(* request at any time, in any order and for any batch, but it makes a new *)
(* batch id for every run (batch-runner.js) and so has no two starts       *)
(* of one batch under way.                                                 *)
(***************************************************************************)
EXTENDS Naturals

CONSTANTS Batch,    \* batch ids
          Save,     \* the slots of ACTIVE_DIGEST_SAVES
          MaxRev,   \* bound: changes of the settings
          None      \* no batch, no revision

ASSUME ConstantsAssumption ==
    /\ MaxRev \in Nat
    /\ None \notin Batch /\ None \notin Nat

VARIABLES
    lease,      \* ACTIVE_DIGEST_BATCH_LEASES; a failed start asks the stage
    snapshot,   \* DIGEST_BATCH_SETTINGS: the revision a batch works with
    cancelled,  \* CANCELLED_DIGEST_BATCHES: no, soft_stop_after_current or hard
    finished,   \* FINISHED_DIGEST_BATCHES
    starts,     \* /api/digest-batch-start, one per batch
    request,    \* ACTIVE_DIGEST_REQUESTS: one slot
    saves,      \* ACTIVE_DIGEST_SAVES: /api/save-render and /api/export-preview
    rev,        \* the revision of the settings on disk
    unswept,    \* settings requests that have committed and not yet cancelled the work
    scheduler,  \* the background scheduler's activity
    closed,     \* DIGEST_WORK_ADMISSION_CLOSED
    client      \* the page is there
batchVars == <<lease, snapshot, cancelled, finished>>
workVars == <<starts, request, saves>>
envVars == <<rev, unswept, scheduler, closed, client>>
vars == <<batchVars, workVars, envVars>>

Rev == 0..MaxRev
NoStart == [pc |-> "idle", rev |-> None, aborted |-> FALSE]
NoRequest == [pc |-> "idle", batch |-> None, rev |-> None, aborted |-> FALSE]
NoSave == [pc |-> "idle", kind |-> "render", batch |-> None, rev |-> None,
           allow |-> FALSE, aborted |-> FALSE,
           spoiled |-> FALSE, flagged |-> FALSE]

StartRecord == [pc : {"idle", "account", "settings", "models"},
                rev : Rev \cup {None}, aborted : BOOLEAN]
RequestRecord == [pc : {"idle", "running"}, batch : Batch \cup {None},
                  rev : Rev \cup {None}, aborted : BOOLEAN]
SaveRecord == [pc : {"idle", "uploading", "prepare", "write", "commit", "settle", "done"},
               kind : {"render", "export"}, batch : Batch \cup {None},
               rev : Rev \cup {None}, allow : BOOLEAN, aborted : BOOLEAN,
               spoiled : BOOLEAN, flagged : BOOLEAN]

TypeOK ==
    /\ lease \in [Batch -> {"none", "batch_start", "other"}]
    /\ snapshot \in [Batch -> Rev \cup {None}]
    /\ cancelled \in [Batch -> {"no", "soft", "hard"}]
    /\ finished \subseteq Batch
    /\ starts \in [Batch -> StartRecord]
    /\ request \in RequestRecord
    /\ saves \in [Save -> SaveRecord]
    /\ rev \in Rev /\ unswept \in Rev
    /\ scheduler \in {"idle", "run"}
    /\ closed \in BOOLEAN /\ client \in BOOLEAN

Init ==
    /\ lease = [b \in Batch |-> "none"]
    /\ snapshot = [b \in Batch |-> None] /\ cancelled = [b \in Batch |-> "no"]
    /\ finished = {}
    /\ starts = [b \in Batch |-> NoStart] /\ request = NoRequest
    /\ saves = [s \in Save |-> NoSave]
    /\ rev = 0 /\ unswept = 0 /\ scheduler = "idle"
    /\ closed = FALSE /\ client = TRUE

-----------------------------------------------------------------------------
(* What the handlers ask of the shared maps *)

\* ACTIVE_DIGEST_BATCH_STARTS has the batch once its settings are read.
StartActive(b) == starts[b].pc \in {"settings", "models"}
RequestActive(b) == request.batch = b
SaveActive(b) == \E s \in Save : saves[s].batch = b
Pending(b) == StartActive(b) \/ RequestActive(b) \/ SaveActive(b)

ManualIdle ==
    /\ \A b \in Batch : ~StartActive(b) /\ lease[b] = "none"
    /\ request.pc = "idle"
    /\ \A s \in Save : saves[s].pc = "idle"

Known(b) ==
    \/ lease[b] # "none" \/ cancelled[b] # "no"
    \/ b \in finished \/ snapshot[b] # None

Conflict(b) == \E c \in Batch \ {b} : lease[c] # "none"

\* throwIfDigestBatchCancelled, with allowSave.
MaySave(b, allow) == cancelled[b] = "no" \/ (allow /\ cancelled[b] = "soft")

\* Whether a batch that was stopped softly may still save is settled once.
Allowed(s, pc, r) ==
    LET b == saves[s].batch IN
    \/ /\ cancelled[b] = "no"
       /\ saves' = [saves EXCEPT ![s].pc = pc, ![s].rev = r]
    \/ /\ cancelled[b] = "soft"
       /\ saves' = [saves EXCEPT ![s].pc = pc, ![s].rev = r, ![s].allow = TRUE]

\* An export of a finished batch leaves its lease alone.
HoldsLease(v) == v.kind = "render" \/ v.batch \notin finished

\* saveRenderedPng and savePreviewMarkdown: the signal and shouldAbort.
Stopped(s) ==
    LET v == saves[s] IN
      v.aborted \/ (~v.allow /\ cancelled[v.batch] = "hard")

\* The signal of a start is known once the batch counts as work.
AbortedStart(b) ==
    IF StartActive(b) THEN [starts[b] EXCEPT !.aborted = TRUE] ELSE starts[b]
AbortedRequest == [request EXCEPT !.aborted = TRUE]

Register(b, st) == lease' = [lease EXCEPT ![b] = st]
Touch(b) == lease' = [lease EXCEPT ![b] = IF @ = "none" THEN @ ELSE "other"]
\* A start that failed: the stage of the lease says whether it is still its own.
GiveUp(b) == lease' = [lease EXCEPT ![b] =
    IF StartActive(b) /\ @ = "batch_start" THEN "none" ELSE @]
Release(b) == lease' = [lease EXCEPT ![b] = IF Pending(b) THEN @ ELSE "none"]

-----------------------------------------------------------------------------
(* /api/digest-batch-start *)

\* The account is read and the batch is still not finished.  Whether old data
\* may be used is asked next.
BatchStart(b) ==
    /\ client /\ starts[b].pc = "idle"
    /\ b \notin finished /\ scheduler = "idle"
    /\ starts' = [starts EXCEPT ![b] = [NoStart EXCEPT !.pc = "account"]]
    /\ UNCHANGED <<batchVars, request, saves, envVars>>

\* From here the batch counts as work, in the same step as the last checks.
StartEnter(b) ==
    /\ starts[b].pc = "account"
    /\ IF ~Conflict(b) /\ scheduler = "idle" /\ cancelled[b] = "no" /\ ~closed
         THEN /\ starts' = [starts EXCEPT ![b].pc = "settings"]
              /\ Register(b, "batch_start")
         ELSE starts' = [starts EXCEPT ![b] = NoStart] /\ UNCHANGED lease
    /\ UNCHANGED <<snapshot, cancelled, finished, request, saves, envVars>>

\* createDigestBatchSettings: a snapshot that is there is used again ...
StartReuse(b) ==
    /\ starts[b].pc = "settings" /\ snapshot[b] # None
    /\ cancelled[b] = "no" /\ ~starts[b].aborted
    /\ starts' = [starts EXCEPT ![b] = NoStart]
    /\ Touch(b)
    /\ UNCHANGED <<snapshot, cancelled, finished, request, saves, envVars>>

\* ... or the settings are read, and the models of the provider asked for.
StartLoad(b) ==
    /\ starts[b].pc = "settings" /\ snapshot[b] = None
    /\ starts' = [starts EXCEPT ![b].pc = "models", ![b].rev = rev]
    /\ UNCHANGED <<batchVars, request, saves, envVars>>

\* The signal is looked at after the snapshot is kept: an aborted start leaves
\* its snapshot and gives the lease up.
StartCreate(b) ==
    /\ starts[b].pc = "models" /\ cancelled[b] = "no"
    /\ snapshot' = [snapshot EXCEPT ![b] = starts[b].rev]
    /\ starts' = [starts EXCEPT ![b] = NoStart]
    /\ IF starts[b].aborted THEN GiveUp(b) ELSE Touch(b)
    /\ UNCHANGED <<cancelled, finished, request, saves, envVars>>

\* The page's revision is old, a read fails, the request is aborted: the lease
\* goes only if no other request has taken it over.
StartFail(b) ==
    /\ starts[b].pc # "idle"
    /\ starts' = [starts EXCEPT ![b] = NoStart]
    /\ GiveUp(b)
    /\ UNCHANGED <<snapshot, cancelled, finished, request, saves, envVars>>

-----------------------------------------------------------------------------
(* /api/digest *)

\* The checks, the slot, the lease and the snapshot: nothing is awaited.
Digest(b) ==
    /\ client /\ Known(b) /\ b \notin finished
    /\ snapshot[b] # None /\ cancelled[b] = "no"
    /\ scheduler = "idle" /\ ~closed
    /\ request.pc = "idle"
    /\ request' = [NoRequest EXCEPT !.pc = "running", !.batch = b,
                                     !.rev = snapshot[b]]
    /\ Register(b, "other")
    /\ UNCHANGED <<snapshot, cancelled, finished, starts, saves, envVars>>

\* Done, failed, aborted, or given up at the deadline of the job.
DigestEnd ==
    /\ request.pc # "idle"
    /\ Touch(request.batch)
    /\ request' = NoRequest
    /\ UNCHANGED <<snapshot, cancelled, finished, starts, saves, envVars>>

-----------------------------------------------------------------------------
(* /api/save-render and /api/export-preview *)

\* Mutated: the admission is not asked.
SaveBeginAlways(s, b, kind) ==
    /\ client /\ saves[s].pc = "idle"
    /\ Known(b) /\ (kind = "render" => b \notin finished)
    /\ saves' = [saves EXCEPT ![s] = [NoSave EXCEPT !.pc = "uploading",
                                      !.kind = kind, !.batch = b]]
    /\ UNCHANGED <<batchVars, starts, request, envVars>>

SaveBegin(s, b, kind) ==
    /\ client /\ ~closed /\ saves[s].pc = "idle"
    /\ Known(b) /\ (kind = "render" => b \notin finished)
    /\ saves' = [saves EXCEPT ![s] = [NoSave EXCEPT !.pc = "uploading",
                                      !.kind = kind, !.batch = b]]
    /\ UNCHANGED <<batchVars, starts, request, envVars>>

\* The upload is complete: the lease is taken, by an export only while the
\* batch is not finished, and an export asks whether the batch is cancelled.
SaveUploaded(s) ==
    LET v == saves[s] IN
    /\ v.pc = "uploading" /\ ~v.aborted
    /\ \/ v.kind = "render" /\ saves' = [saves EXCEPT ![s].pc = "prepare"]
       \/ v.kind = "export" /\ Allowed(s, "prepare", v.rev)
    /\ IF HoldsLease(v) THEN Register(v.batch, "other") ELSE UNCHANGED lease
    /\ UNCHANGED <<snapshot, cancelled, finished, starts, request, envVars>>

\* A long image is saved under the settings of its batch, if they are still the
\* current ones, an export under the current ones.
SavePrepare(s) ==
    LET v == saves[s] IN
    /\ v.pc = "prepare" /\ ~v.aborted
    /\ \/ v.kind = "render" /\ snapshot[v.batch] = rev /\ Allowed(s, "write", rev)
       \/ v.kind = "export"
          /\ saves' = [saves EXCEPT ![s].pc = "write", ![s].rev = rev]
    /\ UNCHANGED <<batchVars, starts, request, envVars>>

\* The files are written; before the index the signal, the cancellation and
\* the settings are looked at once more.
SaveWrite(s) ==
    LET v == saves[s] IN
    /\ v.pc = "write" /\ ~Stopped(s) /\ v.rev = rev
    /\ v.kind = "export" => MaySave(v.batch, v.allow)
    /\ saves' = [saves EXCEPT ![s].pc = "commit"]
    /\ UNCHANGED <<batchVars, starts, request, envVars>>

\* The history index names the digest.
SaveCommit(s) ==
    LET v == saves[s] IN
    /\ v.pc = "commit"
    /\ saves' = [saves EXCEPT ![s].pc = "settle",
         ![s].spoiled = cancelled[v.batch] = "hard" \/ v.rev # rev]
    /\ UNCHANGED <<batchVars, starts, request, envVars>>

\* Mutated: the settings are not read again after the commit.
SaveSettleTrusting(s) ==
    LET v == saves[s] IN
    /\ v.pc = "settle"
    /\ saves' = [saves EXCEPT ![s].pc = "done",
         ![s].flagged = v.aborted \/ cancelled[v.batch] = "hard"]
    /\ UNCHANGED <<batchVars, starts, request, envVars>>

\* After the commit the settings and the cancellation are looked at again, and
\* the answer says when they had changed.
SaveSettle(s) ==
    LET v == saves[s]
        changed == v.rev # rev
        hard == v.kind = "render" /\ cancelled[v.batch] = "hard"
        gone == v.aborted /\ (v.kind = "export" \/ cancelled[v.batch] # "soft")
    IN
    /\ v.pc = "settle"
    /\ saves' = [saves EXCEPT ![s].pc = "done", ![s].flagged = changed \/ hard \/ gone]
    /\ UNCHANGED <<batchVars, starts, request, envVars>>

\* Mutated: only a save that is answered gives its slot back.
SaveEndAnswered(s) ==
    LET v == saves[s] IN
    /\ v.pc = "done"
    /\ saves' = [saves EXCEPT ![s] = NoSave]
    /\ IF HoldsLease(v) THEN Touch(v.batch) ELSE UNCHANGED lease
    /\ UNCHANGED <<snapshot, cancelled, finished, starts, request, envVars>>

\* The answer is sent, or the save fails at any step before the commit.
SaveEnd(s) ==
    LET v == saves[s] IN
    /\ v.pc \notin {"idle", "settle"}
    /\ saves' = [saves EXCEPT ![s] = NoSave]
    /\ IF HoldsLease(v) THEN Touch(v.batch) ELSE UNCHANGED lease
    /\ UNCHANGED <<snapshot, cancelled, finished, starts, request, envVars>>

-----------------------------------------------------------------------------
(* Heartbeat, cancellation and the end of a batch *)

\* A lease that is there is renewed; one that has run out is taken again, unless
\* another batch has one.
Heartbeat(b) ==
    /\ client /\ Known(b) /\ cancelled[b] = "no" /\ b \notin finished
    /\ lease[b] = "none" /\ ~Conflict(b)
    /\ Register(b, "other")
    /\ UNCHANGED <<snapshot, cancelled, finished, workVars, envVars>>

\* Mutated: the saves under way are left to find out for themselves.
AbortBatchButSaves(b, hard) ==
    /\ starts' = [starts EXCEPT ![b] = AbortedStart(b)]
    /\ request' = IF RequestActive(b) THEN AbortedRequest ELSE request
    /\ UNCHANGED saves

\* abortActiveDigestBatch: a soft stop lets the saves under way go on.
AbortBatch(b, hard) ==
    /\ starts' = [starts EXCEPT ![b] = AbortedStart(b)]
    /\ request' = IF RequestActive(b) THEN AbortedRequest ELSE request
    /\ saves' = [s \in Save |->
         IF saves[s].batch # b THEN saves[s]
         ELSE IF hard THEN [saves[s] EXCEPT !.aborted = TRUE]
         ELSE IF saves[s].pc \in {"uploading", "prepare"} THEN [saves[s] EXCEPT !.allow = TRUE]
         ELSE saves[s]]

DigestCancel(b, hard) ==
    /\ client /\ b \notin finished
    /\ AbortBatch(b, hard)
    /\ cancelled' = [cancelled EXCEPT ![b] = IF hard \/ @ = "hard" THEN "hard" ELSE "soft"]
    /\ snapshot' = [snapshot EXCEPT ![b] = IF cancelled'[b] = "hard" THEN None ELSE @]
    /\ Release(b)
    /\ UNCHANGED <<finished, envVars>>

\* With work under way the answer is "pending"; otherwise the tombstone is set.
BatchFinish(b) ==
    /\ client /\ Known(b) /\ ~Pending(b)
    /\ finished' = finished \cup {b}
    /\ UNCHANGED <<lease, snapshot, cancelled, workVars, envVars>>

\* After the tombstone is on disk and the reading session is closed; if that
\* fails the lease stays until it runs out.
FinishRelease(b) ==
    /\ b \in finished /\ lease[b] # "none"
    /\ Release(b)
    /\ UNCHANGED <<snapshot, cancelled, finished, workVars, envVars>>

\* DIGEST_BATCH_LEASE_TTL_MS without a touch and without work under way.
LeaseExpires(b) ==
    /\ lease[b] # "none" /\ ~Pending(b)
    /\ lease' = [lease EXCEPT ![b] = "none"]
    /\ UNCHANGED <<snapshot, cancelled, finished, workVars, envVars>>

-----------------------------------------------------------------------------
(* The settings, the scheduler, the page and the shutdown *)

\* cancelActiveDigestWork: everything under way is aborted, its batches are
\* cancelled, and no snapshot stays.
CancelWork ==
    LET hit == {b \in Batch : Pending(b) \/ lease[b] # "none"} IN
    /\ cancelled' = [b \in Batch |-> IF b \in hit THEN "hard" ELSE cancelled[b]]
    /\ snapshot' = [b \in Batch |-> None]
    /\ starts' = [b \in Batch |-> AbortedStart(b)]
    /\ request' = IF request.pc = "idle" THEN request ELSE AbortedRequest
    /\ saves' = [s \in Save |-> IF saves[s].pc = "idle" THEN saves[s]
                                ELSE [saves[s] EXCEPT !.aborted = TRUE]]

SettingsCommit ==
    /\ rev < MaxRev /\ rev' = rev + 1
    /\ unswept' = unswept + 1
    /\ UNCHANGED <<batchVars, workVars, scheduler, closed, client>>

SettingsSweep ==
    /\ unswept > 0 /\ unswept' = unswept - 1
    /\ CancelWork
    /\ UNCHANGED <<lease, finished, rev, scheduler, closed, client>>

\* The probe and the run lease: nothing is awaited between them.
SchedulerRun ==
    /\ scheduler = "idle" /\ ~closed /\ ManualIdle
    /\ scheduler' = "run"
    /\ UNCHANGED <<batchVars, workVars, rev, unswept, closed, client>>

SchedulerEnd ==
    /\ scheduler # "idle" /\ scheduler' = "idle"
    /\ UNCHANGED <<batchVars, workVars, rev, unswept, closed, client>>

\* The page is closed: its requests are aborted, but not a digest, which may be
\* asked for again, nor a complete save of a batch that stops softly.
Kept(s) ==
    LET v == saves[s] IN
      v.kind = "render" /\ v.pc # "uploading" /\ cancelled[v.batch] # "no"

ClientGone ==
    /\ client /\ client' = FALSE
    /\ starts' = [b \in Batch |-> IF starts[b].pc = "idle" THEN starts[b]
                                 ELSE [starts[b] EXCEPT !.aborted = TRUE]]
    /\ saves' = [s \in Save |-> IF saves[s].pc = "idle" \/ Kept(s) THEN saves[s]
                                ELSE [saves[s] EXCEPT !.aborted = TRUE]]
    /\ UNCHANGED <<batchVars, request, rev, unswept, scheduler, closed>>

\* closeDigestWorkAdmission; the scheduler is closed at the same time.
Shutdown ==
    /\ ~closed /\ closed' = TRUE
    /\ CancelWork
    /\ UNCHANGED <<lease, finished, rev, unswept, scheduler, client>>

-----------------------------------------------------------------------------
StartStep(b) ==
    \/ StartEnter(b) \/ StartReuse(b) \/ StartLoad(b)
    \/ StartCreate(b) \/ StartFail(b)
SaveStep(s) ==
    \/ SaveUploaded(s) \/ SavePrepare(s) \/ SaveWrite(s)
    \/ SaveCommit(s) \/ SaveSettle(s) \/ SaveEnd(s)

Next ==
    \/ \E b \in Batch :
         \/ BatchStart(b) \/ StartStep(b) \/ Digest(b)
         \/ Heartbeat(b) \/ BatchFinish(b) \/ FinishRelease(b)
         \/ LeaseExpires(b)
         \/ \E hard \in BOOLEAN : DigestCancel(b, hard)
         \/ \E s \in Save, kind \in {"render", "export"} : SaveBegin(s, b, kind)
    \/ \E s \in Save : SaveStep(s)
    \/ DigestEnd
    \/ SettingsCommit \/ SettingsSweep
    \/ SchedulerRun \/ SchedulerEnd
    \/ ClientGone \/ Shutdown

Spec == Init /\ [][Next]_vars

\* Every handler ends: its reads have time limits, a digest has a deadline.  A
\* lease runs out by the clock, the settings request cancels what it must, the
\* scheduler's run ends.  The page need not do anything.
FairSpec ==
    /\ Spec
    /\ \A b \in Batch : WF_vars(StartStep(b)) /\ WF_vars(LeaseExpires(b))
    /\ \A s \in Save : WF_vars(SaveStep(s))
    /\ WF_vars(DigestEnd) /\ WF_vars(SettingsSweep) /\ WF_vars(SchedulerEnd)

-----------------------------------------------------------------------------
(* Properties *)

\* No batch is being started and no digest made by hand while the scheduler
\* runs: both probes and what they guard happen without an await between
\* (assertSchedulerIdleForManualDigest, manualDigestActivityForScheduler).
SchedulerAlone ==
    scheduler = "run" => request.pc = "idle" /\ \A b \in Batch : ~StartActive(b)

\* Once a settings request has cancelled the work of the old settings, no batch
\* holds them and every digest that is not aborted works with the new ones, also
\* when the batch was reading its settings while they were saved.
SnapshotIsCurrent ==
    unswept = 0 => /\ \A b \in Batch : snapshot[b] \in {None, rev}
                   /\ request.pc = "running" /\ ~request.aborted => request.rev = rev

\* A finished batch makes no digest and writes no long image: the tombstone and
\* the work exclude each other (assertDigestBatchNotFinished).
FinishedIsQuiet ==
    \A b \in finished :
       /\ ~RequestActive(b)
       /\ \A s \in Save : ~(saves[s].batch = b /\ saves[s].kind = "render")

\* A save whose answer has no warning was committed under its own settings,
\* those of that moment, and not for a batch that had been cancelled.
CleanAnswerIsTrue ==
    \A s \in Save : saves[s].pc = "done" /\ ~saves[s].flagged => ~saves[s].spoiled

\* What the others rest on.  Settings read before a change are those of a start
\* whose batch is cancelled; a save that goes on after a hard cancellation is aborted; a
\* commit that the change or the cancellation overtook can be told afterwards.
StartsAreCurrent ==
    unswept = 0 =>
      \A b \in Batch :
        starts[b].pc = "models" /\ cancelled[b] = "no" => starts[b].rev = rev
SavesHoldTheirBatch ==
    /\ request.pc = "running" <=> request.batch # None
    /\ \A s \in Save : saves[s].pc = "idle" <=> saves[s].batch = None
HardAborts ==
    \A s \in Save :
      LET v == saves[s] IN
      v.batch # None /\ cancelled[v.batch] = "hard" =>
        /\ v.pc = "write" => v.aborted
        /\ v.kind = "export" /\ v.pc \in {"prepare", "commit", "settle"} => v.aborted
SpoiledIsSeen ==
    \A s \in Save :
      LET v == saves[s] IN
      /\ v.rev # None => v.rev <= rev
      /\ v.pc \in {"write", "commit", "settle", "done"} => v.rev # None
      /\ v.pc = "settle" /\ v.spoiled => v.rev # rev \/ cancelled[v.batch] = "hard"

IndInv ==
    /\ TypeOK /\ unswept <= rev
    /\ SchedulerAlone /\ SnapshotIsCurrent /\ FinishedIsQuiet /\ CleanAnswerIsTrue
    /\ StartsAreCurrent /\ SavesHoldTheirBatch /\ HardAborts /\ SpoiledIsSeen

\* A save that has not passed its last look when its batch is cancelled hard
\* never enters the history, also when a soft stop had allowed it before.
HardCancelStopsSaves ==
    [][\A s \in Save : saves[s].pc = "write" /\ saves'[s].pc = "commit"
                        => cancelled[saves[s].batch] # "hard"]_vars

\* When the page is gone the scheduler is not kept waiting for ever: whatever
\* was under way ends, and the leases run out.
AbandonedBatchesEnd == ~client ~> ManualIdle

\* After the shutdown has closed the admission the digest work comes to an end,
\* whatever the page still asks for (waitForActiveDigestWorkToSettle).
Drained ==
    /\ \A b \in Batch : ~StartActive(b)
    /\ request.pc = "idle" /\ \A s \in Save : saves[s].pc = "idle"
ShutdownDrains == closed ~> []Drained
=============================================================================
