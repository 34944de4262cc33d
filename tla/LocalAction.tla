---------------------------- MODULE LocalAction ----------------------------
(***************************************************************************)
(* A local action: an operation on the user's desktop (writing the system   *)
(* clipboard) that the service has a helper process carry out on Windows.   *)
(* The action has an id chosen by the page, a slot of a lane with a small   *)
(* concurrency and queue, a record in the evidence file that says how far   *)
(* it came, and a commit file the helper writes when it has acted.          *)
(*                                                                          *)
(* One lane of main.js, the route that copies a path to the clipboard, the  *)
(* runner of the helper, the evidence records and their restoration when    *)
(* the service starts.  A helper may hang, be killed late, or go on living  *)
(* after the service has given it up or crashed; a save of the evidence     *)
(* file may fail.  A client that goes away aborts its request: the steps    *)
(* that a timer also takes (leaving the queue, stopping the helper) stand   *)
(* for both, and the answer it would have had is lost to it.                *)
(***************************************************************************)
EXTENDS Naturals, Sequences, FiniteSets, SequencesExt

CONSTANTS
    Request,     \* requests for a local action
    Action,      \* action ids
    ActionOf,    \* the id each request carries
    NoRequest,   \* no evidence under an id
    Concurrency, \* concurrency of the lane
    QueueLimit,  \* queue_limit of the lane
    MaxFault     \* bound on crashes, failed saves and unreadable commit files

ASSUME LocalActionAssumption ==
    /\ NoRequest \notin Request
    /\ ActionOf \in [Request -> Action]
    /\ Concurrency \in Nat \ {0}
    /\ QueueLimit \in Nat
    /\ MaxFault \in Nat

VARIABLES
    up,       \* the service runs and its evidence is restored
    closed,   \* LOCAL_ACTION_ADMISSION_CLOSED
    phase,    \* phase[r]: how far the route has come with r
    answer,   \* answer[r]: what the route answered
    active,   \* state.active of the lane
    quar,     \* the requests whose helper keeps a place of state.quarantined
    queue,    \* state.queue of the lane
    helper,   \* helper[r]: the helper process of r
    marked,   \* the requests whose helper has acted and written its marker
    attached, \* the requests whose helper is a child of the service that runs
    seen,     \* seen[r]: whether onCommitted has run, and saved what it recorded
    givenUp,  \* the requests the service was done with while their helper lived,
              \* or whose commit file it removed when it could not read it
    file,     \* the requests whose commit file exists
    state,    \* state[r]: action_state of r's evidence object
    mem,      \* LOCAL_ACTION_EVIDENCE: the request whose object stands under an id
    disk,     \* the evidence file
    faults    \* faults so far

lane     == <<active, quar, queue>>
process  == <<helper, marked, attached>>
evidence == <<seen, file, state, mem, disk>>
vars == <<up, closed, phase, answer, lane, process, evidence, givenUp, faults>>

Phases == {"idle", "begun", "prepared", "queued", "slot", "running",
           "killing", "committed", "failing", "over"}
States == {"none", "prepared", "committed", "settled", "unknown"}
Nothing == [of |-> NoRequest, state |-> "none"]
Stored == [of : Request \cup {NoRequest}, state : States]

\* local_action_committed of an evidence object
Committed(r) == state[r] \in {"committed", "settled"}
Live(r)      == helper[r] = "live"
Occupancy    == active + Cardinality(quar)
InProgress(a) == \E r \in Request : ActionOf[r] = a /\ phase[r] \notin {"idle", "over"}
FaultLeft    == faults < MaxFault

Init ==
    /\ up = TRUE
    /\ closed = FALSE
    /\ phase = [r \in Request |-> "idle"]
    /\ answer = [r \in Request |-> "none"]
    /\ active = 0
    /\ quar = {}
    /\ queue = <<>>
    /\ helper = [r \in Request |-> "none"]
    /\ marked = {}
    /\ attached = {}
    /\ seen = [r \in Request |-> "no"]
    /\ givenUp = {}
    /\ file = {}
    /\ state = [r \in Request |-> "none"]
    /\ mem = [a \in Action |-> NoRequest]
    /\ disk = [a \in Action |-> Nothing]
    /\ faults = 0

-----------------------------------------------------------------------------
(* The evidence file                                                        *)

\* What persistLocalActionEvidenceSoon writes: the evidence as it stands.
Snapshot(m, s) ==
    [a \in Action |-> IF m[a] = NoRequest THEN Nothing
                      ELSE [of |-> m[a], state |-> s[m[a]]]]

\* rememberLocalActionEvidence and persistRecordedLocalActionEvidence: each
\* saves, so a save that is reported failed may have left the record behind.
Save(m, s, ok) ==
    IF ok THEN disk' = Snapshot(m, s) /\ UNCHANGED faults
    ELSE /\ FaultLeft
         /\ faults' = faults + 1
         /\ disk' \in {disk, Snapshot(m, s)}

\* forgetLocalActionEvidence: the record is removed by its key.
Forget(r) == [mem EXCEPT ![ActionOf[r]] = NoRequest]
Remember(r) == [mem EXCEPT ![ActionOf[r]] = r]

-----------------------------------------------------------------------------
(* The route                                                                *)

Go(r, p) == phase' = [phase EXCEPT ![r] = p]
Reply(r, a) == Go(r, "over") /\ answer' = [answer EXCEPT ![r] = a]

\* Mutated: the id is only looked for among the actions in progress.
BeginUnlessInProgress(r) ==
    /\ up /\ phase[r] = "idle"
    /\ IF closed \/ InProgress(ActionOf[r])
       THEN Reply(r, "refused")
       ELSE Go(r, "begun") /\ UNCHANGED answer
    /\ UNCHANGED <<up, closed, lane, process, evidence, givenUp, faults>>

\* beginLocalAction: refused while the service closes, when the id has
\* evidence, and while it is in progress.
Begin(r) ==
    /\ up /\ phase[r] = "idle"
    /\ IF closed \/ mem[ActionOf[r]] # NoRequest \/ InProgress(ActionOf[r])
       THEN Reply(r, "refused")
       ELSE Go(r, "begun") /\ UNCHANGED answer
    /\ UNCHANGED <<up, closed, lane, process, evidence, givenUp, faults>>

\* prepareSystemClipboardEvidence and persistPreparedSystemClipboardEvidence:
\* the helper is only started when the prepared record is on disk.
Prepare(r) ==
    /\ up /\ phase[r] = "begun"
    /\ state' = [state EXCEPT ![r] = "prepared"]
    /\ \/ /\ mem' = Remember(r)
          /\ Save(mem', state', TRUE)
          /\ Go(r, "prepared")
          /\ UNCHANGED answer
       \/ /\ mem' = Forget(r)
          /\ Save(Remember(r), state', FALSE)
          /\ Reply(r, "failed")
    /\ UNCHANGED <<up, closed, lane, process, seen, file, givenUp>>

-----------------------------------------------------------------------------
(* The lane                                                                 *)

\* drainLocalActionLane: the head of the queue takes the place that is free.
\* `a`, `q`, `p`: active, the quarantined and the phases before the drain.
Drained(a, q, p) ==
    LET n == IF closed \/ a + Cardinality(q) >= Concurrency THEN 0
             ELSE LET free == Concurrency - a - Cardinality(q)
                  IN IF free < Len(queue) THEN free ELSE Len(queue)
        taken == { queue[i] : i \in 1..n }
    IN /\ active' = a + n
       /\ quar' = q
       /\ queue' = SubSeq(queue, n + 1, Len(queue))
       /\ phase' = [r \in Request |-> IF r \in taken THEN "slot" ELSE p[r]]

\* acquireLocalActionSlot.
Acquire(r) ==
    /\ up /\ phase[r] = "prepared"
    /\ \/ /\ closed \/ Len(queue) >= QueueLimit
          /\ closed \/ Occupancy >= Concurrency
          /\ Go(r, "failing")
          /\ UNCHANGED lane
       \/ /\ ~closed /\ Occupancy < Concurrency
          /\ Go(r, "slot")
          /\ active' = active + 1
          /\ UNCHANGED <<quar, queue>>
       \/ /\ ~closed /\ Occupancy >= Concurrency /\ Len(queue) < QueueLimit
          /\ Go(r, "queued")
          /\ queue' = Append(queue, r)
          /\ UNCHANGED <<active, quar>>
    /\ UNCHANGED <<up, closed, answer, process, evidence, givenUp, faults>>

\* The wait timer of a queued entry, or the abort of its request.
LeaveQueue(r) ==
    /\ up /\ phase[r] = "queued"
    /\ \E i \in DOMAIN queue : queue[i] = r /\ queue' = RemoveAt(queue, i)
    /\ Go(r, "failing")
    /\ UNCHANGED <<up, closed, answer, active, quar, process, evidence,
                   givenUp, faults>>

\* The request is aborted between the record and the helper; a slot it has
\* is released.
GiveUp(r) ==
    /\ up /\ phase[r] \in {"prepared", "slot"}
    /\ LET p == [phase EXCEPT ![r] = "failing"]
       IN IF phase[r] = "slot" THEN Drained(active - 1, quar, p)
          ELSE phase' = p /\ UNCHANGED lane
    /\ UNCHANGED <<up, closed, answer, process, evidence, givenUp, faults>>

-----------------------------------------------------------------------------
(* The helper and its runner                                                *)

\* runLocalActionPowerShell starts the helper; admission was checked when the
\* slot was taken, the files it writes first are waited for in between.
Spawn(r) ==
    /\ up /\ phase[r] = "slot"
    /\ Go(r, "running")
    /\ helper' = [helper EXCEPT ![r] = "live"]
    /\ attached' = attached \cup {r}
    /\ UNCHANGED <<up, closed, answer, lane, marked, evidence, givenUp, faults>>

\* The helper acts and writes its marker to the commit file and to stdout.
HelperMarks(r) ==
    /\ Live(r) /\ r \notin marked
    /\ marked' = marked \cup {r}
    /\ file' = file \cup {r}
    /\ UNCHANGED <<up, closed, phase, answer, lane, helper, attached, seen,
                   state, mem, disk, givenUp, faults>>

\* The helper ends, by itself or killed.
HelperEnds(r) ==
    /\ Live(r)
    /\ helper' = [helper EXCEPT ![r] = "dead"]
    /\ UNCHANGED <<up, closed, phase, answer, lane, marked, attached, evidence,
                   givenUp, faults>>

\* notifyCommitted: the first sight of the marker runs onCommitted
\* (markSystemClipboardEvidenceCommitted), which records the commit and saves.
Notify(r) ==
    IF seen[r] # "no" THEN UNCHANGED <<seen, state, mem, disk, faults>>
    ELSE /\ state' = [state EXCEPT ![r] = "committed"]
         /\ mem' = Remember(r)
         /\ \E ok \in BOOLEAN :
              /\ Save(mem', state', ok)
              /\ seen' = [seen EXCEPT ![r] = IF ok THEN "saved" ELSE "unsaved"]

\* The marker arrives on stdout, however late.
SeeMarker(r) ==
    /\ up /\ r \in marked \cap attached /\ seen[r] = "no"
    /\ Notify(r)
    /\ UNCHANGED <<up, closed, phase, answer, lane, process, file, givenUp>>

\* The commit file cannot be read, and stdout has not brought the marker.
ReadFails(r) ==
    /\ FaultLeft
    /\ r \in marked /\ seen[r] = "no"
    /\ faults' = faults + 1

\* A look at the commit that shows none.
SeesNone(r) ==
    /\ IF r \in marked THEN ReadFails(r) ELSE UNCHANGED faults
    /\ UNCHANGED <<seen, state, mem, disk>>

\* finish and the release of the slot: `p` the phase the route goes on in,
\* `q` the quarantined.  The commit file goes unless onCommitted failed.
Finish(r, p, q) ==
    /\ file' = IF seen'[r] = "unsaved" THEN file ELSE file \ {r}
    /\ Drained(active - 1, q, [phase EXCEPT ![r] = p])

\* The helper has closed, and its stdout has been read to the end.
Close(r) ==
    /\ up /\ phase[r] = "running" /\ ~Live(r)
    /\ IF r \in marked THEN Notify(r) /\ Finish(r, "committed", quar)
       ELSE SeesNone(r) /\ Finish(r, "failing", quar)
    /\ UNCHANGED <<up, closed, answer, process, givenUp>>

\* Mutated: a helper that has acted is left alone and its place with it.
StopUnquarantined(r) ==
    /\ up /\ phase[r] = "running"
    /\ \/ /\ r \in marked
          /\ Notify(r)
          /\ Finish(r, "committed", quar)
       \/ /\ SeesNone(r)
          /\ Go(r, "killing")
          /\ UNCHANGED <<lane, file>>
    /\ UNCHANGED <<up, closed, answer, process, givenUp>>

\* stopFor, at the time limit or an abort: a helper that has acted is left
\* alone and its place quarantined until it closes, another is killed.
Stop(r) ==
    /\ up /\ phase[r] = "running"
    /\ \/ /\ r \in marked
          /\ Notify(r)
          /\ Finish(r, "committed", quar \cup {r})
       \/ /\ SeesNone(r)
          /\ Go(r, "killing")
          /\ UNCHANGED <<lane, file>>
    /\ UNCHANGED <<up, closed, answer, process, givenUp>>

\* Mutated: the end of a killed helper is waited for however long it takes.
AfterKillOnceGone(r) ==
    /\ up /\ phase[r] = "killing" /\ ~Live(r)
    /\ \/ r \in marked /\ Notify(r) /\ Finish(r, "committed", quar)
       \/ SeesNone(r) /\ Finish(r, "failing", quar)
    /\ UNCHANGED <<up, closed, answer, process, givenUp>>

\* finishAfterKill: the helper is gone, or has not gone within the grace and
\* its place is quarantined; whether it has acted is read again.
AfterKill(r) ==
    /\ up /\ phase[r] = "killing"
    /\ LET q == IF Live(r) THEN quar \cup {r} ELSE quar
       IN \/ /\ r \in marked
             /\ Notify(r)
             /\ Finish(r, "committed", q)
             /\ UNCHANGED givenUp
          \/ /\ SeesNone(r)
             /\ Finish(r, "failing", q)
             /\ givenUp' = IF r \in marked THEN givenUp \cup {r} ELSE givenUp
    /\ UNCHANGED <<up, closed, answer, process>>

\* quarantineLocalActionLane: the helper has ended, its place is free.
Unquarantine(r) ==
    /\ up /\ r \in quar /\ ~Live(r)
    /\ Drained(active, quar \ {r}, phase)
    /\ UNCHANGED <<up, closed, answer, process, evidence, givenUp, faults>>

-----------------------------------------------------------------------------
(* The end of the route                                                     *)

\* A helper that lives on when its request has failed.
Outlives(r) == IF Live(r) THEN givenUp \cup {r} ELSE givenUp

\* recordTextClipboardCopyEvidence and persistSettledSystemClipboardEvidence:
\* the commit file goes once the settled record is on disk.
Record(r) ==
    /\ up /\ phase[r] = "committed"
    /\ state' = [state EXCEPT ![r] = "settled"]
    /\ mem' = Remember(r)
    /\ \/ Save(mem', state', TRUE) /\ file' = file \ {r}
       \/ Save(mem', state', FALSE) /\ UNCHANGED file
    /\ Reply(r, "done")
    /\ UNCHANGED <<up, closed, lane, process, seen, givenUp>>

\* Mutated: a failed action is forgotten without another look at its commit.
RecoverBlindly(r) ==
    /\ up /\ phase[r] = "failing"
    /\ mem' = Forget(r)
    /\ \E ok \in BOOLEAN : Save(mem', state, ok)
    /\ file' = file \ {r}
    /\ givenUp' = Outlives(r)
    /\ Reply(r, "failed")
    /\ UNCHANGED <<up, closed, lane, process, seen, state>>

\* recoverPreparedSystemClipboardEvidenceAfterFailure: a commit that came
\* meanwhile turns the failure into a success; otherwise the record goes.
Recover(r) ==
    /\ up /\ phase[r] = "failing"
    /\ \/ /\ Committed(r) \/ r \in file
          /\ state' = [state EXCEPT ![r] = "settled"]
          /\ mem' = Remember(r)
          /\ \E ok \in BOOLEAN : Save(mem', state', ok)
          /\ Go(r, "committed")
          /\ UNCHANGED <<answer, file, seen, givenUp>>
       \/ /\ ~Committed(r) /\ r \notin file
          /\ mem' = Forget(r)
          /\ \E ok \in BOOLEAN : Save(mem', state, ok)
          /\ givenUp' = Outlives(r)
          /\ Reply(r, "failed")
          /\ UNCHANGED <<state, file, seen>>
       \/ /\ ~Committed(r) /\ r \in file /\ ReadFails(r)
          /\ mem' = Forget(r)
          /\ disk' = Snapshot(mem', state)
          /\ file' = file \ {r}
          /\ givenUp' = givenUp \cup {r}
          /\ Reply(r, "failed")
          /\ UNCHANGED <<state, seen>>
    /\ UNCHANGED <<up, closed, lane, process>>
-----------------------------------------------------------------------------
(* Shutdown, crash and restart                                              *)

\* closeLocalActionAdmission: what waits in the queue is cancelled.
CloseAdmission ==
    /\ up /\ ~closed
    /\ closed' = TRUE
    /\ queue' = <<>>
    /\ phase' = [r \in Request |-> IF phase[r] = "queued" THEN "failing" ELSE phase[r]]
    /\ UNCHANGED <<up, answer, active, quar, process, evidence, givenUp, faults>>

\* The service ends at any point; its helpers do not end with it.
Crash ==
    /\ up /\ FaultLeft
    /\ up' = FALSE
    /\ closed' = FALSE
    /\ phase' = [r \in Request |-> IF phase[r] = "idle" THEN "idle" ELSE "over"]
    /\ answer' = [r \in Request |-> IF phase[r] \in {"idle", "over"} THEN answer[r]
                                    ELSE "lost"]
    /\ active' = 0 /\ quar' = {} /\ queue' = <<>>
    /\ attached' = {}
    /\ mem' = [a \in Action |-> NoRequest]
    /\ faults' = faults + 1
    /\ UNCHANGED <<helper, marked, seen, file, state, disk, givenUp>>

\* The records of the evidence file.
Recorded == { r \in Request : disk[ActionOf[r]].of = r }

\* Mutated: a record is only as good as its own state, whatever the commit file says.
RestoredStateUnread(r, unread) == disk[ActionOf[r]].state

\* reconcileRestoredLocalActionCommitEvidence: what becomes of a record.
RestoredState(r, unread) ==
    IF r \in unread THEN "unknown"
    ELSE IF r \in file THEN "committed"
    ELSE disk[ActionOf[r]].state

\* restoreLocalActionEvidence, before the service listens: the commit files
\* that were read go when the outcome is on disk.
Restore ==
    /\ ~up
    /\ \E unread \in SUBSET (Recorded \cap file), ok \in BOOLEAN :
         /\ state' = [r \in Request |-> IF r \in Recorded THEN RestoredState(r, unread)
                                        ELSE state[r]]
         /\ mem' = [a \in Action |->
                      LET r == disk[a].of
                      IN IF r = NoRequest \/ (r # NoRequest /\ state'[r] = "prepared")
                         THEN NoRequest ELSE r]
         /\ disk' \in (IF ok THEN {} ELSE {disk}) \cup {Snapshot(mem', state')}
         /\ file' = IF ok THEN file \ (Recorded \ unread) ELSE file
         /\ faults' = faults + (IF unread = {} THEN 0 ELSE 1) + (IF ok THEN 0 ELSE 1)
         /\ faults' <= MaxFault
    /\ givenUp' = givenUp \cup { r \in Request : Live(r) /\ r \notin marked }
    /\ up' = TRUE
    /\ UNCHANGED <<closed, phase, answer, lane, process, seen>>

-----------------------------------------------------------------------------

\* The steps of the service for r that are bound to be taken: those the event
\* loop runs next, and those of its timers.
Serve(r) ==
    Prepare(r) \/ Acquire(r) \/ LeaveQueue(r) \/ Spawn(r) \/ Close(r) \/ Stop(r)
        \/ AfterKill(r) \/ Record(r) \/ Recover(r)

Next ==
    \/ CloseAdmission \/ Crash \/ Restore
    \/ \E r \in Request :
         \/ Begin(r) \/ Serve(r) \/ GiveUp(r) \/ SeeMarker(r) \/ Unquarantine(r)
         \/ HelperMarks(r) \/ HelperEnds(r)

Spec == Init /\ [][Next]_vars

\* The service goes on; a helper need neither act nor end.
FairSpec == Spec /\ \A r \in Request : WF_vars(Serve(r))

-----------------------------------------------------------------------------
(* Properties                                                               *)

TypeOK ==
    /\ up \in BOOLEAN /\ closed \in BOOLEAN
    /\ phase \in [Request -> Phases]
    /\ answer \in [Request -> {"none", "refused", "failed", "done", "lost"}]
    /\ active \in Nat
    /\ quar \subseteq Request
    /\ queue \in Seq(Request) /\ Len(queue) <= QueueLimit
    /\ helper \in [Request -> {"none", "live", "dead"}]
    /\ marked \subseteq Request /\ attached \subseteq Request
    /\ seen \in [Request -> {"no", "saved", "unsaved"}]
    /\ givenUp \subseteq Request /\ file \subseteq Request
    /\ state \in [Request -> States]
    /\ mem \in [Action -> Request \cup {NoRequest}]
    /\ disk \in [Action -> Stored]
    /\ faults \in 0..MaxFault

\* The lane never has more helpers at work than its concurrency allows, those
\* included that outlived a time limit or a kill, and it counts each of them:
\* withLocalActionSlot, quarantineLocalActionLane and the order of release.
LaneIsTrue ==
    LET living == { r \in attached : Live(r) }
    IN /\ TypeOK
       /\ Cardinality(living) <= Concurrency
       /\ Cardinality(living) <= Occupancy

\* An action that was carried out is remembered under its id when its request
\* is over, whatever save failed and wherever the service crashed and came
\* back.  Missed is only a helper that acts after the service was done with it,
\* or whose commit file it could not read and removed (runLocalActionPowerShell
\* and recoverPreparedSystemClipboardEvidenceAfterFailure both do).
CommitIsRemembered ==
    up => \A r \in marked \ givenUp :
            phase[r] = "over" =>
                /\ mem[ActionOf[r]] # NoRequest
                /\ state[mem[ActionOf[r]]] \in {"committed", "settled", "unknown"}

\* No id is carried out twice, by a retry or a second tab, before or after a
\* restart, with the same two exceptions.
RunsOnce ==
    \A r, s \in marked \ givenUp : ActionOf[r] = ActionOf[s] => r = s

\* An answer tells what happened: done means the helper acted, failed that it
\* did not, with those exceptions again (the helper that could not be confirmed
\* ended is told).
AnswerIsTrue ==
    \A r \in Request :
        /\ answer[r] = "done" => r \in marked
        /\ answer[r] = "failed" => r \notin marked \ givenUp

\* Every request that began comes to an end, be its helper hung and the lane
\* held by one that never ends.
RequestsEnd == \A r \in Request : phase[r] = "begun" ~> phase[r] = "over"
=============================================================================
