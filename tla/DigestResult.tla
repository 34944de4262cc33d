---------------------------- MODULE DigestResult ----------------------------
(***************************************************************************)
(* What becomes of one digest of a batch made by hand (main.js): the       *)
(* digest registers its result and a ticket for saving it, the results go  *)
(* to a recovery file through a queue of writes, the page asks for the     *)
(* result when its stream broke, saves it with the ticket and finishes the *)
(* batch.  Meanwhile the account behind the database changes, a change of  *)
(* the settings sweeps the work away, writes fail, and the service crashes *)
(* and restores what the file holds.  The page asks for the digest once,   *)
(* as runDigestBatch does, and sends every other request at any time, any  *)
(* number of times and in any order.                                       *)
(***************************************************************************)
EXTENDS Naturals, Sequences

CONSTANTS Save,        \* the slots of ACTIVE_DIGEST_SAVES
          MaxIdentity, \* bound: changes of the account behind the database
          MaxMishap,   \* bound: crashes, sweeps, failed writes, reads and saves
          Nothing      \* no result, no account, no digest

ASSUME ConstantsAssumption ==
    /\ MaxIdentity \in Nat /\ MaxMishap \in Nat
    /\ Nothing \notin Nat

VARIABLES
    identity,   \* the account the list of accounts shows
    noticed,    \* the one the database mirror knows: the identity generation
    service,    \* booting until the restored results are written again
    settings,   \* DIGEST_BATCH_SETTINGS has the batch
    cancelled,  \* CANCELLED_DIGEST_BATCHES: no, soft or hard
    finished,   \* FINISHED_DIGEST_BATCHES has the batch
    blocked,    \* DIGEST_TERMINAL_RECOVERY_WRITE_BLOCKED
    made,       \* the identity the digest was asked for
    digest,     \* the request in ACTIVE_DIGEST_REQUESTS
    term,       \* the entry of DIGEST_TERMINAL_RESULTS
    ticket,     \* the entry of DIGEST_SAVE_TICKETS
    queue,      \* DIGEST_TERMINAL_RECOVERY_WRITE_QUEUE: snapshots and who waits
    disk,       \* data/digest-terminal-recovery.json
    saves,      \* /api/save-render
    pairs,      \* pictures of the digest in the output directory
    poll,       \* /api/digest-result
    finish,     \* /api/digest-batch-finish
    told,       \* the stream told the page that the result is kept
    dropped,    \* the result was released or revoked
    released,   \* finish answered that the results are released
    mishaps

batchVars == <<service, settings, cancelled, finished, blocked>>
resultVars == <<made, digest, term, ticket, queue, disk>>
saveVars == <<saves, pairs>>
toldVars == <<told, dropped, released>>
stateVars == <<identity, noticed, batchVars, resultVars, saveVars, poll, finish,
               toldVars, mishaps>>

Identity == 0..MaxIdentity
NoDigest == [pc |-> "idle", saw |-> Nothing, aborted |-> FALSE]
NoSave == [pc |-> "idle", saw |-> Nothing, since |-> Nothing, allow |-> FALSE,
           aborted |-> FALSE, own |-> FALSE, late |-> FALSE]
NoPoll == [pc |-> "idle", saw |-> Nothing]

TermRecord == [status : {"done", "error", "saved"}, persisted : {"unset", "yes", "no"}]
ASSUME NothingAssumption == Nothing \notin TermRecord
Snapshot == [item : TermRecord \cup {Nothing}, finished : BOOLEAN]
WriteRecord == [snapshot : Snapshot, by : {"none", "boot", "digest", "finish"}]
DigestRecord == [pc : {"idle", "running", "checking", "handing", "failing"},
                 saw : Identity \cup {Nothing}, aborted : BOOLEAN]
SaveRecord == [pc : {"idle", "uploading", "checking", "write", "barrier", "index"},
               saw : Identity \cup {Nothing}, since : Identity \cup {Nothing},
               allow : BOOLEAN, aborted : BOOLEAN, own : BOOLEAN, late : BOOLEAN]
PollRecord == [pc : {"idle", "checking"}, saw : Identity \cup {Nothing}]

ResultTypeOK ==
    /\ identity \in Identity /\ noticed \in Identity
    /\ service \in {"boot", "up"} /\ settings \in BOOLEAN
    /\ cancelled \in {"no", "soft", "hard"}
    /\ finished \in BOOLEAN /\ blocked \in BOOLEAN
    /\ made \in Identity \cup {Nothing} /\ digest \in DigestRecord
    /\ term \in TermRecord \cup {Nothing}
    /\ ticket \in {"none", "free", "claimed"}
    /\ queue \in Seq(WriteRecord) /\ disk \in Snapshot
    /\ saves \in [Save -> SaveRecord]
    /\ pairs \in Nat
    /\ poll \in PollRecord
    /\ finish \in {"idle", "tombstone", "session", "release"}
    /\ told \in BOOLEAN
    /\ dropped \in BOOLEAN /\ released \in BOOLEAN
    /\ mishaps \in 0..MaxMishap

ResultInit ==
    /\ identity = 0 /\ noticed = 0
    /\ service = "up" /\ settings = TRUE /\ cancelled = "no"
    /\ finished = FALSE /\ blocked = FALSE
    /\ made = Nothing /\ digest = NoDigest /\ term = Nothing /\ ticket = "none"
    /\ queue = <<>> /\ disk = [item |-> Nothing, finished |-> FALSE]
    /\ saves = [s \in Save |-> NoSave] /\ pairs = 0
    /\ poll = NoPoll /\ finish = "idle"
    /\ told = FALSE /\ dropped = FALSE /\ released = FALSE
    /\ mishaps = 0

Mishap == mishaps < MaxMishap /\ mishaps' = mishaps + 1
Known == settings \/ cancelled # "no" \/ finished \/ term # Nothing

-----------------------------------------------------------------------------
(* The recovery file *)

\* queueDigestTerminalRecoveryWrite: the snapshot is taken now, the write has
\* its turn later.  A blocked write is refused at once.
Queued(item, fin, by) ==
    IF blocked THEN queue
    ELSE Append(queue, [snapshot |-> [item |-> item, finished |-> fin], by |-> by])

\* Mutated: the restored results are not served until they are written.
AnsweredWhenWritten(by, ok) ==
    /\ digest' = IF by = "digest" THEN NoDigest ELSE digest
    /\ term' = IF by = "digest" /\ term # Nothing
               THEN [term EXCEPT !.persisted = IF ok THEN "yes" ELSE "no"] ELSE term
    /\ told' = (told \/ (by = "digest" /\ ok /\ digest.pc = "handing"))
    /\ finish' = CASE by # "finish" -> finish
                   [] by = "finish" /\ ok /\ finish = "tombstone" -> "session"
                   [] OTHER -> "idle"
    /\ released' = (released \/ (by = "finish" /\ ok /\ finish = "release"))
    /\ service' = IF by = "boot" /\ ok THEN "up" ELSE service

\* What the end of a write tells the one who awaits it.
Answered(by, ok) ==
    /\ digest' = IF by = "digest" THEN NoDigest ELSE digest
    /\ term' = IF by = "digest" /\ term # Nothing
               THEN [term EXCEPT !.persisted = IF ok THEN "yes" ELSE "no"] ELSE term
    /\ told' = (told \/ (by = "digest" /\ ok /\ digest.pc = "handing"))
    /\ finish' = CASE by # "finish" -> finish
                   [] by = "finish" /\ ok /\ finish = "tombstone" -> "session"
                   [] OTHER -> "idle"
    /\ released' = (released \/ (by = "finish" /\ ok /\ finish = "release"))
    /\ service' = IF by = "boot" THEN "up" ELSE service

\* writeJsonAtomic replaces the file as a whole.
WriteEnd ==
    /\ queue # <<>>
    /\ queue' = Tail(queue) /\ disk' = Head(queue).snapshot
    /\ Answered(Head(queue).by, TRUE)
    /\ UNCHANGED <<identity, noticed, settings, cancelled, finished, blocked,
                   made, ticket, saveVars, poll, dropped, mishaps>>

\* A failed write leaves the file, and the next write has its turn.
WriteFail ==
    /\ queue # <<>> /\ Mishap
    /\ queue' = Tail(queue)
    /\ Answered(Head(queue).by, FALSE)
    /\ UNCHANGED <<identity, noticed, settings, cancelled, finished, blocked,
                   made, ticket, disk, saveVars, poll, dropped>>

\* releaseDigestTerminalResults: the tickets go with the results, and the
\* write is not awaited.
ReleaseResults(fin) ==
    /\ term' = Nothing /\ ticket' = "none"
    /\ dropped' = (dropped \/ term # Nothing)
    /\ queue' = IF term # Nothing THEN Queued(Nothing, fin, "none") ELSE queue

-----------------------------------------------------------------------------
(* /api/digest *)

DigestBegin ==
    /\ service = "up" /\ settings /\ ~finished /\ cancelled = "no"
    /\ made = Nothing
    /\ made' = identity
    /\ digest' = [NoDigest EXCEPT !.pc = "running"]
    /\ UNCHANGED <<identity, noticed, batchVars, term, ticket, queue, disk,
                   saveVars, poll, finish, toldVars, mishaps>>

\* The list of accounts is read once more when the AI has answered.
DigestLook ==
    /\ digest.pc = "running" /\ ~digest.aborted
    /\ digest' = [digest EXCEPT !.pc = "checking", !.saw = identity]
    /\ UNCHANGED <<identity, noticed, batchVars, made, term, ticket, queue, disk,
                   saveVars, poll, finish, toldVars, mishaps>>

\* registerDigestTerminalResult: the result is there before it is written.
Registered(status, pc) ==
    LET t == [status |-> status, persisted |-> "unset"]
    IN /\ term' = IF blocked THEN [t EXCEPT !.persisted = "no"] ELSE t
       /\ queue' = Queued(t, finished, "digest")
       /\ digest' = IF blocked THEN NoDigest ELSE [digest EXCEPT !.pc = pc]

\* ensureActive, the ticket and the result, with no await between.
DigestHandoff ==
    /\ digest.pc = "checking" /\ ~digest.aborted /\ digest.saw = made
    /\ ticket' = "free"
    /\ Registered("done", "handing")
    /\ UNCHANGED <<identity, noticed, batchVars, made, disk, saveVars, poll,
                   finish, toldVars, mishaps>>

\* The digest failed, was aborted or met another account.
DigestFail ==
    /\ digest.pc \in {"running", "checking"}
    /\ Registered("error", "failing")
    /\ UNCHANGED <<identity, noticed, batchVars, made, ticket, disk, saveVars,
                   poll, finish, toldVars, mishaps>>

-----------------------------------------------------------------------------
(* /api/save-render *)

SaveBegin(s) ==
    /\ service = "up" /\ Known /\ ~finished
    /\ saves[s].pc = "idle"
    /\ saves' = [saves EXCEPT ![s].pc = "uploading"]
    /\ UNCHANGED <<identity, noticed, batchVars, resultVars, pairs, poll, finish,
                   toldVars, mishaps>>

\* claimDigestSaveTicketForRequest; the generation is kept before the list of
\* accounts is awaited.
SaveClaim(s) ==
    /\ saves[s].pc = "uploading" /\ ~saves[s].aborted
    /\ ticket = "free"
    /\ ticket' = "claimed"
    /\ saves' = [saves EXCEPT ![s].pc = "checking", ![s].saw = identity,
                              ![s].since = noticed]
    /\ UNCHANGED <<identity, noticed, batchVars, made, digest, term, queue, disk,
                   pairs, poll, finish, toldVars, mishaps>>

\* assertWxDbIdentityGenerationCurrent, the signal and shouldAbort.
Allowed(s) ==
    /\ ~saves[s].aborted
    /\ saves[s].since = noticed
    /\ cancelled # "hard" \/ saves[s].allow

\* The account, the cancellation and the snapshot of the settings.
SaveChecked(s) ==
    /\ saves[s].pc = "checking" /\ saves[s].saw = made
    /\ cancelled # "hard" /\ settings /\ Allowed(s)
    /\ saves' = [saves EXCEPT ![s].pc = "write", ![s].allow = (cancelled = "soft")]
    /\ UNCHANGED <<identity, noticed, batchVars, resultVars, pairs, poll, finish,
                   toldVars, mishaps>>

\* Mutated: the marker of an earlier try is not asked for.
SaveWriteAfresh(s) ==
    /\ saves[s].pc = "write" /\ Allowed(s)
    /\ pairs' = pairs + 1
    /\ saves' = [saves EXCEPT ![s].pc = "barrier", ![s].own = TRUE]
    /\ UNCHANGED <<identity, noticed, batchVars, resultVars, poll, finish,
                   toldVars, mishaps>>

\* writeTransactionalDigestPair: the marker of an earlier try with the same
\* ticket gives its picture back.
SaveWrite(s) ==
    /\ saves[s].pc = "write" /\ Allowed(s)
    /\ pairs' = IF pairs > 0 THEN pairs ELSE 1
    /\ saves' = [saves EXCEPT ![s].pc = "barrier", ![s].own = (pairs = 0)]
    /\ UNCHANGED <<identity, noticed, batchVars, resultVars, poll, finish,
                   toldVars, mishaps>>

\* The last look before the index of the history is written.
SaveBarrier(s) ==
    /\ saves[s].pc = "barrier" /\ Allowed(s)
    /\ saves' = [saves EXCEPT ![s].pc = "index"]
    /\ UNCHANGED <<identity, noticed, batchVars, resultVars, pairs, poll, finish,
                   toldVars, mishaps>>

\* consumeDigestSaveTicket and markDigestTerminalResultSaved, whose write is
\* not awaited.  The index may have failed: the picture is there.
SaveCommit(s) ==
    /\ saves[s].pc = "index"
    /\ saves' = [saves EXCEPT ![s] = NoSave]
    /\ IF ticket = "claimed" /\ term # Nothing
       THEN /\ term' = [term EXCEPT !.status = "saved"]
            /\ queue' = Queued(term', finished, "none")
       ELSE UNCHANGED <<term, queue>>
    /\ ticket' = "none"
    /\ UNCHANGED <<identity, noticed, batchVars, made, digest, disk, pairs, poll,
                   finish, toldVars, mishaps>>

\* releaseDigestSaveTicketClaim: a claimed ticket is this save's own.
Unclaimed == IF ticket = "claimed" THEN "free" ELSE ticket

\* The save is refused, aborted or fails; a picture of its own is taken away.
SaveRefused(s) ==
    /\ saves[s].pc # "idle" /\ saves[s].pc # "index"
    /\ ticket' = IF saves[s].pc = "uploading" THEN ticket ELSE Unclaimed
    /\ pairs' = IF saves[s].own THEN 0 ELSE pairs
    /\ saves' = [saves EXCEPT ![s] = NoSave]
    /\ UNCHANGED <<identity, noticed, batchVars, made, digest, term, queue, disk,
                   poll, finish, toldVars, mishaps>>

\* historyIndexWriteMayHaveCommitted: the picture stays, the save fails.
SaveUnknown(s) ==
    /\ saves[s].pc = "index" /\ Mishap
    /\ ticket' = Unclaimed
    /\ saves' = [saves EXCEPT ![s] = NoSave]
    /\ UNCHANGED <<identity, noticed, batchVars, made, digest, term, queue, disk,
                   pairs, poll, finish, toldVars>>

-----------------------------------------------------------------------------
(* /api/digest-result *)

PollBegin ==
    /\ service = "up" /\ Known /\ poll.pc = "idle"
    /\ poll' = [NoPoll EXCEPT !.pc = "checking", !.saw = identity]
    /\ UNCHANGED <<identity, noticed, batchVars, resultVars, saveVars, finish,
                   toldVars, mishaps>>

\* Mutated: the account of the result is not compared.
AnswerAnyone ==
    CASE term # Nothing -> term.status
      [] term = Nothing /\ digest.pc # "idle" -> "pending"
      [] OTHER -> "missing"

\* A result made for another account is refused, never shown.
Answer ==
    CASE term # Nothing /\ poll.saw # made -> "refused"
      [] term # Nothing /\ poll.saw = made -> term.status
      [] term = Nothing /\ digest.pc # "idle" /\ poll.saw = made -> "pending"
      [] OTHER -> "missing"

\* What the answer says of the durability of a result is left out.
PollAnswer ==
    /\ poll.pc = "checking"
    /\ poll' = NoPoll
    /\ UNCHANGED <<identity, noticed, batchVars, resultVars, saveVars, finish,
                   told, dropped, released, mishaps>>

-----------------------------------------------------------------------------
(* /api/digest-batch-finish and /api/digest-cancel *)

\* Nothing may be under way; the mark of the end is written first.
FinishBegin ==
    /\ service = "up" /\ Known /\ finish = "idle"
    /\ digest.pc = "idle" /\ \A s \in Save : saves[s].pc = "idle"
    /\ finished' = TRUE
    /\ queue' = Queued(term, TRUE, "finish")
    /\ finish' = IF blocked THEN "idle" ELSE "tombstone"
    /\ UNCHANGED <<identity, noticed, service, settings, cancelled, blocked, made,
                   digest, term, ticket, disk, saveVars, poll, toldVars, mishaps>>

\* The database session is closed, or cannot be; the results are released.
FinishRelease ==
    /\ finish = "session"
    /\ LET dropQueue == IF term # Nothing THEN Queued(Nothing, finished, "none") ELSE queue
       IN queue' = Append(dropQueue, [snapshot |-> [item |-> Nothing, finished |-> finished],
                                      by |-> "finish"])
    /\ term' = Nothing /\ ticket' = "none" /\ dropped' = (dropped \/ term # Nothing)
    /\ finish' = "release"
    /\ UNCHANGED <<identity, noticed, batchVars, made, digest, disk, saveVars, poll,
                   told, released, mishaps>>

\* The results are kept, or the session could not be closed.
FinishKeep ==
    /\ finish = "session"
    /\ finish' = "idle"
    /\ UNCHANGED <<identity, noticed, batchVars, resultVars, saveVars, poll,
                   toldVars, mishaps>>

\* A soft stop lets the saves under way end; a hard one aborts them and takes
\* the settings away.  The pages always ask to keep the finished results.
Cancel(hard) ==
    /\ service = "up" /\ ~finished
    /\ cancelled' = IF hard \/ cancelled = "hard" THEN "hard" ELSE "soft"
    /\ settings' = (settings /\ cancelled' # "hard")
    /\ digest' = [digest EXCEPT !.aborted = TRUE]
    /\ saves' = [s \in Save |->
         IF saves[s].pc = "idle" THEN saves[s]
         ELSE IF hard THEN [saves[s] EXCEPT !.aborted = TRUE]
         ELSE IF saves[s].pc \in {"uploading", "checking"} THEN [saves[s] EXCEPT !.allow = TRUE]
         ELSE saves[s]]
    /\ UNCHANGED <<identity, noticed, service, finished, blocked, made, term, ticket,
                   queue, disk, pairs, poll, finish, toldVars, mishaps>>

-----------------------------------------------------------------------------
(* The settings, the account and the life of the service *)

Busy == digest.pc # "idle" \/ \E s \in Save : saves[s].pc # "idle"

\* cancelActiveDigestWork aborts what is under way, marks the batch as
\* cancelled and takes its settings away.
Aborted ==
    /\ digest' = [digest EXCEPT !.aborted = TRUE]
    /\ saves' = [s \in Save |->
         IF saves[s].pc = "idle" THEN saves[s] ELSE [saves[s] EXCEPT !.aborted = TRUE]]

\* A change of the settings, or the lifetime of a batch is over.  The batch is
\* marked when it has work or a lease; results a cancel has kept stay.
Sweep(marked) ==
    /\ service = "up" /\ Mishap
    /\ (Busy => marked) /\ (marked => Busy \/ settings)
    /\ cancelled' = IF marked THEN "hard" ELSE cancelled
    /\ settings' = FALSE
    /\ Aborted
    /\ IF settings \/ (marked /\ cancelled = "no")
       THEN ReleaseResults(finished)
       ELSE UNCHANGED <<term, ticket, queue, dropped>>
    /\ UNCHANGED <<identity, noticed, service, finished, blocked, made, disk, pairs,
                   poll, finish, told, released>>

IdentityChanges ==
    /\ identity < MaxIdentity /\ identity' = identity + 1
    /\ UNCHANGED <<noticed, batchVars, resultVars, saveVars, poll, finish, toldVars,
                   mishaps>>

\* invalidateDigestStateAfterWxDbIdentityChange; the write may fail unseen.
Notice ==
    /\ service = "up" /\ noticed < identity
    /\ noticed' = identity
    /\ LET belongs == \/ settings \/ digest.pc # "idle"
                      \/ \E s \in Save : saves[s].pc \in {"write", "barrier", "index"}
       IN /\ cancelled' = IF belongs THEN "hard" ELSE cancelled
          /\ settings' = (settings /\ ~belongs)
          /\ digest' = [digest EXCEPT !.aborted = TRUE]
          /\ saves' = [s \in Save |->
               IF saves[s].pc = "idle" THEN saves[s]
               ELSE [saves[s] EXCEPT !.aborted = (@ \/ belongs),
                                     !.late = (saves[s].pc = "index")]]
    /\ ReleaseResults(finished)
    /\ UNCHANGED <<identity, service, finished, blocked, made, disk, pairs, poll,
                   finish, told, released, mishaps>>

\* The service dies and starts again; nothing but the file is left.
\* restoreDigestTerminalRecovery writes what it has restored; when the file
\* cannot be read it stays as it is and every write is refused.
Restart(readable) ==
    /\ Mishap
    /\ settings' = FALSE /\ cancelled' = "no"
    /\ digest' = NoDigest /\ poll' = NoPoll /\ finish' = "idle"
    /\ saves' = [s \in Save |-> NoSave]
    /\ blocked' = ~readable
    /\ finished' = (readable /\ disk.finished)
    /\ term' = IF readable THEN disk.item ELSE Nothing
    /\ ticket' = IF readable /\ disk.item # Nothing /\ disk.item.status = "done"
                 THEN "free" ELSE "none"
    /\ queue' = IF readable THEN <<[snapshot |-> disk, by |-> "boot"]>> ELSE <<>>
    /\ service' = IF readable THEN "boot" ELSE "up"
    /\ UNCHANGED <<identity, noticed, made, disk, pairs, toldVars>>

\* /api/digest-batch-start with the id of a batch that was restored.
StartAgain ==
    /\ service = "up" /\ ~finished /\ cancelled = "no" /\ ~settings
    /\ settings' = TRUE
    /\ UNCHANGED <<identity, noticed, service, cancelled, finished, blocked, resultVars,
                   saveVars, poll, finish, toldVars, mishaps>>

DigestStep == DigestLook \/ DigestHandoff \/ DigestFail
SavingStep(s) ==
    \/ SaveChecked(s) \/ SaveWrite(s) \/ SaveBarrier(s)
    \/ SaveCommit(s) \/ SaveRefused(s) \/ SaveUnknown(s)
FinishStep == FinishRelease \/ FinishKeep

ResultNext ==
    \/ WriteEnd \/ WriteFail
    \/ DigestBegin \/ DigestStep
    \/ \E s \in Save : SaveBegin(s) \/ SaveClaim(s) \/ SavingStep(s)
    \/ PollBegin \/ PollAnswer
    \/ FinishBegin \/ FinishStep
    \/ \E hard \in BOOLEAN : Cancel(hard) \/ Sweep(hard) \/ Restart(hard)
    \/ IdentityChanges \/ Notice
    \/ StartAgain

ResultSpec == ResultInit /\ [][ResultNext]_stateVars

\* Writes end, the deadline of the job ends a digest, requests run on.
FairSpec ==
    /\ ResultSpec
    /\ WF_stateVars(WriteEnd) /\ WF_stateVars(DigestStep) /\ WF_stateVars(FinishStep)
    /\ WF_stateVars(PollAnswer)
    /\ \A s \in Save : WF_stateVars(SaveClaim(s) \/ SavingStep(s))

-----------------------------------------------------------------------------
(* Properties *)

\* However often a digest is saved, by retries, by two tabs, after a crash or
\* with a restored ticket, its picture is in the output directory once, and
\* only one save at a time holds the ticket.
SaveOnce ==
    /\ pairs <= 1
    /\ \A s, t \in Save :
         saves[s].pc \notin {"idle", "uploading"} /\ saves[t].pc \notin {"idle", "uploading"}
           => s = t

\* A result marked as saved, in memory, on its way to the file or in the file,
\* has its picture.
SavedIsTrue ==
    LET true(item) == item # Nothing => (item.status = "saved" => pairs = 1)
    IN true(term) /\ true(disk.item) /\ \A i \in DOMAIN queue : true(queue[i].snapshot.item)

\* A result the stream said is kept is in the recovery file, through failed
\* writes, crashes and an unreadable file, until it is released or revoked.
ToldIsKept == told /\ ~dropped => disk.item # Nothing

\* When finish has answered that the results are released, no write under way
\* and no restart brings them back, and the batch stays finished.  A service
\* that cannot read the file knows nothing of it, but leaves the file alone.
ReleasedIsGone ==
    released => /\ (term = Nothing \/ blocked) /\ disk = [item |-> Nothing, finished |-> TRUE]
                /\ \A i \in DOMAIN queue :
                     queue[i].snapshot = [item |-> Nothing, finished |-> TRUE]

\* The four together, with the type invariant.
ResultsAreSafe == ResultTypeOK /\ SaveOnce /\ SavedIsTrue /\ ToldIsKept /\ ReleasedIsGone

\* Once the mirror has noticed that another account is behind the database,
\* no answer shows a result of the old one and no save of it is committed,
\* restored tickets included; a save past its last look is the exception.
OldIsGone ==
    /\ poll.pc = "checking" /\ Answer \in {"done", "saved"} => made >= noticed
    /\ \A s \in Save : saves[s].pc = "index" /\ ~saves[s].late => made >= noticed

\* The service comes up after a crash whatever becomes of its first write, and
\* no digest and no finish waits for ever on the queue of writes.
RequestsEnd ==
    /\ service = "boot" ~> service = "up"
    /\ digest.pc # "idle" ~> digest.pc = "idle"
    /\ finish # "idle" ~> finish = "idle"

=============================================================================
