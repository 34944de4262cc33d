------------------------- MODULE DigestOutput_proofs -------------------------
(***************************************************************************)
(* Proofs about the output of a digest: about what becomes of the result   *)
(* of one made by hand until its picture is saved, for any number of       *)
(* saves, changes of the account and mishaps, and about the store that     *)
(* keeps the pictures, for any set of digests and any number of faults.    *)
(* The two modules share no variable and no definition: the first part     *)
(* speaks of DigestResult alone, the second one of HistoryStore alone.     *)
(***************************************************************************)
EXTENDS DigestResult, HistoryStore, TLAPS

-----------------------------------------------------------------------------
(* PART 1: the result of a digest made by hand (DigestResult) *)

(* The inductive invariant *)

Holding == {"checking", "write", "barrier", "index"}
Asked == digest.pc \in {"running", "checking"}

\* Before its result is registered a digest has left nothing behind.
EarlyInv ==
    /\ made = Nothing => digest.pc = "idle"
    /\ made = Nothing \/ Asked =>
         /\ ticket = "none" /\ term = Nothing /\ disk.item = Nothing /\ pairs = 0
         /\ \A s \in Save : saves[s].pc \notin Holding
         /\ \A i \in DOMAIN queue : queue[i].snapshot.item = Nothing

\* One save holds the ticket, and its picture is the one there is.
TicketInv ==
    /\ \A s, t \in Save : saves[s].pc \in Holding /\ saves[t].pc \in Holding => s = t
    /\ \A s \in Save :
         /\ saves[s].pc \in Holding => ticket # "free"
         /\ saves[s].own => saves[s].pc \in {"barrier", "index"}
         /\ saves[s].pc \in {"barrier", "index"} => pairs = 1
    /\ pairs <= 1
    /\ term # Nothing /\ term.status = "error" => ticket = "none"

Pictured(item) == item # Nothing /\ item.status = "saved"

\* The picture of a saved result belongs to no save that could take it away.
SavedInv ==
    (\/ Pictured(term) \/ Pictured(disk.item)
     \/ \E i \in DOMAIN queue : Pictured(queue[i].snapshot.item))
      => pairs = 1 /\ \A s \in Save : ~saves[s].own

\* Who waits on the queue of writes.
QueueInv ==
    /\ blocked => queue = <<>> /\ finish = "idle"
    /\ finished => digest.pc = "idle" /\ \A s \in Save : saves[s].pc = "idle"
    /\ finish # "idle" => finished
    /\ \A i, j \in DOMAIN queue : queue[i].by = "finish" /\ queue[j].by = "finish" => i = j
    /\ finish \in {"idle", "session"} => \A i \in DOMAIN queue : queue[i].by # "finish"

\* What the stream has told, or will tell when the write under way ends.
KeptInv ==
    /\ told /\ ~dropped =>
         /\ disk.item # Nothing /\ (term # Nothing \/ blocked)
         /\ \A i \in DOMAIN queue : queue[i].snapshot.item # Nothing
    /\ ~dropped => \A i \in DOMAIN queue : queue[i].by = "digest" =>
         /\ term # Nothing
         /\ \A j \in DOMAIN queue : i <= j => queue[j].snapshot.item # Nothing

Released == [item |-> Nothing, finished |-> TRUE]

\* What finish has answered, or will answer when the write under way ends.
ReleaseInv ==
    /\ ReleasedIsGone
    /\ released /\ ~blocked => finished
    /\ finish = "release" =>
         /\ term = Nothing
         /\ \A i \in DOMAIN queue : queue[i].by = "finish" =>
              \A j \in DOMAIN queue : i <= j => queue[j].snapshot = Released

\* What was read of the account, and what the mirror had noticed by then.
AccountInv ==
    /\ noticed <= identity
    /\ Asked /\ ~digest.aborted => made >= noticed
    /\ \A s \in Save :
         /\ saves[s].pc \in Holding => saves[s].since \in Nat /\ saves[s].since <= noticed
         /\ saves[s].pc = "checking" => saves[s].saw \in Nat /\ saves[s].saw >= saves[s].since
         /\ saves[s].pc \in {"write", "barrier"} /\ saves[s].since = noticed => made >= noticed
    /\ OldIsGone

ResultInv == ResultTypeOK /\ EarlyInv /\ TicketInv /\ SavedInv /\ QueueInv /\ KeptInv
             /\ ReleaseInv
          /\ AccountInv

-----------------------------------------------------------------------------
\* A write that is queued is a snapshot and the name of who waits for it.
LEMMA QueuedType ==
  ASSUME queue \in Seq(WriteRecord), NEW item \in TermRecord \cup {Nothing},
         NEW fin \in BOOLEAN, NEW by \in {"none", "boot", "digest", "finish"}
  PROVE  Queued(item, fin, by) \in Seq(WriteRecord)
<1> DEFINE w == [snapshot |-> [item |-> item, finished |-> fin], by |-> by]
<1>1. w \in WriteRecord
  BY DEF WriteRecord, Snapshot
<1>2. Append(queue, w) \in Seq(WriteRecord)
  BY <1>1
<1> QED
  BY <1>2 DEF Queued

\* A step of one save leaves the others as they are.
LEMMA SaveType ==
  ASSUME saves \in [Save -> SaveRecord], NEW s \in Save, NEW r \in SaveRecord
  PROVE  [saves EXCEPT ![s] = r] \in [Save -> SaveRecord]
OBVIOUS

\* An aborted request of a save.
LEMMA AbortedType ==
  ASSUME saves \in [Save -> SaveRecord], NEW s \in Save, NEW b \in BOOLEAN, NEW l \in BOOLEAN
  PROVE  /\ [saves[s] EXCEPT !.aborted = b] \in SaveRecord
         /\ [saves[s] EXCEPT !.allow = b] \in SaveRecord
         /\ [saves[s] EXCEPT !.aborted = b, !.late = l] \in SaveRecord
BY DEF SaveRecord

\* The write that ends is the first of the queue; the others move up.
LEMMA TakenWrite ==
  ASSUME queue \in Seq(WriteRecord), queue # <<>>, queue' = Tail(queue)
  PROVE  /\ 1 \in DOMAIN queue /\ Head(queue) = queue[1] /\ queue[1] \in WriteRecord
         /\ \A i \in DOMAIN queue : i \in Nat /\ 1 <= i
         /\ \A i \in DOMAIN queue' :
              i \in Nat /\ 1 <= i /\ i + 1 \in DOMAIN queue /\ queue'[i] = queue[i + 1]
OBVIOUS

\* A write that is queued comes after the others; a blocked one does not come.
LEMMA QueuedLast ==
  ASSUME queue \in Seq(WriteRecord), NEW item, NEW fin, NEW by
  PROVE  /\ blocked => Queued(item, fin, by) = queue
         /\ \A i \in DOMAIN Queued(item, fin, by) :
              \/ i \in DOMAIN queue /\ Queued(item, fin, by)[i] = queue[i]
              \/ /\ ~blocked
                 /\ Queued(item, fin, by)[i] =
                      [snapshot |-> [item |-> item, finished |-> fin], by |-> by]
BY DEF Queued

\* Nothing is asked for, nothing is queued, nobody holds anything.
LEMMA InitResult == ResultInit => ResultInv
<1> SUFFICES ASSUME ResultInit PROVE ResultInv
  OBVIOUS
<1> USE ConstantsAssumption, NothingAssumption DEF ResultInit, NoDigest, NoSave, NoPoll
<1>1. ResultTypeOK
  <2>1. NoSave \in SaveRecord
    BY DEF SaveRecord
  <2>2. saves \in [Save -> SaveRecord] /\ pairs \in Nat
    BY <2>1
  <2>3. queue \in Seq(WriteRecord) /\ disk \in Snapshot
    BY DEF Snapshot
  <2>4. digest \in DigestRecord /\ poll \in PollRecord
    BY DEF DigestRecord, PollRecord
  <2>5. identity \in Identity /\ noticed \in Identity /\ mishaps \in 0..MaxMishap
    BY DEF Identity
  <2> QED
    BY <2>2, <2>3, <2>4, <2>5 DEF ResultTypeOK
<1>2. EarlyInv /\ TicketInv /\ SavedInv
  BY DEF EarlyInv, TicketInv, SavedInv, Pictured, Holding
<1>3. QueueInv /\ KeptInv /\ ReleaseInv
  BY DEF QueueInv, KeptInv, ReleaseInv, ReleasedIsGone
<1>4. AccountInv
  BY DEF AccountInv, OldIsGone, Holding, Asked
<1> QED
  BY <1>1, <1>2, <1>3, <1>4 DEF ResultInv

\* Every step keeps the types: one step of the proof per action.
LEMMA StepResultTypeOK == ResultInv /\ [ResultNext]_stateVars => ResultTypeOK'
<1> SUFFICES ASSUME ResultInv, [ResultNext]_stateVars PROVE ResultTypeOK'
  OBVIOUS
<1> USE ConstantsAssumption, NothingAssumption
       DEF ResultInv, stateVars, batchVars, resultVars, saveVars, toldVars
<1>1. ASSUME WriteEnd PROVE ResultTypeOK'
  <2>1. digest' \in DigestRecord
    BY <1>1 DEF WriteEnd, ResultTypeOK, Identity, DigestRecord, NoDigest, Answered
  <2>2. term' \in TermRecord \cup {Nothing}
    BY <1>1 DEF WriteEnd, ResultTypeOK, TermRecord, Answered
  <2>3. queue' \in Seq(WriteRecord)
    BY <1>1 DEF WriteEnd, ResultTypeOK
  <2>4. disk' \in Snapshot
    <3>1. Head(queue) \in WriteRecord
      BY <1>1 DEF WriteEnd, ResultTypeOK
    <3> QED
      BY <1>1, <3>1 DEF WriteEnd, WriteRecord
  <2> QED
    BY <1>1, <2>1, <2>2, <2>3, <2>4 DEF WriteEnd, ResultTypeOK, Answered
<1>2. ASSUME WriteFail PROVE ResultTypeOK'
  <2>1. digest' \in DigestRecord
    BY <1>2 DEF WriteFail, ResultTypeOK, DigestRecord, NoDigest, Answered
  <2>2. term' \in TermRecord \cup {Nothing}
    BY <1>2 DEF WriteFail, ResultTypeOK, TermRecord, Answered
  <2>3. queue' \in Seq(WriteRecord)
    BY <1>2 DEF WriteFail, ResultTypeOK
  <2> QED
    BY <1>2, <2>1, <2>2, <2>3 DEF WriteFail, ResultTypeOK, Mishap, Answered
<1>3. ASSUME DigestBegin PROVE ResultTypeOK'
  <2>1. digest' \in DigestRecord
    BY <1>3 DEF DigestBegin, ResultTypeOK, Identity, DigestRecord, SaveRecord, PollRecord,
       WriteRecord, Snapshot, TermRecord, NoDigest
  <2> QED
    BY <1>3, <2>1 DEF DigestBegin, ResultTypeOK
<1>4. ASSUME DigestLook PROVE ResultTypeOK'
  <2>1. digest' \in DigestRecord
    BY <1>4 DEF DigestLook, ResultTypeOK, Identity, DigestRecord, SaveRecord, PollRecord,
       WriteRecord, Snapshot, TermRecord
  <2> QED
    BY <1>4, <2>1 DEF DigestLook, ResultTypeOK
<1>5. ASSUME DigestHandoff PROVE ResultTypeOK'
  <2>1. digest' \in DigestRecord
    BY <1>5 DEF DigestHandoff, ResultTypeOK, Identity, DigestRecord, SaveRecord,
       PollRecord, TermRecord, NoDigest, Registered
  <2>2. term' \in TermRecord \cup {Nothing}
    BY <1>5 DEF DigestHandoff, TermRecord, Registered
  <2>3. queue' \in Seq(WriteRecord)
    <3>1. [status |-> "done", persisted |-> "unset"] \in TermRecord \cup {Nothing}
          /\ [status |-> "error", persisted |-> "unset"] \in TermRecord \cup {Nothing}
      BY DEF TermRecord
    <3> QED
      BY <1>5, <3>1, QueuedType DEF DigestHandoff, Registered, ResultTypeOK
  <2> QED
    BY <1>5, <2>1, <2>2, <2>3 DEF DigestHandoff, ResultTypeOK
<1>6. ASSUME DigestFail PROVE ResultTypeOK'
  <2>1. digest' \in DigestRecord
    BY <1>6 DEF DigestFail, ResultTypeOK, Identity, DigestRecord, NoDigest, Registered
  <2>2. term' \in TermRecord \cup {Nothing}
    BY <1>6 DEF DigestFail, TermRecord, Registered
  <2>3. queue' \in Seq(WriteRecord)
    <3>1. [status |-> "done", persisted |-> "unset"] \in TermRecord \cup {Nothing}
          /\ [status |-> "error", persisted |-> "unset"] \in TermRecord \cup {Nothing}
      BY DEF TermRecord
    <3> QED
      BY <1>6, <3>1, QueuedType DEF DigestFail, Registered, ResultTypeOK
  <2> QED
    BY <1>6, <2>1, <2>2, <2>3 DEF DigestFail, ResultTypeOK
<1>7. ASSUME NEW s \in Save, SaveBegin(s) PROVE ResultTypeOK'
  BY <1>7 DEF SaveBegin, ResultTypeOK, SaveRecord
<1>8. ASSUME NEW s \in Save, SaveClaim(s) PROVE ResultTypeOK'
  <2>1. saves' \in [Save -> SaveRecord]
    <3>1. [saves[s] EXCEPT !.pc = "checking", !.saw = identity, !.since = noticed] \in SaveRecord
      BY <1>8 DEF ResultTypeOK, SaveRecord
    <3>2. saves' = [saves EXCEPT
            ![s] = [saves[s] EXCEPT !.pc = "checking", !.saw = identity, !.since = noticed]]
      BY <1>8 DEF SaveClaim, ResultTypeOK
    <3> QED
      BY <3>1, <3>2, SaveType DEF ResultTypeOK
  <2> QED
    BY <1>8, <2>1 DEF SaveClaim, ResultTypeOK
<1>9. ASSUME NEW s \in Save, SaveChecked(s) PROVE ResultTypeOK'
  <2>1. saves' \in [Save -> SaveRecord]
    <3>1. [saves[s] EXCEPT !.pc = "write", !.allow = (cancelled = "soft")] \in SaveRecord
      BY <1>9 DEF ResultTypeOK, SaveRecord
    <3>2. saves' = [saves EXCEPT
            ![s] = [saves[s] EXCEPT !.pc = "write", !.allow = (cancelled = "soft")]]
      BY <1>9 DEF SaveChecked, ResultTypeOK
    <3> QED
      BY <3>1, <3>2, SaveType DEF ResultTypeOK
  <2> QED
    BY <1>9, <2>1 DEF SaveChecked, ResultTypeOK
<1>10. ASSUME NEW s \in Save, SaveWrite(s) PROVE ResultTypeOK'
  <2>1. saves' \in [Save -> SaveRecord]
    <3>1. [saves[s] EXCEPT !.pc = "barrier", !.own = (pairs = 0)] \in SaveRecord
      BY <1>10 DEF ResultTypeOK, SaveRecord
    <3>2. saves' = [saves EXCEPT ![s] = [saves[s] EXCEPT !.pc = "barrier", !.own = (pairs = 0)]]
      BY <1>10 DEF SaveWrite, ResultTypeOK
    <3> QED
      BY <3>1, <3>2, SaveType DEF ResultTypeOK
  <2> QED
    BY <1>10, <2>1 DEF SaveWrite, ResultTypeOK
<1>11. ASSUME NEW s \in Save, SaveBarrier(s) PROVE ResultTypeOK'
  <2>1. saves' \in [Save -> SaveRecord]
    <3>1. [saves[s] EXCEPT !.pc = "index"] \in SaveRecord
      BY <1>11 DEF ResultTypeOK, SaveRecord
    <3>2. saves' = [saves EXCEPT ![s] = [saves[s] EXCEPT !.pc = "index"]]
      BY <1>11 DEF SaveBarrier, ResultTypeOK
    <3> QED
      BY <3>1, <3>2, SaveType DEF ResultTypeOK
  <2> QED
    BY <1>11, <2>1 DEF SaveBarrier, ResultTypeOK
<1>12. ASSUME NEW s \in Save, SaveCommit(s) PROVE ResultTypeOK'
  <2>1. term' \in TermRecord \cup {Nothing}
    BY <1>12 DEF SaveCommit, ResultTypeOK, SaveRecord, PollRecord, WriteRecord,
       TermRecord, NoSave, Queued
  <2>2. queue' \in Seq(WriteRecord)
    <3>1. [term EXCEPT !.status = "saved"] \in TermRecord \/ term = Nothing
      BY DEF ResultTypeOK, TermRecord
    <3> QED
      BY <1>12, <3>1, QueuedType DEF SaveCommit, ResultTypeOK
  <2>3. saves' \in [Save -> SaveRecord]
    BY <1>12 DEF SaveCommit, ResultTypeOK, SaveRecord, NoSave
  <2> QED
    BY <1>12, <2>1, <2>2, <2>3 DEF SaveCommit, ResultTypeOK
<1>13. ASSUME NEW s \in Save, SaveRefused(s) PROVE ResultTypeOK'
  BY <1>13 DEF SaveRefused, ResultTypeOK, SaveRecord, NoSave, Unclaimed
<1>14. ASSUME NEW s \in Save, SaveUnknown(s) PROVE ResultTypeOK'
  BY <1>14 DEF SaveUnknown, ResultTypeOK, SaveRecord, PollRecord, TermRecord, Mishap,
     NoSave, Unclaimed
<1>15. ASSUME PollBegin PROVE ResultTypeOK'
  <2>1. poll' \in PollRecord /\ finish' \in {"idle", "tombstone", "session", "release"}
    BY <1>15 DEF PollBegin, ResultTypeOK, Identity, DigestRecord, SaveRecord, PollRecord,
       WriteRecord, Snapshot, TermRecord, NoPoll
  <2> QED
    BY <1>15, <2>1 DEF PollBegin, ResultTypeOK
<1>16. ASSUME PollAnswer PROVE ResultTypeOK'
  BY <1>16 DEF PollAnswer, ResultTypeOK, Identity, PollRecord, NoPoll
<1>17. ASSUME FinishBegin PROVE ResultTypeOK'
  <2>1. queue' \in Seq(WriteRecord)
    BY <1>17, QueuedType DEF FinishBegin, ResultTypeOK
  <2> QED
    BY <1>17, <2>1 DEF FinishBegin, ResultTypeOK, Identity, PollRecord
<1>18. ASSUME FinishRelease PROVE ResultTypeOK'
  <2>1. queue' \in Seq(WriteRecord)
    <3> DEFINE w == [snapshot |-> [item |-> Nothing, finished |-> finished], by |-> "finish"]
    <3>1. w \in WriteRecord
      BY DEF ResultTypeOK, WriteRecord, Snapshot
    <3>2. Queued(Nothing, finished, "none") \in Seq(WriteRecord)
      BY QueuedType DEF ResultTypeOK
    <3>3. /\ Append(Queued(Nothing, finished, "none"), w) \in Seq(WriteRecord)
          /\ Append(queue, w) \in Seq(WriteRecord)
      BY <3>1, <3>2 DEF ResultTypeOK
    <3> QED
      BY <1>18, <3>3 DEF FinishRelease
  <2> QED
    BY <1>18, <2>1 DEF FinishRelease, ResultTypeOK
<1>19. ASSUME FinishKeep PROVE ResultTypeOK'
  BY <1>19 DEF FinishKeep, ResultTypeOK
<1>20. ASSUME NEW hard \in BOOLEAN, Cancel(hard) PROVE ResultTypeOK'
  <2>1. digest' \in DigestRecord
    BY <1>20 DEF Cancel, ResultTypeOK, Identity, DigestRecord, SaveRecord, PollRecord,
       WriteRecord, Snapshot, TermRecord
  <2>2. saves' \in [Save -> SaveRecord]
    BY <1>20, AbortedType DEF Cancel, ResultTypeOK
  <2> QED
    BY <1>20, <2>1, <2>2 DEF Cancel, ResultTypeOK
<1>21. ASSUME NEW hard \in BOOLEAN, Sweep(hard) PROVE ResultTypeOK'
  <2>1. digest' \in DigestRecord
    BY <1>21 DEF Sweep, ResultTypeOK, Identity, DigestRecord, SaveRecord, PollRecord,
       WriteRecord, Snapshot, TermRecord, Mishap, Queued, ReleaseResults, Aborted, Busy
  <2>2. term' \in TermRecord \cup {Nothing}
    BY <1>21 DEF Sweep, ResultTypeOK, ReleaseResults
  <2>3. queue' \in Seq(WriteRecord)
    BY <1>21, QueuedType DEF Sweep, ReleaseResults, ResultTypeOK
  <2>4. saves' \in [Save -> SaveRecord]
    BY <1>21, AbortedType DEF Sweep, Aborted, ResultTypeOK
  <2>5. /\ told' \in BOOLEAN /\ dropped' \in BOOLEAN
        /\ released' \in BOOLEAN /\ mishaps' \in 0..MaxMishap
    BY <1>21 DEF Sweep, ResultTypeOK, Mishap, ReleaseResults
  <2> QED
    BY <1>21, <2>1, <2>2, <2>3, <2>4, <2>5 DEF Sweep, ResultTypeOK, Identity, Mishap,
       ReleaseResults, PollRecord
<1>22. ASSUME NEW hard \in BOOLEAN, Restart(hard) PROVE ResultTypeOK'
  <2>1. /\ service' \in {"boot", "up"} /\ settings' \in BOOLEAN
        /\ cancelled' \in {"no", "soft", "hard"}
    BY <1>22 DEF Restart, ResultTypeOK, Identity, DigestRecord, SaveRecord, PollRecord,
       WriteRecord, Snapshot, TermRecord, Mishap, NoDigest, NoSave, NoPoll
  <2>2. finished' \in BOOLEAN /\ blocked' \in BOOLEAN
    BY <1>22 DEF Restart, ResultTypeOK
  <2>3. digest' \in DigestRecord
    BY <1>22 DEF Restart, DigestRecord, NoDigest
  <2>4. term' \in TermRecord \cup {Nothing}
    BY <1>22 DEF Restart, ResultTypeOK, Snapshot
  <2>5. ticket' \in {"none", "free", "claimed"}
    BY <1>22 DEF Restart, ResultTypeOK
  <2>6. queue' \in Seq(WriteRecord)
    <3>1. [snapshot |-> disk, by |-> "boot"] \in WriteRecord
      BY DEF ResultTypeOK, WriteRecord
    <3>2. <<[snapshot |-> disk, by |-> "boot"]>> \in Seq(WriteRecord) /\ <<>> \in Seq(WriteRecord)
      BY <3>1
    <3> QED
      BY <1>22, <3>2 DEF Restart
  <2>7. saves' \in [Save -> SaveRecord]
    BY <1>22 DEF Restart, SaveRecord, NoSave
  <2>8. poll' \in PollRecord /\ finish' \in {"idle", "tombstone", "session", "release"}
    BY <1>22 DEF Restart, PollRecord, NoPoll
  <2> QED
    BY <1>22, <2>1, <2>2, <2>3, <2>4, <2>5, <2>6, <2>7, <2>8 DEF Restart, ResultTypeOK,
       Mishap
<1>23. ASSUME IdentityChanges PROVE ResultTypeOK'
  BY <1>23 DEF IdentityChanges, ResultTypeOK, Identity
<1>24. ASSUME Notice PROVE ResultTypeOK'
  <2>1. digest' \in DigestRecord
    BY <1>24 DEF Notice, ResultTypeOK, Identity, DigestRecord, SaveRecord, PollRecord,
       WriteRecord, Snapshot, TermRecord, Queued, ReleaseResults
  <2>2. queue' \in Seq(WriteRecord)
    BY <1>24, QueuedType DEF Notice, ReleaseResults, ResultTypeOK
  <2>3. saves' \in [Save -> SaveRecord]
    BY <1>24, AbortedType DEF Notice, ResultTypeOK
  <2> QED
    BY <1>24, <2>1, <2>2, <2>3 DEF Notice, ResultTypeOK, Identity, ReleaseResults,
       PollRecord
<1>25. ASSUME StartAgain PROVE ResultTypeOK'
  BY <1>25 DEF StartAgain, ResultTypeOK
<1>26. ASSUME UNCHANGED stateVars PROVE ResultTypeOK'
  BY <1>26 DEF ResultTypeOK
<1> QED
  BY <1>1, <1>2, <1>3, <1>4, <1>5, <1>6, <1>7, <1>8, <1>9, <1>10, <1>11, <1>12, <1>13,
     <1>14, <1>15, <1>16, <1>17, <1>18, <1>19, <1>20, <1>21, <1>22, <1>23, <1>24, <1>25,
     <1>26 DEF ResultNext, DigestStep, SavingStep, FinishStep

\* Before its result is registered a digest still has left nothing behind.
LEMMA StepEarlyInv == ResultInv /\ [ResultNext]_stateVars => EarlyInv'
<1> SUFFICES ASSUME ResultInv, [ResultNext]_stateVars PROVE EarlyInv'
  OBVIOUS
<1> USE ConstantsAssumption, NothingAssumption
       DEF ResultInv, stateVars, batchVars, resultVars, saveVars, toldVars
<1>1. ASSUME WriteEnd PROVE EarlyInv'
  BY <1>1 DEF WriteEnd, EarlyInv, Holding, Asked, ResultTypeOK, Identity, NoDigest,
     Answered
<1>2. ASSUME WriteFail PROVE EarlyInv'
  BY <1>2 DEF WriteFail, EarlyInv, Asked, ResultTypeOK, NoDigest, Answered
<1>3. ASSUME DigestBegin PROVE EarlyInv'
  BY <1>3 DEF DigestBegin, EarlyInv, Holding, ResultTypeOK, Identity
<1>4. ASSUME DigestLook PROVE EarlyInv'
  BY <1>4 DEF DigestLook, EarlyInv, Asked
<1>5. ASSUME DigestHandoff PROVE EarlyInv'
  BY <1>5 DEF DigestHandoff, EarlyInv, Asked, NoDigest, Registered
<1>6. ASSUME DigestFail PROVE EarlyInv'
  BY <1>6 DEF DigestFail, EarlyInv, Asked, NoDigest, Registered
<1>7. ASSUME NEW s \in Save, SaveBegin(s) PROVE EarlyInv'
  BY <1>7 DEF SaveBegin, EarlyInv, Holding, Asked
<1>8. ASSUME NEW s \in Save, SaveClaim(s) PROVE EarlyInv'
  BY <1>8 DEF SaveClaim, EarlyInv, Asked
<1>9. ASSUME NEW s \in Save, SaveChecked(s) PROVE EarlyInv'
  BY <1>9 DEF SaveChecked, EarlyInv, Holding, Asked
<1>10. ASSUME NEW s \in Save, SaveWrite(s) PROVE EarlyInv'
  BY <1>10 DEF SaveWrite, EarlyInv, Holding, Asked
<1>11. ASSUME NEW s \in Save, SaveBarrier(s) PROVE EarlyInv'
  BY <1>11 DEF SaveBarrier, EarlyInv, Holding, Asked
<1>12. ASSUME NEW s \in Save, SaveCommit(s) PROVE EarlyInv'
  BY <1>12 DEF SaveCommit, EarlyInv, Holding, Asked
<1>13. ASSUME NEW s \in Save, SaveRefused(s) PROVE EarlyInv'
  BY <1>13 DEF SaveRefused, EarlyInv, Holding, Asked, NoSave, Unclaimed
<1>14. ASSUME NEW s \in Save, SaveUnknown(s) PROVE EarlyInv'
  BY <1>14 DEF SaveUnknown, EarlyInv, Holding, Asked
<1>15. ASSUME PollBegin PROVE EarlyInv'
  BY <1>15 DEF PollBegin, EarlyInv, Asked
<1>16. ASSUME PollAnswer PROVE EarlyInv'
  BY <1>16 DEF PollAnswer, EarlyInv, Asked
<1>17. ASSUME FinishBegin PROVE EarlyInv'
  BY <1>17 DEF FinishBegin, EarlyInv, Asked, Queued
<1>18. ASSUME FinishRelease PROVE EarlyInv'
  BY <1>18 DEF FinishRelease, EarlyInv, Asked
<1>19. ASSUME FinishKeep PROVE EarlyInv'
  BY <1>19 DEF FinishKeep, EarlyInv, Asked
<1>20. ASSUME NEW hard \in BOOLEAN, Cancel(hard) PROVE EarlyInv'
  BY <1>20 DEF Cancel, EarlyInv, Asked
<1>21. ASSUME NEW hard \in BOOLEAN, Sweep(hard) PROVE EarlyInv'
  BY <1>21 DEF Sweep, EarlyInv, Asked, ReleaseResults, Aborted
<1>22. ASSUME NEW hard \in BOOLEAN, Restart(hard) PROVE EarlyInv'
  BY <1>22 DEF Restart, EarlyInv, Holding, Asked, NoDigest, NoSave
<1>23. ASSUME IdentityChanges PROVE EarlyInv'
  BY <1>23 DEF IdentityChanges, EarlyInv, Asked
<1>24. ASSUME Notice PROVE EarlyInv'
  BY <1>24 DEF Notice, EarlyInv, Holding, Asked, ResultTypeOK, Identity, DigestRecord,
     SaveRecord, PollRecord, WriteRecord, Snapshot, TermRecord, Queued, ReleaseResults
<1>25. ASSUME StartAgain PROVE EarlyInv'
  BY <1>25 DEF StartAgain, EarlyInv, Asked
<1>26. ASSUME UNCHANGED stateVars PROVE EarlyInv'
  BY <1>26 DEF EarlyInv, Holding, Asked
<1> QED
  BY <1>1, <1>2, <1>3, <1>4, <1>5, <1>6, <1>7, <1>8, <1>9, <1>10, <1>11, <1>12, <1>13,
     <1>14, <1>15, <1>16, <1>17, <1>18, <1>19, <1>20, <1>21, <1>22, <1>23, <1>24, <1>25,
     <1>26 DEF ResultNext, DigestStep, SavingStep, FinishStep

\* One save at a time holds the ticket: it is free only when nobody does.
LEMMA StepTicketInv == ResultInv /\ [ResultNext]_stateVars => TicketInv'
<1> SUFFICES ASSUME ResultInv, [ResultNext]_stateVars PROVE TicketInv'
  OBVIOUS
<1> USE ConstantsAssumption, NothingAssumption
       DEF ResultInv, stateVars, batchVars, resultVars, saveVars, toldVars
<1>1. ASSUME WriteEnd PROVE TicketInv'
  BY <1>1 DEF WriteEnd, TicketInv, Answered
<1>2. ASSUME WriteFail PROVE TicketInv'
  BY <1>2 DEF WriteFail, TicketInv, Answered
<1>3. ASSUME DigestBegin PROVE TicketInv'
  BY <1>3 DEF DigestBegin, TicketInv
<1>4. ASSUME DigestLook PROVE TicketInv'
  BY <1>4 DEF DigestLook, TicketInv
<1>5. ASSUME DigestHandoff PROVE TicketInv'
  BY <1>5 DEF DigestHandoff, TicketInv, EarlyInv, Asked, Registered
<1>6. ASSUME DigestFail PROVE TicketInv'
  BY <1>6 DEF DigestFail, TicketInv, EarlyInv, Asked
<1>7. ASSUME NEW s \in Save, SaveBegin(s) PROVE TicketInv'
  BY <1>7 DEF SaveBegin, TicketInv, Holding
<1>8. ASSUME NEW s \in Save, SaveClaim(s) PROVE TicketInv'
  BY <1>8 DEF SaveClaim, TicketInv, ResultTypeOK
<1>9. ASSUME NEW s \in Save, SaveChecked(s) PROVE TicketInv'
  BY <1>9 DEF SaveChecked, TicketInv, Holding, ResultTypeOK
<1>10. ASSUME NEW s \in Save, SaveWrite(s) PROVE TicketInv'
  BY <1>10 DEF SaveWrite, TicketInv, Holding, ResultTypeOK
<1>11. ASSUME NEW s \in Save, SaveBarrier(s) PROVE TicketInv'
  BY <1>11 DEF SaveBarrier, TicketInv, Holding
<1>12. ASSUME NEW s \in Save, SaveCommit(s) PROVE TicketInv'
  BY <1>12 DEF SaveCommit, TicketInv, Holding, NoSave
<1>13. ASSUME NEW s \in Save, SaveRefused(s) PROVE TicketInv'
  BY <1>13 DEF SaveRefused, TicketInv, Holding, Asked, ResultTypeOK, Identity,
     DigestRecord, SaveRecord, NoSave, Unclaimed
<1>14. ASSUME NEW s \in Save, SaveUnknown(s) PROVE TicketInv'
  BY <1>14 DEF SaveUnknown, TicketInv, Holding, ResultTypeOK, NoSave, Unclaimed
<1>15. ASSUME PollBegin PROVE TicketInv'
  BY <1>15 DEF PollBegin, TicketInv
<1>16. ASSUME PollAnswer PROVE TicketInv'
  BY <1>16 DEF PollAnswer, TicketInv
<1>17. ASSUME FinishBegin PROVE TicketInv'
  BY <1>17 DEF FinishBegin, TicketInv
<1>18. ASSUME FinishRelease PROVE TicketInv'
  BY <1>18 DEF FinishRelease, TicketInv
<1>19. ASSUME FinishKeep PROVE TicketInv'
  BY <1>19 DEF FinishKeep, TicketInv
<1>20. ASSUME NEW hard \in BOOLEAN, Cancel(hard) PROVE TicketInv'
  BY <1>20 DEF Cancel, TicketInv
<1>21. ASSUME NEW hard \in BOOLEAN, Sweep(hard) PROVE TicketInv'
  BY <1>21 DEF Sweep, TicketInv, ReleaseResults, Aborted
<1>22. ASSUME NEW hard \in BOOLEAN, Restart(hard) PROVE TicketInv'
  BY <1>22 DEF Restart, TicketInv, Holding, NoSave
<1>23. ASSUME IdentityChanges PROVE TicketInv'
  BY <1>23 DEF IdentityChanges, TicketInv
<1>24. ASSUME Notice PROVE TicketInv'
  <2>1. pairs' = pairs /\ ticket' = "none"
        /\ \A s \in Save : saves'[s].own = saves[s].own /\ saves'[s].pc = saves[s].pc
    BY <1>24 DEF Notice, ReleaseResults, ResultTypeOK, SaveRecord
  <2> QED
    BY <2>1 DEF TicketInv
<1>25. ASSUME StartAgain PROVE TicketInv'
  BY <1>25 DEF StartAgain, TicketInv
<1>26. ASSUME UNCHANGED stateVars PROVE TicketInv'
  BY <1>26 DEF TicketInv
<1> QED
  BY <1>1, <1>2, <1>3, <1>4, <1>5, <1>6, <1>7, <1>8, <1>9, <1>10, <1>11, <1>12, <1>13,
     <1>14, <1>15, <1>16, <1>17, <1>18, <1>19, <1>20, <1>21, <1>22, <1>23, <1>24, <1>25,
     <1>26 DEF ResultNext, DigestStep, SavingStep, FinishStep

\* A save that marks the result has its picture, and nobody takes it away after.
LEMMA StepSavedInv == ResultInv /\ [ResultNext]_stateVars => SavedInv'
<1> SUFFICES ASSUME ResultInv, [ResultNext]_stateVars PROVE SavedInv'
  OBVIOUS
<1> USE ConstantsAssumption, NothingAssumption
       DEF ResultInv, stateVars, batchVars, resultVars, saveVars, toldVars
<1>1. ASSUME WriteEnd PROVE SavedInv'
  BY <1>1 DEF WriteEnd, SavedInv, Pictured, ResultTypeOK, Identity, Answered
<1>2. ASSUME WriteFail PROVE SavedInv'
  BY <1>2 DEF WriteFail, SavedInv, Pictured, Mishap, NoDigest, Answered
<1>3. ASSUME DigestBegin PROVE SavedInv'
  BY <1>3 DEF DigestBegin, SavedInv
<1>4. ASSUME DigestLook PROVE SavedInv'
  BY <1>4 DEF DigestLook, SavedInv
<1>5. ASSUME DigestHandoff PROVE SavedInv'
  BY <1>5 DEF DigestHandoff, SavedInv, Pictured, Queued, Registered
<1>6. ASSUME DigestFail PROVE SavedInv'
  BY <1>6 DEF DigestFail, SavedInv, Pictured, Queued, Registered
<1>7. ASSUME NEW s \in Save, SaveBegin(s) PROVE SavedInv'
  BY <1>7 DEF SaveBegin, SavedInv
<1>8. ASSUME NEW s \in Save, SaveClaim(s) PROVE SavedInv'
  BY <1>8 DEF SaveClaim, SavedInv, ResultTypeOK
<1>9. ASSUME NEW s \in Save, SaveChecked(s) PROVE SavedInv'
  BY <1>9 DEF SaveChecked, SavedInv, ResultTypeOK
<1>10. ASSUME NEW s \in Save, SaveWrite(s) PROVE SavedInv'
  BY <1>10 DEF SaveWrite, SavedInv, Asked, ResultTypeOK, SaveRecord
<1>11. ASSUME NEW s \in Save, SaveBarrier(s) PROVE SavedInv'
  BY <1>11 DEF SaveBarrier, SavedInv
<1>12. ASSUME NEW s \in Save, SaveCommit(s) PROVE SavedInv'
  BY <1>12 DEF SaveCommit, SavedInv, Pictured, TicketInv, EarlyInv, Holding, Asked,
     ResultTypeOK, Identity, DigestRecord, NoSave, Queued
<1>13. ASSUME NEW s \in Save, SaveRefused(s) PROVE SavedInv'
  BY <1>13 DEF SaveRefused, SavedInv, NoSave
<1>14. ASSUME NEW s \in Save, SaveUnknown(s) PROVE SavedInv'
  BY <1>14 DEF SaveUnknown, SavedInv, NoSave
<1>15. ASSUME PollBegin PROVE SavedInv'
  BY <1>15 DEF PollBegin, SavedInv
<1>16. ASSUME PollAnswer PROVE SavedInv'
  BY <1>16 DEF PollAnswer, SavedInv
<1>17. ASSUME FinishBegin PROVE SavedInv'
  BY <1>17 DEF FinishBegin, SavedInv, Queued
<1>18. ASSUME FinishRelease PROVE SavedInv'
  BY <1>18 DEF FinishRelease, SavedInv, Pictured, Queued
<1>19. ASSUME FinishKeep PROVE SavedInv'
  BY <1>19 DEF FinishKeep, SavedInv
<1>20. ASSUME NEW hard \in BOOLEAN, Cancel(hard) PROVE SavedInv'
  BY <1>20 DEF Cancel, SavedInv
<1>21. ASSUME NEW hard \in BOOLEAN, Sweep(hard) PROVE SavedInv'
  <2>1. /\ UNCHANGED <<disk, pairs>>
        /\ \A s \in Save : saves'[s].own = saves[s].own
    BY <1>21 DEF Sweep, Aborted
  <2>2. term' = Nothing \/ term' = term
    BY <1>21 DEF Sweep, ReleaseResults
  <2>3. queue' = queue \/ queue' = Queued(Nothing, finished, "none")
    BY <1>21 DEF Sweep, ReleaseResults
  <2>4. \A i \in DOMAIN queue' :
          \/ i \in DOMAIN queue /\ queue'[i] = queue[i]
          \/ queue'[i].snapshot.item = Nothing
    BY <2>3, QueuedLast DEF ResultTypeOK
  <2> QED
    BY <2>1, <2>2, <2>4 DEF SavedInv, Pictured
<1>22. ASSUME NEW hard \in BOOLEAN, Restart(hard) PROVE SavedInv'
  BY <1>22 DEF Restart, SavedInv, Pictured, NoSave
<1>23. ASSUME IdentityChanges PROVE SavedInv'
  BY <1>23 DEF IdentityChanges, SavedInv
<1>24. ASSUME Notice PROVE SavedInv'
  <2>1. /\ UNCHANGED <<disk, pairs>>
        /\ \A s \in Save : saves'[s].own = saves[s].own
    BY <1>24 DEF Notice, ResultTypeOK, SaveRecord
  <2>2. term' = Nothing \/ term' = term
    BY <1>24 DEF Notice, ReleaseResults
  <2>3. queue' = queue \/ queue' = Queued(Nothing, finished, "none")
    BY <1>24 DEF Notice, ReleaseResults
  <2>4. \A i \in DOMAIN queue' :
          \/ i \in DOMAIN queue /\ queue'[i] = queue[i]
          \/ queue'[i].snapshot.item = Nothing
    BY <2>3, QueuedLast DEF ResultTypeOK
  <2> QED
    BY <2>1, <2>2, <2>4 DEF SavedInv, Pictured
<1>25. ASSUME StartAgain PROVE SavedInv'
  BY <1>25 DEF StartAgain, SavedInv
<1>26. ASSUME UNCHANGED stateVars PROVE SavedInv'
  BY <1>26 DEF SavedInv
<1> QED
  BY <1>1, <1>2, <1>3, <1>4, <1>5, <1>6, <1>7, <1>8, <1>9, <1>10, <1>11, <1>12, <1>13,
     <1>14, <1>15, <1>16, <1>17, <1>18, <1>19, <1>20, <1>21, <1>22, <1>23, <1>24, <1>25,
     <1>26 DEF ResultNext, DigestStep, SavingStep, FinishStep

\* A finish asks the queue again only when its first write has ended.
LEMMA StepQueueInv == ResultInv /\ [ResultNext]_stateVars => QueueInv'
<1> SUFFICES ASSUME ResultInv, [ResultNext]_stateVars PROVE QueueInv'
  OBVIOUS
<1> USE ConstantsAssumption, NothingAssumption
       DEF ResultInv, stateVars, batchVars, resultVars, saveVars, toldVars
<1>1. ASSUME WriteEnd PROVE QueueInv'
  <2>1. queue # <<>> /\ queue' = Tail(queue)
    BY <1>1 DEF WriteEnd
  <2>2. /\ 1 \in DOMAIN queue /\ queue[1] \in WriteRecord /\ Head(queue) = queue[1]
        /\ \A i \in DOMAIN queue : i \in Nat /\ 1 <= i
        /\ \A i \in DOMAIN queue' :
             i \in Nat /\ 1 <= i /\ i + 1 \in DOMAIN queue /\ queue'[i] = queue[i + 1]
    BY <2>1, TakenWrite DEF ResultTypeOK
  <2>3. /\ Answered(queue[1].by, TRUE) /\ disk' = queue[1].snapshot
        /\ UNCHANGED <<identity, noticed, settings, cancelled, finished, blocked, made,
                        ticket, saves, pairs, poll, dropped>>
    BY <1>1, <2>2 DEF WriteEnd
  <2>4. \A i, j \in DOMAIN queue' : queue'[i].by = "finish" /\ queue'[j].by = "finish" => i = j
    <3> SUFFICES ASSUME NEW i \in DOMAIN queue', NEW j \in DOMAIN queue',
                        queue'[i].by = "finish", queue'[j].by = "finish"
                 PROVE  i = j
      OBVIOUS
    <3>1. i + 1 = j + 1
      BY <2>2 DEF QueueInv
    <3> QED
      BY <2>2, <3>1
  <2>5. ASSUME finish' \in {"idle", "session"}, NEW i \in DOMAIN queue'
        PROVE  queue'[i].by # "finish"
    <3>1. CASE queue[1].by = "finish"
      <4>1. i + 1 # 1
        BY <2>2, <2>5
      <4> QED
        BY <2>2, <2>5, <3>1, <4>1 DEF QueueInv
    <3>2. CASE queue[1].by # "finish"
      BY <2>2, <2>3, <2>5, <3>2 DEF QueueInv, Answered
    <3> QED
      BY <3>1, <3>2
  <2> QED
    BY <2>1, <2>3, <2>4, <2>5 DEF QueueInv, Answered, NoDigest
<1>2. ASSUME WriteFail PROVE QueueInv'
  <2>1. queue # <<>> /\ queue' = Tail(queue)
    BY <1>2 DEF WriteFail
  <2>2. /\ 1 \in DOMAIN queue /\ queue[1] \in WriteRecord /\ Head(queue) = queue[1]
        /\ \A i \in DOMAIN queue : i \in Nat /\ 1 <= i
        /\ \A i \in DOMAIN queue' :
             i \in Nat /\ 1 <= i /\ i + 1 \in DOMAIN queue /\ queue'[i] = queue[i + 1]
    BY <2>1, TakenWrite DEF ResultTypeOK
  <2>3. /\ Answered(queue[1].by, FALSE) /\ disk' = disk
        /\ UNCHANGED <<identity, noticed, settings, cancelled, finished, blocked, made,
                        ticket, saves, pairs, poll, dropped>>
    BY <1>2, <2>2 DEF WriteFail
  <2>4. \A i, j \in DOMAIN queue' : queue'[i].by = "finish" /\ queue'[j].by = "finish" => i = j
    <3> SUFFICES ASSUME NEW i \in DOMAIN queue', NEW j \in DOMAIN queue',
                        queue'[i].by = "finish", queue'[j].by = "finish"
                 PROVE  i = j
      OBVIOUS
    <3>1. i + 1 = j + 1
      BY <2>2 DEF QueueInv
    <3> QED
      BY <2>2, <3>1
  <2>5. ASSUME finish' \in {"idle", "session"}, NEW i \in DOMAIN queue'
        PROVE  queue'[i].by # "finish"
    <3>1. CASE queue[1].by = "finish"
      <4>1. i + 1 # 1
        BY <2>2, <2>5
      <4> QED
        BY <2>2, <2>5, <3>1, <4>1 DEF QueueInv
    <3>2. CASE queue[1].by # "finish"
      BY <2>2, <2>3, <2>5, <3>2 DEF QueueInv, Answered
    <3> QED
      BY <3>1, <3>2
  <2> QED
    BY <2>1, <2>3, <2>4, <2>5 DEF QueueInv, Answered, NoDigest
<1>3. ASSUME DigestBegin PROVE QueueInv'
  BY <1>3 DEF DigestBegin, QueueInv
<1>4. ASSUME DigestLook PROVE QueueInv'
  BY <1>4 DEF DigestLook, QueueInv
<1>5. ASSUME DigestHandoff PROVE QueueInv'
  BY <1>5 DEF DigestHandoff, QueueInv, Queued, Registered
<1>6. ASSUME DigestFail PROVE QueueInv'
  BY <1>6 DEF DigestFail, QueueInv, Queued, Registered
<1>7. ASSUME NEW s \in Save, SaveBegin(s) PROVE QueueInv'
  BY <1>7 DEF SaveBegin, QueueInv
<1>8. ASSUME NEW s \in Save, SaveClaim(s) PROVE QueueInv'
  BY <1>8 DEF SaveClaim, QueueInv
<1>9. ASSUME NEW s \in Save, SaveChecked(s) PROVE QueueInv'
  BY <1>9 DEF SaveChecked, QueueInv
<1>10. ASSUME NEW s \in Save, SaveWrite(s) PROVE QueueInv'
  BY <1>10 DEF SaveWrite, QueueInv
<1>11. ASSUME NEW s \in Save, SaveBarrier(s) PROVE QueueInv'
  BY <1>11 DEF SaveBarrier, QueueInv
<1>12. ASSUME NEW s \in Save, SaveCommit(s) PROVE QueueInv'
  <2>1. ~finished /\ finish = "idle" /\ UNCHANGED <<blocked, finish, finished, digest>>
    BY <1>12 DEF SaveCommit, QueueInv
  <2>2. queue' = queue \/ queue' = Queued(term', finished, "none")
    BY <1>12 DEF SaveCommit
  <2>3. blocked => queue' = queue
    BY <2>2, QueuedLast DEF ResultTypeOK
  <2>4. \A i \in DOMAIN queue' : queue'[i].by # "finish"
    BY <2>1, <2>2, QueuedLast DEF ResultTypeOK, QueueInv
  <2> QED
    BY <2>1, <2>3, <2>4 DEF QueueInv
<1>13. ASSUME NEW s \in Save, SaveRefused(s) PROVE QueueInv'
  BY <1>13 DEF SaveRefused, QueueInv, Unclaimed
<1>14. ASSUME NEW s \in Save, SaveUnknown(s) PROVE QueueInv'
  BY <1>14 DEF SaveUnknown, QueueInv, Unclaimed
<1>15. ASSUME PollBegin PROVE QueueInv'
  BY <1>15 DEF PollBegin, QueueInv
<1>16. ASSUME PollAnswer PROVE QueueInv'
  BY <1>16 DEF PollAnswer, QueueInv
<1>17. ASSUME FinishBegin PROVE QueueInv'
  BY <1>17 DEF FinishBegin, QueueInv, Queued
<1>18. ASSUME FinishRelease PROVE QueueInv'
  BY <1>18 DEF FinishRelease, QueueInv, Queued
<1>19. ASSUME FinishKeep PROVE QueueInv'
  BY <1>19 DEF FinishKeep, QueueInv
<1>20. ASSUME NEW hard \in BOOLEAN, Cancel(hard) PROVE QueueInv'
  BY <1>20 DEF Cancel, QueueInv
<1>21. ASSUME NEW hard \in BOOLEAN, Sweep(hard) PROVE QueueInv'
  <2>1. /\ UNCHANGED <<blocked, finish, finished>>
        /\ digest.pc = "idle" => digest'.pc = "idle"
        /\ \A s \in Save : saves[s].pc = "idle" => saves'[s].pc = "idle"
    BY <1>21 DEF Sweep, Aborted
  <2>2. queue' = queue \/ queue' = Queued(Nothing, finished, "none")
    BY <1>21 DEF Sweep, ReleaseResults
  <2>3. blocked => queue' = queue
    BY <2>2, QueuedLast DEF ResultTypeOK
  <2>4. \A i \in DOMAIN queue' :
          \/ i \in DOMAIN queue /\ queue'[i] = queue[i]
          \/ queue'[i].by = "none"
    BY <2>2, QueuedLast DEF ResultTypeOK
  <2> QED
    BY <2>1, <2>3, <2>4 DEF QueueInv
<1>22. ASSUME NEW hard \in BOOLEAN, Restart(hard) PROVE QueueInv'
  <2>1. finish' = "idle" /\ digest'.pc = "idle" /\ \A s \in Save : saves'[s].pc = "idle"
    BY <1>22 DEF Restart, NoDigest, NoSave
  <2>2. blocked' => queue' = <<>>
    BY <1>22 DEF Restart
  <2>3. \A i \in DOMAIN queue' : queue'[i] = [snapshot |-> disk, by |-> "boot"]
    BY <1>22 DEF Restart
  <2> QED
    BY <2>1, <2>2, <2>3 DEF QueueInv
<1>23. ASSUME IdentityChanges PROVE QueueInv'
  BY <1>23 DEF IdentityChanges, QueueInv
<1>24. ASSUME Notice PROVE QueueInv'
  <2>1. /\ UNCHANGED <<blocked, finish, finished>>
        /\ digest.pc = "idle" => digest'.pc = "idle"
        /\ \A s \in Save : saves[s].pc = "idle" => saves'[s].pc = "idle"
    BY <1>24 DEF Notice, ResultTypeOK, DigestRecord, SaveRecord
  <2>2. queue' = queue \/ queue' = Queued(Nothing, finished, "none")
    BY <1>24 DEF Notice, ReleaseResults
  <2>3. blocked => queue' = queue
    BY <2>2, QueuedLast DEF ResultTypeOK
  <2>4. \A i \in DOMAIN queue' :
          \/ i \in DOMAIN queue /\ queue'[i] = queue[i]
          \/ queue'[i].by = "none"
    BY <2>2, QueuedLast DEF ResultTypeOK
  <2> QED
    BY <2>1, <2>3, <2>4 DEF QueueInv
<1>25. ASSUME StartAgain PROVE QueueInv'
  BY <1>25 DEF StartAgain, QueueInv
<1>26. ASSUME UNCHANGED stateVars PROVE QueueInv'
  BY <1>26 DEF QueueInv
<1> QED
  BY <1>1, <1>2, <1>3, <1>4, <1>5, <1>6, <1>7, <1>8, <1>9, <1>10, <1>11, <1>12, <1>13,
     <1>14, <1>15, <1>16, <1>17, <1>18, <1>19, <1>20, <1>21, <1>22, <1>23, <1>24, <1>25,
     <1>26 DEF ResultNext, DigestStep, SavingStep, FinishStep

\* What is told to be kept is in the file, or gone with a release.
LEMMA StepKeptInv == ResultInv /\ [ResultNext]_stateVars => KeptInv'
<1> SUFFICES ASSUME ResultInv, [ResultNext]_stateVars PROVE KeptInv'
  OBVIOUS
<1> USE ConstantsAssumption, NothingAssumption
       DEF ResultInv, stateVars, batchVars, resultVars, saveVars, toldVars
<1>1. ASSUME WriteEnd PROVE KeptInv'
  <2>1. queue # <<>> /\ queue' = Tail(queue)
    BY <1>1 DEF WriteEnd
  <2>2. /\ 1 \in DOMAIN queue /\ queue[1] \in WriteRecord /\ Head(queue) = queue[1]
        /\ \A i \in DOMAIN queue : i \in Nat /\ 1 <= i
        /\ \A i \in DOMAIN queue' :
             i \in Nat /\ 1 <= i /\ i + 1 \in DOMAIN queue /\ queue'[i] = queue[i + 1]
    BY <2>1, TakenWrite DEF ResultTypeOK
  <2>3. /\ Answered(queue[1].by, TRUE) /\ disk' = queue[1].snapshot
        /\ UNCHANGED <<identity, noticed, settings, cancelled, finished, blocked, made,
                        ticket, saves, pairs, poll, dropped>>
    BY <1>1, <2>2 DEF WriteEnd
  <2>4. term' = Nothing <=> term = Nothing
    BY <2>3, NothingAssumption DEF Answered, ResultTypeOK, TermRecord
  <2>5. told' /\ ~dropped' =>
         /\ disk'.item # Nothing /\ (term' # Nothing \/ blocked')
         /\ \A i \in DOMAIN queue' : queue'[i].snapshot.item # Nothing
    BY <2>2, <2>3, <2>4 DEF KeptInv, Answered
  <2>6. ASSUME ~dropped', NEW i \in DOMAIN queue', queue'[i].by = "digest"
        PROVE  /\ term' # Nothing
               /\ \A j \in DOMAIN queue' : i <= j => queue'[j].snapshot.item # Nothing
    BY <2>2, <2>3, <2>4, <2>6 DEF KeptInv
  <2> QED
    BY <2>5, <2>6 DEF KeptInv
<1>2. ASSUME WriteFail PROVE KeptInv'
  <2>1. queue # <<>> /\ queue' = Tail(queue)
    BY <1>2 DEF WriteFail
  <2>2. /\ 1 \in DOMAIN queue /\ queue[1] \in WriteRecord /\ Head(queue) = queue[1]
        /\ \A i \in DOMAIN queue : i \in Nat /\ 1 <= i
        /\ \A i \in DOMAIN queue' :
             i \in Nat /\ 1 <= i /\ i + 1 \in DOMAIN queue /\ queue'[i] = queue[i + 1]
    BY <2>1, TakenWrite DEF ResultTypeOK
  <2>3. /\ Answered(queue[1].by, FALSE) /\ disk' = disk
        /\ UNCHANGED <<identity, noticed, settings, cancelled, finished, blocked, made,
                        ticket, saves, pairs, poll, dropped>>
    BY <1>2, <2>2 DEF WriteFail
  <2>4. term' = Nothing <=> term = Nothing
    BY <2>3, NothingAssumption DEF Answered, ResultTypeOK, TermRecord
  <2>5. told' /\ ~dropped' =>
         /\ disk'.item # Nothing /\ (term' # Nothing \/ blocked')
         /\ \A i \in DOMAIN queue' : queue'[i].snapshot.item # Nothing
    BY <2>2, <2>3, <2>4 DEF KeptInv, Answered
  <2>6. ASSUME ~dropped', NEW i \in DOMAIN queue', queue'[i].by = "digest"
        PROVE  /\ term' # Nothing
               /\ \A j \in DOMAIN queue' : i <= j => queue'[j].snapshot.item # Nothing
    BY <2>2, <2>3, <2>4, <2>6 DEF KeptInv
  <2> QED
    BY <2>5, <2>6 DEF KeptInv
<1>3. ASSUME DigestBegin PROVE KeptInv'
  BY <1>3 DEF DigestBegin, KeptInv
<1>4. ASSUME DigestLook PROVE KeptInv'
  BY <1>4 DEF DigestLook, KeptInv
<1>5. ASSUME DigestHandoff PROVE KeptInv'
  BY <1>5 DEF DigestHandoff, KeptInv, TermRecord, Queued, Registered
<1>6. ASSUME DigestFail PROVE KeptInv'
  BY <1>6 DEF DigestFail, KeptInv, TermRecord, Queued, Registered
<1>7. ASSUME NEW s \in Save, SaveBegin(s) PROVE KeptInv'
  BY <1>7 DEF SaveBegin, KeptInv
<1>8. ASSUME NEW s \in Save, SaveClaim(s) PROVE KeptInv'
  BY <1>8 DEF SaveClaim, KeptInv
<1>9. ASSUME NEW s \in Save, SaveChecked(s) PROVE KeptInv'
  BY <1>9 DEF SaveChecked, KeptInv
<1>10. ASSUME NEW s \in Save, SaveWrite(s) PROVE KeptInv'
  BY <1>10 DEF SaveWrite, KeptInv
<1>11. ASSUME NEW s \in Save, SaveBarrier(s) PROVE KeptInv'
  BY <1>11 DEF SaveBarrier, KeptInv
<1>12. ASSUME NEW s \in Save, SaveCommit(s) PROVE KeptInv'
  <2>1. UNCHANGED <<told, dropped, disk, blocked>> /\ (term' = Nothing <=> term = Nothing)
    BY <1>12, NothingAssumption DEF SaveCommit, ResultTypeOK, TermRecord
  <2>2. queue' = queue \/ (term # Nothing /\ queue' = Queued(term', finished, "none"))
    BY <1>12 DEF SaveCommit
  <2>3. \A i \in DOMAIN queue' :
          \/ i \in DOMAIN queue /\ queue'[i] = queue[i]
          \/ /\ term' # Nothing
             /\ queue'[i] =
                  [snapshot |-> [item |-> term', finished |-> finished], by |-> "none"]
    BY <2>1, <2>2, QueuedLast DEF ResultTypeOK
  <2> QED
    BY <2>1, <2>3 DEF KeptInv
<1>13. ASSUME NEW s \in Save, SaveRefused(s) PROVE KeptInv'
  BY <1>13 DEF SaveRefused, KeptInv, Unclaimed
<1>14. ASSUME NEW s \in Save, SaveUnknown(s) PROVE KeptInv'
  BY <1>14 DEF SaveUnknown, KeptInv, Unclaimed
<1>15. ASSUME PollBegin PROVE KeptInv'
  BY <1>15 DEF PollBegin, KeptInv
<1>16. ASSUME PollAnswer PROVE KeptInv'
  BY <1>16 DEF PollAnswer, KeptInv
<1>17. ASSUME FinishBegin PROVE KeptInv'
  BY <1>17 DEF FinishBegin, KeptInv, Queued
<1>18. ASSUME FinishRelease PROVE KeptInv'
  <2> DEFINE q == IF term # Nothing THEN Queued(Nothing, finished, "none") ELSE queue
             w == [snapshot |-> [item |-> Nothing, finished |-> finished], by |-> "finish"]
  <2>1. queue' = Append(q, w) /\ finish = "session" /\ finish' = "release" /\ term' = Nothing
        /\ dropped' = (dropped \/ term # Nothing)
        /\ UNCHANGED <<blocked, finished, disk, told, released, digest, saves>>
    BY <1>18 DEF FinishRelease
  <2>2. ~blocked /\ finished = TRUE /\ \A i \in DOMAIN queue : queue[i].by # "finish"
    BY <2>1 DEF QueueInv, ResultTypeOK
  <2>3. q \in Seq(WriteRecord)
    BY QueuedType DEF ResultTypeOK
  <2>4. \A i \in DOMAIN q :
          \/ i \in DOMAIN queue /\ q[i] = queue[i]
          \/ q[i].snapshot = [item |-> Nothing, finished |-> finished] /\ q[i].by = "none"
    BY QueuedLast DEF ResultTypeOK
  <2> HIDE DEF q
  <2>5. \A i \in DOMAIN queue' : i \in Nat /\
          (\/ i \in DOMAIN q /\ i < Len(q) + 1 /\ queue'[i] = q[i]
           \/ i = Len(q) + 1 /\ queue'[i] = w)
    BY <2>1, <2>3
  <2>6. CASE term # Nothing
    BY <2>1, <2>6 DEF KeptInv
  <2>7. CASE term = Nothing
    <3>1. q = queue
      BY <2>7 DEF q
    <3>2. ~dropped => ~told
      BY <2>2, <2>7 DEF KeptInv
    <3>3. ASSUME ~dropped, NEW i \in DOMAIN queue PROVE queue[i].by # "digest"
      BY <2>7, <3>3 DEF KeptInv
    <3>4. ~dropped => \A i \in DOMAIN queue' : queue'[i].by # "digest"
      BY <2>5, <3>1, <3>3
    <3> QED
      BY <2>1, <2>7, <3>2, <3>4 DEF KeptInv, ResultTypeOK
  <2> QED
    BY <2>6, <2>7
<1>19. ASSUME FinishKeep PROVE KeptInv'
  BY <1>19 DEF FinishKeep, KeptInv
<1>20. ASSUME NEW hard \in BOOLEAN, Cancel(hard) PROVE KeptInv'
  BY <1>20 DEF Cancel, KeptInv
<1>21. ASSUME NEW hard \in BOOLEAN, Sweep(hard) PROVE KeptInv'
  BY <1>21 DEF Sweep, KeptInv, Asked, ResultTypeOK, ReleaseResults
<1>22. ASSUME NEW hard \in BOOLEAN, Restart(hard) PROVE KeptInv'
  BY <1>22 DEF Restart, KeptInv, ResultTypeOK
<1>23. ASSUME IdentityChanges PROVE KeptInv'
  BY <1>23 DEF IdentityChanges, KeptInv
<1>24. ASSUME Notice PROVE KeptInv'
  BY <1>24 DEF Notice, KeptInv, QueueInv, EarlyInv, Asked, ResultTypeOK, Identity,
     DigestRecord, SaveRecord, PollRecord, WriteRecord, Snapshot, TermRecord, Queued,
     ReleaseResults
<1>25. ASSUME StartAgain PROVE KeptInv'
  BY <1>25 DEF StartAgain, KeptInv
<1>26. ASSUME UNCHANGED stateVars PROVE KeptInv'
  BY <1>26 DEF KeptInv
<1> QED
  BY <1>1, <1>2, <1>3, <1>4, <1>5, <1>6, <1>7, <1>8, <1>9, <1>10, <1>11, <1>12, <1>13,
     <1>14, <1>15, <1>16, <1>17, <1>18, <1>19, <1>20, <1>21, <1>22, <1>23, <1>24, <1>25,
     <1>26 DEF ResultNext, DigestStep, SavingStep, FinishStep

\* After a finish that releases, every later write has the released batch.
LEMMA StepReleaseInv == ResultInv /\ [ResultNext]_stateVars => ReleaseInv'
<1> SUFFICES ASSUME ResultInv, [ResultNext]_stateVars PROVE ReleaseInv'
  OBVIOUS
<1> USE ConstantsAssumption, NothingAssumption
       DEF ResultInv, stateVars, batchVars, resultVars, saveVars, toldVars
<1>1. ASSUME WriteEnd PROVE ReleaseInv'
  <2>1. queue # <<>> /\ queue' = Tail(queue)
    BY <1>1 DEF WriteEnd
  <2>2. /\ 1 \in DOMAIN queue /\ queue[1] \in WriteRecord /\ Head(queue) = queue[1]
        /\ \A i \in DOMAIN queue : i \in Nat /\ 1 <= i
        /\ \A i \in DOMAIN queue' :
             i \in Nat /\ 1 <= i /\ i + 1 \in DOMAIN queue /\ queue'[i] = queue[i + 1]
    BY <2>1, TakenWrite DEF ResultTypeOK
  <2>3. /\ Answered(queue[1].by, TRUE) /\ disk' = queue[1].snapshot
        /\ UNCHANGED <<identity, noticed, settings, cancelled, finished, blocked, made,
                        ticket, saves, pairs, poll, dropped>>
    BY <1>1, <2>2 DEF WriteEnd
  <2>4. ReleasedIsGone'
    BY <2>2, <2>3 DEF ReleaseInv, ReleasedIsGone, Released, Answered, ResultTypeOK,
       TermRecord
  <2>5. released' /\ ~blocked' => finished'
    BY <2>2, <2>3 DEF ReleaseInv, QueueInv, Answered
  <2>6. finish' = "release" =>
          finish = "release" /\ term' = Nothing /\ queue[1].by # "finish"
    BY <2>2, <2>3 DEF ReleaseInv, Answered
  <2>7. ASSUME finish' = "release", NEW i \in DOMAIN queue', queue'[i].by = "finish",
               NEW j \in DOMAIN queue', i <= j
        PROVE  queue'[j].snapshot = Released
    <3>1. /\ i + 1 \in DOMAIN queue /\ queue[i + 1].by = "finish"
          /\ j + 1 \in DOMAIN queue /\ queue'[j] = queue[j + 1]
          /\ i + 1 <= j + 1
      BY <2>2, <2>7
    <3> QED
      BY <2>6, <2>7, <3>1 DEF ReleaseInv
  <2> QED
    BY <2>4, <2>5, <2>6, <2>7 DEF ReleaseInv
<1>2. ASSUME WriteFail PROVE ReleaseInv'
  <2>1. queue # <<>> /\ queue' = Tail(queue)
    BY <1>2 DEF WriteFail
  <2>2. /\ 1 \in DOMAIN queue /\ queue[1] \in WriteRecord /\ Head(queue) = queue[1]
        /\ \A i \in DOMAIN queue : i \in Nat /\ 1 <= i
        /\ \A i \in DOMAIN queue' :
             i \in Nat /\ 1 <= i /\ i + 1 \in DOMAIN queue /\ queue'[i] = queue[i + 1]
    BY <2>1, TakenWrite DEF ResultTypeOK
  <2>3. /\ Answered(queue[1].by, FALSE) /\ disk' = disk
        /\ UNCHANGED <<identity, noticed, settings, cancelled, finished, blocked, made,
                        ticket, saves, pairs, poll, dropped>>
    BY <1>2, <2>2 DEF WriteFail
  <2>4. ReleasedIsGone'
    BY <2>2, <2>3 DEF ReleaseInv, ReleasedIsGone, Released, Answered, ResultTypeOK,
       TermRecord
  <2>5. released' /\ ~blocked' => finished'
    BY <2>2, <2>3 DEF ReleaseInv, QueueInv, Answered
  <2>6. finish' = "release" =>
          finish = "release" /\ term' = Nothing /\ queue[1].by # "finish"
    BY <2>2, <2>3 DEF ReleaseInv, Answered
  <2>7. ASSUME finish' = "release", NEW i \in DOMAIN queue', queue'[i].by = "finish",
               NEW j \in DOMAIN queue', i <= j
        PROVE  queue'[j].snapshot = Released
    <3>1. /\ i + 1 \in DOMAIN queue /\ queue[i + 1].by = "finish"
          /\ j + 1 \in DOMAIN queue /\ queue'[j] = queue[j + 1]
          /\ i + 1 <= j + 1
      BY <2>2, <2>7
    <3> QED
      BY <2>6, <2>7, <3>1 DEF ReleaseInv
  <2> QED
    BY <2>4, <2>5, <2>6, <2>7 DEF ReleaseInv
<1>3. ASSUME DigestBegin PROVE ReleaseInv'
  BY <1>3 DEF DigestBegin, ReleaseInv, ReleasedIsGone, QueueInv
<1>4. ASSUME DigestLook PROVE ReleaseInv'
  BY <1>4 DEF DigestLook, ReleaseInv, ReleasedIsGone, QueueInv
<1>5. ASSUME DigestHandoff PROVE ReleaseInv'
  BY <1>5 DEF DigestHandoff, ReleaseInv, Released, ReleasedIsGone, QueueInv, EarlyInv,
     Queued, Registered
<1>6. ASSUME DigestFail PROVE ReleaseInv'
  BY <1>6 DEF DigestFail, ReleaseInv, Released, ReleasedIsGone, QueueInv, EarlyInv,
     Queued, Registered
<1>7. ASSUME NEW s \in Save, SaveBegin(s) PROVE ReleaseInv'
  BY <1>7 DEF SaveBegin, ReleaseInv, ReleasedIsGone, QueueInv
<1>8. ASSUME NEW s \in Save, SaveClaim(s) PROVE ReleaseInv'
  BY <1>8 DEF SaveClaim, ReleaseInv, ReleasedIsGone, QueueInv
<1>9. ASSUME NEW s \in Save, SaveChecked(s) PROVE ReleaseInv'
  BY <1>9 DEF SaveChecked, ReleaseInv, ReleasedIsGone, QueueInv
<1>10. ASSUME NEW s \in Save, SaveWrite(s) PROVE ReleaseInv'
  BY <1>10 DEF SaveWrite, ReleaseInv, ReleasedIsGone, QueueInv
<1>11. ASSUME NEW s \in Save, SaveBarrier(s) PROVE ReleaseInv'
  BY <1>11 DEF SaveBarrier, ReleaseInv, ReleasedIsGone, QueueInv
<1>12. ASSUME NEW s \in Save, SaveCommit(s) PROVE ReleaseInv'
  BY <1>12 DEF SaveCommit, ReleaseInv, ReleasedIsGone, QueueInv, Queued
<1>13. ASSUME NEW s \in Save, SaveRefused(s) PROVE ReleaseInv'
  BY <1>13 DEF SaveRefused, ReleaseInv, ReleasedIsGone, QueueInv
<1>14. ASSUME NEW s \in Save, SaveUnknown(s) PROVE ReleaseInv'
  BY <1>14 DEF SaveUnknown, ReleaseInv, ReleasedIsGone, QueueInv
<1>15. ASSUME PollBegin PROVE ReleaseInv'
  BY <1>15 DEF PollBegin, ReleaseInv, Released, ReleasedIsGone, QueueInv, EarlyInv, Asked,
     ResultTypeOK, Identity, DigestRecord, SaveRecord, PollRecord, WriteRecord, Snapshot,
     TermRecord, NoPoll
<1>16. ASSUME PollAnswer PROVE ReleaseInv'
  BY <1>16 DEF PollAnswer, ReleaseInv, Released, ReleasedIsGone, QueueInv, EarlyInv,
     Asked, ResultTypeOK, Identity, DigestRecord, SaveRecord, PollRecord, WriteRecord,
     Snapshot, TermRecord, NoPoll
<1>17. ASSUME FinishBegin PROVE ReleaseInv'
  <2>1. /\ UNCHANGED <<released, disk, blocked, term>> /\ finished'
        /\ finish' # "release"
        /\ queue' = Queued(term, TRUE, "finish")
    BY <1>17 DEF FinishBegin
  <2>2. \A i \in DOMAIN queue' :
          \/ i \in DOMAIN queue /\ queue'[i] = queue[i]
          \/ ~blocked /\ queue'[i].snapshot = [item |-> term, finished |-> TRUE]
    BY <2>1 DEF Queued, ResultTypeOK
  <2>3. ReleasedIsGone'
    <3>1. ASSUME released, NEW i \in DOMAIN queue' PROVE queue'[i].snapshot = Released
      <4>1. \A k \in DOMAIN queue : queue[k].snapshot = Released
        BY <3>1 DEF ReleaseInv, ReleasedIsGone, Released
      <4>2. blocked \/ term = Nothing
        BY <3>1 DEF ReleaseInv, ReleasedIsGone
      <4> QED
        BY <2>2, <3>1, <4>1, <4>2 DEF Released
    <3> QED
      BY <2>1, <3>1 DEF ReleaseInv, ReleasedIsGone, Released
  <2> QED
    BY <2>1, <2>3 DEF ReleaseInv
<1>18. ASSUME FinishRelease PROVE ReleaseInv'
  <2> DEFINE q == IF term # Nothing THEN Queued(Nothing, finished, "none") ELSE queue
             w == [snapshot |-> [item |-> Nothing, finished |-> finished], by |-> "finish"]
  <2>1. queue' = Append(q, w) /\ finish = "session" /\ finish' = "release" /\ term' = Nothing
        /\ dropped' = (dropped \/ term # Nothing)
        /\ UNCHANGED <<blocked, finished, disk, told, released, digest, saves>>
    BY <1>18 DEF FinishRelease
  <2>2. ~blocked /\ finished = TRUE /\ \A i \in DOMAIN queue : queue[i].by # "finish"
    BY <2>1 DEF QueueInv, ResultTypeOK
  <2>3. q \in Seq(WriteRecord)
    BY QueuedType DEF ResultTypeOK
  <2>4. \A i \in DOMAIN q :
          \/ i \in DOMAIN queue /\ q[i] = queue[i]
          \/ q[i].snapshot = [item |-> Nothing, finished |-> finished] /\ q[i].by = "none"
    BY QueuedLast DEF ResultTypeOK
  <2> HIDE DEF q
  <2>5. \A i \in DOMAIN queue' : i \in Nat /\
          (\/ i \in DOMAIN q /\ i < Len(q) + 1 /\ queue'[i] = q[i]
           \/ i = Len(q) + 1 /\ queue'[i] = w)
    BY <2>1, <2>3
  <2>6. \A i \in DOMAIN queue' : queue'[i].by = "finish" => i = Len(q) + 1
    <3>1. \A i \in DOMAIN q : q[i].by # "finish"
      BY <2>2, <2>4
    <3> QED
      BY <2>5, <3>1
  <2>7. w.snapshot = Released /\ w.by = "finish"
    BY <2>2 DEF Released
  <2>8. \A i, j \in DOMAIN queue' :
          queue'[i].by = "finish" /\ i <= j => queue'[j].snapshot = Released
    BY <2>3, <2>5, <2>6, <2>7
  <2>9. ReleasedIsGone'
    <3>1. released => /\ disk = Released
                      /\ \A i \in DOMAIN queue : queue[i].snapshot = Released
      BY <2>2 DEF ReleaseInv, ReleasedIsGone, Released
    <3>2. [item |-> Nothing, finished |-> finished] = Released
      BY <2>2 DEF Released
    <3>3. released => \A i \in DOMAIN q : q[i].snapshot = Released
      BY <2>4, <3>1, <3>2
    <3>4. released => \A i \in DOMAIN queue' : queue'[i].snapshot = Released
      BY <2>5, <2>7, <3>3
    <3> QED
      BY <2>1, <3>1, <3>4 DEF ReleasedIsGone, Released
  <2> QED
    BY <2>1, <2>2, <2>8, <2>9 DEF ReleaseInv
<1>19. ASSUME FinishKeep PROVE ReleaseInv'
  BY <1>19 DEF FinishKeep, ReleaseInv, Released, ReleasedIsGone, QueueInv, EarlyInv,
     Asked, ResultTypeOK, Identity, DigestRecord, SaveRecord, PollRecord, WriteRecord,
     Snapshot, TermRecord
<1>20. ASSUME NEW hard \in BOOLEAN, Cancel(hard) PROVE ReleaseInv'
  BY <1>20 DEF Cancel, ReleaseInv, ReleasedIsGone, QueueInv
<1>21. ASSUME NEW hard \in BOOLEAN, Sweep(hard) PROVE ReleaseInv'
  BY <1>21 DEF Sweep, ReleaseInv, Released, ReleasedIsGone, QueueInv, EarlyInv, Asked,
     ResultTypeOK, Identity, DigestRecord, SaveRecord, PollRecord, WriteRecord, Snapshot,
     TermRecord, Mishap, Queued, ReleaseResults, Aborted, Busy
<1>22. ASSUME NEW hard \in BOOLEAN, Restart(hard) PROVE ReleaseInv'
  <2>1. /\ UNCHANGED <<released, disk>> /\ finish' = "idle"
        /\ finished' = (~blocked' /\ disk.finished)
        /\ term' = (IF blocked' THEN Nothing ELSE disk.item)
    BY <1>22 DEF Restart
  <2>2. \A i \in DOMAIN queue' : queue'[i].snapshot = disk
    BY <1>22 DEF Restart
  <2>3. ASSUME released PROVE disk = Released /\ disk.item = Nothing /\ disk.finished = TRUE
    BY <2>3 DEF ReleaseInv, ReleasedIsGone, Released
  <2>4. released => term' = Nothing /\ (blocked' \/ finished')
    BY <2>1, <2>3
  <2>5. released => \A i \in DOMAIN queue' : queue'[i].snapshot = Released
    BY <2>2, <2>3
  <2> QED
    BY <2>1, <2>3, <2>4, <2>5 DEF ReleaseInv, ReleasedIsGone, Released
<1>23. ASSUME IdentityChanges PROVE ReleaseInv'
  BY <1>23 DEF IdentityChanges, ReleaseInv, Released, ReleasedIsGone, QueueInv, EarlyInv,
     Asked, ResultTypeOK, Identity, DigestRecord, SaveRecord, PollRecord, WriteRecord,
     Snapshot, TermRecord
<1>24. ASSUME Notice PROVE ReleaseInv'
  BY <1>24 DEF Notice, ReleaseInv, Released, ReleasedIsGone, QueueInv, EarlyInv, Asked,
     ResultTypeOK, Identity, DigestRecord, SaveRecord, PollRecord, WriteRecord, Snapshot,
     TermRecord, Queued, ReleaseResults
<1>25. ASSUME StartAgain PROVE ReleaseInv'
  BY <1>25 DEF StartAgain, ReleaseInv, ReleasedIsGone, QueueInv
<1>26. ASSUME UNCHANGED stateVars PROVE ReleaseInv'
  BY <1>26 DEF ReleaseInv, Released, ReleasedIsGone, QueueInv, EarlyInv, Asked,
     ResultTypeOK, Identity, DigestRecord, SaveRecord, PollRecord, WriteRecord, Snapshot,
     TermRecord
<1> QED
  BY <1>1, <1>2, <1>3, <1>4, <1>5, <1>6, <1>7, <1>8, <1>9, <1>10, <1>11, <1>12, <1>13,
     <1>14, <1>15, <1>16, <1>17, <1>18, <1>19, <1>20, <1>21, <1>22, <1>23, <1>24, <1>25,
     <1>26 DEF ResultNext, DigestStep, SavingStep, FinishStep

\* A change that is noticed aborts the digest and spoils what saves have read.
LEMMA StepAccountInv == ResultInv /\ [ResultNext]_stateVars => AccountInv'
<1> SUFFICES ASSUME ResultInv, [ResultNext]_stateVars PROVE AccountInv'
  OBVIOUS
<1> USE ConstantsAssumption, NothingAssumption
       DEF ResultInv, stateVars, batchVars, resultVars, saveVars, toldVars
<1>1. ASSUME WriteEnd PROVE AccountInv'
  BY <1>1 DEF WriteEnd, AccountInv, OldIsGone, Answer, Asked, NoDigest, Answered
<1>2. ASSUME WriteFail PROVE AccountInv'
  BY <1>2 DEF WriteFail, AccountInv, OldIsGone, Answer, Asked, NoDigest, Answered
<1>3. ASSUME DigestBegin PROVE AccountInv'
  BY <1>3 DEF DigestBegin, AccountInv, OldIsGone
<1>4. ASSUME DigestLook PROVE AccountInv'
  BY <1>4 DEF DigestLook, AccountInv, OldIsGone, Asked
<1>5. ASSUME DigestHandoff PROVE AccountInv'
  BY <1>5 DEF DigestHandoff, AccountInv, OldIsGone, Asked
<1>6. ASSUME DigestFail PROVE AccountInv'
  BY <1>6 DEF DigestFail, AccountInv, OldIsGone, Answer, Asked, NoDigest, Registered
<1>7. ASSUME NEW s \in Save, SaveBegin(s) PROVE AccountInv'
  BY <1>7 DEF SaveBegin, AccountInv, OldIsGone, Answer, Holding, Asked
<1>8. ASSUME NEW s \in Save, SaveClaim(s) PROVE AccountInv'
  BY <1>8 DEF SaveClaim, AccountInv, OldIsGone, Answer, Holding, Asked, ResultTypeOK,
     Identity
<1>9. ASSUME NEW s \in Save, SaveChecked(s) PROVE AccountInv'
  BY <1>9 DEF SaveChecked, AccountInv, OldIsGone, Answer, Holding, Asked, ResultTypeOK
<1>10. ASSUME NEW s \in Save, SaveWrite(s) PROVE AccountInv'
  BY <1>10 DEF SaveWrite, AccountInv, OldIsGone, Answer, Holding, Asked, ResultTypeOK
<1>11. ASSUME NEW s \in Save, SaveBarrier(s) PROVE AccountInv'
  BY <1>11 DEF SaveBarrier, AccountInv, OldIsGone, Holding, Allowed
<1>12. ASSUME NEW s \in Save, SaveCommit(s) PROVE AccountInv'
  BY <1>12 DEF SaveCommit, AccountInv, OldIsGone, Answer, TicketInv, EarlyInv, Holding,
     Asked, ResultTypeOK, TermRecord, NoSave
<1>13. ASSUME NEW s \in Save, SaveRefused(s) PROVE AccountInv'
  BY <1>13 DEF SaveRefused, AccountInv, OldIsGone, Answer, Holding, Asked, NoSave
<1>14. ASSUME NEW s \in Save, SaveUnknown(s) PROVE AccountInv'
  BY <1>14 DEF SaveUnknown, AccountInv, OldIsGone, Answer, Holding, Asked, NoSave
<1>15. ASSUME PollBegin PROVE AccountInv'
  BY <1>15 DEF PollBegin, AccountInv, OldIsGone, Answer, Asked
<1>16. ASSUME PollAnswer PROVE AccountInv'
  BY <1>16 DEF PollAnswer, AccountInv, OldIsGone, Asked, NoPoll
<1>17. ASSUME FinishBegin PROVE AccountInv'
  BY <1>17 DEF FinishBegin, AccountInv, OldIsGone, Answer, Asked
<1>18. ASSUME FinishRelease PROVE AccountInv'
  BY <1>18 DEF FinishRelease, AccountInv, OldIsGone, Answer, Asked
<1>19. ASSUME FinishKeep PROVE AccountInv'
  BY <1>19 DEF FinishKeep, AccountInv, OldIsGone, Answer, Asked
<1>20. ASSUME NEW hard \in BOOLEAN, Cancel(hard) PROVE AccountInv'
  BY <1>20 DEF Cancel, AccountInv, OldIsGone, Answer
<1>21. ASSUME NEW hard \in BOOLEAN, Sweep(hard) PROVE AccountInv'
  BY <1>21 DEF Sweep, AccountInv, OldIsGone, Answer, ReleaseResults, Aborted
<1>22. ASSUME NEW hard \in BOOLEAN, Restart(hard) PROVE AccountInv'
  BY <1>22 DEF Restart, AccountInv, OldIsGone, Holding, Asked, NoDigest, NoSave, NoPoll
<1>23. ASSUME IdentityChanges PROVE AccountInv'
  BY <1>23 DEF IdentityChanges, AccountInv, OldIsGone, Answer, Holding, Asked,
     ResultTypeOK, Identity
<1>24. ASSUME Notice PROVE AccountInv'
  <2>1. /\ noticed' = identity /\ noticed < identity
        /\ UNCHANGED <<identity, made, poll>> /\ term' = Nothing
    BY <1>24 DEF Notice, ReleaseResults
  <2>2. digest'.aborted /\ digest'.pc = digest.pc
    BY <1>24 DEF Notice, ResultTypeOK, DigestRecord
  <2>3. \A s \in Save : /\ saves'[s].pc = saves[s].pc /\ saves'[s].since = saves[s].since
                        /\ saves'[s].saw = saves[s].saw
                        /\ saves[s].pc = "index" => saves'[s].late
    BY <1>24 DEF Notice, ResultTypeOK, SaveRecord
  <2>4. OldIsGone'
    BY <2>1, <2>2, <2>3 DEF OldIsGone, Answer
  <2>5. noticed \in Nat /\ identity \in Nat
    BY ConstantsAssumption DEF ResultTypeOK, Identity
  <2> QED
    BY <2>1, <2>2, <2>3, <2>4, <2>5 DEF AccountInv, Holding, Asked
<1>25. ASSUME StartAgain PROVE AccountInv'
  BY <1>25 DEF StartAgain, AccountInv, OldIsGone, Answer, Asked
<1>26. ASSUME UNCHANGED stateVars PROVE AccountInv'
  BY <1>26 DEF AccountInv, OldIsGone, Answer, Asked
<1> QED
  BY <1>1, <1>2, <1>3, <1>4, <1>5, <1>6, <1>7, <1>8, <1>9, <1>10, <1>11, <1>12, <1>13,
     <1>14, <1>15, <1>16, <1>17, <1>18, <1>19, <1>20, <1>21, <1>22, <1>23, <1>24, <1>25,
     <1>26 DEF ResultNext, DigestStep, SavingStep, FinishStep

\* The invariant holds in every reachable state: whoever asks, saves, finishes
\* or cancels in whatever order, and whatever fails, crashes or is swept away.
THEOREM ResultInvariance == ResultSpec => []ResultInv
<1>1. ResultInv /\ [ResultNext]_stateVars => ResultInv'
  BY StepResultTypeOK, StepEarlyInv, StepTicketInv, StepSavedInv, StepQueueInv,
     StepKeptInv, StepReleaseInv, StepAccountInv DEF ResultInv
<1> QED
  BY InitResult, <1>1, PTL DEF ResultSpec

\* One picture per digest and one holder of its ticket, saved results have their
\* picture, results that were told to be kept are in the recovery file, and
\* results that were released do not come back (/api/digest, /api/save-render,
\* /api/digest-batch-finish and the recovery file).
THEOREM ResultsStaySafe == ResultSpec => []ResultsAreSafe
<1>1. ASSUME ResultInv PROVE ResultsAreSafe
  <2>1. SaveOnce
    <3>1. \A s \in Save : saves[s].pc \in {"idle", "uploading"} \/ saves[s].pc \in Holding
      BY <1>1 DEF ResultInv, ResultTypeOK, SaveRecord, Holding
    <3> QED
      BY <1>1, <3>1 DEF SaveOnce, ResultInv, TicketInv
  <2>2. SavedIsTrue
    BY <1>1 DEF SavedIsTrue, ResultInv, SavedInv, Pictured
  <2>3. ToldIsKept /\ ReleasedIsGone
    BY <1>1 DEF ToldIsKept, ResultInv, KeptInv, ReleaseInv
  <2> QED
    BY <1>1, <2>1, <2>2, <2>3 DEF ResultsAreSafe, ResultInv
<1> QED
  BY <1>1, ResultInvariance, PTL

\* Once the mirror has noticed another account behind the database, no answer
\* shows a result of the old one and no save of it is committed, except a save
\* past its last look (invalidateDigestStateAfterWxDbIdentityChange).
THEOREM OldResultsAreGone == ResultSpec => []OldIsGone
<1>1. ResultInv => OldIsGone
  BY DEF ResultInv, AccountInv
<1> QED
  BY <1>1, ResultInvariance, PTL

-----------------------------------------------------------------------------
(* PART 2: the store of the pictures (HistoryStore) *)

\* The types of all but the removal and the refresh.
RestType ==
    /\ there \in SUBSET Artifact /\ pending \in SUBSET Artifact
    /\ manifest \in SUBSET Artifact
    /\ temp \in SUBSET Item
    /\ mark \in [Item -> {"prepared", "committed", "indexed"}]
    /\ index \in SUBSET Item /\ damaged \in BOOLEAN
    /\ save \in [Item -> SaveStep] /\ own \in [Item -> SUBSET File]
    /\ recovered \in BOOLEAN
    /\ gone \in SUBSET Item /\ beside \in SUBSET Item
    /\ crossed \in SUBSET Item /\ lost \in BOOLEAN
    /\ faults \in 0..MaxFault

\* Nothing excuses the digest: the invariant speaks of these.
Clear(i) == ~Excused(i)

\* A file is there under its own name or under the one a removal gave it.
Around == there \cup pending

\* The steps of a save before its digest is in the index.
Early == {"none", "temp", "reserved", "marker", "png", "json", "withdraw", "committed",
          "discard", "leave"}

\* The steps of a removal after it has settled what others left.
Staging == {"manifest", "rename", "write", "undo"}

\* The digests a removal has taken up.
Targets == op.left \cup op.done \cup {op.item}

\* The steps of a refresh at the save of one digest.
Recovering == rf.step \in {"link", "json", "commit"}

\* Until a save lists its digest nobody else is at its files: they are those it owns.
SaveOf(i) ==
    save[i] \in Early =>
        /\ save[i] # "leave"
        /\ i \notin index /\ i \notin gone /\ mark[i] # "indexed"
        /\ \A f \in File : <<i, f>> \notin pending /\ (<<i, f>> \in there <=> f \in own[i])
        /\ op.step \notin {"free", "recover"} => i \notin Targets
        /\ Recovering => rf.item # i
        /\ i \notin rf.needs
SaveInv == \A i \in Item : Clear(i) => SaveOf(i)

OwnOf(i) ==
    /\ save[i] \in {"none", "temp"} => own[i] = {}
    /\ save[i] \in {"reserved", "marker"} => own[i] = {"marker"}
    /\ save[i] = "png" => own[i] = {"marker", "png"}
    /\ save[i] \in {"json", "committed"} => own[i] = File
    /\ save[i] \in {"none", "temp", "reserved", "marker", "png", "json"} => mark[i] = "prepared"
    /\ save[i] \in {"committed", "listed"} => mark[i] = "committed"
    /\ save[i] = "listed" => (i \in index \cup gone \/ lost) /\ i \notin rf.needs
OwnInv == \A i \in Item : Clear(i) => OwnOf(i)

\* What is renamed away has left its name, has its manifest, and a removal that is
\* past the recovery knows it.
PendInv ==
    /\ \A a \in pending : Clear(a[1]) => a \notin there /\ a \in manifest
    /\ op.step = "recover" => \A a \in pending : Clear(a[1]) => a \in op.todo
    /\ op.step \in Staging => \A a \in pending : Clear(a[1]) => a \in op.staged

\* How far a removal is: done items are staged, the item it is at is staged up to
\* the next file, and nothing of those that are left.
OpInv ==
    /\ op.step \in {"manifest", "rename"} =>
         /\ op.item \in Item /\ op.next # {}
         /\ \A f \in op.next : <<op.item, f>> \notin op.staged
         /\ \A a \in op.staged : a[1] \in op.done \cup {op.item}
         /\ op.item \notin op.done
         /\ Clear(op.item) /\ "marker" \notin op.next => <<op.item, "marker">> \notin there
    /\ op.step = "recover" => op.staged = {} /\ op.done = {}
    /\ op.step \in Staging => op.item \notin op.left /\ op.left \cap op.done = {}
    /\ op.step = "undo" /\ op.item # None =>
         /\ op.item \notin op.done
         /\ ~op.failed => \A a \in op.staged : a[1] \in op.done \/ a \in op.todo
         /\ \A a \in op.todo : a[1] = op.item
    /\ op.step = "rename" => This \in manifest
    /\ op.step = "write" => \A a \in op.staged : a[1] \in op.done
    /\ op.step \in {"write", "finish"} => op.item = None

\* A refresh makes only files that are neither there nor renamed away.
RfInv ==
    /\ Recovering => rf.item \in Item
    /\ Recovering /\ Clear(rf.item) =>
         /\ save[rf.item] = "over"
         /\ rf.step = "link" => <<rf.item, "png">> \notin Around /\ rf.saw = "prepared"
         /\ rf.step \in {"link", "json"} /\ ~rf.json /\ rf.saw = "prepared" =>
              <<rf.item, "json">> \notin Around

\* The index is damaged only where that is noted.
LostInv == (damaged \/ op.blind) => lost

\* What the files, the marker and the index tell of a digest agrees: removed ones
\* are away, listed ones are whole, and the others wait for the recovery.
DiskOf(i) ==
    /\ i \in gone => i \notin index /\ \A f \in File : <<i, f>> \notin there
    /\ (\E f \in File : <<i, f>> \in pending) => i \in index \cup gone
    /\ i \in index => <<i, "json">> \in Around /\ <<i, "png">> \in Around
    /\ save[i] = "over" /\ i \notin gone /\ <<i, "json">> \in Around => <<i, "png">> \in Around
    /\ save[i] = "over" /\ i \notin gone /\ <<i, "png">> \in Around
         /\ ~(<<i, "marker">> \in Around /\ mark[i] = "prepared") => <<i, "json">> \in Around
    /\ mark[i] = "indexed" => i \in index \cup gone
DiskInv == ~lost => \A i \in Item : Clear(i) => DiskOf(i)

\* A removal is at digests that are listed; of those that are done nothing is left
\* under its name; what it unlinks was removed from the index.
TargetInv ==
    ~lost =>
        /\ op.step \in Staging => \A i \in Targets : i # None /\ Clear(i) => i \in index
        /\ op.step \in {"manifest", "rename", "write"} \/ (op.step = "undo" /\ op.item # None) =>
             \A i \in op.done : Clear(i) => \A f \in File : <<i, f>> \notin there
        /\ op.step \in {"manifest", "rename"} /\ Clear(op.item) =>
             \A f \in File \ op.next : <<op.item, f>> \notin there
        /\ op.step = "undo" => \A a \in op.todo : Clear(a[1]) => a[1] \in index
        /\ op.step = "finish" => \A a \in op.todo : Clear(a[1]) => a[1] \in gone

\* A refresh completes only saves whose digest is not listed, and what it has
\* completed is whole until somebody removes it.
FoundInv ==
    ~lost =>
        /\ Recovering /\ Clear(rf.item) =>
             /\ rf.saw = "prepared" => mark[rf.item] = "prepared"
             /\ rf.saw = "committed" => mark[rf.item] # "prepared"
             /\ rf.step = "link" =>
                  rf.item \notin index \cup gone /\ <<rf.item, "marker">> \in there
             /\ rf.step = "json" /\ ~rf.json /\ rf.saw = "prepared" =>
                  rf.item \notin index \cup gone
             /\ rf.step = "commit" =>
                  \/ rf.item \in gone
                  \/ <<rf.item, "json">> \in Around /\ <<rf.item, "png">> \in Around
        /\ rf.step = "mark" => \A i \in rf.needs : Clear(i) => i \in index \cup gone

\* A save that ended before it was done, and is still to be completed.
Waits(i) == save[i] = "over" /\ mark[i] = "prepared" /\ <<i, "marker">> \in Around

\* Nothing went wrong that the invariant excuses.
Calm == beside = {} /\ ~lost
Quiet == Calm /\ crossed = {}

\* A removal renamed a file of the digest away.
Away(i) == \E f \in File : <<i, f>> \in pending

\* It takes a fault to let a save wait, a second one to list its digest nevertheless,
\* a third to have its marker in place beside a file that is renamed away.
WaitsAfter(i) == faults >= 1
ListedAfter(i) == i \in index \cup gone => faults >= 2
AwayAfter(i) ==
    i \notin gone /\ Away(i) =>
        \/ faults >= 3
        \/ op.step \in {"manifest", "rename", "write"} /\ <<i, "marker">> \notin there

\* A refresh completes each save that waits, or it takes a second fault to stop it.
Taken(i) ==
    \/ i \in index \cup gone \/ <<i, "json">> \notin there \/ faults >= 2
    \/ rf.step \in {"scan", "link", "json", "commit"} /\ i \in rf.todo
    \/ rf.item = i /\ rf.step \in {"json", "commit"}
TakenUp(i) ==
    (\/ rf.step = "scan" \/ Recovering
     \/ rf.step = "merge" /\ (rf.force \/ rf.needs # {})) => Taken(i)

\* The faults behind each save that waits, and those a refresh and a removal at work
\* cannot have met.
WaitInv == Quiet => \A i \in Item : Waits(i) =>
             WaitsAfter(i) /\ ListedAfter(i) /\ AwayAfter(i) /\ TakenUp(i)
TempInv == Quiet => (rf.step = "link" => rf.item \in temp)
MarkerInv ==
    Quiet /\ Recovering /\ rf.saw = "prepared" =>
        faults >= 2 \/ <<rf.item, "marker">> \in there
ThereInv == Quiet => (op.step = "rename" => This \in there)
CrossInv == Calm => crossed = {} \/ faults > 2

IndInv == TypeOK /\ SaveInv /\ OwnInv /\ PendInv /\ OpInv /\ RfInv /\ LostInv /\ DiskInv
          /\ TargetInv /\ FoundInv
          /\ WaitInv /\ TempInv /\ MarkerInv /\ ThereInv /\ CrossInv

-----------------------------------------------------------------------------
\* The file a removal is at is one of those that are left, the marker first.
LEMMA NextFile ==
  ASSUME op.next \subseteq File, op.next # {}
  PROVE  /\ This = <<op.item, This[2]>>
         /\ This[2] \in op.next
         /\ "marker" \in op.next => This[2] = "marker"
<1> DEFINE Least(f) == \A g \in op.next : Rank[f] <= Rank[g]
<1>1. \E f \in op.next : Least(f)
  <2>1. CASE "marker" \in op.next
    BY <2>1 DEF File, Rank
  <2>2. CASE "marker" \notin op.next /\ "json" \in op.next
    BY <2>2 DEF File, Rank
  <2>3. CASE "marker" \notin op.next /\ "json" \notin op.next
    BY <2>3 DEF File, Rank
  <2> QED
    BY <2>1, <2>2, <2>3
<1>2. This[2] \in op.next /\ Least(This[2])
  BY <1>1 DEF This
<1>3. "marker" \in op.next => This[2] = "marker"
  BY <1>2 DEF File, Rank
<1> QED
  BY <1>2, <1>3 DEF This

\* The next item of a removal, or the index, or the end.
Follows(p, o) ==
    /\ p \in OpRecord
    /\ \/ p.step = "manifest" /\ p.item \in o.left /\ p.left = o.left \ {p.item} /\ p.next = File
       \/ p.step = "write" /\ p.item = None /\ o.left = {} /\ p.left = {} /\ p.next = o.next
       \/ p.step = "free" /\ ~p.blind /\ o.left = {} /\ o.done = {}
    /\ p.step = "free" \/ (p.staged = o.staged /\ p.done = o.done /\ p.todo = o.todo
                           /\ p.kind = o.kind /\ p.blind = o.blind /\ p.failed = o.failed)

\* What follows one item of a removal, field by field.
LEMMA NextItemIs ==
  ASSUME NEW o \in OpRecord, NEW p \in NextItem(o)
  PROVE  Follows(p, o)
<1>1. CASE o.left # {}
  <2>1. PICK i \in o.left :
          p = [o EXCEPT !.step = "manifest", !.item = i, !.left = @ \ {i}, !.next = File]
    BY <1>1 DEF NextItem
  <2> QED
    BY <2>1 DEF Follows, OpRecord, OpStep
<1>2. CASE o.left = {} /\ o.done # {}
  <2>1. p = [o EXCEPT !.step = "write", !.item = None]
    BY <1>2 DEF NextItem
  <2> QED
    BY <1>2, <2>1 DEF Follows, OpRecord, OpStep
<1>3. CASE o.left = {} /\ o.done = {}
  <2>1. p = Free
    BY <1>3 DEF NextItem
  <2> QED
    BY <1>3, <2>1 DEF Follows, Free, OpRecord, OpStep
<1> QED
  BY <1>1, <1>2, <1>3

\* One file further: the next one of the item, or what follows when the item is done.
Past(p, staged) ==
    /\ p \in OpRecord /\ p.staged = staged
    /\ p.todo = op.todo /\ p.kind = op.kind /\ p.blind = op.blind /\ p.failed = op.failed
    /\ \/ /\ p.step = "manifest" /\ p.item = op.item /\ p.left = op.left /\ p.done = op.done
          /\ p.next = op.next \ {This[2]} /\ p.next # {}
       \/ /\ op.next = {This[2]} /\ p.done = op.done \cup {op.item}
          /\ \/ /\ p.step = "manifest" /\ p.item \in op.left /\ p.left = op.left \ {p.item}
                /\ p.next = File
             \/ p.step = "write" /\ p.item = None /\ op.left = {} /\ p.left = {} /\ p.next = {}

\* What follows one file of a removal, field by field.
LEMMA OnwardsIs ==
  ASSUME op \in OpRecord, op.item \in Item, op.next # {}, NEW staged \in SUBSET Artifact,
         NEW p \in Onwards([op EXCEPT !.staged = staged])
  PROVE  Past(p, staged)
<1> DEFINE o == [op EXCEPT !.staged = staged]
           q == [o EXCEPT !.next = {}, !.done = @ \cup {o.item}]
<1>1. This[2] \in op.next /\ op.next \subseteq File
  BY NextFile DEF OpRecord
<1>2. /\ o \in OpRecord /\ o.next = op.next /\ o.staged = staged /\ o.item = op.item
      /\ o.left = op.left /\ o.done = op.done
      /\ o.todo = op.todo /\ o.kind = op.kind /\ o.blind = op.blind /\ o.failed = op.failed
  BY DEF OpRecord
<1>3. CASE o.next \ {This[2]} # {}
  <2>1. p = [o EXCEPT !.step = "manifest", !.next = o.next \ {This[2]}]
    BY <1>3 DEF Onwards
  <2> HIDE DEF o
  <2> QED
    BY <1>1, <1>2, <1>3, <2>1 DEF Past, OpRecord, OpStep
<1>4. CASE o.next \ {This[2]} = {}
  <2>1. p \in NextItem(q)
    BY <1>4 DEF Onwards
  <2>2. /\ q \in OpRecord /\ q.done = op.done \cup {op.item} /\ q.next = {} /\ q.staged = staged
        /\ q.left = op.left
        /\ q.todo = op.todo /\ q.kind = op.kind /\ q.blind = op.blind /\ q.failed = op.failed
    BY <1>2 DEF OpRecord
  <2>3. Follows(p, q)
    BY <2>1, <2>2, NextItemIs
  <2>4. op.next = {This[2]}
    BY <1>1, <1>2, <1>4
  <2> HIDE DEF o, q
  <2> QED
    BY <2>2, <2>3, <2>4 DEF Past, Follows
<1> QED
  BY <1>3, <1>4

\* A removal whose staged files are what they were is what it was.
LEMMA SameStaged == ASSUME op \in OpRecord PROVE [op EXCEPT !.staged = op.staged] = op
BY DEF OpRecord

\* The steps of a removal that move it on, field by field.
LEMMA WriteManifestIs ==
  ASSUME TypeOK, OpInv, WriteManifest
  PROVE  /\ op.step = "manifest" /\ SavesRest
         /\ UNCHANGED <<there, pending, index, damaged, ghosts, faults>>
         /\ This \in Artifact /\ This[1] = op.item /\ This[2] \in op.next
         /\ This = <<op.item, This[2]>> /\ ("marker" \in op.next => This[2] = "marker")
         /\ \/ /\ This \in there /\ manifest' = manifest \cup {This}
               /\ op' \in OpRecord /\ op'.step = "rename" /\ op'.item = op.item
               /\ op'.next = op.next /\ op'.left = op.left /\ op'.done = op.done
               /\ op'.staged = op.staged /\ op'.todo = op.todo /\ op'.kind = op.kind
               /\ op'.blind = op.blind /\ op'.failed = op.failed
            \/ This \notin there /\ manifest' = manifest /\ Past(op', op.staged)
<1>1. op \in OpRecord /\ op.item \in Item /\ op.next # {} /\ op.next \subseteq File
  BY DEF WriteManifest, TypeOK, OpInv, OpRecord
<1>2. This \notin there => op' \in Onwards([op EXCEPT !.staged = op.staged])
  BY <1>1, SameStaged DEF WriteManifest
<1>3. op.staged \in SUBSET Artifact
  BY <1>1 DEF OpRecord
<1>4. This \notin there => Past(op', op.staged)
  BY <1>1, <1>2, <1>3, OnwardsIs
<1>5. /\ op.step = "manifest" /\ SavesRest
      /\ UNCHANGED <<there, pending, index, damaged, ghosts, faults>>
      /\ This \notin there => manifest' = manifest
  BY DEF WriteManifest
<1>6. ASSUME This \in there
      PROVE  /\ manifest' = manifest \cup {This}
             /\ op' \in OpRecord /\ op'.step = "rename" /\ op'.item = op.item
             /\ op'.next = op.next /\ op'.left = op.left /\ op'.done = op.done
             /\ op'.staged = op.staged /\ op'.todo = op.todo /\ op'.kind = op.kind
             /\ op'.blind = op.blind /\ op'.failed = op.failed
  BY <1>1, <1>6 DEF WriteManifest, OpRecord, OpStep
<1>7. /\ This \in Artifact /\ This[1] = op.item /\ This[2] \in op.next
      /\ This = <<op.item, This[2]>> /\ ("marker" \in op.next => This[2] = "marker")
  BY <1>1, NextFile DEF Artifact
<1> QED
  BY <1>4, <1>5, <1>6, <1>7

\* A file renamed away.
LEMMA RenameAwayIs ==
  ASSUME TypeOK, OpInv, RenameAway
  PROVE  /\ op.step = "rename" /\ This \in there /\ SavesRest
         /\ there' = there \ {This} /\ pending' = pending \cup {This}
         /\ UNCHANGED <<manifest, index, damaged, ghosts, faults>>
         /\ This \in Artifact /\ This[1] = op.item /\ This[2] \in op.next
         /\ This = <<op.item, This[2]>> /\ ("marker" \in op.next => This[2] = "marker")
         /\ Past(op', op.staged \cup {This})
<1>1. op \in OpRecord /\ op.item \in Item /\ op.next # {} /\ op.next \subseteq File
  BY DEF RenameAway, TypeOK, OpInv, OpRecord
<1>2. This \in Artifact
  BY <1>1, NextFile DEF Artifact
<1>3. op' \in Onwards([op EXCEPT !.staged = op.staged \cup {This}])
  BY DEF RenameAway
<1>4. op.staged \cup {This} \in SUBSET Artifact
  BY <1>1, <1>2 DEF OpRecord
<1>5. Past(op', op.staged \cup {This})
  BY <1>1, <1>3, <1>4, OnwardsIs
<1>6. /\ op.step = "rename" /\ This \in there /\ SavesRest
      /\ there' = there \ {This} /\ pending' = pending \cup {This}
      /\ UNCHANGED <<manifest, index, damaged, ghosts, faults>>
  BY DEF RenameAway
<1> QED
  BY <1>1, <1>2, <1>5, <1>6, NextFile

\* A recovery of removals that is through.
LEMMA RecoverDoneIs ==
  ASSUME TypeOK, RecoverDone
  PROVE  /\ op.step = "recover" /\ op.todo = {} /\ SavesRest
         /\ UNCHANGED <<there, pending, manifest, gone, crossed, lost, faults>>
         /\ UNCHANGED <<index, damaged, beside>> \/ SetIndex(Listed)
         /\ \/ op' = Free
            \/ /\ SetIndex(Listed) /\ op' \in OpRecord /\ ~op'.blind
               /\ \/ /\ op'.step = "manifest" /\ op'.item \in op.left \cap Listed
                     /\ op'.left = (op.left \cap Listed) \ {op'.item} /\ op'.next = File
                  \/ op'.step = "write" /\ op'.item = None /\ op'.left = {}
               /\ op'.staged = op.staged /\ op'.done = op.done /\ op'.todo = op.todo
               /\ op'.kind = op.kind /\ op'.failed = op.failed
<1> DEFINE o == [op EXCEPT !.left = @ \cap Listed, !.blind = FALSE]
<1>1. /\ o \in OpRecord /\ o.left = op.left \cap Listed /\ ~o.blind
      /\ o.staged = op.staged /\ o.done = op.done /\ o.todo = op.todo
      /\ o.kind = op.kind /\ o.failed = op.failed
  BY DEF TypeOK, OpRecord
<1>2. op.kind = "settle" => op' = Free
  BY DEF RecoverDone
<1>3. op.kind # "settle" => op' \in NextItem(o)
  BY DEF RecoverDone
<1>4. op.kind # "settle" => Follows(op', o) /\ (op'.step = "free" => op' = Free)
  <2>1. ASSUME op.kind # "settle" PROVE Follows(op', o)
    BY <1>1, <1>3, <2>1, NextItemIs
  <2>2. ASSUME op.kind # "settle", op'.step = "free" PROVE op' = Free
    BY <1>1, <1>3, <2>1, <2>2 DEF NextItem, Follows
  <2> QED
    BY <2>1, <2>2
<1>5. /\ op.step = "recover" /\ op.todo = {} /\ SavesRest
      /\ UNCHANGED <<there, pending, manifest, gone, crossed, lost, faults>>
      /\ IF op.kind = "settle" THEN UNCHANGED <<index, damaged, beside>> ELSE SetIndex(Listed)
  BY DEF RecoverDone
<1> HIDE DEF o
<1> QED
  BY <1>1, <1>2, <1>4, <1>5 DEF Follows

\* The files of an item are back: the next item, or the end.
LEMMA UndoDoneIs ==
  ASSUME TypeOK, UndoDone
  PROVE  /\ op.step = "undo" /\ op.todo = {} /\ SavesRest
         /\ UNCHANGED <<there, pending, manifest, index, damaged, ghosts, faults>>
         /\ \/ op' = Free
            \/ op.item # None /\ ~op.failed /\ Follows(op', op)
BY NextItemIs DEF UndoDone, TypeOK

\* One file goes back to its name, or what cannot go back is noted.
LEMMA UndoIs ==
  ASSUME TypeOK, NEW a \in op.todo, Undo(a)
  PROVE  /\ op.step = "undo" /\ SavesRest /\ UNCHANGED <<index, damaged, ghosts, faults>>
         /\ \/ UNCHANGED <<op, manifest>> /\ a \in pending /\ a \notin there
               /\ pending' = pending \ {a} /\ there' = there \cup {a}
            \/ /\ op' \in OpRecord /\ op'.todo = op.todo \ {a} /\ op'.staged = op.staged \ {a}
               /\ op'.failed = (op.failed \/ a \in pending \/ a \notin there)
               /\ op'.step = op.step /\ op'.kind = op.kind /\ op'.left = op.left
               /\ op'.item = op.item /\ op'.next = op.next /\ op'.done = op.done
               /\ op'.blind = op.blind
               /\ UNCHANGED <<pending, there>>
               /\ a \notin pending \/ a \in there
               /\ manifest' = IF a \in there /\ a \notin pending THEN manifest \ {a} ELSE manifest
<1> DEFINE failed == op.failed \/ a \in pending \/ a \notin there
<1>3. op.step = "undo" /\ SavesRest /\ UNCHANGED <<index, damaged, ghosts, faults>>
  BY DEF Undo
<1>1. CASE a \in pending /\ a \notin there
  BY <1>1, <1>3 DEF Undo
<1>2. CASE ~(a \in pending /\ a \notin there)
  <2>1. /\ op' = [op EXCEPT !.todo = @ \ {a}, !.staged = @ \ {a}, !.failed = failed]
        /\ manifest' = IF a \in there /\ a \notin pending THEN manifest \ {a} ELSE manifest
        /\ UNCHANGED <<pending, there>>
    BY <1>2 DEF Undo, TypeOK, OpRecord
  <2>2. failed \in BOOLEAN
    OBVIOUS
  <2> HIDE DEF failed
  <2>3. /\ op' \in OpRecord /\ op'.todo = op.todo \ {a} /\ op'.staged = op.staged \ {a}
        /\ op'.failed = failed
        /\ op'.step = op.step /\ op'.kind = op.kind /\ op'.left = op.left
        /\ op'.item = op.item /\ op'.next = op.next /\ op'.done = op.done
        /\ op'.blind = op.blind
    BY <2>1, <2>2 DEF TypeOK, OpRecord
  <2> QED
    BY <1>2, <1>3, <2>1, <2>3 DEF failed
<1> QED
  BY <1>1, <1>2, <1>3

\* A file that cannot be staged: what is staged of its item goes back.
LEMMA StagingFailsIs ==
  ASSUME TypeOK, OpInv, RenameAwayFails \/ StageFails
  PROVE  /\ op.step \in {"manifest", "rename"} /\ SavesRest
         /\ UNCHANGED <<index, damaged, ghosts>>
         /\ This \in Artifact /\ This[1] = op.item /\ This[2] \in op.next
         /\ This = <<op.item, This[2]>> /\ ("marker" \in op.next => This[2] = "marker")
         /\ Fault \/ (op.step = "rename" /\ This \notin there /\ UNCHANGED faults)
         /\ op' \in OpRecord /\ op'.step = "undo" /\ op'.next = {}
         /\ op'.item = op.item /\ op'.left = op.left /\ op'.done = op.done
         /\ op'.kind = op.kind /\ op'.blind = op.blind /\ op'.failed = op.failed
         /\ \/ /\ This \in there /\ op.step = "rename" /\ Fault
               /\ there' = there \ {This} /\ pending' = pending \cup {This}
               /\ op'.staged = op.staged \cup {This}
               /\ op'.todo = (op.staged \cap FilesOf(op.item)) \cup {This}
               /\ UNCHANGED manifest
            \/ /\ UNCHANGED <<there, pending>>
               /\ op'.staged = op.staged
               /\ op'.todo = op.staged \cap FilesOf(op.item)
               /\ manifest' = manifest \ {This} \/ (op.step = "rename" /\ UNCHANGED manifest)
<1>1. op \in OpRecord /\ op.item \in Item /\ op.next # {} /\ op.next \subseteq File
  BY DEF RenameAwayFails, StageFails, TypeOK, OpInv, OpRecord
<1>2. /\ This \in Artifact /\ This[1] = op.item /\ This[2] \in op.next
      /\ This = <<op.item, This[2]>> /\ ("marker" \in op.next => This[2] = "marker")
  BY <1>1, NextFile DEF Artifact
<1>3. CASE RenameAwayFails
  <2> DEFINE todo == (op.staged \cap FilesOf(op.item)) \cup {This}
             staged == op.staged \cup {This}
  <2>1. todo \in SUBSET Artifact /\ staged \in SUBSET Artifact
    BY <1>1, <1>2 DEF OpRecord
  <2>2. op' = [op EXCEPT !.step = "undo", !.next = {}, !.staged = staged, !.todo = todo]
    BY <1>3 DEF RenameAwayFails
  <2> HIDE DEF todo, staged
  <2>3. /\ op' \in OpRecord /\ op'.step = "undo" /\ op'.next = {}
        /\ op'.item = op.item /\ op'.left = op.left /\ op'.done = op.done
        /\ op'.kind = op.kind /\ op'.blind = op.blind /\ op'.failed = op.failed
        /\ op'.staged = staged /\ op'.todo = todo
    BY <1>1, <2>1, <2>2 DEF OpRecord, OpStep
  <2> QED
    BY <1>2, <1>3, <2>3 DEF RenameAwayFails, todo, staged
<1>4. CASE StageFails
  <2> DEFINE todo == op.staged \cap FilesOf(op.item)
  <2>1. todo \in SUBSET Artifact
    BY <1>1 DEF OpRecord
  <2>2. op' = [op EXCEPT !.step = "undo", !.todo = todo, !.next = {}]
    BY <1>4 DEF StageFails
  <2> HIDE DEF todo
  <2>3. /\ op' \in OpRecord /\ op'.step = "undo" /\ op'.next = {}
        /\ op'.item = op.item /\ op'.left = op.left /\ op'.done = op.done
        /\ op'.kind = op.kind /\ op'.blind = op.blind /\ op'.failed = op.failed
        /\ op'.staged = op.staged /\ op'.todo = todo
    BY <1>1, <2>1, <2>2 DEF OpRecord, OpStep
  <2> QED
    BY <1>2, <1>4, <2>3 DEF StageFails, todo
<1> QED
  BY <1>3, <1>4

\* How a refresh goes on, field by field.
GoesOn(r, step, needs) ==
    r \in RfRecord /\ r.step = step /\ r.force = rf.force /\ r.needs = needs

\* A refresh that is through with one digest takes the next one.
LEMMA BackIs ==
  ASSUME TypeOK
  PROVE  /\ GoesOn(Back, "scan", rf.needs) /\ Back.todo = rf.todo
         /\ GoesOn(GiveUp, "merge", {})
         /\ \A i \in Item : LET r == [Back EXCEPT !.needs = @ \cup {i}] IN
              GoesOn(r, "scan", rf.needs \cup {i}) /\ r.todo = rf.todo
<1>1. GoesOn(Back, "scan", rf.needs) /\ Back.todo = rf.todo /\ GoesOn(GiveUp, "merge", {})
  BY DEF GoesOn, Back, GiveUp, Rest, TypeOK, RfRecord
<1>2. ASSUME NEW i \in Item
      PROVE  LET r == [Back EXCEPT !.needs = @ \cup {i}] IN
               GoesOn(r, "scan", rf.needs \cup {i}) /\ r.todo = rf.todo
  BY <1>1 DEF GoesOn, TypeOK, RfRecord
<1> QED
  BY <1>1, <1>2

\* A refresh at work on a digest is a refresh.
LEMMA WorkingIs ==
  ASSUME TypeOK, NEW i \in Item, mark[i] # "indexed", NEW step \in {"link", "json"}
  PROVE  LET r == Working(i, step) IN
         /\ GoesOn(r, step, rf.needs) /\ r.item = i /\ r.todo = rf.todo \ {i}
         /\ r.saw = mark[i] /\ (r.json <=> <<i, "json">> \in there)
<1> DEFINE json == <<i, "json">> \in there
           saw == mark[i]
           r == Working(i, step)
<1>1. saw \in {"prepared", "committed"} /\ json \in BOOLEAN
  BY DEF TypeOK
<1>2. r = [rf EXCEPT !.step = step, !.item = i, !.todo = @ \ {i}, !.saw = saw, !.json = json]
  BY DEF Working
<1>3. rf \in RfRecord
  BY DEF TypeOK
<1> HIDE DEF json, saw, r
<1>4. /\ r.step = step /\ r.force = rf.force /\ r.needs = rf.needs /\ r.item = i
      /\ r.todo = rf.todo \ {i} /\ r.saw = saw /\ r.json = json
  BY <1>2, <1>3 DEF RfRecord
<1>5. r \in RfRecord
  BY <1>1, <1>2, <1>3 DEF RfRecord
<1> QED
  BY <1>4, <1>5 DEF GoesOn, json, saw, r

\* A refresh takes up a digest (what mark it saw, what it will write).
LEMMA LookIs ==
  ASSUME TypeOK, NEW i \in Item, Look(i)
  PROVE  /\ rf.step = "scan" /\ i \in rf.todo /\ RemovalsRest
         /\ UNCHANGED <<temp, mark, index, damaged, recovered, gone, lost, faults>>
         /\ save[i] \notin Active /\ <<i, "marker">> \in there /\ mark[i] # "indexed"
         /\ beside' = IF Saving(i) THEN beside \cup {i} ELSE beside
         /\ crossed' = IF mark[i] = "prepared" /\ pending \cap FilesOf(i) # {}
                       THEN crossed \cup {i} ELSE crossed
         /\ rf' \in RfRecord /\ rf'.force = rf.force /\ rf'.needs = rf.needs
         /\ rf'.todo = rf.todo \ {i}
         /\ \/ /\ rf'.item = i /\ rf'.saw = mark[i] /\ (rf'.json <=> <<i, "json">> \in there)
               /\ there' = there
               /\ \/ rf'.step = "json" /\ <<i, "png">> \in there
                  \/ /\ rf'.step = "link" /\ <<i, "png">> \notin there
                     /\ mark[i] = "prepared" /\ i \in temp
            \/ /\ rf'.step = "scan" /\ <<i, "png">> \notin there
               /\ mark[i] # "prepared" \/ i \notin temp
               /\ \/ there' = there
                  \/ /\ <<i, "json">> \notin there /\ mark[i] = "prepared" /\ ~Saving(i)
                     /\ there' = there \ {<<i, "marker">>}
<1>1. /\ Skip(i) \in RfRecord /\ Skip(i).step = rf.step /\ Skip(i).force = rf.force
      /\ Skip(i).needs = rf.needs /\ Skip(i).todo = rf.todo \ {i}
  BY DEF Skip, TypeOK, RfRecord
<1>2. mark[i] # "indexed" => \A step \in {"link", "json"} : LET r == Working(i, step) IN
         /\ GoesOn(r, step, rf.needs) /\ r.item = i /\ r.todo = rf.todo \ {i}
         /\ r.saw = mark[i] /\ (r.json <=> <<i, "json">> \in there)
  BY WorkingIs
<1> QED
  BY <1>1, <1>2 DEF Look, GoesOn

\* The recovery links the temporary PNG.
LEMMA LinkPngIs ==
  ASSUME TypeOK, RfInv, LinkPng
  PROVE  /\ rf.step = "link" /\ rf.item \in Item /\ RemovalsRest
         /\ UNCHANGED <<temp, mark, index, damaged, recovered, ghosts, faults>>
         /\ rf' \in RfRecord /\ rf'.force = rf.force
         /\ \/ /\ rf'.step = "merge" /\ rf'.needs = {} /\ there' = there
               /\ <<rf.item, "png">> \notin there /\ rf.item \notin temp
            \/ /\ rf'.step = "json" /\ there' = there \cup {<<rf.item, "png">>}
               /\ <<rf.item, "png">> \in there \/ rf.item \in temp
               /\ rf'.item = rf.item /\ rf'.saw = rf.saw /\ rf'.json = rf.json
               /\ rf'.needs = rf.needs /\ rf'.todo = rf.todo
<1>1. rf \in RfRecord /\ rf.item \in Item
  BY DEF LinkPng, TypeOK, RfInv, Recovering
<1>2. LET r == [rf EXCEPT !.step = "json"] IN
      /\ r \in RfRecord /\ r.step = "json" /\ r.force = rf.force /\ r.item = rf.item
      /\ r.saw = rf.saw /\ r.json = rf.json /\ r.needs = rf.needs /\ r.todo = rf.todo
  BY <1>1 DEF RfRecord
<1> QED
  BY <1>1, <1>2, BackIs DEF LinkPng, GoesOn

\* The recovery writes the JSON.
LEMMA WriteJsonIs ==
  ASSUME TypeOK, RfInv, WriteJson
  PROVE  /\ rf.step = "json" /\ rf.item \in Item /\ RemovalsRest
         /\ UNCHANGED <<mark, index, damaged, recovered, ghosts, faults>>
         /\ rf' \in RfRecord /\ rf'.force = rf.force
         /\ rf'.needs = rf.needs /\ rf'.todo = rf.todo
         /\ \/ /\ rf'.step = "scan" /\ there' = there
               /\ temp' = temp \/ temp' = temp \ {rf.item}
               /\ <<rf.item, "png">> \in there =>
                    /\ rf.json \/ rf.saw # "prepared"
                    /\ rf.json => <<rf.item, "json">> \notin there
            \/ /\ rf'.step = "commit" /\ <<rf.item, "png">> \in there
               /\ temp' = temp \ {rf.item}
               /\ rf'.item = rf.item /\ rf'.saw = rf.saw /\ rf'.json = rf.json
               /\ \/ rf.json /\ <<rf.item, "json">> \in there /\ there' = there
                  \/ /\ ~rf.json /\ rf.saw = "prepared"
                     /\ there' = there \cup {<<rf.item, "json">>}
<1>1. rf \in RfRecord /\ rf.item \in Item
  BY DEF WriteJson, TypeOK, RfInv, Recovering
<1>2. LET r == [rf EXCEPT !.step = "commit"] IN
      /\ r \in RfRecord /\ r.step = "commit" /\ r.force = rf.force /\ r.item = rf.item
      /\ r.saw = rf.saw /\ r.json = rf.json /\ r.needs = rf.needs /\ r.todo = rf.todo
  BY <1>1 DEF RfRecord
<1> QED
  BY <1>1, <1>2, BackIs DEF WriteJson, GoesOn

\* The recovery marks the save committed.
LEMMA CommitSaveIs ==
  ASSUME TypeOK, RfInv, CommitSave
  PROVE  /\ rf.step = "commit" /\ rf.item \in Item /\ RemovalsRest
         /\ UNCHANGED <<there, temp, index, damaged, recovered, ghosts, faults>>
         /\ rf' \in RfRecord /\ rf'.force = rf.force
         /\ \/ /\ rf'.step = "merge" /\ rf'.needs = {} /\ mark' = mark
               /\ rf.saw = "prepared" /\ <<rf.item, "marker">> \notin there
            \/ /\ rf'.step = "scan" /\ rf'.needs = rf.needs \cup {rf.item} /\ rf'.todo = rf.todo
               /\ \/ rf.saw # "prepared" /\ mark' = mark
                  \/ /\ rf.saw = "prepared" /\ <<rf.item, "marker">> \in there
                     /\ mark' = [mark EXCEPT ![rf.item] = "committed"]
<1>1. rf \in RfRecord /\ rf.item \in Item
  BY DEF CommitSave, TypeOK, RfInv, Recovering
<1> QED
  BY <1>1, BackIs DEF CommitSave, GoesOn

\* The file a removal is at changes with the item or the files that are left.
LEMMA SameFile == op'.item = op.item /\ op'.next = op.next => This' = This
BY DEF This

\* Nothing under way is a removal, and a refresh, of its type.
LEMMA FreeType == Free \in OpRecord /\ Rest \in RfRecord
BY DEF Free, Rest, OpRecord, RfRecord, OpStep

\* What is excused stays excused, a damaged index stays noted, faults are counted up.
Grows == /\ beside \subseteq beside' /\ crossed \subseteq crossed' /\ (lost => lost')
         /\ faults \in Nat /\ faults' \in Nat /\ faults <= faults'

\* Every action lets these grow.
LEMMA StepGrows == IndInv /\ [Next]_vars => Grows
<1> SUFFICES ASSUME IndInv, [Next]_vars PROVE Grows
  OBVIOUS
<1> USE SavedAssumption, NoneAssumption, BoundsAssumption DEF IndInv, Grows, vars, files,
     ghosts, OthersRest, SavesRest, RemovalsRest, Goto, Owns, Fault, FilesOf, Artifact, File
<1>1. ASSUME NEW i \in Item, WriteTemp(i) PROVE Grows
  BY <1>1 DEF WriteTemp, TypeOK
<1>2. ASSUME NEW i \in Item, PublishMarker(i) PROVE Grows
  BY <1>2 DEF PublishMarker, TypeOK
<1>3. ASSUME NEW i \in Item, Register(i) PROVE Grows
  BY <1>3 DEF Register, TypeOK
<1>4. ASSUME NEW i \in Item, PublishPng(i) PROVE Grows
  BY <1>4 DEF PublishPng, TypeOK
<1>5. ASSUME NEW i \in Item, PublishJson(i) PROVE Grows
  BY <1>5 DEF PublishJson, TypeOK
<1>6. ASSUME NEW i \in Item, CommitMarker(i) PROVE Grows
  BY <1>6 DEF CommitMarker, TypeOK
<1>7. ASSUME NEW i \in Item, PublishFails(i) PROVE Grows
  BY <1>7 DEF PublishFails, TypeOK, Active
<1>8. ASSUME NEW i \in Item, NEW f \in File, Remove(i, f) PROVE Grows
  BY <1>8 DEF Remove, TypeOK
<1>9. ASSUME NEW i \in Item, NEW f \in File, RemoveFails(i, f) PROVE Grows
  BY <1>9 DEF RemoveFails, TypeOK
<1>10. ASSUME NEW i \in Item, RemoveTemp(i) PROVE Grows
  BY <1>10 DEF RemoveTemp, TypeOK
<1>11. ASSUME NEW i \in Item, Upsert(i) PROVE Grows
  BY <1>11 DEF Upsert, Enter, TypeOK
<1>12. ASSUME NEW i \in Item, Reject(i) PROVE Grows
  BY <1>12 DEF Reject, SetIndex, TypeOK, Listed
<1>13. ASSUME NEW i \in Item, UpsertFails(i) PROVE Grows
  BY <1>13 DEF UpsertFails, Enter, TypeOK
<1>14. ASSUME NEW i \in Item, MarkIndexed(i) PROVE Grows
  BY <1>14 DEF MarkIndexed, TypeOK
<1>15. ASSUME NEW i \in Item, Delete(i) PROVE Grows
  BY <1>15 DEF Delete, SetIndex, TypeOK
<1>16. ASSUME NEW targets \in SUBSET Item, Clean(targets) PROVE Grows
  BY <1>16 DEF Clean, TypeOK, Listed
<1>17. ASSUME Settle PROVE Grows
  BY <1>17 DEF Settle, LockFree, TypeOK
<1>18. ASSUME NEW a \in op.todo, RecoverOne(a) PROVE Grows
  BY <1>18 DEF RecoverOne, TypeOK
<1>19. ASSUME NEW a \in op.todo, Undo(a) PROVE Grows
  BY <1>19, UndoIs DEF TypeOK
<1>20. ASSUME NEW a \in op.todo, UndoFails(a) PROVE Grows
  BY <1>20 DEF UndoFails, TypeOK
<1>21. ASSUME NEW a \in op.todo, Finish(a) PROVE Grows
  BY <1>21 DEF Finish, TypeOK
<1>22. ASSUME NEW a \in op.todo, FinishFails(a) PROVE Grows
  BY <1>22 DEF FinishFails, TypeOK
<1>23. ASSUME RecoverFails PROVE Grows
  BY <1>23 DEF RecoverFails, TypeOK, Free
<1>24. ASSUME RecoverDone PROVE Grows
  <2>1. UNCHANGED faults
    BY <1>24, RecoverDoneIs
  <2>2. UNCHANGED lost
    BY <1>24, RecoverDoneIs
  <2>3. beside \subseteq beside' /\ crossed \subseteq crossed'
    BY <1>24, RecoverDoneIs DEF TypeOK, HasJson, Listed, Saving, SetIndex, Free
  <2> QED
    BY <2>1, <2>2, <2>3 DEF TypeOK
<1>25. ASSUME WriteManifest PROVE Grows
  BY <1>25, WriteManifestIs DEF TypeOK, Past
<1>26. ASSUME RenameAway PROVE Grows
  BY <1>26, RenameAwayIs DEF TypeOK, Past
<1>27. ASSUME RenameAwayFails PROVE Grows
  BY <1>27, StagingFailsIs DEF TypeOK
<1>28. ASSUME StageFails PROVE Grows
  BY <1>28, StagingFailsIs DEF TypeOK
<1>29. ASSUME UndoDone PROVE Grows
  BY <1>29, UndoDoneIs DEF TypeOK, Follows, Free
<1>30. ASSUME WriteIndex PROVE Grows
  BY <1>30 DEF WriteIndex, TypeOK
<1>31. ASSUME FinishDone PROVE Grows
  BY <1>31 DEF FinishDone, TypeOK, Free
<1>32. ASSUME NEW took \in BOOLEAN, NEW seen \in BOOLEAN, WriteIndexFails(took, seen)
       PROVE  Grows
  BY <1>32 DEF WriteIndexFails, TypeOK, Free
<1>33. ASSUME NEW force \in BOOLEAN, Refresh(force) PROVE Grows
  BY <1>33 DEF Refresh, TypeOK, Rest
<1>34. ASSUME NEW i \in Item, PassOver(i) PROVE Grows
  BY <1>34 DEF PassOver, TypeOK
<1>35. ASSUME NEW i \in Item, Look(i) PROVE Grows
  <2>1. UNCHANGED faults
    BY <1>35, LookIs
  <2>2. UNCHANGED lost
    BY <1>35, LookIs
  <2>3. beside \subseteq beside' /\ crossed \subseteq crossed'
    BY <1>35, LookIs DEF TypeOK, Saving, Active
  <2> QED
    BY <2>1, <2>2, <2>3 DEF TypeOK
<1>36. ASSUME LinkPng PROVE Grows
  BY <1>36, LinkPngIs DEF TypeOK
<1>37. ASSUME WriteJson PROVE Grows
  BY <1>37, WriteJsonIs DEF TypeOK
<1>38. ASSUME CommitSave PROVE Grows
  BY <1>38, CommitSaveIs DEF TypeOK
<1>39. ASSUME RecoveryFails PROVE Grows
  BY <1>39, BackIs DEF RecoveryFails, TypeOK, GoesOn
<1>40. ASSUME ScanDone PROVE Grows
  BY <1>40 DEF ScanDone, TypeOK
<1>41. ASSUME Merge PROVE Grows
  BY <1>41 DEF Merge, SetIndex, TypeOK
<1>42. ASSUME MarkMerged PROVE Grows
  BY <1>42 DEF MarkMerged, TypeOK, Rest
<1>43. ASSUME DamageIndex PROVE Grows
  BY <1>43 DEF DamageIndex, TypeOK
<1>44. ASSUME Crash PROVE Grows
  BY <1>44 DEF Crash, Saving, TypeOK
<1>45. ASSUME UNCHANGED vars PROVE Grows
  BY <1>45 DEF TypeOK
<1> QED
  BY <1>1, <1>2, <1>3, <1>4, <1>5, <1>6, <1>7, <1>8, <1>9, <1>10, <1>11, <1>12, <1>13,
     <1>14, <1>15, <1>16, <1>17, <1>18, <1>19, <1>20, <1>21, <1>22, <1>23, <1>24, <1>25,
     <1>26, <1>27, <1>28, <1>29, <1>30, <1>31, <1>32, <1>33, <1>34, <1>35, <1>36, <1>37,
     <1>38, <1>39, <1>40, <1>41, <1>42, <1>43, <1>44, <1>45 DEF Next, SaveNext,
     RemovalNext, RefreshNext

\* What is quiet after a step was quiet before it.
LEMMA StillQuiet ==
  IndInv /\ [Next]_vars =>
    (Quiet' => Quiet) /\ (Calm' => Calm) /\ faults \in Nat /\ faults' \in Nat /\ faults <= faults'
BY StepGrows DEF Quiet, Calm, Grows

\* A digest a refresh looks at, and that is not excused then, is at rest.
LEMMA LookClear ==
  ASSUME IndInv, NEW i \in Item, Look(i), Clear(i)'
  PROVE  /\ Clear(i) /\ save[i] = "over"
         /\ mark[i] = "prepared" => \A f \in File : <<i, f>> \notin pending
<1>1. Clear(i) /\ ~Saving(i) /\ ~(mark[i] = "prepared" /\ pending \cap FilesOf(i) # {})
  BY LookIs DEF IndInv, Clear, Excused
<1>2. save[i] # "none"
  <2>1. save[i] = "none" => SaveOf(i) /\ OwnOf(i)
    BY <1>1 DEF IndInv, SaveInv, OwnInv
  <2> QED
    BY <2>1, LookIs DEF IndInv, SaveOf, OwnOf, Early, File
<1> QED
  BY <1>1, <1>2 DEF Saving, FilesOf

\* Every action keeps the types of all but the two records.
LEMMA StepRestType == IndInv /\ [Next]_vars => RestType'
<1> SUFFICES ASSUME IndInv, [Next]_vars PROVE RestType'
  OBVIOUS
<1> USE SavedAssumption, NoneAssumption, BoundsAssumption DEF IndInv, vars, files, ghosts,
     OthersRest, SavesRest, RemovalsRest, Goto, Owns, Fault, FilesOf, Artifact, File
<1>1. ASSUME NEW i \in Item, WriteTemp(i) PROVE RestType'
  BY <1>1 DEF WriteTemp, RestType, TypeOK, SaveStep, RfRecord, OpRecord, Active
<1>2. ASSUME NEW i \in Item, PublishMarker(i) PROVE RestType'
  BY <1>2 DEF PublishMarker, RestType, TypeOK, SaveStep
<1>3. ASSUME NEW i \in Item, Register(i) PROVE RestType'
  BY <1>3 DEF Register, RestType, TypeOK, SaveStep, Active
<1>4. ASSUME NEW i \in Item, PublishPng(i) PROVE RestType'
  BY <1>4 DEF PublishPng, RestType, TypeOK, SaveStep, Active
<1>5. ASSUME NEW i \in Item, PublishJson(i) PROVE RestType'
  BY <1>5 DEF PublishJson, RestType, TypeOK, SaveStep, Active
<1>6. ASSUME NEW i \in Item, CommitMarker(i) PROVE RestType'
  BY <1>6 DEF CommitMarker, RestType, TypeOK, SaveStep
<1>7. ASSUME NEW i \in Item, PublishFails(i) PROVE RestType'
  BY <1>7 DEF PublishFails, RestType, TypeOK, SaveStep
<1>8. ASSUME NEW i \in Item, NEW f \in File, Remove(i, f) PROVE RestType'
  BY <1>8 DEF Remove, RestType, TypeOK, SaveStep
<1>9. ASSUME NEW i \in Item, NEW f \in File, RemoveFails(i, f) PROVE RestType'
  BY <1>9 DEF RemoveFails, RestType, TypeOK, SaveStep
<1>10. ASSUME NEW i \in Item, RemoveTemp(i) PROVE RestType'
  BY <1>10 DEF RemoveTemp, RestType, TypeOK, SaveStep
<1>11. ASSUME NEW i \in Item, Upsert(i) PROVE RestType'
  BY <1>11 DEF Upsert, RestType, TypeOK, SaveStep, RfRecord, OpRecord, LockFree, HasJson,
     Listed, Saving, Enter, Active
<1>12. ASSUME NEW i \in Item, Reject(i) PROVE RestType'
  BY <1>12 DEF Reject, RestType, TypeOK, SaveStep, RfRecord, OpRecord, LockFree, HasJson,
     Listed, Saving, SetIndex, Active
<1>13. ASSUME NEW i \in Item, UpsertFails(i) PROVE RestType'
  <2>1. save' \in [Item -> SaveStep] /\ own' \in [Item -> SUBSET File]
    BY <1>13 DEF UpsertFails, TypeOK, SaveStep
  <2>2. index' \in SUBSET Item /\ damaged' \in BOOLEAN /\ beside' \in SUBSET Item
    BY <1>13 DEF UpsertFails, Enter, Listed, HasJson, TypeOK
  <2>8. faults' \in 0..MaxFault
    BY <1>13 DEF UpsertFails, TypeOK
  <2>9. recovered' \in BOOLEAN
    BY <1>13 DEF UpsertFails, TypeOK
  <2> QED
    BY <1>13, <2>1, <2>2, <2>8, <2>9 DEF UpsertFails, RestType, TypeOK
<1>14. ASSUME NEW i \in Item, MarkIndexed(i) PROVE RestType'
  <2>1. save' \in [Item -> SaveStep] /\ own' \in [Item -> SUBSET File]
    BY <1>14 DEF MarkIndexed, TypeOK, SaveStep
  <2>2. mark' \in [Item -> {"prepared", "committed", "indexed"}]
    BY <1>14 DEF MarkIndexed, TypeOK
  <2>8. faults' \in 0..MaxFault
    BY <1>14 DEF MarkIndexed, TypeOK
  <2>9. recovered' \in BOOLEAN
    BY <1>14 DEF MarkIndexed, TypeOK
  <2> QED
    BY <1>14, <2>1, <2>2, <2>8, <2>9 DEF MarkIndexed, RestType, TypeOK
<1>15. ASSUME NEW i \in Item, Delete(i) PROVE RestType'
  BY <1>15 DEF Delete, RestType, TypeOK, SaveStep, RfRecord, OpRecord, LockFree, HasJson,
     Listed, Saving, SetIndex, Active, Start, Free
<1>16. ASSUME NEW targets \in SUBSET Item, Clean(targets) PROVE RestType'
  BY <1>16 DEF Clean, RestType, TypeOK
<1>17. ASSUME Settle PROVE RestType'
  BY <1>17 DEF Settle, RestType, TypeOK
<1>18. ASSUME NEW a \in op.todo, RecoverOne(a) PROVE RestType'
  BY <1>18 DEF RecoverOne, RestType, TypeOK, SaveStep
<1>19. ASSUME NEW a \in op.todo, Undo(a) PROVE RestType'
  BY <1>19, UndoIs DEF RestType, TypeOK
<1>20. ASSUME NEW a \in op.todo, UndoFails(a) PROVE RestType'
  BY <1>20 DEF UndoFails, RestType, TypeOK, SaveStep
<1>21. ASSUME NEW a \in op.todo, Finish(a) PROVE RestType'
  BY <1>21 DEF Finish, RestType, TypeOK, SaveStep
<1>22. ASSUME NEW a \in op.todo, FinishFails(a) PROVE RestType'
  BY <1>22 DEF FinishFails, RestType, TypeOK, SaveStep
<1>23. ASSUME RecoverFails PROVE RestType'
  BY <1>23 DEF RecoverFails, RestType, TypeOK, RfRecord
<1>24. ASSUME RecoverDone PROVE RestType'
  BY <1>24, RecoverDoneIs DEF RestType, TypeOK, SaveStep, RfRecord, OpRecord, HasJson,
     Listed, Saving, SetIndex, Active, Free
<1>25. ASSUME WriteManifest PROVE RestType'
  BY <1>25, WriteManifestIs DEF RestType, TypeOK
<1>26. ASSUME RenameAway PROVE RestType'
  BY <1>26, RenameAwayIs DEF RestType, TypeOK
<1>27. ASSUME RenameAwayFails PROVE RestType'
  BY <1>27, StagingFailsIs DEF RestType, TypeOK
<1>28. ASSUME StageFails PROVE RestType'
  BY <1>28, StagingFailsIs DEF RestType, TypeOK
<1>29. ASSUME UndoDone PROVE RestType'
  BY <1>29, UndoDoneIs DEF RestType, TypeOK
<1>30. ASSUME WriteIndex PROVE RestType'
  BY <1>30 DEF WriteIndex, RestType, TypeOK, SaveStep, RfRecord, OpRecord, Active
<1>31. ASSUME FinishDone PROVE RestType'
  BY <1>31 DEF FinishDone, RestType, TypeOK, RfRecord
<1>32. ASSUME NEW took \in BOOLEAN, NEW seen \in BOOLEAN, WriteIndexFails(took, seen)
       PROVE  RestType'
  <2>1. damaged' \in BOOLEAN
    BY <1>32 DEF WriteIndexFails, TypeOK
  <2>2. index' \in SUBSET Item /\ gone' \in SUBSET Item /\ faults' \in 0..MaxFault
    BY <1>32 DEF WriteIndexFails, TypeOK, OpRecord
  <2> QED
    BY <1>32, <2>1, <2>2 DEF WriteIndexFails, RestType, TypeOK
<1>33. ASSUME NEW force \in BOOLEAN, Refresh(force) PROVE RestType'
  BY <1>33 DEF Refresh, RestType, TypeOK, RfRecord
<1>34. ASSUME NEW i \in Item, PassOver(i) PROVE RestType'
  BY <1>34 DEF PassOver, RestType, TypeOK, SaveStep
<1>35. ASSUME NEW i \in Item, Look(i) PROVE RestType'
  <2>1. beside' \in SUBSET Item /\ crossed' \in SUBSET Item
    <3>1. /\ beside' = beside \/ beside' = beside \cup {i}
          /\ crossed' = crossed \/ crossed' = crossed \cup {i}
      BY <1>35, LookIs
    <3> QED
      BY <3>1 DEF TypeOK
  <2>2. there' \in SUBSET Artifact
    BY <1>35, LookIs DEF TypeOK
  <2>3. UNCHANGED <<pending, manifest, save, own, temp, mark, index, damaged, recovered,
                    gone, lost, faults>>
    BY <1>35, LookIs
  <2> QED
    BY <2>1, <2>2, <2>3 DEF RestType, TypeOK
<1>36. ASSUME LinkPng PROVE RestType'
  BY <1>36, LinkPngIs DEF RestType, TypeOK
<1>37. ASSUME WriteJson PROVE RestType'
  BY <1>37, WriteJsonIs DEF RestType, TypeOK
<1>38. ASSUME CommitSave PROVE RestType'
  BY <1>38, CommitSaveIs DEF RestType, TypeOK
<1>39. ASSUME RecoveryFails PROVE RestType'
  BY <1>39, BackIs DEF RecoveryFails, RestType, TypeOK
<1>40. ASSUME ScanDone PROVE RestType'
  BY <1>40 DEF ScanDone, RestType, TypeOK, SaveStep
<1>41. ASSUME Merge PROVE RestType'
  BY <1>41 DEF Merge, RestType, TypeOK, SaveStep, RfRecord, OpRecord, LockFree, HasJson,
     Listed, Saving, SetIndex, Active, Rest
<1>42. ASSUME MarkMerged PROVE RestType'
  BY <1>42 DEF MarkMerged, RestType, TypeOK, RfRecord
<1>43. ASSUME DamageIndex PROVE RestType'
  BY <1>43 DEF DamageIndex, RestType, TypeOK, SaveStep
<1>44. ASSUME Crash PROVE RestType'
  <2>1. /\ save' \in [Item -> SaveStep] /\ own' \in [Item -> SUBSET File]
        /\ beside' \in SUBSET Item
    BY <1>44 DEF Crash, TypeOK, SaveStep
  <2>8. faults' \in 0..MaxFault
    BY <1>44 DEF Crash, TypeOK
  <2>9. recovered' \in BOOLEAN
    BY <1>44 DEF Crash, TypeOK
  <2> QED
    BY <1>44, <2>1, <2>8, <2>9 DEF Crash, RestType, TypeOK
<1>45. ASSUME UNCHANGED vars PROVE RestType'
  BY <1>45 DEF RestType, TypeOK, SaveStep
<1> QED
  BY <1>1, <1>2, <1>3, <1>4, <1>5, <1>6, <1>7, <1>8, <1>9, <1>10, <1>11, <1>12, <1>13,
     <1>14, <1>15, <1>16, <1>17, <1>18, <1>19, <1>20, <1>21, <1>22, <1>23, <1>24, <1>25,
     <1>26, <1>27, <1>28, <1>29, <1>30, <1>31, <1>32, <1>33, <1>34, <1>35, <1>36, <1>37,
     <1>38, <1>39, <1>40, <1>41, <1>42, <1>43, <1>44, <1>45 DEF Next, SaveNext,
     RemovalNext, RefreshNext

\* Every action keeps the type of the removal.
LEMMA StepOpType == IndInv /\ [Next]_vars => op' \in OpRecord
<1> SUFFICES ASSUME IndInv, [Next]_vars PROVE op' \in OpRecord
  OBVIOUS
<1> USE SavedAssumption, NoneAssumption, BoundsAssumption DEF IndInv, vars, files, ghosts,
     OthersRest, SavesRest, RemovalsRest, Goto, Owns, Fault, FilesOf, Artifact, File
<1>1. ASSUME NEW i \in Item, WriteTemp(i) PROVE op' \in OpRecord
  BY <1>1 DEF WriteTemp, TypeOK, OpRecord, OpStep, OpInv, Staging
<1>2. ASSUME NEW i \in Item, PublishMarker(i) PROVE op' \in OpRecord
  BY <1>2 DEF PublishMarker, TypeOK, OpRecord
<1>3. ASSUME NEW i \in Item, Register(i) PROVE op' \in OpRecord
  BY <1>3 DEF Register, TypeOK, OpRecord
<1>4. ASSUME NEW i \in Item, PublishPng(i) PROVE op' \in OpRecord
  BY <1>4 DEF PublishPng, TypeOK, OpRecord
<1>5. ASSUME NEW i \in Item, PublishJson(i) PROVE op' \in OpRecord
  BY <1>5 DEF PublishJson, TypeOK, OpRecord
<1>6. ASSUME NEW i \in Item, CommitMarker(i) PROVE op' \in OpRecord
  BY <1>6 DEF CommitMarker, TypeOK, OpRecord
<1>7. ASSUME NEW i \in Item, PublishFails(i) PROVE op' \in OpRecord
  BY <1>7 DEF PublishFails, TypeOK
<1>8. ASSUME NEW i \in Item, NEW f \in File, Remove(i, f) PROVE op' \in OpRecord
  BY <1>8 DEF Remove, TypeOK, OpRecord
<1>9. ASSUME NEW i \in Item, NEW f \in File, RemoveFails(i, f) PROVE op' \in OpRecord
  BY <1>9 DEF RemoveFails, TypeOK, OpRecord
<1>10. ASSUME NEW i \in Item, RemoveTemp(i) PROVE op' \in OpRecord
  BY <1>10 DEF RemoveTemp, TypeOK, OpRecord
<1>11. ASSUME NEW i \in Item, Upsert(i) PROVE op' \in OpRecord
  BY <1>11 DEF Upsert, TypeOK
<1>12. ASSUME NEW i \in Item, Reject(i) PROVE op' \in OpRecord
  BY <1>12 DEF Reject, TypeOK
<1>13. ASSUME NEW i \in Item, UpsertFails(i) PROVE op' \in OpRecord
  BY <1>13 DEF UpsertFails, TypeOK
<1>14. ASSUME NEW i \in Item, MarkIndexed(i) PROVE op' \in OpRecord
  BY <1>14 DEF MarkIndexed, TypeOK, OpRecord
<1>15. ASSUME NEW i \in Item, Delete(i) PROVE op' \in OpRecord
  BY <1>15 DEF Delete, TypeOK, OpRecord, OpStep, OpInv, Staging, LockFree, HasJson,
     Listed, Saving, SetIndex, Start, Free
<1>16. ASSUME NEW targets \in SUBSET Item, Clean(targets) PROVE op' \in OpRecord
  BY <1>16 DEF Clean, TypeOK, OpRecord, OpStep, OpInv, Staging, LockFree, HasJson, Listed,
     Start, Free
<1>17. ASSUME Settle PROVE op' \in OpRecord
  BY <1>17 DEF Settle, TypeOK, OpRecord, OpStep, OpInv, Staging, LockFree, Start, Free
<1>18. ASSUME NEW a \in op.todo, RecoverOne(a) PROVE op' \in OpRecord
  BY <1>18 DEF RecoverOne, TypeOK, OpRecord
<1>19. ASSUME NEW a \in op.todo, Undo(a) PROVE op' \in OpRecord
  BY <1>19, UndoIs DEF TypeOK
<1>20. ASSUME NEW a \in op.todo, UndoFails(a) PROVE op' \in OpRecord
  BY <1>20 DEF UndoFails, TypeOK, OpRecord, OpStep, OpInv, Staging
<1>21. ASSUME NEW a \in op.todo, Finish(a) PROVE op' \in OpRecord
  BY <1>21 DEF Finish, TypeOK, OpRecord
<1>22. ASSUME NEW a \in op.todo, FinishFails(a) PROVE op' \in OpRecord
  BY <1>22 DEF FinishFails, TypeOK, OpRecord
<1>23. ASSUME RecoverFails PROVE op' \in OpRecord
  BY <1>23 DEF RecoverFails, OpRecord, OpStep, Free
<1>24. ASSUME RecoverDone PROVE op' \in OpRecord
  BY <1>24, RecoverDoneIs, FreeType DEF TypeOK
<1>25. ASSUME WriteManifest PROVE op' \in OpRecord
  BY <1>25, WriteManifestIs DEF Staging, Past
<1>26. ASSUME RenameAway PROVE op' \in OpRecord
  BY <1>26, RenameAwayIs DEF Staging, Past
<1>27. ASSUME RenameAwayFails PROVE op' \in OpRecord
  BY <1>27, StagingFailsIs
<1>28. ASSUME StageFails PROVE op' \in OpRecord
  BY <1>28, StagingFailsIs
<1>29. ASSUME UndoDone PROVE op' \in OpRecord
  BY <1>29, UndoDoneIs, FreeType DEF TypeOK, Follows
<1>30. ASSUME WriteIndex PROVE op' \in OpRecord
  BY <1>30 DEF WriteIndex, TypeOK, OpRecord, OpStep, OpInv, Staging
<1>31. ASSUME FinishDone PROVE op' \in OpRecord
  BY <1>31 DEF FinishDone, OpRecord, OpStep, Free
<1>32. ASSUME NEW took \in BOOLEAN, NEW seen \in BOOLEAN, WriteIndexFails(took, seen)
       PROVE  op' \in OpRecord
  BY <1>32 DEF WriteIndexFails, TypeOK, OpRecord, OpStep, OpInv, Staging, Free
<1>33. ASSUME NEW force \in BOOLEAN, Refresh(force) PROVE op' \in OpRecord
  BY <1>33 DEF Refresh, TypeOK
<1>34. ASSUME NEW i \in Item, PassOver(i) PROVE op' \in OpRecord
  BY <1>34 DEF PassOver, TypeOK
<1>35. ASSUME NEW i \in Item, Look(i) PROVE op' \in OpRecord
  BY <1>35, LookIs DEF TypeOK, OpRecord, OpStep, OpInv, Staging, Saving, Active
<1>36. ASSUME LinkPng PROVE op' \in OpRecord
  BY <1>36, LinkPngIs DEF TypeOK
<1>37. ASSUME WriteJson PROVE op' \in OpRecord
  BY <1>37, WriteJsonIs DEF TypeOK
<1>38. ASSUME CommitSave PROVE op' \in OpRecord
  BY <1>38, CommitSaveIs DEF TypeOK
<1>39. ASSUME RecoveryFails PROVE op' \in OpRecord
  BY <1>39, BackIs DEF RecoveryFails, TypeOK
<1>40. ASSUME ScanDone PROVE op' \in OpRecord
  BY <1>40 DEF ScanDone, TypeOK, OpRecord
<1>41. ASSUME Merge PROVE op' \in OpRecord
  BY <1>41 DEF Merge, TypeOK
<1>42. ASSUME MarkMerged PROVE op' \in OpRecord
  BY <1>42 DEF MarkMerged, TypeOK
<1>43. ASSUME DamageIndex PROVE op' \in OpRecord
  BY <1>43 DEF DamageIndex, TypeOK, OpRecord
<1>44. ASSUME Crash PROVE op' \in OpRecord
  BY <1>44 DEF Crash, OpRecord, OpStep, Free
<1>45. ASSUME UNCHANGED vars PROVE op' \in OpRecord
  BY <1>45 DEF TypeOK, OpRecord
<1> QED
  BY <1>1, <1>2, <1>3, <1>4, <1>5, <1>6, <1>7, <1>8, <1>9, <1>10, <1>11, <1>12, <1>13,
     <1>14, <1>15, <1>16, <1>17, <1>18, <1>19, <1>20, <1>21, <1>22, <1>23, <1>24, <1>25,
     <1>26, <1>27, <1>28, <1>29, <1>30, <1>31, <1>32, <1>33, <1>34, <1>35, <1>36, <1>37,
     <1>38, <1>39, <1>40, <1>41, <1>42, <1>43, <1>44, <1>45 DEF Next, SaveNext,
     RemovalNext, RefreshNext

\* Every action keeps the type of the refresh.
LEMMA StepRfType == IndInv /\ [Next]_vars => rf' \in RfRecord
<1> SUFFICES ASSUME IndInv, [Next]_vars PROVE rf' \in RfRecord
  OBVIOUS
<1> USE SavedAssumption, NoneAssumption, BoundsAssumption DEF IndInv, vars, files, ghosts,
     OthersRest, SavesRest, RemovalsRest, Goto, Owns, Fault, FilesOf, Artifact, File
<1>1. ASSUME NEW i \in Item, WriteTemp(i) PROVE rf' \in RfRecord
  BY <1>1 DEF WriteTemp, TypeOK, RfRecord, RfInv, Recovering
<1>2. ASSUME NEW i \in Item, PublishMarker(i) PROVE rf' \in RfRecord
  BY <1>2 DEF PublishMarker, TypeOK
<1>3. ASSUME NEW i \in Item, Register(i) PROVE rf' \in RfRecord
  BY <1>3 DEF Register, TypeOK
<1>4. ASSUME NEW i \in Item, PublishPng(i) PROVE rf' \in RfRecord
  BY <1>4 DEF PublishPng, TypeOK
<1>5. ASSUME NEW i \in Item, PublishJson(i) PROVE rf' \in RfRecord
  BY <1>5 DEF PublishJson, TypeOK
<1>6. ASSUME NEW i \in Item, CommitMarker(i) PROVE rf' \in RfRecord
  BY <1>6 DEF CommitMarker, TypeOK
<1>7. ASSUME NEW i \in Item, PublishFails(i) PROVE rf' \in RfRecord
  BY <1>7 DEF PublishFails, TypeOK, RfRecord
<1>8. ASSUME NEW i \in Item, NEW f \in File, Remove(i, f) PROVE rf' \in RfRecord
  BY <1>8 DEF Remove, TypeOK
<1>9. ASSUME NEW i \in Item, NEW f \in File, RemoveFails(i, f) PROVE rf' \in RfRecord
  BY <1>9 DEF RemoveFails, TypeOK
<1>10. ASSUME NEW i \in Item, RemoveTemp(i) PROVE rf' \in RfRecord
  BY <1>10 DEF RemoveTemp, TypeOK
<1>11. ASSUME NEW i \in Item, Upsert(i) PROVE rf' \in RfRecord
  BY <1>11 DEF Upsert, TypeOK
<1>12. ASSUME NEW i \in Item, Reject(i) PROVE rf' \in RfRecord
  BY <1>12 DEF Reject, TypeOK
<1>13. ASSUME NEW i \in Item, UpsertFails(i) PROVE rf' \in RfRecord
  BY <1>13 DEF UpsertFails, TypeOK
<1>14. ASSUME NEW i \in Item, MarkIndexed(i) PROVE rf' \in RfRecord
  BY <1>14 DEF MarkIndexed, TypeOK
<1>15. ASSUME NEW i \in Item, Delete(i) PROVE rf' \in RfRecord
  BY <1>15 DEF Delete, TypeOK
<1>16. ASSUME NEW targets \in SUBSET Item, Clean(targets) PROVE rf' \in RfRecord
  BY <1>16 DEF Clean, TypeOK
<1>17. ASSUME Settle PROVE rf' \in RfRecord
  BY <1>17 DEF Settle, TypeOK
<1>18. ASSUME NEW a \in op.todo, RecoverOne(a) PROVE rf' \in RfRecord
  BY <1>18 DEF RecoverOne, TypeOK
<1>19. ASSUME NEW a \in op.todo, Undo(a) PROVE rf' \in RfRecord
  BY <1>19, UndoIs DEF TypeOK, RfRecord, Recovering
<1>20. ASSUME NEW a \in op.todo, UndoFails(a) PROVE rf' \in RfRecord
  BY <1>20 DEF UndoFails, TypeOK
<1>21. ASSUME NEW a \in op.todo, Finish(a) PROVE rf' \in RfRecord
  BY <1>21 DEF Finish, TypeOK
<1>22. ASSUME NEW a \in op.todo, FinishFails(a) PROVE rf' \in RfRecord
  BY <1>22 DEF FinishFails, TypeOK
<1>23. ASSUME RecoverFails PROVE rf' \in RfRecord
  BY <1>23 DEF RecoverFails, TypeOK, RfRecord
<1>24. ASSUME RecoverDone PROVE rf' \in RfRecord
  BY <1>24, RecoverDoneIs DEF TypeOK
<1>25. ASSUME WriteManifest PROVE rf' \in RfRecord
  BY <1>25, WriteManifestIs DEF TypeOK
<1>26. ASSUME RenameAway PROVE rf' \in RfRecord
  BY <1>26, RenameAwayIs DEF TypeOK
<1>27. ASSUME RenameAwayFails PROVE rf' \in RfRecord
  BY <1>27, StagingFailsIs DEF TypeOK, RfRecord, Recovering
<1>28. ASSUME StageFails PROVE rf' \in RfRecord
  BY <1>28, StagingFailsIs DEF TypeOK, RfRecord, Recovering
<1>29. ASSUME UndoDone PROVE rf' \in RfRecord
  BY <1>29, UndoDoneIs DEF TypeOK
<1>30. ASSUME WriteIndex PROVE rf' \in RfRecord
  BY <1>30 DEF WriteIndex, TypeOK
<1>31. ASSUME FinishDone PROVE rf' \in RfRecord
  BY <1>31 DEF FinishDone, TypeOK, RfRecord
<1>32. ASSUME NEW took \in BOOLEAN, NEW seen \in BOOLEAN, WriteIndexFails(took, seen)
       PROVE  rf' \in RfRecord
  BY <1>32 DEF WriteIndexFails, TypeOK, RfRecord
<1>33. ASSUME NEW force \in BOOLEAN, Refresh(force) PROVE rf' \in RfRecord
  BY <1>33 DEF Refresh, TypeOK, RfRecord, RfInv, Recovering, Rest
<1>34. ASSUME NEW i \in Item, PassOver(i) PROVE rf' \in RfRecord
  BY <1>34 DEF Skip, PassOver, TypeOK, RfRecord
<1>35. ASSUME NEW i \in Item, Look(i) PROVE rf' \in RfRecord
  <2>1. \A step \in {"json", "link"} : mark[i] # "indexed" => Working(i, step) \in RfRecord
    <3>1. mark[i] # "indexed" => mark[i] \in {"prepared", "committed"}
      BY DEF TypeOK
    <3>2. (<<i, "json">> \in there) \in BOOLEAN
      OBVIOUS
    <3> QED
      BY <3>1, <3>2 DEF Working, TypeOK, RfRecord
  <2>2. Skip(i) \in RfRecord
    BY DEF Skip, TypeOK, RfRecord
  <2> QED
    BY <1>35, <2>1, <2>2 DEF Look
<1>36. ASSUME LinkPng PROVE rf' \in RfRecord
  <2>1. GiveUp \in RfRecord /\ Back \in RfRecord
    BY DEF GiveUp, Back, Rest, TypeOK, RfRecord
  <2> QED
    BY <1>36, <2>1 DEF LinkPng, TypeOK, RfRecord
<1>37. ASSUME WriteJson PROVE rf' \in RfRecord
  <2>1. GiveUp \in RfRecord /\ Back \in RfRecord
    BY DEF GiveUp, Back, Rest, TypeOK, RfRecord
  <2> QED
    BY <1>37, <2>1 DEF WriteJson, TypeOK, RfRecord
<1>38. ASSUME CommitSave PROVE rf' \in RfRecord
  <2>1. rf.item \in Item /\ GiveUp \in RfRecord /\ Back \in RfRecord
    BY <1>38 DEF CommitSave, GiveUp, Back, Rest, TypeOK, RfRecord, RfInv, Recovering
  <2>2. [Back EXCEPT !.needs = @ \cup {rf.item}] \in RfRecord
    BY <2>1 DEF RfRecord
  <2> QED
    BY <1>38, <2>1, <2>2 DEF CommitSave
<1>39. ASSUME RecoveryFails PROVE rf' \in RfRecord
  BY <1>39, BackIs DEF RecoveryFails, Recovering, GoesOn
<1>40. ASSUME ScanDone PROVE rf' \in RfRecord
  BY <1>40 DEF ScanDone, TypeOK, RfRecord
<1>41. ASSUME Merge PROVE rf' \in RfRecord
  BY <1>41 DEF Merge, TypeOK, RfRecord, RfInv, Recovering, LockFree, HasJson, Listed,
     Saving, SetIndex, Rest
<1>42. ASSUME MarkMerged PROVE rf' \in RfRecord
  BY <1>42 DEF MarkMerged, RfRecord, Rest
<1>43. ASSUME DamageIndex PROVE rf' \in RfRecord
  BY <1>43 DEF DamageIndex, TypeOK
<1>44. ASSUME Crash PROVE rf' \in RfRecord
  BY <1>44 DEF Crash, RfRecord, Rest
<1>45. ASSUME UNCHANGED vars PROVE rf' \in RfRecord
  BY <1>45 DEF TypeOK, RfRecord, Recovering
<1> QED
  BY <1>1, <1>2, <1>3, <1>4, <1>5, <1>6, <1>7, <1>8, <1>9, <1>10, <1>11, <1>12, <1>13,
     <1>14, <1>15, <1>16, <1>17, <1>18, <1>19, <1>20, <1>21, <1>22, <1>23, <1>24, <1>25,
     <1>26, <1>27, <1>28, <1>29, <1>30, <1>31, <1>32, <1>33, <1>34, <1>35, <1>36, <1>37,
     <1>38, <1>39, <1>40, <1>41, <1>42, <1>43, <1>44, <1>45 DEF Next, SaveNext,
     RemovalNext, RefreshNext

\* Every action leaves the files of an early save alone, or is its own.
LEMMA StepSaveInv == IndInv /\ [Next]_vars => SaveInv'
<1> SUFFICES ASSUME IndInv, [Next]_vars, NEW j \in Item, Clear(j)' PROVE SaveOf(j)'
  BY DEF SaveInv
<1> USE SavedAssumption, NoneAssumption, BoundsAssumption DEF IndInv, vars, files, ghosts,
     OthersRest, SavesRest, RemovalsRest, Goto, Owns, Fault, FilesOf, Artifact, File
<1>0. Clear(j) /\ SaveOf(j) /\ OwnOf(j)
  BY StepGrows DEF Grows, Clear, Excused, SaveInv, OwnInv
<1>1. ASSUME NEW i \in Item, WriteTemp(i) PROVE SaveOf(j)'
  BY <1>1, <1>0 DEF WriteTemp, SaveOf, OwnOf, Recovering, Excused, Early, Staging, Targets
<1>2. ASSUME NEW i \in Item, PublishMarker(i) PROVE SaveOf(j)'
  BY <1>2, <1>0 DEF PublishMarker, SaveOf, OwnOf, TypeOK, SaveStep, OpStep, Recovering,
     Early, Around, Staging, Targets
<1>3. ASSUME NEW i \in Item, Register(i) PROVE SaveOf(j)'
  BY <1>3, <1>0 DEF Register, SaveOf, OwnOf, Recovering, Excused, Early, Staging, Targets
<1>4. ASSUME NEW i \in Item, PublishPng(i) PROVE SaveOf(j)'
  BY <1>4, <1>0 DEF PublishPng, SaveOf, OwnOf, TypeOK, SaveStep, OpStep, Recovering,
     Early, Around, Staging, Targets
<1>5. ASSUME NEW i \in Item, PublishJson(i) PROVE SaveOf(j)'
  BY <1>5, <1>0 DEF PublishJson, SaveOf, OwnOf, TypeOK, SaveStep, OpStep, Recovering,
     Early, Around, Staging, Targets
<1>6. ASSUME NEW i \in Item, CommitMarker(i) PROVE SaveOf(j)'
  BY <1>6, <1>0 DEF CommitMarker, SaveOf, OwnOf, Recovering, Excused, Early, Staging,
     Targets
<1>7. ASSUME NEW i \in Item, PublishFails(i) PROVE SaveOf(j)'
  BY <1>7, <1>0 DEF PublishFails, SaveOf, OwnOf, Recovering, Excused, Early, Staging,
     Targets, Active
<1>8. ASSUME NEW i \in Item, NEW f \in File, Remove(i, f) PROVE SaveOf(j)'
  BY <1>8, <1>0 DEF Remove, SaveOf, OwnOf, TypeOK, SaveStep, OpStep, Recovering, Targets
<1>9. ASSUME NEW i \in Item, NEW f \in File, RemoveFails(i, f) PROVE SaveOf(j)'
  BY <1>9, <1>0 DEF RemoveFails, SaveOf, OwnOf, Recovering, Clear, Excused, Early,
     Staging, Targets
<1>10. ASSUME NEW i \in Item, RemoveTemp(i) PROVE SaveOf(j)'
  BY <1>10, <1>0 DEF RemoveTemp, SaveOf, OwnOf, Recovering, Excused, Early, Staging,
     Targets
<1>11. ASSUME NEW i \in Item, Upsert(i) PROVE SaveOf(j)'
  BY <1>11, <1>0 DEF Upsert, SaveOf, OwnOf, TypeOK, OpStep, Recovering, Clear, Excused,
     Early, Around, Staging, Targets, LockFree, HasJson, Listed, Saving, Enter
<1>12. ASSUME NEW i \in Item, Reject(i) PROVE SaveOf(j)'
  BY <1>12, <1>0 DEF Reject, SaveOf, OwnOf, Recovering, Clear, Excused, Early, Around,
     Staging, Targets, LockFree, HasJson, Listed, Saving, SetIndex
<1>13. ASSUME NEW i \in Item, UpsertFails(i) PROVE SaveOf(j)'
  BY <1>13, <1>0 DEF UpsertFails, SaveOf, OwnOf, TypeOK, OpStep, Recovering, Clear,
     Excused, Early, Around, Staging, Targets, LockFree, HasJson, Listed, Saving, Enter
<1>14. ASSUME NEW i \in Item, MarkIndexed(i) PROVE SaveOf(j)'
  BY <1>14, <1>0 DEF MarkIndexed, SaveOf, OwnOf, TypeOK, SaveStep, OpStep, Recovering,
     Early, Around, Staging, Targets
<1>15. ASSUME NEW i \in Item, Delete(i) PROVE SaveOf(j)'
  BY <1>15, <1>0 DEF Delete, SaveOf, OwnOf, Recovering, Clear, Excused, Early, Around,
     Staging, Targets, LockFree, HasJson, Listed, Saving, SetIndex, Active, Start
<1>16. ASSUME NEW targets \in SUBSET Item, Clean(targets) PROVE SaveOf(j)'
  BY <1>16, <1>0 DEF Clean, SaveOf, OwnOf, Recovering, Start
<1>17. ASSUME Settle PROVE SaveOf(j)'
  BY <1>17, <1>0 DEF Settle, SaveOf, OwnOf, Recovering, Start
<1>18. ASSUME NEW a \in op.todo, RecoverOne(a) PROVE SaveOf(j)'
  BY <1>18, <1>0 DEF RecoverOne, SaveOf, OwnOf, TypeOK, OpRecord, Recovering
<1>19. ASSUME NEW a \in op.todo, Undo(a) PROVE SaveOf(j)'
  BY <1>19, <1>0, UndoIs DEF SaveOf, Recovering, Targets
<1>20. ASSUME NEW a \in op.todo, UndoFails(a) PROVE SaveOf(j)'
  BY <1>20, <1>0 DEF UndoFails, SaveOf, OwnOf, Recovering, Targets
<1>21. ASSUME NEW a \in op.todo, Finish(a) PROVE SaveOf(j)'
  BY <1>21, <1>0 DEF Finish, SaveOf, OwnOf, TypeOK, OpRecord, RfRecord, SaveStep, OpStep,
     Recovering, Targets
<1>22. ASSUME NEW a \in op.todo, FinishFails(a) PROVE SaveOf(j)'
  BY <1>22, <1>0 DEF FinishFails, SaveOf, OwnOf, Recovering, Targets
<1>23. ASSUME RecoverFails PROVE SaveOf(j)'
  BY <1>23, <1>0 DEF RecoverFails, SaveOf, Recovering, Free
<1>24. ASSUME RecoverDone PROVE SaveOf(j)'
  <2>1. UNCHANGED <<save, gone, mark, pending, there, own, rf>>
    BY <1>24, <1>0, RecoverDoneIs
  <2>2. ASSUME save[j] \in Early PROVE j \notin index'
    <3>1. save[j] = "none" => <<j, "json">> \notin there
      BY <1>24, <1>0, <2>2 DEF SaveOf, OwnOf, File
    <3>2. SetIndex(Listed) /\ j \in index' => j \in Listed /\ (j \in index \/ ~Saving(j))
      BY DEF SetIndex, Clear, Excused
    <3>3. save[j] # "over"
      BY <2>2 DEF Early
    <3> QED
      BY <1>24, <1>0, <2>2, <3>1, <3>2, <3>3, RecoverDoneIs DEF SaveOf, Saving, Listed,
         HasJson
  <2>3. op'.step \notin {"free", "recover"} /\ j \in Targets' => j \in index'
    <3>1. CASE op' = Free
      BY <3>1 DEF Free
    <3>2. CASE op' # Free
      <4>1. op'.done = {} /\ index' = Listed
        BY <1>24, <1>0, <3>2, RecoverDoneIs DEF OpInv, SetIndex
      <4>2. (op'.left \cup {op'.item}) \ {None} \subseteq Listed
        BY <1>24, <1>0, <3>2, RecoverDoneIs
      <4> QED
        BY <4>1, <4>2 DEF Targets
    <3> QED
      BY <3>1, <3>2
  <2> QED
    BY <1>24, <1>0, <2>1, <2>2, <2>3 DEF SaveOf, Recovering
<1>25. ASSUME WriteManifest PROVE SaveOf(j)'
  BY <1>25, <1>0, WriteManifestIs DEF SaveOf, Recovering, Clear, Targets, Past
<1>26. ASSUME RenameAway PROVE SaveOf(j)'
  BY <1>26, <1>0, RenameAwayIs DEF SaveOf, Recovering, Clear, Targets, Past
<1>27. ASSUME RenameAwayFails PROVE SaveOf(j)'
  BY <1>27, <1>0, StagingFailsIs DEF SaveOf, Recovering, Targets
<1>28. ASSUME StageFails PROVE SaveOf(j)'
  BY <1>28, <1>0, StagingFailsIs DEF SaveOf, Recovering, Targets
<1>29. ASSUME UndoDone PROVE SaveOf(j)'
  BY <1>29, <1>0, UndoDoneIs DEF SaveOf, OwnOf, Recovering, Targets, Follows, Free
<1>30. ASSUME WriteIndex PROVE SaveOf(j)'
  BY <1>30, <1>0 DEF WriteIndex, SaveOf, OwnOf, Recovering, Targets
<1>31. ASSUME FinishDone PROVE SaveOf(j)'
  BY <1>31, <1>0 DEF FinishDone, SaveOf, Recovering, Free
<1>32. ASSUME NEW took \in BOOLEAN, NEW seen \in BOOLEAN, WriteIndexFails(took, seen)
       PROVE  SaveOf(j)'
  BY <1>32, <1>0 DEF WriteIndexFails, SaveOf, OwnOf, Recovering, Targets, Free
<1>33. ASSUME NEW force \in BOOLEAN, Refresh(force) PROVE SaveOf(j)'
  BY <1>33, <1>0 DEF Refresh, SaveOf, Targets, Rest
<1>34. ASSUME NEW i \in Item, PassOver(i) PROVE SaveOf(j)'
  BY <1>34, <1>0 DEF Skip, PassOver, SaveOf, OwnOf, Recovering, Targets
<1>35. ASSUME NEW i \in Item, Look(i) PROVE SaveOf(j)'
  <2>1. j = i => save[j] = "over"
    BY <1>35, <1>0, LookClear
  <2>2. there' = there \/ there' = there \ {<<i, "marker">>}
    BY <1>35, <1>0, LookIs
  <2>3. Recovering' => rf'.item = i
    BY <1>35, <1>0, LookIs DEF Recovering
  <2>4. UNCHANGED <<save, index, gone, mark, pending, own, op>> /\ rf'.needs = rf.needs
    BY <1>35, <1>0, LookIs
  <2> QED
    BY <1>35, <1>0, <2>1, <2>2, <2>3, <2>4 DEF SaveOf, Early, Targets
<1>36. ASSUME LinkPng PROVE SaveOf(j)'
  BY <1>36, <1>0, LinkPngIs DEF SaveOf, Recovering, Targets
<1>37. ASSUME WriteJson PROVE SaveOf(j)'
  BY <1>37, <1>0, WriteJsonIs DEF SaveOf, Recovering, Targets
<1>38. ASSUME CommitSave PROVE SaveOf(j)'
  BY <1>38, <1>0, CommitSaveIs DEF SaveOf, OwnOf, TypeOK, SaveStep, OpStep, Recovering,
     Targets
<1>39. ASSUME RecoveryFails PROVE SaveOf(j)'
  BY <1>39, <1>0, BackIs DEF RecoveryFails, SaveOf, OwnOf, Recovering, Targets, GoesOn
<1>40. ASSUME ScanDone PROVE SaveOf(j)'
  BY <1>40, <1>0 DEF ScanDone, SaveOf, OwnOf, Recovering, Targets
<1>41. ASSUME Merge PROVE SaveOf(j)'
  BY <1>41, <1>0 DEF Merge, SaveOf, OwnOf, Recovering, Clear, Excused, Early, LockFree,
     HasJson, Listed, Saving, SetIndex, Active, Rest
<1>42. ASSUME MarkMerged PROVE SaveOf(j)'
  BY <1>42, <1>0 DEF MarkMerged, SaveOf, Targets, Rest
<1>43. ASSUME DamageIndex PROVE SaveOf(j)'
  BY <1>43, <1>0 DEF DamageIndex, SaveOf, OwnOf, Recovering, Targets
<1>44. ASSUME Crash PROVE SaveOf(j)'
  BY <1>44, <1>0 DEF Crash, SaveOf, OwnOf, Recovering, Early, Around, Saving, Active,
     Free, Rest
<1>45. ASSUME UNCHANGED vars PROVE SaveOf(j)'
  BY <1>45, <1>0 DEF SaveOf, Recovering, Targets
<1> QED
  BY <1>1, <1>2, <1>3, <1>4, <1>5, <1>6, <1>7, <1>8, <1>9, <1>10, <1>11, <1>12, <1>13,
     <1>14, <1>15, <1>16, <1>17, <1>18, <1>19, <1>20, <1>21, <1>22, <1>23, <1>24, <1>25,
     <1>26, <1>27, <1>28, <1>29, <1>30, <1>31, <1>32, <1>33, <1>34, <1>35, <1>36, <1>37,
     <1>38, <1>39, <1>40, <1>41, <1>42, <1>43, <1>44, <1>45 DEF Next, SaveNext,
     RemovalNext, RefreshNext

\* Every action keeps what a save owns and what its marker says.
LEMMA StepOwnInv == IndInv /\ [Next]_vars => OwnInv'
<1> SUFFICES ASSUME IndInv, [Next]_vars, NEW j \in Item, Clear(j)' PROVE OwnOf(j)'
  BY DEF OwnInv
<1> USE SavedAssumption, NoneAssumption, BoundsAssumption DEF IndInv, vars, files, ghosts,
     OthersRest, SavesRest, RemovalsRest, Goto, Owns, Fault, FilesOf, Artifact, File
<1>0. Clear(j) /\ SaveOf(j) /\ OwnOf(j)
  BY StepGrows DEF Grows, Clear, Excused, SaveInv, OwnInv
<1>1. ASSUME NEW i \in Item, WriteTemp(i) PROVE OwnOf(j)'
  BY <1>1, <1>0 DEF WriteTemp, OwnOf
<1>2. ASSUME NEW i \in Item, PublishMarker(i) PROVE OwnOf(j)'
  BY <1>2, <1>0 DEF PublishMarker, OwnOf, TypeOK
<1>3. ASSUME NEW i \in Item, Register(i) PROVE OwnOf(j)'
  BY <1>3, <1>0 DEF Register, OwnOf
<1>4. ASSUME NEW i \in Item, PublishPng(i) PROVE OwnOf(j)'
  BY <1>4, <1>0 DEF PublishPng, OwnOf, TypeOK
<1>5. ASSUME NEW i \in Item, PublishJson(i) PROVE OwnOf(j)'
  BY <1>5, <1>0 DEF PublishJson, SaveOf, OwnOf, OwnInv, TypeOK, Excused, Early
<1>6. ASSUME NEW i \in Item, CommitMarker(i) PROVE OwnOf(j)'
  BY <1>6, <1>0 DEF CommitMarker, OwnOf, TypeOK
<1>7. ASSUME NEW i \in Item, PublishFails(i) PROVE OwnOf(j)'
  BY <1>7, <1>0 DEF PublishFails, OwnOf
<1>8. ASSUME NEW i \in Item, NEW f \in File, Remove(i, f) PROVE OwnOf(j)'
  BY <1>8, <1>0 DEF Remove, OwnOf
<1>9. ASSUME NEW i \in Item, NEW f \in File, RemoveFails(i, f) PROVE OwnOf(j)'
  BY <1>9, <1>0 DEF RemoveFails, OwnOf
<1>10. ASSUME NEW i \in Item, RemoveTemp(i) PROVE OwnOf(j)'
  BY <1>10, <1>0 DEF RemoveTemp, OwnOf
<1>11. ASSUME NEW i \in Item, Upsert(i) PROVE OwnOf(j)'
  BY <1>11, <1>0 DEF Upsert, SaveOf, OwnOf, OwnInv, SaveInv, LostInv, RfInv, TypeOK,
     Recovering, Clear, Excused, Early, Listed, Saving, Enter, Active
<1>12. ASSUME NEW i \in Item, Reject(i) PROVE OwnOf(j)'
  BY <1>12, <1>0 DEF Reject, OwnOf, SaveInv, LostInv, HasJson, Listed, SetIndex
<1>13. ASSUME NEW i \in Item, UpsertFails(i) PROVE OwnOf(j)'
  BY <1>13, <1>0 DEF UpsertFails, SaveOf, OwnOf, OwnInv, SaveInv, LostInv, RfInv, TypeOK,
     Listed, Saving, Enter, Active
<1>14. ASSUME NEW i \in Item, MarkIndexed(i) PROVE OwnOf(j)'
  BY <1>14, <1>0 DEF MarkIndexed, OwnOf, TypeOK
<1>15. ASSUME NEW i \in Item, Delete(i) PROVE OwnOf(j)'
  BY <1>15, <1>0 DEF Delete, OwnOf, LostInv, Recovering, Listed, Saving, SetIndex
<1>16. ASSUME NEW targets \in SUBSET Item, Clean(targets) PROVE OwnOf(j)'
  BY <1>16, <1>0 DEF Clean, OwnOf
<1>17. ASSUME Settle PROVE OwnOf(j)'
  BY <1>17, <1>0 DEF Settle, OwnOf
<1>18. ASSUME NEW a \in op.todo, RecoverOne(a) PROVE OwnOf(j)'
  BY <1>18, <1>0 DEF RecoverOne, OwnOf
<1>19. ASSUME NEW a \in op.todo, Undo(a) PROVE OwnOf(j)'
  BY <1>19, <1>0, UndoIs DEF OwnOf
<1>20. ASSUME NEW a \in op.todo, UndoFails(a) PROVE OwnOf(j)'
  BY <1>20, <1>0 DEF UndoFails, OwnOf
<1>21. ASSUME NEW a \in op.todo, Finish(a) PROVE OwnOf(j)'
  BY <1>21, <1>0 DEF Finish, OwnOf
<1>22. ASSUME NEW a \in op.todo, FinishFails(a) PROVE OwnOf(j)'
  BY <1>22, <1>0 DEF FinishFails, OwnOf
<1>23. ASSUME RecoverFails PROVE OwnOf(j)'
  BY <1>23, <1>0 DEF RecoverFails, OwnOf
<1>24. ASSUME RecoverDone PROVE OwnOf(j)'
  BY <1>24, <1>0, RecoverDoneIs DEF SaveOf, OwnOf, OwnInv, SaveInv, LostInv, RfInv,
     TypeOK, OpRecord, RfRecord, SaveStep, OpStep, Recovering, Clear, Excused, Early,
     Around, Targets, HasJson, Listed, Saving, SetIndex, Active, Free
<1>25. ASSUME WriteManifest PROVE OwnOf(j)'
  BY <1>25, <1>0, WriteManifestIs DEF OwnOf
<1>26. ASSUME RenameAway PROVE OwnOf(j)'
  BY <1>26, <1>0, RenameAwayIs DEF OwnOf
<1>27. ASSUME RenameAwayFails PROVE OwnOf(j)'
  BY <1>27, <1>0, StagingFailsIs DEF OwnOf
<1>28. ASSUME StageFails PROVE OwnOf(j)'
  BY <1>28, <1>0, StagingFailsIs DEF OwnOf
<1>29. ASSUME UndoDone PROVE OwnOf(j)'
  BY <1>29, <1>0, UndoDoneIs DEF OwnOf
<1>30. ASSUME WriteIndex PROVE OwnOf(j)'
  BY <1>30, <1>0 DEF WriteIndex, OwnOf
<1>31. ASSUME FinishDone PROVE OwnOf(j)'
  BY <1>31, <1>0 DEF FinishDone, OwnOf
<1>32. ASSUME NEW took \in BOOLEAN, NEW seen \in BOOLEAN, WriteIndexFails(took, seen)
       PROVE  OwnOf(j)'
  BY <1>32, <1>0 DEF WriteIndexFails, OwnOf
<1>33. ASSUME NEW force \in BOOLEAN, Refresh(force) PROVE OwnOf(j)'
  BY <1>33, <1>0 DEF Refresh, OwnOf, Rest
<1>34. ASSUME NEW i \in Item, PassOver(i) PROVE OwnOf(j)'
  BY <1>34, <1>0 DEF Skip, PassOver, OwnOf
<1>35. ASSUME NEW i \in Item, Look(i) PROVE OwnOf(j)'
  BY <1>35, <1>0, LookIs DEF SaveOf, OwnOf, OwnInv, SaveInv, LostInv, RfInv, TypeOK,
     OpRecord, RfRecord, SaveStep, OpStep, Recovering, Clear, Excused, Early, Around,
     Targets, Saving, Active
<1>36. ASSUME LinkPng PROVE OwnOf(j)'
  BY <1>36, <1>0, LinkPngIs DEF OwnOf
<1>37. ASSUME WriteJson PROVE OwnOf(j)'
  BY <1>37, <1>0, WriteJsonIs DEF OwnOf
<1>38. ASSUME CommitSave PROVE OwnOf(j)'
  BY <1>38, <1>0, CommitSaveIs DEF OwnOf, SaveInv, LostInv, RfInv, TypeOK, Recovering
<1>39. ASSUME RecoveryFails PROVE OwnOf(j)'
  BY <1>39, <1>0, BackIs DEF RecoveryFails, OwnOf, GoesOn
<1>40. ASSUME ScanDone PROVE OwnOf(j)'
  BY <1>40, <1>0 DEF ScanDone, OwnOf
<1>41. ASSUME Merge PROVE OwnOf(j)'
  BY <1>41, <1>0 DEF Merge, OwnOf, SaveInv, LostInv, Recovering, Listed, Saving, SetIndex,
     Rest
<1>42. ASSUME MarkMerged PROVE OwnOf(j)'
  BY <1>42, <1>0 DEF MarkMerged, SaveOf, OwnOf, OwnInv, Excused, Early, Rest
<1>43. ASSUME DamageIndex PROVE OwnOf(j)'
  BY <1>43, <1>0 DEF DamageIndex, OwnOf
<1>44. ASSUME Crash PROVE OwnOf(j)'
  BY <1>44, <1>0 DEF Crash, OwnOf, Saving
<1>45. ASSUME UNCHANGED vars PROVE OwnOf(j)'
  BY <1>45, <1>0 DEF OwnOf
<1> QED
  BY <1>1, <1>2, <1>3, <1>4, <1>5, <1>6, <1>7, <1>8, <1>9, <1>10, <1>11, <1>12, <1>13,
     <1>14, <1>15, <1>16, <1>17, <1>18, <1>19, <1>20, <1>21, <1>22, <1>23, <1>24, <1>25,
     <1>26, <1>27, <1>28, <1>29, <1>30, <1>31, <1>32, <1>33, <1>34, <1>35, <1>36, <1>37,
     <1>38, <1>39, <1>40, <1>41, <1>42, <1>43, <1>44, <1>45 DEF Next, SaveNext,
     RemovalNext, RefreshNext

\* Every action keeps the manifests of what is renamed away.
LEMMA StepPendInv == IndInv /\ [Next]_vars => PendInv'
<1> SUFFICES ASSUME IndInv, [Next]_vars PROVE PendInv'
  OBVIOUS
<1> USE SavedAssumption, NoneAssumption, BoundsAssumption DEF IndInv, vars, files, ghosts,
     OthersRest, SavesRest, RemovalsRest, Goto, Owns, Fault, FilesOf, Artifact, File
<1>1. ASSUME NEW i \in Item, WriteTemp(i) PROVE PendInv'
  BY <1>1 DEF WriteTemp, PendInv, SaveOf, OwnOf, SaveInv, OwnInv, OpInv, RfInv, TypeOK,
     OpRecord, RfRecord, SaveStep, OpStep, Recovering, Clear, Excused, Early, Around,
     Staging, Targets, Active
<1>2. ASSUME NEW i \in Item, PublishMarker(i) PROVE PendInv'
  <2>1. Clear(i) => \A f \in File : <<i, f>> \notin pending
    BY <1>2 DEF PublishMarker, SaveInv, SaveOf, Early
  <2> QED
    BY <1>2, <2>1 DEF PublishMarker, PendInv, Clear, Excused
<1>3. ASSUME NEW i \in Item, Register(i) PROVE PendInv'
  BY <1>3 DEF Register, PendInv, Clear, Excused
<1>4. ASSUME NEW i \in Item, PublishPng(i) PROVE PendInv'
  <2>1. Clear(i) => \A f \in File : <<i, f>> \notin pending
    BY <1>4 DEF PublishPng, SaveInv, SaveOf, Early
  <2> QED
    BY <1>4, <2>1 DEF PublishPng, PendInv, Clear, Excused
<1>5. ASSUME NEW i \in Item, PublishJson(i) PROVE PendInv'
  <2>1. Clear(i) => \A f \in File : <<i, f>> \notin pending
    BY <1>5 DEF PublishJson, SaveInv, SaveOf, Early
  <2> QED
    BY <1>5, <2>1 DEF PublishJson, PendInv, Clear, Excused
<1>6. ASSUME NEW i \in Item, CommitMarker(i) PROVE PendInv'
  BY <1>6 DEF CommitMarker, PendInv, Clear, Excused
<1>7. ASSUME NEW i \in Item, PublishFails(i) PROVE PendInv'
  BY <1>7 DEF PublishFails, PendInv, Clear, Excused
<1>8. ASSUME NEW i \in Item, NEW f \in File, Remove(i, f) PROVE PendInv'
  BY <1>8 DEF Remove, PendInv, Clear, Excused
<1>9. ASSUME NEW i \in Item, NEW f \in File, RemoveFails(i, f) PROVE PendInv'
  BY <1>9 DEF RemoveFails, PendInv, Clear, Excused
<1>10. ASSUME NEW i \in Item, RemoveTemp(i) PROVE PendInv'
  BY <1>10 DEF RemoveTemp, PendInv, Clear, Excused
<1>11. ASSUME NEW i \in Item, Upsert(i) PROVE PendInv'
  BY <1>11 DEF Upsert, PendInv, Clear, Excused, Enter
<1>12. ASSUME NEW i \in Item, Reject(i) PROVE PendInv'
  BY <1>12 DEF Reject, PendInv, Clear, Excused, Early, Around, Listed, Saving, SetIndex,
     Active
<1>13. ASSUME NEW i \in Item, UpsertFails(i) PROVE PendInv'
  BY <1>13 DEF UpsertFails, PendInv, Clear, Excused, Early, Around, Listed, Saving, Enter,
     Active
<1>14. ASSUME NEW i \in Item, MarkIndexed(i) PROVE PendInv'
  BY <1>14 DEF MarkIndexed, PendInv, Clear, Excused
<1>15. ASSUME NEW i \in Item, Delete(i) PROVE PendInv'
  BY <1>15 DEF Delete, PendInv, Recovering, Clear, Excused, Staging, Targets, LockFree,
     Saving, SetIndex, Active, Start, Free
<1>16. ASSUME NEW targets \in SUBSET Item, Clean(targets) PROVE PendInv'
  BY <1>16 DEF Clean, PendInv, Recovering, Clear, Excused, Early, Around, Staging, Start
<1>17. ASSUME Settle PROVE PendInv'
  BY <1>17 DEF Settle, PendInv, Recovering, Clear, Excused, Staging, Targets, Start
<1>18. ASSUME NEW a \in op.todo, RecoverOne(a) PROVE PendInv'
  BY <1>18 DEF RecoverOne, PendInv, TypeOK, OpRecord, Clear, Excused
<1>19. ASSUME NEW a \in op.todo, Undo(a) PROVE PendInv'
  BY <1>19, UndoIs DEF PendInv, Clear, Excused
<1>20. ASSUME NEW a \in op.todo, UndoFails(a) PROVE PendInv'
  BY <1>20 DEF UndoFails, PendInv, Clear, Excused
<1>21. ASSUME NEW a \in op.todo, Finish(a) PROVE PendInv'
  BY <1>21 DEF Finish, PendInv, TypeOK, OpRecord, Clear, Excused
<1>22. ASSUME NEW a \in op.todo, FinishFails(a) PROVE PendInv'
  BY <1>22 DEF FinishFails, PendInv, Clear, Excused
<1>23. ASSUME RecoverFails PROVE PendInv'
  BY <1>23 DEF RecoverFails, PendInv, Recovering, Clear, Excused, Staging, Free
<1>24. ASSUME RecoverDone PROVE PendInv'
  BY <1>24, RecoverDoneIs DEF PendInv, SaveOf, OwnOf, SaveInv, OwnInv, OpInv, RfInv,
     TypeOK, OpRecord, RfRecord, SaveStep, OpStep, Recovering, Clear, Excused, Early,
     Around, Staging, Targets, HasJson, Listed, Saving, SetIndex, Active, Free
<1>25. ASSUME WriteManifest PROVE PendInv'
  BY <1>25, WriteManifestIs DEF PendInv, Clear, Excused, Staging, Past
<1>26. ASSUME RenameAway PROVE PendInv'
  BY <1>26, RenameAwayIs DEF PendInv, OpInv, Clear, Excused, Staging, Past
<1>27. ASSUME RenameAwayFails PROVE PendInv'
  BY <1>27, StagingFailsIs DEF PendInv, OpInv, Clear, Excused, Early, Staging, Targets
<1>28. ASSUME StageFails PROVE PendInv'
  BY <1>28, StagingFailsIs DEF PendInv, OpInv, Clear, Excused, Early, Staging, Targets
<1>29. ASSUME UndoDone PROVE PendInv'
  BY <1>29, UndoDoneIs DEF PendInv, Clear, Excused, Around, Staging, Active, Follows, Free
<1>30. ASSUME WriteIndex PROVE PendInv'
  BY <1>30 DEF WriteIndex, PendInv, Recovering, Clear, Excused, Early, Staging
<1>31. ASSUME FinishDone PROVE PendInv'
  BY <1>31 DEF FinishDone, PendInv, Recovering, Clear, Excused, Staging, Free
<1>32. ASSUME NEW took \in BOOLEAN, NEW seen \in BOOLEAN, WriteIndexFails(took, seen)
       PROVE  PendInv'
  BY <1>32 DEF WriteIndexFails, PendInv, Recovering, Clear, Excused, Staging, Free
<1>33. ASSUME NEW force \in BOOLEAN, Refresh(force) PROVE PendInv'
  BY <1>33 DEF Refresh, PendInv, Clear, Excused
<1>34. ASSUME NEW i \in Item, PassOver(i) PROVE PendInv'
  BY <1>34 DEF PassOver, PendInv, Recovering, Clear, Excused
<1>35. ASSUME NEW i \in Item, Look(i) PROVE PendInv'
  <2>1. there' \subseteq there /\ UNCHANGED <<pending, manifest, op>>
    BY <1>35, LookIs
  <2>2. \A a \in pending : Clear(a[1])' => Clear(a[1])
    BY <1>35, LookIs DEF Clear, Excused
  <2> QED
    BY <2>1, <2>2 DEF PendInv
<1>36. ASSUME LinkPng PROVE PendInv'
  BY <1>36, LinkPngIs DEF PendInv, RfInv, Recovering, Clear, Excused, Around
<1>37. ASSUME WriteJson PROVE PendInv'
  BY <1>37, WriteJsonIs DEF PendInv, RfInv, Recovering, Clear, Excused, Around
<1>38. ASSUME CommitSave PROVE PendInv'
  BY <1>38, CommitSaveIs DEF PendInv, Clear, Excused
<1>39. ASSUME RecoveryFails PROVE PendInv'
  BY <1>39, BackIs DEF RecoveryFails, PendInv, Clear, Excused
<1>40. ASSUME ScanDone PROVE PendInv'
  BY <1>40 DEF ScanDone, PendInv, Clear, Excused
<1>41. ASSUME Merge PROVE PendInv'
  BY <1>41 DEF Merge, PendInv, Recovering, Clear, Excused, SetIndex
<1>42. ASSUME MarkMerged PROVE PendInv'
  BY <1>42 DEF MarkMerged, PendInv, Clear, Excused
<1>43. ASSUME DamageIndex PROVE PendInv'
  BY <1>43 DEF DamageIndex, PendInv, Clear, Excused
<1>44. ASSUME Crash PROVE PendInv'
  BY <1>44 DEF Crash, PendInv, Recovering, Clear, Excused, Staging, Targets, Free
<1>45. ASSUME UNCHANGED vars PROVE PendInv'
  BY <1>45 DEF PendInv, Clear, Excused
<1> QED
  BY <1>1, <1>2, <1>3, <1>4, <1>5, <1>6, <1>7, <1>8, <1>9, <1>10, <1>11, <1>12, <1>13,
     <1>14, <1>15, <1>16, <1>17, <1>18, <1>19, <1>20, <1>21, <1>22, <1>23, <1>24, <1>25,
     <1>26, <1>27, <1>28, <1>29, <1>30, <1>31, <1>32, <1>33, <1>34, <1>35, <1>36, <1>37,
     <1>38, <1>39, <1>40, <1>41, <1>42, <1>43, <1>44, <1>45 DEF Next, SaveNext,
     RemovalNext, RefreshNext

\* Every action keeps the account a removal gives of its items.
LEMMA StepOpInv == IndInv /\ [Next]_vars => OpInv'
<1> SUFFICES ASSUME IndInv, [Next]_vars PROVE OpInv'
  OBVIOUS
<1> USE SavedAssumption, NoneAssumption, BoundsAssumption DEF IndInv, vars, files, ghosts,
     OthersRest, SavesRest, RemovalsRest, Goto, Owns, Fault, FilesOf, Artifact, File
<1>0. This' = This \/ op'.item # op.item \/ op'.next # op.next
  BY SameFile
<1>1. ASSUME NEW i \in Item, WriteTemp(i) PROVE OpInv'
  BY <1>1, <1>0 DEF WriteTemp, OpInv, Clear, Excused
<1>2. ASSUME NEW i \in Item, PublishMarker(i) PROVE OpInv'
  <2>1. UNCHANGED <<op, manifest, beside, crossed>> /\ This' = This
    BY <1>2, <1>0, SameFile DEF PublishMarker
  <2>2. op.step \in {"manifest", "rename"} /\ Clear(op.item) => op.item # i
    BY <1>2, <1>0 DEF PublishMarker, OpInv, SaveInv, SaveOf, Early, Targets
  <2>3. there' = there \cup {<<i, "marker">>}
    BY <1>2, <1>0 DEF PublishMarker
  <2> QED
    BY <2>1, <2>2, <2>3 DEF OpInv, Clear, Excused
<1>3. ASSUME NEW i \in Item, Register(i) PROVE OpInv'
  BY <1>3, <1>0 DEF Register, OpInv, Clear, Excused
<1>4. ASSUME NEW i \in Item, PublishPng(i) PROVE OpInv'
  BY <1>4, <1>0 DEF PublishPng, OpInv, Clear, Excused
<1>5. ASSUME NEW i \in Item, PublishJson(i) PROVE OpInv'
  BY <1>5, <1>0 DEF PublishJson, OpInv, Clear, Excused
<1>6. ASSUME NEW i \in Item, CommitMarker(i) PROVE OpInv'
  BY <1>6, <1>0 DEF CommitMarker, OpInv, Clear, Excused
<1>7. ASSUME NEW i \in Item, PublishFails(i) PROVE OpInv'
  BY <1>7, <1>0 DEF PublishFails, OpInv, Clear, Excused
<1>8. ASSUME NEW i \in Item, NEW f \in File, Remove(i, f) PROVE OpInv'
  BY <1>8, <1>0 DEF Remove, OpInv, Clear, Excused
<1>9. ASSUME NEW i \in Item, NEW f \in File, RemoveFails(i, f) PROVE OpInv'
  BY <1>9, <1>0 DEF RemoveFails, OpInv, Clear, Excused
<1>10. ASSUME NEW i \in Item, RemoveTemp(i) PROVE OpInv'
  BY <1>10, <1>0 DEF RemoveTemp, OpInv, Clear, Excused
<1>11. ASSUME NEW i \in Item, Upsert(i) PROVE OpInv'
  BY <1>11, <1>0 DEF Upsert, OpInv, LockFree
<1>12. ASSUME NEW i \in Item, Reject(i) PROVE OpInv'
  BY <1>12, <1>0 DEF Reject, OpInv, Clear, Excused, LockFree
<1>13. ASSUME NEW i \in Item, UpsertFails(i) PROVE OpInv'
  BY <1>13, <1>0 DEF UpsertFails, OpInv, LockFree
<1>14. ASSUME NEW i \in Item, MarkIndexed(i) PROVE OpInv'
  BY <1>14, <1>0 DEF MarkIndexed, OpInv, Clear, Excused
<1>15. ASSUME NEW i \in Item, Delete(i) PROVE OpInv'
  BY <1>15, <1>0 DEF Delete, OpInv, Start, Free
<1>16. ASSUME NEW targets \in SUBSET Item, Clean(targets) PROVE OpInv'
  BY <1>16, <1>0 DEF Clean, OpInv, Start, Free
<1>17. ASSUME Settle PROVE OpInv'
  BY <1>17, <1>0 DEF Settle, OpInv, Start, Free
<1>18. ASSUME NEW a \in op.todo, RecoverOne(a) PROVE OpInv'
  BY <1>18, <1>0 DEF RecoverOne, OpInv, TypeOK, OpRecord
<1>19. ASSUME NEW a \in op.todo, Undo(a) PROVE OpInv'
  BY <1>19, <1>0, UndoIs DEF OpInv, OpRecord
<1>20. ASSUME NEW a \in op.todo, UndoFails(a) PROVE OpInv'
  BY <1>20, <1>0 DEF UndoFails, OpInv
<1>21. ASSUME NEW a \in op.todo, Finish(a) PROVE OpInv'
  BY <1>21, <1>0 DEF Finish, OpInv, TypeOK, OpRecord
<1>22. ASSUME NEW a \in op.todo, FinishFails(a) PROVE OpInv'
  BY <1>22, <1>0 DEF FinishFails, OpInv
<1>23. ASSUME RecoverFails PROVE OpInv'
  BY <1>23, <1>0 DEF RecoverFails, OpInv, Free
<1>24. ASSUME RecoverDone PROVE OpInv'
  <2>1. op.staged = {} /\ op.done = {}
    BY <1>24, <1>0, RecoverDoneIs DEF OpInv
  <2>2. CASE op' = Free
    BY <2>2 DEF OpInv, Free, Staging
  <2>3. CASE op' # Free
    <3>1. /\ op' \in OpRecord /\ op'.staged = {} /\ op'.done = {}
          /\ \/ /\ op'.step = "manifest" /\ op'.item \in Item /\ op'.item \notin op'.left
                /\ op'.next = File
             \/ op'.step = "write" /\ op'.item = None /\ op'.left = {}
      BY <1>24, <1>0, <2>1, <2>3, RecoverDoneIs DEF TypeOK, OpRecord
    <3> QED
      BY <3>1 DEF OpInv, Staging, File
  <2> QED
    BY <2>2, <2>3
<1>25. ASSUME WriteManifest PROVE OpInv'
  BY <1>25, <1>0, WriteManifestIs DEF OpInv, TypeOK, OpRecord, OpStep, Recovering, Clear,
     Excused, Early, Around, Staging, Past
<1>26. ASSUME RenameAway PROVE OpInv'
  BY <1>26, <1>0, RenameAwayIs DEF OpInv, TypeOK, OpRecord, OpStep, Recovering, Clear,
     Excused, Early, Around, Staging, Past
<1>27. ASSUME RenameAwayFails PROVE OpInv'
  BY <1>27, <1>0, StagingFailsIs DEF OpInv, OpRecord, RfRecord, Staging
<1>28. ASSUME StageFails PROVE OpInv'
  BY <1>28, <1>0, StagingFailsIs DEF OpInv, OpRecord, RfRecord, Staging
<1>29. ASSUME UndoDone PROVE OpInv'
  BY <1>29, <1>0, UndoDoneIs DEF OpInv, TypeOK, OpRecord, RfRecord, Staging, Targets,
     Follows, Free
<1>30. ASSUME WriteIndex PROVE OpInv'
  BY <1>30, <1>0 DEF WriteIndex, OpInv, Staging
<1>31. ASSUME FinishDone PROVE OpInv'
  BY <1>31, <1>0 DEF FinishDone, OpInv, Free
<1>32. ASSUME NEW took \in BOOLEAN, NEW seen \in BOOLEAN, WriteIndexFails(took, seen)
       PROVE  OpInv'
  BY <1>32, <1>0 DEF WriteIndexFails, OpInv, Staging, Free
<1>33. ASSUME NEW force \in BOOLEAN, Refresh(force) PROVE OpInv'
  BY <1>33, <1>0 DEF Refresh, OpInv, Clear, Excused
<1>34. ASSUME NEW i \in Item, PassOver(i) PROVE OpInv'
  BY <1>34, <1>0 DEF PassOver, OpInv, Recovering, Clear, Excused
<1>35. ASSUME NEW i \in Item, Look(i) PROVE OpInv'
  <2>1. there' \subseteq there /\ UNCHANGED <<manifest, op>> /\ This' = This
    BY <1>35, <1>0, LookIs, SameFile
  <2>2. \A k \in Item : Clear(k)' => Clear(k)
    BY <1>35, <1>0, LookIs DEF Clear, Excused
  <2> QED
    BY <2>1, <2>2 DEF OpInv, Staging
<1>36. ASSUME LinkPng PROVE OpInv'
  BY <1>36, <1>0, LinkPngIs DEF OpInv, Clear, Excused
<1>37. ASSUME WriteJson PROVE OpInv'
  BY <1>37, <1>0, WriteJsonIs DEF OpInv, Clear, Excused
<1>38. ASSUME CommitSave PROVE OpInv'
  BY <1>38, <1>0, CommitSaveIs DEF OpInv, Clear, Excused
<1>39. ASSUME RecoveryFails PROVE OpInv'
  BY <1>39, <1>0, BackIs DEF RecoveryFails, OpInv, Clear, Excused
<1>40. ASSUME ScanDone PROVE OpInv'
  BY <1>40, <1>0 DEF ScanDone, OpInv, Clear, Excused
<1>41. ASSUME Merge PROVE OpInv'
  BY <1>41, <1>0 DEF Merge, OpInv, Recovering, LockFree
<1>42. ASSUME MarkMerged PROVE OpInv'
  BY <1>42, <1>0 DEF MarkMerged, OpInv, Clear, Excused
<1>43. ASSUME DamageIndex PROVE OpInv'
  BY <1>43, <1>0 DEF DamageIndex, OpInv, Clear, Excused
<1>44. ASSUME Crash PROVE OpInv'
  BY <1>44, <1>0 DEF Crash, OpInv, Free
<1>45. ASSUME UNCHANGED vars PROVE OpInv'
  BY <1>45, <1>0 DEF OpInv, Clear, Excused
<1> QED
  BY <1>1, <1>2, <1>3, <1>4, <1>5, <1>6, <1>7, <1>8, <1>9, <1>10, <1>11, <1>12, <1>13,
     <1>14, <1>15, <1>16, <1>17, <1>18, <1>19, <1>20, <1>21, <1>22, <1>23, <1>24, <1>25,
     <1>26, <1>27, <1>28, <1>29, <1>30, <1>31, <1>32, <1>33, <1>34, <1>35, <1>36, <1>37,
     <1>38, <1>39, <1>40, <1>41, <1>42, <1>43, <1>44, <1>45 DEF Next, SaveNext,
     RemovalNext, RefreshNext

\* Every action keeps what a refresh knows of the digest it is at.
LEMMA StepRfInv == IndInv /\ [Next]_vars => RfInv'
<1> SUFFICES ASSUME IndInv, [Next]_vars PROVE RfInv'
  OBVIOUS
<1> USE SavedAssumption, NoneAssumption, BoundsAssumption DEF IndInv, vars, files, ghosts,
     OthersRest, SavesRest, RemovalsRest, Goto, Owns, Fault, FilesOf, Artifact, File
<1>1. ASSUME NEW i \in Item, WriteTemp(i) PROVE RfInv'
  BY <1>1 DEF WriteTemp, RfInv, SaveOf, OwnOf, SaveInv, OwnInv, PendInv, TypeOK, OpRecord,
     RfRecord, SaveStep, OpStep, Recovering, Clear, Excused, Early, Around, Staging,
     Targets, Active
<1>2. ASSUME NEW i \in Item, PublishMarker(i) PROVE RfInv'
  BY <1>2 DEF PublishMarker, RfInv, Recovering, Clear, Excused, Around
<1>3. ASSUME NEW i \in Item, Register(i) PROVE RfInv'
  BY <1>3 DEF Register, RfInv, Recovering, Clear, Excused, Around
<1>4. ASSUME NEW i \in Item, PublishPng(i) PROVE RfInv'
  BY <1>4 DEF PublishPng, RfInv, TypeOK, SaveStep, OpStep, Recovering, Clear, Excused,
     Early, Around
<1>5. ASSUME NEW i \in Item, PublishJson(i) PROVE RfInv'
  BY <1>5 DEF PublishJson, RfInv, Recovering, Clear, Excused, Around
<1>6. ASSUME NEW i \in Item, CommitMarker(i) PROVE RfInv'
  BY <1>6 DEF CommitMarker, RfInv, Recovering, Clear, Excused, Around
<1>7. ASSUME NEW i \in Item, PublishFails(i) PROVE RfInv'
  BY <1>7 DEF PublishFails, RfInv, Recovering, Clear, Excused, Around, Active
<1>8. ASSUME NEW i \in Item, NEW f \in File, Remove(i, f) PROVE RfInv'
  BY <1>8 DEF Remove, RfInv, Recovering, Clear, Excused, Around
<1>9. ASSUME NEW i \in Item, NEW f \in File, RemoveFails(i, f) PROVE RfInv'
  BY <1>9 DEF RemoveFails, RfInv, Recovering, Clear, Excused, Around
<1>10. ASSUME NEW i \in Item, RemoveTemp(i) PROVE RfInv'
  BY <1>10 DEF RemoveTemp, RfInv, Recovering, Clear, Excused, Around
<1>11. ASSUME NEW i \in Item, Upsert(i) PROVE RfInv'
  BY <1>11 DEF Upsert, RfInv, Recovering, Clear, Excused, Early, Around, Enter
<1>12. ASSUME NEW i \in Item, Reject(i) PROVE RfInv'
  BY <1>12 DEF Reject, RfInv, Recovering, Clear, Excused, Early, Around, SetIndex
<1>13. ASSUME NEW i \in Item, UpsertFails(i) PROVE RfInv'
  BY <1>13 DEF UpsertFails, RfInv, Recovering, Clear, Excused, Early, Around, Enter
<1>14. ASSUME NEW i \in Item, MarkIndexed(i) PROVE RfInv'
  BY <1>14 DEF MarkIndexed, RfInv, Recovering, Clear, Excused, Around
<1>15. ASSUME NEW i \in Item, Delete(i) PROVE RfInv'
  BY <1>15 DEF Delete, RfInv, Recovering, Clear, Excused, Early, Around, Saving, SetIndex
<1>16. ASSUME NEW targets \in SUBSET Item, Clean(targets) PROVE RfInv'
  BY <1>16 DEF Clean, RfInv, Recovering, Clear, Excused, Early, Around
<1>17. ASSUME Settle PROVE RfInv'
  BY <1>17 DEF Settle, RfInv, Recovering, Clear, Excused, Around
<1>18. ASSUME NEW a \in op.todo, RecoverOne(a) PROVE RfInv'
  BY <1>18 DEF RecoverOne, RfInv, Recovering, Clear, Excused, Around
<1>19. ASSUME NEW a \in op.todo, Undo(a) PROVE RfInv'
  BY <1>19, UndoIs DEF RfInv, Recovering, Clear, Excused, Around
<1>20. ASSUME NEW a \in op.todo, UndoFails(a) PROVE RfInv'
  BY <1>20 DEF UndoFails, RfInv, Recovering, Clear, Excused, Around
<1>21. ASSUME NEW a \in op.todo, Finish(a) PROVE RfInv'
  BY <1>21 DEF Finish, RfInv, Recovering, Clear, Excused, Around
<1>22. ASSUME NEW a \in op.todo, FinishFails(a) PROVE RfInv'
  BY <1>22 DEF FinishFails, RfInv, Recovering, Clear, Excused, Around
<1>23. ASSUME RecoverFails PROVE RfInv'
  BY <1>23 DEF RecoverFails, RfInv, Recovering, Clear, Excused, Around
<1>24. ASSUME RecoverDone PROVE RfInv'
  BY <1>24, RecoverDoneIs DEF RfInv, SaveOf, OwnOf, SaveInv, OwnInv, PendInv, TypeOK,
     OpRecord, RfRecord, SaveStep, OpStep, Recovering, Clear, Excused, Early, Around,
     Staging, Targets, HasJson, Listed, Saving, SetIndex, Active, Free
<1>25. ASSUME WriteManifest PROVE RfInv'
  BY <1>25, WriteManifestIs DEF RfInv, Recovering, Clear, Excused, Around
<1>26. ASSUME RenameAway PROVE RfInv'
  BY <1>26, RenameAwayIs DEF RfInv, Recovering, Clear, Excused, Around
<1>27. ASSUME RenameAwayFails PROVE RfInv'
  BY <1>27, StagingFailsIs DEF RfInv, Recovering, Clear, Excused, Around
<1>28. ASSUME StageFails PROVE RfInv'
  BY <1>28, StagingFailsIs DEF RfInv, Recovering, Clear, Excused, Around
<1>29. ASSUME UndoDone PROVE RfInv'
  BY <1>29, UndoDoneIs DEF RfInv, Recovering, Clear, Excused, Around
<1>30. ASSUME WriteIndex PROVE RfInv'
  BY <1>30 DEF WriteIndex, RfInv, Recovering, Clear, Excused, Around
<1>31. ASSUME FinishDone PROVE RfInv'
  BY <1>31 DEF FinishDone, RfInv, Recovering, Clear, Excused, Around
<1>32. ASSUME NEW took \in BOOLEAN, NEW seen \in BOOLEAN, WriteIndexFails(took, seen)
       PROVE  RfInv'
  BY <1>32 DEF WriteIndexFails, RfInv, Recovering, Clear, Excused, Around
<1>33. ASSUME NEW force \in BOOLEAN, Refresh(force) PROVE RfInv'
  BY <1>33 DEF Refresh, RfInv, Recovering
<1>34. ASSUME NEW i \in Item, PassOver(i) PROVE RfInv'
  BY <1>34 DEF Skip, PassOver, RfInv, Recovering
<1>35. ASSUME NEW i \in Item, Look(i) PROVE RfInv'
  <2>1. Clear(i)' =>
           save[i] = "over" /\ (mark[i] = "prepared" => \A f \in File : <<i, f>> \notin pending)
    BY <1>35, LookClear
  <2>2. Recovering' => rf'.item = i /\ there' = there
    BY <1>35, LookIs DEF Recovering
  <2> QED
    BY <1>35, <2>1, <2>2, LookIs DEF RfInv, Around
<1>36. ASSUME LinkPng PROVE RfInv'
  BY <1>36, LinkPngIs DEF RfInv, Recovering, Clear, Excused, Around
<1>37. ASSUME WriteJson PROVE RfInv'
  BY <1>37, WriteJsonIs DEF RfInv, Recovering, Clear, Excused
<1>38. ASSUME CommitSave PROVE RfInv'
  BY <1>38, CommitSaveIs DEF RfInv, Recovering
<1>39. ASSUME RecoveryFails PROVE RfInv'
  BY <1>39, BackIs DEF RecoveryFails, RfInv, Recovering, GoesOn
<1>40. ASSUME ScanDone PROVE RfInv'
  BY <1>40 DEF ScanDone, RfInv, Recovering
<1>41. ASSUME Merge PROVE RfInv'
  BY <1>41 DEF Merge, RfInv, Recovering, Rest
<1>42. ASSUME MarkMerged PROVE RfInv'
  BY <1>42 DEF MarkMerged, RfInv, Recovering, Rest
<1>43. ASSUME DamageIndex PROVE RfInv'
  BY <1>43 DEF DamageIndex, RfInv, Recovering, Clear, Excused, Around
<1>44. ASSUME Crash PROVE RfInv'
  BY <1>44 DEF Crash, RfInv, Recovering, Rest
<1>45. ASSUME UNCHANGED vars PROVE RfInv'
  BY <1>45 DEF RfInv, Recovering, Clear, Excused, Around
<1> QED
  BY <1>1, <1>2, <1>3, <1>4, <1>5, <1>6, <1>7, <1>8, <1>9, <1>10, <1>11, <1>12, <1>13,
     <1>14, <1>15, <1>16, <1>17, <1>18, <1>19, <1>20, <1>21, <1>22, <1>23, <1>24, <1>25,
     <1>26, <1>27, <1>28, <1>29, <1>30, <1>31, <1>32, <1>33, <1>34, <1>35, <1>36, <1>37,
     <1>38, <1>39, <1>40, <1>41, <1>42, <1>43, <1>44, <1>45 DEF Next, SaveNext,
     RemovalNext, RefreshNext

\* The index is damaged only where that is noted.
LEMMA StepLostInv == IndInv /\ [Next]_vars => LostInv'
<1> SUFFICES ASSUME IndInv, [Next]_vars PROVE LostInv'
  OBVIOUS
<1> USE SavedAssumption, NoneAssumption, BoundsAssumption DEF IndInv, vars, files, ghosts,
     OthersRest, SavesRest, RemovalsRest, Goto, Owns, Fault, FilesOf, Artifact, File
<1>1. ASSUME NEW i \in Item, WriteTemp(i) PROVE LostInv'
  BY <1>1 DEF WriteTemp, LostInv, TypeOK, OpRecord, RfRecord, SaveStep, OpStep, Active
<1>2. ASSUME NEW i \in Item, PublishMarker(i) PROVE LostInv'
  BY <1>2 DEF PublishMarker, LostInv
<1>3. ASSUME NEW i \in Item, Register(i) PROVE LostInv'
  BY <1>3 DEF Register, LostInv
<1>4. ASSUME NEW i \in Item, PublishPng(i) PROVE LostInv'
  BY <1>4 DEF PublishPng, LostInv
<1>5. ASSUME NEW i \in Item, PublishJson(i) PROVE LostInv'
  BY <1>5 DEF PublishJson, LostInv
<1>6. ASSUME NEW i \in Item, CommitMarker(i) PROVE LostInv'
  BY <1>6 DEF CommitMarker, LostInv
<1>7. ASSUME NEW i \in Item, PublishFails(i) PROVE LostInv'
  BY <1>7 DEF PublishFails, LostInv
<1>8. ASSUME NEW i \in Item, NEW f \in File, Remove(i, f) PROVE LostInv'
  BY <1>8 DEF Remove, LostInv
<1>9. ASSUME NEW i \in Item, NEW f \in File, RemoveFails(i, f) PROVE LostInv'
  BY <1>9 DEF RemoveFails, LostInv
<1>10. ASSUME NEW i \in Item, RemoveTemp(i) PROVE LostInv'
  BY <1>10 DEF RemoveTemp, LostInv
<1>11. ASSUME NEW i \in Item, Upsert(i) PROVE LostInv'
  BY <1>11 DEF Upsert, LostInv, Enter
<1>12. ASSUME NEW i \in Item, Reject(i) PROVE LostInv'
  BY <1>12 DEF Reject, LostInv, SetIndex
<1>13. ASSUME NEW i \in Item, UpsertFails(i) PROVE LostInv'
  BY <1>13 DEF UpsertFails, LostInv, Enter
<1>14. ASSUME NEW i \in Item, MarkIndexed(i) PROVE LostInv'
  BY <1>14 DEF MarkIndexed, LostInv
<1>15. ASSUME NEW i \in Item, Delete(i) PROVE LostInv'
  BY <1>15 DEF Delete, LostInv, TypeOK, Saving, SetIndex, Start
<1>16. ASSUME NEW targets \in SUBSET Item, Clean(targets) PROVE LostInv'
  BY <1>16 DEF Clean, LostInv, TypeOK, Start
<1>17. ASSUME Settle PROVE LostInv'
  BY <1>17 DEF Settle, LostInv, TypeOK, OpRecord, Start
<1>18. ASSUME NEW a \in op.todo, RecoverOne(a) PROVE LostInv'
  BY <1>18 DEF RecoverOne, LostInv, TypeOK, OpRecord, RfRecord
<1>19. ASSUME NEW a \in op.todo, Undo(a) PROVE LostInv'
  BY <1>19, UndoIs DEF LostInv
<1>20. ASSUME NEW a \in op.todo, UndoFails(a) PROVE LostInv'
  BY <1>20 DEF UndoFails, LostInv
<1>21. ASSUME NEW a \in op.todo, Finish(a) PROVE LostInv'
  BY <1>21 DEF Finish, LostInv, TypeOK, OpRecord, RfRecord
<1>22. ASSUME NEW a \in op.todo, FinishFails(a) PROVE LostInv'
  BY <1>22 DEF FinishFails, LostInv
<1>23. ASSUME RecoverFails PROVE LostInv'
  BY <1>23 DEF RecoverFails, LostInv, Free
<1>24. ASSUME RecoverDone PROVE LostInv'
  <2>1. damaged' => damaged
    BY <1>24, RecoverDoneIs DEF SetIndex
  <2>2. ~op'.blind
    BY <1>24, RecoverDoneIs DEF Free
  <2>3. lost' = lost
    BY <1>24, RecoverDoneIs
  <2> QED
    BY <2>1, <2>2, <2>3 DEF LostInv
<1>25. ASSUME WriteManifest PROVE LostInv'
  BY <1>25, WriteManifestIs DEF LostInv, Active, Past
<1>26. ASSUME RenameAway PROVE LostInv'
  BY <1>26, RenameAwayIs DEF LostInv, Active, Past
<1>27. ASSUME RenameAwayFails PROVE LostInv'
  BY <1>27, StagingFailsIs DEF LostInv
<1>28. ASSUME StageFails PROVE LostInv'
  BY <1>28, StagingFailsIs DEF LostInv
<1>29. ASSUME UndoDone PROVE LostInv'
  BY <1>29, UndoDoneIs DEF LostInv, Follows, Free
<1>30. ASSUME WriteIndex PROVE LostInv'
  BY <1>30 DEF WriteIndex, LostInv
<1>31. ASSUME FinishDone PROVE LostInv'
  BY <1>31 DEF FinishDone, LostInv, Free
<1>32. ASSUME NEW took \in BOOLEAN, NEW seen \in BOOLEAN, WriteIndexFails(took, seen)
       PROVE  LostInv'
  BY <1>32 DEF WriteIndexFails, LostInv, TypeOK, Free
<1>33. ASSUME NEW force \in BOOLEAN, Refresh(force) PROVE LostInv'
  BY <1>33 DEF Refresh, LostInv
<1>34. ASSUME NEW i \in Item, PassOver(i) PROVE LostInv'
  BY <1>34 DEF PassOver, LostInv
<1>35. ASSUME NEW i \in Item, Look(i) PROVE LostInv'
  BY <1>35, LookIs DEF LostInv, TypeOK, OpRecord, RfRecord, SaveStep, OpStep, Saving,
     Active
<1>36. ASSUME LinkPng PROVE LostInv'
  BY <1>36, LinkPngIs DEF LostInv
<1>37. ASSUME WriteJson PROVE LostInv'
  BY <1>37, WriteJsonIs DEF LostInv
<1>38. ASSUME CommitSave PROVE LostInv'
  BY <1>38, CommitSaveIs DEF LostInv
<1>39. ASSUME RecoveryFails PROVE LostInv'
  BY <1>39, BackIs DEF RecoveryFails, LostInv
<1>40. ASSUME ScanDone PROVE LostInv'
  BY <1>40 DEF ScanDone, LostInv
<1>41. ASSUME Merge PROVE LostInv'
  BY <1>41 DEF Merge, LostInv, SetIndex
<1>42. ASSUME MarkMerged PROVE LostInv'
  BY <1>42 DEF MarkMerged, LostInv
<1>43. ASSUME DamageIndex PROVE LostInv'
  BY <1>43 DEF DamageIndex, LostInv
<1>44. ASSUME Crash PROVE LostInv'
  BY <1>44 DEF Crash, LostInv, Free
<1>45. ASSUME UNCHANGED vars PROVE LostInv'
  BY <1>45 DEF LostInv
<1> QED
  BY <1>1, <1>2, <1>3, <1>4, <1>5, <1>6, <1>7, <1>8, <1>9, <1>10, <1>11, <1>12, <1>13,
     <1>14, <1>15, <1>16, <1>17, <1>18, <1>19, <1>20, <1>21, <1>22, <1>23, <1>24, <1>25,
     <1>26, <1>27, <1>28, <1>29, <1>30, <1>31, <1>32, <1>33, <1>34, <1>35, <1>36, <1>37,
     <1>38, <1>39, <1>40, <1>41, <1>42, <1>43, <1>44, <1>45 DEF Next, SaveNext,
     RemovalNext, RefreshNext

\* Every action keeps files, marker and index of a digest in agreement.
LEMMA StepDiskInv == IndInv /\ [Next]_vars => DiskInv'
<1> SUFFICES ASSUME IndInv, [Next]_vars, NEW j \in Item, Clear(j)', ~lost' PROVE DiskOf(j)'
  BY DEF DiskInv
<1> USE SavedAssumption, NoneAssumption, BoundsAssumption DEF IndInv, vars, files, ghosts,
     OthersRest, SavesRest, RemovalsRest, Goto, Owns, Fault, FilesOf, Artifact, File
<1>0. Clear(j) /\ SaveOf(j) /\ OwnOf(j)
  BY StepGrows DEF Grows, Clear, Excused, SaveInv, OwnInv
<1>1. ASSUME NEW i \in Item, WriteTemp(i) PROVE DiskOf(j)'
  BY <1>1, <1>0 DEF WriteTemp, DiskOf, DiskInv, Around
<1>2. ASSUME NEW i \in Item, PublishMarker(i) PROVE DiskOf(j)'
  BY <1>2, <1>0 DEF PublishMarker, DiskOf, DiskInv, LostInv, SaveOf, Excused, Early,
     Around
<1>3. ASSUME NEW i \in Item, Register(i) PROVE DiskOf(j)'
  BY <1>3, <1>0 DEF Register, DiskOf, DiskInv, Around
<1>4. ASSUME NEW i \in Item, PublishPng(i) PROVE DiskOf(j)'
  BY <1>4, <1>0 DEF PublishPng, DiskOf, DiskInv, LostInv, SaveOf, OwnOf, SaveInv, TypeOK,
     Excused, Early, Around
<1>5. ASSUME NEW i \in Item, PublishJson(i) PROVE DiskOf(j)'
  BY <1>5, <1>0 DEF PublishJson, DiskOf, DiskInv, LostInv, SaveOf, Excused, Early, Around
<1>6. ASSUME NEW i \in Item, CommitMarker(i) PROVE DiskOf(j)'
  BY <1>6, <1>0 DEF CommitMarker, DiskOf, DiskInv, Around
<1>7. ASSUME NEW i \in Item, PublishFails(i) PROVE DiskOf(j)'
  BY <1>7, <1>0 DEF PublishFails, DiskOf, DiskInv, Around
<1>8. ASSUME NEW i \in Item, NEW f \in File, Remove(i, f) PROVE DiskOf(j)'
  BY <1>8, <1>0 DEF Remove, DiskOf, DiskInv, LostInv, SaveOf, Excused, Early, Around
<1>9. ASSUME NEW i \in Item, NEW f \in File, RemoveFails(i, f) PROVE DiskOf(j)'
  BY <1>9, <1>0 DEF RemoveFails, DiskOf, DiskInv, Around
<1>10. ASSUME NEW i \in Item, RemoveTemp(i) PROVE DiskOf(j)'
  BY <1>10, <1>0 DEF RemoveTemp, DiskOf, DiskInv, LostInv, SaveOf, Excused, Early, Around
<1>11. ASSUME NEW i \in Item, Upsert(i) PROVE DiskOf(j)'
  BY <1>11, <1>0 DEF Upsert, DiskOf, DiskInv, LostInv, SaveOf, OwnOf, SaveInv, TypeOK,
     OpRecord, Clear, Excused, Early, Around, Listed, Saving, Enter, Active
<1>12. ASSUME NEW i \in Item, Reject(i) PROVE DiskOf(j)'
  BY <1>12, <1>0 DEF Reject, DiskOf, DiskInv, LostInv, Recovering, Early, Around, Staging,
     HasJson, Listed, Saving, SetIndex, Active
<1>13. ASSUME NEW i \in Item, UpsertFails(i) PROVE DiskOf(j)'
  BY <1>13, <1>0 DEF UpsertFails, DiskOf, DiskInv, LostInv, SaveOf, OwnOf, SaveInv,
     TypeOK, OpRecord, Clear, Excused, Early, Around, Listed, Saving, Enter, Active
<1>14. ASSUME NEW i \in Item, MarkIndexed(i) PROVE DiskOf(j)'
  BY <1>14, <1>0 DEF MarkIndexed, DiskOf, DiskInv, LostInv, SaveOf, OwnOf, SaveInv,
     TypeOK, Around
<1>15. ASSUME NEW i \in Item, Delete(i) PROVE DiskOf(j)'
  BY <1>15, <1>0 DEF Delete, DiskOf, DiskInv, LostInv, Early, Around, Staging, Listed,
     Saving, SetIndex
<1>16. ASSUME NEW targets \in SUBSET Item, Clean(targets) PROVE DiskOf(j)'
  BY <1>16, <1>0 DEF Clean, DiskOf, DiskInv, LostInv, Recovering, Early, Around
<1>17. ASSUME Settle PROVE DiskOf(j)'
  BY <1>17, <1>0 DEF Settle, DiskOf, DiskInv, Around
<1>18. ASSUME NEW a \in op.todo, RecoverOne(a) PROVE DiskOf(j)'
  BY <1>18, <1>0 DEF RecoverOne, DiskOf, DiskInv, LostInv, Around
<1>19. ASSUME NEW a \in op.todo, Undo(a) PROVE DiskOf(j)'
  BY <1>19, <1>0, UndoIs DEF DiskOf, DiskInv, LostInv, SaveOf, OwnOf, RfInv, TargetInv,
     FoundInv, TypeOK, Around, Staging
<1>20. ASSUME NEW a \in op.todo, UndoFails(a) PROVE DiskOf(j)'
  BY <1>20, <1>0 DEF UndoFails, DiskOf, DiskInv, Around
<1>21. ASSUME NEW a \in op.todo, Finish(a) PROVE DiskOf(j)'
  BY <1>21, <1>0 DEF Finish, DiskOf, DiskInv, LostInv, SaveOf, OwnOf, RfInv, TargetInv,
     FoundInv, TypeOK, Around, Staging, Targets, Active
<1>22. ASSUME NEW a \in op.todo, FinishFails(a) PROVE DiskOf(j)'
  BY <1>22, <1>0 DEF FinishFails, DiskOf, DiskInv, Around
<1>23. ASSUME RecoverFails PROVE DiskOf(j)'
  BY <1>23, <1>0 DEF RecoverFails, DiskOf, DiskInv, Around
<1>24. ASSUME RecoverDone PROVE DiskOf(j)'
  BY <1>24, <1>0, RecoverDoneIs DEF DiskOf, DiskInv, LostInv, SaveOf, OwnOf, SaveInv,
     OwnInv, PendInv, OpInv, RfInv, TargetInv, FoundInv, TypeOK, OpRecord, RfRecord,
     SaveStep, OpStep, Recovering, Clear, Excused, Early, Around, Staging, Targets,
     HasJson, Listed, Saving, SetIndex, Active, Free
<1>25. ASSUME WriteManifest PROVE DiskOf(j)'
  BY <1>25, <1>0, WriteManifestIs DEF DiskOf, DiskInv, Around
<1>26. ASSUME RenameAway PROVE DiskOf(j)'
  BY <1>26, <1>0, RenameAwayIs DEF DiskOf, DiskInv, TargetInv, FoundInv, TypeOK, OpRecord,
     Clear, Excused, Early, Around, Staging, Targets
<1>27. ASSUME RenameAwayFails PROVE DiskOf(j)'
  BY <1>27, <1>0, StagingFailsIs DEF DiskOf, DiskInv, LostInv, SaveOf, OwnOf, RfInv,
     TargetInv, FoundInv, TypeOK, Around, Staging, Targets, Active
<1>28. ASSUME StageFails PROVE DiskOf(j)'
  BY <1>28, <1>0, StagingFailsIs DEF DiskOf, DiskInv, LostInv, SaveOf, OwnOf, RfInv,
     TargetInv, FoundInv, TypeOK, Around, Staging, Targets, Active
<1>29. ASSUME UndoDone PROVE DiskOf(j)'
  BY <1>29, <1>0, UndoDoneIs DEF DiskOf, DiskInv, Around
<1>30. ASSUME WriteIndex PROVE DiskOf(j)'
  BY <1>30, <1>0 DEF WriteIndex, DiskOf, DiskInv, LostInv, SaveOf, OwnOf, RfInv,
     TargetInv, FoundInv, TypeOK, Around, Staging, Targets, Active
<1>31. ASSUME FinishDone PROVE DiskOf(j)'
  BY <1>31, <1>0 DEF FinishDone, DiskOf, DiskInv, Around
<1>32. ASSUME NEW took \in BOOLEAN, NEW seen \in BOOLEAN, WriteIndexFails(took, seen)
       PROVE  DiskOf(j)'
  BY <1>32, <1>0 DEF WriteIndexFails, DiskOf, DiskInv, LostInv, SaveOf, OpInv, RfInv,
     TargetInv, Early, Around
<1>33. ASSUME NEW force \in BOOLEAN, Refresh(force) PROVE DiskOf(j)'
  BY <1>33, <1>0 DEF Refresh, DiskOf, DiskInv, Around
<1>34. ASSUME NEW i \in Item, PassOver(i) PROVE DiskOf(j)'
  BY <1>34, <1>0 DEF PassOver, DiskOf, DiskInv, Around
<1>35. ASSUME NEW i \in Item, Look(i) PROVE DiskOf(j)'
  <2>1. UNCHANGED <<save, index, gone, mark, pending, lost>>
    BY <1>35, <1>0, LookIs
  <2>2. CASE there' = there
    BY <1>35, <1>0, <2>1, <2>2 DEF DiskInv, DiskOf, Around
  <2>3. CASE there' = there \ {<<i, "marker">>} /\ j # i
    BY <1>35, <1>0, <2>1, <2>3 DEF DiskInv, DiskOf, Around
  <2>4. CASE there' # there /\ j = i
    <3>1. /\ <<i, "json">> \notin there /\ <<i, "png">> \notin there /\ mark[i] = "prepared"
          /\ there' = there \ {<<i, "marker">>}
      BY <1>35, <1>0, <2>4, LookIs
    <3>2. \A f \in File : <<i, f>> \notin pending
      BY <1>35, <1>0, <2>4, <3>1, LookClear
    <3>3. \A f \in File : <<i, f>> \notin Around'
      BY <2>1, <3>1, <3>2 DEF Around
    <3> QED
      BY <1>35, <1>0, <2>1, <2>4, <3>1, <3>2, <3>3 DEF DiskInv, DiskOf, Around
  <2> QED
    BY <1>35, <1>0, <2>2, <2>3, <2>4, LookIs
<1>36. ASSUME LinkPng PROVE DiskOf(j)'
  BY <1>36, <1>0, LinkPngIs DEF DiskOf, DiskInv, LostInv, SaveOf, OwnOf, RfInv, TargetInv,
     FoundInv, TypeOK, Recovering, Clear, Excused, Early, Around, Staging
<1>37. ASSUME WriteJson PROVE DiskOf(j)'
  BY <1>37, <1>0, WriteJsonIs DEF DiskOf, DiskInv, Around
<1>38. ASSUME CommitSave PROVE DiskOf(j)'
  BY <1>38, <1>0, CommitSaveIs DEF DiskOf, DiskInv, LostInv, SaveOf, OwnOf, RfInv,
     TargetInv, FoundInv, TypeOK, Recovering, Clear, Excused, Early, Around, Staging
<1>39. ASSUME RecoveryFails PROVE DiskOf(j)'
  BY <1>39, <1>0, BackIs DEF RecoveryFails, DiskOf, DiskInv, Around
<1>40. ASSUME ScanDone PROVE DiskOf(j)'
  BY <1>40, <1>0 DEF ScanDone, DiskOf, DiskInv, Around
<1>41. ASSUME Merge PROVE DiskOf(j)'
  BY <1>41, <1>0 DEF Merge, DiskOf, DiskInv, LostInv, SaveOf, OwnOf, SaveStep, OpStep,
     Recovering, Clear, Excused, Early, Around, Staging, Targets, LockFree, HasJson,
     Listed, Saving, SetIndex, Active, Rest
<1>42. ASSUME MarkMerged PROVE DiskOf(j)'
  BY <1>42, <1>0 DEF MarkMerged, DiskOf, DiskInv, LostInv, SaveOf, OpInv, RfInv,
     TargetInv, FoundInv, TypeOK, Early, Around
<1>43. ASSUME DamageIndex PROVE DiskOf(j)'
  BY <1>43, <1>0 DEF DamageIndex, DiskOf
<1>44. ASSUME Crash PROVE DiskOf(j)'
  BY <1>44, <1>0 DEF Crash, DiskOf, DiskInv, LostInv, SaveOf, OwnOf, SaveInv, TypeOK,
     OpRecord, RfRecord, SaveStep, OpStep, Recovering, Clear, Excused, Early, Around,
     Staging, Targets, Saving, Active, Free, Rest
<1>45. ASSUME UNCHANGED vars PROVE DiskOf(j)'
  BY <1>45, <1>0 DEF DiskOf, DiskInv, Around
<1> QED
  BY <1>1, <1>2, <1>3, <1>4, <1>5, <1>6, <1>7, <1>8, <1>9, <1>10, <1>11, <1>12, <1>13,
     <1>14, <1>15, <1>16, <1>17, <1>18, <1>19, <1>20, <1>21, <1>22, <1>23, <1>24, <1>25,
     <1>26, <1>27, <1>28, <1>29, <1>30, <1>31, <1>32, <1>33, <1>34, <1>35, <1>36, <1>37,
     <1>38, <1>39, <1>40, <1>41, <1>42, <1>43, <1>44, <1>45 DEF Next, SaveNext,
     RemovalNext, RefreshNext

\* A removal stays at digests that are listed.
LEMMA StepTargetInv == IndInv /\ [Next]_vars => TargetInv'
<1> SUFFICES ASSUME IndInv, [Next]_vars PROVE TargetInv'
  OBVIOUS
<1> USE SavedAssumption, NoneAssumption, BoundsAssumption DEF IndInv, vars, files, ghosts,
     OthersRest, SavesRest, RemovalsRest, Goto, Owns, Fault, FilesOf, Artifact, File
<1>1. ASSUME NEW i \in Item, WriteTemp(i) PROVE TargetInv'
  BY <1>1 DEF WriteTemp, TargetInv, DiskOf, DiskInv, LostInv, SaveInv, PendInv, OpInv,
     FoundInv, TypeOK, OpRecord, RfRecord, SaveStep, OpStep, Recovering, Clear, Excused,
     Around, Staging, Targets, Active
<1>2. ASSUME NEW i \in Item, PublishMarker(i) PROVE TargetInv'
  <2>1. /\ there' \subseteq there \cup {<<i, "marker">>}
        /\ UNCHANGED <<op, index, gone, lost, beside, crossed>>
    BY <1>2 DEF PublishMarker
  <2>2. Clear(i) /\ op.step \in Staging => i \notin Targets
    BY <1>2 DEF PublishMarker, SaveInv, SaveOf, Early, Staging
  <2> QED
    BY <2>1, <2>2 DEF TargetInv, Staging, Targets, Clear, Excused
<1>3. ASSUME NEW i \in Item, Register(i) PROVE TargetInv'
  BY <1>3 DEF Register, TargetInv, Clear, Excused, Targets
<1>4. ASSUME NEW i \in Item, PublishPng(i) PROVE TargetInv'
  <2>1. /\ there' \subseteq there \cup {<<i, "png">>}
        /\ UNCHANGED <<op, index, gone, lost, beside, crossed>>
    BY <1>4 DEF PublishPng
  <2>2. Clear(i) /\ op.step \in Staging => i \notin Targets
    BY <1>4 DEF PublishPng, SaveInv, SaveOf, Early, Staging
  <2> QED
    BY <2>1, <2>2 DEF TargetInv, Staging, Targets, Clear, Excused
<1>5. ASSUME NEW i \in Item, PublishJson(i) PROVE TargetInv'
  <2>1. /\ there' \subseteq there \cup {<<i, "json">>}
        /\ UNCHANGED <<op, index, gone, lost, beside, crossed>>
    BY <1>5 DEF PublishJson
  <2>2. Clear(i) /\ op.step \in Staging => i \notin Targets
    BY <1>5 DEF PublishJson, SaveInv, SaveOf, Early, Staging
  <2> QED
    BY <2>1, <2>2 DEF TargetInv, Staging, Targets, Clear, Excused
<1>6. ASSUME NEW i \in Item, CommitMarker(i) PROVE TargetInv'
  BY <1>6 DEF CommitMarker, TargetInv, Clear, Excused, Targets
<1>7. ASSUME NEW i \in Item, PublishFails(i) PROVE TargetInv'
  BY <1>7 DEF PublishFails, TargetInv, Clear, Excused, Targets
<1>8. ASSUME NEW i \in Item, NEW f \in File, Remove(i, f) PROVE TargetInv'
  BY <1>8 DEF Remove, TargetInv, Clear, Excused, Targets
<1>9. ASSUME NEW i \in Item, NEW f \in File, RemoveFails(i, f) PROVE TargetInv'
  BY <1>9 DEF RemoveFails, TargetInv, Clear, Excused, Targets
<1>10. ASSUME NEW i \in Item, RemoveTemp(i) PROVE TargetInv'
  BY <1>10 DEF RemoveTemp, TargetInv, Clear, Excused, Targets
<1>11. ASSUME NEW i \in Item, Upsert(i) PROVE TargetInv'
  BY <1>11 DEF Upsert, TargetInv, Staging, LockFree
<1>12. ASSUME NEW i \in Item, Reject(i) PROVE TargetInv'
  BY <1>12 DEF Reject, TargetInv, Recovering, Clear, Excused, Around, Staging, Targets,
     LockFree
<1>13. ASSUME NEW i \in Item, UpsertFails(i) PROVE TargetInv'
  BY <1>13 DEF UpsertFails, TargetInv, Staging, LockFree
<1>14. ASSUME NEW i \in Item, MarkIndexed(i) PROVE TargetInv'
  BY <1>14 DEF MarkIndexed, TargetInv, Clear, Excused, Targets
<1>15. ASSUME NEW i \in Item, Delete(i) PROVE TargetInv'
  BY <1>15 DEF Delete, TargetInv, Recovering, Clear, Staging, Targets, LockFree, Start
<1>16. ASSUME NEW targets \in SUBSET Item, Clean(targets) PROVE TargetInv'
  BY <1>16 DEF Clean, TargetInv, Staging, Targets, Start
<1>17. ASSUME Settle PROVE TargetInv'
  BY <1>17 DEF Settle, TargetInv, Staging, Start
<1>18. ASSUME NEW a \in op.todo, RecoverOne(a) PROVE TargetInv'
  BY <1>18 DEF RecoverOne, TargetInv, TypeOK, OpRecord, Staging
<1>19. ASSUME NEW a \in op.todo, Undo(a) PROVE TargetInv'
  BY <1>19, UndoIs DEF TargetInv, PendInv, OpInv, Clear, Excused, Targets
<1>20. ASSUME NEW a \in op.todo, UndoFails(a) PROVE TargetInv'
  BY <1>20 DEF UndoFails, TargetInv, Clear, Excused, Targets
<1>21. ASSUME NEW a \in op.todo, Finish(a) PROVE TargetInv'
  BY <1>21 DEF Finish, TargetInv, TypeOK, OpRecord, Clear, Excused, Around, Staging
<1>22. ASSUME NEW a \in op.todo, FinishFails(a) PROVE TargetInv'
  BY <1>22 DEF FinishFails, TargetInv, Clear, Excused, Staging
<1>23. ASSUME RecoverFails PROVE TargetInv'
  BY <1>23 DEF RecoverFails, TargetInv, Targets, Free
<1>24. ASSUME RecoverDone PROVE TargetInv'
  <2> SUFFICES ASSUME ~lost' PROVE TargetInv'
    BY DEF TargetInv
  <2>1. CASE op' = Free
    BY <2>1 DEF TargetInv, Free, Staging
  <2>2. CASE op' # Free
    <3>1. op'.done = {} /\ index' = Listed
      BY <1>24, <2>2, RecoverDoneIs DEF OpInv, SetIndex
    <3>2. (op'.left \cup {op'.item}) \ {None} \subseteq Listed
      BY <1>24, <2>2, RecoverDoneIs
    <3>3. (op'.step = "manifest" /\ op'.next = File) \/ op'.step = "write"
      BY <1>24, <2>2, RecoverDoneIs
    <3> QED
      BY <3>1, <3>2, <3>3 DEF TargetInv, Targets, Staging
  <2> QED
    BY <2>1, <2>2
<1>25. ASSUME WriteManifest PROVE TargetInv'
  BY <1>25, WriteManifestIs DEF TargetInv, Recovering, Clear, Excused, Staging, Targets,
     Past
<1>26. ASSUME RenameAway PROVE TargetInv'
  BY <1>26, RenameAwayIs DEF TargetInv, Recovering, Clear, Excused, Staging, Targets, Past
<1>27. ASSUME RenameAwayFails PROVE TargetInv'
  BY <1>27, StagingFailsIs DEF TargetInv, Clear, Excused, Staging, Targets
<1>28. ASSUME StageFails PROVE TargetInv'
  BY <1>28, StagingFailsIs DEF TargetInv, Clear, Excused, Staging, Targets
<1>29. ASSUME UndoDone PROVE TargetInv'
  BY <1>29, UndoDoneIs DEF TargetInv, Recovering, Clear, Excused, Around, Staging,
     Targets, Follows, Free
<1>30. ASSUME WriteIndex PROVE TargetInv'
  BY <1>30 DEF WriteIndex, TargetInv, PendInv, OpInv, Staging
<1>31. ASSUME FinishDone PROVE TargetInv'
  BY <1>31 DEF FinishDone, TargetInv, Targets, Free
<1>32. ASSUME NEW took \in BOOLEAN, NEW seen \in BOOLEAN, WriteIndexFails(took, seen)
       PROVE  TargetInv'
  BY <1>32 DEF WriteIndexFails, TargetInv, SaveInv, PendInv, OpInv, FoundInv, TypeOK,
     OpRecord, RfRecord, SaveStep, OpStep, Recovering, Clear, Excused, Around, Staging,
     Targets, Active, Free
<1>33. ASSUME NEW force \in BOOLEAN, Refresh(force) PROVE TargetInv'
  BY <1>33 DEF Refresh, TargetInv, Recovering, Clear, Excused, Around, Targets
<1>34. ASSUME NEW i \in Item, PassOver(i) PROVE TargetInv'
  BY <1>34 DEF PassOver, TargetInv, Clear, Excused, Targets
<1>35. ASSUME NEW i \in Item, Look(i) PROVE TargetInv'
  <2>1. there' \subseteq there /\ UNCHANGED <<op, index, gone, lost>>
    BY <1>35, LookIs
  <2>2. \A k : Clear(k)' => Clear(k)
    BY <1>35, LookIs DEF Clear, Excused
  <2> QED
    BY <2>1, <2>2 DEF TargetInv, Staging, Targets
<1>36. ASSUME LinkPng PROVE TargetInv'
  BY <1>36, LinkPngIs DEF TargetInv, FoundInv, Recovering, Clear, Excused, Staging,
     Targets
<1>37. ASSUME WriteJson PROVE TargetInv'
  BY <1>37, WriteJsonIs DEF TargetInv, FoundInv, Recovering, Clear, Excused, Staging,
     Targets
<1>38. ASSUME CommitSave PROVE TargetInv'
  BY <1>38, CommitSaveIs DEF TargetInv, Clear, Excused, Targets
<1>39. ASSUME RecoveryFails PROVE TargetInv'
  BY <1>39, BackIs DEF RecoveryFails, TargetInv, Recovering, Clear, Excused, Around,
     Targets
<1>40. ASSUME ScanDone PROVE TargetInv'
  BY <1>40 DEF ScanDone, TargetInv, Clear, Excused, Targets
<1>41. ASSUME Merge PROVE TargetInv'
  BY <1>41 DEF Merge, TargetInv, Around, Staging, LockFree
<1>42. ASSUME MarkMerged PROVE TargetInv'
  BY <1>42 DEF MarkMerged, TargetInv, Recovering, Clear, Excused, Around, Targets
<1>43. ASSUME DamageIndex PROVE TargetInv'
  BY <1>43 DEF DamageIndex, TargetInv
<1>44. ASSUME Crash PROVE TargetInv'
  BY <1>44 DEF Crash, TargetInv, Staging, Free
<1>45. ASSUME UNCHANGED vars PROVE TargetInv'
  BY <1>45 DEF TargetInv, Clear, Excused, Targets
<1> QED
  BY <1>1, <1>2, <1>3, <1>4, <1>5, <1>6, <1>7, <1>8, <1>9, <1>10, <1>11, <1>12, <1>13,
     <1>14, <1>15, <1>16, <1>17, <1>18, <1>19, <1>20, <1>21, <1>22, <1>23, <1>24, <1>25,
     <1>26, <1>27, <1>28, <1>29, <1>30, <1>31, <1>32, <1>33, <1>34, <1>35, <1>36, <1>37,
     <1>38, <1>39, <1>40, <1>41, <1>42, <1>43, <1>44, <1>45 DEF Next, SaveNext,
     RemovalNext, RefreshNext

\* A refresh completes only saves whose digest is not listed.
LEMMA StepFoundInv == IndInv /\ [Next]_vars => FoundInv'
<1> SUFFICES ASSUME IndInv, [Next]_vars PROVE FoundInv'
  OBVIOUS
<1> USE SavedAssumption, NoneAssumption, BoundsAssumption DEF IndInv, vars, files, ghosts,
     OthersRest, SavesRest, RemovalsRest, Goto, Owns, Fault, FilesOf, Artifact, File
<1>1. ASSUME NEW i \in Item, WriteTemp(i) PROVE FoundInv'
  BY <1>1 DEF WriteTemp, FoundInv, DiskOf, DiskInv, LostInv, SaveOf, OwnOf, SaveInv,
     OwnInv, PendInv, RfInv, TargetInv, OpInv, TypeOK, OpRecord, RfRecord, SaveStep,
     OpStep, Recovering, Clear, Excused, Early, Around, Staging, Targets, Active
<1>2. ASSUME NEW i \in Item, PublishMarker(i) PROVE FoundInv'
  BY <1>2 DEF PublishMarker, FoundInv, Recovering, Clear, Excused, Around
<1>3. ASSUME NEW i \in Item, Register(i) PROVE FoundInv'
  BY <1>3 DEF Register, FoundInv, Recovering, Clear, Excused, Around
<1>4. ASSUME NEW i \in Item, PublishPng(i) PROVE FoundInv'
  BY <1>4 DEF PublishPng, FoundInv, RfInv, TargetInv, Recovering, Clear, Excused, Around
<1>5. ASSUME NEW i \in Item, PublishJson(i) PROVE FoundInv'
  BY <1>5 DEF PublishJson, FoundInv, Recovering, Clear, Excused, Around
<1>6. ASSUME NEW i \in Item, CommitMarker(i) PROVE FoundInv'
  BY <1>6 DEF CommitMarker, FoundInv, RfInv, TargetInv, Recovering, Clear, Excused, Around
<1>7. ASSUME NEW i \in Item, PublishFails(i) PROVE FoundInv'
  BY <1>7 DEF PublishFails, FoundInv, Recovering, Clear, Excused, Around
<1>8. ASSUME NEW i \in Item, NEW f \in File, Remove(i, f) PROVE FoundInv'
  BY <1>8 DEF Remove, FoundInv, RfInv, TargetInv, Recovering, Clear, Excused, Around
<1>9. ASSUME NEW i \in Item, NEW f \in File, RemoveFails(i, f) PROVE FoundInv'
  BY <1>9 DEF RemoveFails, FoundInv, Recovering, Clear, Excused, Around
<1>10. ASSUME NEW i \in Item, RemoveTemp(i) PROVE FoundInv'
  BY <1>10 DEF RemoveTemp, FoundInv, Recovering, Clear, Excused, Around
<1>11. ASSUME NEW i \in Item, Upsert(i) PROVE FoundInv'
  BY <1>11 DEF Upsert, FoundInv, DiskOf, DiskInv, LostInv, SaveOf, OwnOf, SaveInv, OwnInv,
     PendInv, RfInv, SaveStep, OpStep, Recovering, Clear, Excused, Early, Around, Staging,
     Targets, LockFree, HasJson, Listed, Saving, Enter, Active
<1>12. ASSUME NEW i \in Item, Reject(i) PROVE FoundInv'
  BY <1>12 DEF Reject, FoundInv, DiskOf, DiskInv, LostInv, SaveOf, OwnOf, SaveInv, OwnInv,
     PendInv, RfInv, TargetInv, OpInv, TypeOK, OpRecord, RfRecord, SaveStep, OpStep,
     Recovering, Clear, Excused, Early, Around, Staging, Targets, LockFree, HasJson,
     Listed, Saving, SetIndex, Active
<1>13. ASSUME NEW i \in Item, UpsertFails(i) PROVE FoundInv'
  BY <1>13 DEF UpsertFails, FoundInv, DiskOf, DiskInv, LostInv, SaveOf, OwnOf, SaveInv,
     OwnInv, PendInv, RfInv, TargetInv, OpInv, TypeOK, OpRecord, RfRecord, SaveStep,
     OpStep, Recovering, Clear, Excused, Early, Around, Staging, Targets, LockFree,
     HasJson, Listed, Saving, Enter, Active
<1>14. ASSUME NEW i \in Item, MarkIndexed(i) PROVE FoundInv'
  BY <1>14 DEF MarkIndexed, FoundInv, SaveInv, OwnInv, PendInv, RfInv, TargetInv, OpInv,
     TypeOK, OpRecord, RfRecord, SaveStep, OpStep, Recovering, Clear, Excused, Early,
     Around
<1>15. ASSUME NEW i \in Item, Delete(i) PROVE FoundInv'
  BY <1>15 DEF Delete, FoundInv, LostInv, SaveOf, Recovering, Clear, Excused, Early,
     Around, Staging, Listed, Saving, SetIndex
<1>16. ASSUME NEW targets \in SUBSET Item, Clean(targets) PROVE FoundInv'
  BY <1>16 DEF Clean, FoundInv, Recovering, Clear, Excused, Early, Around
<1>17. ASSUME Settle PROVE FoundInv'
  BY <1>17 DEF Settle, FoundInv, Recovering, Clear, Excused, Around
<1>18. ASSUME NEW a \in op.todo, RecoverOne(a) PROVE FoundInv'
  BY <1>18 DEF RecoverOne, FoundInv, DiskOf, DiskInv, LostInv, SaveOf, OwnOf, TypeOK,
     OpStep, Recovering, Clear, Excused, Early, Around
<1>19. ASSUME NEW a \in op.todo, Undo(a) PROVE FoundInv'
  BY <1>19, UndoIs DEF FoundInv, Recovering, Clear, Excused, Around
<1>20. ASSUME NEW a \in op.todo, UndoFails(a) PROVE FoundInv'
  BY <1>20 DEF UndoFails, FoundInv, Recovering, Clear, Excused, Around
<1>21. ASSUME NEW a \in op.todo, Finish(a) PROVE FoundInv'
  BY <1>21 DEF Finish, FoundInv, RfInv, TargetInv, Recovering, Clear, Excused, Around
<1>22. ASSUME NEW a \in op.todo, FinishFails(a) PROVE FoundInv'
  BY <1>22 DEF FinishFails, FoundInv, Recovering, Clear, Excused, Around
<1>23. ASSUME RecoverFails PROVE FoundInv'
  BY <1>23 DEF RecoverFails, FoundInv, Recovering, Clear, Excused, Around
<1>24. ASSUME RecoverDone PROVE FoundInv'
  <2> SUFFICES ASSUME ~lost' PROVE FoundInv'
    BY DEF FoundInv
  <2>1. UNCHANGED <<rf, gone, mark, there, pending, lost>> /\ index' = index
    BY <1>24, RecoverDoneIs DEF SetIndex, Listed, LostInv
  <2>2. \A k : Clear(k)' => Clear(k)
    BY <1>24, RecoverDoneIs DEF Clear, Excused, SetIndex
  <2> QED
    BY <2>1, <2>2 DEF FoundInv, Recovering, Around
<1>25. ASSUME WriteManifest PROVE FoundInv'
  BY <1>25, WriteManifestIs DEF FoundInv, Recovering, Clear, Excused, Around
<1>26. ASSUME RenameAway PROVE FoundInv'
  <2> SUFFICES ASSUME ~lost' PROVE FoundInv'
    BY DEF FoundInv
  <2>1. /\ UNCHANGED <<rf, index, gone, mark, beside, crossed, lost>> /\ Around' = Around
        /\ there' = there \ {This} /\ This = <<op.item, This[2]>>
    BY <1>26, RenameAwayIs DEF Around
  <2>2. Clear(op.item) => op.item \in index
    BY <1>26, <2>1, RenameAwayIs DEF TargetInv, Targets, Staging
  <2>3. Recovering /\ Clear(rf.item) /\ rf.step = "link" => <<rf.item, "marker">> \in there'
    BY <2>1, <2>2 DEF FoundInv
  <2> QED
    BY <2>1, <2>3 DEF FoundInv, Recovering, Clear, Excused
<1>27. ASSUME RenameAwayFails PROVE FoundInv'
  BY <1>27, StagingFailsIs DEF FoundInv, TargetInv, Recovering, Clear, Excused, Early,
     Around, Staging, Targets
<1>28. ASSUME StageFails PROVE FoundInv'
  BY <1>28, StagingFailsIs DEF FoundInv, TargetInv, Recovering, Clear, Excused, Early,
     Around, Staging, Targets
<1>29. ASSUME UndoDone PROVE FoundInv'
  BY <1>29, UndoDoneIs DEF FoundInv, Recovering, Clear, Excused, Around
<1>30. ASSUME WriteIndex PROVE FoundInv'
  BY <1>30 DEF WriteIndex, FoundInv, RfInv, TargetInv, Recovering, Clear, Excused, Early,
     Around, Staging, Targets
<1>31. ASSUME FinishDone PROVE FoundInv'
  BY <1>31 DEF FinishDone, FoundInv, Recovering, Clear, Excused, Around
<1>32. ASSUME NEW took \in BOOLEAN, NEW seen \in BOOLEAN, WriteIndexFails(took, seen)
       PROVE  FoundInv'
  BY <1>32 DEF WriteIndexFails, FoundInv, RfInv, TargetInv, Recovering, Clear, Excused,
     Early, Around, Staging, Targets
<1>33. ASSUME NEW force \in BOOLEAN, Refresh(force) PROVE FoundInv'
  BY <1>33 DEF Refresh, FoundInv, Recovering
<1>34. ASSUME NEW i \in Item, PassOver(i) PROVE FoundInv'
  BY <1>34 DEF Skip, PassOver, FoundInv, Recovering
<1>35. ASSUME NEW i \in Item, Look(i) PROVE FoundInv'
  <2> SUFFICES ASSUME ~lost' PROVE FoundInv'
    BY DEF FoundInv
  <2>1. UNCHANGED <<save, index, gone, mark, pending, lost>> /\ ~lost
    BY <1>35, LookIs
  <2>2. CASE ~Recovering'
    BY <1>35, <2>2, LookIs DEF FoundInv, Recovering
  <2>3. CASE Recovering' /\ Clear(i)'
    <3>1. /\ rf'.item = i /\ rf'.saw = mark[i] /\ (rf'.json <=> <<i, "json">> \in there)
          /\ there' = there /\ <<i, "marker">> \in there
          /\ \/ rf'.step = "json"
             \/ rf'.step = "link" /\ <<i, "png">> \notin there /\ mark[i] = "prepared"
      BY <1>35, <2>3, LookIs DEF Recovering
    <3>2. DiskOf(i) /\ (mark[i] = "prepared" => \A f \in File : <<i, f>> \notin pending)
      BY <1>35, <2>1, <2>3, LookClear DEF DiskInv
    <3>3. i \notin gone
      BY <3>1, <3>2 DEF DiskOf
    <3>4. mark[i] = "prepared" /\ (rf'.step = "link" \/ ~rf'.json) => i \notin index
      BY <3>1, <3>2 DEF DiskOf, Around
    <3> QED
      BY <2>1, <3>1, <3>3, <3>4 DEF FoundInv, Recovering
  <2>4. CASE Recovering' /\ ~Clear(i)'
    BY <1>35, <2>4, LookIs DEF FoundInv, Recovering
  <2> QED
    BY <2>2, <2>3, <2>4
<1>36. ASSUME LinkPng PROVE FoundInv'
  BY <1>36, LinkPngIs DEF FoundInv, Recovering, Clear, Excused
<1>37. ASSUME WriteJson PROVE FoundInv'
  BY <1>37, WriteJsonIs DEF FoundInv, Recovering, Clear, Excused, Around
<1>38. ASSUME CommitSave PROVE FoundInv'
  BY <1>38, CommitSaveIs DEF FoundInv, Recovering
<1>39. ASSUME RecoveryFails PROVE FoundInv'
  BY <1>39, BackIs DEF RecoveryFails, FoundInv, Recovering, GoesOn
<1>40. ASSUME ScanDone PROVE FoundInv'
  BY <1>40 DEF ScanDone, FoundInv, Recovering
<1>41. ASSUME Merge PROVE FoundInv'
  BY <1>41 DEF Merge, FoundInv, Recovering, Clear, SetIndex, Rest
<1>42. ASSUME MarkMerged PROVE FoundInv'
  BY <1>42 DEF MarkMerged, FoundInv, Recovering, Rest
<1>43. ASSUME DamageIndex PROVE FoundInv'
  BY <1>43 DEF DamageIndex, FoundInv
<1>44. ASSUME Crash PROVE FoundInv'
  BY <1>44 DEF Crash, FoundInv, Recovering, Rest
<1>45. ASSUME UNCHANGED vars PROVE FoundInv'
  BY <1>45 DEF FoundInv, Recovering, Clear, Excused, Around
<1> QED
  BY <1>1, <1>2, <1>3, <1>4, <1>5, <1>6, <1>7, <1>8, <1>9, <1>10, <1>11, <1>12, <1>13,
     <1>14, <1>15, <1>16, <1>17, <1>18, <1>19, <1>20, <1>21, <1>22, <1>23, <1>24, <1>25,
     <1>26, <1>27, <1>28, <1>29, <1>30, <1>31, <1>32, <1>33, <1>34, <1>35, <1>36, <1>37,
     <1>38, <1>39, <1>40, <1>41, <1>42, <1>43, <1>44, <1>45 DEF Next, SaveNext,
     RemovalNext, RefreshNext

\* A save waited before, or a crash has just interrupted it.
WaitsBefore(j) ==
    \/ Waits(j)
    \/ /\ rf' = Rest /\ op' = Free /\ faults' = faults + 1
       /\ j \notin index' \cup gone' /\ ~Away(j)'

\* A save waits that waited before, or that a crash interrupts.
LEMMA StepWaits ==
  IndInv /\ [Next]_vars => (Quiet' => \A j \in Item : Waits(j)' => WaitsBefore(j))
<1> SUFFICES ASSUME IndInv, [Next]_vars, Quiet', NEW j \in Item, Waits(j)'
             PROVE  WaitsBefore(j)
  OBVIOUS
<1> USE SavedAssumption, NoneAssumption, BoundsAssumption DEF IndInv, vars, files, ghosts,
     OthersRest, SavesRest, RemovalsRest, Goto, Owns, Fault, FilesOf, Artifact, File
<1>0. /\ Quiet /\ ~lost /\ ~damaged /\ faults \in Nat /\ faults' \in Nat /\ faults <= faults'
      /\ \A k \in Item : Clear(k)' /\ Clear(k) /\ SaveOf(k) /\ OwnOf(k) /\ DiskOf(k)
  BY StillQuiet DEF Quiet, Calm, Clear, Excused, SaveInv, OwnInv, DiskInv, LostInv
<1>1. ASSUME NEW i \in Item, WriteTemp(i) PROVE WaitsBefore(j)
  BY <1>1, <1>0 DEF WriteTemp, WaitsBefore, Waits, Away, Around
<1>2. ASSUME NEW i \in Item, PublishMarker(i) PROVE WaitsBefore(j)
  BY <1>2, <1>0 DEF PublishMarker, WaitsBefore, Waits, Away, Around
<1>3. ASSUME NEW i \in Item, Register(i) PROVE WaitsBefore(j)
  BY <1>3, <1>0 DEF Register, WaitsBefore, Waits, Away, Around
<1>4. ASSUME NEW i \in Item, PublishPng(i) PROVE WaitsBefore(j)
  BY <1>4, <1>0 DEF PublishPng, WaitsBefore, Waits, Away, TypeOK, OpRecord, Around,
     Staging
<1>5. ASSUME NEW i \in Item, PublishJson(i) PROVE WaitsBefore(j)
  BY <1>5, <1>0 DEF PublishJson, WaitsBefore, Waits, Away, Around
<1>6. ASSUME NEW i \in Item, CommitMarker(i) PROVE WaitsBefore(j)
  BY <1>6, <1>0 DEF CommitMarker, WaitsBefore, Waits, Away, Around
<1>7. ASSUME NEW i \in Item, PublishFails(i) PROVE WaitsBefore(j)
  BY <1>7, <1>0 DEF PublishFails, WaitsBefore, Waits, Away, Around
<1>8. ASSUME NEW i \in Item, NEW f \in File, Remove(i, f) PROVE WaitsBefore(j)
  BY <1>8, <1>0 DEF Remove, WaitsBefore, Waits, Away, Around
<1>9. ASSUME NEW i \in Item, NEW f \in File, RemoveFails(i, f) PROVE WaitsBefore(j)
  BY <1>9, <1>0 DEF RemoveFails, Recovering, Clear, Excused
<1>10. ASSUME NEW i \in Item, RemoveTemp(i) PROVE WaitsBefore(j)
  BY <1>10, <1>0 DEF RemoveTemp, WaitsBefore, Waits, Away, SaveOf, Early, Around
<1>11. ASSUME NEW i \in Item, Upsert(i) PROVE WaitsBefore(j)
  BY <1>11, <1>0 DEF Upsert, WaitsBefore, Waits, Early, Around
<1>12. ASSUME NEW i \in Item, Reject(i) PROVE WaitsBefore(j)
  BY <1>12, <1>0 DEF Reject, WaitsBefore, Waits, Early, Around
<1>13. ASSUME NEW i \in Item, UpsertFails(i) PROVE WaitsBefore(j)
  BY <1>13, <1>0 DEF UpsertFails, WaitsBefore, Waits, Away, OwnOf, PendInv, Early, Around
<1>14. ASSUME NEW i \in Item, MarkIndexed(i) PROVE WaitsBefore(j)
  BY <1>14, <1>0 DEF MarkIndexed, WaitsBefore, Waits, Away, DiskOf, SaveOf, OwnOf,
     PendInv, OpInv, TypeOK, Around, Staging
<1>15. ASSUME NEW i \in Item, Delete(i) PROVE WaitsBefore(j)
  BY <1>15, <1>0 DEF Delete, WaitsBefore, Waits, Away, Recovering, Around, Staging
<1>16. ASSUME NEW targets \in SUBSET Item, Clean(targets) PROVE WaitsBefore(j)
  BY <1>16, <1>0 DEF Clean, WaitsBefore, Waits, Around
<1>17. ASSUME Settle PROVE WaitsBefore(j)
  BY <1>17, <1>0 DEF Settle, WaitsBefore, Waits, Around
<1>18. ASSUME NEW a \in op.todo, RecoverOne(a) PROVE WaitsBefore(j)
  BY <1>18, <1>0 DEF RecoverOne, WaitsBefore, Waits, Away, Around
<1>19. ASSUME NEW a \in op.todo, Undo(a) PROVE WaitsBefore(j)
  BY <1>19, <1>0, UndoIs DEF WaitsBefore, Waits, Around
<1>20. ASSUME NEW a \in op.todo, UndoFails(a) PROVE WaitsBefore(j)
  BY <1>20, <1>0 DEF UndoFails, WaitsBefore, Waits, Away, Around
<1>21. ASSUME NEW a \in op.todo, Finish(a) PROVE WaitsBefore(j)
  BY <1>21, <1>0 DEF Finish, WaitsBefore, Waits, Away, Around
<1>22. ASSUME NEW a \in op.todo, FinishFails(a) PROVE WaitsBefore(j)
  BY <1>22, <1>0 DEF FinishFails, WaitsBefore, Waits, Away, Around
<1>23. ASSUME RecoverFails PROVE WaitsBefore(j)
  BY <1>23, <1>0 DEF RecoverFails, WaitsBefore, Waits, Away, Around
<1>24. ASSUME RecoverDone PROVE WaitsBefore(j)
  BY <1>24, <1>0, RecoverDoneIs DEF WaitsBefore, Waits, Around
<1>25. ASSUME WriteManifest PROVE WaitsBefore(j)
  BY <1>25, <1>0, WriteManifestIs DEF WaitsBefore, Waits, Around
<1>26. ASSUME RenameAway PROVE WaitsBefore(j)
  BY <1>26, <1>0, RenameAwayIs DEF WaitsBefore, Waits, Around
<1>27. ASSUME RenameAwayFails PROVE WaitsBefore(j)
  BY <1>27, <1>0, StagingFailsIs DEF WaitsBefore, Waits, Around
<1>28. ASSUME StageFails PROVE WaitsBefore(j)
  BY <1>28, <1>0, StagingFailsIs DEF WaitsBefore, Waits, Around
<1>29. ASSUME UndoDone PROVE WaitsBefore(j)
  BY <1>29, <1>0, UndoDoneIs DEF WaitsBefore, Waits, Around
<1>30. ASSUME WriteIndex PROVE WaitsBefore(j)
  BY <1>30, <1>0 DEF WriteIndex, WaitsBefore, Waits, Away, Around
<1>31. ASSUME FinishDone PROVE WaitsBefore(j)
  BY <1>31, <1>0 DEF FinishDone, WaitsBefore, Waits, Away, Around
<1>32. ASSUME NEW took \in BOOLEAN, NEW seen \in BOOLEAN, WriteIndexFails(took, seen)
       PROVE  WaitsBefore(j)
  BY <1>32, <1>0 DEF WriteIndexFails, WaitsBefore, Waits, Away, Around
<1>33. ASSUME NEW force \in BOOLEAN, Refresh(force) PROVE WaitsBefore(j)
  BY <1>33, <1>0 DEF Refresh, WaitsBefore, Waits, Away, Around
<1>34. ASSUME NEW i \in Item, PassOver(i) PROVE WaitsBefore(j)
  BY <1>34, <1>0 DEF Skip, PassOver, WaitsBefore, Waits, Around
<1>35. ASSUME NEW i \in Item, Look(i) PROVE WaitsBefore(j)
  <2>1. UNCHANGED <<save, mark, pending, index, gone, temp, op, faults>>
    BY <1>35, <1>0, LookIs
  <2>2. there' = there \/ there' = there \ {<<i, "marker">>}
    BY <1>35, <1>0, LookIs
  <2> QED
    BY <1>35, <1>0, <2>1, <2>2 DEF WaitsBefore, Waits, Around
<1>36. ASSUME LinkPng PROVE WaitsBefore(j)
  BY <1>36, <1>0, LinkPngIs DEF WaitsBefore, Waits, Around
<1>37. ASSUME WriteJson PROVE WaitsBefore(j)
  BY <1>37, <1>0, WriteJsonIs DEF WaitsBefore, Waits, Around
<1>38. ASSUME CommitSave PROVE WaitsBefore(j)
  BY <1>38, <1>0, CommitSaveIs DEF WaitsBefore, Waits, TypeOK, OpRecord, Around, Staging
<1>39. ASSUME RecoveryFails PROVE WaitsBefore(j)
  BY <1>39, <1>0, BackIs DEF RecoveryFails, WaitsBefore, Waits, Around
<1>40. ASSUME ScanDone PROVE WaitsBefore(j)
  BY <1>40, <1>0 DEF ScanDone, WaitsBefore, Waits, Away, Around
<1>41. ASSUME Merge PROVE WaitsBefore(j)
  BY <1>41, <1>0 DEF Merge, WaitsBefore, Waits, Early, Around
<1>42. ASSUME MarkMerged PROVE WaitsBefore(j)
  BY <1>42, <1>0 DEF MarkMerged, WaitsBefore, Waits, Away, Around
<1>43. ASSUME DamageIndex PROVE WaitsBefore(j)
  BY <1>43, <1>0 DEF DamageIndex, WaitsBefore, Waits, Away, Around
<1>44. ASSUME Crash PROVE WaitsBefore(j)
  BY <1>44, <1>0 DEF Crash, WaitsBefore, Waits, Away, DiskOf, SaveOf, OwnOf, PendInv,
     OpInv, TypeOK, OpRecord, RfRecord, SaveStep, Early, Around, Staging, Targets, Saving,
     Active
<1>45. ASSUME UNCHANGED vars PROVE WaitsBefore(j)
  BY <1>45, <1>0 DEF WaitsBefore, Waits, Around
<1> QED
  BY <1>1, <1>2, <1>3, <1>4, <1>5, <1>6, <1>7, <1>8, <1>9, <1>10, <1>11, <1>12, <1>13,
     <1>14, <1>15, <1>16, <1>17, <1>18, <1>19, <1>20, <1>21, <1>22, <1>23, <1>24, <1>25,
     <1>26, <1>27, <1>28, <1>29, <1>30, <1>31, <1>32, <1>33, <1>34, <1>35, <1>36, <1>37,
     <1>38, <1>39, <1>40, <1>41, <1>42, <1>43, <1>44, <1>45 DEF Next, SaveNext,
     RemovalNext, RefreshNext

\* It takes two faults to list a digest whose save waits.
LEMMA StepListed ==
  IndInv /\ [Next]_vars => (Quiet' => \A j \in Item : Waits(j) /\ Waits(j)' => ListedAfter(j)')
<1> SUFFICES ASSUME IndInv, [Next]_vars, Quiet', NEW j \in Item, Waits(j), Waits(j)'
             PROVE  ListedAfter(j)'
  OBVIOUS
<1> USE SavedAssumption, NoneAssumption, BoundsAssumption DEF IndInv, vars, files, ghosts,
     OthersRest, SavesRest, RemovalsRest, Goto, Owns, Fault, FilesOf, Artifact, File
<1>0. /\ Quiet /\ ~lost /\ ~damaged /\ faults \in Nat /\ faults' \in Nat /\ faults <= faults'
      /\ \A k \in Item : Clear(k)' /\ Clear(k) /\ SaveOf(k) /\ OwnOf(k) /\ DiskOf(k)
  BY StillQuiet DEF Quiet, Calm, Clear, Excused, SaveInv, OwnInv, DiskInv, LostInv
<1>00. faults >= 1 /\ ListedAfter(j) /\ AwayAfter(j) /\ TakenUp(j)
  BY <1>0 DEF WaitInv, WaitsAfter
<1>1. ASSUME NEW i \in Item, WriteTemp(i) PROVE ListedAfter(j)'
  BY <1>1, <1>0, <1>00 DEF WriteTemp, ListedAfter
<1>2. ASSUME NEW i \in Item, PublishMarker(i) PROVE ListedAfter(j)'
  BY <1>2, <1>0, <1>00 DEF PublishMarker, ListedAfter
<1>3. ASSUME NEW i \in Item, Register(i) PROVE ListedAfter(j)'
  BY <1>3, <1>0, <1>00 DEF Register, ListedAfter
<1>4. ASSUME NEW i \in Item, PublishPng(i) PROVE ListedAfter(j)'
  BY <1>4, <1>0, <1>00 DEF PublishPng, ListedAfter
<1>5. ASSUME NEW i \in Item, PublishJson(i) PROVE ListedAfter(j)'
  BY <1>5, <1>0, <1>00 DEF PublishJson, ListedAfter
<1>6. ASSUME NEW i \in Item, CommitMarker(i) PROVE ListedAfter(j)'
  BY <1>6, <1>0, <1>00 DEF CommitMarker, ListedAfter
<1>7. ASSUME NEW i \in Item, PublishFails(i) PROVE ListedAfter(j)'
  BY <1>7, <1>0, <1>00 DEF PublishFails, ListedAfter
<1>8. ASSUME NEW i \in Item, NEW f \in File, Remove(i, f) PROVE ListedAfter(j)'
  BY <1>8, <1>0, <1>00 DEF Remove, ListedAfter
<1>9. ASSUME NEW i \in Item, NEW f \in File, RemoveFails(i, f) PROVE ListedAfter(j)'
  BY <1>9, <1>0, <1>00 DEF RemoveFails, ListedAfter
<1>10. ASSUME NEW i \in Item, RemoveTemp(i) PROVE ListedAfter(j)'
  BY <1>10, <1>0, <1>00 DEF RemoveTemp, ListedAfter
<1>11. ASSUME NEW i \in Item, Upsert(i) PROVE ListedAfter(j)'
  BY <1>11, <1>0, <1>00 DEF Upsert, ListedAfter, Waits, Recovering, HasJson, Listed, Enter
<1>12. ASSUME NEW i \in Item, Reject(i) PROVE ListedAfter(j)'
  BY <1>12, <1>0, <1>00 DEF Reject, ListedAfter, Waits, Recovering, HasJson, Listed,
     SetIndex
<1>13. ASSUME NEW i \in Item, UpsertFails(i) PROVE ListedAfter(j)'
  BY <1>13, <1>0, <1>00 DEF UpsertFails, ListedAfter
<1>14. ASSUME NEW i \in Item, MarkIndexed(i) PROVE ListedAfter(j)'
  BY <1>14, <1>0, <1>00 DEF MarkIndexed, ListedAfter
<1>15. ASSUME NEW i \in Item, Delete(i) PROVE ListedAfter(j)'
  BY <1>15, <1>0, <1>00 DEF Delete, ListedAfter, Listed, SetIndex
<1>16. ASSUME NEW targets \in SUBSET Item, Clean(targets) PROVE ListedAfter(j)'
  BY <1>16, <1>0, <1>00 DEF Clean, ListedAfter
<1>17. ASSUME Settle PROVE ListedAfter(j)'
  BY <1>17, <1>0, <1>00 DEF Settle, ListedAfter
<1>18. ASSUME NEW a \in op.todo, RecoverOne(a) PROVE ListedAfter(j)'
  BY <1>18, <1>0, <1>00 DEF RecoverOne, ListedAfter
<1>19. ASSUME NEW a \in op.todo, Undo(a) PROVE ListedAfter(j)'
  BY <1>19, <1>0, <1>00, UndoIs DEF ListedAfter
<1>20. ASSUME NEW a \in op.todo, UndoFails(a) PROVE ListedAfter(j)'
  BY <1>20, <1>0, <1>00 DEF UndoFails, ListedAfter
<1>21. ASSUME NEW a \in op.todo, Finish(a) PROVE ListedAfter(j)'
  BY <1>21, <1>0, <1>00 DEF Finish, ListedAfter
<1>22. ASSUME NEW a \in op.todo, FinishFails(a) PROVE ListedAfter(j)'
  BY <1>22, <1>0, <1>00 DEF FinishFails, ListedAfter
<1>23. ASSUME RecoverFails PROVE ListedAfter(j)'
  BY <1>23, <1>0, <1>00 DEF RecoverFails, ListedAfter
<1>24. ASSUME RecoverDone PROVE ListedAfter(j)'
  <2>1. index' = index /\ UNCHANGED <<save, mark, there, pending, gone, rf, temp, faults>>
    BY <1>24, <1>0, <1>00, RecoverDoneIs DEF SetIndex, Listed
  <2>2. op.step = "recover" /\ op'.step # "rename"
    BY <1>24, <1>0, <1>00, RecoverDoneIs DEF Free
  <2> QED
    BY <1>24, <1>0, <1>00, <2>1, <2>2 DEF ListedAfter
<1>25. ASSUME WriteManifest PROVE ListedAfter(j)'
  BY <1>25, <1>0, <1>00, WriteManifestIs DEF ListedAfter
<1>26. ASSUME RenameAway PROVE ListedAfter(j)'
  BY <1>26, <1>0, <1>00, RenameAwayIs DEF ListedAfter
<1>27. ASSUME RenameAwayFails PROVE ListedAfter(j)'
  BY <1>27, <1>0, <1>00, StagingFailsIs DEF ListedAfter
<1>28. ASSUME StageFails PROVE ListedAfter(j)'
  BY <1>28, <1>0, <1>00, StagingFailsIs DEF ListedAfter
<1>29. ASSUME UndoDone PROVE ListedAfter(j)'
  BY <1>29, <1>0, <1>00, UndoDoneIs DEF ListedAfter
<1>30. ASSUME WriteIndex PROVE ListedAfter(j)'
  BY <1>30, <1>0, <1>00 DEF WriteIndex, ListedAfter, Waits, TargetInv, FoundInv, Staging,
     Targets
<1>31. ASSUME FinishDone PROVE ListedAfter(j)'
  BY <1>31, <1>0, <1>00 DEF FinishDone, ListedAfter
<1>32. ASSUME NEW took \in BOOLEAN, NEW seen \in BOOLEAN, WriteIndexFails(took, seen)
       PROVE  ListedAfter(j)'
  BY <1>32, <1>0, <1>00 DEF WriteIndexFails, ListedAfter
<1>33. ASSUME NEW force \in BOOLEAN, Refresh(force) PROVE ListedAfter(j)'
  BY <1>33, <1>0, <1>00 DEF Refresh, ListedAfter
<1>34. ASSUME NEW i \in Item, PassOver(i) PROVE ListedAfter(j)'
  BY <1>34, <1>0, <1>00 DEF PassOver, ListedAfter
<1>35. ASSUME NEW i \in Item, Look(i) PROVE ListedAfter(j)'
  <2>1. UNCHANGED <<save, mark, pending, index, gone, temp, op, faults>>
    BY <1>35, <1>0, <1>00, LookIs
  <2>2. there' = there \/ there' = there \ {<<i, "marker">>}
    BY <1>35, <1>0, <1>00, LookIs
  <2> QED
    BY <1>35, <1>0, <1>00, <2>1 DEF ListedAfter
<1>36. ASSUME LinkPng PROVE ListedAfter(j)'
  BY <1>36, <1>0, <1>00, LinkPngIs DEF ListedAfter
<1>37. ASSUME WriteJson PROVE ListedAfter(j)'
  BY <1>37, <1>0, <1>00, WriteJsonIs DEF ListedAfter
<1>38. ASSUME CommitSave PROVE ListedAfter(j)'
  BY <1>38, <1>0, <1>00, CommitSaveIs DEF ListedAfter
<1>39. ASSUME RecoveryFails PROVE ListedAfter(j)'
  BY <1>39, <1>0, <1>00, BackIs DEF RecoveryFails, ListedAfter
<1>40. ASSUME ScanDone PROVE ListedAfter(j)'
  BY <1>40, <1>0, <1>00 DEF ScanDone, ListedAfter
<1>41. ASSUME Merge PROVE ListedAfter(j)'
  <2>1. UNCHANGED <<there, gone, faults>> /\ rf.step = "merge"
    BY <1>41, <1>0, <1>00 DEF Merge
  <2>2. index' = index \/ (index' = index \cup HasJson /\ (rf.force \/ rf.needs # {}))
    BY <1>41, <1>0, <1>00 DEF Merge, SetIndex, Listed
  <2>3. j \in index' \ index => faults >= 2 \/ j \in gone
    BY <1>41, <1>0, <1>00, <2>1, <2>2 DEF TakenUp, Taken, HasJson
  <2> QED
    BY <1>41, <1>0, <1>00, <2>1, <2>3 DEF ListedAfter
<1>42. ASSUME MarkMerged PROVE ListedAfter(j)'
  BY <1>42, <1>0, <1>00 DEF MarkMerged, ListedAfter
<1>43. ASSUME DamageIndex PROVE ListedAfter(j)'
  BY <1>43, <1>0, <1>00 DEF DamageIndex, ListedAfter
<1>44. ASSUME Crash PROVE ListedAfter(j)'
  BY <1>44, <1>0, <1>00 DEF Crash, ListedAfter
<1>45. ASSUME UNCHANGED vars PROVE ListedAfter(j)'
  BY <1>45, <1>0, <1>00 DEF ListedAfter
<1> QED
  BY <1>1, <1>2, <1>3, <1>4, <1>5, <1>6, <1>7, <1>8, <1>9, <1>10, <1>11, <1>12, <1>13,
     <1>14, <1>15, <1>16, <1>17, <1>18, <1>19, <1>20, <1>21, <1>22, <1>23, <1>24, <1>25,
     <1>26, <1>27, <1>28, <1>29, <1>30, <1>31, <1>32, <1>33, <1>34, <1>35, <1>36, <1>37,
     <1>38, <1>39, <1>40, <1>41, <1>42, <1>43, <1>44, <1>45 DEF Next, SaveNext,
     RemovalNext, RefreshNext

\* It takes three to have its files renamed away beside its marker.
LEMMA StepAway ==
  IndInv /\ [Next]_vars => (Quiet' => \A j \in Item : Waits(j) /\ Waits(j)' => AwayAfter(j)')
<1> SUFFICES ASSUME IndInv, [Next]_vars, Quiet', NEW j \in Item, Waits(j), Waits(j)'
             PROVE  AwayAfter(j)'
  OBVIOUS
<1> USE SavedAssumption, NoneAssumption, BoundsAssumption DEF IndInv, vars, files, ghosts,
     OthersRest, SavesRest, RemovalsRest, Goto, Owns, Fault, FilesOf, Artifact, File
<1>0. /\ Quiet /\ ~lost /\ ~damaged /\ faults \in Nat /\ faults' \in Nat /\ faults <= faults'
      /\ \A k \in Item : Clear(k)' /\ Clear(k) /\ SaveOf(k) /\ OwnOf(k) /\ DiskOf(k)
  BY StillQuiet DEF Quiet, Calm, Clear, Excused, SaveInv, OwnInv, DiskInv, LostInv
<1>00. faults >= 1 /\ ListedAfter(j) /\ AwayAfter(j) /\ TakenUp(j)
  BY <1>0 DEF WaitInv, WaitsAfter
<1>1. ASSUME NEW i \in Item, WriteTemp(i) PROVE AwayAfter(j)'
  BY <1>1, <1>0, <1>00 DEF WriteTemp, AwayAfter, Away
<1>2. ASSUME NEW i \in Item, PublishMarker(i) PROVE AwayAfter(j)'
  BY <1>2, <1>0, <1>00 DEF PublishMarker, AwayAfter, Waits, Away
<1>3. ASSUME NEW i \in Item, Register(i) PROVE AwayAfter(j)'
  BY <1>3, <1>0, <1>00 DEF Register, AwayAfter, Away
<1>4. ASSUME NEW i \in Item, PublishPng(i) PROVE AwayAfter(j)'
  BY <1>4, <1>0, <1>00 DEF PublishPng, AwayAfter, Away
<1>5. ASSUME NEW i \in Item, PublishJson(i) PROVE AwayAfter(j)'
  BY <1>5, <1>0, <1>00 DEF PublishJson, AwayAfter, Away
<1>6. ASSUME NEW i \in Item, CommitMarker(i) PROVE AwayAfter(j)'
  BY <1>6, <1>0, <1>00 DEF CommitMarker, AwayAfter, Away
<1>7. ASSUME NEW i \in Item, PublishFails(i) PROVE AwayAfter(j)'
  BY <1>7, <1>0, <1>00 DEF PublishFails, AwayAfter, Away
<1>8. ASSUME NEW i \in Item, NEW f \in File, Remove(i, f) PROVE AwayAfter(j)'
  BY <1>8, <1>0, <1>00 DEF Remove, AwayAfter, Away
<1>9. ASSUME NEW i \in Item, NEW f \in File, RemoveFails(i, f) PROVE AwayAfter(j)'
  BY <1>9, <1>0, <1>00 DEF RemoveFails, AwayAfter, Away
<1>10. ASSUME NEW i \in Item, RemoveTemp(i) PROVE AwayAfter(j)'
  BY <1>10, <1>0, <1>00 DEF RemoveTemp, AwayAfter, Away
<1>11. ASSUME NEW i \in Item, Upsert(i) PROVE AwayAfter(j)'
  BY <1>11, <1>0, <1>00 DEF Upsert, AwayAfter, Away
<1>12. ASSUME NEW i \in Item, Reject(i) PROVE AwayAfter(j)'
  BY <1>12, <1>0, <1>00 DEF Reject, AwayAfter, Away
<1>13. ASSUME NEW i \in Item, UpsertFails(i) PROVE AwayAfter(j)'
  BY <1>13, <1>0, <1>00 DEF UpsertFails, AwayAfter, Away
<1>14. ASSUME NEW i \in Item, MarkIndexed(i) PROVE AwayAfter(j)'
  BY <1>14, <1>0, <1>00 DEF MarkIndexed, AwayAfter, Away
<1>15. ASSUME NEW i \in Item, Delete(i) PROVE AwayAfter(j)'
  BY <1>15, <1>0, <1>00 DEF Delete, AwayAfter, Waits, Away, Targets, LockFree
<1>16. ASSUME NEW targets \in SUBSET Item, Clean(targets) PROVE AwayAfter(j)'
  BY <1>16, <1>0, <1>00 DEF Clean, AwayAfter, Waits, Away, Recovering, LockFree
<1>17. ASSUME Settle PROVE AwayAfter(j)'
  BY <1>17, <1>0, <1>00 DEF Settle, AwayAfter, Away, Targets, LockFree
<1>18. ASSUME NEW a \in op.todo, RecoverOne(a) PROVE AwayAfter(j)'
  BY <1>18, <1>0, <1>00 DEF RecoverOne, AwayAfter, Away
<1>19. ASSUME NEW a \in op.todo, Undo(a) PROVE AwayAfter(j)'
  BY <1>19, <1>0, <1>00, UndoIs DEF AwayAfter, Away
<1>20. ASSUME NEW a \in op.todo, UndoFails(a) PROVE AwayAfter(j)'
  BY <1>20, <1>0, <1>00 DEF UndoFails, AwayAfter, Away
<1>21. ASSUME NEW a \in op.todo, Finish(a) PROVE AwayAfter(j)'
  BY <1>21, <1>0, <1>00 DEF Finish, AwayAfter, Away
<1>22. ASSUME NEW a \in op.todo, FinishFails(a) PROVE AwayAfter(j)'
  BY <1>22, <1>0, <1>00 DEF FinishFails, AwayAfter, Away
<1>23. ASSUME RecoverFails PROVE AwayAfter(j)'
  BY <1>23, <1>0, <1>00 DEF RecoverFails, AwayAfter, Away
<1>24. ASSUME RecoverDone PROVE AwayAfter(j)'
  <2>1. index' = index /\ UNCHANGED <<save, mark, there, pending, gone, rf, temp, faults>>
    BY <1>24, <1>0, <1>00, RecoverDoneIs DEF SetIndex, Listed
  <2>2. op.step = "recover" /\ op'.step # "rename"
    BY <1>24, <1>0, <1>00, RecoverDoneIs DEF Free
  <2> QED
    BY <1>24, <1>0, <1>00, <2>1, <2>2 DEF AwayAfter, Away
<1>25. ASSUME WriteManifest PROVE AwayAfter(j)'
  BY <1>25, <1>0, <1>00, WriteManifestIs DEF AwayAfter, Away, Past
<1>26. ASSUME RenameAway PROVE AwayAfter(j)'
  BY <1>26, <1>0, <1>00, RenameAwayIs DEF AwayAfter, Away, OpInv, Past
<1>27. ASSUME RenameAwayFails PROVE AwayAfter(j)'
  <2>1. faults' = faults + 1 /\ gone' = gone
    BY <1>27, <1>0, <1>00, StagingFailsIs DEF ThereInv
  <2>2. j \notin gone => faults >= 2 \/ ~Away(j)'
    <3>1. op.item \in index
      BY <1>27, <1>0, <1>00, StagingFailsIs DEF TargetInv, Targets, Staging
    <3>2. Away(j)' => Away(j) \/ j = op.item
      BY <1>27, <1>0, <1>00, StagingFailsIs DEF Away
    <3>3. Away(j) => j \in index \cup gone
      BY <1>27, <1>0, <1>00 DEF DiskOf, Away
    <3> QED
      BY <1>27, <1>0, <1>00, <3>1, <3>2, <3>3 DEF ListedAfter
  <2> QED
    BY <1>27, <1>0, <1>00, <2>1, <2>2 DEF AwayAfter
<1>28. ASSUME StageFails PROVE AwayAfter(j)'
  <2>1. faults' = faults + 1 /\ gone' = gone
    BY <1>28, <1>0, <1>00, StagingFailsIs DEF ThereInv
  <2>2. j \notin gone => faults >= 2 \/ ~Away(j)'
    <3>1. op.item \in index
      BY <1>28, <1>0, <1>00, StagingFailsIs DEF TargetInv, Targets, Staging
    <3>2. Away(j)' => Away(j) \/ j = op.item
      BY <1>28, <1>0, <1>00, StagingFailsIs DEF Away
    <3>3. Away(j) => j \in index \cup gone
      BY <1>28, <1>0, <1>00 DEF DiskOf, Away
    <3> QED
      BY <1>28, <1>0, <1>00, <3>1, <3>2, <3>3 DEF ListedAfter
  <2> QED
    BY <1>28, <1>0, <1>00, <2>1, <2>2 DEF AwayAfter
<1>29. ASSUME UndoDone PROVE AwayAfter(j)'
  BY <1>29, <1>0, <1>00, UndoDoneIs DEF AwayAfter, Away
<1>30. ASSUME WriteIndex PROVE AwayAfter(j)'
  BY <1>30, <1>0, <1>00 DEF WriteIndex, AwayAfter, Waits, Away, DiskOf, SaveOf, OwnOf,
     PendInv, OpInv, TypeOK, OpRecord, RfRecord, Staging, Targets
<1>31. ASSUME FinishDone PROVE AwayAfter(j)'
  BY <1>31, <1>0, <1>00 DEF FinishDone, AwayAfter, Away
<1>32. ASSUME NEW took \in BOOLEAN, NEW seen \in BOOLEAN, WriteIndexFails(took, seen)
       PROVE  AwayAfter(j)'
  <2>1. faults' = faults + 1 /\ gone \subseteq gone'
    BY <1>32, <1>0, <1>00 DEF WriteIndexFails
  <2>2. Away(j)' => Away(j)
    BY <1>32, <1>0, <1>00 DEF WriteIndexFails, Away
  <2>3. Away(j) /\ j \notin gone => faults >= 2
    BY <1>32, <1>0, <1>00 DEF DiskOf, ListedAfter, Away
  <2> QED
    BY <1>32, <1>0, <1>00, <2>1, <2>2, <2>3 DEF AwayAfter
<1>33. ASSUME NEW force \in BOOLEAN, Refresh(force) PROVE AwayAfter(j)'
  BY <1>33, <1>0, <1>00 DEF Refresh, AwayAfter, Away
<1>34. ASSUME NEW i \in Item, PassOver(i) PROVE AwayAfter(j)'
  BY <1>34, <1>0, <1>00 DEF PassOver, AwayAfter, Away
<1>35. ASSUME NEW i \in Item, Look(i) PROVE AwayAfter(j)'
  <2>1. UNCHANGED <<save, mark, pending, index, gone, temp, op, faults>>
    BY <1>35, <1>0, <1>00, LookIs
  <2>2. there' = there \/ there' = there \ {<<i, "marker">>}
    BY <1>35, <1>0, <1>00, LookIs
  <2> QED
    BY <1>35, <1>0, <1>00, <2>1, <2>2 DEF AwayAfter, Away
<1>36. ASSUME LinkPng PROVE AwayAfter(j)'
  BY <1>36, <1>0, <1>00, LinkPngIs DEF AwayAfter, Away
<1>37. ASSUME WriteJson PROVE AwayAfter(j)'
  BY <1>37, <1>0, <1>00, WriteJsonIs DEF AwayAfter, Away
<1>38. ASSUME CommitSave PROVE AwayAfter(j)'
  BY <1>38, <1>0, <1>00, CommitSaveIs DEF AwayAfter, Away
<1>39. ASSUME RecoveryFails PROVE AwayAfter(j)'
  <2>1. UNCHANGED <<there, pending, op, gone>> /\ faults' = faults + 1
    BY <1>39, <1>0, <1>00 DEF RecoveryFails
  <2> QED
    BY <1>39, <1>0, <1>00, <2>1 DEF AwayAfter, Away
<1>40. ASSUME ScanDone PROVE AwayAfter(j)'
  BY <1>40, <1>0, <1>00 DEF ScanDone, AwayAfter, Away
<1>41. ASSUME Merge PROVE AwayAfter(j)'
  BY <1>41, <1>0, <1>00 DEF Merge, AwayAfter, Away
<1>42. ASSUME MarkMerged PROVE AwayAfter(j)'
  BY <1>42, <1>0, <1>00 DEF MarkMerged, AwayAfter, Away
<1>43. ASSUME DamageIndex PROVE AwayAfter(j)'
  BY <1>43, <1>0, <1>00 DEF DamageIndex, AwayAfter, Away
<1>44. ASSUME Crash PROVE AwayAfter(j)'
  <2>1. faults' = faults + 1 /\ gone \subseteq gone'
    BY <1>44, <1>0, <1>00 DEF Crash
  <2>2. Away(j)' => Away(j)
    BY <1>44, <1>0, <1>00 DEF Crash, Away
  <2>3. Away(j) /\ j \notin gone => faults >= 2
    BY <1>44, <1>0, <1>00 DEF DiskOf, ListedAfter, Away
  <2> QED
    BY <1>44, <1>0, <1>00, <2>1, <2>2, <2>3 DEF AwayAfter
<1>45. ASSUME UNCHANGED vars PROVE AwayAfter(j)'
  BY <1>45, <1>0, <1>00 DEF AwayAfter, Away
<1> QED
  BY <1>1, <1>2, <1>3, <1>4, <1>5, <1>6, <1>7, <1>8, <1>9, <1>10, <1>11, <1>12, <1>13,
     <1>14, <1>15, <1>16, <1>17, <1>18, <1>19, <1>20, <1>21, <1>22, <1>23, <1>24, <1>25,
     <1>26, <1>27, <1>28, <1>29, <1>30, <1>31, <1>32, <1>33, <1>34, <1>35, <1>36, <1>37,
     <1>38, <1>39, <1>40, <1>41, <1>42, <1>43, <1>44, <1>45 DEF Next, SaveNext,
     RemovalNext, RefreshNext

\* A refresh takes up what waits, or two faults kept it from it.
LEMMA StepTaken ==
  IndInv /\ [Next]_vars => (Quiet' => \A j \in Item : Waits(j) /\ Waits(j)' => TakenUp(j)')
<1> SUFFICES ASSUME IndInv, [Next]_vars, Quiet', NEW j \in Item, Waits(j), Waits(j)'
             PROVE  TakenUp(j)'
  OBVIOUS
<1> USE SavedAssumption, NoneAssumption, BoundsAssumption DEF IndInv, vars, files, ghosts,
     OthersRest, SavesRest, RemovalsRest, Goto, Owns, Fault, FilesOf, Artifact, File
<1>0. /\ Quiet /\ ~lost /\ ~damaged /\ faults \in Nat /\ faults' \in Nat /\ faults <= faults'
      /\ \A k \in Item : Clear(k)' /\ Clear(k) /\ SaveOf(k) /\ OwnOf(k) /\ DiskOf(k)
  BY StillQuiet DEF Quiet, Calm, Clear, Excused, SaveInv, OwnInv, DiskInv, LostInv
<1>00. faults >= 1 /\ ListedAfter(j) /\ AwayAfter(j) /\ TakenUp(j)
  BY <1>0 DEF WaitInv, WaitsAfter
<1>1. ASSUME NEW i \in Item, WriteTemp(i) PROVE TakenUp(j)'
  BY <1>1, <1>0, <1>00 DEF WriteTemp, TakenUp, Taken, Recovering
<1>2. ASSUME NEW i \in Item, PublishMarker(i) PROVE TakenUp(j)'
  BY <1>2, <1>0, <1>00 DEF PublishMarker, TakenUp, Taken, Recovering
<1>3. ASSUME NEW i \in Item, Register(i) PROVE TakenUp(j)'
  BY <1>3, <1>0, <1>00 DEF Register, TakenUp, Taken, Recovering
<1>4. ASSUME NEW i \in Item, PublishPng(i) PROVE TakenUp(j)'
  BY <1>4, <1>0, <1>00 DEF PublishPng, TakenUp, Taken, Recovering
<1>5. ASSUME NEW i \in Item, PublishJson(i) PROVE TakenUp(j)'
  BY <1>5, <1>0, <1>00 DEF PublishJson, TakenUp, Waits, Taken, Recovering
<1>6. ASSUME NEW i \in Item, CommitMarker(i) PROVE TakenUp(j)'
  BY <1>6, <1>0, <1>00 DEF CommitMarker, TakenUp, Taken, Recovering
<1>7. ASSUME NEW i \in Item, PublishFails(i) PROVE TakenUp(j)'
  BY <1>7, <1>0, <1>00 DEF PublishFails, TakenUp, Taken, Recovering
<1>8. ASSUME NEW i \in Item, NEW f \in File, Remove(i, f) PROVE TakenUp(j)'
  BY <1>8, <1>0, <1>00 DEF Remove, TakenUp, Taken, Recovering
<1>9. ASSUME NEW i \in Item, NEW f \in File, RemoveFails(i, f) PROVE TakenUp(j)'
  BY <1>9, <1>0, <1>00 DEF RemoveFails, TakenUp, Taken
<1>10. ASSUME NEW i \in Item, RemoveTemp(i) PROVE TakenUp(j)'
  BY <1>10, <1>0, <1>00 DEF RemoveTemp, TakenUp, Taken, Recovering
<1>11. ASSUME NEW i \in Item, Upsert(i) PROVE TakenUp(j)'
  BY <1>11, <1>0, <1>00 DEF Upsert, TakenUp, Waits, Taken, Recovering, HasJson, Listed,
     Saving, Enter
<1>12. ASSUME NEW i \in Item, Reject(i) PROVE TakenUp(j)'
  BY <1>12, <1>0, <1>00 DEF Reject, TakenUp, Waits, Taken, Recovering, HasJson, Listed,
     Saving, SetIndex
<1>13. ASSUME NEW i \in Item, UpsertFails(i) PROVE TakenUp(j)'
  BY <1>13, <1>0, <1>00 DEF UpsertFails, TakenUp, Taken
<1>14. ASSUME NEW i \in Item, MarkIndexed(i) PROVE TakenUp(j)'
  BY <1>14, <1>0, <1>00 DEF MarkIndexed, TakenUp, Taken, Recovering
<1>15. ASSUME NEW i \in Item, Delete(i) PROVE TakenUp(j)'
  BY <1>15, <1>0, <1>00 DEF Delete, TakenUp, Waits, Taken, Recovering, Clear, Listed,
     Saving, SetIndex
<1>16. ASSUME NEW targets \in SUBSET Item, Clean(targets) PROVE TakenUp(j)'
  BY <1>16, <1>0, <1>00 DEF Clean, TakenUp, Taken, Recovering
<1>17. ASSUME Settle PROVE TakenUp(j)'
  BY <1>17, <1>0, <1>00 DEF Settle, TakenUp, Taken, Recovering
<1>18. ASSUME NEW a \in op.todo, RecoverOne(a) PROVE TakenUp(j)'
  <2>1. UNCHANGED <<rf, index, gone, faults>>
    BY <1>18, <1>0, <1>00 DEF RecoverOne
  <2>2. <<j, "json">> \in there' => <<j, "json">> \in there \cup pending
    BY <1>18, <1>0, <1>00 DEF RecoverOne
  <2>3. <<j, "json">> \in pending => j \in index \cup gone
    BY <1>18, <1>0, <1>00 DEF DiskOf, File
  <2> QED
    BY <1>18, <1>0, <1>00, <2>1, <2>2, <2>3 DEF TakenUp, Taken, Recovering
<1>19. ASSUME NEW a \in op.todo, Undo(a) PROVE TakenUp(j)'
  <2>1. UNCHANGED <<rf, index, gone, faults>>
    BY <1>19, <1>0, <1>00, UndoIs
  <2>2. <<j, "json">> \in there' => <<j, "json">> \in there \cup pending
    BY <1>19, <1>0, <1>00, UndoIs
  <2>3. <<j, "json">> \in pending => j \in index \cup gone
    BY <1>19, <1>0, <1>00 DEF DiskOf, File
  <2> QED
    BY <1>19, <1>0, <1>00, <2>1, <2>2, <2>3 DEF TakenUp, Taken, Recovering
<1>20. ASSUME NEW a \in op.todo, UndoFails(a) PROVE TakenUp(j)'
  BY <1>20, <1>0, <1>00 DEF UndoFails, TakenUp, Taken
<1>21. ASSUME NEW a \in op.todo, Finish(a) PROVE TakenUp(j)'
  BY <1>21, <1>0, <1>00 DEF Finish, TakenUp, Taken, Recovering
<1>22. ASSUME NEW a \in op.todo, FinishFails(a) PROVE TakenUp(j)'
  BY <1>22, <1>0, <1>00 DEF FinishFails, TakenUp, Taken
<1>23. ASSUME RecoverFails PROVE TakenUp(j)'
  BY <1>23, <1>0, <1>00 DEF RecoverFails, TakenUp, Taken
<1>24. ASSUME RecoverDone PROVE TakenUp(j)'
  <2>1. index' = index /\ UNCHANGED <<save, mark, there, pending, gone, rf, temp, faults>>
    BY <1>24, <1>0, <1>00, RecoverDoneIs DEF SetIndex, Listed
  <2>2. op.step = "recover" /\ op'.step # "rename"
    BY <1>24, <1>0, <1>00, RecoverDoneIs DEF Free
  <2> QED
    BY <1>24, <1>0, <1>00, <2>1, <2>2 DEF TakenUp, Taken, Recovering
<1>25. ASSUME WriteManifest PROVE TakenUp(j)'
  BY <1>25, <1>0, <1>00, WriteManifestIs DEF TakenUp, Taken, Recovering
<1>26. ASSUME RenameAway PROVE TakenUp(j)'
  BY <1>26, <1>0, <1>00, RenameAwayIs DEF TakenUp, Taken, Recovering
<1>27. ASSUME RenameAwayFails PROVE TakenUp(j)'
  BY <1>27, <1>0, <1>00, StagingFailsIs DEF TakenUp, Taken, Recovering
<1>28. ASSUME StageFails PROVE TakenUp(j)'
  BY <1>28, <1>0, <1>00, StagingFailsIs DEF TakenUp, Taken, Recovering
<1>29. ASSUME UndoDone PROVE TakenUp(j)'
  BY <1>29, <1>0, <1>00, UndoDoneIs DEF TakenUp, Taken, Recovering
<1>30. ASSUME WriteIndex PROVE TakenUp(j)'
  BY <1>30, <1>0, <1>00 DEF WriteIndex, TakenUp, Taken, Recovering
<1>31. ASSUME FinishDone PROVE TakenUp(j)'
  BY <1>31, <1>0, <1>00 DEF FinishDone, TakenUp, Taken, Recovering
<1>32. ASSUME NEW took \in BOOLEAN, NEW seen \in BOOLEAN, WriteIndexFails(took, seen)
       PROVE  TakenUp(j)'
  BY <1>32, <1>0, <1>00 DEF WriteIndexFails, TakenUp, Taken
<1>33. ASSUME NEW force \in BOOLEAN, Refresh(force) PROVE TakenUp(j)'
  BY <1>33, <1>0, <1>00 DEF Refresh, TakenUp, Waits, Taken, DiskOf, SaveOf, OwnOf,
     PendInv, OpInv, RfInv, TargetInv, FoundInv, TempInv, MarkerInv, ThereInv, TypeOK,
     OpRecord, RfRecord, SaveStep, OpStep, Recovering, Clear, Excused, Early, Around,
     Staging, Targets, Active, Rest
<1>34. ASSUME NEW i \in Item, PassOver(i) PROVE TakenUp(j)'
  BY <1>34, <1>0, <1>00 DEF Skip, PassOver, TakenUp, Waits, Taken, DiskOf, SaveOf, OwnOf,
     PendInv, OpInv, RfInv, TargetInv, FoundInv, TempInv, MarkerInv, ThereInv, TypeOK,
     OpRecord, RfRecord, SaveStep, OpStep, Recovering, Clear, Excused, Early, Around,
     Staging, Targets, Active
<1>35. ASSUME NEW i \in Item, Look(i) PROVE TakenUp(j)'
  <2>1. UNCHANGED <<save, mark, pending, index, gone, temp, op, faults>>
    BY <1>35, <1>0, <1>00, LookIs
  <2>2. there' = there \/ there' = there \ {<<i, "marker">>}
    BY <1>35, <1>0, <1>00, LookIs
  <2>3. rf.step = "scan" /\ i \in rf.todo /\ rf'.todo = rf.todo \ {i}
    BY <1>35, <1>0, <1>00, LookIs
  <2>4. <<j, "json">> \in there' => <<j, "json">> \in there
    BY <2>2
  <2>5. rf'.step \in {"scan", "link", "json"}
    BY <1>35, <1>0, <1>00, LookIs
  <2>6. CASE i # j
    BY <1>35, <1>0, <1>00, <2>1, <2>3, <2>4, <2>5, <2>6 DEF TakenUp, Taken, Recovering
  <2>7. CASE i = j
    <3>1. (rf'.step = "json" /\ rf'.item = j) \/ <<j, "png">> \notin there
      BY <1>35, <1>0, <1>00, <2>7, LookIs
    <3>2. <<j, "json">> \in there /\ <<j, "png">> \notin there => j \in index \cup gone
      BY <1>35, <1>0, <1>00 DEF DiskOf, Waits, Around, File
    <3> QED
      BY <2>1, <2>4, <3>1, <3>2 DEF TakenUp, Taken
  <2> QED
    BY <2>6, <2>7
<1>36. ASSUME LinkPng PROVE TakenUp(j)'
  BY <1>36, <1>0, <1>00, LinkPngIs DEF TakenUp, Waits, Taken, TempInv, Recovering
<1>37. ASSUME WriteJson PROVE TakenUp(j)'
  BY <1>37, <1>0, <1>00, WriteJsonIs DEF TakenUp, Waits, Taken, DiskOf, SaveOf, TargetInv,
     FoundInv, TempInv, MarkerInv, ThereInv, TypeOK, OpRecord, RfRecord, SaveStep, OpStep,
     Recovering, Clear, Around, Staging
<1>38. ASSUME CommitSave PROVE TakenUp(j)'
  BY <1>38, <1>0, <1>00, CommitSaveIs DEF TakenUp, Waits, Taken, RfInv, TargetInv,
     FoundInv, TempInv, MarkerInv, ThereInv, TypeOK, OpRecord, RfRecord, Recovering
<1>39. ASSUME RecoveryFails PROVE TakenUp(j)'
  BY <1>39, <1>0, <1>00, BackIs DEF RecoveryFails, TakenUp, Taken
<1>40. ASSUME ScanDone PROVE TakenUp(j)'
  BY <1>40, <1>0, <1>00 DEF ScanDone, TakenUp, Taken
<1>41. ASSUME Merge PROVE TakenUp(j)'
  BY <1>41, <1>0, <1>00 DEF Merge, TakenUp, Taken, Recovering, Rest
<1>42. ASSUME MarkMerged PROVE TakenUp(j)'
  BY <1>42, <1>0, <1>00 DEF MarkMerged, TakenUp, Waits, Recovering, Rest
<1>43. ASSUME DamageIndex PROVE TakenUp(j)'
  BY <1>43, <1>0, <1>00 DEF DamageIndex, TakenUp, Taken
<1>44. ASSUME Crash PROVE TakenUp(j)'
  BY <1>44, <1>0, <1>00 DEF Crash, TakenUp, Taken
<1>45. ASSUME UNCHANGED vars PROVE TakenUp(j)'
  BY <1>45, <1>0, <1>00 DEF TakenUp, Taken, Recovering
<1> QED
  BY <1>1, <1>2, <1>3, <1>4, <1>5, <1>6, <1>7, <1>8, <1>9, <1>10, <1>11, <1>12, <1>13,
     <1>14, <1>15, <1>16, <1>17, <1>18, <1>19, <1>20, <1>21, <1>22, <1>23, <1>24, <1>25,
     <1>26, <1>27, <1>28, <1>29, <1>30, <1>31, <1>32, <1>33, <1>34, <1>35, <1>36, <1>37,
     <1>38, <1>39, <1>40, <1>41, <1>42, <1>43, <1>44, <1>45 DEF Next, SaveNext,
     RemovalNext, RefreshNext

\* A PNG is linked while the temporary one is there.
LEMMA StepTempInv == IndInv /\ [Next]_vars => TempInv'
<1> SUFFICES ASSUME IndInv, [Next]_vars, Quiet' PROVE TempInv'
  BY DEF TempInv
<1> USE SavedAssumption, NoneAssumption, BoundsAssumption DEF IndInv, vars, files, ghosts,
     OthersRest, SavesRest, RemovalsRest, Goto, Owns, Fault, FilesOf, Artifact, File
<1>0. /\ Quiet /\ ~lost /\ ~damaged /\ faults \in Nat /\ faults' \in Nat /\ faults <= faults'
      /\ \A k \in Item : Clear(k)' /\ Clear(k) /\ SaveOf(k) /\ OwnOf(k) /\ DiskOf(k)
  BY StillQuiet DEF Quiet, Calm, Clear, Excused, SaveInv, OwnInv, DiskInv, LostInv
<1>1. ASSUME NEW i \in Item, WriteTemp(i) PROVE TempInv'
  BY <1>1, <1>0 DEF WriteTemp, TempInv
<1>2. ASSUME NEW i \in Item, PublishMarker(i) PROVE TempInv'
  BY <1>2, <1>0 DEF PublishMarker, TempInv
<1>3. ASSUME NEW i \in Item, Register(i) PROVE TempInv'
  BY <1>3, <1>0 DEF Register, TempInv
<1>4. ASSUME NEW i \in Item, PublishPng(i) PROVE TempInv'
  BY <1>4, <1>0 DEF PublishPng, TempInv
<1>5. ASSUME NEW i \in Item, PublishJson(i) PROVE TempInv'
  BY <1>5, <1>0 DEF PublishJson, TempInv
<1>6. ASSUME NEW i \in Item, CommitMarker(i) PROVE TempInv'
  BY <1>6, <1>0 DEF CommitMarker, TempInv, Waits, RfInv, Recovering
<1>7. ASSUME NEW i \in Item, PublishFails(i) PROVE TempInv'
  BY <1>7, <1>0 DEF PublishFails, TempInv
<1>8. ASSUME NEW i \in Item, NEW f \in File, Remove(i, f) PROVE TempInv'
  BY <1>8, <1>0 DEF Remove, TempInv
<1>9. ASSUME NEW i \in Item, NEW f \in File, RemoveFails(i, f) PROVE TempInv'
  BY <1>9, <1>0 DEF RemoveFails, TempInv
<1>10. ASSUME NEW i \in Item, RemoveTemp(i) PROVE TempInv'
  BY <1>10, <1>0 DEF RemoveTemp, TempInv, Waits, RfInv, Recovering
<1>11. ASSUME NEW i \in Item, Upsert(i) PROVE TempInv'
  BY <1>11, <1>0 DEF Upsert, TempInv
<1>12. ASSUME NEW i \in Item, Reject(i) PROVE TempInv'
  BY <1>12, <1>0 DEF Reject, TempInv
<1>13. ASSUME NEW i \in Item, UpsertFails(i) PROVE TempInv'
  BY <1>13, <1>0 DEF UpsertFails, TempInv
<1>14. ASSUME NEW i \in Item, MarkIndexed(i) PROVE TempInv'
  BY <1>14, <1>0 DEF MarkIndexed, TempInv
<1>15. ASSUME NEW i \in Item, Delete(i) PROVE TempInv'
  BY <1>15, <1>0 DEF Delete, TempInv
<1>16. ASSUME NEW targets \in SUBSET Item, Clean(targets) PROVE TempInv'
  BY <1>16, <1>0 DEF Clean, TempInv
<1>17. ASSUME Settle PROVE TempInv'
  BY <1>17, <1>0 DEF Settle, TempInv
<1>18. ASSUME NEW a \in op.todo, RecoverOne(a) PROVE TempInv'
  BY <1>18, <1>0 DEF RecoverOne, TempInv
<1>19. ASSUME NEW a \in op.todo, Undo(a) PROVE TempInv'
  BY <1>19, <1>0, UndoIs DEF TempInv
<1>20. ASSUME NEW a \in op.todo, UndoFails(a) PROVE TempInv'
  BY <1>20, <1>0 DEF UndoFails, TempInv
<1>21. ASSUME NEW a \in op.todo, Finish(a) PROVE TempInv'
  BY <1>21, <1>0 DEF Finish, TempInv
<1>22. ASSUME NEW a \in op.todo, FinishFails(a) PROVE TempInv'
  BY <1>22, <1>0 DEF FinishFails, TempInv
<1>23. ASSUME RecoverFails PROVE TempInv'
  BY <1>23, <1>0 DEF RecoverFails, TempInv
<1>24. ASSUME RecoverDone PROVE TempInv'
  <2>1. index' = index /\ UNCHANGED <<save, mark, there, pending, gone, rf, temp, faults>>
    BY <1>24, <1>0, RecoverDoneIs DEF SetIndex, Listed
  <2>2. op.step = "recover" /\ op'.step # "rename"
    BY <1>24, <1>0, RecoverDoneIs DEF Free
  <2> QED
    BY <1>24, <1>0, <2>1, <2>2 DEF TempInv
<1>25. ASSUME WriteManifest PROVE TempInv'
  BY <1>25, <1>0, WriteManifestIs DEF TempInv
<1>26. ASSUME RenameAway PROVE TempInv'
  BY <1>26, <1>0, RenameAwayIs DEF TempInv
<1>27. ASSUME RenameAwayFails PROVE TempInv'
  BY <1>27, <1>0, StagingFailsIs DEF TempInv
<1>28. ASSUME StageFails PROVE TempInv'
  BY <1>28, <1>0, StagingFailsIs DEF TempInv
<1>29. ASSUME UndoDone PROVE TempInv'
  BY <1>29, <1>0, UndoDoneIs DEF TempInv
<1>30. ASSUME WriteIndex PROVE TempInv'
  BY <1>30, <1>0 DEF WriteIndex, TempInv
<1>31. ASSUME FinishDone PROVE TempInv'
  BY <1>31, <1>0 DEF FinishDone, TempInv
<1>32. ASSUME NEW took \in BOOLEAN, NEW seen \in BOOLEAN, WriteIndexFails(took, seen)
       PROVE  TempInv'
  BY <1>32, <1>0 DEF WriteIndexFails, TempInv
<1>33. ASSUME NEW force \in BOOLEAN, Refresh(force) PROVE TempInv'
  BY <1>33, <1>0 DEF Refresh, TempInv
<1>34. ASSUME NEW i \in Item, PassOver(i) PROVE TempInv'
  BY <1>34, <1>0 DEF Skip, PassOver, TempInv
<1>35. ASSUME NEW i \in Item, Look(i) PROVE TempInv'
  <2> QED
    BY <1>35, <1>0, LookIs DEF TempInv
<1>36. ASSUME LinkPng PROVE TempInv'
  BY <1>36, <1>0, LinkPngIs DEF TempInv
<1>37. ASSUME WriteJson PROVE TempInv'
  BY <1>37, <1>0, WriteJsonIs DEF TempInv
<1>38. ASSUME CommitSave PROVE TempInv'
  BY <1>38, <1>0, CommitSaveIs DEF TempInv
<1>39. ASSUME RecoveryFails PROVE TempInv'
  BY <1>39, <1>0, BackIs DEF RecoveryFails, TempInv, GoesOn
<1>40. ASSUME ScanDone PROVE TempInv'
  BY <1>40, <1>0 DEF ScanDone, TempInv
<1>41. ASSUME Merge PROVE TempInv'
  BY <1>41, <1>0 DEF Merge, TempInv, Rest
<1>42. ASSUME MarkMerged PROVE TempInv'
  BY <1>42, <1>0 DEF MarkMerged, TempInv, Rest
<1>43. ASSUME DamageIndex PROVE TempInv'
  BY <1>43, <1>0 DEF DamageIndex, TempInv
<1>44. ASSUME Crash PROVE TempInv'
  BY <1>44, <1>0 DEF Crash, TempInv, Rest
<1>45. ASSUME UNCHANGED vars PROVE TempInv'
  BY <1>45, <1>0 DEF TempInv
<1> QED
  BY <1>1, <1>2, <1>3, <1>4, <1>5, <1>6, <1>7, <1>8, <1>9, <1>10, <1>11, <1>12, <1>13,
     <1>14, <1>15, <1>16, <1>17, <1>18, <1>19, <1>20, <1>21, <1>22, <1>23, <1>24, <1>25,
     <1>26, <1>27, <1>28, <1>29, <1>30, <1>31, <1>32, <1>33, <1>34, <1>35, <1>36, <1>37,
     <1>38, <1>39, <1>40, <1>41, <1>42, <1>43, <1>44, <1>45 DEF Next, SaveNext,
     RemovalNext, RefreshNext

\* The marker a refresh goes by stays, but for two faults.
LEMMA StepMarkerInv == IndInv /\ [Next]_vars => MarkerInv'
<1> SUFFICES ASSUME IndInv, [Next]_vars, Quiet' PROVE MarkerInv'
  BY DEF MarkerInv
<1> USE SavedAssumption, NoneAssumption, BoundsAssumption DEF IndInv, vars, files, ghosts,
     OthersRest, SavesRest, RemovalsRest, Goto, Owns, Fault, FilesOf, Artifact, File
<1>0. /\ Quiet /\ ~lost /\ ~damaged /\ faults \in Nat /\ faults' \in Nat /\ faults <= faults'
      /\ \A k \in Item : Clear(k)' /\ Clear(k) /\ SaveOf(k) /\ OwnOf(k) /\ DiskOf(k)
  BY StillQuiet DEF Quiet, Calm, Clear, Excused, SaveInv, OwnInv, DiskInv, LostInv
<1>1. ASSUME NEW i \in Item, WriteTemp(i) PROVE MarkerInv'
  BY <1>1, <1>0 DEF WriteTemp, MarkerInv, Recovering
<1>2. ASSUME NEW i \in Item, PublishMarker(i) PROVE MarkerInv'
  BY <1>2, <1>0 DEF PublishMarker, MarkerInv, Recovering
<1>3. ASSUME NEW i \in Item, Register(i) PROVE MarkerInv'
  BY <1>3, <1>0 DEF Register, MarkerInv, Recovering
<1>4. ASSUME NEW i \in Item, PublishPng(i) PROVE MarkerInv'
  BY <1>4, <1>0 DEF PublishPng, MarkerInv, Waits, RfInv, Recovering
<1>5. ASSUME NEW i \in Item, PublishJson(i) PROVE MarkerInv'
  BY <1>5, <1>0 DEF PublishJson, MarkerInv, Recovering
<1>6. ASSUME NEW i \in Item, CommitMarker(i) PROVE MarkerInv'
  BY <1>6, <1>0 DEF CommitMarker, MarkerInv, Recovering
<1>7. ASSUME NEW i \in Item, PublishFails(i) PROVE MarkerInv'
  BY <1>7, <1>0 DEF PublishFails, MarkerInv, Recovering
<1>8. ASSUME NEW i \in Item, NEW f \in File, Remove(i, f) PROVE MarkerInv'
  BY <1>8, <1>0 DEF Remove, MarkerInv, Waits, RfInv, Recovering
<1>9. ASSUME NEW i \in Item, NEW f \in File, RemoveFails(i, f) PROVE MarkerInv'
  BY <1>9, <1>0 DEF RemoveFails, MarkerInv, Recovering
<1>10. ASSUME NEW i \in Item, RemoveTemp(i) PROVE MarkerInv'
  BY <1>10, <1>0 DEF RemoveTemp, MarkerInv, Recovering
<1>11. ASSUME NEW i \in Item, Upsert(i) PROVE MarkerInv'
  BY <1>11, <1>0 DEF Upsert, MarkerInv, Recovering
<1>12. ASSUME NEW i \in Item, Reject(i) PROVE MarkerInv'
  BY <1>12, <1>0 DEF Reject, MarkerInv, Recovering
<1>13. ASSUME NEW i \in Item, UpsertFails(i) PROVE MarkerInv'
  BY <1>13, <1>0 DEF UpsertFails, MarkerInv, Recovering
<1>14. ASSUME NEW i \in Item, MarkIndexed(i) PROVE MarkerInv'
  BY <1>14, <1>0 DEF MarkIndexed, MarkerInv, Recovering
<1>15. ASSUME NEW i \in Item, Delete(i) PROVE MarkerInv'
  BY <1>15, <1>0 DEF Delete, MarkerInv, Recovering
<1>16. ASSUME NEW targets \in SUBSET Item, Clean(targets) PROVE MarkerInv'
  BY <1>16, <1>0 DEF Clean, MarkerInv, Recovering
<1>17. ASSUME Settle PROVE MarkerInv'
  BY <1>17, <1>0 DEF Settle, MarkerInv, Recovering
<1>18. ASSUME NEW a \in op.todo, RecoverOne(a) PROVE MarkerInv'
  BY <1>18, <1>0 DEF RecoverOne, MarkerInv, Recovering
<1>19. ASSUME NEW a \in op.todo, Undo(a) PROVE MarkerInv'
  BY <1>19, <1>0, UndoIs DEF MarkerInv, Recovering
<1>20. ASSUME NEW a \in op.todo, UndoFails(a) PROVE MarkerInv'
  BY <1>20, <1>0 DEF UndoFails, MarkerInv, Recovering
<1>21. ASSUME NEW a \in op.todo, Finish(a) PROVE MarkerInv'
  BY <1>21, <1>0 DEF Finish, MarkerInv, Recovering
<1>22. ASSUME NEW a \in op.todo, FinishFails(a) PROVE MarkerInv'
  BY <1>22, <1>0 DEF FinishFails, MarkerInv, Recovering
<1>23. ASSUME RecoverFails PROVE MarkerInv'
  BY <1>23, <1>0 DEF RecoverFails, MarkerInv, Recovering
<1>24. ASSUME RecoverDone PROVE MarkerInv'
  <2>1. index' = index /\ UNCHANGED <<save, mark, there, pending, gone, rf, temp, faults>>
    BY <1>24, <1>0, RecoverDoneIs DEF SetIndex, Listed
  <2>2. op.step = "recover" /\ op'.step # "rename"
    BY <1>24, <1>0, RecoverDoneIs DEF Free
  <2> QED
    BY <1>24, <1>0, <2>1, <2>2 DEF MarkerInv, Recovering
<1>25. ASSUME WriteManifest PROVE MarkerInv'
  BY <1>25, <1>0, WriteManifestIs DEF MarkerInv, Recovering
<1>26. ASSUME RenameAway PROVE MarkerInv'
  BY <1>26, <1>0, RenameAwayIs DEF MarkerInv, WaitInv, ListedAfter, Waits, DiskOf, SaveOf,
     OwnOf, PendInv, OpInv, RfInv, TargetInv, FoundInv, TempInv, ThereInv, TypeOK,
     Recovering, Clear, Excused, Early, Around, Staging, Targets
<1>27. ASSUME RenameAwayFails PROVE MarkerInv'
  BY <1>27, <1>0, StagingFailsIs DEF MarkerInv, WaitInv, ListedAfter, Waits, DiskOf,
     RfInv, TargetInv, FoundInv, TempInv, ThereInv, OpStep, Recovering, Clear, Around,
     Staging, Targets, Active
<1>28. ASSUME StageFails PROVE MarkerInv'
  BY <1>28, <1>0, StagingFailsIs DEF MarkerInv, WaitInv, ListedAfter, Waits, DiskOf,
     RfInv, TargetInv, FoundInv, TempInv, ThereInv, OpStep, Recovering, Clear, Around,
     Staging, Targets, Active
<1>29. ASSUME UndoDone PROVE MarkerInv'
  BY <1>29, <1>0, UndoDoneIs DEF MarkerInv, Recovering
<1>30. ASSUME WriteIndex PROVE MarkerInv'
  BY <1>30, <1>0 DEF WriteIndex, MarkerInv, Recovering
<1>31. ASSUME FinishDone PROVE MarkerInv'
  BY <1>31, <1>0 DEF FinishDone, MarkerInv, Recovering
<1>32. ASSUME NEW took \in BOOLEAN, NEW seen \in BOOLEAN, WriteIndexFails(took, seen)
       PROVE  MarkerInv'
  BY <1>32, <1>0 DEF WriteIndexFails, MarkerInv, Recovering
<1>33. ASSUME NEW force \in BOOLEAN, Refresh(force) PROVE MarkerInv'
  BY <1>33, <1>0 DEF Refresh, MarkerInv, Recovering
<1>34. ASSUME NEW i \in Item, PassOver(i) PROVE MarkerInv'
  BY <1>34, <1>0 DEF Skip, PassOver, MarkerInv, Recovering
<1>35. ASSUME NEW i \in Item, Look(i) PROVE MarkerInv'
  BY <1>35, <1>0, LookIs DEF MarkerInv, WaitInv, ListedAfter, Waits, DiskOf, SaveOf,
     OwnOf, PendInv, OpInv, RfInv, TargetInv, FoundInv, TempInv, ThereInv, TypeOK,
     OpRecord, RfRecord, SaveStep, OpStep, Recovering, Clear, Excused, Early, Around,
     Staging, Targets, Saving, Active
<1>36. ASSUME LinkPng PROVE MarkerInv'
  BY <1>36, <1>0, LinkPngIs DEF MarkerInv, Recovering
<1>37. ASSUME WriteJson PROVE MarkerInv'
  BY <1>37, <1>0, WriteJsonIs DEF MarkerInv, Recovering
<1>38. ASSUME CommitSave PROVE MarkerInv'
  BY <1>38, <1>0, CommitSaveIs DEF MarkerInv, Recovering
<1>39. ASSUME RecoveryFails PROVE MarkerInv'
  BY <1>39, <1>0, BackIs DEF RecoveryFails, MarkerInv, Recovering, GoesOn
<1>40. ASSUME ScanDone PROVE MarkerInv'
  BY <1>40, <1>0 DEF ScanDone, MarkerInv, Recovering
<1>41. ASSUME Merge PROVE MarkerInv'
  BY <1>41, <1>0 DEF Merge, MarkerInv, Waits, Recovering, Clear, Rest
<1>42. ASSUME MarkMerged PROVE MarkerInv'
  BY <1>42, <1>0 DEF MarkMerged, MarkerInv, Recovering, Rest
<1>43. ASSUME DamageIndex PROVE MarkerInv'
  BY <1>43, <1>0 DEF DamageIndex, MarkerInv, Recovering
<1>44. ASSUME Crash PROVE MarkerInv'
  BY <1>44, <1>0 DEF Crash, MarkerInv, Waits, Recovering, Rest
<1>45. ASSUME UNCHANGED vars PROVE MarkerInv'
  BY <1>45, <1>0 DEF MarkerInv, Recovering
<1> QED
  BY <1>1, <1>2, <1>3, <1>4, <1>5, <1>6, <1>7, <1>8, <1>9, <1>10, <1>11, <1>12, <1>13,
     <1>14, <1>15, <1>16, <1>17, <1>18, <1>19, <1>20, <1>21, <1>22, <1>23, <1>24, <1>25,
     <1>26, <1>27, <1>28, <1>29, <1>30, <1>31, <1>32, <1>33, <1>34, <1>35, <1>36, <1>37,
     <1>38, <1>39, <1>40, <1>41, <1>42, <1>43, <1>44, <1>45 DEF Next, SaveNext,
     RemovalNext, RefreshNext

\* The file a removal is about to rename stays.
LEMMA StepThereInv == IndInv /\ [Next]_vars => ThereInv'
<1> SUFFICES ASSUME IndInv, [Next]_vars, Quiet' PROVE ThereInv'
  BY DEF ThereInv
<1> USE SavedAssumption, NoneAssumption, BoundsAssumption DEF IndInv, vars, files, ghosts,
     OthersRest, SavesRest, RemovalsRest, Goto, Owns, Fault, FilesOf, Artifact, File
<1>0. /\ Quiet /\ ~lost /\ ~damaged /\ faults \in Nat /\ faults' \in Nat /\ faults <= faults'
      /\ \A k \in Item : Clear(k)' /\ Clear(k) /\ SaveOf(k) /\ OwnOf(k) /\ DiskOf(k)
  BY StillQuiet DEF Quiet, Calm, Clear, Excused, SaveInv, OwnInv, DiskInv, LostInv
<1>00. This' = This \/ op'.item # op.item \/ op'.next # op.next
  BY SameFile
<1>1. ASSUME NEW i \in Item, WriteTemp(i) PROVE ThereInv'
  BY <1>1, <1>0, <1>00 DEF WriteTemp, ThereInv
<1>2. ASSUME NEW i \in Item, PublishMarker(i) PROVE ThereInv'
  BY <1>2, <1>0, <1>00 DEF PublishMarker, ThereInv
<1>3. ASSUME NEW i \in Item, Register(i) PROVE ThereInv'
  BY <1>3, <1>0, <1>00 DEF Register, ThereInv
<1>4. ASSUME NEW i \in Item, PublishPng(i) PROVE ThereInv'
  <2>1. there' \in {there} \cup {there \ {<<i, x>>} : x \in File} \/ there \subseteq there'
    BY <1>4, <1>0, <1>00 DEF PublishPng
  <2>2. op' = op /\ This' = This /\ save[i] \in Early
    BY <1>4, <1>0, <1>00, SameFile DEF PublishPng, Early
  <2>3. op.step = "rename" => This[1] = op.item /\ op.item # i
    <3>1. op.next \subseteq File /\ (op.step = "rename" => op.next # {})
      BY DEF OpInv, TypeOK, OpRecord
    <3>2. op.step = "rename" => This[1] = op.item
      BY <3>1, NextFile
    <3>3. op.step = "rename" => i \notin Targets
      BY <1>4, <1>0, <1>00, <2>2 DEF SaveOf
    <3> QED
      BY <3>2, <3>3 DEF Targets
  <2> QED
    BY <1>4, <1>0, <1>00, <2>1, <2>2, <2>3 DEF ThereInv
<1>5. ASSUME NEW i \in Item, PublishJson(i) PROVE ThereInv'
  BY <1>5, <1>0, <1>00 DEF PublishJson, ThereInv
<1>6. ASSUME NEW i \in Item, CommitMarker(i) PROVE ThereInv'
  BY <1>6, <1>0, <1>00 DEF CommitMarker, ThereInv
<1>7. ASSUME NEW i \in Item, PublishFails(i) PROVE ThereInv'
  BY <1>7, <1>0, <1>00 DEF PublishFails, ThereInv
<1>8. ASSUME NEW i \in Item, NEW f \in File, Remove(i, f) PROVE ThereInv'
  <2>1. there' \in {there} \cup {there \ {<<i, x>>} : x \in File} \/ there \subseteq there'
    BY <1>8, <1>0, <1>00 DEF Remove
  <2>2. op' = op /\ This' = This /\ save[i] \in Early
    BY <1>8, <1>0, <1>00, SameFile DEF Remove, Early
  <2>3. op.step = "rename" => This[1] = op.item /\ op.item # i
    <3>1. op.next \subseteq File /\ (op.step = "rename" => op.next # {})
      BY DEF OpInv, TypeOK, OpRecord
    <3>2. op.step = "rename" => This[1] = op.item
      BY <3>1, NextFile
    <3>3. op.step = "rename" => i \notin Targets
      BY <1>8, <1>0, <1>00, <2>2 DEF SaveOf
    <3> QED
      BY <3>2, <3>3 DEF Targets
  <2> QED
    BY <1>8, <1>0, <1>00, <2>1, <2>2, <2>3 DEF ThereInv
<1>9. ASSUME NEW i \in Item, NEW f \in File, RemoveFails(i, f) PROVE ThereInv'
  BY <1>9, <1>0, <1>00 DEF RemoveFails, ThereInv
<1>10. ASSUME NEW i \in Item, RemoveTemp(i) PROVE ThereInv'
  BY <1>10, <1>0, <1>00 DEF RemoveTemp, ThereInv
<1>11. ASSUME NEW i \in Item, Upsert(i) PROVE ThereInv'
  BY <1>11, <1>0, <1>00 DEF Upsert, ThereInv
<1>12. ASSUME NEW i \in Item, Reject(i) PROVE ThereInv'
  BY <1>12, <1>0, <1>00 DEF Reject, ThereInv
<1>13. ASSUME NEW i \in Item, UpsertFails(i) PROVE ThereInv'
  BY <1>13, <1>0, <1>00 DEF UpsertFails, ThereInv
<1>14. ASSUME NEW i \in Item, MarkIndexed(i) PROVE ThereInv'
  BY <1>14, <1>0, <1>00 DEF MarkIndexed, ThereInv
<1>15. ASSUME NEW i \in Item, Delete(i) PROVE ThereInv'
  BY <1>15, <1>0, <1>00 DEF Delete, ThereInv, Active, Start
<1>16. ASSUME NEW targets \in SUBSET Item, Clean(targets) PROVE ThereInv'
  BY <1>16, <1>0, <1>00 DEF Clean, ThereInv, Waits, Start
<1>17. ASSUME Settle PROVE ThereInv'
  BY <1>17, <1>0, <1>00 DEF Settle, ThereInv, Start
<1>18. ASSUME NEW a \in op.todo, RecoverOne(a) PROVE ThereInv'
  BY <1>18, <1>0, <1>00 DEF RecoverOne, ThereInv, TypeOK, OpRecord
<1>19. ASSUME NEW a \in op.todo, Undo(a) PROVE ThereInv'
  BY <1>19, <1>0, <1>00, UndoIs DEF ThereInv
<1>20. ASSUME NEW a \in op.todo, UndoFails(a) PROVE ThereInv'
  BY <1>20, <1>0, <1>00 DEF UndoFails, ThereInv
<1>21. ASSUME NEW a \in op.todo, Finish(a) PROVE ThereInv'
  BY <1>21, <1>0, <1>00 DEF Finish, ThereInv, TypeOK, OpRecord
<1>22. ASSUME NEW a \in op.todo, FinishFails(a) PROVE ThereInv'
  BY <1>22, <1>0, <1>00 DEF FinishFails, ThereInv
<1>23. ASSUME RecoverFails PROVE ThereInv'
  BY <1>23, <1>0, <1>00 DEF RecoverFails, ThereInv, Free
<1>24. ASSUME RecoverDone PROVE ThereInv'
  <2>1. index' = index /\ UNCHANGED <<save, mark, there, pending, gone, rf, temp, faults>>
    BY <1>24, <1>0, <1>00, RecoverDoneIs DEF SetIndex, Listed
  <2>2. op.step = "recover" /\ op'.step # "rename"
    BY <1>24, <1>0, <1>00, RecoverDoneIs DEF Free
  <2> QED
    BY <1>24, <1>0, <1>00, <2>1, <2>2 DEF ThereInv
<1>25. ASSUME WriteManifest PROVE ThereInv'
  BY <1>25, <1>0, <1>00, WriteManifestIs DEF ThereInv, Past
<1>26. ASSUME RenameAway PROVE ThereInv'
  BY <1>26, <1>0, <1>00, RenameAwayIs DEF ThereInv, Past
<1>27. ASSUME RenameAwayFails PROVE ThereInv'
  BY <1>27, <1>0, <1>00, StagingFailsIs DEF ThereInv
<1>28. ASSUME StageFails PROVE ThereInv'
  BY <1>28, <1>0, <1>00, StagingFailsIs DEF ThereInv
<1>29. ASSUME UndoDone PROVE ThereInv'
  BY <1>29, <1>0, <1>00, UndoDoneIs DEF ThereInv, Follows, Free
<1>30. ASSUME WriteIndex PROVE ThereInv'
  BY <1>30, <1>0, <1>00 DEF WriteIndex, ThereInv
<1>31. ASSUME FinishDone PROVE ThereInv'
  BY <1>31, <1>0, <1>00 DEF FinishDone, ThereInv, Free
<1>32. ASSUME NEW took \in BOOLEAN, NEW seen \in BOOLEAN, WriteIndexFails(took, seen)
       PROVE  ThereInv'
  BY <1>32, <1>0, <1>00 DEF WriteIndexFails, ThereInv, Free
<1>33. ASSUME NEW force \in BOOLEAN, Refresh(force) PROVE ThereInv'
  BY <1>33, <1>0, <1>00 DEF Refresh, ThereInv
<1>34. ASSUME NEW i \in Item, PassOver(i) PROVE ThereInv'
  BY <1>34, <1>0, <1>00 DEF PassOver, ThereInv
<1>35. ASSUME NEW i \in Item, Look(i) PROVE ThereInv'
  <2>1. UNCHANGED <<save, mark, pending, index, gone, temp, op, faults>>
    BY <1>35, <1>0, <1>00, LookIs
  <2>2. there' = there \/ there' = there \ {<<i, "marker">>}
    BY <1>35, <1>0, <1>00, LookIs
  <2>3. ASSUME op.step = "rename" PROVE This # <<i, "marker">> \/ there' = there
    <3>1. op.item \in index /\ This[1] = op.item
      BY <1>35, <1>0, <1>00, <2>3, NextFile DEF TargetInv, Targets, Staging, OpInv,
         TypeOK, OpRecord
    <3>2. ASSUME This = <<i, "marker">>, there' # there PROVE FALSE
      <4>1. i \in index /\ mark[i] = "prepared" /\ <<i, "json">> \notin there
        BY <1>35, <1>0, <1>00, <3>1, <3>2, LookIs
      <4>2. <<i, "json">> \notin pending
        BY <1>35, <1>0, <1>00, <4>1, LookClear DEF File
      <4> QED
        BY <1>35, <1>0, <1>00, <4>1, <4>2 DEF DiskOf, Around
    <3> QED
      BY <3>2
  <2>4. This' = This
    BY <2>1, SameFile
  <2> QED
    BY <1>35, <1>0, <1>00, <2>1, <2>2, <2>3, <2>4 DEF ThereInv
<1>36. ASSUME LinkPng PROVE ThereInv'
  BY <1>36, <1>0, <1>00, LinkPngIs DEF ThereInv
<1>37. ASSUME WriteJson PROVE ThereInv'
  BY <1>37, <1>0, <1>00, WriteJsonIs DEF ThereInv
<1>38. ASSUME CommitSave PROVE ThereInv'
  BY <1>38, <1>0, <1>00, CommitSaveIs DEF ThereInv
<1>39. ASSUME RecoveryFails PROVE ThereInv'
  BY <1>39, <1>0, <1>00, BackIs DEF RecoveryFails, ThereInv
<1>40. ASSUME ScanDone PROVE ThereInv'
  BY <1>40, <1>0, <1>00 DEF ScanDone, ThereInv
<1>41. ASSUME Merge PROVE ThereInv'
  BY <1>41, <1>0, <1>00 DEF Merge, ThereInv
<1>42. ASSUME MarkMerged PROVE ThereInv'
  BY <1>42, <1>0, <1>00 DEF MarkMerged, ThereInv
<1>43. ASSUME DamageIndex PROVE ThereInv'
  BY <1>43, <1>0, <1>00 DEF DamageIndex, ThereInv
<1>44. ASSUME Crash PROVE ThereInv'
  BY <1>44, <1>0, <1>00 DEF Crash, ThereInv, Free
<1>45. ASSUME UNCHANGED vars PROVE ThereInv'
  BY <1>45, <1>0, <1>00 DEF ThereInv
<1> QED
  BY <1>1, <1>2, <1>3, <1>4, <1>5, <1>6, <1>7, <1>8, <1>9, <1>10, <1>11, <1>12, <1>13,
     <1>14, <1>15, <1>16, <1>17, <1>18, <1>19, <1>20, <1>21, <1>22, <1>23, <1>24, <1>25,
     <1>26, <1>27, <1>28, <1>29, <1>30, <1>31, <1>32, <1>33, <1>34, <1>35, <1>36, <1>37,
     <1>38, <1>39, <1>40, <1>41, <1>42, <1>43, <1>44, <1>45 DEF Next, SaveNext,
     RemovalNext, RefreshNext

\* It takes three faults for a refresh to meet what a removal left.
LEMMA StepCrossInv == IndInv /\ [Next]_vars => CrossInv'
<1> SUFFICES ASSUME IndInv, [Next]_vars PROVE CrossInv'
  OBVIOUS
<1> USE SavedAssumption, NoneAssumption, BoundsAssumption DEF IndInv, Grows, vars, files,
     ghosts, OthersRest, SavesRest, RemovalsRest, Goto, Owns, Fault, FilesOf, Artifact, File
<1>0. Grows /\ (Calm' => Calm)
  BY StepGrows, StillQuiet
<1>1. ASSUME NEW i \in Item, WriteTemp(i) PROVE CrossInv'
  BY <1>1, <1>0 DEF WriteTemp, CrossInv
<1>2. ASSUME NEW i \in Item, PublishMarker(i) PROVE CrossInv'
  BY <1>2, <1>0 DEF PublishMarker, CrossInv
<1>3. ASSUME NEW i \in Item, Register(i) PROVE CrossInv'
  BY <1>3, <1>0 DEF Register, CrossInv
<1>4. ASSUME NEW i \in Item, PublishPng(i) PROVE CrossInv'
  BY <1>4, <1>0 DEF PublishPng, CrossInv
<1>5. ASSUME NEW i \in Item, PublishJson(i) PROVE CrossInv'
  BY <1>5, <1>0 DEF PublishJson, CrossInv
<1>6. ASSUME NEW i \in Item, CommitMarker(i) PROVE CrossInv'
  BY <1>6, <1>0 DEF CommitMarker, CrossInv
<1>7. ASSUME NEW i \in Item, PublishFails(i) PROVE CrossInv'
  BY <1>7, <1>0 DEF PublishFails, CrossInv
<1>8. ASSUME NEW i \in Item, NEW f \in File, Remove(i, f) PROVE CrossInv'
  BY <1>8, <1>0 DEF Remove, CrossInv
<1>9. ASSUME NEW i \in Item, NEW f \in File, RemoveFails(i, f) PROVE CrossInv'
  BY <1>9, <1>0 DEF RemoveFails, CrossInv
<1>10. ASSUME NEW i \in Item, RemoveTemp(i) PROVE CrossInv'
  BY <1>10, <1>0 DEF RemoveTemp, CrossInv
<1>11. ASSUME NEW i \in Item, Upsert(i) PROVE CrossInv'
  BY <1>11, <1>0 DEF Upsert, CrossInv
<1>12. ASSUME NEW i \in Item, Reject(i) PROVE CrossInv'
  BY <1>12, <1>0 DEF Reject, CrossInv
<1>13. ASSUME NEW i \in Item, UpsertFails(i) PROVE CrossInv'
  BY <1>13, <1>0 DEF UpsertFails, CrossInv
<1>14. ASSUME NEW i \in Item, MarkIndexed(i) PROVE CrossInv'
  BY <1>14, <1>0 DEF MarkIndexed, CrossInv
<1>15. ASSUME NEW i \in Item, Delete(i) PROVE CrossInv'
  BY <1>15, <1>0 DEF Delete, CrossInv
<1>16. ASSUME NEW targets \in SUBSET Item, Clean(targets) PROVE CrossInv'
  BY <1>16, <1>0 DEF Clean, CrossInv
<1>17. ASSUME Settle PROVE CrossInv'
  BY <1>17, <1>0 DEF Settle, CrossInv
<1>18. ASSUME NEW a \in op.todo, RecoverOne(a) PROVE CrossInv'
  BY <1>18, <1>0 DEF RecoverOne, CrossInv
<1>19. ASSUME NEW a \in op.todo, Undo(a) PROVE CrossInv'
  BY <1>19, <1>0, UndoIs DEF CrossInv, Calm, TypeOK
<1>20. ASSUME NEW a \in op.todo, UndoFails(a) PROVE CrossInv'
  BY <1>20, <1>0 DEF UndoFails, CrossInv
<1>21. ASSUME NEW a \in op.todo, Finish(a) PROVE CrossInv'
  BY <1>21, <1>0 DEF Finish, CrossInv
<1>22. ASSUME NEW a \in op.todo, FinishFails(a) PROVE CrossInv'
  BY <1>22, <1>0 DEF FinishFails, CrossInv
<1>23. ASSUME RecoverFails PROVE CrossInv'
  BY <1>23, <1>0 DEF RecoverFails, CrossInv
<1>24. ASSUME RecoverDone PROVE CrossInv'
  BY <1>24, <1>0, RecoverDoneIs DEF CrossInv
<1>25. ASSUME WriteManifest PROVE CrossInv'
  BY <1>25, <1>0, WriteManifestIs DEF CrossInv
<1>26. ASSUME RenameAway PROVE CrossInv'
  BY <1>26, <1>0, RenameAwayIs DEF CrossInv
<1>27. ASSUME RenameAwayFails PROVE CrossInv'
  BY <1>27, <1>0, StagingFailsIs DEF CrossInv, Calm, TypeOK
<1>28. ASSUME StageFails PROVE CrossInv'
  BY <1>28, <1>0, StagingFailsIs DEF CrossInv, Calm, TypeOK
<1>29. ASSUME UndoDone PROVE CrossInv'
  BY <1>29, <1>0, UndoDoneIs DEF CrossInv
<1>30. ASSUME WriteIndex PROVE CrossInv'
  BY <1>30, <1>0 DEF WriteIndex, CrossInv
<1>31. ASSUME FinishDone PROVE CrossInv'
  BY <1>31, <1>0 DEF FinishDone, CrossInv
<1>32. ASSUME NEW took \in BOOLEAN, NEW seen \in BOOLEAN, WriteIndexFails(took, seen)
       PROVE  CrossInv'
  BY <1>32, <1>0 DEF WriteIndexFails, CrossInv
<1>33. ASSUME NEW force \in BOOLEAN, Refresh(force) PROVE CrossInv'
  BY <1>33, <1>0 DEF Refresh, CrossInv
<1>34. ASSUME NEW i \in Item, PassOver(i) PROVE CrossInv'
  BY <1>34, <1>0 DEF PassOver, CrossInv
<1>35. ASSUME NEW i \in Item, Look(i) PROVE CrossInv'
  <2> SUFFICES ASSUME Calm', crossed = {}, crossed' # {} PROVE faults' > 2
    <3>1. crossed' # {} /\ Calm' /\ crossed # {} => faults > 2 /\ faults' = faults
      BY <1>35, <1>0, LookIs DEF CrossInv
    <3> QED
      BY <1>0, <3>1 DEF CrossInv
  <2>1. /\ mark[i] = "prepared" /\ pending \cap FilesOf(i) # {} /\ ~Saving(i)
        /\ <<i, "marker">> \in there /\ Quiet /\ UNCHANGED <<lost, faults>>
    BY <1>35, <1>0, LookIs DEF Quiet, Calm
  <2>2. Clear(i) /\ SaveOf(i) /\ DiskOf(i) /\ Away(i)
    BY <2>1 DEF Quiet, Calm, Clear, Excused, SaveInv, DiskInv, Away, FilesOf
  <2>3. save[i] = "over" /\ i \notin gone
    BY <2>1, <2>2 DEF SaveOf, DiskOf, Early, Saving, File
  <2>4. Waits(i)
    BY <2>1, <2>3 DEF Waits, Around
  <2>5. faults >= 3
    BY <2>1, <2>2, <2>3, <2>4 DEF WaitInv, AwayAfter
  <2> QED
    BY <1>0, <2>1, <2>5
<1>36. ASSUME LinkPng PROVE CrossInv'
  BY <1>36, <1>0, LinkPngIs DEF CrossInv, Calm, TypeOK
<1>37. ASSUME WriteJson PROVE CrossInv'
  BY <1>37, <1>0, WriteJsonIs DEF CrossInv, Calm, TypeOK
<1>38. ASSUME CommitSave PROVE CrossInv'
  BY <1>38, <1>0, CommitSaveIs DEF CrossInv, Calm, TypeOK
<1>39. ASSUME RecoveryFails PROVE CrossInv'
  BY <1>39, <1>0, BackIs DEF RecoveryFails, CrossInv
<1>40. ASSUME ScanDone PROVE CrossInv'
  BY <1>40, <1>0 DEF ScanDone, CrossInv
<1>41. ASSUME Merge PROVE CrossInv'
  BY <1>41, <1>0 DEF Merge, CrossInv
<1>42. ASSUME MarkMerged PROVE CrossInv'
  BY <1>42, <1>0 DEF MarkMerged, CrossInv
<1>43. ASSUME DamageIndex PROVE CrossInv'
  BY <1>43, <1>0 DEF DamageIndex, CrossInv
<1>44. ASSUME Crash PROVE CrossInv'
  BY <1>44, <1>0 DEF Crash, CrossInv
<1>45. ASSUME UNCHANGED vars PROVE CrossInv'
  BY <1>45, <1>0 DEF CrossInv, Calm, TypeOK
<1> QED
  BY <1>1, <1>2, <1>3, <1>4, <1>5, <1>6, <1>7, <1>8, <1>9, <1>10, <1>11, <1>12, <1>13,
     <1>14, <1>15, <1>16, <1>17, <1>18, <1>19, <1>20, <1>21, <1>22, <1>23, <1>24, <1>25,
     <1>26, <1>27, <1>28, <1>29, <1>30, <1>31, <1>32, <1>33, <1>34, <1>35, <1>36, <1>37,
     <1>38, <1>39, <1>40, <1>41, <1>42, <1>43, <1>44, <1>45 DEF Next, SaveNext,
     RemovalNext, RefreshNext

\* The faults behind a save that waits are kept.
LEMMA StepWaitInv == IndInv /\ [Next]_vars => WaitInv'
<1> SUFFICES ASSUME IndInv, [Next]_vars, Quiet', NEW j \in Item, Waits(j)'
             PROVE  (WaitsAfter(j) /\ ListedAfter(j) /\ AwayAfter(j) /\ TakenUp(j))'
  BY DEF WaitInv
<1>1. Quiet /\ faults \in Nat /\ faults' \in Nat /\ faults <= faults'
  BY StillQuiet
<1>2. CASE Waits(j)
  <2>1. faults >= 1
    BY <1>1, <1>2 DEF IndInv, WaitInv, WaitsAfter
  <2> QED
    BY <1>1, <1>2, <2>1, StepListed, StepAway, StepTaken DEF WaitsAfter
<1>3. CASE ~Waits(j)
  <2>1. /\ rf' = Rest /\ op' = Free /\ faults' = faults + 1 /\ j \notin index' \cup gone'
        /\ ~Away(j)'
    BY <1>3, StepWaits DEF WaitsBefore
  <2> QED
    BY <1>1, <2>1 DEF WaitsAfter, ListedAfter, AwayAfter, TakenUp, Rest, Recovering
<1> QED
  BY <1>2, <1>3

\* The store begins with whole digests and nothing under way.
LEMMA InitHistory == Init => IndInv
<1> SUFFICES ASSUME Init PROVE IndInv
  OBVIOUS
<1> USE SavedAssumption, NoneAssumption, BoundsAssumption
<1>1. TypeOK
  <2>1. there \in SUBSET Artifact
    BY DEF Init, Artifact
  <2>2. /\ mark \in [Item -> {"prepared", "committed", "indexed"}]
        /\ save \in [Item -> SaveStep] /\ own \in [Item -> SUBSET File]
    BY DEF Init, SaveStep
  <2>3. faults \in 0..MaxFault
    BY DEF Init
  <2>4. op \in OpRecord /\ rf \in RfRecord
    BY FreeType DEF Init
  <2>5. damaged \in BOOLEAN /\ recovered \in BOOLEAN /\ lost \in BOOLEAN
    BY DEF Init
  <2>6. /\ pending \in SUBSET Artifact /\ manifest \in SUBSET Artifact /\ temp \in SUBSET Item
        /\ index \in SUBSET Item /\ gone \in SUBSET Item /\ beside \in SUBSET Item
        /\ crossed \in SUBSET Item
    BY DEF Init
  <2> QED
    BY <2>1, <2>2, <2>3, <2>4, <2>5, <2>6 DEF TypeOK
<1>2. /\ op.step = "free" /\ ~op.blind /\ rf.step = "idle" /\ rf.needs = {} /\ pending = {}
      /\ ~damaged /\ gone = {} /\ beside = {} /\ crossed = {}
      /\ there = Saved \X File /\ index = Saved
  BY DEF Init, Free, Rest
<1>3. \A i \in Item :
        /\ i \in Saved => save[i] = "over" /\ mark[i] = "indexed"
        /\ i \notin Saved => save[i] = "none" /\ mark[i] = "prepared"
        /\ own[i] = {}
        /\ \A f \in File : <<i, f>> \in there <=> i \in Saved
  BY <1>2 DEF Init
<1>4. SaveInv
  BY <1>2, <1>3 DEF SaveInv, SaveOf, Early, Recovering
<1>5. OwnInv
  BY <1>2, <1>3 DEF OwnInv, OwnOf
<1>6. PendInv /\ OpInv /\ RfInv /\ LostInv
  BY <1>2 DEF PendInv, OpInv, RfInv, LostInv, Staging, Recovering
<1>7. DiskInv
  BY <1>2, <1>3 DEF DiskInv, DiskOf, Around, File
<1>8. TargetInv /\ FoundInv
  BY <1>2 DEF TargetInv, FoundInv, Staging, Recovering
<1>9. WaitInv
  BY <1>2, <1>3 DEF WaitInv, Waits
<1>10. TempInv /\ MarkerInv /\ ThereInv /\ CrossInv
  BY <1>2 DEF TempInv, MarkerInv, ThereInv, CrossInv, Recovering
<1> QED
  BY <1>1, <1>4, <1>5, <1>6, <1>7, <1>8, <1>9, <1>10 DEF IndInv

\* Every step keeps the invariant.
LEMMA StepHistory == IndInv /\ [Next]_vars => IndInv'
<1> SUFFICES ASSUME IndInv, [Next]_vars PROVE IndInv'
  OBVIOUS
<1>1. TypeOK'
  BY StepRestType, StepOpType, StepRfType DEF TypeOK, RestType
<1>2. SaveInv' /\ OwnInv' /\ PendInv' /\ OpInv' /\ RfInv' /\ LostInv'
  BY StepSaveInv, StepOwnInv, StepPendInv, StepOpInv, StepRfInv, StepLostInv
<1>3. DiskInv' /\ TargetInv' /\ FoundInv'
  BY StepDiskInv, StepTargetInv, StepFoundInv
<1>4. WaitInv' /\ TempInv' /\ MarkerInv' /\ ThereInv' /\ CrossInv'
  BY StepWaitInv, StepTempInv, StepMarkerInv, StepThereInv, StepCrossInv
<1> QED
  BY <1>1, <1>2, <1>3, <1>4 DEF IndInv

\* What the invariant says of a digest that is not excused while the index was never
\* damaged.
LEMMA KnownOf ==
  ASSUME IndInv, NEW i \in Item, ~Excused(i)
  PROVE  /\ SaveOf(i) /\ OwnOf(i) /\ (~lost => DiskOf(i))
         /\ \A f \in File : <<i, f>> \in pending => <<i, f>> \notin there /\ <<i, f>> \in manifest
BY DEF IndInv, SaveInv, OwnInv, DiskInv, PendInv, Clear

\* The invariant says that what is listed is kept.
LEMMA IndListed == IndInv => ListedIsKept
<1> SUFFICES ASSUME IndInv, NEW i \in index, ~Excused(i), ~lost PROVE Kept(i)
  BY DEF ListedIsKept
<1>1. i \in Item
  BY DEF IndInv, TypeOK
<1>2. <<i, "json">> \in Around /\ <<i, "png">> \in Around
  BY <1>1, KnownOf DEF DiskOf
<1>3. \A f \in File : <<i, f>> \in Around => <<i, f>> \in there \cup (pending \cap manifest)
  BY <1>1, KnownOf DEF Around
<1> QED
  BY <1>2, <1>3 DEF Kept, File

\* The invariant says that what was removed stays away.
LEMMA IndRemoved == IndInv => RemovedStaysAway
BY KnownOf DEF RemovedStaysAway, DiskOf, IndInv, TypeOK

\* The invariant says that saves are settled.
LEMMA IndSettled == IndInv => SavesAreSettled
<1> SUFFICES ASSUME IndInv PROVE SavesAreSettled
  OBVIOUS
<1>1. TypeOK
  BY DEF IndInv
<1>2. IndexedMarkerIsTrue
  <2> SUFFICES ASSUME NEW i \in Item, <<i, "marker">> \in there, mark[i] = "indexed",
                      ~Excused(i), ~lost
               PROVE  i \in index
    BY DEF IndexedMarkerIsTrue
  <2> QED
    BY KnownOf DEF DiskOf, File
<1>3. WholeAtRest
  <2> SUFFICES ASSUME NEW i \in Item, ~Saving(i), ~Excused(i), ~lost,
                      manifest \cap FilesOf(i) = {},
                      ~(<<i, "marker">> \in there /\ mark[i] = "prepared")
               PROVE  <<i, "png">> \in there <=> <<i, "json">> \in there
    BY DEF WholeAtRest
  <2>1. \A f \in File : <<i, f>> \notin pending
    BY KnownOf DEF FilesOf
  <2>2. SaveOf(i) /\ OwnOf(i) /\ DiskOf(i)
    BY KnownOf
  <2>3. CASE save[i] = "none"
    BY <2>2, <2>3 DEF SaveOf, OwnOf, Early, File
  <2>4. CASE save[i] = "over"
    BY <2>1, <2>2, <2>4 DEF DiskOf, Around, File
  <2> QED
    BY <2>3, <2>4 DEF Saving
<1> QED
  BY <1>1, <1>2, <1>3 DEF SavesAreSettled

\* The invariant says that leftovers can be settled.
LEMMA IndLeftovers == IndInv => LeftoversCanBeSettled
BY DEF LeftoversCanBeSettled, NameStaysFree, LeftoversHaveManifest, IndInv, PendInv, Clear

\* The invariant holds of every behaviour of the store.
THEOREM HistoryInvariance == Spec => []IndInv
<1>1. Init => IndInv
  BY InitHistory
<1>2. IndInv /\ [Next]_vars => IndInv'
  BY StepHistory
<1> QED
  BY <1>1, <1>2, PTL DEF Spec

\* Whatever is listed is on disk, or under a pending name whose manifest brings it back.
THEOREM ListedStaysKept == Spec => []ListedIsKept
BY HistoryInvariance, IndListed, PTL

\* A removed digest does not come back.
THEOREM RemovalIsFinal == Spec => []RemovedStaysAway
BY HistoryInvariance, IndRemoved, PTL

\* Every save is done for good, or still to be completed or taken back, and its
\* marker says which.
THEOREM SavesStaySettled == Spec => []SavesAreSettled
BY HistoryInvariance, IndSettled, PTL

\* What an interrupted removal left can always be settled.
THEOREM LeftoversStaySettleable == Spec => []LeftoversCanBeSettled
BY HistoryInvariance, IndLeftovers, PTL

\* Unless a refresh went beside a save or the index was damaged, it takes three
\* faults for a refresh to meet what a removal left.
CrossingTakesThreeFaults == beside = {} /\ ~lost => crossed = {} \/ faults > 2

\* No one or two faults suffice for it.
THEOREM CrossingIsRare == Spec => []CrossingTakesThreeFaults
<1>1. IndInv => CrossingTakesThreeFaults
  BY DEF IndInv, CrossInv, Calm, CrossingTakesThreeFaults
<1> QED
  BY <1>1, HistoryInvariance, PTL
=============================================================================
