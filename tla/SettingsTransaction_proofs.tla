---------------------- MODULE SettingsTransaction_proofs ----------------------
(***************************************************************************)
(* Proofs about the settings transaction, for any number of clients, saves *)
(* and faults, and for loads of either kind: those that take a turn in the *)
(* queue and those that go beside the saves.                               *)
(***************************************************************************)
EXTENDS SettingsTransaction, TLAPS

\* A recovery that has yet to say, by Mark, that the files are restored.
Restoring == {"backups", "restore_settings", "restore_secrets", "mark"}
Prepared == journal.state = "prepared"

\* The journal belongs to a save, and no file is confirmed that is not begun.
CountInv ==
  /\ journal.state # "none" => journal.id \in Save
  /\ \A k \in Kind : acked[k] <= saves

\* A rollback takes nothing back that was confirmed.
AckInv ==
  /\ \A k \in Kind : file[k] >= acked[k]
  /\ Prepared => \A k \in Kind : entries[journal.id][k] >= acked[k]

\* A prepared journal has its backups; the files belong together or, while a
\* journal is prepared, the backups do.
WholeInv ==
  /\ Prepared => HasBackups(journal.id) /\ Pair(entries[journal.id]) \in legit
  /\ ~Prepared => Pair(file) \in legit

\* Who saves has the turn, and what is under way has a transaction.
ReqInv(p) ==
  /\ req[p].goal # "view" \/ req[p].pc \in Saving \/ req[p].then # "load" => p = saver
  /\ req[p].pc \in Saving => req[p].goal = "save"
  /\ req[p].goal = "save" => saves \in Save
  /\ req[p].pc \in Recovering => req[p].txn \in Save
  /\ req[p].then # "load" => /\ req[p].goal = "save" /\ req[p].pc \in Recovering
                             /\ req[p].txn = saves /\ change = "both"
  /\ req[p].then = "acked" => req[p].pc \notin Restoring
  /\ req[p].pc \in Preparing \cup {"commit"} => change = "both"
  /\ req[p].pc = "write" => change # "secrets"
  /\ req[p].pc = "rename" => change # "settings"

\* What a save is to leave was noted when it began to write.
NotedInv(p) == req[p].pc \in Saving => Intended(p) \in legit

\* Nobody recovers beside the one whose turn it is.
QuietInv(p) == saver # None /\ p # saver => req[p].pc \notin Recovering

\* What the one whose turn it is has read is what the files contain, until it
\* writes them.
GotInv(p) ==
  p = saver =>
    /\ req[p].pc \in {"secrets", "revision", "write"} \cup Preparing
         \/ (req[p].pc = "rename" /\ change = "secrets")
         => req[p].got["settings"] = file["settings"]
    /\ req[p].pc \in {"revision", "write"} \cup Preparing
         => req[p].got["secrets"] = file["secrets"]
    /\ req[p].pc \in {"back_secrets", "prepare"} => entries[saves]["settings"] = file["settings"]
    /\ req[p].pc = "prepare" => entries[saves]["secrets"] = file["secrets"]

\* The journal is its own or asks for nothing, and what it has written stays.
TurnInv(p) ==
  p = saver =>
    /\ req[p].pc \in {"settings", "secrets", "revision"} \cup Preparing
         \/ (req[p].pc \in Saving /\ change # "both")
         \/ (req[p].pc \in {"drop", "drop_journal"} /\ req[p].then # "failed")
         => ~Prepared
    /\ req[p].pc \in {"write", "rename", "commit"} /\ change = "both"
         => Prepared /\ journal.id = saves
    /\ req[p].pc \in {"rename", "commit"} /\ change = "both" => file["settings"] = saves
    /\ req[p].pc = "commit" \/ req[p].then = "acked" => \A k \in Kind : file[k] = saves

\* A restoration takes nothing back that was confirmed.
RestoreInv(p) ==
  req[p].pc \in Restoring => \A k \in Kind : entries[req[p].txn][k] >= acked[k]

\* Nobody removes the backups of a prepared journal.
BackInv(p) ==
  /\ req[p].pc \in {"drop", "drop_journal"} => ~Prepared
  /\ req[p].pc \in {"back_secrets", "prepare"} /\ entries[saves]["settings"] # NoFile
       => <<saves, "settings">> \in backup
  /\ req[p].pc = "prepare" => HasBackups(saves)

\* A restoration under way leads back to the backups of the journal.
LeadInv(p) ==
  req[p].pc \in Restoring =>
    /\ Prepared => req[p].txn = journal.id
    /\ ~Prepared => Pair(file) = Pair(entries[req[p].txn])
    /\ req[p].pc \in {"restore_secrets", "mark"}
         => file["settings"] = entries[req[p].txn]["settings"]
    /\ req[p].pc = "mark" => file["secrets"] = entries[req[p].txn]["secrets"]

\* A document that waited for the writes was read at once, and a patch on it that
\* goes through changes just these contents.
ViewInv(p) ==
  view[p].settled =>
    /\ view[p].revision = Pair(view[p].content)
    /\ ~unsure => Pair(view[p].content) \in legit
    /\ req[p].goal = "save" /\ change # "secrets" /\ req[p].pc \in Saving
         => view[p].content = req[p].got

DiskInv ==
  /\ CountInv
  /\ ~raced => AckInv
  /\ ~raced /\ ~unsure => WholeInv

RequestInv(p) ==
  /\ ReqInv(p) /\ NotedInv(p)
  /\ ~raced => QuietInv(p) /\ GotInv(p) /\ TurnInv(p) /\ RestoreInv(p) /\ ViewInv(p)
  /\ ~raced /\ ~unsure => BackInv(p) /\ LeadInv(p)

IndInv == TypeOK /\ DiskInv /\ \A p \in Client : RequestInv(p)
-----------------------------------------------------------------------------
(* What a step makes of the request it belongs to *)

PCs == {"idle"} \cup Loading \cup Recovering \cup Saving

\* The request of p is now this one, the others are what they were.
Now(p, l, goal, got, txn, then) ==
  /\ req' \in [Client -> Request]
  /\ req'[p].pc = l /\ req'[p].goal = goal /\ req'[p].got = got
  /\ req'[p].txn = txn /\ req'[p].then = then
  /\ \A q \in Client : q # p => req'[q] = req[q]

\* A step that gives p a request gives it exactly this one.
LEMMA NowIntro ==
  ASSUME req \in [Client -> Request], NEW p \in Client,
         NEW r \in Request, req' = [req EXCEPT ![p] = r]
  PROVE  Now(p, r.pc, r.goal, r.got, r.txn, r.then)
  BY DEF Now

\* A request may be at any place of a load, a recovery or a save.
LEMMA RequestType ==
  ASSUME NEW r \in Request
  PROVE  /\ r.pc \in PCs /\ r.goal \in {"view", "settled", "save"} /\ r.got \in Content
         /\ r.txn \in 0..MaxSave /\ r.then \in {"load", "failed", "acked"}
  BY DEF Request, PCs

\* Going on in the same request (Goto).
LEMMA GotoNow ==
  ASSUME req \in [Client -> Request], NEW p \in Client, NEW l \in PCs, Goto(p, l)
  PROVE  Now(p, l, req[p].goal, req[p].got, req[p].txn, req[p].then)
  <1> DEFINE r == [req[p] EXCEPT !.pc = l]
  <1>1. r \in Request /\ r.pc = l /\ r.goal = req[p].goal /\ r.got = req[p].got
        /\ r.txn = req[p].txn /\ r.then = req[p].then
    BY DEF Request, PCs
  <1>2. req' = [req EXCEPT ![p] = r]
    BY DEF Goto
  <1> QED BY <1>1, <1>2, NowIntro

\* Going on under another transaction (GotoTxn).
LEMMA GotoTxnNow ==
  ASSUME req \in [Client -> Request], NEW p \in Client, NEW l \in PCs, NEW t \in 0..MaxSave,
         NEW n \in {"load", "failed", "acked"}, GotoTxn(p, l, t, n)
  PROVE  Now(p, l, req[p].goal, req[p].got, t, n)
  <1> DEFINE r == [req[p] EXCEPT !.pc = l, !.txn = t, !.then = n]
  <1>1. r \in Request /\ r.pc = l /\ r.goal = req[p].goal /\ r.got = req[p].got
        /\ r.txn = t /\ r.then = n
    BY DEF Request, PCs
  <1>2. req' = [req EXCEPT ![p] = r]
    BY DEF GotoTxn
  <1> QED BY <1>1, <1>2, NowIntro

\* A client that asks for nothing is a client.
LEMMA IdleType ==
  /\ Idle \in Request /\ NoContent \in Content
  /\ Idle.pc = "idle" /\ Idle.goal = "view" /\ Idle.got = NoContent /\ Idle.txn = 0
  /\ Idle.then = "load"
  BY BoundsAssumption DEF Idle, Request, Content, NoContent, Version, NoFile

\* A load begins with nothing read and no transaction.
LEMMA LoadForNow ==
  ASSUME req \in [Client -> Request], NEW p \in Client,
         NEW g \in {"view", "settled", "save"}, req' = [req EXCEPT ![p] = LoadFor(g)]
  PROVE  Now(p, "journal", g, NoContent, 0, "load")
  <1> DEFINE r == [Idle EXCEPT !.pc = "journal", !.goal = g]
  <1>1. r \in Request /\ r.pc = "journal" /\ r.goal = g /\ r.got = NoContent
        /\ r.txn = 0 /\ r.then = "load"
    BY IdleType DEF Request, Loading
  <1>2. req' = [req EXCEPT ![p] = r]
    BY DEF LoadFor
  <1> HIDE DEF r
  <1> QED BY <1>1, <1>2, NowIntro

\* The request of p is over, and so is its turn.
Ended(p) ==
  /\ Now(p, "idle", "view", NoContent, 0, "load")
  /\ saver' = IF saver = p THEN None ELSE saver

\* The end of a request leaves its client idle and gives the turn up.
LEMMA EndNow ==
  ASSUME req \in [Client -> Request], NEW p \in Client, End(p)
  PROVE  Ended(p)
  BY NowIntro, IdleType DEF End, Idle, Ended

\* A confirmed save reads the settings back (ReadBack).
LEMMA ReadBackNow ==
  ASSUME req \in [Client -> Request], NEW p \in Client, ReadBack(p)
  PROVE  Now(p, "journal", "settled", NoContent, 0, "load")
  BY LoadForNow DEF ReadBack
-----------------------------------------------------------------------------
\* The versions of a file are numbers.
LEMMA VersionType ==
  /\ 0..MaxSave \subseteq Version /\ Save \subseteq 0..MaxSave
  /\ NoFile \in Version /\ Version \subseteq Int
  BY BoundsAssumption DEF Version, NoFile, Save

\* What the invariant says of the request a step belongs to.
LEMMA Known ==
  ASSUME IndInv, NEW p \in Client
  PROVE  /\ TypeOK /\ DiskInv /\ RequestInv(p) /\ req[p] \in Request
         /\ req[p].pc \in PCs /\ req[p].goal \in {"view", "settled", "save"} /\ req[p].got \in Content
         /\ req[p].txn \in 0..MaxSave /\ req[p].then \in {"load", "failed", "acked"}
         /\ saves \in 0..MaxSave /\ saves \in Version /\ journal.id \in 0..MaxSave
  BY RequestType, VersionType DEF IndInv, TypeOK
-----------------------------------------------------------------------------
\* What was noted as written together stays noted.
LEMMA NotedStays ==
  ASSUME NEW q \in Client, NotedInv(q), req'[q] = req[q], legit \subseteq legit',
         change' = change, saves' = saves
  PROVE  NotedInv(q)'
  <1>1. Intended(q)' = Intended(q)
    BY DEF Intended
  <1> QED BY <1>1 DEF NotedInv

\* A recovery restores what a save may have backed up.
LEMMA BackedUp ==
  ASSUME IndInv, NEW p \in Client, req[p].pc \in Recovering
  PROVE  req[p].txn \in Save /\ entries[req[p].txn] \in Content
  BY Known DEF RequestInv, ReqInv, TypeOK

\* A replaced file is of the same kind, the other file is what it was.
LEMMA Replaced ==
  ASSUME file \in Content, NEW k \in Kind, NEW v, Replace(k, v)
  PROVE  /\ file'[k] = v
         /\ \A j \in Kind : j # k => file'[j] = file[j]
  BY DEF Replace, Content

\* The same versions make the same pair.
LEMMA PairEqual ==
  ASSUME NEW c \in Content, NEW d \in Content, Pair(c) = Pair(d)
  PROVE  c = d
  BY DEF Pair, Content, Kind

\* What a restoration writes is what the others write, and what is there once
\* the journal is finished.
LEMMA RestoredFile ==
  ASSUME IndInv, ~raced, ~unsure, NEW p \in Client, NEW k \in Kind, At(p, RestoreStep[k]),
         file' = file \/ Replace(k, entries[req[p].txn][k])
  PROVE  /\ ~Prepared => \A j \in Kind : file'[j] = file[j]
         /\ \A q \in Client : req[q].pc \in Restoring =>
              /\ req[q].pc \in {"restore_secrets", "mark"}
                   => file'["settings"] = entries[req[q].txn]["settings"]
              /\ req[q].pc = "mark" => file'["secrets"] = entries[req[q].txn]["secrets"]
  <1>1. req[p].pc \in Restoring
    BY DEF At, RestoreStep, Restoring, Kind
  <1>2. file \in Content
    BY Known DEF TypeOK
  <1>3. ~Prepared => \A j \in Kind : file[j] = entries[req[p].txn][j]
    BY <1>1, Known DEF RequestInv, LeadInv, Pair, Kind
  <1>4. ASSUME ~Prepared PROVE \A j \in Kind : file'[j] = file[j]
    BY <1>2, <1>3, <1>4, Replaced
  <1>5. ASSUME NEW q \in Client, req[q].pc \in Restoring
        PROVE  /\ req[q].pc \in {"restore_secrets", "mark"}
                    => file'["settings"] = entries[req[q].txn]["settings"]
               /\ req[q].pc = "mark" => file'["secrets"] = entries[req[q].txn]["secrets"]
    <2>1. LeadInv(p) /\ LeadInv(q)
      BY Known DEF RequestInv
    <2>2. CASE Prepared
      <3>1. req[p].txn = journal.id /\ req[q].txn = journal.id
        BY <1>1, <1>5, <2>1, <2>2 DEF LeadInv
      <3> QED BY <1>2, <1>5, <2>1, <3>1, Replaced DEF LeadInv, Kind
    <2>3. CASE ~Prepared
      BY <1>4, <1>5, <2>1, <2>3 DEF LeadInv, Kind
    <2> QED BY <2>2, <2>3
  <1> QED BY <1>4, <1>5

\* What a client is shown stays as it was for who is not concerned.
LEMMA ViewStays ==
  ASSUME NEW q \in Client, ViewInv(q), view'[q] = view[q], legit \subseteq legit',
         unsure => unsure',
         req'[q].goal = "save" =>
           /\ req[q].goal = "save" /\ change' = change /\ req'[q].got = req[q].got
           /\ req'[q].pc \in Saving => req[q].pc \in Saving
  PROVE  ViewInv(q)'
  BY DEF ViewInv, Pair

\* A step of another leaves alone what the invariant says of the request of q
\* and the queue, and if it leaves the disk alone everything the invariant says of q.
Bystander(q) ==
  /\ req'[q] = req[q] /\ view'[q] = view[q]
  /\ change' = change /\ saves' = saves
  /\ saver' = saver \/ (q # saver /\ saver' = None)
  /\ legit \subseteq legit' /\ (unsure => unsure') /\ (raced => raced')

\* What the place of a client says of it stays, for a bystander.
LEMMA BystanderPlace ==
  ASSUME NEW q \in Client, RequestInv(q), Bystander(q)
  PROVE  /\ ReqInv(q)' /\ NotedInv(q)'
         /\ ~raced' => QuietInv(q)'
         /\ ~raced' => ViewInv(q)'
  <1>1. ReqInv(q)'
    BY DEF Bystander, RequestInv, ReqInv
  <1>2. NotedInv(q)'
    BY NotedStays DEF Bystander, RequestInv
  <1>3. ~raced' => QuietInv(q)'
    BY DEF Bystander, RequestInv, QuietInv
  <1>4. ~raced' => ViewInv(q)'
    BY DEF Bystander, RequestInv, ViewInv
  <1> QED BY <1>1, <1>2, <1>3, <1>4

\* A bystander keeps its invariant when the disk stays as it is.
LEMMA BystanderKeeps ==
  ASSUME NEW q \in Client, RequestInv(q), Bystander(q), UNCHANGED <<disk, acked>>
  PROVE  RequestInv(q)'
  <1>1. ~raced' => GotInv(q)' /\ RestoreInv(q)'
    BY NoneAssumption DEF Bystander, RequestInv, GotInv, RestoreInv, disk
  <1>2. ~raced' => TurnInv(q)'
    BY NoneAssumption DEF Bystander, RequestInv, TurnInv, Prepared, disk
  <1>3. ~raced' /\ ~unsure' => BackInv(q)' /\ LeadInv(q)'
    BY DEF Bystander, RequestInv, BackInv, LeadInv, Prepared, HasBackups, disk
  <1> QED BY <1>1, <1>2, <1>3, BystanderPlace DEF RequestInv
-----------------------------------------------------------------------------
\* loadSettings begins, in the queue or beside it.
LEMMA LoadKeeps ==
  ASSUME IndInv, NEW p \in Client, NEW turn \in LoadKinds, Load(p, turn)
  PROVE  IndInv'
  <1>0. Now(p, "journal", IF turn THEN "settled" ELSE "view", NoContent, 0, "load")
    BY LoadForNow, Known DEF TypeOK, Load
  <1>1. TypeOK'
    BY <1>0, Known DEF TypeOK, Load, Now, disk
  <1>2. DiskInv'
    BY Known DEF TypeOK, DiskInv, CountInv, AckInv, WholeInv, HasBackups, Load, disk,
       Prepared
  <1>3. ASSUME NEW q \in Client, q # p PROVE RequestInv(q)'
    <2>1. ReqInv(q)'
      BY <1>0, NoneAssumption, Known DEF RequestInv, ReqInv, Load, Now, Recovering,
         Saving, Preparing
    <2>2. NotedInv(q)'
      BY <1>0, NoneAssumption, Known DEF RequestInv, ReqInv, NotedInv, Load, Now, Saving
    <2>3. ~raced' => QuietInv(q)'
      BY <1>0, <1>3, NoneAssumption, BoundsAssumption, VersionType, Known DEF TypeOK,
         DiskInv, RequestInv, ReqInv, QuietInv, Load, RecoveryBeside, Now, disk, At,
         Recovering, Saving, Preparing, Restoring, Kind
    <2>4. ~raced' => ViewInv(q)'
      BY <1>0, <1>3, NoneAssumption, BoundsAssumption, VersionType, Known DEF TypeOK,
         DiskInv, RequestInv, ReqInv, QuietInv, GotInv, TurnInv, ViewInv, WholeInv, Pair, Load, RecoveryBeside, Now, disk, At, Recovering, Saving, Preparing,
         Restoring, Kind, Prepared
    <2>5. ~raced' => GotInv(q)' /\ RestoreInv(q)'
      BY <1>0, Known DEF TypeOK, RequestInv, GotInv, RestoreInv, Load, Now, disk,
         Preparing, Restoring
    <2>6. ~raced' => TurnInv(q)'
      BY <1>3, NoneAssumption DEF TurnInv, Load
    <2>7. ~raced' /\ ~unsure' => BackInv(q)' /\ LeadInv(q)'
      BY <1>0, Known DEF TypeOK, RequestInv, BackInv, LeadInv, Load, Now, disk, Restoring,
         Prepared, HasBackups
    <2> QED BY <1>3, <2>1, <2>2, <2>3, <2>4, <2>5, <2>6, <2>7 DEF RequestInv
  <1>4. RequestInv(p)'
    <2>1. ReqInv(p)'
      BY <1>0, NoneAssumption, BoundsAssumption, VersionType, Known DEF TypeOK, DiskInv,
         RequestInv, ReqInv, Load, RecoveryBeside, Now, disk, At, Recovering, Saving,
         Preparing, Restoring, Kind
    <2>2. NotedInv(p)'
      BY <1>0 DEF NotedInv, Now, Saving
    <2>3. ~raced' => QuietInv(p)'
      BY DEF QuietInv, Load
    <2>4. ~raced' => ViewInv(p)'
      BY <1>0, NoneAssumption, BoundsAssumption, VersionType, Known DEF TypeOK, DiskInv,
         RequestInv, ReqInv, QuietInv, GotInv, TurnInv, ViewInv, WholeInv, Pair,
         Load, RecoveryBeside, Now, disk, At, Recovering, Saving, Preparing, Restoring,
         Kind, Prepared
    <2>5. ~raced' => GotInv(p)' /\ RestoreInv(p)'
      BY <1>0 DEF GotInv, RestoreInv, Now, Preparing, Restoring
    <2>6. ~raced' => TurnInv(p)'
      BY <1>0, Known DEF TypeOK, RequestInv, ReqInv, TurnInv, Load, Now, disk, Saving,
         Preparing
    <2>7. ~raced' /\ ~unsure' => BackInv(p)' /\ LeadInv(p)'
      BY <1>0 DEF BackInv, LeadInv, Now, Restoring
    <2> QED BY <2>1, <2>2, <2>3, <2>4, <2>5, <2>6, <2>7 DEF RequestInv
  <1>5. \A q \in Client : RequestInv(q)'
    BY <1>3, <1>4
  <1> QED BY <1>1, <1>2, <1>5 DEF IndInv

\* A save begins, or asks for a recovery first.
LEMMA BeginSaveKeeps ==
  ASSUME IndInv, NEW p \in Client, NEW c \in Change, BeginSave(p, c)
  PROVE  IndInv'
  <1>0. Now(p, "journal", "save", NoContent, 0, "load")
    BY LoadForNow, Known DEF TypeOK, BeginSave
  <1>1. TypeOK'
    BY <1>0, Known, VersionType, BoundsAssumption DEF TypeOK, BeginSave, RecoveryBeside,
       Change, Now, disk
  <1>2. DiskInv'
    <2>1. CountInv'
      <3>1. journal' = journal /\ acked' = acked /\ saves' = saves + 1
        BY DEF BeginSave, disk
      <3>2. \A k \in Kind : acked[k] \in Int /\ acked[k] <= saves
        BY VersionType, Known DEF TypeOK, DiskInv, CountInv, Content
      <3>3. saves \in Int
        BY Known, BoundsAssumption
      <3> QED BY <3>1, <3>2, <3>3, Known DEF DiskInv, CountInv
    <2>2. ~raced' => AckInv'
      BY Known DEF TypeOK, DiskInv, AckInv, BeginSave, disk, Prepared
    <2>3. ~raced' /\ ~unsure' => WholeInv'
      BY BoundsAssumption, VersionType, Known DEF TypeOK, DiskInv, WholeInv, ReqInv,
         QuietInv, GotInv, NotedInv, Intended, TurnInv, BackInv, LeadInv, HasBackups,
         Pair, BeginSave, RecoveryBeside, Change, disk, At, Recovering, Saving, Preparing,
         Restoring, Kind, Prepared
    <2> QED BY <2>1, <2>2, <2>3 DEF DiskInv
  <1>3. ASSUME NEW q \in Client, q # p PROVE RequestInv(q)'
    <2>1. ReqInv(q)'
      BY <1>3, NoneAssumption, Known DEF TypeOK, RequestInv, ReqInv, BeginSave, Saving,
         Preparing
    <2>2. NotedInv(q)'
      BY <1>3, NoneAssumption, BoundsAssumption, VersionType, Known DEF TypeOK,
         RequestInv, ReqInv, NotedInv, BeginSave, RecoveryBeside, Change, disk, At,
         Recovering, Saving, Preparing, Restoring, Kind
    <2>3. ~raced' => QuietInv(q)'
      BY BoundsAssumption, VersionType, Known DEF TypeOK, DiskInv, RequestInv, ReqInv,
         QuietInv, BeginSave, RecoveryBeside, Change, disk, At, Recovering, Saving,
         Preparing, Restoring, Kind
    <2>4. ~raced' => ViewInv(q)'
      BY <1>3, NoneAssumption, BoundsAssumption, VersionType, Known DEF TypeOK, DiskInv,
         RequestInv, ReqInv, QuietInv, GotInv, TurnInv, ViewInv, WholeInv, Pair,
         BeginSave, RecoveryBeside, Change, disk, At, Recovering, Saving, Preparing,
         Restoring, Kind, Prepared
    <2>5. ~raced' => GotInv(q)' /\ RestoreInv(q)'
      BY <1>0, <1>3, NoneAssumption, Known DEF RequestInv, GotInv, RestoreInv, BeginSave,
         Now, disk
    <2>6. ~raced' => TurnInv(q)'
      BY <1>3 DEF TurnInv, BeginSave
    <2>7. ~raced' /\ ~unsure' => BackInv(q)' /\ LeadInv(q)'
      <3>1. req'[q] = req[q] /\ req[q].pc \notin Saving
        BY <1>0, <1>3, NoneAssumption, Known DEF RequestInv, ReqInv, BeginSave, Now
      <3>2. UNCHANGED <<file, journal, entries, backup, unsure>> /\ (raced => raced')
        BY DEF BeginSave, disk
      <3> QED BY <3>1, <3>2, Known DEF RequestInv, BackInv, LeadInv, Saving, Restoring,
         Prepared, HasBackups
    <2> QED BY <1>3, <2>1, <2>2, <2>3, <2>4, <2>5, <2>6, <2>7 DEF RequestInv
  <1>4. RequestInv(p)'
    <2>1. ReqInv(p)'
      <3>1. saves' \in Save
        BY Known, BoundsAssumption DEF BeginSave, Save
      <3>2. req[p].then = "load"
        BY Known DEF BeginSave, At, RequestInv, ReqInv, Recovering
      <3> QED BY <1>0, <3>1, <3>2 DEF ReqInv, Now, BeginSave, Recovering, Saving,
         Preparing
    <2>2. NotedInv(p)'
      BY <1>0 DEF NotedInv, Now, Saving
    <2>3. ~raced' => QuietInv(p)'
      BY DEF QuietInv, BeginSave
    <2>4. ~raced' => ViewInv(p)'
      BY <1>0, NoneAssumption, BoundsAssumption, VersionType, Known DEF TypeOK,
         RequestInv, ViewInv, BeginSave, RecoveryBeside, Change, Now, disk, At,
         Recovering, Saving, Preparing, Restoring, Kind, Prepared
    <2>5. ~raced' => GotInv(p)' /\ RestoreInv(p)'
      BY <1>0 DEF GotInv, RestoreInv, Now, Preparing, Restoring
    <2>6. ~raced' => TurnInv(p)'
      BY <1>0 DEF TurnInv, Now, Saving, Preparing
    <2>7. ~raced' /\ ~unsure' => BackInv(p)' /\ LeadInv(p)'
      BY <1>0 DEF BackInv, LeadInv, Now, Restoring
    <2> QED BY <2>1, <2>2, <2>3, <2>4, <2>5, <2>6, <2>7 DEF RequestInv
  <1>5. \A q \in Client : RequestInv(q)'
    BY <1>3, <1>4
  <1> QED BY <1>1, <1>2, <1>5 DEF IndInv

\* The journal is read.
LEMMA ReadJournalKeeps == ASSUME IndInv, NEW p \in Client, ReadJournal(p) PROVE IndInv'
  <1>0. /\ journal.state = "none" => Now(p, "settings", req[p].goal, req[p].got, req[p].txn, req[p].then)
        /\ journal.state = "prepared" => Now(p, "backups", req[p].goal, req[p].got, journal.id, "load")
        /\ journal.state \notin {"none", "prepared"} => Now(p, "drop", req[p].goal, req[p].got, journal.id, "load")
    BY GotoNow, GotoTxnNow, Known DEF TypeOK, ReadJournal, PCs, Loading, Recovering
  <1>1. TypeOK'
    BY <1>0, Known, VersionType, BoundsAssumption DEF TypeOK, ReadJournal, Now, disk
  <1>2. DiskInv'
    BY VersionType, Known DEF TypeOK, DiskInv, CountInv, AckInv, WholeInv, HasBackups,
       ReadJournal, disk, Prepared
  <1>3. ASSUME NEW q \in Client, q # p PROVE RequestInv(q)'
    <2>1. Bystander(q)
      BY <1>0, <1>3, Known DEF Bystander, RequestInv, ReqInv, ReadJournal,
         Now, disk, At, Recovering, Saving, Preparing
    <2> QED BY <1>3, <2>1, Known, BystanderKeeps DEF ReadJournal, ghosts
  <1>4. RequestInv(p)'
    <2>1. ReqInv(p)'
      <3>1. req[p].then = "load"
        BY Known DEF ReadJournal, At, RequestInv, ReqInv, Recovering
      <3>2. journal.state # "none" => journal.id \in Save
        BY Known DEF DiskInv, CountInv
      <3> QED BY <1>0, <3>1, <3>2, Known DEF ReqInv, RequestInv, Now, ReadJournal, At,
         Recovering, Saving, Preparing, Restoring
    <2>2. NotedInv(p)'
      BY <1>0 DEF NotedInv, Now, Saving
    <2>3. ~raced' => QuietInv(p)'
      BY <1>0, NoneAssumption, BoundsAssumption, VersionType, Known DEF TypeOK, DiskInv,
         RequestInv, ReqInv, QuietInv, ReadJournal, Now, disk, At, Recovering, Saving,
         Preparing, Restoring, Kind
    <2>4. ~raced' => ViewInv(p)'
      BY <1>0, NoneAssumption, BoundsAssumption, VersionType, Known DEF TypeOK,
         RequestInv, ViewInv, ReadJournal, Now, disk, At, Recovering, Saving, Preparing,
         Restoring, Kind, Prepared
    <2>5. ~raced' => GotInv(p)' /\ RestoreInv(p)'
      BY <1>0, Known DEF TypeOK, DiskInv, GotInv, RestoreInv, AckInv, ReadJournal, Now,
         disk, Preparing, Restoring, Prepared
    <2>6. ~raced' => TurnInv(p)'
      BY <1>0, Known DEF RequestInv, TurnInv, ReadJournal, Now, disk, Saving, Preparing,
         Prepared
    <2>7. ~raced' /\ ~unsure' => BackInv(p)' /\ LeadInv(p)'
      BY <1>0 DEF BackInv, LeadInv, ReadJournal, Now, disk, Restoring, Prepared
    <2> QED BY <2>1, <2>2, <2>3, <2>4, <2>5, <2>6, <2>7 DEF RequestInv
  <1>5. \A q \in Client : RequestInv(q)'
    BY <1>3, <1>4
  <1> QED BY <1>1, <1>2, <1>5 DEF IndInv

\* The settings are read.
LEMMA ReadSettingsKeeps ==
  ASSUME IndInv, NEW p \in Client, ReadSettings(p)
  PROVE  IndInv'
  <1>0. Now(p, "secrets", req[p].goal, [req[p].got EXCEPT !["settings"] = file["settings"]], req[p].txn, req[p].then)
    <2> DEFINE g == [req[p].got EXCEPT !["settings"] = file["settings"]]
               r == [req[p] EXCEPT !.got = g, !.pc = "secrets"]
    <2>1. g \in Content
      BY Known DEF TypeOK, Content
    <2>2. r \in Request /\ r.pc = "secrets" /\ r.goal = req[p].goal /\ r.got = g
          /\ r.txn = req[p].txn /\ r.then = req[p].then
      BY <2>1, Known DEF Request, Loading
    <2>3. req' = [req EXCEPT ![p] = r]
      BY DEF ReadSettings
    <2> HIDE DEF r, g
    <2>4. Now(p, "secrets", req[p].goal, g, req[p].txn, req[p].then)
      BY <2>2, <2>3, Known, NowIntro DEF TypeOK
    <2> QED BY <2>4 DEF g
  <1>1. TypeOK'
    BY <1>0, Known DEF TypeOK, ReadSettings, Now, disk, ghosts
  <1>2. DiskInv'
    BY BoundsAssumption, VersionType, Known DEF DiskInv, CountInv, AckInv, WholeInv,
       HasBackups, ReadSettings, disk, ghosts, Prepared
  <1>3. ASSUME NEW q \in Client, q # p PROVE RequestInv(q)'
    <2>1. Bystander(q)
      BY <1>0, <1>3, Known DEF Bystander, RequestInv, ReqInv, ReadSettings, Now,
         disk, ghosts, At, Recovering, Saving, Preparing
    <2> QED BY <1>3, <2>1, Known, BystanderKeeps DEF ReadSettings, ghosts
  <1>4. RequestInv(p)'
    <2>1. ReqInv(p)'
      BY Known DEF TypeOK, RequestInv, ReqInv, ReadSettings, At, Recovering, Saving,
         Preparing
    <2>2. NotedInv(p)'
      BY <1>0 DEF NotedInv, Now, Saving
    <2>3. ~raced' => QuietInv(p)'
      BY Known DEF TypeOK, QuietInv, ReadSettings, Recovering
    <2>4. ~raced' => ViewInv(p)'
      BY <1>0, NoneAssumption, BoundsAssumption, VersionType, Known DEF RequestInv,
         ViewInv, Pair, ReadSettings, Now, disk, ghosts, At, Recovering, Saving,
         Preparing, Restoring, Kind, Prepared
    <2>5. ~raced' => GotInv(p)'
      <3>1. req'[p].got["settings"] = file["settings"] /\ req'[p].got["secrets"] = req[p].got["secrets"]
        BY <1>0, Known DEF Now, Content, Kind
      <3> QED BY <1>0, <3>1, Known DEF RequestInv, ReqInv, GotInv, ReadSettings, Now, At,
         disk, ghosts, Preparing
    <2>6. ~raced' => RestoreInv(p)'
      BY Known DEF TypeOK, RestoreInv, ReadSettings, Restoring
    <2>7. ~raced' => TurnInv(p)'
      BY Known DEF TypeOK, RequestInv, TurnInv, ReadSettings, disk, ghosts, At, Prepared
    <2>8. ~raced' /\ ~unsure' => BackInv(p)' /\ LeadInv(p)'
      BY Known DEF TypeOK, BackInv, LeadInv, ReadSettings, Restoring
    <2> QED BY <2>1, <2>2, <2>3, <2>4, <2>5, <2>6, <2>7, <2>8 DEF RequestInv
  <1>5. \A q \in Client : RequestInv(q)'
    BY <1>3, <1>4
  <1> QED BY <1>1, <1>2, <1>5 DEF IndInv

\* The secrets are read.
LEMMA ReadSecretsKeeps == ASSUME IndInv, NEW p \in Client, ReadSecrets(p) PROVE IndInv'
  <1>0. Now(p, "revision", req[p].goal, [req[p].got EXCEPT !["secrets"] = file["secrets"]], req[p].txn, req[p].then)
    <2> DEFINE g == [req[p].got EXCEPT !["secrets"] = file["secrets"]]
               r == [req[p] EXCEPT !.got = g, !.pc = "revision"]
    <2>1. g \in Content
      BY Known DEF TypeOK, Content
    <2>2. r \in Request /\ r.pc = "revision" /\ r.goal = req[p].goal /\ r.got = g
          /\ r.txn = req[p].txn /\ r.then = req[p].then
      BY <2>1, Known DEF Request, Loading
    <2>3. req' = [req EXCEPT ![p] = r]
      BY DEF ReadSecrets
    <2> HIDE DEF r, g
    <2>4. Now(p, "revision", req[p].goal, g, req[p].txn, req[p].then)
      BY <2>2, <2>3, Known, NowIntro DEF TypeOK
    <2> QED BY <2>4 DEF g
  <1>1. TypeOK'
    BY <1>0, Known DEF TypeOK, ReadSecrets, Now, disk, ghosts
  <1>2. DiskInv'
    BY BoundsAssumption, Known DEF DiskInv, CountInv, AckInv, WholeInv, HasBackups,
       ReadSecrets, disk, ghosts, Prepared
  <1>3. ASSUME NEW q \in Client, q # p PROVE RequestInv(q)'
    <2>1. Bystander(q)
      BY <1>0, <1>3, Known DEF Bystander, RequestInv, ReqInv, ReadSecrets, Now,
         disk, ghosts, At, Recovering, Saving, Preparing
    <2> QED BY <1>3, <2>1, Known, BystanderKeeps DEF ReadSecrets, ghosts
  <1>4. RequestInv(p)'
    <2>1. ReqInv(p)'
      BY Known DEF TypeOK, RequestInv, ReqInv, ReadSecrets, At, Recovering, Saving,
         Preparing
    <2>2. NotedInv(p)'
      BY <1>0 DEF NotedInv, Now, Saving
    <2>3. ~raced' => QuietInv(p)'
      BY Known DEF TypeOK, QuietInv, ReadSecrets, Recovering
    <2>4. ~raced' => ViewInv(p)'
      BY <1>0, NoneAssumption, BoundsAssumption, VersionType, Known DEF RequestInv,
         ViewInv, Pair, ReadSecrets, Now, disk, ghosts, At, Recovering, Saving, Preparing,
         Restoring, Kind, Prepared
    <2>5. ~raced' => GotInv(p)'
      <3>1. req'[p].got["secrets"] = file["secrets"] /\ req'[p].got["settings"] = req[p].got["settings"]
        BY <1>0, Known DEF Now, Content, Kind
      <3> QED BY <1>0, <3>1, Known DEF RequestInv, ReqInv, GotInv, ReadSecrets, Now, At,
         disk, ghosts, Preparing
    <2>6. ~raced' => RestoreInv(p)'
      BY Known DEF TypeOK, RestoreInv, ReadSecrets, Restoring
    <2>7. ~raced' => TurnInv(p)'
      BY Known DEF TypeOK, RequestInv, TurnInv, ReadSecrets, disk, ghosts, At, Prepared
    <2>8. ~raced' /\ ~unsure' => BackInv(p)' /\ LeadInv(p)'
      BY Known DEF TypeOK, BackInv, LeadInv, ReadSecrets, Restoring
    <2> QED BY <2>1, <2>2, <2>3, <2>4, <2>5, <2>6, <2>7, <2>8 DEF RequestInv
  <1>5. \A q \in Client : RequestInv(q)'
    BY <1>3, <1>4
  <1> QED BY <1>1, <1>2, <1>5 DEF IndInv

\* A load answers.
LEMMA LoadedKeeps == ASSUME IndInv, NEW p \in Client, Loaded(p) PROVE IndInv'
  <1>0. Ended(p)
    BY EndNow, Known DEF TypeOK, Loaded
  <1>1. TypeOK'
    <2>1. [content |-> req[p].got, revision |-> Revision(p),
           settled |-> req[p].goal = "settled"] \in Documents
      BY Known DEF Documents, Revision, Content, Kind, TypeOK
    <2>2. view' \in [Client -> Documents]
      BY <2>1, Known DEF TypeOK, Loaded
    <2> QED BY <1>0, <2>2, Known DEF TypeOK, Loaded, Now, Ended, disk, ghosts
  <1>2. DiskInv'
    BY Known DEF DiskInv, CountInv, AckInv, WholeInv, HasBackups, Loaded, disk, ghosts,
       Prepared, Pair
  <1>3. ASSUME NEW q \in Client, q # p PROVE RequestInv(q)'
    <2>1. Bystander(q)
      <3>1. req'[q] = req[q] /\ (saver' = saver \/ (q # saver /\ saver' = None))
        BY <1>0, <1>3 DEF Now, Ended
      <3>2. view'[q] = view[q]
        BY <1>3, Known DEF Loaded, RequestInv, ViewInv
      <3> QED BY <1>0, <3>1, <3>2 DEF Bystander, Loaded, ghosts
    <2> QED BY <1>3, <2>1, Known, BystanderKeeps DEF Loaded, ghosts
  <1>4. RequestInv(p)'
    <2>1. ReqInv(p)'
      BY <1>0 DEF ReqInv, Now, Ended, Recovering, Saving, Preparing
    <2>2. NotedInv(p)'
      BY <1>0 DEF NotedInv, Now, Ended, Saving
    <2>3. ~raced' => QuietInv(p)'
      BY <1>0 DEF QuietInv, Now, Ended, Recovering
    <2>4. ~raced' => ViewInv(p)'
      <3> SUFFICES ASSUME ~raced' PROVE ViewInv(p)'
        OBVIOUS
      <3>1. view'[p] = [content |-> req[p].got, revision |-> Revision(p),
                         settled |-> req[p].goal = "settled"]
        BY Known DEF Loaded, TypeOK
      <3>2. CASE req[p].goal # "settled"
        <4>1. view'[p].settled = (req[p].goal = "settled")
          BY <3>1
        <4>2. ~view'[p].settled
          BY <3>2, <4>1, Zenon
        <4> QED BY <4>2 DEF ViewInv
      <3>3. CASE req[p].goal = "settled"
        <4>1. p = saver /\ GotInv(p) /\ TurnInv(p) /\ ~raced
          BY <3>3, Known DEF RequestInv, ReqInv, Loaded, ghosts
        <4>2. req[p].got["settings"] = file["settings"] /\ req[p].got["secrets"] = file["secrets"] /\ ~Prepared
          BY <4>1 DEF Loaded, At, GotInv, TurnInv
        <4>3. ~unsure => Pair(req[p].got) \in legit
          BY <4>1, <4>2, Known DEF DiskInv, WholeInv, Pair
        <4>4. Revision(p) = Pair(req[p].got)
          BY <4>2 DEF Revision, Pair
        <4>5. Pair(view[p].content)' = Pair(req[p].got)
          BY <3>1 DEF Pair
        <4>6. view'[p].revision = Revision(p) /\ req'[p].goal = "view"
          BY <1>0, <3>1 DEF Ended, Now
        <4>7. unsure' = unsure /\ legit' = legit
          BY DEF Loaded, ghosts
        <4> QED BY <4>3, <4>4, <4>5, <4>6, <4>7 DEF ViewInv
      <3> QED BY <3>2, <3>3
    <2>5. ~raced' => GotInv(p)' /\ RestoreInv(p)'
      BY <1>0 DEF GotInv, RestoreInv, Now, Ended, Preparing, Restoring
    <2>6. ~raced' => TurnInv(p)'
      BY <1>0 DEF TurnInv, Now, Ended, Saving, Preparing
    <2>7. ~raced' /\ ~unsure' => BackInv(p)' /\ LeadInv(p)'
      BY <1>0 DEF BackInv, LeadInv, Now, Ended, Restoring
    <2> QED BY <2>1, <2>2, <2>3, <2>4, <2>5, <2>6, <2>7 DEF RequestInv
  <1>5. \A q \in Client : RequestInv(q)'
    BY <1>3, <1>4
  <1> QED BY <1>1, <1>2, <1>5 DEF IndInv

\* A load is refused.
LEMMA LoadFailsKeeps == ASSUME IndInv, NEW p \in Client, LoadFails(p) PROVE IndInv'
  <1>0. Ended(p)
    BY EndNow, Known DEF TypeOK, LoadFails
  <1>1. TypeOK'
    BY <1>0, Known, BoundsAssumption DEF TypeOK, LoadFails, Now, Ended, disk, ghosts,
       Fault
  <1>2. DiskInv'
    BY Known DEF DiskInv, CountInv, AckInv, WholeInv, HasBackups, LoadFails, disk, ghosts,
       Prepared
  <1>3. ASSUME NEW q \in Client, q # p PROVE RequestInv(q)'
    <2>1. Bystander(q)
      <3>1. req'[q] = req[q] /\ (saver' = saver \/ (q # saver /\ saver' = None))
        BY <1>0, <1>3 DEF Now, Ended
      <3>2. view'[q] = view[q]
        BY Known DEF LoadFails, RequestInv, ViewInv
      <3> QED BY <1>0, <3>1, <3>2 DEF Bystander, LoadFails, ghosts
    <2> QED BY <1>3, <2>1, Known, BystanderKeeps DEF LoadFails, ghosts
  <1>4. RequestInv(p)'
    <2>1. ReqInv(p)'
      BY <1>0 DEF ReqInv, Now, Ended, Recovering, Saving, Preparing
    <2>2. NotedInv(p)'
      BY <1>0 DEF NotedInv, Now, Ended, Saving
    <2>3. ~raced' => QuietInv(p)'
      BY <1>0 DEF QuietInv, Now, Ended, Recovering
    <2>4. ~raced' => ViewInv(p)'
      BY <1>0, NoneAssumption, BoundsAssumption, VersionType, Known DEF RequestInv,
         ViewInv, LoadFails, Now, Ended, disk, ghosts, Fault, Loading, Recovering, Saving,
         Preparing, Restoring, Kind, Prepared
    <2>5. ~raced' => GotInv(p)' /\ RestoreInv(p)'
      BY <1>0 DEF GotInv, RestoreInv, Now, Ended, Preparing, Restoring
    <2>6. ~raced' => TurnInv(p)'
      BY <1>0 DEF TurnInv, Now, Ended, Saving, Preparing
    <2>7. ~raced' /\ ~unsure' => BackInv(p)' /\ LeadInv(p)'
      BY <1>0 DEF BackInv, LeadInv, Now, Ended, Restoring
    <2> QED BY <2>1, <2>2, <2>3, <2>4, <2>5, <2>6, <2>7 DEF RequestInv
  <1>5. \A q \in Client : RequestInv(q)'
    BY <1>3, <1>4
  <1> QED BY <1>1, <1>2, <1>5 DEF IndInv

\* The recovery reads the backups.
LEMMA ReadBackupsKeeps == ASSUME IndInv, NEW p \in Client, ReadBackups(p) PROVE IndInv'
  <1>0. Now(p, "restore_settings", req[p].goal, req[p].got, req[p].txn, req[p].then)
    BY GotoNow, Known DEF TypeOK, ReadBackups, PCs, Recovering
  <1>1. TypeOK'
    BY <1>0, Known DEF TypeOK, ReadBackups, Now, disk, ghosts
  <1>2. DiskInv'
    BY Known DEF DiskInv, CountInv, AckInv, WholeInv, HasBackups, ReadBackups, disk,
       ghosts, Prepared, Pair
  <1>3. ASSUME NEW q \in Client, q # p PROVE RequestInv(q)'
    <2>1. Bystander(q)
      BY <1>0, <1>3, Known DEF Bystander, RequestInv, ReqInv, ReadBackups, Now,
         disk, ghosts, At, Recovering, Saving, Preparing
    <2> QED BY <1>3, <2>1, Known, BystanderKeeps DEF ReadBackups, ghosts
  <1>4. RequestInv(p)'
    <2>1. ReqInv(p)'
      BY <1>0, Known DEF RequestInv, ReqInv, ReadBackups, Now, At, Recovering, Saving,
         Preparing, Restoring
    <2>2. NotedInv(p)'
      BY <1>0 DEF NotedInv, Now, Saving
    <2>3. ~raced' => QuietInv(p)'
      BY Known DEF RequestInv, QuietInv, ReadBackups, ghosts, At, Recovering
    <2>4. ~raced' => ViewInv(p)'
      BY <1>0, NoneAssumption, BoundsAssumption, VersionType, Known DEF RequestInv,
         ViewInv, Pair, ReadBackups, Now, disk, ghosts, At, Recovering, Saving, Preparing,
         Restoring, Kind, Prepared
    <2>5. ~raced' => GotInv(p)' /\ RestoreInv(p)'
      BY <1>0, Known DEF RequestInv, GotInv, RestoreInv, ReadBackups, Now, disk, ghosts,
         At, Preparing, Restoring
    <2>6. ~raced' => TurnInv(p)'
      BY <1>0, Known DEF RequestInv, TurnInv, ReadBackups, Now, disk, ghosts, Saving,
         Preparing
    <2>7. ~raced' /\ ~unsure' => BackInv(p)' /\ LeadInv(p)'
      BY <1>0, Known DEF RequestInv, BackInv, LeadInv, ReadBackups, Now, disk, ghosts, At,
         Restoring, Prepared
    <2> QED BY <2>1, <2>2, <2>3, <2>4, <2>5, <2>6, <2>7 DEF RequestInv
  <1>5. \A q \in Client : RequestInv(q)'
    BY <1>3, <1>4
  <1> QED BY <1>1, <1>2, <1>5 DEF IndInv

\* The recovery finds its backups missing.
LEMMA RecoveryUnsafeKeeps ==
  ASSUME IndInv, NEW p \in Client, RecoveryUnsafe(p)
  PROVE  IndInv'
  <1>0. Ended(p)
    BY EndNow, Known DEF TypeOK, RecoveryUnsafe, Abandon
  <1>1. TypeOK'
    BY <1>0, Known, BoundsAssumption DEF TypeOK, RecoveryUnsafe, Now, Ended, disk, ghosts,
       Fault
  <1>2. DiskInv'
    BY Known DEF DiskInv, CountInv, AckInv, WholeInv, HasBackups, RecoveryUnsafe, disk,
       ghosts, Prepared
  <1>3. ASSUME NEW q \in Client, q # p PROVE RequestInv(q)'
    <2>1. Bystander(q)
      <3>1. req'[q] = req[q] /\ (saver' = saver \/ (q # saver /\ saver' = None))
        BY <1>0, <1>3 DEF Now, Ended
      <3>2. view'[q] = view[q]
        BY Known DEF RecoveryUnsafe, RequestInv, ViewInv
      <3> QED BY <1>0, <3>1, <3>2 DEF Bystander, RecoveryUnsafe, ghosts
    <2> QED BY <1>3, <2>1, Known, BystanderKeeps DEF RecoveryUnsafe, ghosts
  <1>4. RequestInv(p)'
    <2>1. ReqInv(p)'
      BY <1>0 DEF ReqInv, Now, Ended, Recovering, Saving, Preparing
    <2>2. NotedInv(p)'
      BY <1>0 DEF NotedInv, Now, Ended, Saving
    <2>3. ~raced' => QuietInv(p)'
      BY <1>0 DEF QuietInv, Now, Ended, Recovering
    <2>4. ~raced' => ViewInv(p)'
      BY <1>0, NoneAssumption, BoundsAssumption, VersionType, Known DEF RequestInv,
         ViewInv, RecoveryUnsafe, Now, Ended, disk, ghosts, At, Fault, Recovering, Saving,
         Preparing, Restoring, Kind, Prepared
    <2>5. ~raced' => GotInv(p)' /\ RestoreInv(p)'
      BY <1>0 DEF GotInv, RestoreInv, Now, Ended, Preparing, Restoring
    <2>6. ~raced' => TurnInv(p)'
      BY <1>0 DEF TurnInv, Now, Ended, Saving, Preparing
    <2>7. ~raced' /\ ~unsure' => BackInv(p)' /\ LeadInv(p)'
      BY <1>0 DEF BackInv, LeadInv, Now, Ended, Restoring
    <2> QED BY <2>1, <2>2, <2>3, <2>4, <2>5, <2>6, <2>7 DEF RequestInv
  <1>5. \A q \in Client : RequestInv(q)'
    BY <1>3, <1>4
  <1> QED BY <1>1, <1>2, <1>5 DEF IndInv

\* A file is restored.
LEMMA RestoreKeeps ==
  ASSUME IndInv, NEW p \in Client, NEW k \in Kind, Restore(p, k)
  PROVE  IndInv'
  <1>0. Now(p, AfterRestore[k], req[p].goal, req[p].got, req[p].txn, req[p].then)
    <2>1. AfterRestore[k] \in PCs
      BY DEF PCs, Recovering, AfterRestore, Kind
    <2>2. Goto(p, AfterRestore[k])
      BY DEF Restore
    <2> QED BY <2>1, <2>2, Known, GotoNow DEF TypeOK
  <1>1. TypeOK'
    <2>1. req[p].pc \in Recovering
      BY DEF Restore, At, RestoreStep, Kind, Recovering
    <2>2. file' \in Content
      BY <2>1, BackedUp, Known DEF Restore, Replace, TypeOK, Content
    <2> QED BY <1>0, <2>2, Known DEF TypeOK, Restore, Now, ghosts
  <1>2. DiskInv'
    <2>1. CountInv'
      BY Known DEF DiskInv, CountInv, Restore, ghosts
    <2>2. ~raced' => AckInv'
      BY Known DEF DiskInv, RequestInv, AckInv, RestoreInv, Restore, RestoreStep, ghosts,
         At, Replace, Restoring, Kind, Prepared
    <2>3. ~raced' /\ ~unsure' => WholeInv'
      <3> SUFFICES ASSUME ~raced, ~unsure, ~unsure' PROVE WholeInv'
        BY DEF Restore, ghosts
      <3>1. ~Prepared => Pair(file)' = Pair(file)
        BY RestoredFile DEF Restore, Pair, Kind
      <3> QED BY <3>1, Known DEF DiskInv, WholeInv, Restore, HasBackups, Prepared, ghosts,
         Pair
    <2> QED BY <2>1, <2>2, <2>3 DEF DiskInv
  <1>3. ASSUME NEW q \in Client, q # p PROVE RequestInv(q)'
    <2>1. Bystander(q)
      BY <1>0, <1>3, Known DEF Bystander, RequestInv, ReqInv, Restore,
         RestoreStep, AfterRestore, Now, ghosts, At, Replace, Recovering, Saving,
         Preparing, Kind
    <2>2. ~raced' => GotInv(q)' /\ RestoreInv(q)'
      BY <1>0, NoneAssumption, Known DEF RequestInv, QuietInv, GotInv, RestoreInv,
         Restore, RestoreStep, AfterRestore, Now, ghosts, At, Recovering, Preparing,
         Restoring, Kind
    <2>3. ~raced' => TurnInv(q)'
      BY <1>3, NoneAssumption, Known DEF RequestInv, QuietInv, TurnInv, Restore,
         RestoreStep, ghosts, At, Recovering, Kind
    <2>4. ~raced' /\ ~unsure' => BackInv(q)'
      BY <1>0, Known DEF RequestInv, BackInv, Restore, AfterRestore, Now, ghosts, Kind,
         Prepared, HasBackups
    <2>5. ~raced' /\ ~unsure' => LeadInv(q)'
      <3> SUFFICES ASSUME ~raced, ~unsure, ~unsure' PROVE LeadInv(q)'
        BY DEF Restore, ghosts
      <3>1. ~Prepared => Pair(file)' = Pair(file)
        BY RestoredFile DEF Restore, Pair, Kind
      <3>2. req[q].pc \in Restoring => LeadInv(q)
              /\ (req[q].pc \in {"restore_secrets", "mark"}
                    => file'["settings"] = entries[req[q].txn]["settings"])
              /\ (req[q].pc = "mark" => file'["secrets"] = entries[req[q].txn]["secrets"])
        BY Known, RestoredFile DEF Restore, RequestInv
      <3>3. req'[q] = req[q]
        BY <1>0, <1>3 DEF Now
      <3> QED BY <3>1, <3>2, <3>3 DEF LeadInv, Restore, Prepared, Pair
    <2> QED BY <1>3, <2>1, <2>2, <2>3, <2>4, <2>5, Known, BystanderPlace DEF RequestInv
  <1>4. RequestInv(p)'
    <2>1. ReqInv(p)'
      BY <1>0, NoneAssumption, BoundsAssumption, VersionType, Known DEF TypeOK, DiskInv,
         RequestInv, ReqInv, Restore, RestoreStep, AfterRestore, Now, ghosts, At, Replace,
         Recovering, Saving, Preparing, Restoring, Kind
    <2>2. NotedInv(p)'
      BY <1>0 DEF NotedInv, AfterRestore, Now, Saving, Kind
    <2>3. ~raced' => QuietInv(p)'
      BY Known DEF RequestInv, QuietInv, Restore, RestoreStep, ghosts, At, Recovering,
         Kind
    <2>4. ~raced' => ViewInv(p)'
      <3> SUFFICES ASSUME ~raced' PROVE ViewInv(p)'
        OBVIOUS
      <3>2. req'[p].goal = req[p].goal /\ req'[p].got = req[p].got /\ req'[p].pc \notin Saving
        BY <1>0 DEF Now, AfterRestore, Kind, Saving
      <3> QED BY <3>2, Known, ViewStays DEF Restore, RequestInv, ghosts
    <2>5. ~raced' => GotInv(p)' /\ RestoreInv(p)'
      BY <1>0, Known DEF RequestInv, GotInv, RestoreInv, Restore, RestoreStep,
         AfterRestore, Now, ghosts, At, Preparing, Restoring, Kind
    <2>6. ~raced' => TurnInv(p)'
      BY <1>0, Known DEF RequestInv, ReqInv, TurnInv, Restore, RestoreStep, AfterRestore,
         Now, At, Saving, Preparing, Restoring, Kind
    <2>7. ~raced' /\ ~unsure' => BackInv(p)'
      BY <1>0 DEF BackInv, AfterRestore, Now, Kind
    <2>8. ~raced' /\ ~unsure' => LeadInv(p)'
      <3> SUFFICES ASSUME ~raced, ~unsure, ~unsure' PROVE LeadInv(p)'
        BY DEF Restore, ghosts
      <3>1. ~Prepared => Pair(file)' = Pair(file)
        BY RestoredFile DEF Restore, Pair, Kind
      <3>2. req[p].pc \in Restoring => LeadInv(p)
              /\ (req[p].pc \in {"restore_secrets", "mark"}
                    => file'["settings"] = entries[req[p].txn]["settings"])
              /\ (req[p].pc = "mark" => file'["secrets"] = entries[req[p].txn]["secrets"])
        BY Known, RestoredFile DEF Restore, RequestInv
      <3>3. file'[k] = entries[req[p].txn][k] \/ req'[p].pc = "idle"
        BY Known, Replaced DEF Restore, TypeOK
      <3> QED BY <1>0, <3>1, <3>2, <3>3, Known DEF LeadInv, RequestInv, Restore, Now,
         Ended, Prepared, Pair, At, Kind, RestoreStep, AfterRestore, Restoring
    <2> QED BY <2>1, <2>2, <2>3, <2>4, <2>5, <2>6, <2>7, <2>8 DEF RequestInv
  <1>5. \A q \in Client : RequestInv(q)'
    BY <1>3, <1>4
  <1> QED BY <1>1, <1>2, <1>5 DEF IndInv

\* A restoration fails.
LEMMA RestoreFailsKeeps ==
  ASSUME IndInv, NEW p \in Client, NEW k \in Kind, RestoreFails(p, k)
  PROVE  IndInv'
  <1>0. /\ entries[req[p].txn][k] = NoFile => Now(p, AfterRestore[k], req[p].goal, req[p].got, req[p].txn, req[p].then)
        /\ entries[req[p].txn][k] # NoFile => Ended(p)
    BY GotoNow, EndNow, Known DEF TypeOK, RestoreFails, PCs, Recovering, AfterRestore,
       Kind, Abandon
  <1>1. TypeOK'
    <2>1. req[p].pc \in Recovering
      BY DEF RestoreFails, At, RestoreStep, Kind, Recovering
    <2>2. file' \in Content
      BY <2>1, BackedUp, Known DEF RestoreFails, Replace, TypeOK, Content
    <2>3. saver' \in Client \cup {None} /\ req' \in [Client -> Request]
      BY <1>0, Known DEF RestoreFails, TypeOK, Now, Ended
    <2>4. unsure' \in BOOLEAN
      BY Known DEF RestoreFails, TypeOK
    <2>5. faults' \in 0..MaxFault
      BY Known, BoundsAssumption DEF RestoreFails, Fault, TypeOK
    <2> QED BY <2>2, <2>3, <2>4, <2>5, Known DEF TypeOK, RestoreFails
  <1>2. DiskInv'
    <2>1. CountInv'
      BY Known DEF DiskInv, CountInv, RestoreFails
    <2>2. ~raced' => AckInv'
      BY Known DEF TypeOK, DiskInv, RequestInv, Content, AckInv, RestoreInv, RestoreFails,
         RestoreStep, At, Replace, Restoring, Kind, Prepared
    <2>3. ~raced' /\ ~unsure' => WholeInv'
      <3> SUFFICES ASSUME ~raced, ~unsure, ~unsure' PROVE WholeInv'
        BY DEF RestoreFails
      <3>1. ~Prepared => Pair(file)' = Pair(file)
        BY RestoredFile DEF RestoreFails, Pair, Kind
      <3> QED BY <3>1, Known DEF DiskInv, WholeInv, RestoreFails, HasBackups, Prepared,
         ghosts, Pair
    <2> QED BY <2>1, <2>2, <2>3 DEF DiskInv
  <1>3. ASSUME NEW q \in Client, q # p PROVE RequestInv(q)'
    <2>1. Bystander(q)
      BY <1>0, <1>3, Known DEF Bystander, RequestInv, ReqInv, RestoreFails,
         RestoreStep, AfterRestore, Now, Ended, At, Fault, Replace, Recovering, Saving,
         Preparing, Kind
    <2>2. ~raced' => GotInv(q)' /\ RestoreInv(q)'
      BY <1>0, NoneAssumption, Known DEF RequestInv, QuietInv, GotInv, RestoreInv,
         RestoreFails, RestoreStep, AfterRestore, Now, Ended, At, Recovering, Preparing,
         Restoring, Kind
    <2>3. ~raced' => TurnInv(q)'
      BY <1>0, NoneAssumption, Known DEF RequestInv, QuietInv, TurnInv, RestoreFails,
         RestoreStep, AfterRestore, Now, Ended, At, Recovering, Saving, Preparing, Kind
    <2>4. ~raced' /\ ~unsure' => BackInv(q)'
      BY <1>0, Known DEF RequestInv, BackInv, RestoreFails, Now, Ended, Prepared,
         HasBackups
    <2>5. ~raced' /\ ~unsure' => LeadInv(q)'
      <3> SUFFICES ASSUME ~raced, ~unsure, ~unsure' PROVE LeadInv(q)'
        BY DEF RestoreFails
      <3>1. ~Prepared => Pair(file)' = Pair(file)
        BY RestoredFile DEF RestoreFails, Pair, Kind
      <3>2. req[q].pc \in Restoring => LeadInv(q)
              /\ (req[q].pc \in {"restore_secrets", "mark"}
                    => file'["settings"] = entries[req[q].txn]["settings"])
              /\ (req[q].pc = "mark" => file'["secrets"] = entries[req[q].txn]["secrets"])
        BY Known, RestoredFile DEF RestoreFails, RequestInv
      <3>3. req'[q] = req[q]
        BY <1>0, <1>3 DEF Now, Ended
      <3> QED BY <3>1, <3>2, <3>3 DEF LeadInv, RestoreFails, Prepared, Pair
    <2> QED BY <1>3, <2>1, <2>2, <2>3, <2>4, <2>5, Known, BystanderPlace DEF RequestInv
  <1>4. RequestInv(p)'
    <2>1. ReqInv(p)'
      BY <1>0, NoneAssumption, BoundsAssumption, VersionType, Known DEF TypeOK, DiskInv,
         RequestInv, ReqInv, RestoreFails, RestoreStep, AfterRestore, Now, Ended, At,
         Fault, Replace, Recovering, Saving, Preparing, Restoring, Kind
    <2>2. NotedInv(p)'
      BY <1>0 DEF NotedInv, AfterRestore, Now, Ended, Saving, Kind
    <2>3. ~raced' => QuietInv(p)'
      BY <1>0, Known DEF RequestInv, QuietInv, RestoreFails, RestoreStep, Ended, At,
         Recovering, Kind
    <2>4. ~raced' => ViewInv(p)'
      <3> SUFFICES ASSUME ~raced' PROVE ViewInv(p)'
        OBVIOUS
      <3>2. req'[p].goal = "save" => req[p].goal = "save" /\ req'[p].got = req[p].got /\ req'[p].pc \notin Saving
        BY <1>0 DEF Now, Ended, AfterRestore, Kind, Saving
      <3> QED BY <3>2, Known, ViewStays DEF RestoreFails, RequestInv
    <2>5. ~raced' => GotInv(p)' /\ RestoreInv(p)'
      BY <1>0, Known DEF RequestInv, GotInv, RestoreInv, RestoreFails, RestoreStep,
         AfterRestore, Now, Ended, At, Preparing, Restoring, Kind
    <2>6. ~raced' => TurnInv(p)'
      BY <1>0, Known DEF RequestInv, TurnInv, RestoreFails, AfterRestore, Now, Ended,
         Saving, Preparing, Kind
    <2>7. ~raced' /\ ~unsure' => BackInv(p)'
      BY <1>0 DEF BackInv, RestoreFails, Now, Ended
    <2>8. ~raced' /\ ~unsure' => LeadInv(p)'
      <3> SUFFICES ASSUME ~raced, ~unsure, ~unsure' PROVE LeadInv(p)'
        BY DEF RestoreFails
      <3>1. ~Prepared => Pair(file)' = Pair(file)
        BY RestoredFile DEF RestoreFails, Pair, Kind
      <3>2. req[p].pc \in Restoring => LeadInv(p)
              /\ (req[p].pc \in {"restore_secrets", "mark"}
                    => file'["settings"] = entries[req[p].txn]["settings"])
              /\ (req[p].pc = "mark" => file'["secrets"] = entries[req[p].txn]["secrets"])
        BY Known, RestoredFile DEF RestoreFails, RequestInv
      <3>3. file'[k] = entries[req[p].txn][k] \/ req'[p].pc = "idle"
        BY <1>0 DEF RestoreFails, Now, Ended
      <3> QED BY <1>0, <3>1, <3>2, <3>3, Known DEF LeadInv, RequestInv, RestoreFails, Now,
         Ended, Prepared, Pair, At, Kind, RestoreStep, AfterRestore, Restoring
    <2> QED BY <2>1, <2>2, <2>3, <2>4, <2>5, <2>6, <2>7, <2>8 DEF RequestInv
  <1>5. \A q \in Client : RequestInv(q)'
    BY <1>3, <1>4
  <1> QED BY <1>1, <1>2, <1>5 DEF IndInv

\* The journal is finished.
LEMMA MarkKeeps == ASSUME IndInv, NEW p \in Client, Mark(p) PROVE IndInv'
  <1>0. Now(p, "drop", req[p].goal, req[p].got, req[p].txn, req[p].then)
    BY GotoNow, Known DEF TypeOK, Mark, PCs, Recovering
  <1>1. TypeOK'
    BY <1>0, Known DEF TypeOK, Mark, Now, ghosts
  <1>2. DiskInv'
    <2>1. CountInv'
      BY Known DEF DiskInv, RequestInv, CountInv, ReqInv, Mark, ghosts, At, Recovering
    <2>2. ~raced' => AckInv'
      BY Known DEF DiskInv, RequestInv, AckInv, RestoreInv, Mark, ghosts, At, Restoring
    <2>3. ~raced' /\ ~unsure' => WholeInv'
      BY BoundsAssumption, VersionType, Known DEF DiskInv, RequestInv, WholeInv, LeadInv,
         HasBackups, Pair, Mark, ghosts, At, Recovering, Saving, Preparing, Restoring,
         Kind, Prepared
    <2> QED BY <2>1, <2>2, <2>3 DEF DiskInv
  <1>3. ASSUME NEW q \in Client, q # p PROVE RequestInv(q)'
    <2>1. Bystander(q)
      BY <1>0, <1>3, Known DEF Bystander, RequestInv, ReqInv, Mark, Now, ghosts,
         At, Recovering, Saving, Preparing
    <2>2. ~raced' => GotInv(q)' /\ RestoreInv(q)'
      BY <1>0, Known DEF RequestInv, GotInv, RestoreInv, Mark, Now, ghosts, Preparing,
         Restoring
    <2>3. ~raced' => TurnInv(q)'
      BY <1>3, NoneAssumption, Known DEF RequestInv, QuietInv, TurnInv, Mark, ghosts, At,
         Recovering
    <2>4. ~raced' /\ ~unsure' => BackInv(q)' /\ LeadInv(q)'
      BY <1>0, Known DEF RequestInv, BackInv, LeadInv, Mark, Now, ghosts, At, Restoring,
         Prepared, HasBackups, Pair
    <2> QED BY <1>3, <2>1, <2>2, <2>3, <2>4, Known, BystanderPlace DEF RequestInv
  <1>4. RequestInv(p)'
    <2>1. ReqInv(p)'
      BY <1>0, NoneAssumption, BoundsAssumption, VersionType, Known DEF TypeOK, DiskInv,
         RequestInv, ReqInv, Mark, Now, ghosts, At, Recovering, Saving, Preparing,
         Restoring, Kind
    <2>2. NotedInv(p)'
      BY <1>0 DEF NotedInv, Now, Saving
    <2>3. ~raced' => QuietInv(p)'
      BY Known DEF RequestInv, QuietInv, Mark, ghosts, At, Recovering
    <2>4. ~raced' => ViewInv(p)'
      BY <1>0, NoneAssumption, BoundsAssumption, VersionType, Known DEF RequestInv,
         ViewInv, Mark, Now, ghosts, At, Recovering, Saving, Preparing, Restoring, Kind,
         Prepared
    <2>5. ~raced' => GotInv(p)' /\ RestoreInv(p)'
      BY <1>0 DEF GotInv, RestoreInv, Now, Preparing, Restoring
    <2>6. ~raced' => TurnInv(p)'
      BY <1>0, Known DEF RequestInv, TurnInv, Mark, Now, ghosts, Prepared
    <2>7. ~raced' /\ ~unsure' => BackInv(p)' /\ LeadInv(p)'
      BY <1>0 DEF BackInv, LeadInv, Mark, Now, Restoring, Prepared
    <2> QED BY <2>1, <2>2, <2>3, <2>4, <2>5, <2>6, <2>7 DEF RequestInv
  <1>5. \A q \in Client : RequestInv(q)'
    BY <1>3, <1>4
  <1> QED BY <1>1, <1>2, <1>5 DEF IndInv

\* Finishing the journal fails.
LEMMA MarkFailsKeeps == ASSUME IndInv, NEW p \in Client, MarkFails(p) PROVE IndInv'
  <1>0. Ended(p)
    BY EndNow, Known DEF TypeOK, MarkFails, Abandon
  <1>1. TypeOK'
    BY <1>0, Known, BoundsAssumption DEF TypeOK, MarkFails, Now, Ended, ghosts, Fault
  <1>2. DiskInv'
    <2>1. CountInv'
      BY Known DEF DiskInv, RequestInv, CountInv, ReqInv, MarkFails, ghosts, At,
         Recovering
    <2>2. ~raced' => AckInv'
      BY Known DEF DiskInv, AckInv, MarkFails, ghosts, Prepared
    <2>3. ~raced' /\ ~unsure' => WholeInv'
      <3> SUFFICES ASSUME ~raced, ~unsure PROVE WholeInv'
        BY DEF MarkFails, ghosts
      <3>1. Pair(file) \in legit
        BY Known DEF RequestInv, DiskInv, WholeInv, LeadInv, MarkFails, At, Restoring,
           Pair
      <3> QED BY <3>1, Known DEF DiskInv, WholeInv, MarkFails, HasBackups, Prepared,
         ghosts, Pair
    <2> QED BY <2>1, <2>2, <2>3 DEF DiskInv
  <1>3. ASSUME NEW q \in Client, q # p PROVE RequestInv(q)'
    <2>1. Bystander(q)
      <3>1. req'[q] = req[q] /\ (saver' = saver \/ (q # saver /\ saver' = None))
        BY <1>0, <1>3 DEF Now, Ended
      <3>2. view'[q] = view[q]
        BY Known DEF MarkFails, RequestInv, ViewInv
      <3> QED BY <1>0, <3>1, <3>2 DEF Bystander, MarkFails, ghosts
    <2>2. ~raced' => GotInv(q)' /\ RestoreInv(q)'
      BY <1>0, NoneAssumption, Known DEF RequestInv, GotInv, RestoreInv, MarkFails, Now,
         Ended, ghosts, Restoring
    <2>3. ~raced' => TurnInv(q)'
      BY <1>0, NoneAssumption, Known DEF RequestInv, QuietInv, TurnInv, MarkFails, Ended,
         ghosts, At, Recovering
    <2>4. ~raced' /\ ~unsure' => BackInv(q)' /\ LeadInv(q)'
      BY <1>0, Known DEF RequestInv, BackInv, LeadInv, MarkFails, Now, Ended, ghosts, At,
         Restoring, Prepared, HasBackups, Pair
    <2> QED BY <1>3, <2>1, <2>2, <2>3, <2>4, Known, BystanderPlace DEF RequestInv
  <1>4. RequestInv(p)'
    <2>1. ReqInv(p)'
      BY <1>0, NoneAssumption, BoundsAssumption, VersionType, Known DEF TypeOK, DiskInv,
         RequestInv, ReqInv, MarkFails, Now, Ended, ghosts, At, Fault, Recovering, Saving,
         Preparing, Restoring, Kind
    <2>2. NotedInv(p)'
      BY <1>0 DEF NotedInv, Now, Ended, Saving
    <2>3. ~raced' => QuietInv(p)'
      BY <1>0 DEF QuietInv, Now, Ended, Recovering
    <2>4. ~raced' => ViewInv(p)'
      BY <1>0, NoneAssumption, BoundsAssumption, VersionType, Known DEF RequestInv,
         ViewInv, MarkFails, Now, Ended, ghosts, At, Fault, Recovering, Saving, Preparing,
         Restoring, Kind, Prepared
    <2>5. ~raced' => GotInv(p)' /\ RestoreInv(p)'
      BY <1>0 DEF GotInv, RestoreInv, Now, Ended, Preparing, Restoring
    <2>6. ~raced' => TurnInv(p)'
      BY <1>0 DEF TurnInv, Now, Ended, Saving, Preparing
    <2>7. ~raced' /\ ~unsure' => BackInv(p)' /\ LeadInv(p)'
      BY <1>0 DEF BackInv, LeadInv, Now, Ended, Restoring
    <2> QED BY <2>1, <2>2, <2>3, <2>4, <2>5, <2>6, <2>7 DEF RequestInv
  <1>5. \A q \in Client : RequestInv(q)'
    BY <1>3, <1>4
  <1> QED BY <1>1, <1>2, <1>5 DEF IndInv

\* The backups are removed.
LEMMA DropBackupsKeeps == ASSUME IndInv, NEW p \in Client, DropBackups(p) PROVE IndInv'
  <1>0. Now(p, "drop_journal", req[p].goal, req[p].got, req[p].txn, req[p].then)
    BY GotoNow, Known DEF TypeOK, DropBackups, PCs, Recovering
  <1>1. TypeOK'
    BY <1>0, Known, BoundsAssumption DEF TypeOK, DropBackups, Now, ghosts, Fault
  <1>2. DiskInv'
    <2>1. CountInv'
      BY Known DEF DiskInv, CountInv, DropBackups, ghosts
    <2>2. ~raced' => AckInv'
      BY Known DEF DiskInv, AckInv, DropBackups, ghosts, Prepared
    <2>3. ~raced' /\ ~unsure' => WholeInv'
      BY BoundsAssumption, VersionType, Known DEF DiskInv, RequestInv, WholeInv, QuietInv,
         TurnInv, BackInv, LeadInv, HasBackups, Pair, DropBackups, ghosts, At, Fault,
         Recovering, Saving, Preparing, Restoring, Kind, Prepared
    <2> QED BY <2>1, <2>2, <2>3 DEF DiskInv
  <1>3. ASSUME NEW q \in Client, q # p PROVE RequestInv(q)'
    <2>1. Bystander(q)
      BY <1>0, <1>3, Known DEF Bystander, RequestInv, ReqInv, DropBackups, Now,
         ghosts, At, Fault, Recovering, Saving, Preparing, Kind
    <2>2. ~raced' => GotInv(q)' /\ RestoreInv(q)'
      BY <1>0, Known DEF RequestInv, GotInv, RestoreInv, DropBackups, Now, ghosts,
         Preparing, Restoring
    <2>3. ~raced' => TurnInv(q)'
      BY <1>3, NoneAssumption, Known DEF RequestInv, QuietInv, TurnInv, DropBackups,
         ghosts, At, Recovering
    <2>4. ~raced' /\ ~unsure' => BackInv(q)' /\ LeadInv(q)'
      BY <1>0, NoneAssumption, Known DEF RequestInv, ReqInv, QuietInv, BackInv, LeadInv,
         DropBackups, Now, ghosts, At, Recovering, Saving, Restoring, Prepared
    <2> QED BY <1>3, <2>1, <2>2, <2>3, <2>4, Known, BystanderPlace DEF RequestInv
  <1>4. RequestInv(p)'
    <2>1. ReqInv(p)'
      BY <1>0, NoneAssumption, BoundsAssumption, VersionType, Known DEF TypeOK, DiskInv,
         RequestInv, ReqInv, DropBackups, Now, ghosts, At, Fault, Recovering, Saving,
         Preparing, Restoring, Kind
    <2>2. NotedInv(p)'
      BY <1>0 DEF NotedInv, Now, Saving
    <2>3. ~raced' => QuietInv(p)'
      BY Known DEF RequestInv, QuietInv, DropBackups, ghosts, At, Recovering
    <2>4. ~raced' => ViewInv(p)'
      BY <1>0, NoneAssumption, BoundsAssumption, VersionType, Known DEF RequestInv,
         ViewInv, Pair, DropBackups, Now, ghosts, At, Fault, Recovering, Saving,
         Preparing, Restoring, Kind, Prepared
    <2>5. ~raced' => GotInv(p)' /\ RestoreInv(p)'
      BY <1>0 DEF GotInv, RestoreInv, Now, Preparing, Restoring
    <2>6. ~raced' => TurnInv(p)'
      BY <1>0, Known DEF RequestInv, ReqInv, TurnInv, DropBackups, Now, ghosts, At,
         Preparing, Prepared
    <2>7. ~raced' /\ ~unsure' => BackInv(p)' /\ LeadInv(p)'
      BY <1>0, Known DEF RequestInv, BackInv, LeadInv, DropBackups, Now, ghosts, At,
         Restoring, Prepared
    <2> QED BY <2>1, <2>2, <2>3, <2>4, <2>5, <2>6, <2>7 DEF RequestInv
  <1>5. \A q \in Client : RequestInv(q)'
    BY <1>3, <1>4
  <1> QED BY <1>1, <1>2, <1>5 DEF IndInv

\* The journal is removed, which ends a recovery, or confirms a save.
LEMMA DropJournalKeeps == ASSUME IndInv, NEW p \in Client, DropJournal(p) PROVE IndInv'
  <1>0. /\ req[p].then = "load" => Now(p, "settings", req[p].goal, req[p].got, req[p].txn, req[p].then)
        /\ req[p].then = "failed" => Ended(p)
        /\ req[p].then = "acked" => Now(p, "journal", "settled", NoContent, 0, "load")
        /\ journal' \in {journal, NoJournal}
        /\ req[p].then = "acked" => acked' = [k \in Kind |-> saves]
        /\ req[p].then # "acked" => acked' = acked
    BY GotoNow, EndNow, ReadBackNow, RequestType, Known DEF TypeOK, DropJournal, PCs,
       Loading
  <1>1. TypeOK'
    <2>1. acked' \in Content
      BY Known DEF DropJournal, TypeOK, Content
    <2>2. saver' \in Client \cup {None} /\ req' \in [Client -> Request]
      BY <1>0, Known DEF DropJournal, TypeOK, Now, Ended
    <2>3. journal' \in [state : {"none", "prepared", "committed", "rolled_back"}, id : 0..MaxSave]
      BY Known, BoundsAssumption DEF DropJournal, TypeOK, NoJournal
    <2> QED BY <2>1, <2>2, <2>3, Known, BoundsAssumption DEF TypeOK, DropJournal, Fault
  <1>2. DiskInv'
    <2>1. CountInv'
      <3>1. \A k \in Kind : acked'[k] <= saves
        BY <1>0, Known DEF DiskInv, CountInv
      <3>2. journal'.state # "none" => journal'.id \in Save
        BY <1>0, Known DEF DiskInv, CountInv, NoJournal
      <3> QED BY <3>1, <3>2 DEF CountInv, DropJournal
    <2>2. ~raced' => AckInv'
      <3> SUFFICES ASSUME ~raced PROVE AckInv'
        BY DEF DropJournal
      <3>1. CASE req[p].then = "acked"
        <4>1. p = saver /\ TurnInv(p) /\ req[p].pc = "drop_journal"
          BY <3>1, Known DEF DropJournal, RequestInv, ReqInv, At
        <4>2. \A k \in Kind : file[k] = saves /\ acked'[k] = saves
          BY <1>0, <3>1, <4>1 DEF TurnInv
        <4>3. ~Prepared'
          BY <1>0, <3>1, <4>1 DEF TurnInv, Prepared, NoJournal
        <4> QED BY <4>2, <4>3, Known, VersionType DEF AckInv, DropJournal
      <3>2. CASE req[p].then # "acked"
        <4>1. file' = file /\ entries' = entries
          BY DEF DropJournal
        <4> QED BY <1>0, <3>2, <4>1, Known DEF DiskInv, AckInv, Prepared, NoJournal
      <3> QED BY <3>1, <3>2
    <2>3. ~raced' /\ ~unsure' => WholeInv'
      <3> SUFFICES ASSUME ~raced, ~unsure PROVE WholeInv'
        BY DEF DropJournal
      <3>1. ~Prepared /\ ~Prepared'
        BY Known DEF DropJournal, RequestInv, BackInv, At, Prepared, NoJournal
      <3> QED BY <3>1, Known DEF DropJournal, DiskInv, WholeInv, Pair
    <2> QED BY <2>1, <2>2, <2>3 DEF DiskInv
  <1>3. ASSUME NEW q \in Client, q # p PROVE RequestInv(q)'
    <2>1. Bystander(q)
      <3>1. req'[q] = req[q] /\ (saver' = saver \/ (q # saver /\ saver' = None))
        <4>1. req[p].then \in {"load", "acked"} => saver' = saver
          BY DEF DropJournal
        <4> QED BY <1>0, <1>3, <4>1, Known DEF Now, Ended
      <3>2. view'[q] = view[q]
        BY Known DEF DropJournal, RequestInv, ViewInv
      <3> QED BY <3>1, <3>2 DEF Bystander, DropJournal
    <2>2. ~raced' => GotInv(q)'
      BY <1>0, <1>3, NoneAssumption, BoundsAssumption, VersionType, Known DEF TypeOK,
         DiskInv, RequestInv, ReqInv, QuietInv, GotInv, DropJournal, NoJournal, Now,
         Ended, At, Fault, Recovering, Saving, Preparing, Restoring, Kind
    <2>3. ~raced' => RestoreInv(q)'
      BY <1>0, NoneAssumption, Known DEF RequestInv, ReqInv, QuietInv, RestoreInv,
         DropJournal, Now, Ended, Recovering, Restoring
    <2>4. ~raced' => TurnInv(q)'
      BY <1>0, <1>3, NoneAssumption, BoundsAssumption, VersionType, Known DEF TypeOK,
         DiskInv, RequestInv, ReqInv, QuietInv, TurnInv, DropJournal, NoJournal, Now,
         Ended, At, Fault, Recovering, Saving, Preparing, Restoring, Kind, Prepared
    <2>5. ~raced' /\ ~unsure' => BackInv(q)' /\ LeadInv(q)'
      BY <1>0, Known DEF RequestInv, BackInv, LeadInv, DropJournal, NoJournal, Now, Ended,
         At, Restoring, Prepared, HasBackups
    <2> QED BY <1>3, <2>1, <2>2, <2>3, <2>4, <2>5, Known, BystanderPlace DEF RequestInv
  <1>4. RequestInv(p)'
    <2>1. ReqInv(p)'
      BY <1>0, NoneAssumption, BoundsAssumption, VersionType, Known DEF TypeOK, DiskInv,
         RequestInv, ReqInv, DropJournal, NoJournal, Now, Ended, At, Fault, Recovering,
         Saving, Preparing, Restoring, Kind
    <2>2. NotedInv(p)'
      BY <1>0, NoneAssumption, BoundsAssumption, VersionType, Known DEF NotedInv, Now,
         Ended, At, Fault, Recovering, Saving, Preparing, Restoring, Kind
    <2>3. ~raced' => QuietInv(p)'
      BY <1>0, Known DEF QuietInv, Now, Ended, Recovering
    <2>4. ~raced' => ViewInv(p)'
      BY <1>0, NoneAssumption, BoundsAssumption, VersionType, Known DEF TypeOK, DiskInv,
         RequestInv, ReqInv, QuietInv, GotInv, TurnInv, ViewInv, WholeInv, Pair,
         DropJournal, NoJournal, Now, Ended, At, Fault, Recovering, Saving, Preparing,
         Restoring, Kind, Prepared
    <2>5. ~raced' => GotInv(p)' /\ RestoreInv(p)'
      BY <1>0, Known DEF GotInv, RestoreInv, Now, Ended, Preparing, Restoring
    <2>6. ~raced' => TurnInv(p)'
      <3> SUFFICES ASSUME ~raced, p = saver', req[p].then # "failed" PROVE TurnInv(p)'
        BY <1>0 DEF DropJournal, TurnInv, Ended, Now, Preparing, Saving
      <3>1. p = saver /\ TurnInv(p) /\ req[p].pc = "drop_journal"
        BY Known DEF DropJournal, RequestInv, ReqInv, At
      <3>2. ~Prepared'
        BY <1>0, <3>1 DEF TurnInv, Prepared, NoJournal
      <3>3. req'[p].pc \in {"settings", "journal"} /\ req'[p].then # "acked"
        BY <1>0, Known DEF Now
      <3> QED BY <3>2, <3>3 DEF TurnInv, Preparing, Saving
    <2>7. ~raced' /\ ~unsure' => BackInv(p)' /\ LeadInv(p)'
      BY <1>0, Known DEF BackInv, LeadInv, Now, Ended, Restoring
    <2> QED BY <2>1, <2>2, <2>3, <2>4, <2>5, <2>6, <2>7 DEF RequestInv
  <1>5. \A q \in Client : RequestInv(q)'
    BY <1>3, <1>4
  <1> QED BY <1>1, <1>2, <1>5 DEF IndInv

\* The revision of a patch is compared.
LEMMA CheckKeeps == ASSUME IndInv, NEW p \in Client, Check(p) PROVE IndInv'
  <1>0. \/ /\ Now(p, FirstStep[change], req[p].goal, req[p].got, req[p].txn, req[p].then)
           /\ change = "secrets" \/ view[p].revision = Revision(p)
           /\ legit' = legit \cup {Intended(p)} /\ saver' = saver
        \/ Ended(p) /\ legit' = legit
    <2>1. FirstStep[change] \in PCs
      BY Known DEF TypeOK, PCs, Saving, FirstStep, Change
    <2>2. Goto(p, FirstStep[change])
            => Now(p, FirstStep[change], req[p].goal, req[p].got, req[p].txn, req[p].then)
      BY <2>1, Known, GotoNow DEF TypeOK
    <2>3. End(p) => Ended(p)
      BY Known, EndNow DEF TypeOK
    <2> QED BY <2>2, <2>3 DEF Check
  <1>1. TypeOK'
    <2>1. Intended(p) \in Version \X Version
      BY Known DEF Intended, TypeOK, Content, Kind, Change
    <2>2. legit' \in SUBSET (Version \X Version)
      BY <1>0, <2>1, Known DEF TypeOK
    <2>3. saver' \in Client \cup {None} /\ req' \in [Client -> Request]
      BY <1>0, Known DEF TypeOK, Now, Ended
    <2> QED BY <2>2, <2>3, Known DEF TypeOK, Check, disk
  <1>2. DiskInv'
    BY Known DEF DiskInv, CountInv, AckInv, WholeInv, HasBackups, Check, disk, Prepared
  <1>3. ASSUME NEW q \in Client, q # p PROVE RequestInv(q)'
    <2>1. Bystander(q)
      <3>1. req'[q] = req[q] /\ (saver' = saver \/ (q # saver /\ saver' = None))
        BY <1>0, <1>3 DEF Now, Ended
      <3>2. view'[q] = view[q]
        BY Known DEF Check, RequestInv, ViewInv
      <3> QED BY <1>0, <3>1, <3>2 DEF Bystander, Check, ghosts
    <2> QED BY <1>3, <2>1, Known, BystanderKeeps DEF Check, ghosts
  <1>4. RequestInv(p)'
    <2>1. ReqInv(p)'
      BY <1>0, Known DEF TypeOK, RequestInv, ReqInv, Check, FirstStep, Change, Now, Ended,
         At, Recovering, Saving, Preparing
    <2>2. NotedInv(p)'
      BY <1>0, Known DEF TypeOK, NotedInv, Intended, Check, Change, Now, Ended, Saving
    <2>3. ~raced' => QuietInv(p)'
      BY <1>0, Known DEF RequestInv, ReqInv, QuietInv, Check, Ended
    <2>4. ~raced' => ViewInv(p)'
      <3> SUFFICES ASSUME ~raced' PROVE ViewInv(p)'
        OBVIOUS
      <3>0. ViewInv(p) /\ GotInv(p) /\ ReqInv(p) /\ p = saver
        BY Known DEF RequestInv, ViewInv, ReqInv, Check
      <3>1. CASE Ended(p)
        BY <3>0, <3>1 DEF Check, Ended, Now, ViewInv
      <3>2. CASE ~Ended(p)
        <4>1. change = "secrets" \/ ~view[p].settled \/ view[p].content = req[p].got
          <5> SUFFICES ASSUME change # "secrets", view[p].settled
                       PROVE  view[p].content = req[p].got
            OBVIOUS
          <5>1. view[p].content \in Content
            BY Known DEF TypeOK, Documents
          <5>2. view[p].revision = Revision(p)
            BY <1>0, <3>2 DEF Check
          <5>3. Revision(p) = Pair(req[p].got)
            BY <3>0 DEF GotInv, Check, At, Revision, Pair
          <5>4. Pair(view[p].content) = Pair(req[p].got)
            BY <3>0, <5>2, <5>3 DEF ViewInv
          <5> QED BY <5>1, <5>4, Known, PairEqual
        <4> QED BY <1>0, <3>0, <3>2, <4>1 DEF Check, Now, disk, ViewInv, Pair
      <3> QED BY <3>1, <3>2
    <2>5. ~raced' => GotInv(p)' /\ RestoreInv(p)'
      BY <1>0, Known DEF TypeOK, RequestInv, GotInv, RestoreInv, Check, FirstStep, Change,
         Now, Ended, disk, At, Preparing, Restoring
    <2>6. ~raced' => TurnInv(p)'
      BY <1>0, Known DEF TypeOK, RequestInv, TurnInv, Check, FirstStep, Change, Now,
         Ended, disk, At, Prepared
    <2>7. ~raced' /\ ~unsure' => BackInv(p)' /\ LeadInv(p)'
      BY <1>0, Known DEF TypeOK, BackInv, LeadInv, FirstStep, Change, Now, Ended,
         Restoring
    <2> QED BY <2>1, <2>2, <2>3, <2>4, <2>5, <2>6, <2>7 DEF RequestInv
  <1>5. \A q \in Client : RequestInv(q)'
    BY <1>3, <1>4
  <1> QED BY <1>1, <1>2, <1>5 DEF IndInv

\* A file is backed up.
LEMMA BackUpKeeps ==
  ASSUME IndInv, NEW p \in Client, NEW k \in Kind, BackUp(p, k)
  PROVE  IndInv'
  <1>0. Now(p, AfterBack[k], req[p].goal, req[p].got, req[p].txn, req[p].then)
    BY GotoNow, Known DEF TypeOK, BackUp, PCs, Saving, AfterBack, Kind
  <1>1. TypeOK'
    <2>1. saves \in Save
      BY Known DEF BackUp, At, RequestInv, ReqInv, BackStep, Kind, Saving
    <2>2. entries' \in [Save -> Content]
      <3> DEFINE e == [entries[saves] EXCEPT ![k] = file[k]]
      <3>1. e \in Content
        BY <2>1, Known DEF TypeOK, Content
      <3>2. entries' = [entries EXCEPT ![saves] = e]
        BY DEF BackUp
      <3> HIDE DEF e
      <3> QED BY <3>1, <3>2, Known DEF TypeOK
    <2>3. backup' \in SUBSET (Save \X Kind)
      BY <2>1, Known DEF BackUp, TypeOK
    <2> QED BY <1>0, <2>2, <2>3, Known DEF TypeOK, BackUp, Now, Ended, ghosts
  <1>2. DiskInv'
    <2>1. CountInv'
      BY Known DEF DiskInv, CountInv, BackUp, ghosts
    <2>2. ~raced' => AckInv'
      BY Known DEF DiskInv, AckInv, BackUp, ghosts, Prepared
    <2>3. ~raced' /\ ~unsure' => WholeInv'
      <3> SUFFICES ASSUME ~raced, ~unsure PROVE WholeInv'
        BY DEF BackUp, ghosts
      <3>1. ~Prepared
        BY Known DEF BackUp, RequestInv, ReqInv, TurnInv, At, BackStep, Kind, Preparing,
           Saving
      <3> QED BY <3>1, Known DEF BackUp, DiskInv, WholeInv, Prepared, Pair, ghosts
    <2> QED BY <2>1, <2>2, <2>3 DEF DiskInv
  <1>3. ASSUME NEW q \in Client, q # p PROVE RequestInv(q)'
    <2>1. Bystander(q)
      BY <1>0, <1>3, Known DEF Bystander, RequestInv, ReqInv, BackUp, BackStep,
         AfterBack, Now, ghosts, At, Recovering, Saving, Preparing, Kind
    <2>2. ~raced' => GotInv(q)' /\ RestoreInv(q)'
      BY <1>0, <1>3, Known DEF DiskInv, RequestInv, GotInv, RestoreInv, AckInv, BackUp,
         Now, ghosts
    <2>3. ~raced' => TurnInv(q)'
      BY <1>3, Known DEF RequestInv, ReqInv, TurnInv, BackUp, BackStep, At, Saving, Kind
    <2>4. ~raced' /\ ~unsure' => BackInv(q)' /\ LeadInv(q)'
      BY <1>0, <1>3, Known DEF RequestInv, ReqInv, BackInv, LeadInv, BackUp, BackStep,
         Now, ghosts, At, Saving, Kind, Prepared, Pair
    <2> QED BY <1>3, <2>1, <2>2, <2>3, <2>4, Known, BystanderPlace DEF RequestInv
  <1>4. RequestInv(p)'
    <2>1. ReqInv(p)'
      BY <1>0, NoneAssumption, BoundsAssumption, VersionType, Known DEF TypeOK, DiskInv,
         RequestInv, ReqInv, BackUp, BackStep, AfterBack, Now, ghosts, At, Recovering,
         Saving, Preparing, Restoring, Kind
    <2>2. NotedInv(p)'
      BY <1>0, Known DEF RequestInv, ReqInv, NotedInv, Intended, BackUp, BackStep, Now,
         ghosts, At, Saving, Preparing, Kind
    <2>3. ~raced' => QuietInv(p)'
      BY Known DEF RequestInv, ReqInv, QuietInv, BackUp, BackStep, At, Saving, Kind
    <2>4. ~raced' => ViewInv(p)'
      <3> SUFFICES ASSUME ~raced' PROVE ViewInv(p)'
        OBVIOUS
      <3>1. req[p].pc \in Saving /\ req'[p].pc # "idle" /\ saver' = saver
        BY <1>0 DEF BackUp, At, BackStep, AfterBack, Kind, Saving, Now
      <3> QED BY <1>0, <3>1, Known, ViewStays DEF BackUp, RequestInv, ViewInv, ReqInv,
         Now, ghosts
    <2>5. ~raced' => GotInv(p)'
      <3>1. saves \in Save /\ p = saver
        BY Known DEF BackUp, At, RequestInv, ReqInv, BackStep, Kind, Saving
      <3>2. entries'[saves][k] = file[k] /\ \A j \in Kind : j # k => entries'[saves][j] = entries[saves][j]
        BY <3>1, Known DEF BackUp, TypeOK, Content
      <3> QED BY <1>0, <3>1, <3>2, Known DEF BackUp, RequestInv, GotInv, Now, At,
         BackStep, AfterBack, Kind, Preparing, ghosts
    <2>6. ~raced' => RestoreInv(p)'
      BY <1>0 DEF RestoreInv, AfterBack, Now, Restoring, Kind
    <2>7. ~raced' => TurnInv(p)'
      BY <1>0, Known DEF RequestInv, TurnInv, BackUp, BackStep, AfterBack, Now, ghosts,
         At, Preparing, Kind, Prepared
    <2>8. ~raced' /\ ~unsure' => BackInv(p)'
      <3> SUFFICES ASSUME ~raced, ~unsure PROVE BackInv(p)'
        BY DEF BackUp, ghosts
      <3>1. saves \in Save /\ p = saver
        BY Known DEF BackUp, At, RequestInv, ReqInv, BackStep, Kind, Saving
      <3>2. entries'[saves][k] = file[k] /\ \A j \in Kind : j # k => entries'[saves][j] = entries[saves][j]
        BY <3>1, Known DEF BackUp, TypeOK, Content
      <3>3. file[k] # NoFile => <<saves, k>> \in backup'
        BY DEF BackUp
      <3>4. backup \subseteq backup' /\ saves' = saves
        BY DEF BackUp
      <3>5. CASE k = "settings"
        BY <1>0, <3>2, <3>3, <3>4, <3>5 DEF BackInv, Now, AfterBack
      <3>6. CASE k = "secrets"
        <4>1. entries[saves]["settings"] # NoFile => <<saves, "settings">> \in backup
          BY <3>6, Known DEF BackUp, RequestInv, BackInv, At, BackStep
        <4>2. HasBackups(saves)'
          BY <3>2, <3>3, <3>4, <3>6, <4>1 DEF HasBackups, Kind
        <4>3. req'[p].pc = "prepare"
          BY <1>0, <3>6 DEF Now, AfterBack
        <4> QED BY <3>4, <4>2, <4>3 DEF BackInv, HasBackups, Kind
      <3> QED BY <3>5, <3>6 DEF Kind
    <2>9. ~raced' /\ ~unsure' => LeadInv(p)'
      BY <1>0 DEF LeadInv, AfterBack, Now, Restoring, Kind
    <2> QED BY <2>1, <2>2, <2>3, <2>4, <2>5, <2>6, <2>7, <2>8, <2>9 DEF RequestInv
  <1>5. \A q \in Client : RequestInv(q)'
    BY <1>3, <1>4
  <1> QED BY <1>1, <1>2, <1>5 DEF IndInv

\* The journal is prepared.
LEMMA PrepareKeeps == ASSUME IndInv, NEW p \in Client, Prepare(p) PROVE IndInv'
  <1>0. Now(p, "write", req[p].goal, req[p].got, req[p].txn, req[p].then)
    BY GotoNow, Known DEF TypeOK, Prepare, PCs, Saving
  <1>1. TypeOK'
    BY <1>0, Known DEF TypeOK, Prepare, Now, ghosts
  <1>2. DiskInv'
    <2>1. CountInv'
      BY Known DEF DiskInv, RequestInv, CountInv, ReqInv, Prepare, ghosts, At, Saving
    <2>2. ~raced' => AckInv'
      <3> SUFFICES ASSUME ~raced PROVE AckInv'
        BY DEF Prepare, ghosts
      <3>1. \A k \in Kind : entries[saves][k] = file[k]
        BY Known DEF Prepare, RequestInv, ReqInv, GotInv, At, Saving, Kind
      <3> QED BY <3>1, Known DEF Prepare, DiskInv, AckInv, ghosts
    <2>3. ~raced' /\ ~unsure' => WholeInv'
      <3> SUFFICES ASSUME ~raced, ~unsure PROVE WholeInv'
        BY DEF Prepare, ghosts
      <3>1. p = saver /\ GotInv(p) /\ TurnInv(p) /\ BackInv(p) /\ req[p].pc = "prepare"
        BY Known DEF Prepare, RequestInv, ReqInv, At, Saving
      <3>2. Pair(entries[saves]) = Pair(file) /\ ~Prepared
        BY <3>1 DEF GotInv, TurnInv, Pair, Preparing
      <3>3. HasBackups(saves) /\ Pair(entries[saves]) \in legit
        BY <3>1, <3>2, Known DEF BackInv, DiskInv, WholeInv
      <3> QED BY <3>3 DEF Prepare, WholeInv, Prepared, HasBackups, Pair, ghosts
    <2> QED BY <2>1, <2>2, <2>3 DEF DiskInv
  <1>3. ASSUME NEW q \in Client, q # p PROVE RequestInv(q)'
    <2>1. Bystander(q)
      BY <1>0, <1>3, Known DEF Bystander, RequestInv, ReqInv, Prepare, Now,
         ghosts, At, Recovering, Saving, Preparing
    <2>2. ~raced' => GotInv(q)' /\ RestoreInv(q)'
      BY <1>0, Known DEF RequestInv, GotInv, RestoreInv, Prepare, Now, ghosts, At,
         Preparing, Restoring
    <2>3. ~raced' => TurnInv(q)'
      BY <1>3, Known DEF RequestInv, ReqInv, TurnInv, Prepare, At, Saving
    <2>4. ~raced' /\ ~unsure' => BackInv(q)' /\ LeadInv(q)'
      BY <1>0, NoneAssumption, Known DEF RequestInv, ReqInv, QuietInv, BackInv, LeadInv,
         Prepare, Now, ghosts, At, Recovering, Saving, Restoring
    <2> QED BY <1>3, <2>1, <2>2, <2>3, <2>4, Known, BystanderPlace DEF RequestInv
  <1>4. RequestInv(p)'
    <2>1. ReqInv(p)'
      BY <1>0, NoneAssumption, BoundsAssumption, VersionType, Known DEF TypeOK, DiskInv,
         RequestInv, ReqInv, Prepare, Now, ghosts, At, Recovering, Saving, Preparing,
         Restoring, Kind
    <2>2. NotedInv(p)'
      BY BoundsAssumption, VersionType, Known DEF TypeOK, DiskInv, RequestInv, ReqInv,
         NotedInv, Intended, Prepare, ghosts, At, Recovering, Saving, Preparing,
         Restoring, Kind
    <2>3. ~raced' => QuietInv(p)'
      BY Known DEF RequestInv, ReqInv, QuietInv, Prepare, At, Saving
    <2>4. ~raced' => ViewInv(p)'
      BY <1>0, NoneAssumption, BoundsAssumption, VersionType, Known DEF RequestInv,
         ViewInv, Prepare, Now, ghosts, At, Recovering, Saving, Preparing, Restoring,
         Kind, Prepared
    <2>5. ~raced' => GotInv(p)' /\ RestoreInv(p)'
      BY <1>0, Known DEF RequestInv, GotInv, RestoreInv, Prepare, Now, ghosts, At,
         Preparing, Restoring
    <2>6. ~raced' => TurnInv(p)'
      BY <1>0, Known DEF RequestInv, ReqInv, TurnInv, Prepare, Now, ghosts, At, Preparing,
         Prepared
    <2>7. ~raced' /\ ~unsure' => BackInv(p)' /\ LeadInv(p)'
      BY <1>0 DEF BackInv, LeadInv, Now, Restoring
    <2> QED BY <2>1, <2>2, <2>3, <2>4, <2>5, <2>6, <2>7 DEF RequestInv
  <1>5. \A q \in Client : RequestInv(q)'
    BY <1>3, <1>4
  <1> QED BY <1>1, <1>2, <1>5 DEF IndInv

\* Preparing the journal fails, perhaps after it was renamed.
LEMMA PrepareFailsKeeps ==
  ASSUME IndInv, NEW p \in Client, PrepareFails(p)
  PROVE  IndInv'
  <1>0. Now(p, "drop", req[p].goal, req[p].got, saves, "failed")
    BY GotoTxnNow, Known DEF TypeOK, PrepareFails, PCs, Recovering
  <1>1. TypeOK'
    <2>1. journal' \in [state : {"none", "prepared", "committed", "rolled_back"}, id : 0..MaxSave]
      BY Known DEF PrepareFails, TypeOK
    <2>4. unsure' \in BOOLEAN
      BY Known DEF PrepareFails, TypeOK
    <2>5. faults' \in 0..MaxFault
      BY Known, BoundsAssumption DEF PrepareFails, Fault, TypeOK
    <2> QED BY <1>0, <2>1, <2>4, <2>5, Known DEF TypeOK, PrepareFails, Now
  <1>2. DiskInv'
    <2>1. CountInv'
      BY Known DEF DiskInv, RequestInv, CountInv, ReqInv, PrepareFails, At, Saving
    <2>2. ~raced' => AckInv'
      <3> SUFFICES ASSUME ~raced PROVE AckInv'
        BY DEF PrepareFails
      <3>1. At(p, "prepare") => \A k \in Kind : entries[saves][k] = file[k]
        BY Known DEF RequestInv, ReqInv, GotInv, At, Saving, Kind
      <3> QED BY <3>1, Known DEF PrepareFails, DiskInv, AckInv, Prepared
    <2>3. ~raced' /\ ~unsure' => WholeInv'
      <3> SUFFICES ASSUME ~raced, ~unsure, ~unsure' PROVE WholeInv'
        BY DEF PrepareFails
      <3>1. journal' = journal
        BY DEF PrepareFails
      <3> QED BY <3>1, Known DEF PrepareFails, DiskInv, WholeInv, Prepared, HasBackups,
         Pair
    <2> QED BY <2>1, <2>2, <2>3 DEF DiskInv
  <1>3. ASSUME NEW q \in Client, q # p PROVE RequestInv(q)'
    <2>1. Bystander(q)
      <3>1. /\ req'[q] = req[q] /\ view'[q] = view[q] /\ change' = change /\ saves' = saves
            /\ legit \subseteq legit' /\ (raced => raced')
        BY <1>0, <1>3, Known DEF PrepareFails, RequestInv, ViewInv, Now
      <3>2. unsure => unsure'
        BY DEF PrepareFails
      <3>3. saver' = saver \/ (q # saver /\ saver' = None)
        BY DEF PrepareFails
      <3> QED BY <3>1, <3>2, <3>3 DEF Bystander
    <2>2. ~raced' => GotInv(q)' /\ RestoreInv(q)'
      BY <1>0, Known DEF RequestInv, GotInv, RestoreInv, PrepareFails, Now, Restoring
    <2>3. ~raced' => TurnInv(q)'
      BY <1>3, Known DEF RequestInv, ReqInv, TurnInv, PrepareFails, Saving, Preparing
    <2>4. ~raced' /\ ~unsure' => BackInv(q)' /\ LeadInv(q)'
      BY <1>0, Known DEF RequestInv, ReqInv, TurnInv, BackInv, LeadInv, PrepareFails, Now,
         Saving, Preparing, Restoring, Prepared
    <2> QED BY <1>3, <2>1, <2>2, <2>3, <2>4, Known, BystanderPlace DEF RequestInv
  <1>4. RequestInv(p)'
    <2>1. ReqInv(p)'
      BY <1>0, NoneAssumption, BoundsAssumption, VersionType, Known DEF TypeOK, DiskInv,
         RequestInv, ReqInv, PrepareFails, Now, At, Fault, Recovering, Saving, Preparing,
         Restoring, Kind
    <2>2. NotedInv(p)'
      BY BoundsAssumption, VersionType, Known DEF TypeOK, DiskInv, RequestInv, ReqInv,
         NotedInv, Intended, PrepareFails, At, Fault, Recovering, Saving, Preparing,
         Restoring, Kind
    <2>3. ~raced' => QuietInv(p)'
      BY Known DEF RequestInv, ReqInv, QuietInv, PrepareFails, Saving, Preparing
    <2>4. ~raced' => ViewInv(p)'
      <3> SUFFICES ASSUME ~raced' PROVE ViewInv(p)'
        OBVIOUS
      <3>1. saver' = saver /\ p = saver /\ req'[p].pc \notin Saving
        BY <1>0, Known DEF PrepareFails, RequestInv, ReqInv, Preparing, Saving, Now
      <3> QED BY <1>0, <3>1, Known, ViewStays DEF PrepareFails, RequestInv, ViewInv, Now
    <2>5. ~raced' => GotInv(p)' /\ RestoreInv(p)'
      BY <1>0 DEF GotInv, RestoreInv, Now, Preparing, Restoring
    <2>6. ~raced' => TurnInv(p)'
      BY <1>0 DEF TurnInv, Now, Saving, Preparing
    <2>7. ~raced' /\ ~unsure' => BackInv(p)'
      <3> SUFFICES ASSUME ~raced, ~unsure, ~unsure' PROVE BackInv(p)'
        BY DEF PrepareFails
      <3>1. p = saver /\ TurnInv(p)
        BY Known DEF PrepareFails, RequestInv, ReqInv, Preparing, Saving
      <3>2. ~Prepared'
        BY <3>1 DEF PrepareFails, TurnInv, Prepared
      <3> QED BY <1>0, <3>2 DEF BackInv, Now
    <2>8. ~raced' /\ ~unsure' => LeadInv(p)'
      BY <1>0 DEF LeadInv, Now, Restoring
    <2> QED BY <2>1, <2>2, <2>3, <2>4, <2>5, <2>6, <2>7, <2>8 DEF RequestInv
  <1>5. \A q \in Client : RequestInv(q)'
    BY <1>3, <1>4
  <1> QED BY <1>1, <1>2, <1>5 DEF IndInv

\* The settings are written.
LEMMA WriteKeeps == ASSUME IndInv, NEW p \in Client, Write(p) PROVE IndInv'
  <1>0. /\ change = "both" => Now(p, "rename", req[p].goal, req[p].got, req[p].txn, req[p].then)
        /\ change # "both" => Now(p, "journal", "settled", NoContent, 0, "load")
    BY GotoNow, ReadBackNow, Known DEF TypeOK, Write, PCs, Saving, Confirm
  <1>1. TypeOK'
    <2>1. file' \in Content
      BY Known DEF Write, Replace, TypeOK, Content
    <2>2. acked' \in Content
      BY Known DEF Write, Confirm, TypeOK, Content
    <2> QED BY <1>0, <2>1, <2>2, Known DEF TypeOK, Write, Now, Ended
  <1>2. DiskInv'
    <2>1. CountInv'
      BY Known DEF DiskInv, CountInv, Write, Confirm
    <2>2. ~raced' => AckInv'
      <3> SUFFICES ASSUME ~raced PROVE AckInv'
        BY DEF Write
      <3>1. file'["settings"] = saves /\ file'["secrets"] = file["secrets"]
        BY Known, Replaced DEF Write, TypeOK, Kind
      <3>2. \A k \in Kind : acked[k] <= saves /\ acked[k] <= file[k]
        BY Known DEF DiskInv, CountInv, AckInv
      <3>3. \A k \in Kind : acked'[k] <= file'[k] /\ (change = "both" => acked' = acked)
        BY <3>1, <3>2, Known DEF Write, Confirm, Kind
      <3>4. CASE change = "both"
        BY <3>3, <3>4, Known DEF Write, DiskInv, AckInv, Prepared
      <3>5. CASE change # "both"
        <4>1. ~Prepared
          BY <3>5, Known DEF Write, RequestInv, ReqInv, TurnInv, At, Saving
        <4> QED BY <3>3, <4>1 DEF Write, AckInv, Prepared
      <3> QED BY <3>4, <3>5
    <2>3. ~raced' /\ ~unsure' => WholeInv'
      <3> SUFFICES ASSUME ~raced, ~unsure PROVE WholeInv'
        BY DEF Write
      <3>1. p = saver /\ NotedInv(p) /\ GotInv(p) /\ TurnInv(p) /\ ReqInv(p)
        BY Known DEF Write, RequestInv, ReqInv, At, Saving
      <3>2. CASE change = "both"
        <4>1. Prepared
          BY <3>1, <3>2 DEF Write, TurnInv, At
        <4> QED BY <4>1, Known DEF Write, DiskInv, WholeInv, Prepared, HasBackups, Pair
      <3>3. CASE change # "both"
        <4>1. file'["settings"] = saves /\ file'["secrets"] = file["secrets"]
          BY Known, Replaced DEF Write, TypeOK, Kind
        <4>2. change = "settings"
          BY <3>1, <3>3, Known DEF Write, ReqInv, At, TypeOK, Change
        <4>3. req[p].got["secrets"] = file["secrets"]
          BY <3>1 DEF Write, GotInv, At
        <4>4. ~Prepared
          BY <3>1, <3>3 DEF Write, TurnInv, At, Saving
        <4>5. Pair(file)' = Intended(p)
          BY <4>1, <4>2, <4>3 DEF Pair, Intended
        <4>6. Intended(p) \in legit
          BY <3>1 DEF NotedInv, Write, At, Saving
        <4> QED BY <4>4, <4>5, <4>6 DEF Write, WholeInv, Prepared
      <3> QED BY <3>2, <3>3
    <2> QED BY <2>1, <2>2, <2>3 DEF DiskInv
  <1>3. ASSUME NEW q \in Client, q # p PROVE RequestInv(q)'
    <2>1. Bystander(q)
      BY <1>0, <1>3, Known DEF Bystander, RequestInv, ReqInv, Write, Confirm,
         Now, At, Replace, Recovering, Saving, Preparing, Kind
    <2>2. ~raced' => GotInv(q)' /\ RestoreInv(q)'
      BY <1>0, NoneAssumption, Known DEF RequestInv, ReqInv, QuietInv, GotInv, RestoreInv,
         Write, Now, At, Recovering, Saving, Preparing, Restoring
    <2>3. ~raced' => TurnInv(q)'
      BY <1>3, Known DEF RequestInv, ReqInv, TurnInv, Write, At, Saving
    <2>4. ~raced' /\ ~unsure' => BackInv(q)' /\ LeadInv(q)'
      BY <1>0, NoneAssumption, Known DEF RequestInv, ReqInv, QuietInv, BackInv, LeadInv,
         Write, Now, At, Recovering, Saving, Restoring
    <2> QED BY <1>3, <2>1, <2>2, <2>3, <2>4, Known, BystanderPlace DEF RequestInv
  <1>4. RequestInv(p)'
    <2>1. ReqInv(p)'
      BY <1>0, NoneAssumption, BoundsAssumption, VersionType, Known DEF TypeOK, DiskInv,
         RequestInv, ReqInv, Write, Confirm, Now, At, Replace, Recovering, Saving,
         Preparing, Restoring, Kind
    <2>2. NotedInv(p)'
      BY <1>0, Known DEF RequestInv, NotedInv, Intended, Write, Now, At, Saving
    <2>3. ~raced' => QuietInv(p)'
      BY Known DEF RequestInv, ReqInv, QuietInv, Write, At, Saving
    <2>4. ~raced' => ViewInv(p)'
      BY <1>0, NoneAssumption, BoundsAssumption, VersionType, Known DEF RequestInv,
         ViewInv, Pair, Write, Confirm, Now, At, Replace, Recovering, Saving, Preparing,
         Restoring, Kind, Prepared
    <2>5. ~raced' => GotInv(p)' /\ RestoreInv(p)'
      BY <1>0 DEF GotInv, RestoreInv, Write, Now, Preparing, Restoring
    <2>6. ~raced' => TurnInv(p)'
      <3> SUFFICES ASSUME ~raced PROVE TurnInv(p)'
        BY DEF Write
      <3>1. p = saver /\ TurnInv(p) /\ ReqInv(p)
        BY Known DEF Write, RequestInv, ReqInv, At, Saving
      <3>2. file'["settings"] = saves /\ file'["secrets"] = file["secrets"]
        BY Known, Replaced DEF Write, TypeOK, Kind
      <3>3. req[p].then = "load"
        BY <3>1 DEF Write, ReqInv, At, Recovering
      <3> QED BY <1>0, <3>1, <3>2, <3>3 DEF Write, TurnInv, Now, At, Kind, Prepared,
         Preparing, Saving
    <2>7. ~raced' /\ ~unsure' => BackInv(p)' /\ LeadInv(p)'
      BY <1>0 DEF BackInv, LeadInv, Now, Restoring
    <2> QED BY <2>1, <2>2, <2>3, <2>4, <2>5, <2>6, <2>7 DEF RequestInv
  <1>5. \A q \in Client : RequestInv(q)'
    BY <1>3, <1>4
  <1> QED BY <1>1, <1>2, <1>5 DEF IndInv

\* The secrets are written.
LEMMA RenameKeeps == ASSUME IndInv, NEW p \in Client, Rename(p) PROVE IndInv'
  <1>0. /\ change = "both" => Now(p, "commit", req[p].goal, req[p].got, req[p].txn, req[p].then)
        /\ change # "both" => Now(p, "journal", "settled", NoContent, 0, "load")
    BY GotoNow, ReadBackNow, Known DEF TypeOK, Rename, PCs, Saving, Confirm
  <1>1. TypeOK'
    <2>1. file' \in Content
      BY Known DEF Rename, Replace, TypeOK, Content
    <2>2. acked' \in Content
      BY Known DEF Rename, Confirm, TypeOK, Content
    <2> QED BY <1>0, <2>1, <2>2, Known DEF TypeOK, Rename, Now, Ended
  <1>2. DiskInv'
    <2>1. CountInv'
      BY Known DEF DiskInv, CountInv, Rename, Confirm
    <2>2. ~raced' => AckInv'
      <3> SUFFICES ASSUME ~raced PROVE AckInv'
        BY DEF Rename
      <3>1. file'["secrets"] = saves /\ file'["settings"] = file["settings"]
        BY Known, Replaced DEF Rename, TypeOK, Kind
      <3>2. \A k \in Kind : acked[k] <= saves /\ acked[k] <= file[k]
        BY Known DEF DiskInv, CountInv, AckInv
      <3>3. \A k \in Kind : acked'[k] <= file'[k] /\ (change = "both" => acked' = acked)
        BY <3>1, <3>2, Known DEF Rename, Confirm, Kind
      <3>4. CASE change = "both"
        BY <3>3, <3>4, Known DEF Rename, DiskInv, AckInv, Prepared
      <3>5. CASE change # "both"
        <4>1. ~Prepared
          BY <3>5, Known DEF Rename, RequestInv, ReqInv, TurnInv, At, Saving
        <4> QED BY <3>3, <4>1 DEF Rename, AckInv, Prepared
      <3> QED BY <3>4, <3>5
    <2>3. ~raced' /\ ~unsure' => WholeInv'
      <3> SUFFICES ASSUME ~raced, ~unsure PROVE WholeInv'
        BY DEF Rename
      <3>1. p = saver /\ NotedInv(p) /\ GotInv(p) /\ TurnInv(p) /\ ReqInv(p)
        BY Known DEF Rename, RequestInv, ReqInv, At, Saving
      <3>2. CASE change = "both"
        <4>1. Prepared
          BY <3>1, <3>2 DEF Rename, TurnInv, At
        <4> QED BY <4>1, Known DEF Rename, DiskInv, WholeInv, Prepared, HasBackups, Pair
      <3>3. CASE change # "both"
        <4>1. file'["secrets"] = saves /\ file'["settings"] = file["settings"]
          BY Known, Replaced DEF Rename, TypeOK, Kind
        <4>2. change = "secrets"
          BY <3>1, <3>3, Known DEF Rename, ReqInv, At, TypeOK, Change
        <4>3. req[p].got["settings"] = file["settings"]
          BY <3>1, <4>2 DEF Rename, GotInv, At
        <4>4. ~Prepared
          BY <3>1, <3>3 DEF Rename, TurnInv, At, Saving
        <4>5. Pair(file)' = Intended(p)
          BY <4>1, <4>2, <4>3 DEF Pair, Intended
        <4>6. Intended(p) \in legit
          BY <3>1 DEF NotedInv, Rename, At, Saving
        <4> QED BY <4>4, <4>5, <4>6 DEF Rename, WholeInv, Prepared
      <3> QED BY <3>2, <3>3
    <2> QED BY <2>1, <2>2, <2>3 DEF DiskInv
  <1>3. ASSUME NEW q \in Client, q # p PROVE RequestInv(q)'
    <2>1. Bystander(q)
      BY <1>0, <1>3, Known DEF Bystander, RequestInv, ReqInv, Rename, Confirm,
         Now, At, Replace, Recovering, Saving, Preparing, Kind
    <2>2. ~raced' => GotInv(q)' /\ RestoreInv(q)'
      BY <1>0, NoneAssumption, Known DEF RequestInv, ReqInv, QuietInv, GotInv, RestoreInv,
         Rename, Now, At, Recovering, Saving, Preparing, Restoring
    <2>3. ~raced' => TurnInv(q)'
      BY <1>3, Known DEF RequestInv, ReqInv, TurnInv, Rename, At, Saving
    <2>4. ~raced' /\ ~unsure' => BackInv(q)' /\ LeadInv(q)'
      BY <1>0, NoneAssumption, Known DEF RequestInv, ReqInv, QuietInv, BackInv, LeadInv,
         Rename, Now, At, Recovering, Saving, Restoring
    <2> QED BY <1>3, <2>1, <2>2, <2>3, <2>4, Known, BystanderPlace DEF RequestInv
  <1>4. RequestInv(p)'
    <2>1. ReqInv(p)'
      BY <1>0, NoneAssumption, BoundsAssumption, VersionType, Known DEF TypeOK, DiskInv,
         RequestInv, ReqInv, Rename, Confirm, Now, At, Replace, Recovering, Saving,
         Preparing, Restoring, Kind
    <2>2. NotedInv(p)'
      BY <1>0, Known DEF RequestInv, NotedInv, Intended, Rename, Now, At, Saving
    <2>3. ~raced' => QuietInv(p)'
      BY Known DEF RequestInv, ReqInv, QuietInv, Rename, At, Saving
    <2>4. ~raced' => ViewInv(p)'
      BY <1>0, NoneAssumption, BoundsAssumption, VersionType, Known DEF RequestInv,
         ViewInv, Pair, Rename, Confirm, Now, At, Replace, Recovering, Saving, Preparing,
         Restoring, Kind, Prepared
    <2>5. ~raced' => GotInv(p)' /\ RestoreInv(p)'
      BY <1>0 DEF GotInv, RestoreInv, Now, Preparing, Restoring
    <2>6. ~raced' => TurnInv(p)'
      <3> SUFFICES ASSUME ~raced PROVE TurnInv(p)'
        BY DEF Rename
      <3>1. p = saver /\ TurnInv(p) /\ ReqInv(p)
        BY Known DEF Rename, RequestInv, ReqInv, At, Saving
      <3>2. file'["secrets"] = saves /\ file'["settings"] = file["settings"]
        BY Known, Replaced DEF Rename, TypeOK, Kind
      <3>3. req[p].then = "load"
        BY <3>1 DEF Rename, ReqInv, At, Recovering
      <3> QED BY <1>0, <3>1, <3>2, <3>3 DEF Rename, TurnInv, Now, At, Kind, Prepared,
         Preparing, Saving
    <2>7. ~raced' /\ ~unsure' => BackInv(p)' /\ LeadInv(p)'
      BY <1>0 DEF BackInv, LeadInv, Now, Restoring
    <2> QED BY <2>1, <2>2, <2>3, <2>4, <2>5, <2>6, <2>7 DEF RequestInv
  <1>5. \A q \in Client : RequestInv(q)'
    BY <1>3, <1>4
  <1> QED BY <1>1, <1>2, <1>5 DEF IndInv

\* The journal says committed.
LEMMA CommitKeeps == ASSUME IndInv, NEW p \in Client, Commit(p) PROVE IndInv'
  <1>0. Now(p, "drop", req[p].goal, req[p].got, saves, "acked")
    BY GotoTxnNow, Known DEF TypeOK, Commit, PCs, Recovering
  <1>1. TypeOK'
    BY <1>0, Known DEF TypeOK, Commit, Now, ghosts
  <1>2. DiskInv'
    <2>1. CountInv'
      BY Known DEF DiskInv, RequestInv, CountInv, ReqInv, Commit, ghosts, At, Saving
    <2>2. ~raced' => AckInv'
      BY Known DEF DiskInv, RequestInv, AckInv, ReqInv, TurnInv, Commit, ghosts, At,
         Saving
    <2>3. ~raced' /\ ~unsure' => WholeInv'
      BY BoundsAssumption, VersionType, Known DEF TypeOK, DiskInv, RequestInv, WholeInv,
         ReqInv, QuietInv, GotInv, NotedInv, Intended, TurnInv, BackInv, LeadInv,
         HasBackups, Pair, Commit, ghosts, At, Recovering, Saving, Preparing, Restoring,
         Kind, Prepared
    <2> QED BY <2>1, <2>2, <2>3 DEF DiskInv
  <1>3. ASSUME NEW q \in Client, q # p PROVE RequestInv(q)'
    <2>1. Bystander(q)
      BY <1>0, <1>3, Known DEF Bystander, RequestInv, ReqInv, Commit, Now,
         ghosts, At, Recovering, Saving, Preparing
    <2>2. ~raced' => GotInv(q)' /\ RestoreInv(q)'
      BY <1>0, Known DEF DiskInv, RequestInv, ReqInv, GotInv, TurnInv, RestoreInv, AckInv,
         Commit, Now, ghosts, At, Saving, Preparing
    <2>3. ~raced' => TurnInv(q)'
      BY <1>3, Known DEF RequestInv, ReqInv, TurnInv, Commit, At, Saving
    <2>4. ~raced' /\ ~unsure' => BackInv(q)' /\ LeadInv(q)'
      BY <1>0, NoneAssumption, Known DEF RequestInv, ReqInv, QuietInv, BackInv, LeadInv,
         Commit, Now, ghosts, At, Recovering, Saving, Restoring, Prepared
    <2> QED BY <1>3, <2>1, <2>2, <2>3, <2>4, Known, BystanderPlace DEF RequestInv
  <1>4. RequestInv(p)'
    <2>1. ReqInv(p)'
      BY <1>0, NoneAssumption, BoundsAssumption, VersionType, Known DEF TypeOK, DiskInv,
         RequestInv, ReqInv, Commit, Now, ghosts, At, Recovering, Saving, Preparing,
         Restoring, Kind
    <2>2. NotedInv(p)'
      BY BoundsAssumption, VersionType, Known DEF TypeOK, DiskInv, RequestInv, ReqInv,
         NotedInv, Intended, Commit, ghosts, At, Recovering, Saving, Preparing, Restoring,
         Kind
    <2>3. ~raced' => QuietInv(p)'
      BY Known DEF RequestInv, ReqInv, QuietInv, Commit, At, Saving
    <2>4. ~raced' => ViewInv(p)'
      BY <1>0, NoneAssumption, BoundsAssumption, VersionType, Known DEF RequestInv,
         ViewInv, Commit, Now, ghosts, At, Recovering, Saving, Preparing, Restoring, Kind,
         Prepared
    <2>5. ~raced' => GotInv(p)' /\ RestoreInv(p)'
      BY <1>0 DEF GotInv, RestoreInv, Now, Preparing, Restoring
    <2>6. ~raced' => TurnInv(p)'
      BY <1>0, Known DEF RequestInv, TurnInv, Commit, Now, ghosts, At, Prepared
    <2>7. ~raced' /\ ~unsure' => BackInv(p)' /\ LeadInv(p)'
      BY <1>0 DEF BackInv, LeadInv, Commit, Now, Restoring, Prepared
    <2> QED BY <2>1, <2>2, <2>3, <2>4, <2>5, <2>6, <2>7 DEF RequestInv
  <1>5. \A q \in Client : RequestInv(q)'
    BY <1>3, <1>4
  <1> QED BY <1>1, <1>2, <1>5 DEF IndInv

\* A save fails and rolls back.
LEMMA SaveFailsKeeps == ASSUME IndInv, NEW p \in Client, SaveFails(p) PROVE IndInv'
  <1>0. /\ change = "both" => /\ Now(p, "backups", req[p].goal, req[p].got, saves, "failed")
                              /\ saver' = saver
        /\ change # "both" => Ended(p)
    BY GotoTxnNow, EndNow, Known DEF TypeOK, SaveFails, PCs, Recovering
  <1>1. TypeOK'
    <2>1. file' \in Content
      BY Known DEF SaveFails, Replace, TypeOK, Content
    <2>2. journal' \in [state : {"none", "prepared", "committed", "rolled_back"}, id : 0..MaxSave]
      BY Known DEF SaveFails, TypeOK
    <2>3. saver' \in Client \cup {None} /\ req' \in [Client -> Request]
      BY <1>0, Known DEF TypeOK, Now, Ended
    <2>4. unsure' \in BOOLEAN
      BY Known DEF SaveFails, TypeOK
    <2>5. faults' \in 0..MaxFault
      BY Known, BoundsAssumption DEF SaveFails, Fault, TypeOK
    <2> QED BY <2>1, <2>2, <2>3, <2>4, <2>5, Known DEF TypeOK, SaveFails
  <1>2. DiskInv'
    <2>1. CountInv'
      BY Known DEF DiskInv, RequestInv, CountInv, ReqInv, SaveFails, Saving
    <2>2. ~raced' => AckInv'
      BY Known DEF TypeOK, DiskInv, Content, CountInv, AckInv, SaveFails, Replace,
         Prepared
    <2>3. ~raced' /\ ~unsure' => WholeInv'
      <3> SUFFICES ASSUME ~raced, ~unsure, ~unsure' PROVE WholeInv'
        BY DEF SaveFails
      <3>1. p = saver /\ NotedInv(p) /\ GotInv(p) /\ TurnInv(p) /\ ReqInv(p)
        BY Known DEF SaveFails, RequestInv, ReqInv, Saving
      <3>2. journal' = journal
        BY DEF SaveFails
      <3>3. CASE change = "both"
        <4>1. Prepared
          BY <3>1, <3>3 DEF SaveFails, TurnInv
        <4> QED BY <3>2, <4>1, Known DEF SaveFails, DiskInv, WholeInv, Prepared,
           HasBackups, Pair
      <3>4. CASE change # "both" /\ file' = file
        BY <3>4, Known DEF SaveFails, DiskInv, WholeInv, Prepared, HasBackups
      <3>5. CASE change # "both" /\ file' # file
        <4>1. \/ At(p, "write") /\ Replace("settings", saves)
              \/ At(p, "rename") /\ Replace("secrets", saves)
          BY <3>5 DEF SaveFails
        <4>2. ~Prepared
          BY <3>1, <3>5 DEF SaveFails, TurnInv, Saving
        <4>3. Intended(p) \in legit
          BY <3>1 DEF NotedInv, SaveFails, Saving
        <4>4. CASE At(p, "write") /\ Replace("settings", saves)
          <5>1. file'["settings"] = saves /\ file'["secrets"] = file["secrets"]
            BY <4>4, Known, Replaced DEF TypeOK, Kind
          <5>2. req[p].got["secrets"] = file["secrets"] /\ change = "settings"
            BY <3>1, <3>5, <4>4, Known DEF GotInv, ReqInv, At, TypeOK, Change
          <5>3. Pair(file)' = Intended(p)
            BY <5>1, <5>2 DEF Pair, Intended
          <5> QED BY <3>2, <4>2, <4>3, <5>3 DEF SaveFails, WholeInv, Prepared
        <4>5. CASE At(p, "rename") /\ Replace("secrets", saves)
          <5>1. file'["secrets"] = saves /\ file'["settings"] = file["settings"]
            BY <4>5, Known, Replaced DEF TypeOK, Kind
          <5>2. req[p].got["settings"] = file["settings"] /\ change = "secrets"
            BY <3>1, <3>5, <4>5, Known DEF GotInv, ReqInv, At, TypeOK, Change
          <5>3. Pair(file)' = Intended(p)
            BY <5>1, <5>2 DEF Pair, Intended
          <5> QED BY <3>2, <4>2, <4>3, <5>3 DEF SaveFails, WholeInv, Prepared
        <4> QED BY <4>1, <4>4, <4>5
      <3> QED BY <3>3, <3>4, <3>5
    <2> QED BY <2>1, <2>2, <2>3 DEF DiskInv
  <1>3. ASSUME NEW q \in Client, q # p PROVE RequestInv(q)'
    <2>1. Bystander(q)
      <3>1. /\ req'[q] = req[q] /\ view'[q] = view[q] /\ change' = change /\ saves' = saves
            /\ legit \subseteq legit' /\ (raced => raced')
        BY <1>0, <1>3, Known DEF SaveFails, RequestInv, ViewInv, Now, Ended
      <3>2. unsure => unsure'
        BY DEF SaveFails
      <3>3. saver' = saver \/ (q # saver /\ saver' = None)
        BY <1>0, <1>3 DEF Ended
      <3> QED BY <3>1, <3>2, <3>3 DEF Bystander
    <2>2. ~raced' => GotInv(q)' /\ RestoreInv(q)'
      BY <1>0, NoneAssumption, Known DEF DiskInv, RequestInv, ReqInv, GotInv, TurnInv,
         RestoreInv, AckInv, SaveFails, Now, Ended, Saving, Preparing, Restoring
    <2>3. ~raced' => TurnInv(q)'
      BY <1>0, Known DEF RequestInv, ReqInv, TurnInv, SaveFails, Now, Ended, Saving,
         Preparing, Prepared
    <2>4. ~raced' /\ ~unsure' => BackInv(q)' /\ LeadInv(q)'
      BY <1>0, NoneAssumption, Known DEF RequestInv, ReqInv, QuietInv, TurnInv, BackInv,
         LeadInv, SaveFails, Now, Ended, Recovering, Saving, Restoring, Prepared
    <2> QED BY <1>3, <2>1, <2>2, <2>3, <2>4, Known, BystanderPlace DEF RequestInv
  <1>4. RequestInv(p)'
    <2>1. ReqInv(p)'
      BY <1>0, NoneAssumption, BoundsAssumption, VersionType, Known DEF TypeOK, DiskInv,
         RequestInv, ReqInv, SaveFails, Now, Ended, At, Fault, Replace, Recovering,
         Saving, Preparing, Restoring, Kind
    <2>2. NotedInv(p)'
      BY <1>0 DEF NotedInv, Now, Ended, Saving
    <2>3. ~raced' => QuietInv(p)'
      BY <1>0, Known DEF RequestInv, ReqInv, QuietInv, SaveFails, Ended, Saving
    <2>4. ~raced' => ViewInv(p)'
      <3> SUFFICES ASSUME ~raced' PROVE ViewInv(p)'
        OBVIOUS
      <3>1. p = saver
        BY Known DEF SaveFails, RequestInv, ReqInv, Saving
      <3>2. p # saver' => req'[p].pc = "idle"
        BY <1>0, <3>1 DEF Now, Ended
      <3>3. req'[p].goal = "save" => req'[p].goal = req[p].goal /\ req'[p].got = req[p].got
                                       /\ req'[p].pc \notin Saving
        BY <1>0 DEF Now, Ended, Saving
      <3> QED BY <3>2, <3>3, Known, ViewStays DEF SaveFails, RequestInv, ViewInv
    <2>5. ~raced' => GotInv(p)' /\ RestoreInv(p)'
      BY <1>0, Known DEF DiskInv, RequestInv, ReqInv, GotInv, TurnInv, RestoreInv, AckInv,
         SaveFails, Now, Ended, Saving, Preparing, Restoring
    <2>6. ~raced' => TurnInv(p)'
      BY <1>0 DEF TurnInv, Now, Ended, Saving, Preparing
    <2>7. ~raced' /\ ~unsure' => BackInv(p)' /\ LeadInv(p)'
      BY <1>0, Known DEF RequestInv, ReqInv, TurnInv, BackInv, LeadInv, SaveFails, Now,
         Ended, Saving, Restoring, Prepared
    <2> QED BY <2>1, <2>2, <2>3, <2>4, <2>5, <2>6, <2>7 DEF RequestInv
  <1>5. \A q \in Client : RequestInv(q)'
    BY <1>3, <1>4
  <1> QED BY <1>1, <1>2, <1>5 DEF IndInv

\* The process dies; who starts again finds the disk.
LEMMA CrashKeeps == ASSUME IndInv, Crash PROVE IndInv'
  <1>1. \A q \in Client : req'[q] = Idle
    BY DEF Crash
  <1>2. TypeOK'
    BY IdleType, BoundsAssumption DEF IndInv, TypeOK, Crash, Fault, disk, ghosts
  <1>3. DiskInv'
    BY DEF IndInv, DiskInv, CountInv, AckInv, WholeInv, Crash, disk, ghosts, Prepared,
       HasBackups
  <1>4. ASSUME NEW q \in Client PROVE RequestInv(q)'
    <2>1. RequestInv(q)
      BY DEF IndInv
    <2>2. req'[q].pc = "idle" /\ req'[q].goal = "view" /\ req'[q].then = "load"
      BY <1>1 DEF Idle
    <2>3. ReqInv(q)' /\ NotedInv(q)' /\ QuietInv(q)' /\ RestoreInv(q)' /\ BackInv(q)' /\ LeadInv(q)'
      BY <2>2 DEF ReqInv, NotedInv, QuietInv, RestoreInv, BackInv, LeadInv, Recovering,
         Restoring, Saving, Preparing
    <2>4. GotInv(q)' /\ TurnInv(q)'
      BY NoneAssumption DEF Crash, GotInv, TurnInv
    <2>5. ~raced' => ViewInv(q)'
      BY <2>1, <2>2 DEF Crash, RequestInv, ViewInv, ghosts
    <2> QED BY <2>3, <2>4, <2>5 DEF RequestInv
  <1> QED BY <1>2, <1>3, <1>4 DEF IndInv

\* Nothing happens.
LEMMA StutterKeeps == ASSUME IndInv, UNCHANGED vars PROVE IndInv'
  <1> USE DEF vars, disk, ghosts
  <1>1. TypeOK'
    BY DEF IndInv, TypeOK
  <1>2. DiskInv'
    BY DEF IndInv, DiskInv, CountInv, AckInv, WholeInv, Prepared, HasBackups
  <1>3. ASSUME NEW q \in Client PROVE RequestInv(q)'
    <2>1. RequestInv(q)
      BY DEF IndInv
    <2>2. NotedInv(q)'
      BY <2>1, NotedStays DEF RequestInv
    <2>3. ReqInv(q)' /\ (~raced' => QuietInv(q)' /\ GotInv(q)')
      BY <2>1 DEF RequestInv, ReqInv, QuietInv, GotInv
    <2>4. ~raced' => TurnInv(q)' /\ RestoreInv(q)'
      BY <2>1 DEF RequestInv, TurnInv, RestoreInv, Prepared
    <2>5. ~raced' /\ ~unsure' => BackInv(q)' /\ LeadInv(q)'
      BY <2>1 DEF RequestInv, BackInv, LeadInv, Prepared, HasBackups
    <2>6. ~raced' => ViewInv(q)'
      BY <2>1 DEF RequestInv, ViewInv
    <2> QED BY <2>2, <2>3, <2>4, <2>5, <2>6 DEF RequestInv
  <1> QED BY <1>1, <1>2, <1>3 DEF IndInv

\* The initial state has the invariant.
LEMMA InitInd == Init => IndInv
  <1> SUFFICES ASSUME Init PROVE IndInv
    OBVIOUS
  <1>1. file \in Content /\ \A k \in Kind : file[k] <= 0
    BY BoundsAssumption DEF Init, Content, Version, NoFile
  <1>2. \A q \in Client : /\ req[q] = Idle /\ view[q] = NoView
    BY DEF Init
  <1>3. TypeOK
    <2>1. NoView \in Documents
      BY VersionType DEF NoView, Documents, Content
    <2>2. entries \in [Save -> Content]
      BY VersionType DEF Init, Content
    <2>3. legit \in SUBSET (Version \X Version)
      BY <1>1 DEF Init, Pair, Content, Kind
    <2>4. journal \in [state : {"none", "prepared", "committed", "rolled_back"}, id : 0..MaxSave]
      BY BoundsAssumption DEF Init, NoJournal
    <2>5. acked \in Content /\ saves \in 0..MaxSave /\ faults \in 0..MaxFault
      BY <1>1, BoundsAssumption DEF Init
    <2>6. req \in [Client -> Request] /\ view \in [Client -> Documents]
      BY <2>1, IdleType DEF Init
    <2>7. saver \in Client \cup {None} /\ change \in Change /\ backup \in SUBSET (Save \X Kind)
          /\ unsure \in BOOLEAN /\ raced \in BOOLEAN
      BY DEF Init, Change
    <2> QED BY <1>1, <2>2, <2>3, <2>4, <2>5, <2>6, <2>7 DEF TypeOK
  <1>4. DiskInv
    BY <1>1, VersionType DEF Init, DiskInv, CountInv, AckInv, WholeInv, Prepared,
       NoJournal
  <1>5. ASSUME NEW q \in Client PROVE RequestInv(q)
    <2>1. req[q].pc = "idle" /\ req[q].goal = "view" /\ req[q].then = "load"
      BY <1>2 DEF Idle
    <2>2. ReqInv(q) /\ NotedInv(q) /\ QuietInv(q) /\ RestoreInv(q) /\ BackInv(q) /\ LeadInv(q)
      BY <2>1 DEF ReqInv, NotedInv, QuietInv, RestoreInv, BackInv, LeadInv, Recovering,
         Restoring, Saving, Preparing
    <2>3. GotInv(q) /\ TurnInv(q)
      BY NoneAssumption DEF Init, GotInv, TurnInv
    <2>4. ViewInv(q)
      BY <1>2 DEF NoView, ViewInv
    <2> QED BY <2>2, <2>3, <2>4 DEF RequestInv
  <1> QED BY <1>3, <1>4, <1>5 DEF IndInv

\* Every action keeps it.
LEMMA StepInd == IndInv /\ [Next]_vars => IndInv'
  <1> SUFFICES ASSUME IndInv, [Next]_vars PROVE IndInv'
    OBVIOUS
  <1>1. ASSUME NEW p \in Client, Step(p) PROVE IndInv'
    <2>1. CASE \E turn \in LoadKinds : Load(p, turn)
      BY <2>1, LoadKeeps
    <2>2. CASE \E c \in Change : BeginSave(p, c)
      BY <2>2, BeginSaveKeeps
    <2>3. CASE ReadJournal(p) \/ ReadSettings(p) \/ ReadSecrets(p) \/ Loaded(p) \/ LoadFails(p)
      BY <2>3, ReadJournalKeeps, ReadSettingsKeeps, ReadSecretsKeeps, LoadedKeeps,
         LoadFailsKeeps
    <2>4. CASE \/ ReadBackups(p) \/ RecoveryUnsafe(p)
               \/ Mark(p) \/ MarkFails(p) \/ DropBackups(p) \/ DropJournal(p)
      BY <2>4, ReadBackupsKeeps, RecoveryUnsafeKeeps, MarkKeeps, MarkFailsKeeps,
         DropBackupsKeeps, DropJournalKeeps
    <2>5. CASE \E k \in Kind : Restore(p, k) \/ RestoreFails(p, k) \/ BackUp(p, k)
      BY <2>5, RestoreKeeps, RestoreFailsKeeps, BackUpKeeps
    <2>6. CASE \/ Check(p) \/ Prepare(p) \/ PrepareFails(p)
               \/ Write(p) \/ Rename(p) \/ Commit(p) \/ SaveFails(p)
      BY <2>6, CheckKeeps, PrepareKeeps, PrepareFailsKeeps, WriteKeeps, RenameKeeps,
         CommitKeeps, SaveFailsKeeps
    <2> QED BY <1>1, <2>1, <2>2, <2>3, <2>4, <2>5, <2>6 DEF Step
  <1>2. CASE Crash
    BY <1>2, CrashKeeps
  <1>3. CASE UNCHANGED vars
    BY <1>3, StutterKeeps
  <1> QED BY <1>1, <1>2, <1>3 DEF Next
-----------------------------------------------------------------------------
(* The theorems *)

\* The inductive invariant: what each step of a load, a save, a rollback and a
\* clean-up relies on holds whatever interleaves, fails or crashes.
THEOREM Invariance == Spec => []IndInv
  BY InitInd, StepInd, PTL DEF Spec

\* Whatever interleaves, crashes or fails, a save that was confirmed is not undone,
\* unless a load recovers beside a save (saveSettings, recoverSettingsTransaction).
THEOREM ConfirmedSavesAreKept == Spec => []AckedKept
  <1>1. IndInv => AckedKept
    BY DEF IndInv, DiskInv, AckInv, AckedKept
  <1> QED BY <1>1, Invariance, PTL

\* A journal that asks for a rollback always has the backups the rollback needs.
THEOREM RollbackStaysPossible == Spec => []RollbackPossible
  <1>1. IndInv => RollbackPossible
    BY DEF IndInv, DiskInv, WholeInv, RollbackPossible, Prepared
  <1> QED BY <1>1, Invariance, PTL

\* No crash and no failure separates the two files on disk, and no document that
\* waited for the writes holds the settings of one save with the secrets of another,
\* also when other loads go beside the saves.
THEOREM NothingIsTorn == Spec => []FilesAreWhole
  <1>1. IndInv => FilesAreWhole
    BY DEF IndInv, DiskInv, WholeInv, RequestInv, ViewInv, FilesAreWhole, LoadsAreWhole,
       DiskIsWhole, Prepared
  <1> QED BY <1>1, Invariance, PTL

\* A patch made on a document that waited for the writes passes the revision check
\* only on the contents of that document, whatever other loads are under way.
THEOREM PatchesAreCurrent == Spec => []PatchMadeOnCurrent
  <1>1. IndInv => PatchMadeOnCurrent
    BY DEF IndInv, RequestInv, ViewInv, PatchMadeOnCurrent
  <1> QED BY <1>1, Invariance, PTL
=============================================================================
