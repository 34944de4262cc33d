---------------------------- MODULE InstanceLock ----------------------------
(***************************************************************************)
(* data/wx-summary.lock, the file that keeps a project to one service      *)
(* process (main.js, acquireInstanceLock and releaseInstanceLockSync).  A  *)
(* starter creates the file exclusively, then writes its identity into it; *)
(* a starter that finds a file asks the running service whether it can be  *)
(* reused, and otherwise removes the file of a dead owner by pathname and  *)
(* tries once more.  A running owner touches the file every five seconds;  *)
(* a file not touched for thirty seconds is not fresh.                     *)
(***************************************************************************)
EXTENDS Naturals

CONSTANTS Proc,      \* processes; a process that is started again is another
          NoLock,    \* no file
          MaxBeat    \* bound: heartbeats of a lock file

ASSUME BeatAssumption == MaxBeat \in Nat

VARIABLES
    file,     \* the file: owner, complete (identity written), fresh, mtime
    at,       \* where each process is
    snapshot, \* its last snapshot of the file
    attempt,  \* attempts it has used up
    excused,  \* ghost: it met another active process while starting, or could
             \* not tell whether the owner is alive
    raced     \* ghost: processes whose reclaim removed a file they had not judged
instanceVars == <<file, at, snapshot, attempt, excused, raced>>

LockFile == [owner : Proc, complete : BOOLEAN, fresh : BOOLEAN, mtime : 0..MaxBeat]
ASSUME NoLockAssumption == NoLock \notin LockFile

Starting == {"open", "write", "exists", "judge", "recheck", "unlink", "wait"}
Running == {"running", "read", "remove"}
Done == {"off", "declined", "refused", "exited", "dead"}

InstanceTypeOK ==
    /\ file \in LockFile \cup {NoLock}
    /\ at \in [Proc -> Starting \cup Running \cup Done]
    /\ snapshot \in [Proc -> LockFile \cup {NoLock}]
    /\ attempt \in [Proc -> 0..1]
    /\ excused \in SUBSET Proc /\ raced \in SUBSET Proc

InstanceInit ==
    /\ file = NoLock
    /\ at = [p \in Proc |-> "off"]
    /\ snapshot = [p \in Proc |-> NoLock]
    /\ attempt = [p \in Proc |-> 0]
    /\ excused = {} /\ raced = {}

Active == {p \in Proc : at[p] \notin Done}
IsDone(p) == at[p] \in Done
GoTo(p, l) == at' = [at EXCEPT ![p] = l]
Mine(p) == file # NoLock /\ file.owner = p

\* Mutated: an old modification time alone makes a lock reclaimable.
ReclaimableByAge(f) == ~f.complete \/ ~f.fresh \/ IsDone(f.owner)

\* A complete file names its owner; a file without identity has none.  The
\* judgment of a complete file waits for the process table.
Reclaimable(f) == ~f.complete \/ IsDone(f.owner)

\* Mutated: one attempt only.
GiveUpAs(p) ==
    /\ snapshot' = [snapshot EXCEPT ![p] = NoLock]
    /\ GoTo(p, "refused") /\ UNCHANGED attempt

\* The for loop: one attempt more, or "cannot get the lock".
RetryAs(p) ==
    /\ snapshot' = [snapshot EXCEPT ![p] = NoLock]
    /\ IF attempt[p] = 0
         THEN attempt' = [attempt EXCEPT ![p] = 1] /\ GoTo(p, "open")
         ELSE GoTo(p, "refused") /\ UNCHANGED attempt

-----------------------------------------------------------------------------
(* Starting *)

Launch(p) ==
    /\ at[p] = "off"
    /\ GoTo(p, "open")
    /\ excused' = IF Active = {} THEN excused ELSE excused \cup Active \cup {p}
    /\ UNCHANGED <<file, snapshot, attempt, raced>>

\* The running service answers its health check: the browser is sent there.
Reuse(p) ==
    /\ at[p] \in {"off", "exists", "wait"}
    /\ \E q \in Proc : at[q] = "running"
    /\ GoTo(p, "declined")
    /\ UNCHANGED <<file, snapshot, attempt, excused, raced>>

\* The service answered and was shut down for the starter (changed sources, or
\* already closing): the next attempt follows at once.
Stopped(p) ==
    /\ at[p] \in {"exists", "wait"}
    /\ p \in excused
    /\ \E q \in Proc : at[q] \in {"exited", "dead"}
    /\ RetryAs(p)
    /\ UNCHANGED <<file, excused, raced>>

\* openSync(..., 'wx')
Open(p) ==
    /\ at[p] = "open"
    /\ IF file = NoLock
         THEN /\ file' = [owner |-> p, complete |-> FALSE, fresh |-> TRUE, mtime |-> 0]
              /\ GoTo(p, "write")
         ELSE GoTo(p, "exists") /\ UNCHANGED file
    /\ UNCHANGED <<snapshot, attempt, excused, raced>>

\* The identity goes to the open descriptor, wherever its name has gone.
Write(p) ==
    /\ at[p] = "write"
    /\ file' = IF Mine(p) THEN [file EXCEPT !.complete = TRUE] ELSE file
    /\ GoTo(p, "running")
    /\ UNCHANGED <<snapshot, attempt, excused, raced>>

\* The write fails: the file is released and the start ends with the error.
WriteFails(p) ==
    /\ at[p] = "write"
    /\ GoTo(p, "read")
    /\ UNCHANGED <<file, snapshot, attempt, excused, raced>>

\* Nobody answered: the file is looked at.  Only a fresh file without identity
\* is waited for at this point.
Snapshot(p) ==
    /\ at[p] = "exists"
    /\ snapshot' = [snapshot EXCEPT ![p] = file]
    /\ IF file = NoLock
         THEN RetryAs(p)
         ELSE /\ GoTo(p, IF file.fresh /\ ~file.complete THEN "wait" ELSE "judge")
              /\ UNCHANGED attempt
    /\ UNCHANGED <<file, excused, raced>>

\* The owner is dead, or the stale file names none.
JudgeGone(p) ==
    /\ at[p] = "judge"
    /\ Reclaimable(snapshot[p])
    /\ GoTo(p, "recheck")
    /\ UNCHANGED <<file, snapshot, attempt, excused, raced>>

\* The owner is alive, or its pid is in use by a process that cannot be told
\* from it: the start is refused; the first judgment of a fresh file waits.
JudgeAlive(p) ==
    /\ at[p] \in {"judge", "recheck"}
    /\ snapshot[p].complete
    /\ \/ GoTo(p, "refused")
       \/ at[p] = "judge" /\ snapshot[p].fresh /\ GoTo(p, "wait")
    /\ excused' = excused \cup {p}
    /\ UNCHANGED <<file, snapshot, attempt, raced>>

SameFile(f, g) == f # NoLock /\ f.owner = g.owner /\ f.complete = g.complete
                  /\ f.mtime = g.mtime

\* reclaimStaleInstanceLock reads the file again and judges it again.
RecheckFile(p) ==
    /\ at[p] = "recheck"
    /\ \/ file = NoLock /\ RetryAs(p)
       \/ /\ SameFile(file, snapshot[p]) /\ Reclaimable(file)
          /\ GoTo(p, "unlink") /\ UNCHANGED <<snapshot, attempt>>
       \/ /\ file # NoLock /\ ~SameFile(file, snapshot[p])
          /\ IF snapshot[p].fresh
               THEN GoTo(p, "exists") /\ UNCHANGED <<snapshot, attempt>>
               ELSE RetryAs(p)
    /\ UNCHANGED <<file, excused, raced>>

\* unlink() of the path, after the second judgment was awaited.
RemoveJudged(p) ==
    /\ at[p] = "unlink"
    /\ raced' = IF file # NoLock /\ ~SameFile(file, snapshot[p]) THEN raced \cup {p}
                                                              ELSE raced
    /\ file' = NoLock
    /\ RetryAs(p)
    /\ UNCHANGED excused

\* 1.2 seconds later a file that still is fresh refuses the start.
WaitOver(p) ==
    /\ at[p] = "wait"
    /\ IF file = NoLock
         THEN RetryAs(p)
         ELSE /\ snapshot' = [snapshot EXCEPT ![p] = file]
              /\ GoTo(p, IF file.fresh THEN "refused" ELSE "judge")
              /\ UNCHANGED attempt
    /\ UNCHANGED <<file, excused, raced>>

-----------------------------------------------------------------------------
(* Running and ending *)

Heartbeat(p) ==
    /\ at[p] = "running" /\ Mine(p)
    /\ file.mtime < MaxBeat
    /\ file' = [file EXCEPT !.fresh = TRUE, !.mtime = @ + 1]
    /\ UNCHANGED <<at, snapshot, attempt, excused, raced>>

Exit(p) ==
    /\ at[p] = "running"
    /\ GoTo(p, "read")
    /\ UNCHANGED <<file, snapshot, attempt, excused, raced>>

\* releaseInstanceLockSync reads the file; absent or without identity it counts
\* as its own.
ReleaseLook(p) ==
    /\ at[p] = "read"
    /\ GoTo(p, IF file # NoLock /\ file.complete /\ ~Mine(p) THEN "exited"
               ELSE "remove")
    /\ UNCHANGED <<file, snapshot, attempt, excused, raced>>

ReleaseRemove(p) ==
    /\ at[p] = "remove"
    /\ file' = NoLock
    /\ GoTo(p, "exited")
    /\ UNCHANGED <<snapshot, attempt, excused, raced>>

Die(p) ==
    /\ p \in Active
    /\ GoTo(p, "dead")
    /\ UNCHANGED <<file, snapshot, attempt, excused, raced>>

\* Thirty seconds without a touch.  Creating and writing the file is one piece
\* of synchronous code and takes less.
Age ==
    /\ file # NoLock /\ file.fresh
    /\ at[file.owner] # "write"
    /\ file.complete \/ IsDone(file.owner)
    /\ file' = [file EXCEPT !.fresh = FALSE]
    /\ UNCHANGED <<at, snapshot, attempt, excused, raced>>

-----------------------------------------------------------------------------
StartStep(p) ==
    \/ Launch(p) \/ Reuse(p) \/ Stopped(p) \/ Open(p) \/ Write(p) \/ WriteFails(p)
    \/ Snapshot(p) \/ JudgeGone(p) \/ JudgeAlive(p) \/ RecheckFile(p) \/ RemoveJudged(p)
    \/ WaitOver(p)

RunningStep(p) == Heartbeat(p) \/ Exit(p) \/ ReleaseLook(p) \/ ReleaseRemove(p)

InstanceNext == (\E p \in Proc : StartStep(p) \/ RunningStep(p) \/ Die(p)) \/ Age

InstanceSpec == InstanceInit /\ [][InstanceNext]_instanceVars

-----------------------------------------------------------------------------
(* Properties *)

\* Two processes never both believe that they hold the project.
SingleInstance == \A p, q \in Proc : at[p] = "running" /\ at[q] = "running" => p = q

\* A running process has its file on disk, complete, as long as no reclaim has
\* hit a file other than the one it had judged: neither an exit, a failed write
\* nor a crash, nor the judgment itself displaces an owner.
HeldUnlessRaced ==
    raced = {} => \A p \in Proc : at[p] = "running" => Mine(p) /\ file.complete

\* Why that is so.  A process that creates, writes, owns or releases the file
\* is the one the file belongs to; a file judged reclaimable has a dead owner,
\* and so has a file without identity that is no longer fresh.
Holding == {"write"} \cup Running

HoldInv == raced = {} => \A p \in Proc : at[p] \in Holding => Mine(p)
WrittenInv == raced = {} => \A p \in Proc : at[p] = "running" => file.complete
Gone(p) == IsDone(p) /\ at[p] # "off"
FileInv ==
    file # NoLock => /\ at[file.owner] # "off"
                     /\ ~file.complete /\ ~file.fresh => Gone(file.owner)
JudgedInv ==
    \A p \in Proc :
        /\ at[p] \in {"judge", "recheck", "unlink"} =>
              snapshot[p] # NoLock /\ (~snapshot[p].complete => Gone(snapshot[p].owner))
        /\ at[p] \in {"recheck", "unlink"} => Gone(snapshot[p].owner)
        /\ snapshot[p] # NoLock => at[snapshot[p].owner] # "off"
InstanceInv == InstanceTypeOK /\ HoldInv /\ WrittenInv /\ FileInv /\ JudgedInv

\* A starter that met no other process and could judge the owner is refused
\* only for a fresh file without identity (a process that died while starting):
\* the lock of a dead owner never locks the project out.
NoFalseRefusal ==
    \A p \in Proc : at[p] = "refused" /\ p \notin excused
                      => snapshot[p] # NoLock /\ ~snapshot[p].complete
=============================================================================
