-------------------------- MODULE AtomicProcessLock --------------------------
(***************************************************************************)
(* The hard-link process lock of src/lib/atomic-process-lock.js, with the  *)
(* acquire loop its callers wrap around it (acquireKeyCacheFileLock; the   *)
(* plaintext cache of wxdb/index.js uses the same loop).                   *)
(*                                                                         *)
(* A file is named by the token it holds: "lock" is the inode linked at    *)
(* the fixed path, claim[t] the inode linked at the path                   *)
(* <lock>.reclaim.<hash of t>.  Tokens are random, so the token of an      *)
(* acquisition is the acquisition itself.  Every read, link and unlink is  *)
(* a step, since the processes share nothing but the directory.            *)
(***************************************************************************)
EXTENDS Naturals, FiniteSets

CONSTANTS Ctx,        \* acquisitions
          Process,    \* process incarnations
          ProcOf,     \* the process of an acquisition
          MaxRetry,   \* length of the unlink retry schedule
          None

ASSUME ProcOfAssumption == ProcOf \in [Ctx -> Process]
ASSUME NoneAssumption == None \notin Ctx
ASSUME MaxRetryAssumption == MaxRetry \in Nat

VARIABLES lock, claim, alive, pc, mode, target, seen, tries
vars == <<lock, claim, alive, pc, mode, target, seen, tries>>

AcquireStates == {"idle", "publish", "verify", "held", "observe", "judge",
                  "recheck", "wait"}
RemoveStates == {"read", "link", "check", "unlink",
                 "drop_won", "drop_lost", "drop_fail"}
ClaimStates == {"check", "unlink", "drop_won", "drop_lost", "drop_fail"}

TypeOK == /\ lock \in Ctx \cup {None}
          /\ claim \in [Ctx -> Ctx \cup {None}]
          /\ alive \in SUBSET Process
          /\ pc \in [Ctx -> AcquireStates \cup RemoveStates \cup {"done"}]
          /\ mode \in [Ctx -> {"release", "reclaim"}]
          /\ target \in [Ctx -> Ctx]
          /\ seen \in [Ctx -> SUBSET {"claim", "lock"}]
          /\ tries \in [Ctx -> 0..MaxRetry]

Init == /\ lock = None
        /\ claim = [c \in Ctx |-> None]
        /\ alive = Process
        /\ pc = [c \in Ctx |-> "idle"]
        /\ mode = [c \in Ctx |-> "reclaim"]
        /\ target = [c \in Ctx |-> c]
        /\ seen = [c \in Ctx |-> {}]
        /\ tries = [c \in Ctx |-> 0]

At(c, s) == pc[c] = s
Goto(c, s) == pc' = [pc EXCEPT ![c] = s]
Dead(c) == ProcOf[c] \notin alive

-----------------------------------------------------------------------------
(* The acquire loop and publish *)

\* A caller asks for the lock.
Start(c) == /\ At(c, "idle")
            /\ Goto(c, "publish")
            /\ UNCHANGED <<lock, claim, alive, mode, target, seen, tries>>

\* link(temp, lock): the lock appears with its complete payload or not at all.
Publish(c) == /\ At(c, "publish")
              /\ \/ lock = None /\ lock' = c /\ Goto(c, "verify")
                 \/ lock # None /\ Goto(c, "observe") /\ UNCHANGED lock
              /\ UNCHANGED <<claim, alive, mode, target, seen, tries>>

\* The temporary file could not be written: nothing was published.
PrepareFails(c) == /\ At(c, "publish")
                   /\ Goto(c, "done")
                   /\ UNCHANGED <<lock, claim, alive, mode, target, seen, tries>>

\* The published lock is read back; any failure releases it by token.
Verify(c) == /\ At(c, "verify")
             /\ \/ lock = c /\ Goto(c, "held") /\ UNCHANGED <<mode, target>>
                \/ /\ Goto(c, "read")
                   /\ mode' = [mode EXCEPT ![c] = "release"]
                   /\ target' = [target EXCEPT ![c] = c]
             /\ UNCHANGED <<lock, claim, alive, seen, tries>>

\* EEXIST: the caller reads the owner that stands in its way.
Observe(c) == /\ At(c, "observe")
              /\ \/ lock = None /\ Goto(c, "publish") /\ UNCHANGED target
                 \/ /\ lock # None
                    /\ target' = [target EXCEPT ![c] = lock]
                    /\ Goto(c, "judge")
              /\ mode' = [mode EXCEPT ![c] = "reclaim"]
              /\ UNCHANGED <<lock, claim, alive, seen, tries>>

\* Mutated: any owner that stands in the way counts as dead.
JudgeAnyOwner(c) == /\ At(c, "judge")
                    /\ Goto(c, "recheck")
                    /\ UNCHANGED <<lock, claim, alive, mode, target, seen, tries>>

\* processOwnerState says 'dead' or 'different': the owner may be reclaimed.
JudgeDead(c) == /\ At(c, "judge")
                /\ Dead(target[c])
                /\ Goto(c, "recheck")
                /\ UNCHANGED <<lock, claim, alive, mode, target, seen, tries>>

\* 'same', or 'unknown' when the start identity cannot be queried: wait.
JudgeKeep(c) == /\ At(c, "judge")
                /\ Goto(c, "wait")
                /\ UNCHANGED <<lock, claim, alive, mode, target, seen, tries>>

Recheck(c) == /\ At(c, "recheck")
              /\ \/ lock = None /\ Goto(c, "publish")
                 \/ lock \notin {None, target[c]} /\ Goto(c, "wait")
                 \/ lock = target[c] /\ Goto(c, "link")
              /\ UNCHANGED <<lock, claim, alive, mode, target, seen, tries>>

\* Mutated: a waiter judges the owner it saw first, over and over.
RetryOldOwner(c) == /\ At(c, "wait")
                    /\ Goto(c, "judge")
                    /\ UNCHANGED <<lock, claim, alive, mode, target, seen, tries>>

Retry(c) == /\ At(c, "wait")
            /\ Goto(c, "publish")
            /\ UNCHANGED <<lock, claim, alive, mode, target, seen, tries>>

\* The wait budget of the caller is spent: the acquisition fails.
Timeout(c) == /\ At(c, "wait")
              /\ Goto(c, "done")
              /\ UNCHANGED <<lock, claim, alive, mode, target, seen, tries>>

-----------------------------------------------------------------------------
(* Release by token *)

\* The holder leaves; d, when it is not c, is a second release of the same
\* token that runs concurrently in the same process.
Release(c, d) == /\ At(c, "held")
                 /\ ProcOf[d] = ProcOf[c]
                 /\ d = c \/ pc[d] = "idle"
                 /\ pc' = [pc EXCEPT ![c] = "read", ![d] = "read"]
                 /\ mode' = [mode EXCEPT ![c] = "release", ![d] = "release"]
                 /\ target' = [target EXCEPT ![c] = c, ![d] = c]
                 /\ UNCHANGED <<lock, claim, alive, seen, tries>>

ReleaseRead(c) == /\ At(c, "read")
                  /\ \/ lock = target[c] /\ Goto(c, "link")
                     \/ lock # target[c] /\ Goto(c, "done")
                  /\ UNCHANGED <<lock, claim, alive, mode, target, seen, tries>>

-----------------------------------------------------------------------------
(* Removal under the exclusive claim of the owner's token *)

\* link(lock, claim): whatever is at the fixed path now is what gets linked.
LinkClaim(c) ==
    /\ At(c, "link")
    /\ LET t == target[c] IN
       \/ /\ lock # None /\ claim[t] = None
          /\ claim' = [claim EXCEPT ![t] = lock]
          /\ Goto(c, "check")
       \/ /\ lock = None
          /\ Goto(c, IF mode[c] = "release" THEN "done" ELSE "publish")
          /\ UNCHANGED claim
       \/ /\ claim[t] # None
          /\ Goto(c, IF mode[c] = "release" THEN "done" ELSE "wait")
          /\ UNCHANGED claim
    /\ UNCHANGED <<lock, alive, mode, target, seen, tries>>

\* Mutated: the files are read again but not compared with the token.
CheckReadAnyToken(c, f) ==
    /\ At(c, "check")
    /\ f \in {"claim", "lock"} \ seen[c]
    /\ seen' = [seen EXCEPT ![c] = @ \cup {f}]
    /\ Goto(c, IF seen[c] \cup {f} = {"claim", "lock"} THEN "unlink" ELSE "check")
    /\ UNCHANGED <<lock, claim, alive, mode, target, tries>>

\* One of the two reads that Promise.all issues comes back.
CheckRead(c, f) ==
    /\ At(c, "check")
    /\ f \in {"claim", "lock"} \ seen[c]
    /\ LET t == target[c]
           now == IF f = "claim" THEN claim[t] ELSE lock
       IN IF now = t
            THEN /\ seen' = [seen EXCEPT ![c] = @ \cup {f}]
                 /\ Goto(c, IF seen[c] \cup {f} = {"claim", "lock"}
                              THEN "unlink" ELSE "check")
            ELSE Goto(c, "drop_lost") /\ UNCHANGED seen
    /\ UNCHANGED <<lock, claim, alive, mode, target, tries>>

\* A read fails with something other than ENOENT: the removal throws.
CheckFails(c) == /\ At(c, "check")
                 /\ Goto(c, "drop_fail")
                 /\ UNCHANGED <<lock, claim, alive, mode, target, seen, tries>>

Unlink(c) == /\ At(c, "unlink")
             /\ lock' = None
             /\ Goto(c, IF lock = None /\ mode[c] = "release"
                          THEN "drop_lost" ELSE "drop_won")
             /\ UNCHANGED <<claim, alive, mode, target, seen, tries>>

\* EPERM, EACCES, EBUSY: a release looks again after a delay, a reclaim throws.
UnlinkRefused(c) ==
    /\ At(c, "unlink")
    /\ IF mode[c] = "release" /\ tries[c] < MaxRetry
         THEN /\ tries' = [tries EXCEPT ![c] = @ + 1]
              /\ seen' = [seen EXCEPT ![c] = {}]
              /\ Goto(c, "check")
         ELSE Goto(c, "drop_fail") /\ UNCHANGED <<seen, tries>>
    /\ UNCHANGED <<lock, claim, alive, mode, target>>

AfterDrop(c) ==
    IF mode[c] = "release" \/ pc[c] = "drop_fail" THEN "done"
    ELSE IF pc[c] = "drop_won" THEN "publish" ELSE "wait"

\* finally: rm(claim); its own failure is swallowed and leaves the file.
DropClaim(c) == /\ \E s \in {"drop_won", "drop_lost", "drop_fail"} : At(c, s)
                /\ \/ claim' = [claim EXCEPT ![target[c]] = None]
                   \/ UNCHANGED claim
                /\ Goto(c, AfterDrop(c))
                /\ seen' = [seen EXCEPT ![c] = {}]
                /\ tries' = [tries EXCEPT ![c] = 0]
                /\ UNCHANGED <<lock, alive, mode, target>>

-----------------------------------------------------------------------------
\* A process dies between any two of its steps; its files stay.
Crash(p) == /\ p \in alive
            /\ alive' = alive \ {p}
            /\ pc' = [c \in Ctx |-> IF ProcOf[c] = p THEN "done" ELSE pc[c]]
            /\ UNCHANGED <<lock, claim, mode, target, seen, tries>>

Step(c) == \/ Publish(c) \/ PrepareFails(c) \/ Verify(c) \/ Observe(c)
           \/ JudgeDead(c) \/ JudgeKeep(c) \/ Recheck(c) \/ Retry(c)
           \/ Timeout(c) \/ ReleaseRead(c) \/ LinkClaim(c)
           \/ (\E f \in {"claim", "lock"} : CheckRead(c, f))
           \/ CheckFails(c) \/ Unlink(c) \/ UnlinkRefused(c) \/ DropClaim(c)

Next == \/ \E c \in Ctx : Start(c) \/ Step(c)
        \/ \E c, d \in Ctx : Release(c, d)
        \/ \E p \in Process : Crash(p)

Spec == Init /\ [][Next]_vars

\* The event loop runs a ready continuation; an owner query that fails now
\* and then answers in the end.  Nothing obliges a caller to start or leave.
Fairness == \A c \in Ctx :
    /\ WF_vars(Step(c))
    /\ SF_vars(JudgeDead(c))

FairSpec == Spec /\ Fairness

-----------------------------------------------------------------------------
(* Properties *)

\* Two live processes never both believe that they hold the lock: the mirror,
\* key cache and plaintext cache writers rely on it (acquireKeyCacheFileLock).
MutualExclusion ==
    \A c, d \in Ctx : At(c, "held") /\ At(d, "held") => c = d

Claiming(c) == pc[c] \in ClaimStates

\* A token's claim path is worked on by one live removal at a time, and a
\* removal that has verified what it read can only unlink the file it
\* verified: the reason a release or a reclaim never removes a replacement
\* (releaseAtomicProcessLockFile, reclaimAtomicProcessLockFile).
ClaimInv ==
    /\ \A c, d \in Ctx : Claiming(c) /\ Claiming(d) /\ target[c] = target[d]
                           => c = d
    /\ \A c \in Ctx : Claiming(c) => claim[target[c]] # None
    /\ \A c \in Ctx : pc[c] = "check" /\ "lock" \in seen[c] => lock = target[c]
    /\ \A c \in Ctx : pc[c] = "unlink" => lock = target[c]
    /\ \A c \in Ctx : pc[c] \in ClaimStates \cup {"done"} \/ seen[c] = {}

\* Only a dead owner is ever reclaimed, and only the process of an owner that
\* has stopped using the lock releases it.
RemovalInv ==
    \A c \in Ctx :
       /\ pc[c] # "done" => ProcOf[c] \in alive
       /\ pc[c] \in {"judge", "recheck"} => mode[c] = "reclaim"
       /\ pc[c] = "read" => mode[c] = "release"
       /\ pc[c] \in {"recheck"} \cup RemoveStates /\ mode[c] = "reclaim"
             => Dead(target[c])
       /\ pc[c] \in RemoveStates /\ mode[c] = "release"
             => /\ ProcOf[target[c]] = ProcOf[c]
                /\ \/ pc[target[c]] = "done"
                   \/ pc[target[c]] \in RemoveStates /\ mode[target[c]] = "release"

\* The owner that published is at the fixed path until it releases.
OwnerInv == \A c \in Ctx : pc[c] \in {"verify", "held"} => lock = c

IndInv == TypeOK /\ ClaimInv /\ RemovalInv /\ OwnerInv

\* The file at the fixed path is the holder of the abstract mutex and the callers
\* that got the lock are inside: a file is only ever removed after its owner has
\* left or died, whatever the interleaving of publish, release and reclaim.
Inside == {c \in Ctx : At(c, "held")}
Mutex == INSTANCE ProcessMutex WITH holder <- lock, inside <- Inside
ImplementsMutex == Mutex!Spec

\* An orphaned claim: a file left by a removal that died or could not delete it.
Orphaned(t) == claim[t] # None /\ ~\E c \in Ctx : Claiming(c) /\ target[c] = t

Waiting(c) == \/ pc[c] \in {"publish", "observe", "judge", "recheck", "wait"}
              \/ mode[c] = "reclaim" /\ pc[c] \in RemoveStates

\* While somebody keeps asking, the lock of a dead process is removed, unless
\* a claim file was orphaned (reclaimStaleKeyCacheFileLock and its retry loop).
DeadOwnerRemoved ==
    \A t \in Ctx : lock = t /\ Dead(t)
                     ~> (lock # t \/ Orphaned(t) \/ ~\E c \in Ctx : Waiting(c))
=============================================================================
