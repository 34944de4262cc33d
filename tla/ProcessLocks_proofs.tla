------------------------- MODULE ProcessLocks_proofs -------------------------
(***************************************************************************)
(* Proofs about the two locks between processes: the hard-link process     *)
(* lock, for any number of acquisitions and processes and any retry        *)
(* schedule, and the single-instance lock, for any number of processes.    *)
(***************************************************************************)
EXTENDS AtomicProcessLock, InstanceLock, TLAPS

\* The initial state satisfies the inductive invariant.
LEMMA InitInv == Init => IndInv
BY NoneAssumption, ProcOfAssumption, MaxRetryAssumption
   DEF Init, IndInv, TypeOK, ClaimInv, RemovalInv, OwnerInv, Claiming,
       AcquireStates, RemoveStates, ClaimStates, Dead

\* Every step keeps it: one step of the proof per action.
LEMMA StepInv == IndInv /\ [Next]_vars => IndInv'
<1> SUFFICES ASSUME IndInv, [Next]_vars PROVE IndInv'
  OBVIOUS
<1> USE NoneAssumption, ProcOfAssumption, MaxRetryAssumption
<1>1. ASSUME NEW c \in Ctx, Start(c) PROVE IndInv'
  <2>1. TypeOK'
    BY <1>1 DEF Start, IndInv, TypeOK,
       AcquireStates, RemoveStates, ClaimStates, At, Goto
  <2>2. ClaimInv'
    BY <1>1 DEF Start, IndInv, TypeOK, ClaimInv, RemovalInv, Claiming,
       AcquireStates, RemoveStates, ClaimStates, At, Goto
  <2>3. RemovalInv'
    BY <1>1 DEF Start, IndInv, TypeOK, RemovalInv, Dead,
       AcquireStates, RemoveStates, ClaimStates, At, Goto
  <2>4. OwnerInv'
    BY <1>1 DEF Start, IndInv, TypeOK, OwnerInv,
       AcquireStates, RemoveStates, ClaimStates, At, Goto
  <2> QED
    BY <2>1, <2>2, <2>3, <2>4 DEF IndInv
<1>2. ASSUME NEW c \in Ctx, Publish(c) PROVE IndInv'
  <2>1. TypeOK'
    BY <1>2 DEF Publish, IndInv, TypeOK,
       AcquireStates, RemoveStates, ClaimStates, At, Goto
  <2>2. ClaimInv'
    BY <1>2 DEF Publish, IndInv, TypeOK, ClaimInv, RemovalInv, Claiming,
       AcquireStates, RemoveStates, ClaimStates, At, Goto
  <2>3. RemovalInv'
    BY <1>2 DEF Publish, IndInv, TypeOK, RemovalInv, Dead,
       AcquireStates, RemoveStates, ClaimStates, At, Goto
  <2>4. OwnerInv'
    BY <1>2 DEF Publish, IndInv, TypeOK, OwnerInv, ClaimInv, RemovalInv, Claiming, Dead,
       AcquireStates, RemoveStates, ClaimStates, At, Goto
  <2> QED
    BY <2>1, <2>2, <2>3, <2>4 DEF IndInv
<1>3. ASSUME NEW c \in Ctx, PrepareFails(c) PROVE IndInv'
  <2>1. TypeOK'
    BY <1>3 DEF PrepareFails, IndInv, TypeOK,
       AcquireStates, RemoveStates, ClaimStates, At, Goto
  <2>2. ClaimInv'
    BY <1>3 DEF PrepareFails, IndInv, TypeOK, ClaimInv, RemovalInv, Claiming,
       AcquireStates, RemoveStates, ClaimStates, At, Goto
  <2>3. RemovalInv'
    BY <1>3 DEF PrepareFails, IndInv, TypeOK, RemovalInv, Dead,
       AcquireStates, RemoveStates, ClaimStates, At, Goto
  <2>4. OwnerInv'
    BY <1>3 DEF PrepareFails, IndInv, TypeOK, OwnerInv,
       AcquireStates, RemoveStates, ClaimStates, At, Goto
  <2> QED
    BY <2>1, <2>2, <2>3, <2>4 DEF IndInv
<1>4. ASSUME NEW c \in Ctx, Verify(c) PROVE IndInv'
  <2>1. TypeOK'
    BY <1>4 DEF Verify, IndInv, TypeOK,
       AcquireStates, RemoveStates, ClaimStates, At, Goto
  <2>2. ClaimInv'
    BY <1>4 DEF Verify, IndInv, TypeOK, ClaimInv, RemovalInv, Claiming,
       AcquireStates, RemoveStates, ClaimStates, At, Goto
  <2>3. RemovalInv'
    BY <1>4 DEF Verify, IndInv, TypeOK, RemovalInv, Dead,
       AcquireStates, RemoveStates, ClaimStates, At, Goto
  <2>4. OwnerInv'
    BY <1>4 DEF Verify, IndInv, TypeOK, OwnerInv, ClaimInv, RemovalInv, Claiming, Dead,
       AcquireStates, RemoveStates, ClaimStates, At, Goto
  <2> QED
    BY <2>1, <2>2, <2>3, <2>4 DEF IndInv
<1>5. ASSUME NEW c \in Ctx, Observe(c) PROVE IndInv'
  <2>1. TypeOK'
    BY <1>5 DEF Observe, IndInv, TypeOK,
       AcquireStates, RemoveStates, ClaimStates, At, Goto
  <2>2. ClaimInv'
    BY <1>5 DEF Observe, IndInv, TypeOK, ClaimInv, RemovalInv, Claiming,
       AcquireStates, RemoveStates, ClaimStates, At, Goto
  <2>3. RemovalInv'
    BY <1>5 DEF Observe, IndInv, TypeOK, RemovalInv, Dead,
       AcquireStates, RemoveStates, ClaimStates, At, Goto
  <2>4. OwnerInv'
    BY <1>5 DEF Observe, IndInv, TypeOK, OwnerInv,
       AcquireStates, RemoveStates, ClaimStates, At, Goto
  <2> QED
    BY <2>1, <2>2, <2>3, <2>4 DEF IndInv
<1>6. ASSUME NEW c \in Ctx, JudgeDead(c) PROVE IndInv'
  <2>1. TypeOK'
    BY <1>6 DEF JudgeDead, IndInv, TypeOK,
       AcquireStates, RemoveStates, ClaimStates, At, Goto
  <2>2. ClaimInv'
    BY <1>6 DEF JudgeDead, IndInv, TypeOK, ClaimInv, RemovalInv, Claiming,
       AcquireStates, RemoveStates, ClaimStates, At, Goto
  <2>3. RemovalInv'
    BY <1>6 DEF JudgeDead, IndInv, TypeOK, RemovalInv, Dead,
       AcquireStates, RemoveStates, ClaimStates, At, Goto
  <2>4. OwnerInv'
    BY <1>6 DEF JudgeDead, IndInv, TypeOK, OwnerInv,
       AcquireStates, RemoveStates, ClaimStates, At, Goto
  <2> QED
    BY <2>1, <2>2, <2>3, <2>4 DEF IndInv
<1>7. ASSUME NEW c \in Ctx, JudgeKeep(c) PROVE IndInv'
  <2>1. TypeOK'
    BY <1>7 DEF JudgeKeep, IndInv, TypeOK,
       AcquireStates, RemoveStates, ClaimStates, At, Goto
  <2>2. ClaimInv'
    BY <1>7 DEF JudgeKeep, IndInv, TypeOK, ClaimInv, RemovalInv, Claiming,
       AcquireStates, RemoveStates, ClaimStates, At, Goto
  <2>3. RemovalInv'
    BY <1>7 DEF JudgeKeep, IndInv, TypeOK, RemovalInv, Dead,
       AcquireStates, RemoveStates, ClaimStates, At, Goto
  <2>4. OwnerInv'
    BY <1>7 DEF JudgeKeep, IndInv, TypeOK, OwnerInv,
       AcquireStates, RemoveStates, ClaimStates, At, Goto
  <2> QED
    BY <2>1, <2>2, <2>3, <2>4 DEF IndInv
<1>8. ASSUME NEW c \in Ctx, Recheck(c) PROVE IndInv'
  <2>1. TypeOK'
    BY <1>8 DEF Recheck, IndInv, TypeOK,
       AcquireStates, RemoveStates, ClaimStates, At, Goto
  <2>2. ClaimInv'
    BY <1>8 DEF Recheck, IndInv, TypeOK, ClaimInv, RemovalInv, Claiming,
       AcquireStates, RemoveStates, ClaimStates, At, Goto
  <2>3. RemovalInv'
    BY <1>8 DEF Recheck, IndInv, TypeOK, RemovalInv, Dead,
       AcquireStates, RemoveStates, ClaimStates, At, Goto
  <2>4. OwnerInv'
    BY <1>8 DEF Recheck, IndInv, TypeOK, OwnerInv,
       AcquireStates, RemoveStates, ClaimStates, At, Goto
  <2> QED
    BY <2>1, <2>2, <2>3, <2>4 DEF IndInv
<1>9. ASSUME NEW c \in Ctx, Retry(c) PROVE IndInv'
  <2>1. TypeOK'
    BY <1>9 DEF Retry, IndInv, TypeOK,
       AcquireStates, RemoveStates, ClaimStates, At, Goto
  <2>2. ClaimInv'
    BY <1>9 DEF Retry, IndInv, TypeOK, ClaimInv, RemovalInv, Claiming,
       AcquireStates, RemoveStates, ClaimStates, At, Goto
  <2>3. RemovalInv'
    BY <1>9 DEF Retry, IndInv, TypeOK, RemovalInv, Dead,
       AcquireStates, RemoveStates, ClaimStates, At, Goto
  <2>4. OwnerInv'
    BY <1>9 DEF Retry, IndInv, TypeOK, OwnerInv,
       AcquireStates, RemoveStates, ClaimStates, At, Goto
  <2> QED
    BY <2>1, <2>2, <2>3, <2>4 DEF IndInv
<1>10. ASSUME NEW c \in Ctx, Timeout(c) PROVE IndInv'
  <2>1. TypeOK'
    BY <1>10 DEF Timeout, IndInv, TypeOK,
       AcquireStates, RemoveStates, ClaimStates, At, Goto
  <2>2. ClaimInv'
    BY <1>10 DEF Timeout, IndInv, TypeOK, ClaimInv, RemovalInv, Claiming,
       AcquireStates, RemoveStates, ClaimStates, At, Goto
  <2>3. RemovalInv'
    BY <1>10 DEF Timeout, IndInv, TypeOK, RemovalInv, Dead,
       AcquireStates, RemoveStates, ClaimStates, At, Goto
  <2>4. OwnerInv'
    BY <1>10 DEF Timeout, IndInv, TypeOK, OwnerInv,
       AcquireStates, RemoveStates, ClaimStates, At, Goto
  <2> QED
    BY <2>1, <2>2, <2>3, <2>4 DEF IndInv
<1>11. ASSUME NEW c \in Ctx, ReleaseRead(c) PROVE IndInv'
  <2>1. TypeOK'
    BY <1>11 DEF ReleaseRead, IndInv, TypeOK,
       AcquireStates, RemoveStates, ClaimStates, At, Goto
  <2>2. ClaimInv'
    BY <1>11 DEF ReleaseRead, IndInv, TypeOK, ClaimInv, RemovalInv, Claiming,
       AcquireStates, RemoveStates, ClaimStates, At, Goto
  <2>3. RemovalInv'
    BY <1>11 DEF ReleaseRead, IndInv, TypeOK, RemovalInv, Dead,
       AcquireStates, RemoveStates, ClaimStates, At, Goto
  <2>4. OwnerInv'
    BY <1>11 DEF ReleaseRead, IndInv, TypeOK, OwnerInv,
       AcquireStates, RemoveStates, ClaimStates, At, Goto
  <2> QED
    BY <2>1, <2>2, <2>3, <2>4 DEF IndInv
<1>12. ASSUME NEW c \in Ctx, LinkClaim(c) PROVE IndInv'
  <2>1. TypeOK'
    BY <1>12 DEF LinkClaim, IndInv, TypeOK,
       AcquireStates, RemoveStates, ClaimStates, At, Goto
  <2>2. ClaimInv'
    BY <1>12 DEF LinkClaim, IndInv, TypeOK, ClaimInv, RemovalInv, Claiming,
       AcquireStates, RemoveStates, ClaimStates, At, Goto
  <2>3. RemovalInv'
    BY <1>12 DEF LinkClaim, IndInv, TypeOK, RemovalInv, ClaimInv, Claiming, Dead,
       AcquireStates, RemoveStates, ClaimStates, At, Goto
  <2>4. OwnerInv'
    BY <1>12 DEF LinkClaim, IndInv, TypeOK, OwnerInv, ClaimInv, RemovalInv, Claiming,
       Dead,
       AcquireStates, RemoveStates, ClaimStates, At, Goto
  <2> QED
    BY <2>1, <2>2, <2>3, <2>4 DEF IndInv
<1>13. ASSUME NEW c \in Ctx, CheckFails(c) PROVE IndInv'
  <2>1. TypeOK'
    BY <1>13 DEF CheckFails, IndInv, TypeOK,
       AcquireStates, RemoveStates, ClaimStates, At, Goto
  <2>2. ClaimInv'
    BY <1>13 DEF CheckFails, IndInv, TypeOK, ClaimInv, RemovalInv, Claiming,
       AcquireStates, RemoveStates, ClaimStates, At, Goto
  <2>3. RemovalInv'
    BY <1>13 DEF CheckFails, IndInv, TypeOK, RemovalInv, Dead,
       AcquireStates, RemoveStates, ClaimStates, At, Goto
  <2>4. OwnerInv'
    BY <1>13 DEF CheckFails, IndInv, TypeOK, OwnerInv,
       AcquireStates, RemoveStates, ClaimStates, At, Goto
  <2> QED
    BY <2>1, <2>2, <2>3, <2>4 DEF IndInv
<1>14. ASSUME NEW c \in Ctx, Unlink(c) PROVE IndInv'
  <2>1. TypeOK'
    BY <1>14 DEF Unlink, IndInv, TypeOK,
       AcquireStates, RemoveStates, ClaimStates, At, Goto
  <2>2. ClaimInv'
    BY <1>14 DEF Unlink, IndInv, TypeOK, ClaimInv, RemovalInv, Claiming,
       AcquireStates, RemoveStates, ClaimStates, At, Goto
  <2>3. RemovalInv'
    BY <1>14 DEF Unlink, IndInv, TypeOK, RemovalInv, ClaimInv, Claiming, Dead,
       AcquireStates, RemoveStates, ClaimStates, At, Goto
  <2>4. OwnerInv'
    BY <1>14 DEF Unlink, IndInv, TypeOK, OwnerInv, ClaimInv, RemovalInv, Claiming, Dead,
       AcquireStates, RemoveStates, ClaimStates, At, Goto
  <2> QED
    BY <2>1, <2>2, <2>3, <2>4 DEF IndInv
<1>15. ASSUME NEW c \in Ctx, UnlinkRefused(c) PROVE IndInv'
  <2>1. TypeOK'
    BY <1>15 DEF UnlinkRefused, IndInv, TypeOK,
       AcquireStates, RemoveStates, ClaimStates, At, Goto
  <2>2. ClaimInv'
    BY <1>15 DEF UnlinkRefused, IndInv, TypeOK, ClaimInv, RemovalInv, Claiming,
       AcquireStates, RemoveStates, ClaimStates, At, Goto
  <2>3. RemovalInv'
    BY <1>15 DEF UnlinkRefused, IndInv, TypeOK, RemovalInv, Dead,
       AcquireStates, RemoveStates, ClaimStates, At, Goto
  <2>4. OwnerInv'
    BY <1>15 DEF UnlinkRefused, IndInv, TypeOK, OwnerInv, ClaimInv, RemovalInv,
       Claiming, Dead,
       AcquireStates, RemoveStates, ClaimStates, At, Goto
  <2> QED
    BY <2>1, <2>2, <2>3, <2>4 DEF IndInv
<1>16. ASSUME NEW c \in Ctx, DropClaim(c) PROVE IndInv'
  <2>1. TypeOK'
    BY <1>16 DEF DropClaim, IndInv, TypeOK,
       AcquireStates, RemoveStates, ClaimStates, At, Goto, AfterDrop
  <2>2. ClaimInv'
    BY <1>16 DEF DropClaim, IndInv, TypeOK, ClaimInv, RemovalInv, Claiming,
       AcquireStates, RemoveStates, ClaimStates, At, Goto, AfterDrop
  <2>3. RemovalInv'
    BY <1>16 DEF DropClaim, IndInv, TypeOK, RemovalInv, Dead,
       AcquireStates, RemoveStates, ClaimStates, At, Goto, AfterDrop
  <2>4. OwnerInv'
    BY <1>16 DEF DropClaim, IndInv, TypeOK, OwnerInv,
       AcquireStates, RemoveStates, ClaimStates, At, Goto, AfterDrop
  <2> QED
    BY <2>1, <2>2, <2>3, <2>4 DEF IndInv
<1>17. ASSUME NEW c \in Ctx, NEW f \in {"claim", "lock"}, CheckRead(c, f)
      PROVE  IndInv'
  <2>1. TypeOK'
    BY <1>17 DEF CheckRead, IndInv, TypeOK,
       AcquireStates, RemoveStates, ClaimStates, At, Goto
  <2>2. ClaimInv'
    BY <1>17 DEF CheckRead, IndInv, TypeOK, ClaimInv, RemovalInv, Claiming,
       AcquireStates, RemoveStates, ClaimStates, At, Goto
  <2>3. RemovalInv'
    BY <1>17 DEF CheckRead, IndInv, TypeOK, RemovalInv, Dead,
       AcquireStates, RemoveStates, ClaimStates, At, Goto
  <2>4. OwnerInv'
    BY <1>17 DEF CheckRead, IndInv, TypeOK, OwnerInv,
       AcquireStates, RemoveStates, ClaimStates, At, Goto
  <2> QED
    BY <2>1, <2>2, <2>3, <2>4 DEF IndInv
<1>18. ASSUME NEW c \in Ctx, NEW d \in Ctx, Release(c, d) PROVE IndInv'
  <2>1. TypeOK'
    BY <1>18 DEF Release, IndInv, TypeOK,
       AcquireStates, RemoveStates, ClaimStates, At, Goto
  <2>2. ClaimInv'
    BY <1>18 DEF Release, IndInv, TypeOK, ClaimInv, RemovalInv, Claiming,
       AcquireStates, RemoveStates, ClaimStates, At, Goto
  <2>3. RemovalInv'
    BY <1>18 DEF Release, IndInv, TypeOK, RemovalInv, Dead,
       AcquireStates, RemoveStates, ClaimStates, At, Goto
  <2>4. OwnerInv'
    BY <1>18 DEF Release, IndInv, TypeOK, OwnerInv,
       AcquireStates, RemoveStates, ClaimStates, At, Goto
  <2> QED
    BY <2>1, <2>2, <2>3, <2>4 DEF IndInv
<1>19. ASSUME NEW p \in Process, Crash(p) PROVE IndInv'
  <2>1. TypeOK'
    BY <1>19 DEF Crash, IndInv, TypeOK,
       AcquireStates, RemoveStates, ClaimStates, At, Goto
  <2>2. ClaimInv'
    BY <1>19 DEF Crash, IndInv, TypeOK, ClaimInv, RemovalInv, Claiming,
       AcquireStates, RemoveStates, ClaimStates, At, Goto
  <2>3. RemovalInv'
    BY <1>19 DEF Crash, IndInv, TypeOK, RemovalInv, Dead,
       AcquireStates, RemoveStates, ClaimStates, At, Goto
  <2>4. OwnerInv'
    BY <1>19 DEF Crash, IndInv, TypeOK, OwnerInv, ClaimInv, RemovalInv, Claiming, Dead,
       AcquireStates, RemoveStates, ClaimStates, At, Goto
  <2> QED
    BY <2>1, <2>2, <2>3, <2>4 DEF IndInv
<1>20. CASE UNCHANGED vars
  BY <1>20 DEF vars, IndInv, TypeOK, ClaimInv, RemovalInv, OwnerInv, Claiming,
       AcquireStates, RemoveStates, ClaimStates, Dead, At, Goto
<1> QED
  BY <1>1, <1>2, <1>3, <1>4, <1>5, <1>6, <1>7, <1>8, <1>9, <1>10, <1>11, <1>12, <1>13,
     <1>14, <1>15, <1>16, <1>17, <1>18, <1>19, <1>20 DEF Next, Step

\* Type correctness and the protocol's invariant hold in every reachable state.
THEOREM Invariance == Spec => []IndInv
BY InitInv, StepInv, PTL DEF Spec

\* Two live processes never hold the lock together: a holder's file is the one
\* at the fixed path, and there is one file there.
THEOREM HolderIsUnique == Spec => []MutualExclusion
<1>1. IndInv => MutualExclusion
  BY DEF IndInv, OwnerInv, MutualExclusion, At
<1> QED
  BY <1>1, Invariance, PTL

-----------------------------------------------------------------------------
(* Refinement: each step is a step of the abstract mutex or leaves it alone *)

Stutter == UNCHANGED <<lock, Inside, alive>>

LEMMA PublishRefines ==
  ASSUME IndInv, NEW c \in Ctx, Publish(c)
  PROVE  Mutex!Acquire(c) \/ Stutter
<1>1. Inside' = Inside
  BY DEF IndInv, TypeOK, Publish, At, Goto, Inside
<1> QED
  BY <1>1 DEF IndInv, RemovalInv, Publish, At, Mutex!Acquire, Stutter

\* A caller whose file is read back is inside.
LEMMA VerifyRefines ==
  ASSUME IndInv, NEW c \in Ctx, Verify(c)
  PROVE  Mutex!Enter(c) \/ Stutter
<1>1. CASE lock = c /\ Goto(c, "held")
  <2>1. Inside' = Inside \cup {c}
    BY <1>1 DEF IndInv, TypeOK, At, Goto, Inside
  <2> QED
    BY <1>1, <2>1 DEF Verify, Mutex!Enter
<1>2. CASE Goto(c, "read")
  <2>1. Inside' = Inside
    BY <1>2 DEF IndInv, TypeOK, Verify, At, Goto, Inside
  <2> QED
    BY <2>1 DEF Verify, Stutter
<1> QED
  BY <1>1, <1>2 DEF Verify

LEMMA ReleaseRefines ==
  ASSUME IndInv, NEW c \in Ctx, NEW d \in Ctx, Release(c, d)
  PROVE  Mutex!Leave(c)
<1>1. Inside' = Inside \ {c}
  BY DEF IndInv, TypeOK, Release, At, Inside
<1> QED
  BY <1>1 DEF Release, Mutex!Leave

\* An unlink removes the file of an owner that has left or of a dead owner.
LEMMA UnlinkRefines ==
  ASSUME IndInv, NEW c \in Ctx, Unlink(c)
  PROVE  \E d \in Ctx : Mutex!Release(d) \/ Mutex!Reclaim(d)
<1> DEFINE t == target[c]
<1>1. t \in Ctx /\ lock = t /\ lock' = None /\ alive' = alive
  BY DEF IndInv, TypeOK, ClaimInv, Unlink, At
<1>2. Inside' = Inside
  BY DEF IndInv, TypeOK, Unlink, At, Goto, Inside
<1>3. CASE mode[c] = "reclaim"
  <2>1. Dead(t)
    BY <1>3 DEF IndInv, RemovalInv, RemoveStates, Unlink, At
  <2> QED
    BY <1>1, <1>2, <2>1 DEF Dead, Mutex!Reclaim
<1>4. CASE mode[c] = "release"
  <2>1. ProcOf[t] = ProcOf[c] /\ ProcOf[c] \in alive
    BY <1>4 DEF IndInv, RemovalInv, RemoveStates, Unlink, At
  <2>2. t \notin Inside
    BY <1>4 DEF IndInv, RemovalInv, RemoveStates, Unlink, At, Inside
  <2> QED
    BY <1>1, <1>2, <2>1, <2>2 DEF Mutex!Release
<1> QED
  BY <1>3, <1>4 DEF IndInv, TypeOK

LEMMA CrashRefines ==
  ASSUME IndInv, NEW p \in Process, Crash(p)
  PROVE  Mutex!Crash(p)
<1>1. Inside' = {c \in Inside : ProcOf[c] # p}
  BY DEF IndInv, TypeOK, Crash, At, Inside
<1> QED
  BY <1>1 DEF Crash, Mutex!Crash

\* The other steps touch neither the file nor who is inside.
LEMMA OtherRefines ==
  ASSUME IndInv, NEW c \in Ctx,
         \/ Start(c) \/ PrepareFails(c) \/ Observe(c)
         \/ JudgeDead(c) \/ JudgeKeep(c) \/ Recheck(c) \/ Retry(c)
         \/ Timeout(c) \/ ReleaseRead(c) \/ LinkClaim(c)
         \/ (\E f \in {"claim", "lock"} : CheckRead(c, f))
         \/ CheckFails(c) \/ UnlinkRefused(c) \/ DropClaim(c)
  PROVE  Stutter
<1>1. /\ lock' = lock /\ alive' = alive
      /\ pc[c] # "held"
      /\ \E s : s # "held" /\ pc' = [pc EXCEPT ![c] = s]
  <2>1. CASE Start(c) \/ PrepareFails(c) \/ Observe(c) \/ JudgeDead(c)
             \/ JudgeKeep(c) \/ Recheck(c) \/ Retry(c) \/ Timeout(c)
    BY <2>1 DEF Start, PrepareFails, Observe, JudgeDead, JudgeKeep, Recheck,
                Retry, Timeout, At, Goto
  <2>2. CASE ReleaseRead(c) \/ LinkClaim(c) \/ CheckFails(c) \/ UnlinkRefused(c)
    BY <2>2 DEF IndInv, TypeOK, ReleaseRead, LinkClaim, CheckFails, UnlinkRefused,
                At, Goto
  <2>3. CASE \E f \in {"claim", "lock"} : CheckRead(c, f)
    BY <2>3 DEF CheckRead, At, Goto
  <2>4. CASE DropClaim(c)
    BY <2>4 DEF DropClaim, AfterDrop, At, Goto
  <2> QED
    BY <2>1, <2>2, <2>3, <2>4
<1>2. Inside' = Inside
  BY <1>1 DEF IndInv, TypeOK, At, Inside
<1> QED
  BY <1>1, <1>2 DEF Stutter

LEMMA StepRefines == IndInv /\ [Next]_vars => [Mutex!Next]_(Mutex!vars)
<1> SUFFICES ASSUME IndInv, [Next]_vars
             PROVE  Mutex!Next \/ Stutter
  BY DEF Mutex!vars, Stutter
<1>1. CASE \E c \in Ctx : Publish(c) \/ Verify(c)
  BY <1>1, PublishRefines, VerifyRefines DEF Mutex!Next
<1>2. CASE \E c \in Ctx : Unlink(c)
  BY <1>2, UnlinkRefines DEF Mutex!Next
<1>3. CASE \E c, d \in Ctx : Release(c, d)
  BY <1>3, ReleaseRefines DEF Mutex!Next
<1>4. CASE \E p \in Process : Crash(p)
  BY <1>4, CrashRefines DEF Mutex!Next
<1>5. CASE \E c \in Ctx :
                \/ Start(c) \/ PrepareFails(c) \/ Observe(c)
                \/ JudgeDead(c) \/ JudgeKeep(c) \/ Recheck(c) \/ Retry(c)
                \/ Timeout(c) \/ ReleaseRead(c) \/ LinkClaim(c)
                \/ (\E f \in {"claim", "lock"} : CheckRead(c, f))
                \/ CheckFails(c) \/ UnlinkRefused(c) \/ DropClaim(c)
  BY <1>5, OtherRefines
<1>6. CASE UNCHANGED vars
  BY <1>6 DEF vars, Stutter, Inside, At
<1> QED
  BY <1>1, <1>2, <1>3, <1>4, <1>5, <1>6 DEF Next, Step

\* The file protocol implements the mutex: the holder changes only when its
\* owner has left, by reclaiming a dead process, or by acquiring a free lock.
THEOREM LockImplementsMutex == Spec => ImplementsMutex
<1>1. Init => Mutex!Init
  BY DEF Init, Mutex!Init, Inside, At
<1> QED
  BY <1>1, Invariance, StepRefines, PTL DEF Spec, ImplementsMutex, Mutex!Spec

-----------------------------------------------------------------------------
(* The single-instance lock *)

\* The initial state satisfies the inductive invariant.
LEMMA InstanceInitInv == InstanceInit => InstanceInv
<1> SUFFICES ASSUME InstanceInit PROVE InstanceInv
  OBVIOUS
<1>1. InstanceTypeOK
  <2>1. at \in [Proc -> Starting \cup Running \cup Done]
    BY DEF InstanceInit, Done
  <2>2. file \in LockFile \cup {NoLock} /\ snapshot \in [Proc -> LockFile \cup {NoLock}]
    BY DEF InstanceInit
  <2>3. attempt \in [Proc -> 0..1] /\ excused \in SUBSET Proc /\ raced \in SUBSET Proc
    BY DEF InstanceInit
  <2> QED
    BY <2>1, <2>2, <2>3 DEF InstanceTypeOK
<1>2. HoldInv /\ WrittenInv /\ FileInv
  BY DEF InstanceInit, HoldInv, WrittenInv, FileInv, Holding, Running
<1>3. JudgedInv
  BY DEF InstanceInit, JudgedInv
<1> QED
  BY <1>1, <1>2, <1>3 DEF InstanceInv

\* Every step keeps it: one step of the proof per action.
LEMMA InstanceStepInv == InstanceInv /\ [InstanceNext]_instanceVars => InstanceInv'
<1> SUFFICES ASSUME InstanceInv, [InstanceNext]_instanceVars PROVE InstanceInv'
  OBVIOUS
<1> USE BeatAssumption, NoLockAssumption
<1> USE DEF LockFile, Starting, Running, Done, Holding, GoTo, Gone, IsDone
<1>1. ASSUME NEW p \in Proc, Launch(p) PROVE InstanceInv'
  BY <1>1 DEF Launch, Active, InstanceInv, InstanceTypeOK, HoldInv, WrittenInv, FileInv,
       JudgedInv, Mine
<1>2. ASSUME NEW p \in Proc, Reuse(p) PROVE InstanceInv'
  BY <1>2 DEF Reuse, InstanceInv, InstanceTypeOK, HoldInv, WrittenInv, FileInv, JudgedInv,
       Mine
<1>3. ASSUME NEW p \in Proc, Stopped(p) PROVE InstanceInv'
  BY <1>3 DEF Stopped, RetryAs, InstanceInv, InstanceTypeOK, HoldInv, WrittenInv, FileInv,
       JudgedInv, Mine
<1>4. ASSUME NEW p \in Proc, Open(p) PROVE InstanceInv'
  <2>1. CASE file = NoLock
    <3> DEFINE created == [owner |-> p, complete |-> FALSE, fresh |-> TRUE, mtime |-> 0]
    <3>1. file' = created /\ at' = [at EXCEPT ![p] = "write"]
          /\ UNCHANGED <<snapshot, attempt, excused, raced>>
      BY <1>4, <2>1 DEF Open
    <3>2. created \in LockFile /\ created.owner = p /\ created.fresh = TRUE
      OBVIOUS
    <3>3. created # NoLock
      BY <3>2
    <3> HIDE DEF created
    <3>4. raced = {} => \A q \in Proc : at[q] \notin Holding
      BY <2>1 DEF InstanceInv, HoldInv, Mine
    <3>5. InstanceTypeOK'
      BY <3>1, <3>2 DEF InstanceInv, InstanceTypeOK
    <3>6. HoldInv' /\ WrittenInv'
      BY <3>1, <3>2, <3>3, <3>4 DEF InstanceInv, InstanceTypeOK, HoldInv, WrittenInv, Mine
    <3>7. FileInv'
      BY <3>1, <3>2, <3>3 DEF InstanceInv, InstanceTypeOK, FileInv
    <3>8. JudgedInv'
      BY <1>4, <3>1 DEF Open, InstanceInv, InstanceTypeOK, JudgedInv
    <3> QED
      BY <3>5, <3>6, <3>7, <3>8 DEF InstanceInv
  <2>2. CASE file # NoLock
    BY <1>4, <2>2 DEF Open, InstanceInv, InstanceTypeOK, HoldInv, WrittenInv, FileInv,
         JudgedInv, Mine
  <2> QED
    BY <2>1, <2>2
<1>5. ASSUME NEW p \in Proc, Write(p) PROVE InstanceInv'
  BY <1>5 DEF Write, InstanceInv, InstanceTypeOK, HoldInv, WrittenInv, FileInv, JudgedInv,
       Mine
<1>6. ASSUME NEW p \in Proc, WriteFails(p) PROVE InstanceInv'
  BY <1>6 DEF WriteFails, InstanceInv, InstanceTypeOK, HoldInv, WrittenInv, FileInv,
       JudgedInv, Mine
<1>7. ASSUME NEW p \in Proc, Snapshot(p) PROVE InstanceInv'
  BY <1>7 DEF Snapshot, RetryAs, InstanceInv, InstanceTypeOK, HoldInv, WrittenInv,
     FileInv,
       JudgedInv, Mine
<1>8. ASSUME NEW p \in Proc, JudgeGone(p) PROVE InstanceInv'
  BY <1>8 DEF JudgeGone, Reclaimable, InstanceInv, InstanceTypeOK, HoldInv, WrittenInv,
       FileInv, JudgedInv, Mine
<1>9. ASSUME NEW p \in Proc, JudgeAlive(p) PROVE InstanceInv'
  BY <1>9 DEF JudgeAlive, InstanceInv, InstanceTypeOK, HoldInv, WrittenInv, FileInv,
       JudgedInv, Mine
<1>10. ASSUME NEW p \in Proc, RecheckFile(p) PROVE InstanceInv'
  <2>1. InstanceTypeOK'
    BY <1>10 DEF RecheckFile, RetryAs, Reclaimable, SameFile, InstanceInv,
       InstanceTypeOK, Mine
  <2>2. HoldInv'
    BY <1>10 DEF RecheckFile, RetryAs, Reclaimable, SameFile, InstanceInv, InstanceTypeOK,
       HoldInv, JudgedInv, Mine
  <2>3. WrittenInv'
    BY <1>10 DEF RecheckFile, RetryAs, Reclaimable, SameFile, InstanceInv, InstanceTypeOK,
       WrittenInv, HoldInv, JudgedInv, Mine
  <2>4. FileInv'
    BY <1>10 DEF RecheckFile, RetryAs, Reclaimable, SameFile, InstanceInv, InstanceTypeOK,
       FileInv, JudgedInv, Mine
  <2>5. JudgedInv'
    BY <1>10 DEF RecheckFile, RetryAs, Reclaimable, SameFile, InstanceInv, InstanceTypeOK,
       FileInv, JudgedInv, Mine
  <2> QED
    BY <2>1, <2>2, <2>3, <2>4, <2>5 DEF InstanceInv
<1>11. ASSUME NEW p \in Proc, RemoveJudged(p) PROVE InstanceInv'
  BY <1>11 DEF RemoveJudged, RetryAs, SameFile, InstanceInv, InstanceTypeOK, HoldInv,
     WrittenInv,
       FileInv, JudgedInv, Mine
<1>12. ASSUME NEW p \in Proc, WaitOver(p) PROVE InstanceInv'
  BY <1>12 DEF WaitOver, RetryAs, InstanceInv, InstanceTypeOK, HoldInv, WrittenInv,
       FileInv, JudgedInv, Mine
<1>13. ASSUME NEW p \in Proc, Heartbeat(p) PROVE InstanceInv'
  <2>1. file \in LockFile /\ file # NoLock /\ file.mtime < MaxBeat
    BY <1>13 DEF Heartbeat, Mine, InstanceInv, InstanceTypeOK
  <2>2. /\ file' \in LockFile /\ file' # NoLock
        /\ file'.owner = file.owner /\ file'.complete = file.complete
        /\ file'.fresh = TRUE
    <3>1. file' = [file EXCEPT !.fresh = TRUE, !.mtime = @ + 1]
      BY <1>13 DEF Heartbeat
    <3>2. file.mtime \in 0..MaxBeat /\ file.mtime + 1 \in 0..MaxBeat
      BY <2>1
    <3>3. file' \in LockFile
      BY <2>1, <3>1, <3>2
    <3> QED
      BY <2>1, <3>1, <3>3
  <2>3. UNCHANGED <<at, snapshot, attempt, excused, raced>>
    BY <1>13 DEF Heartbeat
  <2> QED
    BY <2>1, <2>2, <2>3 DEF InstanceInv, InstanceTypeOK, HoldInv, WrittenInv, FileInv,
       JudgedInv, Mine
<1>14. ASSUME NEW p \in Proc, Exit(p) PROVE InstanceInv'
  BY <1>14 DEF Exit, InstanceInv, InstanceTypeOK, HoldInv, WrittenInv, FileInv, JudgedInv,
       Mine
<1>15. ASSUME NEW p \in Proc, ReleaseLook(p) PROVE InstanceInv'
  BY <1>15 DEF ReleaseLook, InstanceInv, InstanceTypeOK, HoldInv, WrittenInv, FileInv,
       JudgedInv, Mine
<1>16. ASSUME NEW p \in Proc, ReleaseRemove(p) PROVE InstanceInv'
  BY <1>16 DEF ReleaseRemove, InstanceInv, InstanceTypeOK, HoldInv, WrittenInv, FileInv,
       JudgedInv, Mine
<1>17. ASSUME NEW p \in Proc, Die(p) PROVE InstanceInv'
  BY <1>17 DEF Die, Active, InstanceInv, InstanceTypeOK, HoldInv, WrittenInv, FileInv,
       JudgedInv, Mine
<1>18. ASSUME Age PROVE InstanceInv'
  BY <1>18 DEF Age, InstanceInv, InstanceTypeOK, HoldInv, WrittenInv, FileInv,
     JudgedInv, Mine
<1>19. ASSUME UNCHANGED instanceVars PROVE InstanceInv'
  BY <1>19 DEF instanceVars, InstanceInv, InstanceTypeOK, HoldInv, WrittenInv, FileInv,
     JudgedInv, Mine
<1> QED
  BY <1>1, <1>2, <1>3, <1>4, <1>5, <1>6, <1>7, <1>8, <1>9, <1>10, <1>11,
       <1>12, <1>13, <1>14, <1>15, <1>16, <1>17, <1>18, <1>19
     DEF InstanceNext, StartStep, RunningStep

\* The invariant holds in every reachable state: types, and who may own, judge
\* and remove the file (acquireInstanceLock, releaseInstanceLockSync).
THEOREM InstanceInvariance == InstanceSpec => []InstanceInv
BY InstanceInitInv, InstanceStepInv, PTL DEF InstanceSpec

\* A running process keeps its complete file on disk until some reclaim removes
\* a file it had not judged: that is the only way an owner is displaced.
THEOREM OwnerKeepsFile == InstanceSpec => []HeldUnlessRaced
<1>1. InstanceInv => HeldUnlessRaced
  BY DEF InstanceInv, HoldInv, WrittenInv, HeldUnlessRaced, Holding, Running
<1> QED
  BY <1>1, InstanceInvariance, PTL

\* ... and so two processes run at once only after such a removal.
THEOREM SingleUnlessRaced == InstanceSpec => [](raced = {} => SingleInstance)
<1>1. InstanceInv => (raced = {} => SingleInstance)
  BY DEF InstanceInv, HoldInv, SingleInstance, Holding, Running, Mine
<1> QED
  BY <1>1, InstanceInvariance, PTL

-----------------------------------------------------------------------------
(* Refusals.  A starter that is not excused is alone: every process that     *)
(* starts beside it excuses both.  So nobody touches the file it looks at but *)
(* itself, its second attempt finds no file at all, and what it waits for is  *)
(* the unfinished file of a process that is gone.                            *)

\* The file p judges is the one on disk, its second attempt finds none, and it
\* waits only for a file without identity.
AloneInv(p) ==
    p \notin excused =>
        /\ at[p] \notin Done => \A q \in Proc : q # p => at[q] \in Done
        /\ at[p] \in {"exists", "judge", "recheck", "unlink", "wait"} => attempt[p] = 0
        /\ at[p] = "off" => attempt[p] = 0
        /\ at[p] = "open" /\ attempt[p] = 1 => file = NoLock
        /\ at[p] \in {"judge", "recheck", "unlink"} => SameFile(file, snapshot[p])
        /\ at[p] = "wait" => file = NoLock \/ ~file.complete

RefusalInv == (\A p \in Proc : AloneInv(p)) /\ NoFalseRefusal

\* Nobody has started yet.
LEMMA InitRefusal == InstanceInit => RefusalInv
BY DEF InstanceInit, RefusalInv, AloneInv, NoFalseRefusal, Done

\* Every step keeps it: one step of the proof per action.
LEMMA StepRefusal ==
  InstanceInv /\ RefusalInv /\ [InstanceNext]_instanceVars => RefusalInv'
<1> SUFFICES ASSUME InstanceInv, RefusalInv, [InstanceNext]_instanceVars PROVE RefusalInv'
  OBVIOUS
<1>a. InstanceTypeOK
  BY DEF InstanceInv
<1>b. \A r \in Proc : AloneInv(r) /\ (at[r] = "refused" /\ r \notin excused
                        => snapshot[r] # NoLock /\ ~snapshot[r].complete)
  BY DEF RefusalInv, NoFalseRefusal
<1> SUFFICES ASSUME NEW q \in Proc
             PROVE  /\ AloneInv(q)'
                    /\ at'[q] = "refused" /\ q \notin excused'
                         => snapshot'[q] # NoLock /\ ~snapshot'[q].complete
  BY DEF RefusalInv, NoFalseRefusal
<1> USE NoLockAssumption DEF InstanceTypeOK, AloneInv, GoTo, Starting, Running, Done
<1>1. ASSUME NEW p \in Proc, Launch(p)
        PROVE  /\ AloneInv(q)'
               /\ at'[q] = "refused" /\ q \notin excused'
                    => snapshot'[q] # NoLock /\ ~snapshot'[q].complete
  <2>1. at' = [at EXCEPT ![p] = "open"] /\ at[p] = "off"
        /\ UNCHANGED <<file, snapshot, attempt>>
    BY <1>1 DEF Launch
  <2>2. Active # {} => Active \cup {p} \subseteq excused'
    BY <1>1 DEF Launch
  <2>3. excused \subseteq excused'
    BY <1>1 DEF Launch
  <2>4. CASE Active = {}
    <3>1. \A r \in Proc : at[r] \in Done
      BY <2>4 DEF Active
    <3>2. CASE q = p
      <4>1. at'[p] = "open" /\ attempt[p] \in 0..1
        BY <2>1, <1>a
      <4> QED
        BY <2>1, <2>3, <3>1, <3>2, <4>1, <1>a, <1>b
    <3>3. CASE q # p
      <4>1. at'[q] = at[q] /\ at[q] \in Done
        BY <2>1, <3>1, <3>3, <1>a
      <4> QED
        BY <2>1, <2>3, <4>1, <1>a, <1>b
    <3> QED
      BY <3>2, <3>3
  <2>5. CASE Active # {}
    <3>1. q \in excused' \/ (at'[q] = at[q] /\ at[q] \in Done)
      BY <2>1, <2>2, <2>5, <1>a DEF Active
    <3> QED
      BY <2>1, <2>3, <3>1, <1>b
  <2> QED
    BY <2>4, <2>5
<1>2. ASSUME NEW p \in Proc, Reuse(p)
        PROVE  /\ AloneInv(q)'
               /\ at'[q] = "refused" /\ q \notin excused'
                    => snapshot'[q] # NoLock /\ ~snapshot'[q].complete
  BY <1>2, <1>a, <1>b DEF Reuse, SameFile
<1>3. ASSUME NEW p \in Proc, Stopped(p)
        PROVE  /\ AloneInv(q)'
               /\ at'[q] = "refused" /\ q \notin excused'
                    => snapshot'[q] # NoLock /\ ~snapshot'[q].complete
  BY <1>3, <1>a, <1>b DEF Stopped, RetryAs, SameFile
<1>4. ASSUME NEW p \in Proc, Open(p)
        PROVE  /\ AloneInv(q)'
               /\ at'[q] = "refused" /\ q \notin excused'
                    => snapshot'[q] # NoLock /\ ~snapshot'[q].complete
  BY <1>4, <1>a, <1>b DEF Open, SameFile
<1>5. ASSUME NEW p \in Proc, Write(p)
        PROVE  /\ AloneInv(q)'
               /\ at'[q] = "refused" /\ q \notin excused'
                    => snapshot'[q] # NoLock /\ ~snapshot'[q].complete
  BY <1>5, <1>a, <1>b DEF Write, Mine, SameFile
<1>6. ASSUME NEW p \in Proc, WriteFails(p)
        PROVE  /\ AloneInv(q)'
               /\ at'[q] = "refused" /\ q \notin excused'
                    => snapshot'[q] # NoLock /\ ~snapshot'[q].complete
  BY <1>6, <1>a, <1>b DEF WriteFails, SameFile
<1>7. ASSUME NEW p \in Proc, Snapshot(p)
        PROVE  /\ AloneInv(q)'
               /\ at'[q] = "refused" /\ q \notin excused'
                    => snapshot'[q] # NoLock /\ ~snapshot'[q].complete
  BY <1>7, <1>a, <1>b DEF Snapshot, RetryAs, SameFile
<1>8. ASSUME NEW p \in Proc, JudgeGone(p)
        PROVE  /\ AloneInv(q)'
               /\ at'[q] = "refused" /\ q \notin excused'
                    => snapshot'[q] # NoLock /\ ~snapshot'[q].complete
  BY <1>8, <1>a, <1>b DEF JudgeGone, SameFile
<1>9. ASSUME NEW p \in Proc, JudgeAlive(p)
        PROVE  /\ AloneInv(q)'
               /\ at'[q] = "refused" /\ q \notin excused'
                    => snapshot'[q] # NoLock /\ ~snapshot'[q].complete
  BY <1>9, <1>a, <1>b DEF JudgeAlive, SameFile
<1>10. ASSUME NEW p \in Proc, RecheckFile(p)
        PROVE  /\ AloneInv(q)'
               /\ at'[q] = "refused" /\ q \notin excused'
                    => snapshot'[q] # NoLock /\ ~snapshot'[q].complete
  BY <1>10, <1>a, <1>b DEF RecheckFile, RetryAs, SameFile
<1>11. ASSUME NEW p \in Proc, RemoveJudged(p)
        PROVE  /\ AloneInv(q)'
               /\ at'[q] = "refused" /\ q \notin excused'
                    => snapshot'[q] # NoLock /\ ~snapshot'[q].complete
  BY <1>11, <1>a, <1>b DEF RemoveJudged, RetryAs, SameFile
<1>12. ASSUME NEW p \in Proc, WaitOver(p)
        PROVE  /\ AloneInv(q)'
               /\ at'[q] = "refused" /\ q \notin excused'
                    => snapshot'[q] # NoLock /\ ~snapshot'[q].complete
  BY <1>12, <1>a, <1>b DEF WaitOver, RetryAs, SameFile
<1>13. ASSUME NEW p \in Proc, Heartbeat(p)
        PROVE  /\ AloneInv(q)'
               /\ at'[q] = "refused" /\ q \notin excused'
                    => snapshot'[q] # NoLock /\ ~snapshot'[q].complete
  BY <1>13, <1>a, <1>b DEF Heartbeat, Mine, SameFile
<1>14. ASSUME NEW p \in Proc, Exit(p)
        PROVE  /\ AloneInv(q)'
               /\ at'[q] = "refused" /\ q \notin excused'
                    => snapshot'[q] # NoLock /\ ~snapshot'[q].complete
  BY <1>14, <1>a, <1>b DEF Exit, SameFile
<1>15. ASSUME NEW p \in Proc, ReleaseLook(p)
        PROVE  /\ AloneInv(q)'
               /\ at'[q] = "refused" /\ q \notin excused'
                    => snapshot'[q] # NoLock /\ ~snapshot'[q].complete
  BY <1>15, <1>a, <1>b DEF ReleaseLook, SameFile
<1>16. ASSUME NEW p \in Proc, ReleaseRemove(p)
        PROVE  /\ AloneInv(q)'
               /\ at'[q] = "refused" /\ q \notin excused'
                    => snapshot'[q] # NoLock /\ ~snapshot'[q].complete
  BY <1>16, <1>a, <1>b DEF ReleaseRemove, SameFile
<1>17. ASSUME NEW p \in Proc, Die(p)
        PROVE  /\ AloneInv(q)'
               /\ at'[q] = "refused" /\ q \notin excused'
                    => snapshot'[q] # NoLock /\ ~snapshot'[q].complete
  BY <1>17, <1>a, <1>b DEF Die, SameFile
<1>18. ASSUME Age
        PROVE  /\ AloneInv(q)'
               /\ at'[q] = "refused" /\ q \notin excused'
                    => snapshot'[q] # NoLock /\ ~snapshot'[q].complete
  <2>1. file \in LockFile /\ file # NoLock /\ file' = [file EXCEPT !.fresh = FALSE]
    BY <1>18, <1>a DEF Age
  <2>2. /\ file' \in LockFile /\ file'.owner = file.owner
        /\ file'.complete = file.complete /\ file'.mtime = file.mtime
    BY <2>1 DEF LockFile
  <2>3. file' # NoLock
    BY <2>2
  <2>4. UNCHANGED <<at, snapshot, attempt, excused>>
    BY <1>18 DEF Age
  <2> QED
    BY <2>1, <2>2, <2>3, <2>4, <1>a, <1>b DEF SameFile
<1>19. ASSUME UNCHANGED instanceVars
        PROVE  /\ AloneInv(q)'
               /\ at'[q] = "refused" /\ q \notin excused'
                    => snapshot'[q] # NoLock /\ ~snapshot'[q].complete
  BY <1>19, <1>a, <1>b DEF instanceVars, SameFile
<1> QED
  BY <1>1, <1>2, <1>3, <1>4, <1>5, <1>6, <1>7, <1>8, <1>9, <1>10, <1>11, <1>12, <1>13,
     <1>14, <1>15, <1>16, <1>17, <1>18, <1>19
     DEF InstanceNext, StartStep, RunningStep

\* A starter that met no other process and could judge the owner is refused only
\* for the fresh, unfinished file of a process that died while starting: the lock
\* of a dead owner never locks the project out (acquireInstanceLock).
THEOREM DeadOwnersDoNotRefuse == InstanceSpec => []NoFalseRefusal
<1>1. RefusalInv => NoFalseRefusal
  BY DEF RefusalInv
<1>2. InstanceSpec => []RefusalInv
  BY InitRefusal, StepRefusal, InstanceInvariance, PTL DEF InstanceSpec
<1> QED
  BY <1>1, <1>2, PTL
=============================================================================
