---------------------- MODULE SchedulerLifecycle_proofs ----------------------
(***************************************************************************)
(* Proofs about the lifecycle of the scheduler, for any number of requests *)
(* and faults: one run at a time, and a timer that is never of the past.   *)
(* One lemma per part of the inductive invariant, one step per action.     *)
(***************************************************************************)
EXTENDS SchedulerLifecycle, FiniteSets, FiniteSetTheorems, FunctionTheorems, SequenceTheorems, TLAPS

\* Every stop that was asked for is in the queue or in progress.
Stops(q) == {i \in DOMAIN q : q[i].kind = "stop"}
CountInv ==
  /\ IsFiniteSet(Stops(queue))
  /\ stopReqs = Cardinality(Stops(queue)) + (IF exec.kind = "stop" THEN 1 ELSE 0)

\* What has ended leaves nothing behind; a cycle is never of the future, and a
\* run by hand beside a current cycle is as current.
RunInv ==
  /\ exec.kind = "none" => exec = NoExec
  /\ cycle.pc = "idle" => cycle = NoCycle
  /\ manual.pc = "idle" => manual = NoRun
  /\ cycle.gen <= gen
  /\ cycle.pc # "idle" /\ cycle.gen = gen /\ manual.pc # "idle" => manual.gen = gen
  /\ OneRun

CycleOver == cycle.pc # "idle" => cycle.gen # gen

\* A start has stopped what ran before it: no timer is pending, no cycle can go
\* on, and after the wait nothing runs.
StartInv ==
  exec.kind = "start" =>
    /\ timer = NoTimer
    /\ CycleOver
    /\ exec.pc # "drain" => ~Activity

\* The status claims a timer that is there or that its owner still may arm.
ClaimInv ==
  timerActive =>
    \/ timer # NoTimer
    \/ Starting("persist") /\ CanPublish(exec.gen)
    \/ CycleAt("persist") /\ CanPublish(cycle.gen)

\* A stop that is in progress has cleared everything, and while one is pending
\* no cycle goes on: the timer of a start that was still under way is cleared
\* before it can fire.
StopInv ==
  /\ exec.kind = "stop" => timer = NoTimer /\ ~enabled /\ ~timerActive /\ CycleOver
  /\ Stops(queue) # {} => CycleOver

TimerInv == TimerIsCurrent /\ NoOldRunUnderTimer /\ ClaimInv
IndInv == TypeOK /\ CountInv /\ RunInv /\ StartInv /\ StopInv /\ TimerInv
-----------------------------------------------------------------------------
Execs == [kind : {"none", "start", "stop"},
          pc : {"none", "drain", "load", "setup", "disable", "recheck", "persist"},
          gen : Nat, by : {"none", "client", "save", "other"}, aborted : BOOLEAN]
Timers == [kind : {"none", "tick", "retry"}, gen : Nat]
Cycles == [pc : {"idle", "run", "disabled", "load", "setup", "disable", "recheck",
                 "persist"},
           gen : Nat, on : BOOLEAN]
Runs == [pc : {"idle", "run", "disabled"}, gen : Nat]
Idles == [set : BOOLEAN, gen : Nat]
Clients == [pc : {"idle", "stopping", "saving", "saved", "restopping", "checking",
                  "starting"}, gen : Nat]

\* The queue keeps its type, and a stop more or less is counted.
LEMMA AppendTypes ==
  ASSUME NEW q \in Seq(Operation), NEW op \in Operation, IsFiniteSet(Stops(q))
  PROVE  /\ Append(q, op) \in Seq(Operation) /\ IsFiniteSet(Stops(Append(q, op)))
         /\ Cardinality(Stops(Append(q, op)))
              = Cardinality(Stops(q)) + (IF op.kind = "stop" THEN 1 ELSE 0)
         /\ op.kind # "stop" => Stops(Append(q, op)) = Stops(q)
<1> DEFINE new == Append(q, op)
           n == Len(q) + 1
<1>1. /\ new \in Seq(Operation) /\ Len(new) = n /\ Len(q) \in Nat
      /\ \A i \in 1..Len(q) : new[i] = q[i]
      /\ new[n] = op
  OBVIOUS
<1>2. DOMAIN new = 1..n /\ DOMAIN q = 1..Len(q) /\ 1..n = (1..Len(q)) \cup {n} /\ n \notin 1..Len(q)
  OBVIOUS
<1> HIDE DEF new, n
<1>3. Stops(new) = IF op.kind = "stop" THEN Stops(q) \cup {n} ELSE Stops(q)
  BY <1>1, <1>2 DEF Stops
<1>4. n \notin Stops(q) /\ Cardinality(Stops(q)) \in Nat
  BY <1>2, FS_CardinalityType DEF Stops
<1>5. /\ IsFiniteSet(Stops(q) \cup {n})
      /\ Cardinality(Stops(q) \cup {n}) = Cardinality(Stops(q)) + 1
  BY <1>4, FS_AddElement
<1>6. IsFiniteSet(Stops(new)) /\ Cardinality(Stops(new))
              = Cardinality(Stops(q)) + (IF op.kind = "stop" THEN 1 ELSE 0)
  BY <1>3, <1>4, <1>5
<1> QED
  BY <1>1, <1>3, <1>6 DEF new

LEMMA TailTypes ==
  ASSUME NEW q \in Seq(Operation), q # <<>>, IsFiniteSet(Stops(q))
  PROVE  /\ Head(q) \in Operation /\ Tail(q) \in Seq(Operation)
         /\ IsFiniteSet(Stops(Tail(q)))
         /\ Cardinality(Stops(q))
              = Cardinality(Stops(Tail(q))) + (IF Head(q).kind = "stop" THEN 1 ELSE 0)
         /\ Head(q).kind = "stop" \/ Stops(Tail(q)) # {} => Stops(q) # {}
<1> DEFINE S == Stops(q) \ {1}
           T == Stops(Tail(q))
           f == [i \in S |-> i - 1]
<1>1. /\ Head(q) = q[1] /\ Head(q) \in Operation /\ Tail(q) \in Seq(Operation)
      /\ Len(q) \in Nat \ {0} /\ Len(Tail(q)) = Len(q) - 1
      /\ \A i \in 1..(Len(q) - 1) : Tail(q)[i] = q[i + 1]
  OBVIOUS
<1>2. DOMAIN q = 1..Len(q) /\ DOMAIN Tail(q) = 1..(Len(q) - 1)
  OBVIOUS
<1>3. f \in Bijection(S, T)
  <2>1. \A i \in S : i \in 2..Len(q) /\ i - 1 \in T
    BY <1>1 DEF Stops
  <2>2. \A j \in T : j + 1 \in S /\ (j + 1) - 1 = j
    BY <1>1 DEF Stops
  <2>3. f \in [S -> T]
    BY <2>1
  <2>4. \A i, j \in S : f[i] = f[j] => i = j
    BY <2>1
  <2>5. \A j \in T : \E i \in S : f[i] = j
    BY <2>2
  <2> QED
    BY <2>3, <2>4, <2>5, Fun_IsBij
<1>4. IsFiniteSet(S) /\ Cardinality(S) = IF 1 \in Stops(q) THEN Cardinality(Stops(q)) - 1
                                                            ELSE Cardinality(Stops(q))
  BY FS_RemoveElement
<1>5. IsFiniteSet(T) /\ Cardinality(T) = Cardinality(S)
  BY <1>3, <1>4, FS_Bijection DEF ExistsBijection
<1>6. 1 \in Stops(q) <=> Head(q).kind = "stop"
  BY <1>1 DEF Stops
<1>7. Cardinality(Stops(q)) \in Nat /\ Cardinality(T) \in Nat
  BY <1>5, FS_CardinalityType
<1>8. Stops(Tail(q)) # {} => Stops(q) # {}
  BY <1>1 DEF Stops
<1> QED
  BY <1>1, <1>4, <1>5, <1>6, <1>7, <1>8

\* An aborted operation is one of the same kind.
LEMMA AbortTypes ==
  ASSUME NEW q \in Seq(Operation)
  PROVE  AbortOps(q) \in Seq(Operation) /\ Stops(AbortOps(q)) = Stops(q)
<1>1. \A i \in DOMAIN q : /\ AbortOps(q)[i] \in Operation
                          /\ AbortOps(q)[i].kind = q[i].kind
  <2> SUFFICES ASSUME NEW i \in DOMAIN q
               PROVE  AbortOps(q)[i] \in Operation /\ AbortOps(q)[i].kind = q[i].kind
    OBVIOUS
  <2>1. q[i] \in Operation
    OBVIOUS
  <2>2. /\ [q[i] EXCEPT !.aborted = TRUE] \in Operation
        /\ [q[i] EXCEPT !.aborted = TRUE].kind = q[i].kind
    BY <2>1 DEF Operation
  <2>3. AbortOps(q)[i] \in {q[i], [q[i] EXCEPT !.aborted = TRUE]}
    BY DEF AbortOps
  <2> QED
    BY <2>1, <2>2, <2>3
<1>2. Len(q) \in Nat /\ DOMAIN q = 1..Len(q) /\ DOMAIN AbortOps(q) = 1..Len(q)
  BY DEF AbortOps
<1>3. AbortOps(q) \in Seq(Operation)
  BY <1>1 DEF AbortOps
<1> QED
  BY <1>1, <1>2, <1>3 DEF Stops

\* Every step keeps the types.
LEMMA TypeStep == IndInv /\ [Next]_vars => TypeOK'
<1> SUFFICES ASSUME IndInv, [Next]_vars PROVE TypeOK'
  OBVIOUS
<1> DEFINE Flags == /\ terminal \in BOOLEAN /\ enabled \in BOOLEAN /\ timerActive \in BOOLEAN
                    /\ on \in BOOLEAN /\ gaveUp \in BOOLEAN
           Numbers == /\ gen \in Nat /\ stopReqs \in Nat /\ recover \in Nat
                      /\ users \in 0..MaxUser /\ faults \in 0..MaxFault
<1>a. /\ Flags /\ Numbers /\ exec \in Execs /\ timer \in Timers /\ cycle \in Cycles /\ manual \in Runs
      /\ idle \in Idles /\ client \in Clients /\ queue \in Seq(Operation)
      /\ IsFiniteSet(Stops(queue)) /\ (exec.kind = "stop" => stopReqs >= 1)
  BY FS_CardinalityType DEF IndInv, TypeOK, CountInv, Execs, Timers, Cycles, Runs, Idles,
     Clients
<1>o. \A k \in {"start", "stop"}, b \in {"client", "save", "other"} :
        Op(k, b) \in Operation /\ [Op(k, b) EXCEPT !.gen = gen + 1] \in Operation
  <2> SUFFICES ASSUME NEW k \in {"start", "stop"}, NEW b \in {"client", "save", "other"}
               PROVE  Op(k, b) \in Operation /\ [Op(k, b) EXCEPT !.gen = gen + 1] \in Operation
    OBVIOUS
  <2>1. gen \in Nat /\ gen + 1 \in Nat
    BY <1>a
  <2>2. Op(k, b) \in Operation
    BY <2>1 DEF Op, Operation
  <2>3. \A o \in Operation, g \in Nat : [o EXCEPT !.gen = g] \in Operation
    BY DEF Operation
  <2> QED
    BY <2>1, <2>2, <2>3
<1>h. queue # <<>> => /\ Head(queue) \in Operation /\ Head(queue).gen \in Nat
                      /\ Head(queue).by \in {"client", "save", "other"}
  <2>1. \A o \in Operation : o.gen \in Nat /\ o.by \in {"client", "save", "other"}
    BY DEF Operation
  <2> QED
    BY <1>a, <2>1
<1>k. /\ [set |-> TRUE, gen |-> gen] \in Idles /\ NoExec \in Execs
      /\ [exec EXCEPT !.pc = "setup"] \in Execs
      /\ \A b \in {"client", "save", "other"} :
            [kind |-> "start", pc |-> "drain", gen |-> 0, by |-> b, aborted |-> FALSE] \in Execs
  BY <1>a DEF Idles, NoExec, Execs
<1> SUFFICES Flags' /\ Numbers' /\ exec' \in Execs /\ timer' \in Timers /\ cycle' \in Cycles
             /\ manual' \in Runs /\ idle' \in Idles /\ client' \in Clients
             /\ queue' \in Seq(Operation)
  BY DEF TypeOK, Execs, Timers, Cycles, Runs, Idles, Clients
<1>1. CASE BeginStart
  <2>1. queue' \in Seq(Operation)
    BY <1>a, <1>1 DEF BeginStart
  <2>2. exec' \in Execs
    BY <1>a, <1>h, <1>k, <1>1 DEF BeginStart
  <2>3. timer' \in Timers
    BY <1>a, <1>1 DEF BeginStart, StopRuntimeNow, NoTimer, Timers
  <2>4. client' \in Clients
    BY <1>a, <1>1 DEF BeginStart, StopRuntimeNow, NoClient, Clients
  <2>5. Flags'
    BY <1>a, <1>1 DEF BeginStart, StopRuntimeNow, lifecycle, control
  <2>6. Numbers'
    BY <1>a, <1>1 DEF BeginStart, StopRuntimeNow, user, lifecycle, control
  <2> QED
    BY <1>a, <1>1, <2>1, <2>2, <2>3, <2>4, <2>5, <2>6 DEF BeginStart, StopRuntimeNow
<1>2. CASE BeginStop
  <2>1. queue' \in Seq(Operation)
    BY <1>a, <1>2 DEF BeginStop
  <2>2. exec' \in Execs
    BY <1>a, <1>h, <1>2 DEF BeginStop, Execs
  <2>3. timer' \in Timers
    BY <1>a, <1>2 DEF BeginStop, StopRuntimeNow, NoTimer, Timers
  <2>4. Flags'
    BY <1>a, <1>2 DEF BeginStop, StopRuntimeNow, lifecycle, control
  <2>5. Numbers'
    BY <1>a, <1>2 DEF BeginStop, StopRuntimeNow, user, lifecycle, control
  <2> QED
    BY <1>a, <1>2, <2>1, <2>2, <2>3, <2>4, <2>5 DEF BeginStop, StopRuntimeNow
<1>3. CASE StopDone
  <2>1. exec' \in Execs
    BY <1>a, <1>3 DEF StopDone, NoExec, Execs
  <2>2. idle' \in Idles
    BY <1>a, <1>h, <1>k, <1>3 DEF StopDone, ClientRefused, GoesOn, LeavesStopped
  <2>3. client' \in Clients
    BY <1>a, <1>3 DEF StopDone, ClientRefused, GoesOn, LeavesStopped, NoClient, Clients
  <2>4. Flags'
    BY <1>a, <1>3 DEF StopDone, ClientRefused, GoesOn, LeavesStopped
  <2>5. Numbers'
    BY <1>a, <1>3, BoundsAssumption DEF StopDone, Fault, ClientRefused, GoesOn, LeavesStopped,
       user
  <2> QED
    BY <1>a, <1>3, <2>1, <2>2, <2>3, <2>4, <2>5 DEF StopDone
<1>4. CASE Drained
  <2>1. exec' \in Execs
    BY <1>a, <1>4 DEF Drained, Execs
  <2>2. Flags'
    BY <1>a, <1>4 DEF Drained, lifecycle, control
  <2>3. Numbers'
    BY <1>a, <1>4 DEF Drained, user, lifecycle, control
  <2> QED
    BY <1>a, <1>4, <2>1, <2>2, <2>3 DEF Drained
<1>5. CASE DrainTimesOut
  <2>1. exec' \in Execs
    BY <1>a, <1>5 DEF DrainTimesOut, EndExec, NoExec, Execs
  <2>2. client' \in Clients
    BY <1>a, <1>5 DEF DrainTimesOut, EndExec, NoClient, Clients
  <2>3. Flags'
    BY <1>a, <1>5 DEF DrainTimesOut, user, lifecycle, control
  <2>4. Numbers'
    BY <1>a, <1>5, BoundsAssumption DEF DrainTimesOut, Fault, user, lifecycle, control
  <2> QED
    BY <1>a, <1>5, <2>1, <2>2, <2>3, <2>4 DEF DrainTimesOut
<1>6. CASE StartDropped
  <2>1. exec' \in Execs
    BY <1>a, <1>6 DEF StartDropped, EndExec, NoExec, Execs
  <2>2. client' \in Clients
    BY <1>a, <1>6 DEF StartDropped, EndExec, NoClient, Clients
  <2>3. Flags'
    BY <1>a, <1>6 DEF StartDropped, lifecycle, control
  <2>4. Numbers'
    BY <1>a, <1>6 DEF StartDropped, user, lifecycle, control
  <2> QED
    BY <1>a, <1>6, <2>1, <2>2, <2>3, <2>4 DEF StartDropped
<1>7. CASE StartLoads
  <2>1. exec' \in Execs
    BY <1>a, <1>h, <1>k, <1>7 DEF StartLoads, GotoExec, EndExec
  <2>2. client' \in Clients
    BY <1>a, <1>7 DEF StartLoads, GotoExec, EndExec, NoClient, Clients
  <2>3. Flags'
    BY <1>a, <1>7 DEF StartLoads, lifecycle, control
  <2>4. Numbers'
    BY <1>a, <1>7 DEF StartLoads, user, lifecycle, control
  <2> QED
    BY <1>a, <1>7, <2>1, <2>2, <2>3, <2>4 DEF StartLoads
<1>8. CASE StartBlocked
  <2>1. exec' \in Execs
    BY <1>a, <1>8 DEF StartBlocked, EndExec, NoExec, Execs
  <2>2. timer' \in Timers
    BY <1>a, <1>8 DEF StartBlocked, RetryLater, CanPublish, Timers
  <2>3. client' \in Clients
    BY <1>a, <1>8 DEF StartBlocked, EndExec, NoClient, Clients
  <2>4. Flags'
    BY <1>a, <1>8 DEF StartBlocked, RetryLater, user, lifecycle, control
  <2>5. Numbers'
    BY <1>a, <1>8, BoundsAssumption DEF StartBlocked, Fault, user, lifecycle, control
  <2> QED
    BY <1>a, <1>8, <2>1, <2>2, <2>3, <2>4, <2>5 DEF StartBlocked
<1>9. CASE StartReady
  <2>1. exec' \in Execs
    BY <1>a, <1>9 DEF StartReady, GotoExec, Execs
  <2>2. timer' \in Timers
    BY <1>a, <1>9 DEF StartReady, ScheduleNext, NoTimer, Timers
  <2>3. Flags'
    BY <1>a, <1>9 DEF StartReady, ScheduleNext, lifecycle, control
  <2>4. Numbers'
    BY <1>a, <1>9 DEF StartReady, user, lifecycle, control
  <2> QED
    BY <1>a, <1>9, <2>1, <2>2, <2>3, <2>4 DEF StartReady, ScheduleNext, GotoExec
<1>10. CASE StartNeedsSetup
  <2>1. exec' \in Execs
    BY <1>a, <1>10 DEF StartNeedsSetup, GotoExec, Execs
  <2>2. Flags'
    BY <1>a, <1>10 DEF StartNeedsSetup, lifecycle, control
  <2>3. Numbers'
    BY <1>a, <1>10 DEF StartNeedsSetup, user, lifecycle, control
  <2> QED
    BY <1>a, <1>10, <2>1, <2>2, <2>3 DEF StartNeedsSetup, GotoExec
<1>11. CASE StartDisables
  <2>1. exec' \in Execs
    BY <1>a, <1>11 DEF StartDisables, EndExec, NoExec, Execs
  <2>2. client' \in Clients
    BY <1>a, <1>11 DEF StartDisables, EndExec, NoClient, Clients
  <2>3. Flags'
    BY <1>a, <1>11 DEF StartDisables, lifecycle, control
  <2>4. Numbers'
    BY <1>a, <1>11 DEF StartDisables, user, lifecycle, control
  <2> QED
    BY <1>a, <1>11, <2>1, <2>2, <2>3, <2>4 DEF StartDisables
<1>12. CASE StartNeedsNone
  <2>1. exec' \in Execs
    BY <1>a, <1>12 DEF StartNeedsNone, GotoExec, Execs
  <2>2. timer' \in Timers
    BY <1>a, <1>12 DEF StartNeedsNone, ScheduleNext, NoTimer, Timers
  <2>3. Flags'
    BY <1>a, <1>12 DEF StartNeedsNone, ScheduleNext, lifecycle, control
  <2>4. Numbers'
    BY <1>a, <1>12 DEF StartNeedsNone, user, lifecycle, control
  <2> QED
    BY <1>a, <1>12, <2>1, <2>2, <2>3, <2>4 DEF StartNeedsNone, ScheduleNext, GotoExec
<1>13. CASE StartDisableFails
  <2>1. exec' \in Execs
    BY <1>a, <1>13 DEF StartDisableFails, EndExec, NoExec, Execs
  <2>2. client' \in Clients
    BY <1>a, <1>13 DEF StartDisableFails, EndExec, NoClient, Clients
  <2>3. Flags'
    BY <1>a, <1>13 DEF StartDisableFails, user, lifecycle, control
  <2>4. Numbers'
    BY <1>a, <1>13, BoundsAssumption DEF StartDisableFails, Fault, user, lifecycle, control
  <2> QED
    BY <1>a, <1>13, <2>1, <2>2, <2>3, <2>4 DEF StartDisableFails
<1>14. CASE StartArms
  <2>1. exec' \in Execs
    BY <1>a, <1>14 DEF StartArms, EndExec, NoExec, Execs
  <2>2. timer' \in Timers
    BY <1>a, <1>14 DEF StartArms, ArmTimer, CanPublish, Timers
  <2>3. client' \in Clients
    BY <1>a, <1>14 DEF StartArms, EndExec, NoClient, Clients
  <2>4. Flags'
    BY <1>a, <1>14 DEF StartArms, lifecycle, control
  <2>5. Numbers'
    BY <1>a, <1>14 DEF StartArms, user, lifecycle, control
  <2> QED
    BY <1>a, <1>14, <2>1, <2>2, <2>3, <2>4, <2>5 DEF StartArms
<1>15. CASE CycleRunEnds
  <2>1. cycle' \in Cycles
    BY <1>a, <1>15 DEF CycleRunEnds, Cycles
  <2>2. Flags'
    BY <1>a, <1>15 DEF CycleRunEnds, lifecycle, control
  <2>3. Numbers'
    BY <1>a, <1>15 DEF CycleRunEnds, user, lifecycle, control
  <2> QED
    BY <1>a, <1>15, <2>1, <2>2, <2>3 DEF CycleRunEnds, lifecycle, control
<1>16. CASE CycleStale
  <2>1. cycle' \in Cycles
    BY <1>a, <1>16 DEF CycleStale, NoCycle, Cycles
  <2>2. Flags'
    BY <1>a, <1>16 DEF CycleStale, lifecycle, control
  <2>3. Numbers'
    BY <1>a, <1>16 DEF CycleStale, user, lifecycle, control
  <2> QED
    BY <1>a, <1>16, <2>1, <2>2, <2>3 DEF CycleStale, lifecycle, control
<1>17. CASE CycleLoads
  <2>1. cycle' \in Cycles
    BY <1>a, <1>17 DEF CycleLoads, Cycles
  <2>2. Flags'
    BY <1>a, <1>17 DEF CycleLoads, lifecycle, control
  <2>3. Numbers'
    BY <1>a, <1>17 DEF CycleLoads, user, lifecycle, control
  <2> QED
    BY <1>a, <1>17, <2>1, <2>2, <2>3 DEF CycleLoads, lifecycle, control
<1>18. CASE CycleBlocked
  <2>1. timer' \in Timers
    BY <1>a, <1>18 DEF CycleBlocked, CanPublish, RetryLater, Timers
  <2>2. cycle' \in Cycles
    BY <1>a, <1>18 DEF CycleBlocked, NoCycle, Cycles
  <2>3. Flags'
    BY <1>a, <1>18 DEF CycleBlocked, RetryLater, user, lifecycle, control
  <2>4. Numbers'
    BY <1>a, <1>18, BoundsAssumption DEF CycleBlocked, Fault, user, lifecycle, control
  <2> QED
    BY <1>a, <1>18, <2>1, <2>2, <2>3, <2>4 DEF CycleBlocked, lifecycle, control
<1>19. CASE CycleReschedules
  <2>1. timer' \in Timers
    BY <1>a, <1>19 DEF CycleReschedules, ScheduleNext, NoTimer, Timers
  <2>2. cycle' \in Cycles
    BY <1>a, <1>19 DEF CycleReschedules, Cycles
  <2>3. Flags'
    BY <1>a, <1>19 DEF CycleReschedules, ScheduleNext, lifecycle, control
  <2>4. Numbers'
    BY <1>a, <1>19 DEF CycleReschedules, user, lifecycle, control
  <2> QED
    BY <1>a, <1>19, <2>1, <2>2, <2>3, <2>4 DEF CycleReschedules, ScheduleNext, lifecycle,
       control
<1>20. CASE CycleEnds
  <2>1. cycle' \in Cycles
    BY <1>a, <1>20 DEF CycleEnds, NoCycle, Cycles
  <2>2. Flags'
    BY <1>a, <1>20 DEF CycleEnds, lifecycle, control
  <2>3. Numbers'
    BY <1>a, <1>20 DEF CycleEnds, user, lifecycle, control
  <2> QED
    BY <1>a, <1>20, <2>1, <2>2, <2>3 DEF CycleEnds, lifecycle, control
<1>21. CASE CycleNeedsSetup
  <2>1. cycle' \in Cycles
    BY <1>a, <1>21 DEF CycleNeedsSetup, Cycles
  <2>2. Flags'
    BY <1>a, <1>21 DEF CycleNeedsSetup, lifecycle, control
  <2>3. Numbers'
    BY <1>a, <1>21 DEF CycleNeedsSetup, user, lifecycle, control
  <2> QED
    BY <1>a, <1>21, <2>1, <2>2, <2>3 DEF CycleNeedsSetup, lifecycle, control
<1>22. CASE CycleDisables
  <2>1. cycle' \in Cycles
    BY <1>a, <1>22 DEF CycleDisables, Cycles
  <2>2. Flags'
    BY <1>a, <1>22 DEF CycleDisables, lifecycle, control
  <2>3. Numbers'
    BY <1>a, <1>22 DEF CycleDisables, user, lifecycle, control
  <2> QED
    BY <1>a, <1>22, <2>1, <2>2, <2>3 DEF CycleDisables, lifecycle, control
<1>23. CASE CycleNeedsNone
  <2>1. timer' \in Timers
    BY <1>a, <1>23 DEF CycleNeedsNone, ScheduleNext, NoTimer, Timers
  <2>2. cycle' \in Cycles
    BY <1>a, <1>23 DEF CycleNeedsNone, Cycles
  <2>3. Flags'
    BY <1>a, <1>23 DEF CycleNeedsNone, ScheduleNext, lifecycle, control
  <2>4. Numbers'
    BY <1>a, <1>23 DEF CycleNeedsNone, user, lifecycle, control
  <2> QED
    BY <1>a, <1>23, <2>1, <2>2, <2>3, <2>4 DEF CycleNeedsNone, ScheduleNext, lifecycle,
       control
<1>24. CASE CycleDisableFails
  <2>1. cycle' \in Cycles
    BY <1>a, <1>24 DEF CycleDisableFails, NoCycle, Cycles
  <2>2. Flags'
    BY <1>a, <1>24 DEF CycleDisableFails, user, lifecycle, control
  <2>3. Numbers'
    BY <1>a, <1>24, BoundsAssumption DEF CycleDisableFails, Fault, user, lifecycle, control
  <2> QED
    BY <1>a, <1>24, <2>1, <2>2, <2>3 DEF CycleDisableFails
<1>25. CASE CycleArms
  <2>1. timer' \in Timers
    BY <1>a, <1>25 DEF CycleArms, ArmTimer, CanPublish, Timers
  <2>2. cycle' \in Cycles
    BY <1>a, <1>25 DEF CycleArms, NoCycle, Cycles
  <2>3. Flags'
    BY <1>a, <1>25 DEF CycleArms, lifecycle, control
  <2>4. Numbers'
    BY <1>a, <1>25 DEF CycleArms, user, lifecycle, control
  <2> QED
    BY <1>a, <1>25, <2>1, <2>2, <2>3, <2>4 DEF CycleArms, lifecycle, control
<1>26. CASE RunDisables
  <2>1. cycle' \in Cycles
    BY <1>a, <1>26 DEF RunDisables, Cycles
  <2>2. manual' \in Runs
    BY <1>a, <1>26 DEF RunDisables, Runs
  <2>3. Flags'
    BY <1>a, <1>26 DEF RunDisables, lifecycle, control
  <2>4. Numbers'
    BY <1>a, <1>26 DEF RunDisables, user, lifecycle, control
  <2> QED
    BY <1>a, <1>26, <2>1, <2>2, <2>3, <2>4 DEF RunDisables, lifecycle, control
<1>27. CASE RunStops
  <2>1. timer' \in Timers
    BY <1>a, <1>27 DEF RunStops, StopsRuntime, NoTimer, Timers
  <2>2. cycle' \in Cycles
    BY <1>a, <1>27 DEF RunStops, Cycles
  <2>3. manual' \in Runs
    BY <1>a, <1>27 DEF RunStops, NoRun, Runs
  <2>4. Flags'
    BY <1>a, <1>27 DEF RunStops, StopsRuntime, lifecycle, control
  <2>5. Numbers'
    BY <1>a, <1>27 DEF RunStops, user, lifecycle, control
  <2> QED
    BY <1>a, <1>27, <2>1, <2>2, <2>3, <2>4, <2>5 DEF RunStops, control
<1>28. CASE RunDisableFails
  <2>1. cycle' \in Cycles
    BY <1>a, <1>28 DEF RunDisableFails, Cycles
  <2>2. manual' \in Runs
    BY <1>a, <1>28 DEF RunDisableFails, NoRun, Runs
  <2>3. Flags'
    BY <1>a, <1>28 DEF RunDisableFails, user, lifecycle, control
  <2>4. Numbers'
    BY <1>a, <1>28, BoundsAssumption DEF RunDisableFails, Fault, user, lifecycle, control
  <2> QED
    BY <1>a, <1>28, <2>1, <2>2, <2>3, <2>4 DEF RunDisableFails, control
<1>29. CASE TickFires
  <2>1. timer' \in Timers
    BY <1>a, <1>29 DEF TickFires, NoTimer, Timers
  <2>2. cycle' \in Cycles
    BY <1>a, <1>29 DEF TickFires, CanPublish, Cycles
  <2>3. Flags'
    BY <1>a, <1>29 DEF TickFires, lifecycle, control
  <2>4. Numbers'
    BY <1>a, <1>29 DEF TickFires, user, lifecycle, control
  <2> QED
    BY <1>a, <1>29, <2>1, <2>2, <2>3, <2>4 DEF TickFires
<1>30. CASE RetryFires
  <2>1. queue' \in Seq(Operation)
    BY <1>a, <1>30, <1>o DEF RetryFires
  <2>2. timer' \in Timers
    BY <1>a, <1>30 DEF RetryFires, NoTimer, Timers
  <2>3. Flags'
    BY <1>a, <1>30 DEF RetryFires, lifecycle, control
  <2>4. Numbers'
    BY <1>a, <1>30 DEF RetryFires, user, lifecycle, control
  <2> QED
    BY <1>a, <1>30, <2>1, <2>2, <2>3, <2>4 DEF RetryFires
<1>31. CASE ManualEnds
  <2>1. manual' \in Runs
    BY <1>a, <1>31 DEF ManualEnds, NoRun, Runs
  <2>2. Flags'
    BY <1>a, <1>31 DEF ManualEnds, lifecycle, control
  <2>3. Numbers'
    BY <1>a, <1>31 DEF ManualEnds, user, lifecycle, control
  <2> QED
    BY <1>a, <1>31, <2>1, <2>2, <2>3 DEF ManualEnds, control
<1>32. CASE IdleRestart
  <2>1. queue' \in Seq(Operation)
    BY <1>a, <1>32, <1>o DEF IdleRestart, CanPublish, Activity, NoIdle, user
  <2>2. idle' \in Idles
    BY <1>a, <1>32 DEF IdleRestart, NoIdle, Idles
  <2>3. Flags'
    BY <1>a, <1>32 DEF IdleRestart, lifecycle, control
  <2>4. Numbers'
    BY <1>a, <1>32 DEF IdleRestart, user, lifecycle, control
  <2> QED
    BY <1>a, <1>32, <2>1, <2>2, <2>3, <2>4 DEF IdleRestart
<1>33. CASE Restart
  <2>1. queue' \in Seq(Operation)
    BY <1>a, <1>33, <1>o, AppendTypes DEF Restart
  <2>2. idle' \in Idles
    BY <1>a, <1>h, <1>k, <1>33 DEF Restart
  <2>3. Flags'
    BY <1>a, <1>33 DEF Restart, lifecycle, control
  <2>4. Numbers'
    BY <1>a, <1>33 DEF Restart, user, lifecycle, control
  <2> QED
    BY <1>a, <1>33, <2>1, <2>2, <2>3, <2>4 DEF Restart
<1>34. CASE ClientSaves
  <2>1. queue' \in Seq(Operation)
    BY <1>a, <1>34, <1>o DEF ClientSaves
  <2>2. client' \in Clients
    BY <1>a, <1>34 DEF ClientSaves, NoExec, Clients
  <2>3. Flags'
    BY <1>a, <1>34 DEF ClientSaves, lifecycle, control
  <2>4. Numbers'
    BY <1>a, <1>34 DEF ClientSaves, user, lifecycle, control
  <2> QED
    BY <1>a, <1>34, <2>1, <2>2, <2>3, <2>4 DEF ClientSaves
<1>35. CASE ManualRun
  <2>1. manual' \in Runs
    BY <1>a, <1>35 DEF ManualRun, Runs
  <2>2. Flags'
    BY <1>a, <1>35 DEF ManualRun, user, lifecycle, control
  <2>3. Numbers'
    BY <1>a, <1>35, BoundsAssumption DEF ManualRun, User, user, lifecycle, control
  <2> QED
    BY <1>a, <1>35, <2>1, <2>2, <2>3 DEF ManualRun, lifecycle, control
<1>36. CASE ClientStops
  <2>1. queue' \in Seq(Operation)
    BY <1>a, <1>36, <1>o DEF ClientStops, AskStop
  <2>2. timer' \in Timers
    BY <1>a, <1>36 DEF ClientStops, AskStop, StopRuntimeNow, NoTimer, Timers
  <2>3. client' \in Clients
    BY <1>a, <1>36 DEF ClientStops, Clients
  <2>4. Flags'
    BY <1>a, <1>36 DEF ClientStops, AskStop, StopRuntimeNow, user, lifecycle, control
  <2>5. Numbers'
    BY <1>a, <1>36, BoundsAssumption DEF ClientStops, User, AskStop, StopRuntimeNow, user,
       lifecycle, control
  <2> QED
    BY <1>a, <1>36, <2>1, <2>2, <2>3, <2>4, <2>5 DEF ClientStops
<1>37. CASE ClientTimesOut
  <2>1. idle' \in Idles
    BY <1>a, <1>k, <1>37 DEF ClientTimesOut, ClientRefused, GoesOn, LeavesStopped
  <2>2. client' \in Clients
    BY <1>a, <1>37 DEF ClientTimesOut, ClientRefused, GoesOn, LeavesStopped, NoClient, Clients
  <2>3. Flags'
    BY <1>a, <1>37 DEF ClientTimesOut, ClientRefused, GoesOn, LeavesStopped
  <2>4. Numbers'
    BY <1>a, <1>37, BoundsAssumption DEF ClientTimesOut, Fault, ClientRefused, GoesOn,
       LeavesStopped
  <2> QED
    BY <1>a, <1>37, <2>1, <2>2, <2>3, <2>4 DEF ClientTimesOut
<1>38. CASE ClientAborts
  <2>1. queue' \in Seq(Operation)
    BY <1>a, <1>38, AbortTypes DEF ClientAborts
  <2>2. exec' \in Execs
    BY <1>a, <1>38 DEF ClientAborts, Execs
  <2>3. client' \in Clients
    BY <1>a, <1>38 DEF ClientAborts, NoExec, NoClient, Clients
  <2>4. Flags'
    BY <1>a, <1>38 DEF ClientAborts, user, lifecycle, control
  <2>5. Numbers'
    BY <1>a, <1>38, BoundsAssumption DEF ClientAborts, Fault, user, lifecycle, control
  <2> QED
    BY <1>a, <1>38, <2>1, <2>2, <2>3, <2>4, <2>5 DEF ClientAborts
<1>39. CASE Shutdown
  <2>1. queue' \in Seq(Operation)
    BY <1>a, <1>39, <1>o DEF Shutdown, AskStop
  <2>2. timer' \in Timers
    BY <1>a, <1>39 DEF Shutdown, NoExec, AskStop, StopRuntimeNow, NoTimer, Timers
  <2>3. Flags'
    BY <1>a, <1>39 DEF Shutdown, AskStop, StopRuntimeNow, user, lifecycle, control
  <2>4. Numbers'
    BY <1>a, <1>39, BoundsAssumption DEF Shutdown, User, AskStop, StopRuntimeNow, user,
       lifecycle, control
  <2> QED
    BY <1>a, <1>39, <2>1, <2>2, <2>3, <2>4 DEF Shutdown
<1>40. CASE UNCHANGED vars
  BY <1>a, <1>40 DEF vars
<1>41. CASE StartStaysOn
  <2>1. exec' \in Execs
    BY <1>a, <1>41 DEF StartStaysOn, GotoExec, Execs
  <2>2. Flags'
    BY <1>a, <1>41 DEF StartStaysOn
  <2>3. Numbers'
    BY <1>a, <1>41 DEF StartStaysOn, user
  <2> QED
    BY <1>a, <1>41, <2>1, <2>2, <2>3 DEF StartStaysOn, GotoExec
<1>42. CASE StartStillNeedsSetup
  <2>1. exec' \in Execs
    BY <1>a, <1>42 DEF StartStillNeedsSetup, EndExec, NoExec, Execs
  <2>2. client' \in Clients
    BY <1>a, <1>42 DEF StartStillNeedsSetup, EndExec, NoClient, Clients
  <2>3. Flags'
    BY <1>a, <1>42 DEF StartStillNeedsSetup
  <2>4. Numbers'
    BY <1>a, <1>42 DEF StartStillNeedsSetup, user
  <2> QED
    BY <1>a, <1>42, <2>1, <2>2, <2>3, <2>4 DEF StartStillNeedsSetup
<1>43. CASE CycleStops
  <2>1. cycle' \in Cycles
    BY <1>a, <1>43 DEF CycleStops, NoCycle, Cycles
  <2>2. Flags'
    BY <1>a, <1>43 DEF CycleStops, control
  <2>3. Numbers'
    BY <1>a, <1>43 DEF CycleStops, user, control
  <2> QED
    BY <1>a, <1>43, <2>1, <2>2, <2>3 DEF CycleStops, control
<1>44. CASE ClientSaveFails
  <2>1. client' \in Clients
    BY <1>a, <1>44 DEF ClientSaveFails, NoClient, Clients
  <2>2. Flags'
    BY <1>a, <1>44 DEF ClientSaveFails
  <2>3. Numbers'
    BY <1>a, <1>44, BoundsAssumption DEF ClientSaveFails, Fault
  <2> QED
    BY <1>a, <1>44, <2>1, <2>2, <2>3 DEF ClientSaveFails
<1>45. CASE ClientRestops
  <2>1. queue' \in Seq(Operation)
    BY <1>a, <1>45, <1>o DEF ClientRestops, AskStop
  <2>2. timer' \in Timers
    BY <1>a, <1>45 DEF ClientRestops, AskStop, StopRuntimeNow, NoTimer, Timers
  <2>3. client' \in Clients
    BY <1>a, <1>45 DEF ClientRestops, Clients
  <2>4. Flags'
    BY <1>a, <1>45 DEF ClientRestops, AskStop, StopRuntimeNow
  <2>5. Numbers'
    BY <1>a, <1>45 DEF ClientRestops, AskStop, StopRuntimeNow, user
  <2> QED
    BY <1>a, <1>45, <2>1, <2>2, <2>3, <2>4, <2>5 DEF ClientRestops
<1>46. CASE ClientStarts
  <2>1. queue' \in Seq(Operation)
    BY <1>a, <1>46, <1>o DEF ClientStarts
  <2>2. client' \in Clients
    BY <1>a, <1>46 DEF ClientStarts, Clients
  <2>3. Flags'
    BY <1>a, <1>46 DEF ClientStarts
  <2>4. Numbers'
    BY <1>a, <1>46 DEF ClientStarts, user
  <2> QED
    BY <1>a, <1>46, <2>1, <2>2, <2>3, <2>4 DEF ClientStarts
<1>47. CASE ClientNeedsSetup
  <2>1. queue' \in Seq(Operation)
    BY <1>a, <1>47, <1>o DEF ClientNeedsSetup, AskStop
  <2>2. timer' \in Timers
    BY <1>a, <1>47 DEF ClientNeedsSetup, AskStop, StopRuntimeNow, NoTimer, Timers
  <2>3. client' \in Clients
    BY <1>a, <1>47 DEF ClientNeedsSetup, NoClient, Clients
  <2>4. Flags'
    BY <1>a, <1>47 DEF ClientNeedsSetup, AskStop, StopRuntimeNow
  <2>5. Numbers'
    BY <1>a, <1>47 DEF ClientNeedsSetup, AskStop, StopRuntimeNow, user
  <2> QED
    BY <1>a, <1>47, <2>1, <2>2, <2>3, <2>4, <2>5 DEF ClientNeedsSetup
<1> QED
  BY <1>1, <1>2, <1>3, <1>4, <1>5, <1>6, <1>7, <1>8, <1>9, <1>10, <1>11, <1>12, <1>13, <1>14,
     <1>15, <1>16, <1>17, <1>18, <1>19, <1>20, <1>21, <1>22, <1>23, <1>24, <1>25, <1>26,
     <1>27, <1>28, <1>29, <1>30, <1>31, <1>32, <1>33, <1>34, <1>35, <1>36, <1>37, <1>38,
     <1>39, <1>40, <1>41, <1>42, <1>43, <1>44, <1>45, <1>46, <1>47
     DEF Next, QueueStep, StartStep, CycleStep, RunStep, TimerFires, ClientStep, UserStep

\* The stops are counted.
LEMMA CountStep == IndInv /\ [Next]_vars => CountInv'
<1> SUFFICES ASSUME IndInv, [Next]_vars PROVE CountInv'
  OBVIOUS
<1>a. /\ gen \in Nat /\ terminal \in BOOLEAN /\ enabled \in BOOLEAN /\ timerActive \in BOOLEAN
      /\ exec \in Execs /\ timer \in Timers /\ cycle \in Cycles /\ manual \in Runs
      /\ idle \in Idles /\ client \in Clients /\ queue \in Seq(Operation)
  BY DEF IndInv, TypeOK, Execs, Timers, Cycles, Runs, Idles, Clients
<1>b. CountInv /\ Cardinality(Stops(queue)) \in Nat
  BY FS_CardinalityType DEF IndInv, CountInv
<1>q. /\ \A b \in {"client", "save", "other"} :
           Stops(Append(queue, Op("start", b))) = Stops(queue)
      /\ \A b \in {"client", "save", "other"} :
           LET q == Append(queue, [Op("stop", b) EXCEPT !.gen = gen + 1])
           IN  IsFiniteSet(Stops(q)) /\ Cardinality(Stops(q)) = Cardinality(Stops(queue)) + 1
      /\ queue # <<>> =>
           /\ IsFiniteSet(Stops(Tail(queue))) /\ Cardinality(Stops(Tail(queue))) \in Nat
           /\ Head(queue).kind \in {"start", "stop"}
           /\ Cardinality(Stops(queue)) = Cardinality(Stops(Tail(queue)))
                                           + (IF Head(queue).kind = "stop" THEN 1 ELSE 0)
      /\ Stops(AbortOps(queue)) = Stops(queue)
  <2>1. \A k \in {"start", "stop"}, b \in {"client", "save", "other"} :
          Op(k, b) \in Operation /\ Op(k, b).kind = k
    BY <1>a DEF Op, Operation
  <2>2. \A o \in Operation, n \in Nat :
          [o EXCEPT !.gen = n] \in Operation /\ [o EXCEPT !.gen = n].kind = o.kind
    BY DEF Operation
  <2>3. \A b \in {"client", "save", "other"} :
          /\ [Op("stop", b) EXCEPT !.gen = gen + 1] \in Operation
          /\ [Op("stop", b) EXCEPT !.gen = gen + 1].kind = "stop"
    <3>1. gen + 1 \in Nat
      BY <1>a
    <3> QED
      BY <2>1, <2>2, <3>1
  <2>4. IsFiniteSet(Stops(queue))
    BY <1>b DEF CountInv
  <2>5. \A o \in Operation : o.kind \in {"start", "stop"}
    BY DEF Operation
  <2>6. \A b \in {"client", "save", "other"} : Stops(Append(queue, Op("start", b))) = Stops(queue)
    BY <1>a, <2>1, <2>4, AppendTypes
  <2>7. \A b \in {"client", "save", "other"} :
          LET q == Append(queue, [Op("stop", b) EXCEPT !.gen = gen + 1])
          IN  IsFiniteSet(Stops(q)) /\ Cardinality(Stops(q)) = Cardinality(Stops(queue)) + 1
    BY <1>a, <2>3, <2>4, AppendTypes
  <2>8. queue # <<>> =>
           /\ IsFiniteSet(Stops(Tail(queue))) /\ Cardinality(Stops(Tail(queue))) \in Nat
           /\ Head(queue).kind \in {"start", "stop"}
           /\ Cardinality(Stops(queue)) = Cardinality(Stops(Tail(queue)))
                                           + (IF Head(queue).kind = "stop" THEN 1 ELSE 0)
    BY <1>a, <2>4, <2>5, TailTypes, FS_CardinalityType
  <2>9. Stops(AbortOps(queue)) = Stops(queue)
    BY <1>a, AbortTypes
  <2> QED
    BY <2>6, <2>7, <2>8, <2>9
<1>1. CASE BeginStart
  BY <1>a, <1>b, <1>q, <1>1 DEF BeginStart, NoExec, StopRuntimeNow, CountInv
<1>2. CASE BeginStop
  BY <1>a, <1>b, <1>q, <1>2 DEF BeginStop, NoExec, CountInv
<1>3. CASE StopDone
  BY <1>a, <1>b, <1>3 DEF StopDone, NoExec, CountInv
<1>4. CASE Drained
  BY <1>a, <1>b, <1>4 DEF Drained, CountInv, NoExec
<1>5. CASE DrainTimesOut
  BY <1>a, <1>b, <1>5 DEF DrainTimesOut, Starting, EndExec, NoExec, CountInv
<1>6. CASE StartDropped
  BY <1>a, <1>b, <1>6 DEF StartDropped, EndExec, NoExec, CountInv
<1>7. CASE StartLoads
  BY <1>a, <1>b, <1>7 DEF StartLoads, Starting, GotoExec, EndExec, NoExec, CountInv, Execs
<1>8. CASE StartBlocked
  BY <1>a, <1>b, <1>8 DEF StartBlocked, EndExec, NoExec, CountInv
<1>9. CASE StartReady
  BY <1>a, <1>b, <1>9 DEF StartReady, GotoExec, CountInv, NoExec
<1>10. CASE StartNeedsSetup
  BY <1>a, <1>b, <1>10 DEF StartNeedsSetup, GotoExec, CountInv, NoExec
<1>11. CASE StartDisables
  BY <1>a, <1>b, <1>11 DEF StartDisables, Starting, EndExec, NoExec, CountInv
<1>12. CASE StartNeedsNone
  BY <1>a, <1>b, <1>12 DEF StartNeedsNone, GotoExec, CountInv, NoExec
<1>13. CASE StartDisableFails
  BY <1>a, <1>b, <1>13 DEF StartDisableFails, Starting, EndExec, NoExec, CountInv
<1>14. CASE StartArms
  BY <1>a, <1>b, <1>14 DEF StartArms, Starting, EndExec, NoExec, CountInv
<1>15. CASE CycleRunEnds
  BY <1>a, <1>b, <1>15 DEF CycleRunEnds, lifecycle, control, CountInv, NoExec
<1>16. CASE CycleStale
  BY <1>a, <1>b, <1>16 DEF CycleStale, lifecycle, control, CountInv, NoExec
<1>17. CASE CycleLoads
  BY <1>a, <1>b, <1>17 DEF CycleLoads, lifecycle, control, CountInv, NoExec
<1>18. CASE CycleBlocked
  BY <1>a, <1>b, <1>18 DEF CycleBlocked, lifecycle, control, CountInv, NoExec
<1>19. CASE CycleReschedules
  BY <1>a, <1>b, <1>19 DEF CycleReschedules, lifecycle, control, CountInv, NoExec
<1>20. CASE CycleEnds
  BY <1>a, <1>b, <1>20 DEF CycleEnds, lifecycle, control, CountInv, NoExec
<1>21. CASE CycleNeedsSetup
  BY <1>a, <1>b, <1>21 DEF CycleNeedsSetup, lifecycle, control, CountInv, NoExec
<1>22. CASE CycleDisables
  BY <1>a, <1>b, <1>22 DEF CycleDisables, lifecycle, control, CountInv, NoExec
<1>23. CASE CycleNeedsNone
  BY <1>a, <1>b, <1>23 DEF CycleNeedsNone, lifecycle, control, CountInv, NoExec
<1>24. CASE CycleDisableFails
  BY <1>a, <1>b, <1>24 DEF CycleDisableFails, CountInv, NoExec
<1>25. CASE CycleArms
  BY <1>a, <1>b, <1>25 DEF CycleArms, lifecycle, control, CountInv, NoExec
<1>26. CASE RunDisables
  BY <1>a, <1>b, <1>26 DEF RunDisables, lifecycle, control, CountInv, NoExec
<1>27. CASE RunStops
  BY <1>a, <1>b, <1>27 DEF RunStops, control, CountInv, NoExec
<1>28. CASE RunDisableFails
  BY <1>a, <1>b, <1>28 DEF RunDisableFails, control, CountInv, NoExec
<1>29. CASE TickFires
  BY <1>a, <1>b, <1>29 DEF TickFires, CountInv
<1>30. CASE RetryFires
  BY <1>a, <1>b, <1>q, <1>30 DEF RetryFires, CountInv
<1>31. CASE ManualEnds
  BY <1>a, <1>b, <1>31 DEF ManualEnds, control, CountInv, NoExec
<1>32. CASE IdleRestart
  BY <1>a, <1>b, <1>q, <1>32 DEF IdleRestart, CountInv, NoExec
<1>33. CASE Restart
  BY <1>a, <1>b, <1>q, <1>33 DEF Restart, CountInv
<1>34. CASE ClientSaves
  BY <1>a, <1>b, <1>q, <1>34 DEF ClientSaves, CountInv
<1>35. CASE ManualRun
  BY <1>a, <1>b, <1>35 DEF ManualRun, lifecycle, control, CountInv
<1>36. CASE ClientStops
  BY <1>a, <1>b, <1>q, <1>36 DEF ClientStops, AskStop, CountInv
<1>37. CASE ClientTimesOut
  BY <1>a, <1>b, <1>37 DEF ClientTimesOut, CountInv
<1>38. CASE ClientAborts
  BY <1>a, <1>b, <1>q, <1>38 DEF ClientAborts, CountInv
<1>39. CASE Shutdown
  BY <1>a, <1>b, <1>q, <1>39 DEF Shutdown, AskStop, CountInv
<1>40. CASE UNCHANGED vars
  BY <1>b, <1>40 DEF vars, CountInv
<1>41. CASE StartStaysOn
  BY <1>a, <1>b, <1>41 DEF StartStaysOn, GotoExec, CountInv, NoExec
<1>42. CASE StartStillNeedsSetup
  BY <1>a, <1>b, <1>42 DEF StartStillNeedsSetup, Starting, EndExec, NoExec, CountInv
<1>43. CASE CycleStops
  BY <1>a, <1>b, <1>43 DEF CycleStops, control, CountInv, NoExec
<1>44. CASE ClientSaveFails
  BY <1>a, <1>b, <1>44 DEF ClientSaveFails, CountInv
<1>45. CASE ClientRestops
  BY <1>a, <1>b, <1>q, <1>45 DEF ClientRestops, AskStop, CountInv
<1>46. CASE ClientStarts
  BY <1>a, <1>b, <1>q, <1>46 DEF ClientStarts, CountInv
<1>47. CASE ClientNeedsSetup
  BY <1>a, <1>b, <1>q, <1>47 DEF ClientNeedsSetup, AskStop, CountInv
<1> QED
  BY <1>1, <1>2, <1>3, <1>4, <1>5, <1>6, <1>7, <1>8, <1>9, <1>10, <1>11, <1>12, <1>13, <1>14,
     <1>15, <1>16, <1>17, <1>18, <1>19, <1>20, <1>21, <1>22, <1>23, <1>24, <1>25, <1>26,
     <1>27, <1>28, <1>29, <1>30, <1>31, <1>32, <1>33, <1>34, <1>35, <1>36, <1>37, <1>38,
     <1>39, <1>40, <1>41, <1>42, <1>43, <1>44, <1>45, <1>46, <1>47
     DEF Next, QueueStep, StartStep, CycleStep, RunStep, TimerFires, ClientStep, UserStep

\* What has ended is over, and nothing is of the future.
LEMMA RunInvStep == IndInv /\ [Next]_vars => RunInv'
<1> SUFFICES ASSUME IndInv, [Next]_vars PROVE RunInv'
  OBVIOUS
<1>a. /\ gen \in Nat /\ terminal \in BOOLEAN /\ enabled \in BOOLEAN /\ timerActive \in BOOLEAN
      /\ exec \in Execs /\ timer \in Timers /\ cycle \in Cycles /\ manual \in Runs
      /\ idle \in Idles /\ client \in Clients /\ queue \in Seq(Operation)
  BY DEF IndInv, TypeOK, Execs, Timers, Cycles, Runs, Idles, Clients
<1>b. RunInv /\ TimerInv
  BY DEF IndInv
<1>1. CASE BeginStart
  BY <1>a, <1>b, <1>1 DEF BeginStart, StopRuntimeNow, RunInv, OneRun, Cycles
<1>2. CASE BeginStop
  BY <1>a, <1>b, <1>2 DEF BeginStop, StopRuntimeNow, RunInv, OneRun
<1>3. CASE StopDone
  BY <1>a, <1>b, <1>3 DEF StopDone, RunInv, OneRun
<1>4. CASE Drained
  BY <1>a, <1>b, <1>4 DEF Drained, Starting, RunInv, OneRun
<1>5. CASE DrainTimesOut
  BY <1>a, <1>b, <1>5 DEF DrainTimesOut, EndExec, RunInv, OneRun
<1>6. CASE StartDropped
  BY <1>a, <1>b, <1>6 DEF StartDropped, EndExec, RunInv, OneRun
<1>7. CASE StartLoads
  BY <1>a, <1>b, <1>7 DEF StartLoads, Starting, GotoExec, EndExec, RunInv, OneRun, Execs
<1>8. CASE StartBlocked
  BY <1>a, <1>b, <1>8 DEF StartBlocked, EndExec, RunInv, OneRun
<1>9. CASE StartReady
  BY <1>a, <1>b, <1>9 DEF StartReady, Starting, GotoExec, RunInv, OneRun
<1>10. CASE StartNeedsSetup
  BY <1>a, <1>b, <1>10 DEF StartNeedsSetup, Starting, GotoExec, RunInv, OneRun
<1>11. CASE StartDisables
  BY <1>a, <1>b, <1>11 DEF StartDisables, EndExec, RunInv, OneRun
<1>12. CASE StartNeedsNone
  BY <1>a, <1>b, <1>12 DEF StartNeedsNone, Starting, GotoExec, RunInv, OneRun
<1>13. CASE StartDisableFails
  BY <1>a, <1>b, <1>13 DEF StartDisableFails, EndExec, RunInv, OneRun
<1>14. CASE StartArms
  BY <1>a, <1>b, <1>14 DEF StartArms, EndExec, RunInv, OneRun
<1>15. CASE CycleRunEnds
  BY <1>a, <1>b, <1>15 DEF CycleRunEnds, CycleAt, lifecycle, control, RunInv, OneRun
<1>16. CASE CycleStale
  BY <1>a, <1>b, <1>16 DEF CycleStale, NoCycle, lifecycle, control, RunInv, OneRun
<1>17. CASE CycleLoads
  BY <1>a, <1>b, <1>17 DEF CycleLoads, CycleAt, lifecycle, control, RunInv, OneRun
<1>18. CASE CycleBlocked
  BY <1>a, <1>b, <1>18 DEF CycleBlocked, NoCycle, lifecycle, control, RunInv, OneRun
<1>19. CASE CycleReschedules
  BY <1>a, <1>b, <1>19 DEF CycleReschedules, CycleAt, lifecycle, control, RunInv, OneRun
<1>20. CASE CycleEnds
  BY <1>a, <1>b, <1>20 DEF CycleEnds, NoCycle, lifecycle, control, RunInv, OneRun
<1>21. CASE CycleNeedsSetup
  BY <1>a, <1>b, <1>21 DEF CycleNeedsSetup, CycleAt, lifecycle, control, RunInv, OneRun
<1>22. CASE CycleDisables
  BY <1>a, <1>b, <1>22 DEF CycleDisables, CycleAt, lifecycle, control, RunInv, OneRun
<1>23. CASE CycleNeedsNone
  BY <1>a, <1>b, <1>23 DEF CycleNeedsNone, CycleAt, lifecycle, control, RunInv, OneRun
<1>24. CASE CycleDisableFails
  BY <1>a, <1>b, <1>24 DEF CycleDisableFails, NoCycle, RunInv, OneRun
<1>25. CASE CycleArms
  BY <1>a, <1>b, <1>25 DEF CycleArms, NoCycle, lifecycle, control, RunInv, OneRun
<1>26. CASE RunDisables
  BY <1>a, <1>b, <1>26 DEF RunDisables, lifecycle, control, RunInv, OneRun, Cycles, Runs,
     NoRun
<1>27. CASE RunStops
  BY <1>a, <1>b, <1>27 DEF RunStops, NoRun, control, RunInv, OneRun, Cycles
<1>28. CASE RunDisableFails
  BY <1>a, <1>b, <1>28 DEF RunDisableFails, NoRun, control, RunInv, OneRun, Cycles
<1>29. CASE TickFires
  BY <1>a, <1>b, <1>29 DEF TickFires, CanPublish, NoRun, RunInv, OneRun, TimerInv,
     NoOldRunUnderTimer
<1>30. CASE RetryFires
  BY <1>a, <1>b, <1>30 DEF RetryFires, RunInv, OneRun
<1>31. CASE ManualEnds
  BY <1>a, <1>b, <1>31 DEF ManualEnds, NoRun, control, RunInv, OneRun
<1>32. CASE IdleRestart
  BY <1>a, <1>b, <1>32 DEF IdleRestart, RunInv, OneRun
<1>33. CASE Restart
  BY <1>a, <1>b, <1>33 DEF Restart, RunInv, OneRun
<1>34. CASE ClientSaves
  BY <1>a, <1>b, <1>34 DEF ClientSaves, RunInv, OneRun
<1>35. CASE ManualRun
  BY <1>a, <1>b, <1>35 DEF ManualRun, Activity, lifecycle, control, RunInv, OneRun
<1>36. CASE ClientStops
  BY <1>a, <1>b, <1>36 DEF ClientStops, AskStop, StopRuntimeNow, RunInv, OneRun, Cycles
<1>37. CASE ClientTimesOut
  BY <1>a, <1>b, <1>37 DEF ClientTimesOut, RunInv, OneRun
<1>38. CASE ClientAborts
  BY <1>a, <1>b, <1>38 DEF ClientAborts, RunInv, OneRun, Execs
<1>39. CASE Shutdown
  BY <1>a, <1>b, <1>39 DEF Shutdown, AskStop, StopRuntimeNow, RunInv, OneRun, Cycles
<1>40. CASE UNCHANGED vars
  BY <1>b, <1>40 DEF vars, RunInv, OneRun, Activity, Starting, CycleAt, CanPublish, Stops
<1>41. CASE StartStaysOn
  BY <1>a, <1>b, <1>41 DEF StartStaysOn, Starting, GotoExec, RunInv, OneRun
<1>42. CASE StartStillNeedsSetup
  BY <1>a, <1>b, <1>42 DEF StartStillNeedsSetup, EndExec, RunInv, OneRun
<1>43. CASE CycleStops
  BY <1>a, <1>b, <1>43 DEF CycleStops, NoCycle, control, RunInv, OneRun
<1>44. CASE ClientSaveFails
  BY <1>a, <1>b, <1>44 DEF ClientSaveFails, RunInv, OneRun
<1>45. CASE ClientRestops
  BY <1>a, <1>b, <1>45 DEF ClientRestops, AskStop, StopRuntimeNow, RunInv, OneRun, Cycles
<1>46. CASE ClientStarts
  BY <1>a, <1>b, <1>46 DEF ClientStarts, RunInv, OneRun
<1>47. CASE ClientNeedsSetup
  BY <1>a, <1>b, <1>47 DEF ClientNeedsSetup, AskStop, StopRuntimeNow, RunInv, OneRun, Cycles
<1> QED
  BY <1>1, <1>2, <1>3, <1>4, <1>5, <1>6, <1>7, <1>8, <1>9, <1>10, <1>11, <1>12, <1>13, <1>14,
     <1>15, <1>16, <1>17, <1>18, <1>19, <1>20, <1>21, <1>22, <1>23, <1>24, <1>25, <1>26,
     <1>27, <1>28, <1>29, <1>30, <1>31, <1>32, <1>33, <1>34, <1>35, <1>36, <1>37, <1>38,
     <1>39, <1>40, <1>41, <1>42, <1>43, <1>44, <1>45, <1>46, <1>47
     DEF Next, QueueStep, StartStep, CycleStep, RunStep, TimerFires, ClientStep, UserStep

\* A start keeps what it found stopped.
LEMMA StartInvStep == IndInv /\ [Next]_vars => StartInv'
<1> SUFFICES ASSUME IndInv, [Next]_vars PROVE StartInv'
  OBVIOUS
<1>a. /\ gen \in Nat /\ terminal \in BOOLEAN /\ enabled \in BOOLEAN /\ timerActive \in BOOLEAN
      /\ exec \in Execs /\ timer \in Timers /\ cycle \in Cycles /\ manual \in Runs
      /\ idle \in Idles /\ client \in Clients /\ queue \in Seq(Operation)
  BY DEF IndInv, TypeOK, Execs, Timers, Cycles, Runs, Idles, Clients
<1>b. StartInv /\ TimerInv /\ RunInv /\ StopInv
  BY DEF IndInv
<1>1. CASE BeginStart
  BY <1>a, <1>b, <1>1 DEF BeginStart, NoExec, StopRuntimeNow, StartInv, CycleOver, RunInv
<1>2. CASE BeginStop
  BY <1>a, <1>b, <1>2 DEF BeginStop, StartInv
<1>3. CASE StopDone
  BY <1>a, <1>b, <1>3 DEF StopDone, NoExec, StartInv
<1>4. CASE Drained
  BY <1>a, <1>b, <1>4 DEF Drained, Activity, StartInv, CycleOver
<1>5. CASE DrainTimesOut
  BY <1>a, <1>b, <1>5 DEF DrainTimesOut, EndExec, NoExec, StartInv
<1>6. CASE StartDropped
  BY <1>a, <1>b, <1>6 DEF StartDropped, EndExec, NoExec, StartInv
<1>7. CASE StartLoads
  BY <1>a, <1>b, <1>7 DEF StartLoads, Starting, StartInv, CycleOver, Activity
<1>8. CASE StartBlocked
  BY <1>a, <1>b, <1>8 DEF StartBlocked, EndExec, NoExec, StartInv
<1>9. CASE StartReady
  BY <1>a, <1>b, <1>9 DEF StartReady, Starting, ScheduleNext, StartInv, CycleOver, Activity
<1>10. CASE StartNeedsSetup
  BY <1>a, <1>b, <1>10 DEF StartNeedsSetup, Starting, StartInv, CycleOver, Activity
<1>11. CASE StartDisables
  BY <1>a, <1>b, <1>11 DEF StartDisables, EndExec, NoExec, StartInv
<1>12. CASE StartNeedsNone
  BY <1>a, <1>b, <1>12 DEF StartNeedsNone, Starting, ScheduleNext, StartInv, CycleOver,
     Activity
<1>13. CASE StartDisableFails
  BY <1>a, <1>b, <1>13 DEF StartDisableFails, EndExec, NoExec, StartInv
<1>14. CASE StartArms
  BY <1>a, <1>b, <1>14 DEF StartArms, EndExec, NoExec, StartInv
<1>15. CASE CycleRunEnds
  BY <1>a, <1>b, <1>15 DEF CycleRunEnds, CycleAt, lifecycle, control, StartInv, CycleOver,
     Activity
<1>16. CASE CycleStale
  BY <1>a, <1>b, <1>16 DEF CycleStale, NoCycle, lifecycle, control, StartInv, CycleOver,
     Activity
<1>17. CASE CycleLoads
  BY <1>a, <1>b, <1>17 DEF CycleLoads, CycleAt, CycleCurrent, CanPublish, lifecycle, control,
     StartInv, CycleOver
<1>18. CASE CycleBlocked
  BY <1>a, <1>b, <1>18 DEF CycleBlocked, CycleCurrent, CanPublish, lifecycle, control,
     StartInv, CycleOver
<1>19. CASE CycleReschedules
  BY <1>a, <1>b, <1>19 DEF CycleReschedules, CycleAt, CycleCurrent, CanPublish, lifecycle,
     control, StartInv, CycleOver
<1>20. CASE CycleEnds
  BY <1>a, <1>b, <1>20 DEF CycleEnds, CycleAt, CycleCurrent, CanPublish, lifecycle, control,
     StartInv, CycleOver
<1>21. CASE CycleNeedsSetup
  BY <1>a, <1>b, <1>21 DEF CycleNeedsSetup, CycleAt, CycleCurrent, CanPublish, lifecycle,
     control, StartInv, CycleOver
<1>22. CASE CycleDisables
  BY <1>a, <1>b, <1>22 DEF CycleDisables, CycleAt, lifecycle, control, StartInv, CycleOver,
     Activity
<1>23. CASE CycleNeedsNone
  BY <1>a, <1>b, <1>23 DEF CycleNeedsNone, CycleAt, CycleCurrent, CanPublish, lifecycle,
     control, StartInv, CycleOver
<1>24. CASE CycleDisableFails
  BY <1>a, <1>b, <1>24 DEF CycleDisableFails, CycleAt, CycleCurrent, CanPublish, StartInv,
     CycleOver
<1>25. CASE CycleArms
  BY <1>a, <1>b, <1>25 DEF CycleArms, CycleAt, ArmTimer, CanPublish, NoCycle, lifecycle,
     control, StartInv, CycleOver, Activity
<1>26. CASE RunDisables
  BY <1>a, <1>b, <1>26 DEF RunDisables, CanPublish, lifecycle, control, StartInv, CycleOver,
     Activity
<1>27. CASE RunStops
  BY <1>a, <1>b, <1>27 DEF RunStops, StopsRuntime, control, StartInv, CycleOver, Cycles,
     Activity
<1>28. CASE RunDisableFails
  BY <1>a, <1>b, <1>28 DEF RunDisableFails, CanPublish, control, StartInv, CycleOver, Activity
<1>29. CASE TickFires
  BY <1>a, <1>b, <1>29 DEF TickFires, NoTimer, StartInv
<1>30. CASE RetryFires
  BY <1>a, <1>b, <1>30 DEF RetryFires, NoTimer, StartInv
<1>31. CASE ManualEnds
  BY <1>a, <1>b, <1>31 DEF ManualEnds, control, StartInv, CycleOver, Activity
<1>32. CASE IdleRestart
  BY <1>a, <1>b, <1>32 DEF IdleRestart, Activity, StartInv, CycleOver
<1>33. CASE Restart
  BY <1>a, <1>b, <1>33 DEF Restart, Activity, StartInv, CycleOver
<1>34. CASE ClientSaves
  BY <1>a, <1>b, <1>34 DEF ClientSaves, StartInv, CycleOver, Activity
<1>35. CASE ManualRun
  BY <1>a, <1>b, <1>35 DEF ManualRun, NoExec, lifecycle, control, StartInv
<1>36. CASE ClientStops
  BY <1>a, <1>b, <1>36 DEF ClientStops, AskStop, StopRuntimeNow, StartInv, CycleOver, RunInv,
     Activity
<1>37. CASE ClientTimesOut
  BY <1>a, <1>b, <1>37 DEF ClientTimesOut, StartInv, CycleOver, Activity
<1>38. CASE ClientAborts
  BY <1>a, <1>b, <1>38 DEF ClientAborts, StartInv, CycleOver, Activity
<1>39. CASE Shutdown
  BY <1>a, <1>b, <1>39 DEF Shutdown, AskStop, StopRuntimeNow, StartInv, CycleOver, RunInv,
     Activity
<1>40. CASE UNCHANGED vars
  BY <1>b, <1>40 DEF vars, StartInv, CycleOver, Activity
<1>41. CASE StartStaysOn
  BY <1>a, <1>b, <1>41 DEF StartStaysOn, Starting, StartInv, CycleOver, Activity
<1>42. CASE StartStillNeedsSetup
  BY <1>a, <1>b, <1>42 DEF StartStillNeedsSetup, EndExec, NoExec, StartInv
<1>43. CASE CycleStops
  BY <1>a, <1>b, <1>43 DEF CycleStops, CycleAt, CycleCurrent, CanPublish, control, StartInv,
     CycleOver
<1>44. CASE ClientSaveFails
  BY <1>a, <1>b, <1>44 DEF ClientSaveFails, StartInv, CycleOver, Activity
<1>45. CASE ClientRestops
  BY <1>a, <1>b, <1>45 DEF ClientRestops, AskStop, StopRuntimeNow, StartInv, CycleOver, RunInv,
     Activity
<1>46. CASE ClientStarts
  BY <1>a, <1>b, <1>46 DEF ClientStarts, StartInv, CycleOver, Activity
<1>47. CASE ClientNeedsSetup
  BY <1>a, <1>b, <1>47 DEF ClientNeedsSetup, AskStop, StopRuntimeNow, StartInv, CycleOver,
     RunInv, Activity
<1> QED
  BY <1>1, <1>2, <1>3, <1>4, <1>5, <1>6, <1>7, <1>8, <1>9, <1>10, <1>11, <1>12, <1>13, <1>14,
     <1>15, <1>16, <1>17, <1>18, <1>19, <1>20, <1>21, <1>22, <1>23, <1>24, <1>25, <1>26,
     <1>27, <1>28, <1>29, <1>30, <1>31, <1>32, <1>33, <1>34, <1>35, <1>36, <1>37, <1>38,
     <1>39, <1>40, <1>41, <1>42, <1>43, <1>44, <1>45, <1>46, <1>47
     DEF Next, QueueStep, StartStep, CycleStep, RunStep, TimerFires, ClientStep, UserStep

\* A timer that is armed is of this generation.
LEMMA TimerInvStep == IndInv /\ [Next]_vars => TimerInv'
<1> SUFFICES ASSUME IndInv, [Next]_vars PROVE TimerInv'
  OBVIOUS
<1>a. /\ gen \in Nat /\ terminal \in BOOLEAN /\ enabled \in BOOLEAN /\ timerActive \in BOOLEAN
      /\ exec \in Execs /\ timer \in Timers /\ cycle \in Cycles /\ manual \in Runs
      /\ idle \in Idles /\ client \in Clients /\ queue \in Seq(Operation)
  BY DEF IndInv, TypeOK, Execs, Timers, Cycles, Runs, Idles, Clients
<1>b. TimerInv /\ StartInv /\ RunInv
  BY DEF IndInv
<1>1. CASE BeginStart
  BY <1>a, <1>b, <1>1 DEF BeginStart, CanPublish, StopRuntimeNow, NoTimer, TimerInv,
     TimerIsCurrent, NoOldRunUnderTimer, ClaimInv, Starting, CycleAt
<1>2. CASE BeginStop
  BY <1>a, <1>b, <1>2 DEF BeginStop, StopRuntimeNow, NoTimer, TimerInv, TimerIsCurrent,
     NoOldRunUnderTimer, ClaimInv
<1>3. CASE StopDone
  BY <1>a, <1>b, <1>3 DEF StopDone, TimerInv, TimerIsCurrent, NoOldRunUnderTimer, ClaimInv,
     Starting, CycleAt, CanPublish
<1>4. CASE Drained
  BY <1>a, <1>b, <1>4 DEF Drained, Starting, Activity, TimerInv, TimerIsCurrent,
     NoOldRunUnderTimer, ClaimInv, CycleAt
<1>5. CASE DrainTimesOut
  BY <1>a, <1>b, <1>5 DEF DrainTimesOut, TimerInv, TimerIsCurrent, NoOldRunUnderTimer,
     ClaimInv
<1>6. CASE StartDropped
  BY <1>a, <1>b, <1>6 DEF StartDropped, TimerInv, TimerIsCurrent, NoOldRunUnderTimer,
     ClaimInv, Starting, CycleAt, CanPublish
<1>7. CASE StartLoads
  BY <1>a, <1>b, <1>7 DEF StartLoads, TimerInv, TimerIsCurrent, NoOldRunUnderTimer, ClaimInv
<1>8. CASE StartBlocked
  BY <1>a, <1>b, <1>8 DEF StartBlocked, RetryLater, CanPublish, TimerInv, TimerIsCurrent,
     NoOldRunUnderTimer, ClaimInv, CycleAt, NoTimer
<1>9. CASE StartReady
  BY <1>a, <1>b, <1>9 DEF StartReady, Starting, ScheduleNext, CanPublish, NoTimer, GotoExec,
     TimerInv, TimerIsCurrent, NoOldRunUnderTimer, ClaimInv
<1>10. CASE StartNeedsSetup
  BY <1>a, <1>b, <1>10 DEF StartNeedsSetup, Starting, TimerInv, TimerIsCurrent,
     NoOldRunUnderTimer, ClaimInv, StartInv, Activity, CycleAt
<1>11. CASE StartDisables
  BY <1>a, <1>b, <1>11 DEF StartDisables, Starting, TimerInv, TimerIsCurrent,
     NoOldRunUnderTimer, ClaimInv, StartInv, Activity, CycleAt
<1>12. CASE StartNeedsNone
  BY <1>a, <1>b, <1>12 DEF StartNeedsNone, Starting, ScheduleNext, CanPublish, NoTimer,
     GotoExec, TimerInv, TimerIsCurrent, NoOldRunUnderTimer, ClaimInv
<1>13. CASE StartDisableFails
  BY <1>a, <1>b, <1>13 DEF StartDisableFails, Starting, TimerInv, TimerIsCurrent,
     NoOldRunUnderTimer, ClaimInv, StartInv, Activity, CycleAt
<1>14. CASE StartArms
  BY <1>a, <1>b, <1>14 DEF StartArms, Starting, ArmTimer, CanPublish, TimerInv,
     TimerIsCurrent, NoOldRunUnderTimer, ClaimInv, StartInv, RunInv, Activity, CycleAt,
     NoTimer
<1>15. CASE CycleRunEnds
  BY <1>a, <1>b, <1>15 DEF CycleRunEnds, CycleAt, lifecycle, control, TimerInv,
     TimerIsCurrent, NoOldRunUnderTimer, ClaimInv, StartInv, Activity, Starting, NoCycle
<1>16. CASE CycleStale
  BY <1>a, <1>b, <1>16 DEF CycleStale, CycleCurrent, CanPublish, lifecycle, control, TimerInv,
     TimerIsCurrent, NoOldRunUnderTimer, ClaimInv, Starting
<1>17. CASE CycleLoads
  BY <1>a, <1>b, <1>17 DEF CycleLoads, CycleAt, CanPublish, lifecycle, control, TimerInv,
     TimerIsCurrent, NoOldRunUnderTimer, ClaimInv, Starting, NoCycle
<1>18. CASE CycleBlocked
  BY <1>a, <1>b, <1>18 DEF CycleBlocked, CycleCurrent, CanPublish, RetryLater, lifecycle,
     control, TimerInv, TimerIsCurrent, NoOldRunUnderTimer, ClaimInv, NoTimer
<1>19. CASE CycleReschedules
  BY <1>a, <1>b, <1>19 DEF CycleReschedules, CycleAt, CycleCurrent, CanPublish, ScheduleNext,
     NoTimer, lifecycle, control, TimerInv, TimerIsCurrent, NoOldRunUnderTimer, ClaimInv
<1>20. CASE CycleEnds
  BY <1>a, <1>b, <1>20 DEF CycleEnds, lifecycle, control, TimerInv, TimerIsCurrent,
     NoOldRunUnderTimer, ClaimInv
<1>21. CASE CycleNeedsSetup
  BY <1>a, <1>b, <1>21 DEF CycleNeedsSetup, CycleAt, CanPublish, lifecycle, control, TimerInv,
     TimerIsCurrent, NoOldRunUnderTimer, ClaimInv, Starting, NoCycle
<1>22. CASE CycleDisables
  BY <1>a, <1>b, <1>22 DEF CycleDisables, CycleAt, CanPublish, lifecycle, control, TimerInv,
     TimerIsCurrent, NoOldRunUnderTimer, ClaimInv, Starting, NoCycle
<1>23. CASE CycleNeedsNone
  BY <1>a, <1>b, <1>23 DEF CycleNeedsNone, CycleAt, CycleCurrent, CanPublish, ScheduleNext,
     NoTimer, lifecycle, control, TimerInv, TimerIsCurrent, NoOldRunUnderTimer, ClaimInv
<1>24. CASE CycleDisableFails
  BY <1>a, <1>b, <1>24 DEF CycleDisableFails, TimerInv, TimerIsCurrent, NoOldRunUnderTimer,
     ClaimInv
<1>25. CASE CycleArms
  BY <1>a, <1>b, <1>25 DEF CycleArms, CycleAt, ArmTimer, CanPublish, lifecycle, control,
     TimerInv, TimerIsCurrent, NoOldRunUnderTimer, ClaimInv, RunInv, Starting, NoTimer
<1>26. CASE RunDisables
  BY <1>a, <1>b, <1>26 DEF RunDisables, CanPublish, lifecycle, control, TimerInv,
     TimerIsCurrent, NoOldRunUnderTimer, ClaimInv, Runs, Starting, CycleAt, NoCycle
<1>27. CASE RunStops
  BY <1>a, <1>b, <1>27 DEF RunStops, StopsRuntime, CanPublish, NoTimer, control, TimerInv,
     TimerIsCurrent, NoOldRunUnderTimer, ClaimInv, Starting, CycleAt, NoCycle
<1>28. CASE RunDisableFails
  BY <1>a, <1>b, <1>28 DEF RunDisableFails, control, TimerInv, TimerIsCurrent,
     NoOldRunUnderTimer, ClaimInv, NoCycle
<1>29. CASE TickFires
  BY <1>a, <1>b, <1>29 DEF TickFires, NoTimer, TimerInv, TimerIsCurrent, NoOldRunUnderTimer,
     ClaimInv
<1>30. CASE RetryFires
  BY <1>a, <1>b, <1>30 DEF RetryFires, NoTimer, TimerInv, TimerIsCurrent, NoOldRunUnderTimer,
     ClaimInv
<1>31. CASE ManualEnds
  BY <1>a, <1>b, <1>31 DEF ManualEnds, control, TimerInv, TimerIsCurrent, NoOldRunUnderTimer,
     ClaimInv, Starting, CycleAt, CanPublish
<1>32. CASE IdleRestart
  BY <1>a, <1>b, <1>32 DEF IdleRestart, CanPublish, TimerInv, TimerIsCurrent,
     NoOldRunUnderTimer, ClaimInv, Starting, CycleAt
<1>33. CASE Restart
  BY <1>a, <1>b, <1>33 DEF Restart, TimerInv, TimerIsCurrent, NoOldRunUnderTimer, ClaimInv,
     Starting, CycleAt, CanPublish
<1>34. CASE ClientSaves
  BY <1>a, <1>b, <1>34 DEF ClientSaves, TimerInv, TimerIsCurrent, NoOldRunUnderTimer,
     ClaimInv, Starting, CycleAt, CanPublish
<1>35. CASE ManualRun
  BY <1>a, <1>b, <1>35 DEF ManualRun, NoExec, Activity, lifecycle, control, TimerInv,
     TimerIsCurrent, NoOldRunUnderTimer, ClaimInv, Starting, CycleAt
<1>36. CASE ClientStops
  BY <1>a, <1>b, <1>36 DEF ClientStops, AskStop, StopRuntimeNow, NoTimer, TimerInv,
     TimerIsCurrent, NoOldRunUnderTimer, ClaimInv
<1>37. CASE ClientTimesOut
  BY <1>a, <1>b, <1>37 DEF ClientTimesOut, TimerInv, TimerIsCurrent, NoOldRunUnderTimer,
     ClaimInv, Starting, CycleAt, CanPublish
<1>38. CASE ClientAborts
  BY <1>a, <1>b, <1>38 DEF ClientAborts, TimerInv, TimerIsCurrent, NoOldRunUnderTimer,
     ClaimInv, Starting, CycleAt, CanPublish
<1>39. CASE Shutdown
  BY <1>a, <1>b, <1>39 DEF Shutdown, AskStop, StopRuntimeNow, NoTimer, TimerInv,
     TimerIsCurrent, NoOldRunUnderTimer, ClaimInv
<1>40. CASE UNCHANGED vars
  BY <1>b, <1>40 DEF vars, TimerInv, TimerIsCurrent, NoOldRunUnderTimer, ClaimInv, Starting,
     CycleAt, CanPublish, Stops
<1>41. CASE StartStaysOn
  BY <1>a, <1>b, <1>41 DEF StartStaysOn, Starting, TimerInv, TimerIsCurrent,
     NoOldRunUnderTimer, ClaimInv, StartInv, Activity, CycleAt
<1>42. CASE StartStillNeedsSetup
  BY <1>a, <1>b, <1>42 DEF StartStillNeedsSetup, Starting, TimerInv, TimerIsCurrent,
     NoOldRunUnderTimer, ClaimInv, StartInv, Activity, CycleAt
<1>43. CASE CycleStops
  BY <1>a, <1>b, <1>43 DEF CycleStops, control, TimerInv, TimerIsCurrent, NoOldRunUnderTimer,
     ClaimInv
<1>44. CASE ClientSaveFails
  BY <1>a, <1>b, <1>44 DEF ClientSaveFails, TimerInv, TimerIsCurrent, NoOldRunUnderTimer,
     ClaimInv, Starting, CycleAt, CanPublish
<1>45. CASE ClientRestops
  BY <1>a, <1>b, <1>45 DEF ClientRestops, AskStop, StopRuntimeNow, NoTimer, TimerInv,
     TimerIsCurrent, NoOldRunUnderTimer, ClaimInv
<1>46. CASE ClientStarts
  BY <1>a, <1>b, <1>46 DEF ClientStarts, TimerInv, TimerIsCurrent, NoOldRunUnderTimer,
     ClaimInv, Starting, CycleAt, CanPublish
<1>47. CASE ClientNeedsSetup
  BY <1>a, <1>b, <1>47 DEF ClientNeedsSetup, AskStop, StopRuntimeNow, NoTimer, TimerInv,
     TimerIsCurrent, NoOldRunUnderTimer, ClaimInv
<1> QED
  BY <1>1, <1>2, <1>3, <1>4, <1>5, <1>6, <1>7, <1>8, <1>9, <1>10, <1>11, <1>12, <1>13, <1>14,
     <1>15, <1>16, <1>17, <1>18, <1>19, <1>20, <1>21, <1>22, <1>23, <1>24, <1>25, <1>26,
     <1>27, <1>28, <1>29, <1>30, <1>31, <1>32, <1>33, <1>34, <1>35, <1>36, <1>37, <1>38,
     <1>39, <1>40, <1>41, <1>42, <1>43, <1>44, <1>45, <1>46, <1>47
     DEF Next, QueueStep, StartStep, CycleStep, RunStep, TimerFires, ClientStep, UserStep

\* A stop keeps what it cleared.
LEMMA StopInvStep == IndInv /\ [Next]_vars => StopInv'
<1> SUFFICES ASSUME IndInv, [Next]_vars PROVE StopInv'
  OBVIOUS
<1>a. /\ gen \in Nat /\ terminal \in BOOLEAN /\ enabled \in BOOLEAN /\ timerActive \in BOOLEAN
      /\ exec \in Execs /\ timer \in Timers /\ cycle \in Cycles /\ manual \in Runs
      /\ idle \in Idles /\ client \in Clients /\ queue \in Seq(Operation)
  BY DEF IndInv, TypeOK, Execs, Timers, Cycles, Runs, Idles, Clients
<1>b. StopInv /\ StartInv /\ RunInv /\ TimerInv
  BY DEF IndInv
<1>q. /\ \A b \in {"client", "save", "other"} : Stops(Append(queue, Op("start", b))) = Stops(queue)
      /\ queue # <<>> => /\ Head(queue).kind = "stop" => Stops(queue) # {}
                         /\ Stops(Tail(queue)) # {} => Stops(queue) # {}
  <2>1. \A b \in {"client", "save", "other"} : Op("start", b) \in Operation /\ Op("start", b).kind # "stop"
    BY <1>a DEF Op, Operation
  <2>2. IsFiniteSet(Stops(queue))
    BY DEF IndInv, CountInv
  <2> QED
    BY <1>a, <2>1, <2>2, AppendTypes, TailTypes
<1>1. CASE BeginStart
  BY <1>a, <1>b, <1>q, <1>1 DEF BeginStart, StopRuntimeNow, StopInv, CycleOver, RunInv
<1>2. CASE BeginStop
  BY <1>a, <1>b, <1>q, <1>2 DEF BeginStop, StopRuntimeNow, StopInv, CycleOver
<1>3. CASE StopDone
  BY <1>a, <1>b, <1>3 DEF StopDone, StopInv, CycleOver
<1>4. CASE Drained
  BY <1>a, <1>b, <1>4 DEF Drained, StopInv, CycleOver
<1>5. CASE DrainTimesOut
  BY <1>a, <1>b, <1>5 DEF DrainTimesOut, EndExec, NoExec, StopInv, CycleOver
<1>6. CASE StartDropped
  BY <1>a, <1>b, <1>6 DEF StartDropped, EndExec, NoExec, StopInv, CycleOver
<1>7. CASE StartLoads
  BY <1>a, <1>b, <1>7 DEF StartLoads, Starting, GotoExec, EndExec, NoExec, StopInv, CycleOver,
     Execs
<1>8. CASE StartBlocked
  BY <1>a, <1>b, <1>8 DEF StartBlocked, EndExec, NoExec, StopInv, CycleOver
<1>9. CASE StartReady
  BY <1>a, <1>b, <1>9 DEF StartReady, Starting, GotoExec, StopInv, CycleOver
<1>10. CASE StartNeedsSetup
  BY <1>a, <1>b, <1>10 DEF StartNeedsSetup, GotoExec, StopInv, CycleOver
<1>11. CASE StartDisables
  BY <1>a, <1>b, <1>11 DEF StartDisables, EndExec, NoExec, StopInv, CycleOver
<1>12. CASE StartNeedsNone
  BY <1>a, <1>b, <1>12 DEF StartNeedsNone, Starting, GotoExec, StopInv, CycleOver
<1>13. CASE StartDisableFails
  BY <1>a, <1>b, <1>13 DEF StartDisableFails, EndExec, NoExec, StopInv, CycleOver
<1>14. CASE StartArms
  BY <1>a, <1>b, <1>14 DEF StartArms, EndExec, NoExec, StopInv, CycleOver
<1>15. CASE CycleRunEnds
  BY <1>a, <1>b, <1>15 DEF CycleRunEnds, CycleAt, lifecycle, control, StopInv, CycleOver
<1>16. CASE CycleStale
  BY <1>a, <1>b, <1>16 DEF CycleStale, NoCycle, lifecycle, control, StopInv, CycleOver
<1>17. CASE CycleLoads
  BY <1>a, <1>b, <1>17 DEF CycleLoads, CycleAt, lifecycle, control, StopInv, CycleOver
<1>18. CASE CycleBlocked
  BY <1>a, <1>b, <1>18 DEF CycleBlocked, CycleCurrent, CanPublish, lifecycle, control,
     StopInv, CycleOver
<1>19. CASE CycleReschedules
  BY <1>a, <1>b, <1>19 DEF CycleReschedules, CycleAt, CycleCurrent, CanPublish, lifecycle,
     control, StopInv, CycleOver
<1>20. CASE CycleEnds
  BY <1>a, <1>b, <1>20 DEF CycleEnds, CycleAt, CycleCurrent, CanPublish, lifecycle, control,
     StopInv, CycleOver
<1>21. CASE CycleNeedsSetup
  BY <1>a, <1>b, <1>21 DEF CycleNeedsSetup, CycleAt, lifecycle, control, StopInv, CycleOver
<1>22. CASE CycleDisables
  BY <1>a, <1>b, <1>22 DEF CycleDisables, CycleAt, lifecycle, control, StopInv, CycleOver
<1>23. CASE CycleNeedsNone
  BY <1>a, <1>b, <1>23 DEF CycleNeedsNone, CycleAt, CycleCurrent, CanPublish, lifecycle,
     control, StopInv, CycleOver
<1>24. CASE CycleDisableFails
  BY <1>a, <1>b, <1>24 DEF CycleDisableFails, CycleAt, CycleCurrent, CanPublish, StopInv,
     CycleOver
<1>25. CASE CycleArms
  BY <1>a, <1>b, <1>25 DEF CycleArms, CycleAt, ArmTimer, CanPublish, NoCycle, lifecycle,
     control, StopInv, CycleOver
<1>26. CASE RunDisables
  BY <1>a, <1>b, <1>26 DEF RunDisables, CanPublish, lifecycle, control, StopInv, CycleOver
<1>27. CASE RunStops
  BY <1>a, <1>b, <1>27 DEF RunStops, StopsRuntime, control, StopInv, CycleOver, Cycles
<1>28. CASE RunDisableFails
  BY <1>a, <1>b, <1>28 DEF RunDisableFails, CanPublish, control, StopInv, CycleOver
<1>29. CASE TickFires
  <2>1. timer # NoTimer
    BY <1>29 DEF TickFires, NoTimer
  <2>2. exec.kind = "none" /\ exec = NoExec
    BY <1>a, <1>b, <2>1 DEF StartInv, StopInv, RunInv, Execs
  <2>3. queue = <<>> /\ queue' = queue /\ exec' = exec
    BY <1>29, <2>2 DEF TickFires, Settled
  <2>4. Stops(queue') = {}
    BY <2>3 DEF Stops
  <2> QED
    BY <2>2, <2>3, <2>4 DEF StopInv
<1>30. CASE RetryFires
  BY <1>a, <1>b, <1>q, <1>30 DEF RetryFires, StopInv, CycleOver
<1>31. CASE ManualEnds
  BY <1>a, <1>b, <1>31 DEF ManualEnds, control, StopInv, CycleOver
<1>32. CASE IdleRestart
  BY <1>a, <1>b, <1>32 DEF IdleRestart, Activity, StopInv, CycleOver
<1>33. CASE Restart
  BY <1>a, <1>b, <1>33 DEF Restart, Activity, StopInv, CycleOver
<1>34. CASE ClientSaves
  BY <1>a, <1>b, <1>q, <1>34 DEF ClientSaves, StopInv, CycleOver
<1>35. CASE ManualRun
  BY <1>a, <1>b, <1>35 DEF ManualRun, lifecycle, control, StopInv, CycleOver
<1>36. CASE ClientStops
  BY <1>a, <1>b, <1>36 DEF ClientStops, AskStop, StopRuntimeNow, StopInv, CycleOver, RunInv
<1>37. CASE ClientTimesOut
  BY <1>a, <1>b, <1>37 DEF ClientTimesOut, StopInv, CycleOver
<1>38. CASE ClientAborts
  BY <1>a, <1>b, <1>38 DEF ClientAborts, Settled, AbortOps, StopInv, CycleOver, StartInv,
     RunInv, Execs
<1>39. CASE Shutdown
  BY <1>a, <1>b, <1>39 DEF Shutdown, AskStop, StopRuntimeNow, StopInv, CycleOver, RunInv
<1>40. CASE UNCHANGED vars
  BY <1>b, <1>40 DEF vars, StopInv, CycleOver
<1>41. CASE StartStaysOn
  BY <1>a, <1>b, <1>41 DEF StartStaysOn, Starting, GotoExec, StopInv, CycleOver
<1>42. CASE StartStillNeedsSetup
  BY <1>a, <1>b, <1>42 DEF StartStillNeedsSetup, EndExec, NoExec, StopInv, CycleOver
<1>43. CASE CycleStops
  BY <1>a, <1>b, <1>43 DEF CycleStops, CycleAt, CycleCurrent, CanPublish, control, StopInv,
     CycleOver
<1>44. CASE ClientSaveFails
  BY <1>a, <1>b, <1>44 DEF ClientSaveFails, StopInv, CycleOver
<1>45. CASE ClientRestops
  BY <1>a, <1>b, <1>45 DEF ClientRestops, AskStop, StopRuntimeNow, StopInv, CycleOver, RunInv
<1>46. CASE ClientStarts
  BY <1>a, <1>b, <1>q, <1>46 DEF ClientStarts, StopInv, CycleOver
<1>47. CASE ClientNeedsSetup
  BY <1>a, <1>b, <1>47 DEF ClientNeedsSetup, AskStop, StopRuntimeNow, StopInv, CycleOver, RunInv
<1> QED
  BY <1>1, <1>2, <1>3, <1>4, <1>5, <1>6, <1>7, <1>8, <1>9, <1>10, <1>11, <1>12, <1>13, <1>14,
     <1>15, <1>16, <1>17, <1>18, <1>19, <1>20, <1>21, <1>22, <1>23, <1>24, <1>25, <1>26,
     <1>27, <1>28, <1>29, <1>30, <1>31, <1>32, <1>33, <1>34, <1>35, <1>36, <1>37, <1>38,
     <1>39, <1>40, <1>41, <1>42, <1>43, <1>44, <1>45, <1>46, <1>47
     DEF Next, QueueStep, StartStep, CycleStep, RunStep, TimerFires, ClientStep, UserStep

LEMMA InitInv == Init => IndInv
<1> SUFFICES ASSUME Init PROVE IndInv
  OBVIOUS
<1> DEFINE op == [kind |-> "start", gen |-> 0, by |-> "other", aborted |-> FALSE]
<1>1. queue = <<op>> /\ op \in Operation /\ op.kind = "start"
  BY DEF Init, Operation
<1>2. queue \in Seq(Operation)
  BY <1>1
<1>3. Stops(queue) = {}
  <2> HIDE DEF op
  <2> QED
    BY <1>1 DEF Stops
<1>4. TypeOK
  <2>1. /\ terminal \in BOOLEAN /\ enabled \in BOOLEAN /\ timerActive \in BOOLEAN
        /\ on \in BOOLEAN /\ gaveUp \in BOOLEAN
    BY DEF Init
  <2>4. /\ gen \in Nat /\ stopReqs \in Nat /\ recover \in Nat
        /\ users \in 0..MaxUser /\ faults \in 0..MaxFault
    BY BoundsAssumption DEF Init
  <2>2. exec \in Execs /\ timer \in Timers /\ cycle \in Cycles
    BY DEF Init, NoExec, NoTimer, NoCycle, Execs, Timers, Cycles
  <2>3. manual \in Runs /\ idle \in Idles /\ client \in Clients
    BY DEF Init, NoRun, NoIdle, NoClient, Runs, Idles, Clients
  <2> QED
    BY <1>2, <2>1, <2>2, <2>3, <2>4 DEF TypeOK, Execs, Timers, Cycles, Runs, Idles, Clients
<1>5. CountInv
  BY <1>3, FS_EmptySet DEF CountInv, Init, NoExec
<1>6. RunInv /\ StartInv /\ StopInv /\ TimerInv
  BY DEF Init, RunInv, OneRun, StartInv, StopInv, CycleOver, TimerInv, TimerIsCurrent,
     NoOldRunUnderTimer, ClaimInv, NoExec, NoCycle
<1> QED
  BY <1>4, <1>5, <1>6 DEF IndInv

\* The lifecycle keeps its invariant, whatever is asked for and whatever fails.
THEOREM LifecycleInvariance == Spec => []IndInv
<1>1. IndInv /\ [Next]_vars => IndInv'
  BY TypeStep, CountStep, RunInvStep, StartInvStep, StopInvStep, TimerInvStep DEF IndInv
<1> QED
  BY InitInv, <1>1, PTL DEF Spec

\* A run started by hand and the run of a timer cycle never overlap
\* (activeRunLease, schedulerWorkConflict).
THEOREM RunsDoNotOverlap == Spec => []OneRun
<1>1. IndInv => OneRun
  BY DEF IndInv, RunInv
<1> QED
  BY <1>1, LifecycleInvariance, PTL

\* A pending timer is of the current generation, has no cycle or older run under
\* it, and the status claims a timer only where there is one to come.
THEOREM TimerIsSound == Spec => []TimerSound
<1>1. IndInv => TimerSound
  BY DEF IndInv, TimerInv, ClaimInv, TimerSound, TimerActiveIsTrue
<1> QED
  BY <1>1, LifecycleInvariance, PTL

\* A stop that completes leaves nothing scheduled.
THEOREM StopsLeaveNothing == Spec => StopLeavesNothing
<1>1. IndInv /\ [Next]_vars => [StopDone => timer' = NoTimer /\ ~enabled' /\ ~timerActive']_vars
  BY DEF IndInv, StopInv, StopDone
<1> QED
  BY <1>1, LifecycleInvariance, PTL DEF Spec, StopLeavesNothing
=============================================================================
