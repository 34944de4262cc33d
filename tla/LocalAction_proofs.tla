-------------------------- MODULE LocalAction_proofs --------------------------
(***************************************************************************)
(* Proofs about the local actions, for any number of requests, ids and     *)
(* faults, any concurrency and any queue: the lane is never overfull, and   *)
(* an id is carried out once and remembered.                               *)
(***************************************************************************)
EXTENDS LocalAction, FiniteSetTheorems, FunctionTheorems, SequenceTheorems, TLAPS

Known == {"committed", "settled", "unknown"}
Rest  == {"idle", "over"}
\* The phases of a route whose record has been saved.
Saved == {"prepared", "queued", "slot", "running", "killing", "committed", "failing"}

\* Those whose helper has acted or still may, and that the service has not
\* been done with.
Acts(r) == (r \in marked \/ Live(r)) /\ r \notin givenUp
Good == marked \ givenUp

\* The queue holds requests that wait, once each.
QueueInv ==
  /\ \A i \in DOMAIN queue : phase[queue[i]] = "queued"
  /\ \A i, j \in DOMAIN queue : queue[i] = queue[j] => i = j

\* Who occupies a place of the lane, and who lives.
Working == {r \in Request : phase[r] \in {"slot", "running", "killing"}}
LivesInv == \A r \in attached : Live(r) => phase[r] \in {"running", "killing"} \/ r \in quar
LaneInv ==
  /\ IsFiniteSet(Working) /\ Cardinality(Working) <= active
  /\ IsFiniteSet(quar) /\ active + Cardinality(quar) <= Concurrency
  /\ LivesInv

\* How far a route has come says what its helper and its record can be.
RouteLife ==
  /\ \A r \in Request : helper[r] # "none" =>
       phase[r] \in {"running", "killing", "committed", "failing", "over"}
  /\ \A r \in marked \cup attached : helper[r] # "none"
  /\ file \subseteq marked
  /\ ~up => attached = {} /\ \A r \in Request : phase[r] \in Rest
  /\ \A r \in Request :
       phase[r] = "committed" \/ seen[r] # "no" \/ state[r] \in Known => r \in marked

\* Records stand under their own id, and those of `done` alone say so.
Keyed(m) == \A a \in Action : m[a] # NoRequest => ActionOf[m[a]] = a
Records(d, done) ==
  \A a \in Action : /\ d[a].of # NoRequest => ActionOf[d[a].of] = a
                    /\ d[a].state \in Known => d[a].of \in done

LifeInv == RouteLife /\ Keyed(mem) /\ Records(disk, marked)

\* One route at a time has an id, and when it has begun, whoever acts
\* under that id is given up.
AloneInv ==
  /\ \A r, s \in Request : r # s /\ ActionOf[r] = ActionOf[s] =>
       /\ phase[r] \notin Rest => phase[s] \in Rest /\ ~Acts(s)
       /\ Acts(r) => ~Acts(s)

\* What is recorded under the id of r: r itself, or what is known to have been done.
InMem(r) ==
  LET m == mem[ActionOf[r]] IN m # NoRequest /\ (m = r \/ state[m] \in Known)
OnDisk(r) ==
  LET d == disk[ActionOf[r]] IN d.of # NoRequest /\ (d.of = r \/ d.state \in Known)
KnownInMem(r) ==
  LET m == mem[ActionOf[r]] IN m # NoRequest /\ state[m] \in Known
KnownOnDisk(r) == disk[ActionOf[r]].of # NoRequest /\ disk[ActionOf[r]].state \in Known

\* A route has its record, and so has every helper that may still act.
RecordInv ==
  \A r \in Request : phase[r] \in Saved \/ Acts(r) =>
     /\ up => InMem(r)
     /\ OnDisk(r)

\* What has been done is told by the commit file or by the record, and the
\* record tells it once the route is over.
DoneInv ==
  /\ \A r \in Good : r \notin file => KnownOnDisk(r) /\ (phase[r] # "over" => Committed(r))
  /\ \A r \in Request : seen[r] = "saved" /\ phase[r] # "over" => Committed(r)
  /\ \A r \in Good : seen[r] = "saved" /\ phase[r] # "over" => KnownOnDisk(r)
  /\ up => \A r \in Good : phase[r] = "over" => KnownInMem(r)
  /\ up => \A r \in Request : phase[r] = "over" /\ Live(r) => r \in marked \cup givenUp

\* What was answered.
AnswerInv ==
  \A r \in Request :
     /\ answer[r] = "done" => r \in marked
     /\ answer[r] = "failed" => phase[r] = "over" /\ ~Acts(r)

IndInv == TypeOK /\ QueueInv /\ LaneInv /\ LifeInv /\ AloneInv /\ RecordInv /\ DoneInv /\ AnswerInv
-----------------------------------------------------------------------------
(* What the steps do                                                       *)

\* The route of r goes on in one of the phases of P; a free place of the lane may
\* be taken by those that wait.
Step(r, P) ==
  /\ phase' \in [Request -> Phases] /\ phase'[r] \in P
  /\ \A x \in Request \ {r} :
       phase'[x] = phase[x] \/ (phase[x] = "queued" /\ phase'[x] = "slot")

\* Routes that wait or fail before they have a helper change places.
Waiting == {"prepared", "queued", "slot", "failing"}
Shuffle ==
  /\ phase' \in [Request -> Phases]
  /\ \A x \in Request : phase'[x] = phase[x] \/ (phase[x] \in Waiting \ {"failing"} /\ phase'[x] \in Waiting)
  /\ UNCHANGED <<up, answer, helper, marked, attached, seen, file, state, mem, disk, givenUp>>

\* What the lane keeps when its places and its queue change.
Kept ==
  /\ active' \in Nat /\ quar' \subseteq Request
  /\ queue' \in Seq(Request) /\ Len(queue') <= QueueLimit /\ QueueInv'
  /\ IsFiniteSet(Working') /\ Cardinality(Working') <= active'
  /\ IsFiniteSet(quar') /\ active' + Cardinality(quar') <= Concurrency

In(p) == {r \in Request : p[r] \in {"slot", "running", "killing"}}

\* The drain of a lane (Drained).
LEMMA DrainKeeps ==
  ASSUME TypeOK, QueueInv, NEW a \in Nat, NEW q \in SUBSET Request,
         NEW p \in [Request -> Phases], \A i \in DOMAIN queue : p[queue[i]] = "queued",
         IsFiniteSet(In(p)), Cardinality(In(p)) <= a,
         IsFiniteSet(q), a + Cardinality(q) <= Concurrency,
         Drained(a, q, p)
  PROVE  /\ Kept /\ quar' = q
         /\ phase' \in [Request -> Phases]
         /\ \A x \in Request : phase'[x] = p[x] \/ (p[x] = "queued" /\ phase'[x] = "slot")
<1> DEFINE free == Concurrency - a - Cardinality(q)
           n == IF closed \/ a + Cardinality(q) >= Concurrency THEN 0
                ELSE IF free < Len(queue) THEN free ELSE Len(queue)
           taken == {queue[i] : i \in 1..n}
<1>1. /\ active' = a + n /\ quar' = q /\ queue' = SubSeq(queue, n + 1, Len(queue))
      /\ phase' = [r \in Request |-> IF r \in taken THEN "slot" ELSE p[r]]
  BY DEF Drained
<1>2. queue \in Seq(Request) /\ Len(queue) \in Nat /\ Len(queue) <= QueueLimit /\ DOMAIN queue = 1..Len(queue)
  BY DEF TypeOK
<1>3. Concurrency \in Nat /\ QueueLimit \in Nat /\ Cardinality(q) \in Nat
  BY LocalActionAssumption, FS_CardinalityType
<1>4. n \in 0..Len(queue) /\ a + n + Cardinality(q) <= Concurrency
  BY <1>3
<1> HIDE DEF n
<1>5. taken \subseteq Request /\ \A x \in taken : p[x] = "queued"
  BY <1>2, <1>4
<1>6. /\ queue' \in Seq(Request) /\ Len(queue') = Len(queue) - n
      /\ \A i \in 1..Len(queue') : queue'[i] = queue[n + i]
  <2> DEFINE m == n + 1
             z == Len(queue)
  <2>1. m \in Int /\ z \in Int /\ \A i \in m..z : queue[i] \in Request
    BY <1>2, <1>4
  <2>2. z \in Nat /\ n \in Nat /\ n <= z
    BY <1>4
  <2>5. z - m + 1 = z - n /\ (m <= z \/ z - n = 0)
    BY <2>2
  <2>3. \A i \in 1..(z - n) : m + i - 1 = n + i
    BY <1>4
  <2> HIDE DEF m, z
  <2>4. /\ SubSeq(queue, m, z) \in Seq(Request)
        /\ Len(SubSeq(queue, m, z)) = IF m <= z THEN z - m + 1 ELSE 0
        /\ \A i \in 1..(z - m + 1) : SubSeq(queue, m, z)[i] = queue[m + i - 1]
    BY <2>1
  <2> QED
    BY <1>1, <2>3, <2>4, <2>5 DEF m, z
<1>7. DOMAIN queue' = 1..Len(queue')
  OBVIOUS
<1>8. /\ phase' \in [Request -> Phases]
      /\ \A x \in Request : phase'[x] = IF x \in taken THEN "slot" ELSE p[x]
  BY <1>1 DEF Phases
<1>9. QueueInv'
  <2>1. \A i \in 1..Len(queue') : n + i \in DOMAIN queue /\ queue'[i] = queue[n + i]
    BY <1>4, <1>6
  <2>2. \A i \in 1..Len(queue') : queue'[i] \in Request /\ queue'[i] \notin taken
    <3> SUFFICES ASSUME NEW i \in 1..Len(queue'), NEW j \in 1..n, queue'[i] = queue[j]
                 PROVE  FALSE
      BY <1>6
    <3>1. n + i \in DOMAIN queue /\ j \in DOMAIN queue /\ queue[n + i] = queue[j]
      BY <1>4, <2>1
    <3>2. n + i = j
      BY <3>1 DEF QueueInv
    <3> QED
      BY <1>4, <3>2
  <2>3. \A i \in 1..Len(queue') : phase'[queue'[i]] = "queued"
    BY <1>8, <2>1, <2>2
  <2>4. \A i, j \in 1..Len(queue') : queue'[i] = queue'[j] => i = j
    <3> SUFFICES ASSUME NEW i \in 1..Len(queue'), NEW j \in 1..Len(queue'),
                        queue[n + i] = queue[n + j]
                 PROVE  i = j
      BY <2>1
    <3>1. n + i = n + j
      BY <2>1 DEF QueueInv
    <3> QED
      BY <1>4, <3>1
  <2> QED
    BY <1>7, <2>3, <2>4 DEF QueueInv
<1>10. IsFiniteSet(taken) /\ Cardinality(taken) <= n
  <2> DEFINE f == [i \in 1..n |-> queue[i]]
  <2>1. f \in Surjection(1..n, taken)
    BY Fun_IsSurj
  <2>2. IsFiniteSet(1..n) /\ Cardinality(1..n) = n
    BY <1>4, FS_Interval
  <2> QED
    BY <2>1, <2>2, FS_Surjection
<1>11. Working' = In(p) \cup taken
  BY <1>5, <1>8 DEF Working, In
<1>12. IsFiniteSet(Working') /\ Cardinality(Working') <= a + n
  <2>1. /\ IsFiniteSet(In(p) \cup taken)
        /\ Cardinality(In(p) \cup taken)
             = Cardinality(In(p)) + Cardinality(taken) - Cardinality(In(p) \cap taken)
    BY <1>10, FS_Union
  <2>2. IsFiniteSet(In(p) \cap taken)
    BY FS_Intersection
  <2>3. /\ Cardinality(In(p)) \in Nat /\ Cardinality(taken) \in Nat
        /\ Cardinality(In(p) \cap taken) \in Nat
    BY <1>10, <2>2, FS_CardinalityType
  <2> QED
    BY <1>4, <1>10, <1>11, <2>1, <2>3
<1>13. active' \in Nat /\ active' + Cardinality(quar') <= Concurrency
  BY <1>1, <1>4
<1>14. Len(queue') <= QueueLimit
  BY <1>2, <1>3, <1>4, <1>6
<1>15. Kept
  BY <1>1, <1>6, <1>9, <1>12, <1>13, <1>14 DEF Kept
<1>16. \A x \in Request : phase'[x] = p[x] \/ (p[x] = "queued" /\ phase'[x] = "slot")
  BY <1>5, <1>8
<1> QED
  BY <1>1, <1>8, <1>15, <1>16

\* A lane whose places stay as they are keeps its counts.
LEMMA StayKeeps ==
  ASSUME TypeOK, LaneInv, QueueInv', UNCHANGED lane, Working' \subseteq Working
  PROVE  Kept
<1>1. /\ active' = active /\ quar' = quar /\ queue' = queue
      /\ IsFiniteSet(Working) /\ Cardinality(Working) <= active
  BY DEF lane, LaneInv
<1>2. active \in Nat
  BY DEF TypeOK
<1> DEFINE new == Working'
<1>3. new \subseteq Working
  OBVIOUS
<1> HIDE DEF new
<1>4. IsFiniteSet(new) /\ Cardinality(new) <= Cardinality(Working)
  BY <1>1, <1>3, FS_Subset
<1>5. Cardinality(new) \in Nat /\ Cardinality(Working) \in Nat
  BY <1>1, <1>4, FS_CardinalityType
<1>6. Cardinality(new) <= active
  BY <1>1, <1>2, <1>4, <1>5
<1>7. /\ active' \in Nat /\ quar' \subseteq Request /\ queue' \in Seq(Request)
      /\ Len(queue') <= QueueLimit
      /\ IsFiniteSet(quar') /\ active' + Cardinality(quar') <= Concurrency
  BY <1>1 DEF TypeOK, LaneInv
<1>8. IsFiniteSet(Working') /\ Cardinality(Working') <= active'
  BY <1>1, <1>4, <1>6 DEF new
<1> QED
  BY <1>7, <1>8 DEF Kept

\* A place is given back and the lane drained (releaseLocalActionSlot).
LEMMA ReleaseKeeps ==
  ASSUME TypeOK, QueueInv, LaneInv, NEW r \in Request, NEW x \in {"failing", "committed"},
         phase[r] \in {"slot", "running", "killing"},
         NEW q \in SUBSET Request, IsFiniteSet(q), Cardinality(q) <= Cardinality(quar) + 1,
         Drained(active - 1, q, [phase EXCEPT ![r] = x])
  PROVE  Kept /\ quar' = q /\ Step(r, {x})
<1> DEFINE p == [phase EXCEPT ![r] = x]
<1>1. phase \in [Request -> Phases] /\ active \in Nat /\ quar \subseteq Request
  BY DEF TypeOK
<1>2. /\ p \in [Request -> Phases] /\ p[r] = x
      /\ \A y \in Request \ {r} : p[y] = phase[y]
  BY <1>1 DEF Phases
<1>3. queue \in Seq(Request) /\ \A i \in DOMAIN queue : queue[i] \in Request /\ phase[queue[i]] = "queued"
  BY DEF TypeOK, QueueInv
<1>4. \A i \in DOMAIN queue : p[queue[i]] = "queued"
  BY <1>3
<1> HIDE DEF p
<1>5. In(p) = Working \ {r} /\ r \in Working
  BY <1>2 DEF In, Working
<1>6. IsFiniteSet(Working) /\ Cardinality(Working) <= active
  BY DEF LaneInv
<1>7. IsFiniteSet(In(p)) /\ Cardinality(In(p)) = Cardinality(Working) - 1
  BY <1>5, <1>6, FS_RemoveElement
<1>8. Cardinality(Working) \in Nat /\ Cardinality(In(p)) \in Nat /\ Cardinality(q) \in Nat
      /\ Cardinality(quar) \in Nat /\ Concurrency \in Nat
  BY <1>7, FS_CardinalityType, LocalActionAssumption DEF LaneInv
<1>9. active + Cardinality(quar) <= Concurrency
  BY DEF LaneInv
<1>10. /\ active - 1 \in Nat /\ Cardinality(In(p)) <= active - 1
       /\ (active - 1) + Cardinality(q) <= Concurrency
  BY <1>1, <1>6, <1>7, <1>8, <1>9
<1> DEFINE a == active - 1
<1>11. a \in Nat /\ Cardinality(In(p)) <= a /\ a + Cardinality(q) <= Concurrency
  BY <1>10
<1>12. Drained(a, q, p)
  BY DEF p
<1> HIDE DEF a
<1>13. /\ Kept /\ quar' = q /\ phase' \in [Request -> Phases]
       /\ \A y \in Request : phase'[y] = p[y] \/ (p[y] = "queued" /\ phase'[y] = "slot")
  BY <1>2, <1>4, <1>7, <1>11, <1>12, DrainKeeps
<1> QED
  BY <1>2, <1>13 DEF Step

\* A place that was quarantined is free, and the lane drained.
LEMMA UnquarantineKeeps ==
  ASSUME TypeOK, QueueInv, LaneInv, NEW r \in Request, Unquarantine(r)
  PROVE  Kept /\ quar' = quar \ {r} /\ Shuffle
<1> DEFINE q == quar \ {r}
<1>1. phase \in [Request -> Phases] /\ active \in Nat /\ quar \subseteq Request
      /\ queue \in Seq(Request)
  BY DEF TypeOK
<1>2. \A i \in DOMAIN queue : phase[queue[i]] = "queued"
  BY DEF QueueInv
<1>3. In(phase) = Working
  BY DEF In, Working
<1>4. /\ IsFiniteSet(Working) /\ Cardinality(Working) <= active /\ IsFiniteSet(quar)
      /\ active + Cardinality(quar) <= Concurrency
  BY DEF LaneInv
<1>5. q \in SUBSET Request /\ IsFiniteSet(q) /\ Cardinality(q) <= Cardinality(quar)
  BY <1>1, <1>4, FS_Subset
<1>6. Cardinality(q) \in Nat /\ Cardinality(quar) \in Nat /\ Concurrency \in Nat
  BY <1>4, <1>5, FS_CardinalityType, LocalActionAssumption
<1>7. active + Cardinality(q) <= Concurrency
  BY <1>1, <1>4, <1>5, <1>6
<1>8. Drained(active, q, phase)
  BY DEF Unquarantine
<1> HIDE DEF q
<1>9. /\ Kept /\ quar' = q /\ phase' \in [Request -> Phases]
      /\ \A y \in Request : phase'[y] = phase[y] \/ (phase[y] = "queued" /\ phase'[y] = "slot")
  BY <1>1, <1>2, <1>3, <1>4, <1>5, <1>7, <1>8, DrainKeeps
<1>10. Shuffle
  BY <1>9 DEF Unquarantine, Shuffle, Waiting, process, evidence
<1> QED
  BY <1>9, <1>10 DEF q

\* A route that goes on by itself.
LEMMA GoSteps ==
  ASSUME TypeOK, QueueInv, NEW r \in Request, NEW P \in SUBSET Phases, NEW x \in P, Go(r, x)
  PROVE  /\ Step(r, P) /\ phase'[r] = x /\ \A y \in Request \ {r} : phase'[y] = phase[y]
         /\ queue' = queue /\ phase[r] # "queued" => QueueInv'
<1>1. phase \in [Request -> Phases] /\ queue \in Seq(Request)
  BY DEF TypeOK
<1>2. /\ phase' \in [Request -> Phases] /\ phase'[r] = x
      /\ \A y \in Request \ {r} : phase'[y] = phase[y]
  BY <1>1 DEF Go
<1>3. ASSUME queue' = queue, phase[r] # "queued" PROVE QueueInv'
  <2>1. \A i \in DOMAIN queue : queue[i] \in Request \ {r}
    BY <1>1, <1>3 DEF QueueInv
  <2>2. \A i \in DOMAIN queue' : phase'[queue'[i]] = "queued"
    BY <1>2, <1>3, <2>1 DEF QueueInv
  <2> QED
    BY <1>3, <2>2 DEF QueueInv
<1> QED
  BY <1>2, <1>3 DEF Step

\* A request enters the lane, waits, is refused, gives up or is cancelled
\* (acquireLocalActionSlot, cancelQueuedLocalActions).
LEMMA AcquireKeeps ==
  ASSUME TypeOK, QueueInv, LaneInv, NEW r \in Request, Acquire(r)
  PROVE  Kept /\ quar' = quar /\ Shuffle
<1>1. phase \in [Request -> Phases] /\ queue \in Seq(Request) /\ active \in Nat
      /\ phase[r] = "prepared" /\ Len(queue) \in Nat /\ QueueLimit \in Nat
  BY LocalActionAssumption DEF TypeOK, Acquire
<1>2. UNCHANGED <<up, answer, helper, marked, attached, seen, file, state, mem, disk, givenUp>>
  BY DEF Acquire, process, evidence
<1>3. CASE Go(r, "failing") /\ UNCHANGED lane
  <2>1. /\ Step(r, {"failing"}) /\ phase'[r] = "failing" /\ QueueInv'
        /\ \A y \in Request \ {r} : phase'[y] = phase[y]
    BY <1>1, <1>3, GoSteps DEF lane, Phases
  <2>2. Working' \subseteq Working
    BY <2>1 DEF Working
  <2> QED
    BY <1>1, <1>2, <1>3, <2>1, <2>2, StayKeeps DEF Shuffle, Step, Waiting, lane
<1>4. CASE /\ Occupancy < Concurrency /\ Go(r, "slot")
           /\ active' = active + 1 /\ UNCHANGED <<quar, queue>>
  <2>1. /\ Step(r, {"slot"}) /\ phase'[r] = "slot" /\ QueueInv'
        /\ \A y \in Request \ {r} : phase'[y] = phase[y]
    BY <1>1, <1>4, GoSteps DEF Phases
  <2>2. Working' = Working \cup {r} /\ r \notin Working
    BY <1>1, <2>1 DEF Working
  <2>3. /\ IsFiniteSet(Working) /\ Cardinality(Working) <= active /\ IsFiniteSet(quar)
        /\ active + Cardinality(quar) < Concurrency
    BY <1>4 DEF LaneInv, Occupancy
  <2>4. IsFiniteSet(Working') /\ Cardinality(Working') = Cardinality(Working) + 1
    BY <2>2, <2>3, FS_AddElement
  <2>5. Cardinality(Working) \in Nat /\ Cardinality(quar) \in Nat /\ Concurrency \in Nat
    BY <2>3, FS_CardinalityType, LocalActionAssumption
  <2>6. /\ active' \in Nat /\ Cardinality(Working') <= active'
        /\ active' + Cardinality(quar') <= Concurrency
    BY <1>1, <1>4, <2>3, <2>4, <2>5
  <2>7. Kept
    BY <1>4, <2>1, <2>3, <2>4, <2>6 DEF Kept, TypeOK
  <2> QED
    BY <1>1, <1>2, <1>4, <2>1, <2>7 DEF Shuffle, Step, Waiting
<1>5. CASE /\ Len(queue) < QueueLimit /\ Go(r, "queued")
           /\ queue' = Append(queue, r) /\ UNCHANGED <<active, quar>>
  <2>1. /\ Step(r, {"queued"}) /\ phase'[r] = "queued"
        /\ \A y \in Request \ {r} : phase'[y] = phase[y]
    BY <1>5, GoSteps DEF Phases
  <2>2. Working' = Working
    BY <1>1, <2>1 DEF Working
  <2>3. /\ queue' \in Seq(Request) /\ Len(queue') = Len(queue) + 1
        /\ DOMAIN queue' = 1..(Len(queue) + 1) /\ queue'[Len(queue) + 1] = r
        /\ DOMAIN queue = 1..Len(queue) /\ \A i \in 1..Len(queue) : queue'[i] = queue[i]
    BY <1>1, <1>5
  <2>4. \A i \in 1..Len(queue) : queue[i] \in Request \ {r}
    BY <1>1 DEF QueueInv
  <2>5. \A i \in DOMAIN queue' : phase'[queue'[i]] = "queued"
    <3> SUFFICES ASSUME NEW i \in DOMAIN queue' PROVE phase'[queue'[i]] = "queued"
      OBVIOUS
    <3>1. i \in 1..Len(queue) \/ i = Len(queue) + 1
      BY <2>3
    <3> QED
      BY <2>1, <2>3 DEF QueueInv
  <2>6. \A i, j \in DOMAIN queue' : queue'[i] = queue'[j] => i = j
    <3> SUFFICES ASSUME NEW i \in DOMAIN queue', NEW j \in DOMAIN queue', queue'[i] = queue'[j]
                 PROVE  i = j
      OBVIOUS
    <3>1. (i \in 1..Len(queue) \/ i = Len(queue) + 1) /\ (j \in 1..Len(queue) \/ j = Len(queue) + 1)
      BY <2>3
    <3> QED
      BY <2>3, <2>4 DEF QueueInv
  <2>7. QueueInv'
    BY <2>5, <2>6 DEF QueueInv
  <2>8. Len(queue') <= QueueLimit
    BY <1>1, <1>5
  <2>9. Kept
    BY <1>5, <2>2, <2>7, <2>8 DEF Kept, LaneInv, TypeOK
  <2> QED
    BY <1>1, <1>2, <1>5, <2>1, <2>9 DEF Shuffle, Step, Waiting
<1> QED
  BY <1>3, <1>4, <1>5 DEF Acquire

LEMMA LeaveKeeps ==
  ASSUME TypeOK, QueueInv, LaneInv, NEW r \in Request, LeaveQueue(r)
  PROVE  Kept /\ quar' = quar /\ Shuffle
<1>1. phase \in [Request -> Phases] /\ queue \in Seq(Request)
      /\ phase[r] = "queued" /\ Len(queue) \in Nat /\ DOMAIN queue = 1..Len(queue)
      /\ Len(queue) <= QueueLimit /\ QueueLimit \in Nat
  BY LocalActionAssumption DEF TypeOK, LeaveQueue
<1>2. /\ UNCHANGED <<up, answer, helper, marked, attached, seen, file, state, mem, disk, givenUp>>
      /\ UNCHANGED <<active, quar>> /\ Go(r, "failing")
  BY DEF LeaveQueue, process, evidence
<1>3. PICK k \in 1..Len(queue) : queue[k] = r /\ queue' = RemoveAt(queue, k)
  BY DEF LeaveQueue
<1>4. /\ Step(r, {"failing"}) /\ phase'[r] = "failing"
      /\ \A y \in Request \ {r} : phase'[y] = phase[y]
  BY <1>2, GoSteps DEF Phases
<1>5. Working' = Working
  BY <1>1, <1>4 DEF Working
<1> DEFINE head == SubSeq(queue, 1, k - 1)
           tail == SubSeq(queue, k + 1, Len(queue))
<1>6. /\ head \in Seq(Request) /\ Len(head) = k - 1
      /\ \A i \in 1..(k - 1) : head[i] = queue[i]
      /\ tail \in Seq(Request) /\ Len(tail) = Len(queue) - k
      /\ \A i \in 1..(Len(queue) - k) : tail[i] = queue[k + i]
  <2> DEFINE m == k + 1
             z == Len(queue)
             n == k - 1
  <2>1. m \in Int /\ n \in Int /\ z \in Int /\ 1 \in Int /\ k \in Int
    OBVIOUS
  <2>2. (\A i \in m..z : queue[i] \in Request) /\ (\A i \in 1..n : queue[i] \in Request)
    BY <1>1
  <2>0. z \in Nat /\ k \in Nat /\ 1 <= k /\ k <= z
    OBVIOUS
  <2>a. z - m + 1 = z - k /\ (m <= z \/ z - k = 0)
    OBVIOUS
  <2>b. n - 1 + 1 = n /\ (1 <= n \/ n = 0)
    OBVIOUS
  <2>3. /\ z - m + 1 = z - k /\ (m <= z \/ z - k = 0)
        /\ n - 1 + 1 = n /\ (1 <= n \/ n = 0)
    BY <2>b
  <2>4. \A i \in 1..(z - k) : m + i - 1 = k + i
    OBVIOUS
  <2>5. \A i \in 1..n : 1 + i - 1 = i
    OBVIOUS
  <2> HIDE DEF m, z, n
  <2>6. /\ SubSeq(queue, m, z) \in Seq(Request)
        /\ Len(SubSeq(queue, m, z)) = IF m <= z THEN z - m + 1 ELSE 0
        /\ \A i \in 1..(z - m + 1) : SubSeq(queue, m, z)[i] = queue[m + i - 1]
    BY <2>1, <2>2
  <2>7. /\ SubSeq(queue, 1, n) \in Seq(Request)
        /\ Len(SubSeq(queue, 1, n)) = IF 1 <= n THEN n - 1 + 1 ELSE 0
        /\ \A i \in 1..(n - 1 + 1) : SubSeq(queue, 1, n)[i] = queue[1 + i - 1]
    BY <2>1, <2>2
  <2>8. /\ Len(SubSeq(queue, m, z)) = z - k
        /\ \A i \in 1..(z - k) : SubSeq(queue, m, z)[i] = queue[k + i]
    BY <2>3, <2>4, <2>6
  <2>9. /\ Len(SubSeq(queue, 1, n)) = n
        /\ \A i \in 1..n : SubSeq(queue, 1, n)[i] = queue[i]
    BY <2>3, <2>7
  <2> QED
    BY <2>6, <2>7 DEF m, z, n
<1>7. queue' = head \o tail
  BY <1>3 DEF RemoveAt
<1> HIDE DEF head, tail
<1>8. /\ queue' \in Seq(Request) /\ Len(queue') = Len(head) + Len(tail)
      /\ \A i \in 1..(Len(head) + Len(tail)) :
           queue'[i] = IF i <= Len(head) THEN head[i] ELSE tail[i - Len(head)]
  BY <1>6, <1>7, ConcatProperties
<1>9. Len(queue') = Len(queue) - 1 /\ DOMAIN queue' = 1..(Len(queue) - 1)
  BY <1>6, <1>8
<1> DEFINE at(i) == IF i < k THEN i ELSE i + 1
<1>10. \A i \in DOMAIN queue' : at(i) \in DOMAIN queue /\ at(i) # k /\ queue'[i] = queue[at(i)]
  <2> SUFFICES ASSUME NEW i \in DOMAIN queue'
               PROVE  at(i) \in DOMAIN queue /\ at(i) # k /\ queue'[i] = queue[at(i)]
    OBVIOUS
  <2>1. i \in Nat /\ 1 <= i /\ i <= Len(queue) - 1
    BY <1>9
  <2>2. CASE i < k
    <3>1. i \in 1..(k - 1) /\ i <= k - 1 /\ i \in 1..(Len(head) + Len(tail))
      BY <1>6, <2>1, <2>2
    <3>2. queue'[i] = queue[i]
      BY <1>6, <1>8, <3>1
    <3> QED
      BY <1>1, <2>2, <3>2
  <2>3. CASE ~(i < k)
    <3>1. i - (k - 1) \in 1..(Len(queue) - k) /\ k + (i - (k - 1)) = i + 1 /\ ~(i <= k - 1)
      BY <2>1, <2>3
    <3>2. queue'[i] = queue[i + 1]
      BY <1>6, <1>8, <1>9, <3>1
    <3> QED
      BY <2>1, <2>3, <3>2
  <2> QED
    BY <2>2, <2>3
<1>11. \A i, j \in DOMAIN queue' : at(i) = at(j) => i = j
  BY <1>9
<1> HIDE DEF at
<1>12. \A i \in DOMAIN queue' : queue'[i] \in Request \ {r} /\ phase[queue'[i]] = "queued"
  BY <1>1, <1>3, <1>10 DEF QueueInv
<1>13. QueueInv'
  BY <1>4, <1>10, <1>11, <1>12 DEF QueueInv
<1>14. Len(queue') <= QueueLimit
  BY <1>1, <1>9
<1>15. Kept
  BY <1>2, <1>5, <1>8, <1>13, <1>14 DEF Kept, LaneInv, TypeOK
<1> QED
  BY <1>1, <1>2, <1>4, <1>15 DEF Shuffle, Step, Waiting

LEMMA GiveUpKeeps ==
  ASSUME TypeOK, QueueInv, LaneInv, NEW r \in Request, GiveUp(r)
  PROVE  Kept /\ quar' = quar /\ Shuffle
<1>1. phase \in [Request -> Phases] /\ quar \in SUBSET Request /\ IsFiniteSet(quar)
      /\ Cardinality(quar) <= Cardinality(quar) + 1
  BY FS_CardinalityType DEF TypeOK, LaneInv
<1>2. UNCHANGED <<up, answer, helper, marked, attached, seen, file, state, mem, disk, givenUp>>
  BY DEF GiveUp, process, evidence
<1>3. CASE phase[r] = "slot"
  <2>1. Drained(active - 1, quar, [phase EXCEPT ![r] = "failing"])
    BY <1>3 DEF GiveUp
  <2>2. Kept /\ quar' = quar /\ Step(r, {"failing"})
    BY <1>1, <1>3, <2>1, ReleaseKeeps
  <2> QED
    BY <1>2, <1>3, <2>2 DEF Shuffle, Step, Waiting
<1>4. CASE phase[r] = "prepared"
  <2>1. Go(r, "failing") /\ UNCHANGED lane
    BY <1>4 DEF GiveUp, Go
  <2>2. /\ Step(r, {"failing"}) /\ phase'[r] = "failing" /\ QueueInv'
        /\ \A y \in Request \ {r} : phase'[y] = phase[y]
    BY <1>4, <2>1, GoSteps DEF lane, Phases
  <2>3. Working' \subseteq Working
    BY <2>2 DEF Working
  <2> QED
    BY <1>2, <1>4, <2>1, <2>2, <2>3, StayKeeps DEF Shuffle, Step, Waiting, lane
<1> QED
  BY <1>3, <1>4 DEF GiveUp

LEMMA CancelKeeps ==
  ASSUME TypeOK, QueueInv, LaneInv, CloseAdmission
  PROVE  Kept /\ quar' = quar /\ Shuffle
<1>1. phase \in [Request -> Phases]
  BY DEF TypeOK
<1>2. /\ phase' \in [Request -> Phases]
      /\ \A y \in Request : phase'[y] = IF phase[y] = "queued" THEN "failing" ELSE phase[y]
  BY <1>1 DEF CloseAdmission, Phases
<1>3. Working' = Working
  BY <1>2 DEF Working
<1>4. queue' = <<>> /\ DOMAIN queue' = {} /\ Len(queue') = 0 /\ queue' \in Seq(Request)
  BY DEF CloseAdmission
<1>5. QueueInv'
  BY <1>4 DEF QueueInv
<1>6. Kept
  BY <1>3, <1>5, LocalActionAssumption DEF Kept, CloseAdmission, LaneInv, TypeOK
<1>7. Shuffle
  BY <1>2 DEF Shuffle, Waiting, CloseAdmission, process, evidence
<1> QED
  BY <1>6, <1>7 DEF CloseAdmission

LEMMA SpawnKeeps ==
  ASSUME TypeOK, QueueInv, LaneInv, NEW r \in Request, Spawn(r)
  PROVE  Kept /\ quar' = quar /\ Step(r, {"running"}) /\ phase[r] = "slot"
<1>1. Go(r, "running") /\ UNCHANGED lane /\ phase[r] = "slot"
  BY DEF Spawn
<1>2. /\ Step(r, {"running"}) /\ phase'[r] = "running" /\ QueueInv'
      /\ \A y \in Request \ {r} : phase'[y] = phase[y]
  BY <1>1, GoSteps DEF lane, Phases
<1>3. Working' \subseteq Working
  BY <1>1, <1>2 DEF Working
<1> QED
  BY <1>1, <1>2, <1>3, StayKeeps DEF lane

\* The runner is done with its helper, or kills it (finish, stopFor, finishAfterKill).
Told(r) ==
  /\ r \in marked /\ Notify(r)
  /\ Step(r, {"committed"}) /\ givenUp' = givenUp
Untold(r) ==
  /\ UNCHANGED <<seen, state, mem, disk>>
  /\ Step(r, {"failing"})
  /\ \/ r \notin marked /\ givenUp' = givenUp
     \/ seen[r] = "no" /\ givenUp' = givenUp \cup {r}
Killing(r) == Step(r, {"killing"}) /\ UNCHANGED <<seen, state, mem, disk, file, givenUp>>
Ended(r) ==
  /\ up /\ phase[r] \in {"running", "killing"}
  /\ UNCHANGED <<up, answer, helper, marked, attached>>
  /\ \/ (Told(r) \/ Untold(r)) /\ file' = IF seen'[r] = "unsaved" THEN file ELSE file \ {r}
     \/ Killing(r)

LEMMA FinishKeeps ==
  ASSUME TypeOK, QueueInv, LaneInv, NEW r \in Request, NEW x \in {"failing", "committed"},
         phase[r] \in {"running", "killing"}, NEW q \in {quar, quar \cup {r}}, Finish(r, x, q)
  PROVE  /\ Kept /\ quar' = q /\ Step(r, {x})
         /\ file' = IF seen'[r] = "unsaved" THEN file ELSE file \ {r}
<1>1. quar \in SUBSET Request /\ IsFiniteSet(quar) /\ Cardinality(quar) \in Nat
  BY FS_CardinalityType DEF TypeOK, LaneInv
<1>2. /\ IsFiniteSet(quar \cup {r})
      /\ Cardinality(quar \cup {r}) = IF r \in quar THEN Cardinality(quar) ELSE Cardinality(quar) + 1
  BY <1>1, FS_AddElement
<1>3. q \in SUBSET Request /\ IsFiniteSet(q) /\ Cardinality(q) <= Cardinality(quar) + 1
  <2>1. CASE q = quar
    BY <1>1, <2>1
  <2>2. CASE q = quar \cup {r}
    BY <1>1, <1>2
  <2> QED
    BY <2>1, <2>2
<1>4. Drained(active - 1, q, [phase EXCEPT ![r] = x])
  BY DEF Finish
<1>5. Kept /\ quar' = q /\ Step(r, {x})
  BY <1>3, <1>4, ReleaseKeeps
<1> QED
  BY <1>5 DEF Finish

LEMMA KillKeeps ==
  ASSUME TypeOK, QueueInv, LaneInv, NEW r \in Request,
         phase[r] = "running", Go(r, "killing"), UNCHANGED lane
  PROVE  Kept /\ quar' = quar /\ Step(r, {"killing"})
<1>1. /\ Step(r, {"killing"}) /\ phase'[r] = "killing" /\ QueueInv'
      /\ \A y \in Request \ {r} : phase'[y] = phase[y]
  BY GoSteps DEF lane, Phases
<1>2. Working' \subseteq Working
  BY <1>1 DEF Working
<1> QED
  BY <1>1, <1>2, StayKeeps DEF lane

LEMMA EndKeeps ==
  ASSUME TypeOK, QueueInv, LaneInv, NEW r \in Request, Close(r) \/ Stop(r) \/ AfterKill(r)
  PROVE  /\ Kept /\ Ended(r) /\ quar \subseteq quar'
         /\ Live(r) => r \in quar' \/ phase'[r] = "killing"
<1>1. CASE Close(r)
  <2>1. /\ up /\ phase[r] = "running" /\ ~Live(r)
        /\ UNCHANGED <<up, answer, helper, marked, attached, givenUp>>
    BY <1>1 DEF Close, process
  <2>2. CASE r \in marked
    <3>1. Notify(r) /\ Finish(r, "committed", quar)
      BY <1>1, <2>2 DEF Close
    <3> QED
      BY <2>1, <2>2, <3>1, FinishKeeps DEF Ended, Told
  <2>3. CASE r \notin marked
    <3>1. SeesNone(r) /\ Finish(r, "failing", quar)
      BY <1>1, <2>3 DEF Close
    <3> QED
      BY <2>1, <2>3, <3>1, FinishKeeps DEF Ended, Untold, SeesNone
  <2> QED
    BY <2>2, <2>3
<1>2. CASE Stop(r)
  <2>1. /\ up /\ phase[r] = "running"
        /\ UNCHANGED <<up, answer, helper, marked, attached, givenUp>>
    BY <1>2 DEF Stop, process
  <2>2. CASE r \in marked /\ Notify(r) /\ Finish(r, "committed", quar \cup {r})
    BY <2>1, <2>2, FinishKeeps DEF Ended, Told
  <2>3. CASE SeesNone(r) /\ Go(r, "killing") /\ UNCHANGED <<lane, file>>
    <3>1. Kept /\ quar' = quar /\ Step(r, {"killing"})
      BY <2>1, <2>3, KillKeeps
    <3>2. Killing(r)
      BY <2>1, <2>3, <3>1 DEF Killing, SeesNone
    <3> QED
      BY <2>1, <3>1, <3>2 DEF Ended, Step
  <2> QED
    BY <1>2, <2>2, <2>3 DEF Stop
<1>3. CASE AfterKill(r)
  <2> DEFINE q == IF Live(r) THEN quar \cup {r} ELSE quar
  <2>1. /\ up /\ phase[r] = "killing"
        /\ UNCHANGED <<up, answer, helper, marked, attached>>
    BY <1>3 DEF AfterKill, process
  <2>2. q \in {quar, quar \cup {r}} /\ (Live(r) => r \in q) /\ quar \subseteq q
    OBVIOUS
  <2>3. CASE r \in marked /\ Notify(r) /\ Finish(r, "committed", q) /\ UNCHANGED givenUp
    <3> HIDE DEF q
    <3> QED
      BY <2>1, <2>2, <2>3, FinishKeeps DEF Ended, Told
  <2>4. CASE /\ SeesNone(r) /\ Finish(r, "failing", q)
             /\ givenUp' = IF r \in marked THEN givenUp \cup {r} ELSE givenUp
    <3> HIDE DEF q
    <3>1. Kept /\ quar' = q /\ Step(r, {"failing"})
          /\ file' = IF seen'[r] = "unsaved" THEN file ELSE file \ {r}
      BY <2>1, <2>2, <2>4, FinishKeeps
    <3>2. Untold(r)
      BY <2>4, <3>1 DEF Untold, SeesNone, ReadFails
    <3> QED
      BY <2>1, <2>2, <3>1, <3>2 DEF Ended
  <2> QED
    BY <1>3, <2>3, <2>4 DEF AfterKill
<1> QED
  BY <1>1, <1>2, <1>3

\* The steps of a route that do not touch the lane.
LEMMA RouteKeeps ==
  ASSUME TypeOK, QueueInv, LaneInv, NEW r \in Request,
         Begin(r) \/ Prepare(r) \/ Record(r) \/ Recover(r)
  PROVE  /\ Kept /\ UNCHANGED <<up, quar, helper, marked, attached>>
         /\ Step(r, {"begun", "prepared", "committed", "over"})
         /\ phase[r] \in {"idle", "begun", "committed", "failing"}
<1> DEFINE P == {"begun", "prepared", "committed", "over"}
<1>1. /\ UNCHANGED <<lane, up, helper, marked, attached>>
      /\ phase[r] \in {"idle", "begun", "committed", "failing"}
  BY DEF Begin, Prepare, Record, Recover, process
<1>2. \E x \in P : Go(r, x)
  BY DEF Begin, Prepare, Record, Recover, Reply
<1>3. PICK x \in P : Go(r, x)
  BY <1>2
<1>4. P \in SUBSET Phases
  BY DEF Phases
<1>5. /\ Step(r, P) /\ phase'[r] = x /\ QueueInv'
      /\ \A y \in Request \ {r} : phase'[y] = phase[y]
  BY <1>1, <1>3, <1>4, GoSteps DEF lane
<1>6. Working' \subseteq Working
  BY <1>5 DEF Working
<1> QED
  BY <1>1, <1>5, <1>6, StayKeeps DEF lane

\* The steps of the helper, the news of its marker and the restoration.
LEMMA StillKeeps ==
  ASSUME TypeOK, QueueInv, LaneInv, UNCHANGED <<lane, phase>>
  PROVE  Kept
<1>1. Working' = Working /\ QueueInv'
  BY DEF Working, QueueInv, lane
<1> QED
  BY <1>1, StayKeeps

\* The lane is never overfull, and whoever lives has a place.
LEMMA LaneStep == IndInv /\ [Next]_vars => Kept /\ LaneInv'
<1> SUFFICES ASSUME IndInv, [Next]_vars PROVE Kept /\ LaneInv'
  OBVIOUS
<1>0. TypeOK /\ QueueInv /\ LaneInv /\ LifeInv /\ attached \subseteq Request
  BY DEF IndInv, TypeOK
<1> SUFFICES Kept /\ LivesInv'
  BY DEF Kept, LaneInv
<1>1. ASSUME UNCHANGED <<helper, attached>>, Shuffle, \A x \in quar \ quar' : ~Live(x)
      PROVE  LivesInv'
  BY <1>0, <1>1 DEF LivesInv, LaneInv, Live, Shuffle, Waiting
<1>2. CASE CloseAdmission
  BY <1>0, <1>1, <1>2, CancelKeeps DEF Shuffle
<1>3. CASE Crash
  <2>1. /\ active' = 0 /\ quar' = {} /\ queue' = <<>> /\ attached' = {}
        /\ \A x \in Request : phase'[x] \in Rest
    BY <1>3 DEF Crash, Rest
  <2>2. Working' = {} /\ QueueInv' /\ LivesInv'
    BY <2>1 DEF Working, QueueInv, LivesInv, Rest
  <2>3. IsFiniteSet({}) /\ Cardinality({}) = 0
    BY FS_EmptySet
  <2> QED
    BY <2>1, <2>2, <2>3, LocalActionAssumption DEF Kept
<1>4. CASE Restore
  <2>1. UNCHANGED <<lane, phase, helper, attached>>
    BY <1>4 DEF Restore, process
  <2> QED
    BY <1>0, <2>1, StillKeeps DEF LivesInv, LaneInv, Live, lane
<1>5. ASSUME NEW r \in Request, Begin(r) \/ Prepare(r) \/ Record(r) \/ Recover(r)
      PROVE  Kept /\ LivesInv'
  BY <1>0, <1>5, RouteKeeps DEF LivesInv, LaneInv, Live, Step
<1>6. ASSUME NEW r \in Request, Acquire(r) \/ LeaveQueue(r) \/ GiveUp(r)
      PROVE  Kept /\ LivesInv'
  <2>1. Kept /\ quar' = quar /\ Shuffle
    BY <1>0, <1>6, AcquireKeeps, LeaveKeeps, GiveUpKeeps
  <2> QED
    BY <1>1, <2>1 DEF Shuffle
<1>7. ASSUME NEW r \in Request, Spawn(r)
      PROVE  Kept /\ LivesInv'
  <2>1. Kept /\ quar' = quar /\ Step(r, {"running"}) /\ phase[r] = "slot"
    BY <1>0, <1>7, SpawnKeeps
  <2>2. /\ attached' = attached \cup {r} /\ \A x \in Request \ {r} : helper'[x] = helper[x]
    BY <1>7 DEF Spawn
  <2> QED
    BY <1>0, <2>1, <2>2 DEF LivesInv, LaneInv, Live, Step
<1>8. ASSUME NEW r \in Request, Close(r) \/ Stop(r) \/ AfterKill(r)
      PROVE  Kept /\ LivesInv'
  <2>1. /\ Kept /\ Ended(r) /\ quar \subseteq quar'
        /\ Live(r) => r \in quar' \/ phase'[r] = "killing"
    BY <1>0, <1>8, EndKeeps
  <2>2. /\ UNCHANGED <<helper, attached>>
        /\ \A x \in Request \ {r} : phase'[x] = phase[x] \/ phase[x] = "queued"
    BY <2>1 DEF Ended, Told, Untold, Killing, Step
  <2> QED
    BY <1>0, <2>1, <2>2 DEF LivesInv, LaneInv, Live
<1>9. ASSUME NEW r \in Request, Unquarantine(r)
      PROVE  Kept /\ LivesInv'
  <2>1. Kept /\ quar' = quar \ {r} /\ Shuffle /\ ~Live(r)
    BY <1>0, <1>9, UnquarantineKeeps DEF Unquarantine
  <2> QED
    BY <1>1, <2>1 DEF Shuffle
<1>10. ASSUME NEW r \in Request, SeeMarker(r) \/ HelperMarks(r) \/ HelperEnds(r)
      PROVE  Kept /\ LivesInv'
  <2>1. UNCHANGED <<lane, phase, attached>>
        /\ \A x \in Request : helper'[x] = helper[x] \/ helper'[x] = "dead"
    BY <1>0, <1>10 DEF SeeMarker, HelperMarks, HelperEnds, process, TypeOK
  <2> QED
    BY <1>0, <2>1, StillKeeps DEF LivesInv, LaneInv, Live, lane
<1>11. CASE UNCHANGED vars
  BY <1>0, <1>11, StillKeeps DEF vars, lane, process, LivesInv, LaneInv, Live
<1> QED
  BY <1>2, <1>3, <1>4, <1>5, <1>6, <1>7, <1>8, <1>9, <1>10, <1>11 DEF Next, Serve
-----------------------------------------------------------------------------
(* Types                                                                   *)

Mems == [Action -> Request \cup {NoRequest}]

LEMMA SnapshotTypes ==
  ASSUME NEW m \in Mems, NEW s \in [Request -> States]
  PROVE  /\ Snapshot(m, s) \in [Action -> Stored]
         /\ \A a \in Action : /\ Snapshot(m, s)[a].of = m[a]
                              /\ Snapshot(m, s)[a].state = IF m[a] = NoRequest THEN "none" ELSE s[m[a]]
<1>1. ASSUME NEW a \in Action
      PROVE  /\ Snapshot(m, s)[a] \in Stored
             /\ Snapshot(m, s)[a].of = m[a]
             /\ Snapshot(m, s)[a].state = IF m[a] = NoRequest THEN "none" ELSE s[m[a]]
  <2>1. Snapshot(m, s)[a] = IF m[a] = NoRequest THEN Nothing ELSE [of |-> m[a], state |-> s[m[a]]]
    BY DEF Snapshot
  <2>2. m[a] \in Request \cup {NoRequest} /\ (m[a] # NoRequest => s[m[a]] \in States)
    BY DEF Mems
  <2> QED
    BY <2>1, <2>2 DEF Nothing, Stored, States
<1>2. Snapshot(m, s) = [a \in Action |-> Snapshot(m, s)[a]]
  BY DEF Snapshot
<1> QED
  BY <1>1, <1>2

\* A save, reported as ok or not.
LEMMA SaveTypes ==
  ASSUME TypeOK, NEW m \in Mems, NEW s \in [Request -> States], NEW ok \in BOOLEAN, Save(m, s, ok)
  PROVE  /\ disk' \in [Action -> Stored] /\ faults' \in 0..MaxFault
         /\ disk' = Snapshot(m, s) \/ (disk' = disk /\ ~ok)
<1>1. Snapshot(m, s) \in [Action -> Stored]
  BY SnapshotTypes
<1>2. CASE ok
  BY <1>1, <1>2 DEF Save, TypeOK
<1>3. CASE ~ok
  <2>1. FaultLeft /\ faults' = faults + 1 /\ disk' \in {disk, Snapshot(m, s)}
    BY <1>3 DEF Save
  <2>2. disk' \in [Action -> Stored]
    BY <1>1, <2>1 DEF TypeOK
  <2>3. faults' \in 0..MaxFault
    BY <2>1, LocalActionAssumption DEF TypeOK, FaultLeft
  <2> QED
    BY <1>3, <2>1, <2>2, <2>3
<1> QED
  BY <1>2, <1>3

\* The records in memory, with one more, one changed or one less.
LEMMA EvidenceTypes ==
  ASSUME TypeOK, NEW r \in Request, NEW x \in States
  PROVE  /\ mem \in Mems /\ Remember(r) \in Mems /\ Forget(r) \in Mems
         /\ [state EXCEPT ![r] = x] \in [Request -> States]
         /\ ActionOf[r] \in Action
BY LocalActionAssumption DEF TypeOK, Mems, Remember, Forget

\* What the first sight of the marker does (notifyCommitted).
Noticed(r) ==
  /\ seen[r] = "no"
  /\ state' = [state EXCEPT ![r] = "committed"] /\ mem' = Remember(r)
  /\ \/ seen' = [seen EXCEPT ![r] = "saved"] /\ disk' = Snapshot(mem', state')
     \/ seen' = [seen EXCEPT ![r] = "unsaved"] /\ disk' \in {disk, Snapshot(mem', state')}

EvidenceTyped ==
  /\ seen \in [Request -> {"no", "saved", "unsaved"}]
  /\ state \in [Request -> States] /\ mem \in Mems
  /\ disk \in [Action -> Stored] /\ faults \in 0..MaxFault

LEMMA NotifyTypes ==
  ASSUME TypeOK, NEW r \in Request, Notify(r)
  PROVE  /\ EvidenceTyped'
         /\ Noticed(r) \/ (seen[r] # "no" /\ UNCHANGED <<seen, state, mem, disk>>)
<1>1. CASE seen[r] # "no"
  BY <1>1 DEF Notify, TypeOK, EvidenceTyped, Mems
<1>2. CASE seen[r] = "no"
  <2>1. state' = [state EXCEPT ![r] = "committed"] /\ mem' = Remember(r)
    BY <1>2 DEF Notify
  <2>2. PICK ok \in BOOLEAN : /\ Save(mem', state', ok)
                              /\ seen' = [seen EXCEPT ![r] = IF ok THEN "saved" ELSE "unsaved"]
    BY <1>2 DEF Notify
  <2>3. state' \in [Request -> States] /\ mem' \in Mems
    BY <2>1, EvidenceTypes DEF States
  <2>4. /\ disk' \in [Action -> Stored] /\ faults' \in 0..MaxFault
        /\ disk' = Snapshot(mem', state') \/ (disk' = disk /\ ~ok)
    BY <2>2, <2>3, SaveTypes
  <2>5. seen' \in [Request -> {"no", "saved", "unsaved"}]
    BY <2>2 DEF TypeOK
  <2> QED
    BY <1>2, <2>1, <2>2, <2>3, <2>4, <2>5 DEF Noticed, EvidenceTyped
<1> QED
  BY <1>1, <1>2

\* The types of what is not in the lane.
RouteTyped ==
  /\ up \in BOOLEAN /\ closed \in BOOLEAN
  /\ phase \in [Request -> Phases]
  /\ answer \in [Request -> {"none", "refused", "failed", "done", "lost"}]
  /\ helper \in [Request -> {"none", "live", "dead"}]
  /\ marked \subseteq Request /\ attached \subseteq Request
  /\ givenUp \subseteq Request /\ file \subseteq Request

LEMMA TypeStep == IndInv /\ [Next]_vars => TypeOK'
<1> SUFFICES ASSUME IndInv, [Next]_vars PROVE TypeOK'
  OBVIOUS
<1>0. TypeOK /\ QueueInv /\ LaneInv /\ LifeInv /\ RouteTyped /\ EvidenceTyped /\ Kept
  BY LaneStep DEF IndInv, TypeOK, RouteTyped, EvidenceTyped, Mems
<1> SUFFICES RouteTyped' /\ EvidenceTyped'
  BY <1>0 DEF TypeOK, Kept, RouteTyped, EvidenceTyped, Mems
<1>1. CASE CloseAdmission
  <2>1. Shuffle
    BY <1>0, <1>1, CancelKeeps
  <2> QED
    BY <1>0, <1>1, <2>1 DEF CloseAdmission, Shuffle, RouteTyped, EvidenceTyped
<1>2. CASE Crash
  <2>1. phase' \in [Request -> Phases] /\ mem' \in Mems
    BY <1>2 DEF Crash, Phases, Mems
  <2>2. answer' \in [Request -> {"none", "refused", "failed", "done", "lost"}]
    BY <1>0, <1>2 DEF Crash, RouteTyped
  <2>3. faults' \in 0..MaxFault
    BY <1>0, <1>2, LocalActionAssumption DEF Crash, FaultLeft, EvidenceTyped
  <2> QED
    BY <1>0, <1>2, <2>1, <2>3 DEF Crash, RouteTyped, EvidenceTyped
<1>3. CASE Restore
  <2>1. PICK unread \in SUBSET (Recorded \cap file), ok \in BOOLEAN :
          /\ state' = [r \in Request |-> IF r \in Recorded THEN RestoredState(r, unread) ELSE state[r]]
          /\ mem' = [a \in Action |->
                       LET r == disk[a].of
                       IN IF r = NoRequest \/ (r # NoRequest /\ state'[r] = "prepared")
                          THEN NoRequest ELSE r]
          /\ disk' \in (IF ok THEN {} ELSE {disk}) \cup {Snapshot(mem', state')}
          /\ file' = IF ok THEN file \ (Recorded \ unread) ELSE file
          /\ faults' = faults + (IF unread = {} THEN 0 ELSE 1) + (IF ok THEN 0 ELSE 1)
          /\ faults' <= MaxFault
    BY <1>3 DEF Restore
  <2>2. \A r \in Request : RestoredState(r, unread) \in States
    BY <1>0, LocalActionAssumption DEF RestoredState, States, EvidenceTyped, Stored
  <2>3. state' \in [Request -> States]
    BY <1>0, <2>1, <2>2 DEF EvidenceTyped
  <2>4. \A a \in Action : disk[a].of \in Request \cup {NoRequest}
    BY <1>0 DEF EvidenceTyped, Stored
  <2>5. mem' \in Mems
    BY <2>1, <2>4 DEF Mems
  <2>6. disk' \in [Action -> Stored]
    BY <1>0, <2>1, <2>3, <2>5, SnapshotTypes DEF EvidenceTyped
  <2>7. faults' \in 0..MaxFault
    BY <1>0, <2>1 DEF EvidenceTyped
  <2>8. EvidenceTyped'
    BY <1>0, <1>3, <2>3, <2>5, <2>6 DEF EvidenceTyped, Restore
  <2>9. RouteTyped'
    BY <1>0, <1>3 DEF RouteTyped, Restore, process
  <2> QED
    BY <2>8, <2>9
<1>4. ASSUME NEW r \in Request, Begin(r) PROVE RouteTyped' /\ EvidenceTyped'
  <2>1. phase' \in [Request -> Phases]
    BY <1>0, <1>4, RouteKeeps DEF Step
  <2>2. answer' \in [Request -> {"none", "refused", "failed", "done", "lost"}]
    BY <1>0, <1>4 DEF Begin, Reply, RouteTyped
  <2> QED
    BY <1>0, <1>4, <2>1, <2>2 DEF Begin, RouteTyped, EvidenceTyped, process, evidence
<1>5. ASSUME NEW r \in Request, Prepare(r) PROVE RouteTyped' /\ EvidenceTyped'
  <2>1. phase' \in [Request -> Phases]
    BY <1>0, <1>5, RouteKeeps DEF Step
  <2>2. answer' \in [Request -> {"none", "refused", "failed", "done", "lost"}]
    BY <1>0, <1>5 DEF Prepare, Reply, RouteTyped
  <2>3. Remember(r) \in Mems /\ Forget(r) \in Mems /\ state' \in [Request -> States]
    BY <1>0, <1>5, EvidenceTypes DEF Prepare, States
  <2>4. \E ok \in BOOLEAN : Save(Remember(r), state', ok)
    BY <1>5 DEF Prepare
  <2>5. disk' \in [Action -> Stored] /\ faults' \in 0..MaxFault
    BY <1>0, <2>3, <2>4, SaveTypes
  <2>6. mem' \in Mems
    BY <1>5, <2>3 DEF Prepare
  <2> QED
    BY <1>0, <1>5, <2>1, <2>2, <2>3, <2>5 DEF Prepare, RouteTyped, EvidenceTyped, process
<1>6. ASSUME NEW r \in Request, Acquire(r) \/ LeaveQueue(r) \/ GiveUp(r) \/ Unquarantine(r)
      PROVE  RouteTyped' /\ EvidenceTyped'
  <2>1. Shuffle
    BY <1>0, <1>6, AcquireKeeps, LeaveKeeps, GiveUpKeeps, UnquarantineKeeps
  <2>2. UNCHANGED <<closed, faults>>
    BY <1>6 DEF Acquire, LeaveQueue, GiveUp, Unquarantine
  <2> QED
    BY <1>0, <2>1, <2>2 DEF Shuffle, RouteTyped, EvidenceTyped
<1>7. ASSUME NEW r \in Request, Spawn(r) PROVE RouteTyped' /\ EvidenceTyped'
  <2>1. phase' \in [Request -> Phases]
    BY <1>0, <1>7, SpawnKeeps DEF Step
  <2>2. helper' \in [Request -> {"none", "live", "dead"}]
    BY <1>0, <1>7 DEF Spawn, RouteTyped
  <2> QED
    BY <1>0, <1>7, <2>1 DEF Spawn, RouteTyped, EvidenceTyped, evidence
<1>8. ASSUME NEW r \in Request, HelperMarks(r) \/ HelperEnds(r) PROVE RouteTyped' /\ EvidenceTyped'
  <2>1. helper' \in [Request -> {"none", "live", "dead"}]
    BY <1>0, <1>8 DEF HelperMarks, HelperEnds, RouteTyped
  <2> QED
    BY <1>0, <1>8 DEF HelperMarks, HelperEnds, RouteTyped, EvidenceTyped, evidence
<1>9. ASSUME NEW r \in Request, SeeMarker(r) PROVE RouteTyped' /\ EvidenceTyped'
  <2>1. EvidenceTyped'
    BY <1>0, <1>9, NotifyTypes DEF SeeMarker
  <2> QED
    BY <1>0, <1>9, <2>1 DEF SeeMarker, RouteTyped, process
<1>10. ASSUME NEW r \in Request, Close(r) \/ Stop(r) \/ AfterKill(r) PROVE RouteTyped' /\ EvidenceTyped'
  <2>1. Ended(r)
    BY <1>0, <1>10, EndKeeps
  <2>2. ASSUME Notify(r) PROVE EvidenceTyped'
    BY <1>0, <2>2, NotifyTypes
  <2>3. ASSUME SeesNone(r) PROVE EvidenceTyped'
    <3>1. faults' \in 0..MaxFault
      <4>1. faults' = faults \/ (faults < MaxFault /\ faults' = faults + 1)
        BY <2>3 DEF SeesNone, ReadFails, FaultLeft
      <4>2. faults \in 0..MaxFault
        BY <1>0 DEF EvidenceTyped
      <4> QED
        BY <4>1, <4>2, LocalActionAssumption
    <3> QED
      BY <1>0, <2>3, <3>1 DEF SeesNone, EvidenceTyped
  <2>4. EvidenceTyped'
    BY <1>10, <2>2, <2>3 DEF Close, Stop, AfterKill
  <2>5. phase' \in [Request -> Phases]
    BY <2>1 DEF Ended, Told, Untold, Killing, Step
  <2>6. UNCHANGED <<up, closed, answer, helper, marked, attached>>
    BY <1>10 DEF Close, Stop, AfterKill, process
  <2>7. file' \subseteq Request /\ givenUp' \subseteq Request
    BY <1>0, <2>1 DEF Ended, Told, Untold, Killing, RouteTyped
  <2> QED
    BY <1>0, <2>4, <2>5, <2>6, <2>7 DEF RouteTyped
<1>11. ASSUME NEW r \in Request, Record(r) PROVE RouteTyped' /\ EvidenceTyped'
  <2>1. phase' \in [Request -> Phases]
    BY <1>0, <1>11, RouteKeeps DEF Step
  <2>2. answer' \in [Request -> {"none", "refused", "failed", "done", "lost"}]
    BY <1>0, <1>11 DEF Record, Reply, RouteTyped
  <2>3. mem' \in Mems /\ state' \in [Request -> States]
    BY <1>0, <1>11, EvidenceTypes DEF Record, States
  <2>4. (\E ok \in BOOLEAN : Save(mem', state', ok)) /\ file' \subseteq file
    BY <1>11 DEF Record
  <2>5. disk' \in [Action -> Stored] /\ faults' \in 0..MaxFault
    BY <1>0, <2>3, <2>4, SaveTypes
  <2> QED
    BY <1>0, <1>11, <2>1, <2>2, <2>3, <2>5 DEF Record, RouteTyped, EvidenceTyped, process
<1>12. ASSUME NEW r \in Request, Recover(r) PROVE RouteTyped' /\ EvidenceTyped'
  <2>1. phase' \in [Request -> Phases]
    BY <1>0, <1>12, RouteKeeps DEF Step
  <2>2. answer' \in [Request -> {"none", "refused", "failed", "done", "lost"}]
    BY <1>0, <1>12 DEF Recover, Reply, RouteTyped
  <2>3. mem' \in Mems /\ state' \in [Request -> States]
    BY <1>0, <1>12, EvidenceTypes DEF Recover, States, EvidenceTyped
  <2>4. file' \subseteq file /\ givenUp' \subseteq givenUp \cup {r}
    BY <1>12 DEF Recover, Outlives
  <2>5. (\E ok \in BOOLEAN : Save(mem', state', ok)) \/ (disk' = Snapshot(mem', state') /\ ReadFails(r))
    BY <1>12 DEF Recover
  <2>6. disk' \in [Action -> Stored] /\ faults' \in 0..MaxFault
    <3>1. CASE \E ok \in BOOLEAN : Save(mem', state', ok)
      BY <1>0, <2>3, <3>1, SaveTypes
    <3>2. CASE disk' = Snapshot(mem', state') /\ ReadFails(r)
      BY <1>0, <2>3, <3>2, SnapshotTypes, LocalActionAssumption DEF ReadFails, FaultLeft,
         EvidenceTyped
    <3> QED
      BY <2>5, <3>1, <3>2
  <2> QED
    BY <1>0, <1>12, <2>1, <2>2, <2>3, <2>4, <2>6 DEF Recover, RouteTyped, EvidenceTyped,
       process
<1>13. CASE UNCHANGED vars
  BY <1>0, <1>13 DEF vars, process, evidence, RouteTyped, EvidenceTyped
<1> QED
  BY <1>1, <1>2, <1>3, <1>4, <1>5, <1>6, <1>7, <1>8, <1>9, <1>10, <1>11, <1>12, <1>13 DEF
     Next, Serve
-----------------------------------------------------------------------------
(* The steps as the record sees them: what the lane does is left out       *)

Others(f, g, r) == \A x \in Request \ {r} : f[x] = g[x]
Answered(r, a)  == answer'[r] = a /\ Others(answer', answer, r)

\* The record of r becomes x, and what is saved is the evidence m.
Writes(r, x, m) ==
  /\ state'[r] = x /\ Others(state', state, r)
  /\ disk' \in {disk, Snapshot(m, state')}

Began(r) ==
  /\ up /\ phase[r] = "idle"
  /\ \/ Step(r, {"over"}) /\ Answered(r, "refused")
     \/ Step(r, {"begun"}) /\ UNCHANGED answer
          /\ mem[ActionOf[r]] = NoRequest /\ ~InProgress(ActionOf[r])
  /\ UNCHANGED <<up, helper, marked, attached, seen, file, state, mem, disk, givenUp>>

PreparedBy(r) ==
  /\ up /\ phase[r] = "begun" /\ Writes(r, "prepared", Remember(r))
  /\ \/ /\ Step(r, {"prepared"}) /\ UNCHANGED answer
        /\ mem' = Remember(r) /\ disk' = Snapshot(mem', state')
     \/ Step(r, {"over"}) /\ Answered(r, "failed") /\ mem' = Forget(r)
  /\ UNCHANGED <<up, helper, marked, attached, seen, file, givenUp>>

Spawned(r) ==
  /\ up /\ phase[r] = "slot" /\ Step(r, {"running"})
  /\ helper'[r] = "live" /\ Others(helper', helper, r) /\ attached' = attached \cup {r}
  /\ UNCHANGED <<up, answer, marked, seen, file, state, mem, disk, givenUp>>

\* The helper acts, or ends.
Moved(r) ==
  /\ helper[r] = "live" /\ Others(helper', helper, r)
  /\ \/ /\ r \notin marked /\ helper'[r] = "live"
        /\ marked' = marked \cup {r} /\ file' = file \cup {r}
     \/ helper'[r] = "dead" /\ UNCHANGED <<marked, file>>
  /\ UNCHANGED <<up, phase, answer, attached, seen, state, mem, disk, givenUp>>

\* What the first sight of the marker does, or a later one.
Sight(r) ==
  \/ /\ seen[r] = "no" /\ Others(seen', seen, r)
     /\ Writes(r, "committed", mem') /\ mem' = Remember(r)
     /\ \/ seen'[r] = "saved" /\ disk' = Snapshot(mem', state')
        \/ seen'[r] = "unsaved"
  \/ seen[r] # "no" /\ UNCHANGED <<seen, state, mem, disk>>

Saw(r) ==
  /\ up /\ r \in marked /\ Sight(r)
  /\ UNCHANGED <<up, phase, answer, helper, marked, attached, file, givenUp>>

EndedBy(r) == Ended(r) /\ (Told(r) => Sight(r))

SettledBy(r) ==
  /\ up /\ phase[r] = "committed" /\ Step(r, {"over"}) /\ Answered(r, "done")
  /\ Writes(r, "settled", mem') /\ mem' = Remember(r)
  /\ \/ disk' = Snapshot(mem', state') /\ file' = file \ {r}
     \/ file' = file
  /\ UNCHANGED <<up, helper, marked, attached, seen, givenUp>>

\* A failure that turns out to be a success, and one that is forgotten.
Regained(r) ==
  /\ up /\ phase[r] = "failing" /\ Step(r, {"committed"})
  /\ Committed(r) \/ r \in file
  /\ Writes(r, "settled", mem') /\ mem' = Remember(r)
  /\ UNCHANGED <<up, answer, helper, marked, attached, seen, file, givenUp>>
Forgotten(r) ==
  /\ up /\ phase[r] = "failing" /\ Step(r, {"over"}) /\ Answered(r, "failed")
  /\ ~Committed(r) /\ mem' = Forget(r) /\ disk' \in {disk, Snapshot(mem', state)}
  /\ \/ r \notin file /\ file' = file /\ givenUp' = Outlives(r)
     \/ file' = file \ {r} /\ givenUp' = givenUp \cup {r}
  /\ UNCHANGED <<up, helper, marked, attached, seen, state>>

Outcome(r) ==
  \/ Began(r) \/ PreparedBy(r) \/ Spawned(r) \/ Moved(r) \/ Saw(r) \/ EndedBy(r)
  \/ SettledBy(r) \/ Regained(r) \/ Forgotten(r)

LEMMA SightSeen == ASSUME TypeOK, NEW r \in Request, Notify(r) PROVE Sight(r)
<1>1. /\ EvidenceTyped'
      /\ Noticed(r) \/ (seen[r] # "no" /\ UNCHANGED <<seen, state, mem, disk>>)
  BY NotifyTypes
<1>2. CASE Noticed(r)
  BY <1>2 DEF Noticed, Sight, Writes, Others, TypeOK
<1> QED
  BY <1>1, <1>2 DEF Sight

\* A route that answers or goes on.
LEMMA MoveSteps ==
  ASSUME TypeOK, QueueInv, NEW r \in Request, NEW x \in Phases, phase[r] # "queued"
  PROVE  /\ Go(r, x) => Step(r, {x})
         /\ \A a : Reply(r, a) /\ x = "over" => Step(r, {x}) /\ Answered(r, a)
<1>1. ASSUME Go(r, x) PROVE Step(r, {x})
  BY <1>1 DEF Go, Step, TypeOK
<1>2. ASSUME NEW a, Reply(r, a), x = "over" PROVE Step(r, {x}) /\ Answered(r, a)
  BY <1>1, <1>2 DEF Reply, Answered, Others, TypeOK
<1> QED
  BY <1>1, <1>2

\* What a save leaves on disk.
LEMMA SaveWrites ==
  ASSUME NEW m, NEW s, NEW ok \in BOOLEAN, Save(m, s, ok)
  PROVE  disk' \in {disk, Snapshot(m, s)} /\ (ok => disk' = Snapshot(m, s))
BY DEF Save

\* Every step is one of these.
LEMMA Outcomes ==
  ASSUME IndInv, [Next]_vars
  PROVE  (Shuffle \/ Crash \/ Restore) \/ \E r \in Request : Outcome(r)
<1>0. TypeOK /\ QueueInv /\ LaneInv
  BY DEF IndInv
<1>1. CASE CloseAdmission
  BY <1>0, <1>1, CancelKeeps
<1>2. ASSUME NEW r \in Request, Acquire(r) \/ LeaveQueue(r) \/ GiveUp(r) \/ Unquarantine(r)
      PROVE  Shuffle
  BY <1>0, <1>2, AcquireKeeps, LeaveKeeps, GiveUpKeeps, UnquarantineKeeps
<1>3. ASSUME NEW r \in Request, Begin(r) PROVE Began(r)
  <2>1. up /\ phase[r] = "idle" /\ UNCHANGED <<up, helper, marked, attached, seen, file, state, mem, disk, givenUp>>
    BY <1>3 DEF Begin, process, evidence
  <2>2. Reply(r, "refused") => Step(r, {"over"}) /\ Answered(r, "refused")
    BY <1>0, <2>1, MoveSteps DEF Phases
  <2>3. Go(r, "begun") => Step(r, {"begun"})
    BY <1>0, <2>1, MoveSteps DEF Phases
  <2> QED
    BY <1>3, <2>1, <2>2, <2>3 DEF Begin, Began
<1>4. ASSUME NEW r \in Request, Prepare(r) PROVE PreparedBy(r)
  <2>1. /\ up /\ phase[r] = "begun" /\ UNCHANGED <<up, helper, marked, attached, seen, file, givenUp>>
        /\ state' = [state EXCEPT ![r] = "prepared"]
    BY <1>4 DEF Prepare, process
  <2>2. state'[r] = "prepared" /\ Others(state', state, r)
    BY <1>0, <2>1 DEF TypeOK, Others
  <2>3. CASE mem' = Remember(r) /\ Save(mem', state', TRUE) /\ Go(r, "prepared") /\ UNCHANGED answer
    <3>1. Step(r, {"prepared"})
      BY <1>0, <2>1, <2>3, MoveSteps DEF Phases
    <3>2. disk' = Snapshot(mem', state')
      BY <2>3 DEF Save
    <3> QED
      BY <2>1, <2>2, <2>3, <3>1, <3>2 DEF PreparedBy, Writes
  <2>4. CASE mem' = Forget(r) /\ Save(Remember(r), state', FALSE) /\ Reply(r, "failed")
    <3>1. Step(r, {"over"}) /\ Answered(r, "failed")
      BY <1>0, <2>1, <2>4, MoveSteps DEF Phases
    <3>2. disk' \in {disk, Snapshot(Remember(r), state')}
      BY <2>4 DEF Save
    <3> QED
      BY <2>1, <2>2, <2>4, <3>1, <3>2 DEF PreparedBy, Writes
  <2> QED
    BY <1>4, <2>3, <2>4 DEF Prepare
<1>5. ASSUME NEW r \in Request, Spawn(r) PROVE Spawned(r)
  <2>1. Step(r, {"running"}) /\ phase[r] = "slot"
    BY <1>0, <1>5, SpawnKeeps
  <2> QED
    BY <1>0, <1>5, <2>1 DEF Spawn, Spawned, Others, evidence, TypeOK
<1>6. ASSUME NEW r \in Request, HelperMarks(r) \/ HelperEnds(r) PROVE Moved(r)
  BY <1>0, <1>6 DEF HelperMarks, HelperEnds, Moved, Others, Live, evidence, TypeOK
<1>7. ASSUME NEW r \in Request, SeeMarker(r) PROVE Saw(r)
  BY <1>0, <1>7, SightSeen DEF SeeMarker, Saw, process
<1>8. ASSUME NEW r \in Request, Close(r) \/ Stop(r) \/ AfterKill(r) PROVE EndedBy(r)
  <2>1. Ended(r)
    BY <1>0, <1>8, EndKeeps
  <2> QED
    BY <1>0, <2>1, SightSeen DEF EndedBy, Told
<1>9. ASSUME NEW r \in Request, Record(r) PROVE SettledBy(r)
  <2>1. /\ up /\ phase[r] = "committed" /\ UNCHANGED <<up, helper, marked, attached, seen, givenUp>>
        /\ state' = [state EXCEPT ![r] = "settled"] /\ mem' = Remember(r)
    BY <1>9 DEF Record, process
  <2>2. Step(r, {"over"}) /\ Answered(r, "done")
    BY <1>0, <1>9, MoveSteps DEF Record, Phases
  <2>3. state'[r] = "settled" /\ Others(state', state, r)
    BY <1>0, <2>1 DEF TypeOK, Others
  <2>4. \/ disk' = Snapshot(mem', state') /\ file' = file \ {r}
        \/ disk' \in {disk, Snapshot(mem', state')} /\ file' = file
    BY <1>9 DEF Record, Save
  <2> QED
    BY <2>1, <2>2, <2>3, <2>4 DEF SettledBy, Writes
<1>10. ASSUME NEW r \in Request, Recover(r) PROVE Regained(r) \/ Forgotten(r)
  <2>1. up /\ phase[r] = "failing" /\ UNCHANGED <<up, helper, marked, attached, seen>>
    BY <1>10 DEF Recover, process
  <2>2. CASE /\ Committed(r) \/ r \in file
             /\ state' = [state EXCEPT ![r] = "settled"] /\ mem' = Remember(r)
             /\ \E ok \in BOOLEAN : Save(mem', state', ok)
             /\ Go(r, "committed") /\ UNCHANGED <<answer, file, seen, givenUp>>
    <3>1. Step(r, {"committed"})
      BY <1>0, <2>1, <2>2, MoveSteps DEF Phases
    <3>2. state'[r] = "settled" /\ Others(state', state, r)
      BY <1>0, <2>2 DEF TypeOK, Others
    <3>3. disk' \in {disk, Snapshot(mem', state')}
      BY <2>2, SaveWrites
    <3> QED
      BY <2>1, <2>2, <3>1, <3>2, <3>3 DEF Regained, Writes
  <2>3. CASE /\ ~Committed(r) /\ mem' = Forget(r) /\ Reply(r, "failed") /\ UNCHANGED <<state, seen>>
             /\ \/ r \notin file /\ UNCHANGED file /\ givenUp' = Outlives(r)
                     /\ \E ok \in BOOLEAN : Save(mem', state, ok)
                \/ disk' = Snapshot(mem', state) /\ file' = file \ {r} /\ givenUp' = givenUp \cup {r}
    <3>1. Step(r, {"over"}) /\ Answered(r, "failed")
      BY <1>0, <2>1, <2>3, MoveSteps DEF Phases
    <3>2. disk' \in {disk, Snapshot(mem', state)}
      BY <2>3, SaveWrites
    <3> QED
      BY <2>1, <2>3, <3>1, <3>2 DEF Forgotten
  <2> QED
    BY <1>10, <2>2, <2>3 DEF Recover
<1>11. CASE UNCHANGED vars
  BY <1>0, <1>11 DEF vars, process, evidence, Shuffle, TypeOK
<1> QED
  BY <1>1, <1>2, <1>3, <1>4, <1>5, <1>6, <1>7, <1>8, <1>9, <1>10, <1>11 DEF Next, Serve,
     Outcome
-----------------------------------------------------------------------------
(* How far a route has come                                                *)

LEMMA KeptKeyed ==
  ASSUME TypeOK, Keyed(mem), NEW r \in Request
  PROVE  /\ Remember(r) \in Mems /\ Keyed(Remember(r))
         /\ Forget(r) \in Mems /\ Keyed(Forget(r))
         /\ Remember(r)[ActionOf[r]] = r /\ Forget(r)[ActionOf[r]] = NoRequest
         /\ \A a \in Action \ {ActionOf[r]} : Remember(r)[a] = mem[a] /\ Forget(r)[a] = mem[a]
<1>1. mem \in [Action -> Request \cup {NoRequest}] /\ ActionOf[r] \in Action
  BY LocalActionAssumption DEF TypeOK
<1>2. /\ Remember(r) \in Mems /\ Forget(r) \in Mems
      /\ Remember(r)[ActionOf[r]] = r /\ Forget(r)[ActionOf[r]] = NoRequest
      /\ \A a \in Action \ {ActionOf[r]} : Remember(r)[a] = mem[a] /\ Forget(r)[a] = mem[a]
  BY <1>1 DEF Remember, Forget, Mems
<1> QED
  BY <1>2 DEF Keyed

LEMMA SavedRecords ==
  ASSUME NEW m \in Mems, Keyed(m), NEW s \in [Request -> States], NEW done,
         \A x \in Request : s[x] \in Known => x \in done
  PROVE  Records(Snapshot(m, s), done)
<1>1. ASSUME NEW a \in Action
      PROVE  /\ Snapshot(m, s)[a].of # NoRequest => ActionOf[Snapshot(m, s)[a].of] = a
             /\ Snapshot(m, s)[a].state \in Known => Snapshot(m, s)[a].of \in done
  <2>1. /\ Snapshot(m, s)[a].of = m[a]
        /\ Snapshot(m, s)[a].state = IF m[a] = NoRequest THEN "none" ELSE s[m[a]]
    BY SnapshotTypes
  <2>2. m[a] \in Request \cup {NoRequest}
    BY DEF Mems
  <2> QED
    BY <2>1, <2>2 DEF Keyed, Known
<1> QED
  BY <1>1 DEF Records

LEMMA LifeStep == IndInv /\ TypeOK' /\ [Next]_vars => LifeInv'
<1> SUFFICES ASSUME IndInv, TypeOK', [Next]_vars PROVE LifeInv'
  OBVIOUS
<1>0. TypeOK /\ RouteLife /\ Keyed(mem) /\ Records(disk, marked) /\ marked \subseteq Request
      /\ file \subseteq Request /\ attached \subseteq Request
  BY DEF LifeInv, IndInv, TypeOK
<1> SUFFICES RouteLife' /\ Keyed(mem)' /\ Records(disk, marked)'
  BY DEF LifeInv
<1>a. state' \in [Request -> States] /\ mem' \in Mems
  BY DEF TypeOK, Mems
\* The records follow the route.
<1>b. ASSUME RouteLife', marked \subseteq marked', NEW m \in Mems, Keyed(m),
             disk' \in {disk, Snapshot(m, state')}
      PROVE  Records(disk', marked')
  <2>1. Records(Snapshot(m, state'), marked')
    BY <1>a, <1>b, SavedRecords DEF RouteLife
  <2>2. Records(disk, marked')
    BY <1>0, <1>b DEF Records
  <2> QED
    BY <1>b, <2>1, <2>2
<1>1. CASE Shuffle
  <2>1. RouteLife'
    BY <1>0, <1>1 DEF Shuffle, RouteLife, Waiting, Rest
  <2> QED
    BY <1>0, <1>1, <2>1 DEF Shuffle
<1>2. CASE Crash
  <2>1. RouteLife'
    BY <1>0, <1>2 DEF Crash, RouteLife, Rest
  <2> QED
    BY <1>0, <1>2, <2>1 DEF Crash, Keyed
<1>3. CASE Restore
  <2>1. PICK unread \in SUBSET (Recorded \cap file), ok \in BOOLEAN :
          /\ state' = [r \in Request |-> IF r \in Recorded THEN RestoredState(r, unread) ELSE state[r]]
          /\ mem' = [a \in Action |->
                       LET r == disk[a].of
                       IN IF r = NoRequest \/ (r # NoRequest /\ state'[r] = "prepared")
                          THEN NoRequest ELSE r]
          /\ disk' \in (IF ok THEN {} ELSE {disk}) \cup {Snapshot(mem', state')}
          /\ file' = IF ok THEN file \ (Recorded \ unread) ELSE file
    BY <1>3 DEF Restore
  <2>2. up' = TRUE /\ UNCHANGED <<phase, helper, marked, attached, seen>>
    BY <1>3 DEF Restore, process
  <2>3. \A r \in Recorded : RestoredState(r, unread) \in Known => r \in marked
    BY <1>0, LocalActionAssumption DEF RestoredState, Recorded, Records, RouteLife
  <2>4. RouteLife'
    BY <1>0, <2>1, <2>2, <2>3 DEF RouteLife
  <2>5. Keyed(mem)'
    BY <1>0, <2>1 DEF Keyed, Records
  <2> QED
    BY <1>a, <1>b, <2>1, <2>2, <2>4, <2>5
<1>4. ASSUME NEW r \in Request, Outcome(r)
      PROVE  RouteLife' /\ Keyed(mem)' /\ Records(disk, marked)'
  <2>0. /\ Remember(r) \in Mems /\ Keyed(Remember(r)) /\ Forget(r) \in Mems /\ Keyed(Forget(r))
    BY <1>0, KeptKeyed
  <2>1. CASE Began(r)
    BY <1>0, <2>1 DEF Began, Step, RouteLife
  <2>2. CASE PreparedBy(r)
    <3>1. RouteLife'
      BY <1>0, <2>2 DEF PreparedBy, Writes, Others, Step, RouteLife, Known
    <3>2. Keyed(mem)'
      BY <2>0, <2>2 DEF PreparedBy
    <3> QED
      BY <1>b, <2>0, <2>2, <3>1 DEF PreparedBy, Writes
  <2>3. CASE Spawned(r)
    <3>1. RouteLife'
      BY <1>0, <2>3 DEF Spawned, Others, Step, RouteLife
    <3> QED
      BY <1>0, <2>3, <3>1 DEF Spawned
  <2>4. CASE Moved(r)
    <3>1. RouteLife'
      BY <1>0, <2>4 DEF Moved, Others, RouteLife
    <3> QED
      BY <1>0, <2>4, <3>1 DEF Moved, Records
  <2>5. CASE Saw(r)
    <3>1. RouteLife'
      BY <1>0, <2>5 DEF Saw, Sight, Writes, Others, RouteLife
    <3>2. Keyed(mem)'
      BY <1>0, <2>0, <2>5 DEF Saw, Sight
    <3>3. \E m \in Mems : Keyed(m) /\ disk' \in {disk, Snapshot(m, state')}
      BY <2>0, <2>5 DEF Saw, Sight, Writes
    <3> QED
      BY <1>b, <2>5, <3>1, <3>2, <3>3 DEF Saw
  <2>6. CASE EndedBy(r)
    <3>1. RouteLife'
      <4>1. CASE Told(r)
        BY <1>0, <2>6 DEF EndedBy, Ended, Told, Untold, Killing, Sight, Writes, Others, Step,
           RouteLife
      <4>2. CASE Untold(r) \/ Killing(r)
        BY <1>0, <2>6, <4>2 DEF EndedBy, Ended, Untold, Killing, Step, RouteLife
      <4> QED
        BY <2>6, <4>1, <4>2 DEF EndedBy, Ended
    <3>2. Keyed(mem)'
      BY <1>0, <2>0, <2>6 DEF EndedBy, Ended, Untold, Killing, Sight
    <3>3. \E m \in Mems : Keyed(m) /\ disk' \in {disk, Snapshot(m, state')}
      BY <2>0, <2>6 DEF EndedBy, Ended, Untold, Killing, Sight, Writes
    <3> QED
      BY <1>b, <2>6, <3>1, <3>2, <3>3 DEF EndedBy, Ended
  <2>7. CASE SettledBy(r)
    <3>1. RouteLife'
      BY <1>0, <2>7 DEF SettledBy, Writes, Others, Step, RouteLife
    <3> QED
      BY <1>b, <2>0, <2>7, <3>1 DEF SettledBy, Writes
  <2>8. CASE Regained(r)
    <3>1. RouteLife'
      BY <1>0, <2>8 DEF Regained, Writes, Others, Step, RouteLife, Committed, Known
    <3> QED
      BY <1>b, <2>0, <2>8, <3>1 DEF Regained, Writes
  <2>9. CASE Forgotten(r)
    <3>1. RouteLife'
      BY <1>0, <2>9 DEF Forgotten, Step, RouteLife
    <3> QED
      BY <1>b, <2>0, <2>9, <3>1 DEF Forgotten
  <2> QED
    BY <1>4, <2>1, <2>2, <2>3, <2>4, <2>5, <2>6, <2>7, <2>8, <2>9 DEF Outcome
<1> QED
  BY <1>1, <1>2, <1>3, <1>4, Outcomes
-----------------------------------------------------------------------------
(* One route at a time has an id                                           *)

\* A route only begins, or starts a helper, when it is alone.
LEMMA AloneStep == IndInv /\ TypeOK' /\ [Next]_vars => AloneInv'
<1> SUFFICES ASSUME IndInv, TypeOK', [Next]_vars PROVE AloneInv'
  OBVIOUS
<1>0. TypeOK /\ RouteLife /\ AloneInv /\ RecordInv
  BY DEF LifeInv, IndInv
<1>1. ASSUME \A x \in Request : phase'[x] \notin Rest => phase[x] \notin Rest,
             \A x \in Request : Acts(x)' => Acts(x)
      PROVE  AloneInv'
  BY <1>0, <1>1 DEF AloneInv
<1>2. CASE Shuffle
  BY <1>1, <1>2 DEF Shuffle, Waiting, Rest, Acts, Live
<1>3. CASE Crash
  BY <1>1, <1>3 DEF Crash, Rest, Acts, Live
<1>4. CASE Restore
  BY <1>1, <1>4 DEF Restore, Acts, Live, process
<1>5. ASSUME NEW r \in Request, Outcome(r) PROVE AloneInv'
  <2>1. CASE Began(r)
    <3>1. /\ \A x \in Request \ {r} : phase'[x] \notin Rest => phase[x] \notin Rest
          /\ \A x \in Request : Acts(x)' <=> Acts(x)
      BY <2>1 DEF Began, Step, Rest, Acts, Live
    <3>2. CASE phase'[r] = "over"
      BY <1>1, <3>1, <3>2 DEF Rest
    <3>3. CASE mem[ActionOf[r]] = NoRequest /\ ~InProgress(ActionOf[r])
      <4>1. \A s \in Request : ActionOf[s] = ActionOf[r] => phase[s] \in Rest /\ ~Acts(s)
        BY <1>0, <2>1, <3>3 DEF Began, InProgress, RecordInv, InMem, Rest
      <4> QED
        BY <1>0, <3>1, <4>1 DEF AloneInv
    <3> QED
      BY <2>1, <3>2, <3>3 DEF Began, Step
  <2>2. CASE Spawned(r)
    <3>1. \A x \in Request : phase'[x] \notin Rest => phase[x] \notin Rest
      BY <2>2 DEF Spawned, Step, Rest
    <3>2. phase[r] \notin Rest /\ \A x \in Request \ {r} : Acts(x)' => Acts(x)
      BY <2>2 DEF Spawned, Others, Rest, Acts, Live
    <3> QED
      BY <1>0, <3>1, <3>2 DEF AloneInv
  <2>3. CASE Moved(r)
    BY <1>1, <2>3 DEF Moved, Others, Acts, Live
  <2>4. CASE Saw(r)
    BY <1>1, <2>4 DEF Saw, Acts, Live
  <2>5. CASE EndedBy(r)
    BY <1>1, <2>5 DEF EndedBy, Ended, Told, Untold, Killing, Step, Rest, Acts, Live
  <2>6. CASE PreparedBy(r) \/ SettledBy(r) \/ Regained(r) \/ Forgotten(r)
    <3>1. \A x \in Request : phase'[x] \notin Rest => phase[x] \notin Rest
      BY <2>6 DEF PreparedBy, SettledBy, Regained, Forgotten, Step, Rest
    <3>2. UNCHANGED <<helper, marked>> /\ givenUp \subseteq givenUp'
      BY <2>6 DEF PreparedBy, SettledBy, Regained, Forgotten, Outlives
    <3> QED
      BY <1>1, <3>1, <3>2 DEF Acts, Live
  <2> QED
    BY <1>5, <2>1, <2>2, <2>3, <2>4, <2>5, <2>6 DEF Outcome
<1> QED
  BY <1>2, <1>3, <1>4, <1>5, Outcomes

-----------------------------------------------------------------------------
(* What is recorded                                                        *)

\* Who has acted and is not told by the commit file is known to the memory.
LEMMA DoneIsKnown ==
  ASSUME TypeOK, DoneInv, RecordInv, up, NEW s \in Good,
         s \notin file \/ phase[s] = "over" \/ seen[s] = "saved"
  PROVE  KnownInMem(s)
<1>1. s \in Request /\ Acts(s)
  BY DEF TypeOK, Good, Acts
<1>2. CASE phase[s] = "over"
  BY <1>2 DEF DoneInv
<1>3. CASE phase[s] # "over"
  <2>1. Committed(s) /\ InMem(s)
    BY <1>1, <1>3 DEF DoneInv, RecordInv
  <2> QED
    BY <2>1 DEF Committed, InMem, KnownInMem, Known
<1> QED
  BY <1>2, <1>3

\* The record of r changes: what is under another id stays.
LEMMA Elsewhere ==
  ASSUME TypeOK, state' \in [Request -> States], Keyed(mem), NEW r \in Request,
         Others(state', state, r), mem' \in {Remember(r), Forget(r)},
         NEW m \in {Remember(r), Forget(r)}, disk' \in {disk, Snapshot(m, state')},
         NEW s \in Request, ActionOf[s] # ActionOf[r]
  PROVE  /\ InMem(s) => InMem(s)'
         /\ InMem(s) /\ OnDisk(s) => OnDisk(s)'
         /\ KnownInMem(s) => KnownInMem(s)'
         /\ KnownInMem(s) /\ KnownOnDisk(s) => KnownOnDisk(s)'
<1> DEFINE a == ActionOf[s]
<1>1. a \in Action \ {ActionOf[r]}
  BY LocalActionAssumption
<1>2. mem'[a] = mem[a] /\ m[a] = mem[a] /\ m \in Mems
  BY <1>1, KeptKeyed
<1>3. mem[a] # NoRequest => mem[a] \in Request \ {r} /\ state'[mem[a]] = state[mem[a]]
  BY <1>1 DEF TypeOK, Keyed, Others
<1>4. /\ Snapshot(m, state')[a].of = mem[a]
      /\ Snapshot(m, state')[a].state = IF mem[a] = NoRequest THEN "none" ELSE state'[mem[a]]
  BY <1>1, <1>2, SnapshotTypes
<1>5. disk'[a] = disk[a] \/ (disk'[a].of = mem[a] /\ (mem[a] # NoRequest => disk'[a].state = state[mem[a]]))
  BY <1>3, <1>4
<1> HIDE DEF a
<1>6. (mem'[a] # NoRequest) <=> (mem[a] # NoRequest)
  BY <1>2
<1>7. /\ (mem[a] # NoRequest /\ (mem[a] = s \/ state[mem[a]] \in Known))
           => (mem'[a] # NoRequest /\ (mem'[a] = s \/ state'[mem'[a]] \in Known))
      /\ (mem[a] # NoRequest /\ state[mem[a]] \in Known)
           => (mem'[a] # NoRequest /\ state'[mem'[a]] \in Known)
  BY <1>2, <1>3
<1>8. /\ (/\ mem[a] # NoRequest /\ (mem[a] = s \/ state[mem[a]] \in Known)
          /\ disk[a].of # NoRequest /\ (disk[a].of = s \/ disk[a].state \in Known))
           => (disk'[a].of # NoRequest /\ (disk'[a].of = s \/ disk'[a].state \in Known))
      /\ (/\ mem[a] # NoRequest /\ state[mem[a]] \in Known
          /\ disk[a].of # NoRequest /\ disk[a].state \in Known)
           => (disk'[a].of # NoRequest /\ disk'[a].state \in Known)
  BY <1>5
<1> QED
  BY <1>7, <1>8 DEF a, InMem, OnDisk, KnownInMem, KnownOnDisk

\* The record of r tells of its commit: everyone under its id is known.
LEMMA Telling ==
  ASSUME TypeOK, state' \in [Request -> States], Keyed(mem), NEW r \in Request, state'[r] \in Known,
         mem' = Remember(r), disk' \in {disk, Snapshot(mem', state')},
         NEW s \in Request, ActionOf[s] = ActionOf[r]
  PROVE  /\ InMem(s)' /\ KnownInMem(s)'
         /\ OnDisk(s) => OnDisk(s)'
         /\ KnownOnDisk(s) \/ disk' = Snapshot(mem', state') => KnownOnDisk(s)'
<1> DEFINE a == ActionOf[s]
<1>1. a \in Action /\ mem'[a] = r /\ mem' \in Mems /\ r # NoRequest
  BY KeptKeyed, LocalActionAssumption
<1>2. Snapshot(mem', state')[a].of = r /\ Snapshot(mem', state')[a].state = state'[r]
  BY <1>1, SnapshotTypes
<1>3. disk'[a] = disk[a] \/ (disk'[a].of = r /\ disk'[a].state = state'[r])
  BY <1>2
<1> QED
  BY <1>1, <1>2 DEF InMem, OnDisk, KnownInMem, KnownOnDisk

\* A restoration knows whatever has been done, and keeps it on disk.
LEMMA RestoredIsKnown ==
  ASSUME TypeOK, TypeOK', LifeInv, RecordInv, DoneInv, Restore, NEW s \in Good
  PROVE  /\ KnownInMem(s)'
         /\ disk' = Snapshot(mem', state') \/ (disk' = disk /\ file' = file)
<1>1. PICK unread \in SUBSET (Recorded \cap file), ok \in BOOLEAN :
        /\ state' = [r \in Request |-> IF r \in Recorded THEN RestoredState(r, unread) ELSE state[r]]
        /\ mem' = [a \in Action |->
                     LET r == disk[a].of
                     IN IF r = NoRequest \/ (r # NoRequest /\ state'[r] = "prepared")
                        THEN NoRequest ELSE r]
        /\ disk' \in (IF ok THEN {} ELSE {disk}) \cup {Snapshot(mem', state')}
        /\ file' = IF ok THEN file \ (Recorded \ unread) ELSE file
  BY DEF Restore
<1>2. disk' = Snapshot(mem', state') \/ (disk' = disk /\ file' = file)
  BY <1>1
<1> DEFINE a == ActionOf[s]
           x == disk[a].of
<1>3. s \in Request /\ a \in Action /\ Records(disk, marked) /\ Acts(s)
  BY LocalActionAssumption DEF LifeInv, TypeOK, Good, Acts
<1>4. x # NoRequest /\ (x = s \/ disk[a].state \in Known) /\ (s \notin file => disk[a].state \in Known)
  BY <1>3 DEF RecordInv, DoneInv, OnDisk, KnownOnDisk
<1>5. x \in Request /\ ActionOf[x] = a
  BY <1>3, <1>4 DEF TypeOK, Records
<1>6. x \in Recorded /\ state'[x] = RestoredState(x, unread)
  BY <1>1, <1>5 DEF Recorded
<1>7. RestoredState(x, unread) \in Known
  BY <1>4, <1>5 DEF RestoredState, Known
<1>8. state'[x] \in Known /\ state'[x] # "prepared"
  BY <1>6, <1>7 DEF Known
<1>9. mem'[a] = x
  BY <1>1, <1>3, <1>8
<1> QED
  BY <1>2, <1>4, <1>8, <1>9 DEF KnownInMem

\* What stands in memory stands on disk when it is saved.
LEMMA SavedIsKnown ==
  ASSUME TypeOK', disk' = Snapshot(mem', state'), NEW s \in Request, KnownInMem(s)'
  PROVE  KnownOnDisk(s)' /\ OnDisk(s)'
<1>1. mem' \in Mems /\ state' \in [Request -> States] /\ ActionOf[s] \in Action
  BY LocalActionAssumption DEF TypeOK, Mems
<1>2. /\ disk'[ActionOf[s]].of = mem'[ActionOf[s]]
      /\ mem'[ActionOf[s]] # NoRequest => disk'[ActionOf[s]].state = state'[mem'[ActionOf[s]]]
  BY <1>1, SnapshotTypes
<1> QED
  BY <1>2 DEF KnownInMem, KnownOnDisk, OnDisk

\* Who is forgotten has not acted, or is given up.
LEMMA ForgottenIsUndone ==
  ASSUME TypeOK, DoneInv, NEW r \in Request, Forgotten(r)
  PROVE  ~Acts(r)'
<1>1. up /\ phase[r] = "failing" /\ ~Committed(r) /\ UNCHANGED <<helper, marked>>
      /\ \/ r \notin file /\ givenUp' = Outlives(r)
         \/ givenUp' = givenUp \cup {r}
  BY DEF Forgotten
<1>2. r \notin file => r \notin Good
  BY <1>1 DEF DoneInv
<1> QED
  BY <1>1, <1>2 DEF Acts, Good, Live, Outlives

\* Every route has its record, and every helper that may still act.
LEMMA RecordStep == IndInv /\ TypeOK' /\ [Next]_vars => RecordInv'
<1> SUFFICES ASSUME IndInv, TypeOK', [Next]_vars PROVE RecordInv'
  OBVIOUS
<1>0. TypeOK /\ LifeInv /\ RouteLife /\ Keyed(mem) /\ AloneInv /\ RecordInv /\ DoneInv
  BY DEF LifeInv, IndInv
<1>a. state' \in [Request -> States]
  BY DEF TypeOK
\* Steps that leave the records alone.
<1>1. ASSUME UNCHANGED <<state, mem, disk>>, up' => up,
             \A x \in Request : phase'[x] \in Saved \/ Acts(x)' => phase[x] \in Saved \/ Acts(x)
      PROVE  RecordInv'
  BY <1>0, <1>1 DEF RecordInv, InMem, OnDisk
<1>2. CASE Shuffle
  BY <1>1, <1>2 DEF Shuffle, Waiting, Saved, Acts, Live
<1>3. CASE Crash
  <2>1. up' = FALSE /\ disk' = disk /\ \A x \in Request : phase'[x] \notin Saved /\ (Acts(x)' <=> Acts(x))
    BY <1>3 DEF Crash, Saved, Acts, Live
  <2> QED
    BY <1>0, <2>1 DEF RecordInv, OnDisk
<1>4. CASE Restore
  <2>1. UNCHANGED <<phase, helper, marked>> /\ ~up
        /\ givenUp' = givenUp \cup {x \in Request : Live(x) /\ x \notin marked}
    BY <1>4 DEF Restore, process
  <2>2. ASSUME NEW s \in Request, phase'[s] \in Saved \/ Acts(s)'
        PROVE  InMem(s)' /\ OnDisk(s)'
    <3>1. phase[s] \in Rest /\ s \in Good
      BY <1>0, <2>1, <2>2 DEF RouteLife, Rest, Saved, Acts, Live, Good
    <3>2. KnownInMem(s)' /\ (disk' = Snapshot(mem', state') \/ disk' = disk)
      BY <1>0, <1>4, <3>1, RestoredIsKnown
    <3>3. OnDisk(s)
      BY <1>0, <3>1 DEF RecordInv, Acts, Good
    <3> QED
      BY <3>2, <3>3, SavedIsKnown DEF KnownInMem, InMem, OnDisk
  <2> QED
    BY <2>2 DEF RecordInv
<1>5. ASSUME NEW r \in Request, Outcome(r) PROVE RecordInv'
  <2>1. CASE Began(r)
    BY <1>1, <2>1 DEF Began, Step, Saved, Acts, Live
  <2>2. CASE Spawned(r)
    BY <1>1, <2>2 DEF Spawned, Others, Step, Saved, Acts, Live
  <2>3. CASE Moved(r)
    BY <1>1, <2>3 DEF Moved, Others, Acts, Live
  \* The steps that tell of a commit.
  <2>4. ASSUME up, state'[r] \in Known, Others(state', state, r),
               mem' = Remember(r), disk' \in {disk, Snapshot(mem', state')},
               \A x \in Request : phase'[x] \in Saved \/ Acts(x)' => phase[x] \in Saved \/ Acts(x)
        PROVE  RecordInv'
    <3>1. ASSUME NEW s \in Request, phase[s] \in Saved \/ Acts(s)
          PROVE  InMem(s)' /\ OnDisk(s)'
      <4>1. InMem(s) /\ OnDisk(s)
        BY <1>0, <2>4, <3>1 DEF RecordInv
      <4>2. CASE ActionOf[s] = ActionOf[r]
        BY <1>0, <1>a, <2>4, <4>1, <4>2, Telling
      <4>3. CASE ActionOf[s] # ActionOf[r]
        BY <1>0, <1>a, <2>4, <4>1, <4>3, Elsewhere
      <4> QED
        BY <4>2, <4>3
    <3> QED
      BY <2>4, <3>1 DEF RecordInv
  <2>5. CASE Saw(r)
    <3>1. CASE seen[r] = "no"
      <4>1. up /\ \A x \in Request : phase'[x] = phase[x] /\ (Acts(x)' <=> Acts(x))
        BY <2>5 DEF Saw, Acts, Live
      <4>2. Writes(r, "committed", mem') /\ mem' = Remember(r)
        BY <2>5, <3>1 DEF Saw, Sight
      <4> QED
        BY <2>4, <4>1, <4>2 DEF Writes, Known
    <3>2. CASE seen[r] # "no"
      BY <1>1, <2>5, <3>2 DEF Saw, Sight, Acts, Live
    <3> QED
      BY <3>1, <3>2
  <2>6. CASE EndedBy(r)
    <3>1. /\ up /\ up' = up
          /\ \A x \in Request : phase'[x] \in Saved \/ Acts(x)' => phase[x] \in Saved \/ Acts(x)
      BY <2>6 DEF EndedBy, Ended, Told, Untold, Killing, Step, Saved, Acts, Live
    <3>2. CASE UNCHANGED <<state, mem, disk>>
      BY <1>1, <3>1, <3>2
    <3>3. CASE Writes(r, "committed", mem') /\ mem' = Remember(r)
      BY <2>4, <3>1, <3>3 DEF Writes, Known
    <3> QED
      BY <2>6, <3>2, <3>3 DEF EndedBy, Ended, Untold, Killing, Sight
  <2>7. CASE SettledBy(r) \/ Regained(r)
    <3>1. /\ up
          /\ \A x \in Request : phase'[x] \in Saved \/ Acts(x)' => phase[x] \in Saved \/ Acts(x)
      BY <2>7 DEF SettledBy, Regained, Step, Saved, Acts, Live
    <3>2. Writes(r, "settled", mem') /\ mem' = Remember(r)
      BY <2>7 DEF SettledBy, Regained
    <3> QED
      BY <2>4, <3>1, <3>2 DEF Writes, Known
  \* The steps after which another record, or none, stands under the id.
  <2>8. ASSUME up, phase[r] \notin Rest, Others(state', state, r),
               mem' \in {Remember(r), Forget(r)},
               NEW m \in {Remember(r), Forget(r)}, disk' \in {disk, Snapshot(m, state')},
               phase'[r] \in Saved \/ Acts(r)' => InMem(r)' /\ OnDisk(r)',
               \A x \in Request \ {r} : phase'[x] \in Saved \/ Acts(x)' => phase[x] \in Saved \/ Acts(x)
        PROVE  RecordInv'
    <3>1. ASSUME NEW s \in Request \ {r}, phase[s] \in Saved \/ Acts(s)
          PROVE  InMem(s)' /\ OnDisk(s)'
      <4>1. ActionOf[s] # ActionOf[r]
        BY <1>0, <2>8, <3>1 DEF AloneInv, Saved, Rest
      <4>2. InMem(s) /\ OnDisk(s)
        BY <1>0, <2>8, <3>1 DEF RecordInv
      <4> QED
        BY <1>0, <1>a, <2>8, <4>1, <4>2, Elsewhere
    <3> QED
      BY <2>8, <3>1 DEF RecordInv
  <2>9. CASE PreparedBy(r)
    <3>1. /\ up /\ phase[r] \notin Rest /\ Others(state', state, r)
          /\ mem' \in {Remember(r), Forget(r)} /\ disk' \in {disk, Snapshot(Remember(r), state')}
          /\ \A x \in Request \ {r} : phase'[x] \in Saved \/ Acts(x)' => phase[x] \in Saved \/ Acts(x)
      BY <2>9 DEF PreparedBy, Writes, Step, Saved, Acts, Live, Rest
    <3>2. ~Acts(r)'
      BY <1>0, <2>9 DEF PreparedBy, RouteLife, Acts, Live
    <3>3. phase'[r] \in Saved => InMem(r)' /\ OnDisk(r)'
      <4>1. ASSUME phase'[r] \in Saved PROVE mem' = Remember(r) /\ disk' = Snapshot(mem', state')
        BY <2>9, <4>1 DEF PreparedBy, Step, Saved
      <4>2. /\ Remember(r)[ActionOf[r]] = r /\ Remember(r) \in Mems /\ ActionOf[r] \in Action
            /\ r # NoRequest
        BY <1>0, KeptKeyed, LocalActionAssumption
      <4>3. Snapshot(Remember(r), state')[ActionOf[r]].of = r
        BY <1>a, <4>2, SnapshotTypes
      <4> QED
        BY <4>1, <4>2, <4>3 DEF InMem, OnDisk
    <3> QED
      BY <2>8, <3>1, <3>2, <3>3
  <2>10. CASE Forgotten(r)
    <3>1. /\ up /\ phase[r] \notin Rest /\ Others(state', state, r) /\ phase'[r] \notin Saved
          /\ mem' \in {Remember(r), Forget(r)} /\ disk' \in {disk, Snapshot(Forget(r), state')}
          /\ \A x \in Request \ {r} : phase'[x] \in Saved \/ Acts(x)' => phase[x] \in Saved \/ Acts(x)
      BY <2>10 DEF Forgotten, Others, Step, Saved, Acts, Live, Rest, Outlives
    <3>2. ~Acts(r)'
      BY <1>0, <2>10, ForgottenIsUndone
    <3> QED
      BY <2>8, <3>1, <3>2
  <2> QED
    BY <1>5, <2>1, <2>2, <2>3, <2>5, <2>6, <2>7, <2>9, <2>10 DEF Outcome
<1> QED
  BY <1>2, <1>3, <1>4, <1>5, Outcomes
\* What has been done stays told, by the commit file or by the record.
LEMMA DoneStep == IndInv /\ TypeOK' /\ [Next]_vars => DoneInv'
<1> SUFFICES ASSUME IndInv, TypeOK', [Next]_vars PROVE DoneInv'
  OBVIOUS
<1>0. TypeOK /\ LifeInv /\ RouteLife /\ Keyed(mem) /\ AloneInv /\ RecordInv /\ DoneInv
      /\ marked \subseteq Request
  BY DEF LifeInv, IndInv, TypeOK
<1>a. state' \in [Request -> States]
  BY DEF TypeOK
\* Steps that leave the records alone.
<1>1. ASSUME UNCHANGED <<up, helper, marked, seen, file, state, mem, disk, givenUp>>,
             \A x \in Request : phase'[x] = "over" <=> phase[x] = "over"
      PROVE  DoneInv'
  BY <1>0, <1>1 DEF DoneInv, Good, KnownInMem, KnownOnDisk, Committed, Live
<1>2. CASE Shuffle
  BY <1>1, <1>2 DEF Shuffle, Waiting
<1>3. CASE Crash
  <2>1. /\ up' = FALSE /\ UNCHANGED <<marked, seen, file, state, disk, givenUp>>
        /\ \A x \in Request : phase'[x] # "over" => phase[x] # "over"
    BY <1>3 DEF Crash
  <2> QED
    BY <1>0, <2>1 DEF DoneInv, Good, KnownOnDisk, Committed
<1>4. CASE Restore
  <2>1. UNCHANGED <<phase, helper, marked, seen>> /\ ~up
        /\ givenUp' = givenUp \cup {x \in Request : Live(x) /\ x \notin marked}
    BY <1>4 DEF Restore, process
  <2>2. Good' \subseteq Good
    BY <2>1 DEF Good
  <2>3. \A s \in Request : s \in marked \/ seen[s] # "no" => phase[s] = "over"
    BY <1>0, <2>1 DEF RouteLife, Rest
  <2>4. ASSUME NEW s \in Good
        PROVE  KnownInMem(s)' /\ (s \notin file' => KnownOnDisk(s)')
    <3>1. KnownInMem(s)' /\ (disk' = Snapshot(mem', state') \/ (disk' = disk /\ file' = file))
      BY <1>0, <1>4, RestoredIsKnown
    <3>2. s \in Request /\ (s \notin file => KnownOnDisk(s))
      BY <1>0 DEF DoneInv, Good
    <3> QED
      BY <3>1, <3>2, SavedIsKnown DEF KnownOnDisk
  <2>5. \A s \in Request : Live(s)' => s \in marked' \cup givenUp'
    BY <2>1 DEF Live
  <2> QED
    BY <1>0, <2>1, <2>3, <2>4, <2>5 DEF DoneInv, Good
<1>5. ASSUME NEW r \in Request, Outcome(r) PROVE DoneInv'
  <2>1. CASE Began(r)
    <3>1. r \notin marked /\ seen[r] = "no" /\ ~Live(r)
      BY <1>0, <2>1 DEF Began, RouteLife, Live
    <3>2. \A x \in Request \ {r} : phase'[x] = "over" <=> phase[x] = "over"
      BY <2>1 DEF Began, Step
    <3>3. UNCHANGED <<up, helper, marked, seen, file, state, mem, disk, givenUp>>
      BY <2>1 DEF Began
    <3> QED
      BY <1>0, <3>1, <3>2, <3>3 DEF DoneInv, Good, KnownInMem, KnownOnDisk, Committed, Live
  <2>2. CASE Spawned(r)
    <3>1. \A x \in Request : phase'[x] = "over" <=> phase[x] = "over"
      BY <2>2 DEF Spawned, Step
    <3>2. phase[r] # "over" /\ \A x \in Request \ {r} : helper'[x] = helper[x]
      BY <2>2 DEF Spawned, Others
    <3>3. UNCHANGED <<up, marked, seen, file, state, mem, disk, givenUp>>
      BY <2>2 DEF Spawned
    <3> QED
      BY <1>0, <3>1, <3>2, <3>3 DEF DoneInv, Good, KnownInMem, KnownOnDisk, Committed, Live
  <2>3. CASE Moved(r)
    <3>1. UNCHANGED <<up, phase, seen, state, mem, disk, givenUp>>
          /\ \A x \in Request : Live(x)' => Live(x)
      BY <2>3 DEF Moved, Others, Live
    <3>2. CASE UNCHANGED <<marked, file>>
      BY <1>0, <3>1, <3>2 DEF DoneInv, Good, KnownInMem, KnownOnDisk, Committed
    <3>3. CASE r \notin marked /\ marked' = marked \cup {r} /\ file' = file \cup {r}
      <4>1. seen[r] = "no" /\ Live(r)
        BY <1>0, <2>3, <3>3 DEF RouteLife, Moved, Live
      <4>2. up /\ phase[r] = "over" => r \notin Good'
        BY <1>0, <3>1, <3>3, <4>1 DEF DoneInv, Good
      <4>3. Good' \subseteq Good \cup {r} /\ r \in file' /\ file \subseteq file'
        BY <3>1, <3>3 DEF Good
      <4> QED
        BY <1>0, <3>1, <3>3, <4>1, <4>2, <4>3 DEF DoneInv, KnownInMem, KnownOnDisk, Committed
    <3> QED
      BY <2>3, <3>2, <3>3 DEF Moved
  \* The record of r changes: those under other ids stay as told.
  <2>4. ASSUME up, Others(state', state, r), mem' \in {Remember(r), Forget(r)},
               NEW m \in {Remember(r), Forget(r)}, disk' \in {disk, Snapshot(m, state')},
               NEW s \in Good, ActionOf[s] # ActionOf[r]
        PROVE  /\ KnownInMem(s) => KnownInMem(s)'
               /\ s \notin file => KnownOnDisk(s)'
               /\ seen[s] = "saved" /\ phase[s] # "over" => KnownOnDisk(s)'
    <3>1. s \in Request
      BY <1>0 DEF Good
    <3>2. /\ KnownInMem(s) => KnownInMem(s)'
          /\ KnownInMem(s) /\ KnownOnDisk(s) => KnownOnDisk(s)'
      BY <1>0, <1>a, <2>4, <3>1, Elsewhere
    <3>3. s \notin file \/ seen[s] = "saved" => KnownInMem(s)
      BY <1>0, <2>4, DoneIsKnown
    <3>4. /\ s \notin file => KnownOnDisk(s)
          /\ seen[s] = "saved" /\ phase[s] # "over" => KnownOnDisk(s)
      BY <1>0 DEF DoneInv
    <3> QED
      BY <3>2, <3>3, <3>4
  \* The steps that tell of a commit.
  <2>5. ASSUME up, state'[r] \in {"committed", "settled"}, Others(state', state, r),
               mem' = Remember(r), disk' \in {disk, Snapshot(mem', state')},
               UNCHANGED <<up, helper, marked>>, givenUp \subseteq givenUp',
               \A x \in Request \ {r} : seen'[x] = seen[x] /\ (phase'[x] = "over" <=> phase[x] = "over"),
               file' \subseteq file, file \subseteq file' \cup {r},
               r \notin file' => disk' = Snapshot(mem', state') \/ r \notin file
                                   \/ (seen[r] = "saved" /\ phase[r] # "over"),
               seen'[r] = "saved" => disk' = Snapshot(mem', state')
                                       \/ (seen[r] = "saved" /\ phase[r] # "over") \/ phase'[r] = "over",
               r \in marked
        PROVE  DoneInv'
    <3>1. Good' \subseteq Good /\ Good \subseteq Request
      BY <1>0, <2>5 DEF Good
    <3>2. state'[r] \in Known /\ Committed(r)'
      BY <2>5 DEF Known, Committed
    <3>3. ASSUME NEW s \in Good, ActionOf[s] = ActionOf[r]
          PROVE  /\ KnownInMem(s)'
                 /\ KnownOnDisk(s) \/ disk' = Snapshot(mem', state') => KnownOnDisk(s)'
      BY <1>0, <1>a, <2>5, <3>1, <3>2, <3>3, Telling
    <3>4. ASSUME NEW s \in Good, ActionOf[s] # ActionOf[r]
          PROVE  /\ KnownInMem(s) => KnownInMem(s)'
                 /\ s \notin file => KnownOnDisk(s)'
                 /\ seen[s] = "saved" /\ phase[s] # "over" => KnownOnDisk(s)'
      BY <2>4, <2>5, <3>4
    <3>5. \A s \in Good \ {r} : phase[s] = "over" => KnownInMem(s)
      BY <1>0, <2>5 DEF DoneInv
    <3>6. \A s \in Good : (s \notin file \/ (seen[s] = "saved" /\ phase[s] # "over")) => KnownOnDisk(s)
      BY <1>0 DEF DoneInv
    <3>7. \A s \in Request \ {r} : Committed(s)' <=> Committed(s)
      BY <2>5 DEF Committed, Others
    <3>8. \A s \in Good' : s \notin file' => KnownOnDisk(s)' /\ (phase'[s] # "over" => Committed(s)')
      <4> SUFFICES ASSUME NEW s \in Good', s \notin file'
                   PROVE  KnownOnDisk(s)' /\ (phase'[s] # "over" => Committed(s)')
        OBVIOUS
      <4>1. CASE s = r
        BY <2>5, <3>1, <3>2, <3>3, <3>6, <4>1
      <4>2. CASE s # r
        <5>1. s \notin file /\ KnownOnDisk(s) /\ s \in Request \ {r}
          BY <2>5, <3>1, <3>6, <4>2
        <5>2. phase'[s] # "over" => Committed(s)'
          BY <1>0, <2>5, <3>1, <3>7, <5>1 DEF DoneInv
        <5> QED
          BY <3>1, <3>3, <3>4, <5>1, <5>2
      <4> QED
        BY <4>1, <4>2
    <3>9. \A s \in Request : seen'[s] = "saved" /\ phase'[s] # "over" => Committed(s)'
      BY <1>0, <2>5, <3>2, <3>7 DEF DoneInv
    <3>10. \A s \in Good' : seen'[s] = "saved" /\ phase'[s] # "over" => KnownOnDisk(s)'
      <4> SUFFICES ASSUME NEW s \in Good', seen'[s] = "saved", phase'[s] # "over"
                   PROVE  KnownOnDisk(s)'
        OBVIOUS
      <4>1. CASE s = r
        BY <2>5, <3>1, <3>3, <3>6, <4>1
      <4>2. CASE s # r
        BY <2>5, <3>1, <3>3, <3>4, <3>6
      <4> QED
        BY <4>1, <4>2
    <3>11. \A s \in Good' : phase'[s] = "over" => KnownInMem(s)'
      BY <2>5, <3>1, <3>3, <3>4, <3>5
    <3>12. \A s \in Request : phase'[s] = "over" /\ Live(s)' => s \in marked' \cup givenUp'
      BY <1>0, <2>5 DEF DoneInv, Live
    <3> QED
      BY <3>8, <3>9, <3>10, <3>11, <3>12 DEF DoneInv
  \* The steps after which another record, or none, stands under the id.
  <2>6. ASSUME up, phase[r] \notin Rest, Others(state', state, r), mem' \in {Remember(r), Forget(r)},
               NEW m \in {Remember(r), Forget(r)}, disk' \in {disk, Snapshot(m, state')},
               UNCHANGED <<up, helper, marked, seen>>, givenUp \subseteq givenUp',
               \A x \in Request \ {r} : phase'[x] = "over" <=> phase[x] = "over",
               file' \subseteq file, file \subseteq file' \cup {r},
               r \notin Good', phase'[r] = "over" \/ seen[r] = "no",
               Live(r) => r \in givenUp'
        PROVE  DoneInv'
    <3>1. Good' \subseteq Good \ {r} /\ Good \subseteq Request
      BY <1>0, <2>6 DEF Good
    <3>2. ASSUME NEW s \in Good'
          PROVE  /\ KnownInMem(s) => KnownInMem(s)'
                 /\ s \notin file => KnownOnDisk(s)'
                 /\ seen[s] = "saved" /\ phase[s] # "over" => KnownOnDisk(s)'
      <4>1. ActionOf[s] # ActionOf[r]
        BY <1>0, <2>6 DEF AloneInv, Acts, Good
      <4> QED
        BY <2>4, <2>6, <3>1, <4>1
    <3>3. \A s \in Good : phase[s] = "over" => KnownInMem(s)
      BY <1>0, <2>6 DEF DoneInv
    <3>4. \A s \in Request \ {r} : Committed(s)' <=> Committed(s)
      BY <2>6 DEF Committed, Others
    <3>5. \A s \in Good' : s \notin file' => KnownOnDisk(s)' /\ (phase'[s] # "over" => Committed(s)')
      BY <1>0, <2>6, <3>1, <3>2, <3>4 DEF DoneInv
    <3>6. \A s \in Request : seen'[s] = "saved" /\ phase'[s] # "over" => Committed(s)'
      BY <1>0, <2>6, <3>4 DEF DoneInv
    <3>7. \A s \in Good' : seen'[s] = "saved" /\ phase'[s] # "over" => KnownOnDisk(s)'
      BY <2>6, <3>1, <3>2
    <3>8. \A s \in Good' : phase'[s] = "over" => KnownInMem(s)'
      BY <2>6, <3>1, <3>2, <3>3
    <3>9. \A s \in Request : phase'[s] = "over" /\ Live(s)' => s \in marked' \cup givenUp'
      BY <1>0, <2>6 DEF DoneInv, Live
    <3> QED
      BY <3>5, <3>6, <3>7, <3>8, <3>9 DEF DoneInv
  <2>7. CASE Saw(r)
    <3>1. CASE seen[r] = "no"
      BY <2>5, <2>7, <3>1 DEF Saw, Sight, Writes, Others
    <3>2. CASE seen[r] # "no"
      BY <1>1, <2>7, <3>2 DEF Saw, Sight
    <3> QED
      BY <3>1, <3>2
  <2>8. CASE EndedBy(r)
    <3>1. /\ up /\ phase[r] # "over" /\ UNCHANGED <<up, helper, marked>>
          /\ phase'[r] # "over" /\ \A x \in Request \ {r} : phase'[x] = "over" <=> phase[x] = "over"
      BY <2>8 DEF EndedBy, Ended, Told, Untold, Killing, Step
    <3>2. CASE Told(r) /\ seen[r] = "no"
      <4>1. /\ r \in marked /\ Sight(r) /\ givenUp' = givenUp
            /\ file' = IF seen'[r] = "unsaved" THEN file ELSE file \ {r}
        BY <2>8, <3>2 DEF EndedBy, Ended, Told, Killing, Step
      <4> QED
        BY <2>5, <3>1, <3>2, <4>1 DEF Sight, Writes, Others
    <3>3. CASE UNCHANGED <<seen, state, mem, disk>>
      <4>1. /\ givenUp \subseteq givenUp' /\ givenUp' \subseteq givenUp \cup {r}
            /\ file' \subseteq file /\ file \subseteq file' \cup {r}
        BY <2>8 DEF EndedBy, Ended, Told, Untold, Killing
      <4>2. r \in Good' => file' = file \/ seen[r] = "saved"
        BY <2>8, <3>3 DEF EndedBy, Ended, Untold, Killing, Good, Sight, TypeOK
      <4>3. Good' \subseteq Good /\ Good \subseteq Request
        BY <1>0, <3>1, <4>1 DEF Good
      <4>4. \A s \in Good : (s \notin file \/ seen[s] = "saved") /\ phase[s] # "over"
              => KnownOnDisk(s) /\ Committed(s)
        BY <1>0, <4>3 DEF DoneInv
      <4>5. \A s \in Good' : s \notin file' => KnownOnDisk(s)' /\ (phase'[s] # "over" => Committed(s)')
        <5> SUFFICES ASSUME NEW s \in Good', s \notin file'
                     PROVE  KnownOnDisk(s) /\ (phase[s] # "over" => Committed(s))
          BY <3>1, <3>3, <4>3 DEF KnownOnDisk, Committed
        <5>1. CASE s = r
          BY <3>1, <4>2, <4>3, <4>4, <5>1
        <5>2. CASE s # r
          BY <1>0, <4>1, <4>3, <5>2 DEF DoneInv
        <5> QED
          BY <5>1, <5>2
      <4> QED
        BY <1>0, <3>1, <3>3, <4>1, <4>3, <4>5 DEF DoneInv, KnownInMem, KnownOnDisk, Committed,
           Live
    <3> QED
      BY <2>8, <3>2, <3>3 DEF EndedBy, Ended, Untold, Killing, Sight
  <2>9. CASE SettledBy(r) \/ Regained(r)
    <3>1. /\ up /\ UNCHANGED <<up, helper, marked, seen, givenUp>>
          /\ Writes(r, "settled", mem') /\ mem' = Remember(r)
          /\ \A x \in Request \ {r} : phase'[x] = "over" <=> phase[x] = "over"
      BY <2>9 DEF SettledBy, Regained, Step
    <3>2. r \in marked
      BY <1>0, <2>9 DEF SettledBy, Regained, RouteLife, Committed, Known
    <3>3. phase[r] # "over" /\ file' \subseteq file /\ file \subseteq file' \cup {r}
          /\ (file' = file \/ disk' = Snapshot(mem', state'))
      BY <2>9 DEF SettledBy, Regained
    <3> QED
      BY <2>5, <3>1, <3>2, <3>3 DEF Writes
  <2>10. CASE PreparedBy(r)
    <3>1. r \notin marked /\ seen[r] = "no" /\ ~Live(r)
      BY <1>0, <2>10 DEF PreparedBy, RouteLife, Live
    <3>2. /\ up /\ phase[r] \notin Rest /\ UNCHANGED <<up, helper, marked, seen, file, givenUp>>
          /\ \A x \in Request \ {r} : phase'[x] = "over" <=> phase[x] = "over"
          /\ Others(state', state, r)
          /\ mem' \in {Remember(r), Forget(r)} /\ disk' \in {disk, Snapshot(Remember(r), state')}
      BY <2>10 DEF PreparedBy, Writes, Step, Rest
    <3>3. r \notin Good'
      BY <3>1, <3>2 DEF Good
    <3> QED
      BY <2>6, <3>1, <3>2, <3>3
  <2>11. CASE Forgotten(r)
    <3>1. /\ up /\ phase[r] \notin Rest /\ phase'[r] = "over" /\ UNCHANGED <<up, helper, marked, seen>>
          /\ \A x \in Request \ {r} : phase'[x] = "over" <=> phase[x] = "over"
          /\ Others(state', state, r)
          /\ mem' \in {Remember(r), Forget(r)} /\ disk' \in {disk, Snapshot(Forget(r), state')}
          /\ givenUp \subseteq givenUp' /\ file' \subseteq file /\ file \subseteq file' \cup {r}
      BY <2>11 DEF Forgotten, Others, Step, Rest, Outlives
    <3>2. ~Acts(r)'
      BY <1>0, <2>11, ForgottenIsUndone
    <3>3. r \notin Good' /\ (Live(r) => r \in givenUp')
      BY <3>1, <3>2 DEF Acts, Good, Live
    <3> QED
      BY <2>6, <3>1, <3>3
  <2> QED
    BY <1>5, <2>1, <2>2, <2>3, <2>7, <2>8, <2>9, <2>10, <2>11 DEF Outcome
<1> QED
  BY <1>2, <1>3, <1>4, <1>5, Outcomes

\* An answer stays true.
LEMMA AnswerStep == IndInv /\ TypeOK' /\ [Next]_vars => AnswerInv'
<1> SUFFICES ASSUME IndInv, TypeOK', [Next]_vars PROVE AnswerInv'
  OBVIOUS
<1>0. TypeOK /\ RouteLife /\ DoneInv /\ AnswerInv
  BY DEF LifeInv, IndInv
<1>1. ASSUME \A x \in Request :
               \/ answer'[x] \notin {"done", "failed"}
               \/ answer'[x] = answer[x] /\ (phase[x] = "over" => phase'[x] = "over" /\ (Acts(x)' => Acts(x))),
             marked \subseteq marked'
      PROVE  AnswerInv'
  BY <1>0, <1>1 DEF AnswerInv
<1>2. CASE Shuffle
  BY <1>1, <1>2 DEF Shuffle, Waiting, Acts, Live
<1>3. CASE Crash
  BY <1>1, <1>3 DEF Crash, Acts, Live
<1>4. CASE Restore
  BY <1>1, <1>4 DEF Restore, Acts, Live, process
<1>5. ASSUME NEW r \in Request, Outcome(r) PROVE AnswerInv'
  <2>1. CASE Began(r)
    BY <1>1, <2>1 DEF Began, Answered, Others, Step, Acts, Live
  <2>2. CASE Spawned(r)
    BY <1>1, <2>2 DEF Spawned, Others, Step, Acts, Live
  <2>3. CASE Moved(r)
    BY <1>1, <2>3 DEF Moved, Others, Acts, Live
  <2>4. CASE Saw(r)
    BY <1>1, <2>4 DEF Saw, Acts, Live
  <2>5. CASE EndedBy(r)
    BY <1>1, <2>5 DEF EndedBy, Ended, Told, Untold, Killing, Step, Acts, Live
  <2>6. CASE Regained(r)
    BY <1>1, <2>6 DEF Regained, Step, Acts, Live
  \* The route answers r.
  <2>7. ASSUME Step(r, {"over"}), answer'[r] = "done" => r \in marked,
               answer'[r] = "failed" => ~Acts(r)', Others(answer', answer, r),
               UNCHANGED <<helper, marked>>, givenUp \subseteq givenUp'
        PROVE  AnswerInv'
    BY <1>0, <2>7 DEF AnswerInv, Others, Step, Acts, Live
  <2>8. CASE PreparedBy(r)
    <3>1. ~Acts(r)'
      BY <1>0, <2>8 DEF PreparedBy, RouteLife, Acts, Live
    <3>2. CASE UNCHANGED answer
      BY <1>1, <2>8, <3>2 DEF PreparedBy, Step, Acts, Live
    <3>3. CASE Step(r, {"over"}) /\ Answered(r, "failed")
      BY <2>7, <2>8, <3>1, <3>3 DEF PreparedBy, Answered
    <3> QED
      BY <2>8, <3>2, <3>3 DEF PreparedBy
  <2>9. CASE SettledBy(r)
    BY <1>0, <2>7, <2>9 DEF SettledBy, Answered, RouteLife
  <2>10. CASE Forgotten(r)
    <3>1. ~Acts(r)'
      BY <1>0, <2>10, ForgottenIsUndone
    <3> QED
      BY <2>7, <2>10, <3>1 DEF Forgotten, Answered, Outlives
  <2> QED
    BY <1>5, <2>1, <2>2, <2>3, <2>4, <2>5, <2>6, <2>8, <2>9, <2>10 DEF Outcome
<1> QED
  BY <1>2, <1>3, <1>4, <1>5, Outcomes

-----------------------------------------------------------------------------
(* The theorems                                                            *)

LEMMA InitInv == Init => IndInv
<1> SUFFICES ASSUME Init PROVE IndInv
  OBVIOUS
<1>1. TypeOK
  <2>1. disk \in [Action -> Stored]
    BY DEF Init, Stored, States, Nothing
  <2>2. queue \in Seq(Request) /\ Len(queue) <= QueueLimit
    BY LocalActionAssumption DEF Init
  <2>3. /\ phase \in [Request -> Phases]
        /\ answer \in [Request -> {"none", "refused", "failed", "done", "lost"}]
        /\ helper \in [Request -> {"none", "live", "dead"}]
        /\ seen \in [Request -> {"no", "saved", "unsaved"}]
        /\ state \in [Request -> States]
        /\ mem \in [Action -> Request \cup {NoRequest}]
    BY DEF Init, Phases, States
  <2>4. /\ up \in BOOLEAN /\ closed \in BOOLEAN /\ active \in Nat /\ quar \subseteq Request
        /\ marked \subseteq Request /\ attached \subseteq Request
        /\ givenUp \subseteq Request /\ file \subseteq Request
    BY DEF Init
  <2>5. faults \in 0..MaxFault
    <3>1. faults = 0 /\ MaxFault \in Nat
      BY LocalActionAssumption DEF Init
    <3> QED
      BY <3>1
  <2> QED
    BY <2>1, <2>2, <2>3, <2>4, <2>5 DEF TypeOK
<1>2. Working = {} /\ quar = {} /\ IsFiniteSet({}) /\ Cardinality({}) = 0
  BY FS_EmptySet DEF Init, Working
<1>3. LaneInv
  BY <1>2, LocalActionAssumption DEF Init, LaneInv, LivesInv
<1>4. QueueInv /\ LifeInv /\ AloneInv /\ RecordInv /\ DoneInv /\ AnswerInv
  BY DEF Init, QueueInv, LifeInv, RouteLife, Keyed, Records, AloneInv, RecordInv, DoneInv, AnswerInv,
     Rest, Known, Acts,
     Live, Good, Saved, Nothing
<1> QED
  BY <1>1, <1>3, <1>4 DEF IndInv

\* The invariant of the local actions: the types, the places of the lane, and
\* who may act, what is recorded of it and what was answered (runLocalActionPowerShell,
\* the evidence records and their restoration).
THEOREM LocalActionInvariance == Spec => []IndInv
<1>1. IndInv /\ [Next]_vars => IndInv'
  <2> SUFFICES ASSUME IndInv, [Next]_vars PROVE IndInv'
    OBVIOUS
  <2>1. TypeOK'
    BY TypeStep
  <2>2. QueueInv' /\ LaneInv'
    BY LaneStep DEF Kept
  <2> QED
    BY <2>1, <2>2, LifeStep, AloneStep, RecordStep, DoneStep, AnswerStep DEF IndInv
<1> QED
  BY InitInv, <1>1, PTL DEF Spec

\* The lane is never overfull, whatever helper outlives its time limit or its kill
\* (withLocalActionSlot, quarantineLocalActionLane).
THEOREM LaneStaysTrue == Spec => []LaneIsTrue
<1>1. IndInv => LaneIsTrue
  <2> SUFFICES ASSUME IndInv PROVE LaneIsTrue
    OBVIOUS
  <2> DEFINE living == {r \in attached : Live(r)}
             places == Working \cup quar
  <2>1. /\ TypeOK /\ LivesInv /\ attached \subseteq Request /\ active \in Nat
        /\ IsFiniteSet(Working) /\ Cardinality(Working) <= active
        /\ IsFiniteSet(quar) /\ active + Cardinality(quar) <= Concurrency
    BY DEF IndInv, TypeOK, LaneInv
  <2>2. living \subseteq places
    BY <2>1 DEF LivesInv, Working
  <2>3. /\ IsFiniteSet(places)
        /\ Cardinality(places) = Cardinality(Working) + Cardinality(quar) - Cardinality(Working \cap quar)
    BY <2>1, FS_Union
  <2>4. IsFiniteSet(Working \cap quar)
    BY <2>1, FS_Intersection
  <2> HIDE DEF living, places
  <2>5. IsFiniteSet(living) /\ Cardinality(living) <= Cardinality(places)
    BY <2>2, <2>3, FS_Subset
  <2>6. /\ Cardinality(Working) \in Nat /\ Cardinality(quar) \in Nat
        /\ Cardinality(Working \cap quar) \in Nat /\ Cardinality(living) \in Nat
        /\ Concurrency \in Nat
    BY <2>1, <2>4, <2>5, FS_CardinalityType, LocalActionAssumption
  <2>7. Cardinality(living) <= active + Cardinality(quar)
    BY <2>1, <2>3, <2>5, <2>6
  <2>8. Cardinality(living) <= Concurrency
    BY <2>1, <2>6, <2>7
  <2> QED
    BY <2>1, <2>7, <2>8 DEF LaneIsTrue, Occupancy, living
<1> QED
  BY <1>1, LocalActionInvariance, PTL

\* What was carried out is remembered under its id, whatever save failed and
\* wherever the service crashed (persistSettledSystemClipboardEvidence,
\* restoreLocalActionEvidence).
THEOREM CommitStaysRemembered == Spec => []CommitIsRemembered
<1>1. IndInv => CommitIsRemembered
  BY DEF IndInv, DoneInv, Good, KnownInMem, Known, CommitIsRemembered
<1> QED
  BY <1>1, LocalActionInvariance, PTL

\* No id is carried out twice (beginLocalAction, restoreLocalActionEvidence).
THEOREM EachIdRunsOnce == Spec => []RunsOnce
<1>1. IndInv => RunsOnce
  BY DEF IndInv, TypeOK, AloneInv, Acts, RunsOnce
<1> QED
  BY <1>1, LocalActionInvariance, PTL

\* An answer tells what happened (the clipboard route and
\* recoverPreparedSystemClipboardEvidenceAfterFailure).
THEOREM AnswersAreTrue == Spec => []AnswerIsTrue
<1>1. IndInv => AnswerIsTrue
  BY DEF IndInv, AnswerInv, Acts, AnswerIsTrue
<1> QED
  BY <1>1, LocalActionInvariance, PTL
=============================================================================
