------------------------ MODULE PlaintextCache_proofs ------------------------
(***************************************************************************)
(* Proof that a leased database stays where it is, for any number of       *)
(* workers, reads, lease names and faults.  One lemma per part of the       *)
(* inductive invariant, one step of its proof per action.                  *)
(***************************************************************************)
EXTENDS PlaintextCache, TLAPS

\* A read holds the entry lock in these places.
Inside == {"lease", "write", "selfwait", "drop", "dropNow", "decrypt"}
ReadHolds(w) == at[w] \in Inside \/ (at[w] = "open" /\ stage[w] # "first")
SweepHolds(a) == phase[a] \in {"look", "remove", "again"}

\* Where a dead worker is, and that a live process knows its own leases only.
Dead == {"dead", "unlink", "leases", "temps", "gone"}
LifeInv ==
  /\ \A w \in Worker : w \in up <=> at[w] \notin Dead
  /\ at[Main] = "idle"
  /\ \A l \in known : l[1] \in up

\* A read has its lease until it lets go of it, and then it settles that one.
LeaseInv ==
  /\ \A w \in Worker : at[w] \in {"write", "open", "reading"} => mine[w] # 0
  /\ \A a \in Actor : phase[a] = "release" => \E l \in Lease : cur[a] = Settle(l)

\* Where a read holds the lock it has no sweep to do.
SweepInv ==
  \A w \in Worker : at[w] \in Inside \cup {"open"} =>
    /\ todo[w] = {}
    /\ phase[w] = "rest" \/ (phase[w] = "release" /\ at[w] = "selfwait")

\* Who is where the lock is held, holds it.
LockInv ==
  /\ \A w \in Worker : ReadHolds(w) => lock = <<w, "self">>
  /\ \A a \in Actor : SweepHolds(a) => lock = Me(a)

\* Who is about to remove the database has seen that it has no reader, who
\* is about to write a lease on it has seen that it is there.
UseInv ==
  /\ (\E a \in Actor : phase[a] = "remove") \/ (\E w \in Worker : at[w] = "dropNow")
       => \A l \in known : file[l] # "held"
  /\ \A w \in Worker : at[w] = "write" => plain # "none"
  /\ \A l \in known : file[l] = "held" => plain # "none"

CacheInv == LockInv /\ UseInv
IndInv == TypeOK /\ LifeInv /\ LeaseInv /\ SweepInv /\ (swapped \/ CacheInv)
-----------------------------------------------------------------------------
\* What the sweeps handle are items.
LEMMA Items ==
  /\ Drop \in Item /\ Plain \in Item
  /\ \A l \in Lease : Settle(l) \in Item
  /\ \A w \in Worker : Temp(w) \in Item
BY DEF Item

\* So is whatever a sweep lists.
LEMMA ListedItems == ASSUME TypeOK PROVE Listed \subseteq Item
BY Items DEF TypeOK, Listed

\* The actors are the workers and the service.
LEMMA Actors == Worker \subseteq Actor /\ Main \in Actor
BY DEF Actor

\* What an actor writes into the lock is an owner.
LEMMA MeTypes == \A a \in Actor : Me(a) \in Actor \X {"self", "cleanup"}
BY DEF Me

\* The lock tells its possible owners apart.
LEMMA MeApart ==
  ASSUME NEW a \in Actor, NEW b \in Actor, a # b
  PROVE  Me(a) # Me(b)
BY DEF Me

\* The leases of a worker.
LEMMA LeaseNames ==
  \A w \in Worker : \A n \in 0..MaxLease : n # 0 => <<w, n>> \in Lease /\ <<w, n>>[1] = w
BY CacheAssumption DEF Lease

\* The faults stay within their bound.
LEMMA FaultTypes == ASSUME TypeOK, NoFault \/ Fault PROVE faults' \in 0..MaxFault
BY CacheAssumption DEF TypeOK, NoFault, Fault

CountsNone(a) == CountLeases(a, FALSE)

\* What a look under the lock can lead to (LookToRemove).
LEMMA LookOutcome ==
  ASSUME NEW a, LookToRemove(a)
  PROVE  /\ phase[a] = "look" /\ cur[a] # Plain
         /\ \/ NotRemoved(a)
            \/ Doing(a, cur[a], "remove") /\ UNCHANGED lock /\ CountsNone(a)
         /\ \E inUse \in BOOLEAN : CountLeases(a, inUse)
         /\ UNCHANGED <<plain, temp, at, todo, own, life, leased, swapped>>
BY Zenon DEF LookToRemove, CountsNone

\* What the removal of the database can lead to (Remove).
LEMMA RemoveOutcome ==
  ASSUME NEW a, Remove(a)
  PROVE  /\ phase[a] = "remove"
         /\ \/ Unlock(a) /\ IF cur[a] = Drop THEN Done(a) ELSE Doing(a, cur[a], "unmark")
            \/ NotRemoved(a)
         /\ \E done \in BOOLEAN : RemovePlain(done)
         /\ UNCHANGED <<temp, file, at, todo, own, life, swapped>>
BY Zenon DEF Remove

\* What the second look of a settlement can lead to (LookAgain).
LEMMA AgainOutcome ==
  ASSUME NEW a, LookAgain(a)
  PROVE  /\ phase[a] = "again"
         /\ Doing(a, cur[a], "unmark") \/ Done(a)
         /\ Unlock(a)
         /\ \E inUse \in BOOLEAN : CountLeases(a, inUse)
         /\ UNCHANGED <<plain, temp, at, todo, own, life, leased, swapped>>
BY Zenon DEF LookAgain

\* What the look of a read that holds the lock can lead to (LookHere).
LEMMA LookHereOutcome ==
  ASSUME NEW w, LookHere(w)
  PROVE  /\ At(w, "drop")
         /\ Dropped(w) \/ (GoTo(w, "dropNow") /\ UNCHANGED temp /\ CountsNone(w))
         /\ \E inUse \in BOOLEAN : CountLeases(w, inUse)
         /\ UNCHANGED <<plain, lock, own, life, leased, swapped>>
BY Zenon DEF LookHere, CountsNone

\* A count changes the artifacts of stale leases only.
LEMMA CountTypes ==
  ASSUME TypeOK, NEW a, NEW inUse, CountLeases(a, inUse)
  PROVE  /\ file' \in [Lease -> {"none", "blank", "spoiled", "held", "marker"}]
         /\ faults' \in 0..MaxFault
<1>1. NoFault \/ Fault
  BY DEF CountLeases
<1>2. faults' \in 0..MaxFault
  BY <1>1, FaultTypes
<1>3. CASE UNCHANGED file
  BY <1>2, <1>3 DEF TypeOK
<1>4. ASSUME NEW stuck \in SUBSET StaleLeases,
             file' = [l \in Lease |-> IF l \in StaleLeases \ stuck THEN "marker" ELSE file[l]]
      PROVE  file' \in [Lease -> {"none", "blank", "spoiled", "held", "marker"}]
  BY <1>4 DEF TypeOK
<1> QED
  BY <1>2, <1>3, <1>4 DEF CountLeases

\* A removal leaves the database or takes it away.
LEMMA RemoveTypes ==
  ASSUME TypeOK, NEW done, RemovePlain(done)
  PROVE  plain' \in {"none", "good", "bad"} /\ leased' \in BOOLEAN /\ faults' \in 0..MaxFault
<1>1. faults' \in 0..MaxFault
  BY FaultTypes DEF RemovePlain
<1> QED
  BY <1>1 DEF RemovePlain, TypeOK

\* Every step keeps the types.
LEMMA TypeStep == IndInv /\ [Next]_vars => TypeOK'
<1> SUFFICES ASSUME IndInv, [Next]_vars PROVE TypeOK'
  OBVIOUS
<1> USE CacheAssumption, Items, ListedItems, Actors, MeTypes, LeaseNames, FaultTypes,
   CountTypes, RemoveTypes DEF IndInv, vars, files, life, sweep, own
<1>1. ASSUME NEW a \in Actor, SweepTemp(a) PROVE TypeOK'
  BY <1>1 DEF SweepTemp, TypeOK, Resting
<1>2. ASSUME NEW a \in Actor, Take(a) PROVE TypeOK'
  BY <1>2 DEF Take, Locked, TypeOK, Doing, Resting, Acquire
<1>3. ASSUME NEW a \in Actor, GiveUpTake(a) PROVE TypeOK'
  BY <1>3 DEF GiveUpTake, TypeOK, Here, Resting
<1>4. ASSUME NEW a \in Actor, KeepListed(a) PROVE TypeOK'
  BY <1>4 DEF KeepListed, LookAtPlain, TypeOK, Doing, Done, Unlock
<1>5. ASSUME NEW a \in Actor, DropListed(a) PROVE TypeOK'
  BY <1>5 DEF DropListed, LookAtPlain, TypeOK, Doing, Done, Unlock
<1>6. ASSUME NEW a \in Actor, LookToRemove(a) PROVE TypeOK'
  <2>1. PICK inUse \in BOOLEAN : CountLeases(a, inUse)
    BY <1>6, LookOutcome
  <2>2. file' \in [Lease -> {"none", "blank", "spoiled", "held", "marker"}] /\ faults' \in 0..MaxFault
    BY <2>1, CountTypes
  <2>3. lock' \in {NoLock} \cup (Actor \X {"self", "cleanup"})
    BY <1>6, LookOutcome DEF NotRemoved, Unlock, TypeOK
  <2>4. cur' \in [Actor -> {Nothing} \cup Item]
    BY <1>6, LookOutcome DEF NotRemoved, Doing, Done, TypeOK
  <2>5. phase' \in [Actor -> {"rest", "release", "look", "remove", "again", "unmark"}]
    BY <1>6, LookOutcome DEF NotRemoved, Doing, Done, TypeOK
  <2> QED
    BY <2>2, <2>3, <2>4, <2>5, <1>6, LookOutcome DEF TypeOK
<1>7. ASSUME NEW a \in Actor, Remove(a) PROVE TypeOK'
  <2>1. PICK done \in BOOLEAN : RemovePlain(done)
    BY <1>7, RemoveOutcome
  <2>2. plain' \in {"none", "good", "bad"} /\ leased' \in BOOLEAN /\ faults' \in 0..MaxFault
    BY <2>1, RemoveTypes
  <2>3. lock' \in {NoLock} \cup (Actor \X {"self", "cleanup"})
    BY <1>7, RemoveOutcome DEF NotRemoved, Unlock, TypeOK
  <2>4. cur' \in [Actor -> {Nothing} \cup Item]
    BY <1>7, RemoveOutcome DEF NotRemoved, Doing, Done, TypeOK
  <2>5. phase' \in [Actor -> {"rest", "release", "look", "remove", "again", "unmark"}]
    BY <1>7, RemoveOutcome DEF NotRemoved, Doing, Done, TypeOK
  <2> QED
    BY <2>2, <2>3, <2>4, <2>5, <1>7, RemoveOutcome DEF TypeOK
<1>8. ASSUME NEW a \in Actor, LookAgain(a) PROVE TypeOK'
  <2>1. PICK inUse \in BOOLEAN : CountLeases(a, inUse)
    BY <1>8, AgainOutcome
  <2>2. file' \in [Lease -> {"none", "blank", "spoiled", "held", "marker"}] /\ faults' \in 0..MaxFault
    BY <2>1, CountTypes
  <2>3. lock' \in {NoLock} \cup (Actor \X {"self", "cleanup"})
    BY <1>8, AgainOutcome DEF Unlock, TypeOK
  <2>4. cur' \in [Actor -> {Nothing} \cup Item]
    BY <1>8, AgainOutcome DEF Doing, Done, TypeOK
  <2>5. phase' \in [Actor -> {"rest", "release", "look", "remove", "again", "unmark"}]
    BY <1>8, AgainOutcome DEF Doing, Done, TypeOK
  <2> QED
    BY <2>2, <2>3, <2>4, <2>5, <1>8, AgainOutcome DEF TypeOK
<1>9. ASSUME NEW a \in Actor, Unmark(a) PROVE TypeOK'
  BY <1>9 DEF Unmark, TypeOK, Doing, Done
<1>10. ASSUME NEW w \in Worker, BeginRead(w) PROVE TypeOK'
  <2>1. reads' \in [Worker -> Nat] /\ \A v \in Worker : reads'[v] <= MaxRead[v]
    BY <1>10 DEF BeginRead, TypeOK
  <2> QED
    BY <2>1, <1>10 DEF BeginRead, Prune, TypeOK, Here, Sweep, At, Resting
<1>11. ASSUME NEW w \in Worker, TakeEntry(w) PROVE TypeOK'
  BY <1>11 DEF TakeEntry, TypeOK, GoTo, Here, At, Resting, Acquire
<1>12. ASSUME NEW w \in Worker, GiveUpEntry(w) PROVE TypeOK'
  BY <1>12 DEF GiveUpEntry, TypeOK, GoTo, Here, Sweep, At, Resting
<1>13. ASSUME NEW w \in Worker, OpenLease(w) PROVE TypeOK'
  <2>1. mine' \in [Worker -> 0..MaxLease]
    BY <1>13 DEF OpenLease, FreeNumbers, TypeOK
  <2>2. file' \in [Lease -> {"none", "blank", "spoiled", "held", "marker"}]
    BY <1>13 DEF OpenLease, TypeOK
  <2> QED
    BY <2>1, <2>2, <1>13 DEF OpenLease, TypeOK, GoTo, Here, At, Resting
<1>14. ASSUME NEW w \in Worker, NothingToLease(w) PROVE TypeOK'
  BY <1>14 DEF NothingToLease, NoLease, TypeOK, GoTo, Here, Sweep, At, Resting, Unlock
<1>15. ASSUME NEW w \in Worker, WriteLease(w) PROVE TypeOK'
  <2>1. MyLease(w) \in Lease
    BY <1>15 DEF WriteLease, At, LeaseInv, MyLease, TypeOK
  <2>2. file' \in [Lease -> {"none", "blank", "spoiled", "held", "marker"}]
    BY <1>15 DEF WriteLease, TypeOK
  <2>3. known' \subseteq Lease /\ leased' \in BOOLEAN
    BY <2>1, <1>15 DEF WriteLease, TypeOK
  <2> QED
    BY <2>2, <2>3, <1>15 DEF WriteLease, TypeOK, GoTo, Here, At, Resting, Unlock
<1>16. ASSUME NEW w \in Worker, WriteLeaseFails(w) PROVE TypeOK'
  <2>1. file' \in [Lease -> {"none", "blank", "spoiled", "held", "marker"}]
    BY <1>16 DEF WriteLeaseFails, TypeOK
  <2>2. mine' \in [Worker -> 0..MaxLease]
    BY <1>16 DEF WriteLeaseFails, TypeOK
  <2>3. faults' \in 0..MaxFault
    BY <1>16 DEF WriteLeaseFails
  <2> QED
    BY <2>1, <2>2, <2>3, <1>16 DEF WriteLeaseFails, NoLease, TypeOK, GoTo, Here, Sweep, At,
       Resting, Unlock
<1>17. ASSUME NEW w \in Worker, OpenPlain(w) PROVE TypeOK'
  BY <1>17 DEF OpenPlain, Prune, TypeOK, GoTo, Here, Sweep, At, Resting, Unlock
<1>18. ASSUME NEW w \in Worker, OpenFails(w) PROVE TypeOK'
  <2>1. MyLease(w) \in Lease
    BY <1>18 DEF OpenFails, At, LeaseInv, MyLease, TypeOK
  <2>2. Settle(MyLease(w)) \in Item
    BY <2>1
  <2>3. mine' \in [Worker -> 0..MaxLease] /\ session' \in [Worker -> 0..MaxLease]
    BY <1>18 DEF OpenFails, LetGoMine, TypeOK
  <2> QED
    BY <2>2, <2>3, <1>18 DEF OpenFails, LetGoMine, LetGo, TypeOK, Here, Doing, At, Resting
<1>19. ASSUME NEW w \in Worker, CancelOpen(w) PROVE TypeOK'
  <2>1. MyLease(w) \in Lease
    BY <1>19 DEF CancelOpen, At, LeaseInv, MyLease, TypeOK
  <2>2. Settle(MyLease(w)) \in Item
    BY <2>1
  <2>3. mine' \in [Worker -> 0..MaxLease] /\ session' \in [Worker -> 0..MaxLease]
    BY <1>19 DEF CancelOpen, LetGoMine, TypeOK
  <2> QED
    BY <2>2, <2>3, <1>19 DEF CancelOpen, LetGoMine, LetGo, TypeOK, Here, Doing, At, Resting
<1>20. ASSUME NEW w \in Worker, CancelWait(w) PROVE TypeOK'
  BY <1>20 DEF CancelWait, TypeOK, Here, Sweep, Resting
<1>21. ASSUME NEW w \in Worker, Release(w) PROVE TypeOK'
  <2>1. cur[w][2] \in Lease
    BY <1>21 DEF Release, LeaseInv, Settle
  <2>2. file' \in [Lease -> {"none", "blank", "spoiled", "held", "marker"}]
    BY <1>21 DEF Release, TypeOK
  <2>3. faults' \in 0..MaxFault
    BY <1>21 DEF Release
  <2>4. todo' \in [Actor -> SUBSET Item]
    BY <2>1, <1>21 DEF Release, TypeOK
  <2> QED
    BY <2>2, <2>3, <2>4, <1>21 DEF Release, TypeOK, Here, Doing, Done
<1>22. ASSUME NEW w \in Worker, Discard(w) PROVE TypeOK'
  BY <1>22 DEF Discard, TypeOK, Here, Sweep, At, Resting
<1>23. ASSUME NEW w \in Worker, SelfWaitEnds(w) PROVE TypeOK'
  BY <1>23 DEF SelfWaitEnds, TypeOK, GoTo, Here, At, Resting
<1>24. ASSUME NEW w \in Worker, LookHere(w) PROVE TypeOK'
  <2>1. PICK inUse \in BOOLEAN : CountLeases(w, inUse)
    BY <1>24, LookHereOutcome
  <2>2. file' \in [Lease -> {"none", "blank", "spoiled", "held", "marker"}] /\ faults' \in 0..MaxFault
    BY <2>1, CountTypes
  <2>3. temp' \subseteq Worker
    BY <1>24, LookHereOutcome DEF Dropped, TypeOK
  <2> QED
    BY <2>2, <2>3, <1>24, LookHereOutcome DEF Dropped, TypeOK, GoTo, Here, At, Resting
<1>25. ASSUME NEW w \in Worker, DropHere(w) PROVE TypeOK'
  <2>1. PICK done \in BOOLEAN : RemovePlain(done)
    BY <1>25 DEF DropHere
  <2>2. plain' \in {"none", "good", "bad"} /\ leased' \in BOOLEAN /\ faults' \in 0..MaxFault
    BY <2>1, RemoveTypes
  <2> QED
    BY <2>2, <1>25 DEF DropHere, Dropped, TypeOK, GoTo, Here, At, Resting
<1>26. ASSUME NEW w \in Worker, Publish(w) PROVE TypeOK'
  BY <1>26 DEF Publish, TypeOK, GoTo, Here, At, Resting
<1>27. ASSUME NEW w \in Worker, BuildFails(w) PROVE TypeOK'
  BY <1>27 DEF BuildFails, TypeOK, GoTo, Here, At, Resting
<1>28. ASSUME NEW w \in Worker, GiveUp(w) PROVE TypeOK'
  BY <1>28 DEF GiveUp, TypeOK, GoTo, Here, At, Resting, Unlock
<1>29. ASSUME NEW w \in Worker, EndRead(w) PROVE TypeOK'
  <2>1. MyLease(w) \in Lease
    BY <1>29 DEF EndRead, At, LeaseInv, MyLease, TypeOK
  <2>2. Settle(MyLease(w)) \in Item
    BY <2>1
  <2>3. mine' \in [Worker -> 0..MaxLease] /\ session' \in [Worker -> 0..MaxLease]
    BY <1>29 DEF EndRead, LetGoMine, TypeOK
  <2> QED
    BY <2>2, <2>3, <1>29 DEF EndRead, LetGoMine, LetGo, TypeOK, GoTo, Here, Doing, At, Resting
<1>30. ASSUME NEW w \in Worker, Close(w) PROVE TypeOK'
  <2>1. Settle(<<w, session[w]>>) \in Item
    BY <1>30 DEF Close, TypeOK
  <2>2. session' \in [Worker -> 0..MaxLease]
    BY <1>30 DEF Close, TypeOK
  <2> QED
    BY <2>1, <2>2, <1>30 DEF Close, LetGo, TypeOK, Here, Doing, At, Resting
<1>31. ASSUME NEW w \in Worker, Exit(w) PROVE TypeOK'
  <2>1. mine' \in [Worker -> 0..MaxLease] /\ session' \in [Worker -> 0..MaxLease]
    BY <1>31 DEF Exit, Ends, TypeOK
  <2>2. stage' \in [Worker -> {"first", "second", "built"}]
    BY <1>31 DEF Exit, Ends, TypeOK
  <2>3. killed' \subseteq Worker \ up' /\ up' \subseteq Worker /\ known' \subseteq Lease
    BY <1>31 DEF Exit, Ends, TypeOK
  <2>4. todo' \in [Actor -> SUBSET Item]
    BY <1>31 DEF Exit, Ends, TypeOK
  <2> QED
    BY <2>1, <2>2, <2>3, <2>4, <1>31 DEF Exit, Ends, TypeOK, Here, Doing, Done
<1>32. ASSUME NEW w \in Worker, Die(w) PROVE TypeOK'
  <2>1. mine' \in [Worker -> 0..MaxLease] /\ session' \in [Worker -> 0..MaxLease]
    BY <1>32 DEF Die, Ends, TypeOK
  <2>2. stage' \in [Worker -> {"first", "second", "built"}]
    BY <1>32 DEF Die, Ends, TypeOK
  <2>3. killed' \subseteq Worker \ up' /\ up' \subseteq Worker /\ known' \subseteq Lease
    BY <1>32 DEF Die, Ends, TypeOK
  <2>4. todo' \in [Actor -> SUBSET Item]
    BY <1>32 DEF Die, Ends, TypeOK
  <2> QED
    BY <2>1, <2>2, <2>3, <2>4, <1>32 DEF Die, Ends, TypeOK, Here, Doing, Done
<1>33. ASSUME NEW w \in Worker, Collect(w) PROVE TypeOK'
  BY <1>33 DEF Collect, Clear, TypeOK, GoTo, Here, Sweep, At, Resting
<1>34. ASSUME NEW w \in Worker, Unlink(w) PROVE TypeOK'
  BY <1>34 DEF Unlink, Clear, TypeOK, GoTo, Here, Sweep, At, Resting
<1>35. ASSUME NEW w \in Worker, MarkLeases(w) PROVE TypeOK'
  <2>1. PICK stuck \in SUBSET {l \in Left(w) : file[l] # "marker"} :
          /\ IF stuck = {} THEN NoFault ELSE Fault
          /\ file' = [l \in Lease |-> IF l \in Left(w) \ stuck THEN "marker" ELSE file[l]]
          /\ Sweep(w, AfterMarking(Left(w) \ stuck), "temps")
    BY <1>35 DEF MarkLeases
  <2>2. faults' \in 0..MaxFault
    BY <2>1
  <2>3. file' \in [Lease -> {"none", "blank", "spoiled", "held", "marker"}]
    BY <2>1 DEF TypeOK
  <2>4. AfterMarking(Left(w) \ stuck) \subseteq Item
    BY DEF Left, AfterMarking, Item
  <2> QED
    BY <2>1, <2>2, <2>3, <2>4, <1>35 DEF MarkLeases, TypeOK, Here, Sweep, At, Resting
<1>36. ASSUME NEW w \in Worker, CleanTemps(w) PROVE TypeOK'
  BY <1>36 DEF CleanTemps, TypeOK, GoTo, Here, At, Resting
<1>37. ASSUME PruneTimer PROVE TypeOK'
  BY <1>37 DEF PruneTimer, Prune, TypeOK, Here, Sweep, At, Resting
<1>38. ASSUME NEW l \in Lease, LeaseAges(l) PROVE TypeOK'
  BY <1>38 DEF LeaseAges, TypeOK
<1>39. CASE UNCHANGED vars
  BY <1>39 DEF TypeOK
<1> QED
  BY <1>1, <1>2, <1>3, <1>4, <1>5, <1>6, <1>7, <1>8, <1>9, <1>10, <1>11,
     <1>12, <1>13, <1>14, <1>15, <1>16, <1>17, <1>18, <1>19, <1>20, <1>21,
     <1>22, <1>23, <1>24, <1>25, <1>26, <1>27, <1>28, <1>29, <1>30, <1>31,
     <1>32, <1>33, <1>34, <1>35, <1>36, <1>37, <1>38, <1>39 DEF Next,
     SweepStep, ReadStep, CleanupStep

\* Every step keeps the places of the living and the dead.
LEMMA LifeStep == IndInv /\ [Next]_vars => LifeInv'
<1> SUFFICES ASSUME IndInv, [Next]_vars PROVE LifeInv'
  OBVIOUS
<1> USE CacheAssumption, Actors, LeaseNames DEF IndInv, TypeOK, LifeInv, Dead, vars, files,
   life, sweep, own
<1>1. ASSUME NEW a \in Actor, SweepTemp(a) PROVE LifeInv'
  BY <1>1 DEF SweepTemp, MyLease, Resting
<1>2. ASSUME NEW a \in Actor, Take(a) PROVE LifeInv'
  BY <1>2 DEF Take, MyLease, Doing, Resting, Acquire
<1>3. ASSUME NEW a \in Actor, GiveUpTake(a) PROVE LifeInv'
  BY <1>3 DEF GiveUpTake, MyLease, Here, Resting
<1>4. ASSUME NEW a \in Actor, KeepListed(a) PROVE LifeInv'
  BY <1>4 DEF KeepListed, LookAtPlain, MyLease, Doing, Done, Unlock
<1>5. ASSUME NEW a \in Actor, DropListed(a) PROVE LifeInv'
  BY <1>5 DEF DropListed, LookAtPlain, MyLease, Doing, Done, Unlock
<1>6. ASSUME NEW a \in Actor, LookToRemove(a) PROVE LifeInv'
  BY <1>6, LookOutcome DEF NotRemoved, MyLease, Doing, Done, Unlock
<1>7. ASSUME NEW a \in Actor, Remove(a) PROVE LifeInv'
  BY <1>7, RemoveOutcome DEF NotRemoved, MyLease, Doing, Done, Unlock
<1>8. ASSUME NEW a \in Actor, LookAgain(a) PROVE LifeInv'
  BY <1>8, AgainOutcome DEF MyLease, Doing, Done, Unlock
<1>9. ASSUME NEW a \in Actor, Unmark(a) PROVE LifeInv'
  BY <1>9 DEF Unmark, MyLease, Doing, Done
<1>10. ASSUME NEW w \in Worker, BeginRead(w) PROVE LifeInv'
  BY <1>10 DEF BeginRead, Prune, MyLease, Here, Sweep, At, Resting
<1>11. ASSUME NEW w \in Worker, TakeEntry(w) PROVE LifeInv'
  BY <1>11 DEF TakeEntry, MyLease, GoTo, Here, At, Resting, Acquire
<1>12. ASSUME NEW w \in Worker, GiveUpEntry(w) PROVE LifeInv'
  BY <1>12 DEF GiveUpEntry, MyLease, GoTo, Here, Sweep, At, Resting
<1>13. ASSUME NEW w \in Worker, OpenLease(w) PROVE LifeInv'
  BY <1>13 DEF OpenLease, MyLease, GoTo, Here, At, Resting
<1>14. ASSUME NEW w \in Worker, NothingToLease(w) PROVE LifeInv'
  BY <1>14 DEF NothingToLease, NoLease, MyLease, GoTo, Here, Sweep, At, Resting, Unlock
<1>15. ASSUME NEW w \in Worker, WriteLease(w) PROVE LifeInv'
  BY <1>15 DEF WriteLease, MyLease, GoTo, Here, At, Resting, Unlock
<1>16. ASSUME NEW w \in Worker, WriteLeaseFails(w) PROVE LifeInv'
  BY <1>16 DEF WriteLeaseFails, NoLease, MyLease, GoTo, Here, Sweep, At, Resting, Unlock
<1>17. ASSUME NEW w \in Worker, OpenPlain(w) PROVE LifeInv'
  BY <1>17 DEF OpenPlain, Prune, MyLease, GoTo, Here, Sweep, At, Resting, Unlock
<1>18. ASSUME NEW w \in Worker, OpenFails(w) PROVE LifeInv'
  BY <1>18 DEF OpenFails, LetGoMine, LetGo, MyLease, Here, Doing, At, Resting
<1>19. ASSUME NEW w \in Worker, CancelOpen(w) PROVE LifeInv'
  BY <1>19 DEF CancelOpen, LetGoMine, LetGo, MyLease, Here, Doing, At, Resting
<1>20. ASSUME NEW w \in Worker, CancelWait(w) PROVE LifeInv'
  BY <1>20 DEF CancelWait, MyLease, Here, Sweep, Resting
<1>21. ASSUME NEW w \in Worker, Release(w) PROVE LifeInv'
  BY <1>21 DEF Release, MyLease, Here, Doing, Done
<1>22. ASSUME NEW w \in Worker, Discard(w) PROVE LifeInv'
  BY <1>22 DEF Discard, MyLease, Here, Sweep, At, Resting
<1>23. ASSUME NEW w \in Worker, SelfWaitEnds(w) PROVE LifeInv'
  BY <1>23 DEF SelfWaitEnds, MyLease, GoTo, Here, At, Resting
<1>24. ASSUME NEW w \in Worker, LookHere(w) PROVE LifeInv'
  BY <1>24, LookHereOutcome DEF Dropped, MyLease, GoTo, Here, At, Resting
<1>25. ASSUME NEW w \in Worker, DropHere(w) PROVE LifeInv'
  BY <1>25 DEF DropHere, Dropped, MyLease, GoTo, Here, At, Resting
<1>26. ASSUME NEW w \in Worker, Publish(w) PROVE LifeInv'
  BY <1>26 DEF Publish, MyLease, GoTo, Here, At, Resting
<1>27. ASSUME NEW w \in Worker, BuildFails(w) PROVE LifeInv'
  BY <1>27 DEF BuildFails, MyLease, GoTo, Here, At, Resting
<1>28. ASSUME NEW w \in Worker, GiveUp(w) PROVE LifeInv'
  BY <1>28 DEF GiveUp, MyLease, GoTo, Here, At, Resting, Unlock
<1>29. ASSUME NEW w \in Worker, EndRead(w) PROVE LifeInv'
  BY <1>29 DEF EndRead, LetGoMine, LetGo, MyLease, GoTo, Here, Doing, At, Resting
<1>30. ASSUME NEW w \in Worker, Close(w) PROVE LifeInv'
  BY <1>30 DEF Close, LetGo, MyLease, Here, Doing, At, Resting
<1>31. ASSUME NEW w \in Worker, Exit(w) PROVE LifeInv'
  BY <1>31 DEF Exit, Ends, MyLease, Here, Doing, Done
<1>32. ASSUME NEW w \in Worker, Die(w) PROVE LifeInv'
  BY <1>32 DEF Die, Ends, MyLease, Here, Doing, Done
<1>33. ASSUME NEW w \in Worker, Collect(w) PROVE LifeInv'
  BY <1>33 DEF Collect, Clear, MyLease, GoTo, Here, Sweep, At, Resting
<1>34. ASSUME NEW w \in Worker, Unlink(w) PROVE LifeInv'
  BY <1>34 DEF Unlink, Clear, MyLease, GoTo, Here, Sweep, At, Resting
<1>35. ASSUME NEW w \in Worker, MarkLeases(w) PROVE LifeInv'
  BY <1>35 DEF MarkLeases, MyLease, Here, Sweep, At, Resting
<1>36. ASSUME NEW w \in Worker, CleanTemps(w) PROVE LifeInv'
  BY <1>36 DEF CleanTemps, MyLease, GoTo, Here, At, Resting
<1>37. ASSUME PruneTimer PROVE LifeInv'
  BY <1>37 DEF PruneTimer, Prune, MyLease, Here, Sweep, At, Resting
<1>38. ASSUME NEW l \in Lease, LeaseAges(l) PROVE LifeInv'
  BY <1>38 DEF LeaseAges, MyLease
<1>39. CASE UNCHANGED vars
  BY <1>39 DEF MyLease
<1> QED
  BY <1>1, <1>2, <1>3, <1>4, <1>5, <1>6, <1>7, <1>8, <1>9, <1>10, <1>11,
     <1>12, <1>13, <1>14, <1>15, <1>16, <1>17, <1>18, <1>19, <1>20, <1>21,
     <1>22, <1>23, <1>24, <1>25, <1>26, <1>27, <1>28, <1>29, <1>30, <1>31,
     <1>32, <1>33, <1>34, <1>35, <1>36, <1>37, <1>38, <1>39 DEF Next,
     SweepStep, ReadStep, CleanupStep

\* Every step keeps the lease of a read.
LEMMA LeaseStep == IndInv /\ [Next]_vars => LeaseInv'
<1> SUFFICES ASSUME IndInv, [Next]_vars PROVE LeaseInv'
  OBVIOUS
<1> USE CacheAssumption, Actors, LeaseNames, Items DEF IndInv, TypeOK, LeaseInv, LifeInv,
   Dead, vars, files, life, sweep, own
<1>1. ASSUME NEW a \in Actor, SweepTemp(a) PROVE LeaseInv'
  BY <1>1 DEF SweepTemp, MyLease, Left, Resting
<1>2. ASSUME NEW a \in Actor, Take(a) PROVE LeaseInv'
  BY <1>2 DEF Take, MyLease, Left, Doing, Resting, Acquire
<1>3. ASSUME NEW a \in Actor, GiveUpTake(a) PROVE LeaseInv'
  BY <1>3 DEF GiveUpTake, MyLease, Left, Here, Resting
<1>4. ASSUME NEW a \in Actor, KeepListed(a) PROVE LeaseInv'
  BY <1>4 DEF KeepListed, LookAtPlain, MyLease, Left, Doing, Done, Unlock
<1>5. ASSUME NEW a \in Actor, DropListed(a) PROVE LeaseInv'
  BY <1>5 DEF DropListed, LookAtPlain, MyLease, Left, Doing, Done, Unlock
<1>6. ASSUME NEW a \in Actor, LookToRemove(a) PROVE LeaseInv'
  BY <1>6, LookOutcome DEF NotRemoved, MyLease, Left, Doing, Done, Unlock
<1>7. ASSUME NEW a \in Actor, Remove(a) PROVE LeaseInv'
  BY <1>7, RemoveOutcome DEF NotRemoved, MyLease, Left, Doing, Done, Unlock
<1>8. ASSUME NEW a \in Actor, LookAgain(a) PROVE LeaseInv'
  BY <1>8, AgainOutcome DEF MyLease, Left, Doing, Done, Unlock
<1>9. ASSUME NEW a \in Actor, Unmark(a) PROVE LeaseInv'
  BY <1>9 DEF Unmark, MyLease, Left, Doing, Done
<1>10. ASSUME NEW w \in Worker, BeginRead(w) PROVE LeaseInv'
  BY <1>10 DEF BeginRead, Prune, MyLease, Left, Here, Sweep, At, Resting
<1>11. ASSUME NEW w \in Worker, TakeEntry(w) PROVE LeaseInv'
  BY <1>11 DEF TakeEntry, MyLease, Left, GoTo, Here, At, Resting, Acquire
<1>12. ASSUME NEW w \in Worker, GiveUpEntry(w) PROVE LeaseInv'
  BY <1>12 DEF GiveUpEntry, MyLease, Left, GoTo, Here, Sweep, At, Resting
<1>13. ASSUME NEW w \in Worker, OpenLease(w) PROVE LeaseInv'
  BY <1>13 DEF OpenLease, FreeNumbers, MyLease, Left, GoTo, Here, At, Resting
<1>14. ASSUME NEW w \in Worker, NothingToLease(w) PROVE LeaseInv'
  BY <1>14 DEF NothingToLease, NoLease, MyLease, Left, GoTo, Here, Sweep, At, Resting, Unlock
<1>15. ASSUME NEW w \in Worker, WriteLease(w) PROVE LeaseInv'
  BY <1>15 DEF WriteLease, MyLease, Left, GoTo, Here, At, Resting, Unlock
<1>16. ASSUME NEW w \in Worker, WriteLeaseFails(w) PROVE LeaseInv'
  BY <1>16 DEF WriteLeaseFails, NoLease, MyLease, Left, GoTo, Here, Sweep, At, Resting, Unlock
<1>17. ASSUME NEW w \in Worker, OpenPlain(w) PROVE LeaseInv'
  BY <1>17 DEF OpenPlain, Prune, MyLease, Left, GoTo, Here, Sweep, At, Resting, Unlock
<1>18. ASSUME NEW w \in Worker, OpenFails(w) PROVE LeaseInv'
  BY <1>18 DEF OpenFails, LetGoMine, LetGo, MyLease, Left, Here, Doing, At, Resting
<1>19. ASSUME NEW w \in Worker, CancelOpen(w) PROVE LeaseInv'
  BY <1>19 DEF CancelOpen, LetGoMine, LetGo, MyLease, Left, Here, Doing, At, Resting
<1>20. ASSUME NEW w \in Worker, CancelWait(w) PROVE LeaseInv'
  BY <1>20 DEF CancelWait, MyLease, Left, Here, Sweep, Resting
<1>21. ASSUME NEW w \in Worker, Release(w) PROVE LeaseInv'
  BY <1>21 DEF Release, MyLease, Left, Here, Doing, Done
<1>22. ASSUME NEW w \in Worker, Discard(w) PROVE LeaseInv'
  BY <1>22 DEF Discard, MyLease, Left, Here, Sweep, At, Resting
<1>23. ASSUME NEW w \in Worker, SelfWaitEnds(w) PROVE LeaseInv'
  BY <1>23 DEF SelfWaitEnds, MyLease, Left, GoTo, Here, At, Resting
<1>24. ASSUME NEW w \in Worker, LookHere(w) PROVE LeaseInv'
  BY <1>24, LookHereOutcome DEF Dropped, MyLease, Left, GoTo, Here, At, Resting
<1>25. ASSUME NEW w \in Worker, DropHere(w) PROVE LeaseInv'
  BY <1>25 DEF DropHere, Dropped, MyLease, Left, GoTo, Here, At, Resting
<1>26. ASSUME NEW w \in Worker, Publish(w) PROVE LeaseInv'
  BY <1>26 DEF Publish, MyLease, Left, GoTo, Here, At, Resting
<1>27. ASSUME NEW w \in Worker, BuildFails(w) PROVE LeaseInv'
  BY <1>27 DEF BuildFails, MyLease, Left, GoTo, Here, At, Resting
<1>28. ASSUME NEW w \in Worker, GiveUp(w) PROVE LeaseInv'
  BY <1>28 DEF GiveUp, MyLease, Left, GoTo, Here, At, Resting, Unlock
<1>29. ASSUME NEW w \in Worker, EndRead(w) PROVE LeaseInv'
  BY <1>29 DEF EndRead, LetGoMine, LetGo, MyLease, Left, GoTo, Here, Doing, At, Resting
<1>30. ASSUME NEW w \in Worker, Close(w) PROVE LeaseInv'
  BY <1>30 DEF Close, LetGo, MyLease, Left, Here, Doing, At, Resting
<1>31. ASSUME NEW w \in Worker, Exit(w) PROVE LeaseInv'
  BY <1>31 DEF Exit, Ends, MyLease, Left, Here, Doing, Done
<1>32. ASSUME NEW w \in Worker, Die(w) PROVE LeaseInv'
  BY <1>32 DEF Die, Ends, MyLease, Left, Here, Doing, Done
<1>33. ASSUME NEW w \in Worker, Collect(w) PROVE LeaseInv'
  BY <1>33 DEF Collect, Clear, MyLease, Left, GoTo, Here, Sweep, At, Resting
<1>34. ASSUME NEW w \in Worker, Unlink(w) PROVE LeaseInv'
  BY <1>34 DEF Unlink, Clear, MyLease, Left, GoTo, Here, Sweep, At, Resting
<1>35. ASSUME NEW w \in Worker, MarkLeases(w) PROVE LeaseInv'
  BY <1>35 DEF MarkLeases, MyLease, Left, Here, Sweep, At, Resting
<1>36. ASSUME NEW w \in Worker, CleanTemps(w) PROVE LeaseInv'
  BY <1>36 DEF CleanTemps, MyLease, Left, GoTo, Here, At, Resting
<1>37. ASSUME PruneTimer PROVE LeaseInv'
  BY <1>37 DEF PruneTimer, Prune, MyLease, Left, Here, Sweep, At, Resting
<1>38. ASSUME NEW l \in Lease, LeaseAges(l) PROVE LeaseInv'
  BY <1>38 DEF LeaseAges, MyLease, Left
<1>39. CASE UNCHANGED vars
  BY <1>39 DEF MyLease, Left
<1> QED
  BY <1>1, <1>2, <1>3, <1>4, <1>5, <1>6, <1>7, <1>8, <1>9, <1>10, <1>11,
     <1>12, <1>13, <1>14, <1>15, <1>16, <1>17, <1>18, <1>19, <1>20, <1>21,
     <1>22, <1>23, <1>24, <1>25, <1>26, <1>27, <1>28, <1>29, <1>30, <1>31,
     <1>32, <1>33, <1>34, <1>35, <1>36, <1>37, <1>38, <1>39 DEF Next,
     SweepStep, ReadStep, CleanupStep

\* Every step keeps a read that holds the lock from sweeping.
LEMMA SweepInvStep == IndInv /\ [Next]_vars => SweepInv'
<1> SUFFICES ASSUME IndInv, [Next]_vars PROVE SweepInv'
  OBVIOUS
<1> USE CacheAssumption, Actors DEF IndInv, TypeOK, SweepInv, LifeInv, Inside, Dead, vars,
   files, life, sweep, own
<1>1. ASSUME NEW a \in Actor, SweepTemp(a) PROVE SweepInv'
  BY <1>1 DEF SweepTemp, Locked, Resting
<1>2. ASSUME NEW a \in Actor, Take(a) PROVE SweepInv'
  BY <1>2 DEF Take, Locked, Doing, Resting, Acquire
<1>3. ASSUME NEW a \in Actor, GiveUpTake(a) PROVE SweepInv'
  BY <1>3 DEF GiveUpTake, Locked, Here, Resting
<1>4. ASSUME NEW a \in Actor, KeepListed(a) PROVE SweepInv'
  BY <1>4 DEF KeepListed, LookAtPlain, Locked, Doing, Done, Unlock
<1>5. ASSUME NEW a \in Actor, DropListed(a) PROVE SweepInv'
  BY <1>5 DEF DropListed, LookAtPlain, Locked, Doing, Done, Unlock
<1>6. ASSUME NEW a \in Actor, LookToRemove(a) PROVE SweepInv'
  BY <1>6, LookOutcome DEF NotRemoved, Locked, Doing, Done, Unlock
<1>7. ASSUME NEW a \in Actor, Remove(a) PROVE SweepInv'
  BY <1>7, RemoveOutcome DEF NotRemoved, Locked, Doing, Done, Unlock
<1>8. ASSUME NEW a \in Actor, LookAgain(a) PROVE SweepInv'
  BY <1>8, AgainOutcome DEF Locked, Doing, Done, Unlock
<1>9. ASSUME NEW a \in Actor, Unmark(a) PROVE SweepInv'
  BY <1>9 DEF Unmark, Locked, Doing, Done
<1>10. ASSUME NEW w \in Worker, BeginRead(w) PROVE SweepInv'
  BY <1>10 DEF BeginRead, Prune, Locked, Here, Sweep, At, Resting
<1>11. ASSUME NEW w \in Worker, TakeEntry(w) PROVE SweepInv'
  BY <1>11 DEF TakeEntry, Locked, GoTo, Here, At, Resting, Acquire
<1>12. ASSUME NEW w \in Worker, GiveUpEntry(w) PROVE SweepInv'
  BY <1>12 DEF GiveUpEntry, Locked, GoTo, Here, Sweep, At, Resting
<1>13. ASSUME NEW w \in Worker, OpenLease(w) PROVE SweepInv'
  BY <1>13 DEF OpenLease, Locked, GoTo, Here, At, Resting
<1>14. ASSUME NEW w \in Worker, NothingToLease(w) PROVE SweepInv'
  BY <1>14 DEF NothingToLease, NoLease, Locked, GoTo, Here, Sweep, At, Resting, Unlock
<1>15. ASSUME NEW w \in Worker, WriteLease(w) PROVE SweepInv'
  BY <1>15 DEF WriteLease, Locked, GoTo, Here, At, Resting, Unlock
<1>16. ASSUME NEW w \in Worker, WriteLeaseFails(w) PROVE SweepInv'
  BY <1>16 DEF WriteLeaseFails, NoLease, Locked, GoTo, Here, Sweep, At, Resting, Unlock
<1>17. ASSUME NEW w \in Worker, OpenPlain(w) PROVE SweepInv'
  BY <1>17 DEF OpenPlain, Prune, Locked, GoTo, Here, Sweep, At, Resting, Unlock
<1>18. ASSUME NEW w \in Worker, OpenFails(w) PROVE SweepInv'
  BY <1>18 DEF OpenFails, LetGoMine, LetGo, Locked, Here, Doing, At, Resting
<1>19. ASSUME NEW w \in Worker, CancelOpen(w) PROVE SweepInv'
  BY <1>19 DEF CancelOpen, LetGoMine, LetGo, Locked, Here, Doing, At, Resting
<1>20. ASSUME NEW w \in Worker, CancelWait(w) PROVE SweepInv'
  BY <1>20 DEF CancelWait, Locked, Here, Sweep, Resting
<1>21. ASSUME NEW w \in Worker, Release(w) PROVE SweepInv'
  BY <1>21 DEF Release, Locked, Here, Doing, Done
<1>22. ASSUME NEW w \in Worker, Discard(w) PROVE SweepInv'
  BY <1>22 DEF Discard, Locked, Here, Sweep, At, Resting
<1>23. ASSUME NEW w \in Worker, SelfWaitEnds(w) PROVE SweepInv'
  BY <1>23 DEF SelfWaitEnds, Locked, GoTo, Here, At, Resting
<1>24. ASSUME NEW w \in Worker, LookHere(w) PROVE SweepInv'
  BY <1>24, LookHereOutcome DEF Dropped, Locked, GoTo, Here, At, Resting
<1>25. ASSUME NEW w \in Worker, DropHere(w) PROVE SweepInv'
  BY <1>25 DEF DropHere, Dropped, Locked, GoTo, Here, At, Resting
<1>26. ASSUME NEW w \in Worker, Publish(w) PROVE SweepInv'
  BY <1>26 DEF Publish, Locked, GoTo, Here, At, Resting
<1>27. ASSUME NEW w \in Worker, BuildFails(w) PROVE SweepInv'
  BY <1>27 DEF BuildFails, Locked, GoTo, Here, At, Resting
<1>28. ASSUME NEW w \in Worker, GiveUp(w) PROVE SweepInv'
  BY <1>28 DEF GiveUp, Locked, GoTo, Here, At, Resting, Unlock
<1>29. ASSUME NEW w \in Worker, EndRead(w) PROVE SweepInv'
  BY <1>29 DEF EndRead, LetGoMine, LetGo, Locked, GoTo, Here, Doing, At, Resting
<1>30. ASSUME NEW w \in Worker, Close(w) PROVE SweepInv'
  BY <1>30 DEF Close, LetGo, Locked, Here, Doing, At, Resting
<1>31. ASSUME NEW w \in Worker, Exit(w) PROVE SweepInv'
  BY <1>31 DEF Exit, Ends, Locked, Here, Doing, Done
<1>32. ASSUME NEW w \in Worker, Die(w) PROVE SweepInv'
  BY <1>32 DEF Die, Ends, Locked, Here, Doing, Done
<1>33. ASSUME NEW w \in Worker, Collect(w) PROVE SweepInv'
  BY <1>33 DEF Collect, Clear, Locked, GoTo, Here, Sweep, At, Resting
<1>34. ASSUME NEW w \in Worker, Unlink(w) PROVE SweepInv'
  BY <1>34 DEF Unlink, Clear, Locked, GoTo, Here, Sweep, At, Resting
<1>35. ASSUME NEW w \in Worker, MarkLeases(w) PROVE SweepInv'
  BY <1>35 DEF MarkLeases, Locked, Here, Sweep, At, Resting
<1>36. ASSUME NEW w \in Worker, CleanTemps(w) PROVE SweepInv'
  BY <1>36 DEF CleanTemps, Locked, GoTo, Here, At, Resting
<1>37. ASSUME PruneTimer PROVE SweepInv'
  BY <1>37 DEF PruneTimer, Prune, Locked, Here, Sweep, At, Resting
<1>38. ASSUME NEW l \in Lease, LeaseAges(l) PROVE SweepInv'
  BY <1>38 DEF LeaseAges, Locked
<1>39. CASE UNCHANGED vars
  BY <1>39 DEF Locked
<1> QED
  BY <1>1, <1>2, <1>3, <1>4, <1>5, <1>6, <1>7, <1>8, <1>9, <1>10, <1>11,
     <1>12, <1>13, <1>14, <1>15, <1>16, <1>17, <1>18, <1>19, <1>20, <1>21,
     <1>22, <1>23, <1>24, <1>25, <1>26, <1>27, <1>28, <1>29, <1>30, <1>31,
     <1>32, <1>33, <1>34, <1>35, <1>36, <1>37, <1>38, <1>39 DEF Next,
     SweepStep, ReadStep, CleanupStep

\* Who counts nobody sees no reader: no lease that a live process knows.
LEMMA CountSeesReaders ==
  ASSUME TypeOK, \A l \in known : l[1] \in up,
         NEW a, NEW inUse \in BOOLEAN, CountLeases(a, inUse)
  PROVE  /\ \A l \in Lease : file'[l] = "held" => file[l] = "held"
         /\ ~inUse => \A l \in known : file'[l] # "held"
BY DEF CountLeases, LiveLeases, StaleLeases, TypeOK

\* The lock is free, or its owner has died: nobody is where it is held.
LEMMA FreeLock ==
  ASSUME IndInv, ~swapped, lock = NoLock \/ \E w \in Worker : DiedHolding(w)
  PROVE  /\ \A w \in Worker : ~ReadHolds(w)
         /\ \A a \in Actor : ~SweepHolds(a)
<1> USE CacheAssumption, Actors DEF IndInv, CacheInv, LockInv
<1>1. \A w \in Worker : ReadHolds(w) => w \in up
  BY DEF ReadHolds, LifeInv, Inside, Dead
<1>2. CASE lock = NoLock
  BY <1>2 DEF NoLock, Me
<1>3. ASSUME NEW v \in Worker, DiedHolding(v)
      PROVE  /\ \A w \in Worker : ~ReadHolds(w)
             /\ \A a \in Actor : ~SweepHolds(a)
  BY <1>1, <1>3 DEF DiedHolding, Me
<1> QED
  BY <1>2, <1>3

\* The owner of the lock is the only one who is where it is held, and there once.
LEMMA OnlyHolder ==
  ASSUME IndInv, ~swapped, NEW a \in Actor, lock = Me(a)
  PROVE  /\ \A w \in Worker : w # a => ~ReadHolds(w)
         /\ \A b \in Actor : b # a => ~SweepHolds(b)
         /\ a \in Worker /\ SweepHolds(a) => ~ReadHolds(a)
<1> USE Actors DEF IndInv, CacheInv, LockInv
<1>1. \A w \in Worker : w # a => ~ReadHolds(w)
  BY DEF Me
<1>2. \A b \in Actor : b # a => ~SweepHolds(b)
  BY MeApart
<1>3. a \in Worker /\ SweepHolds(a) => ~ReadHolds(a)
  BY DEF SweepInv, ReadHolds, SweepHolds, Inside
<1> QED
  BY <1>1, <1>2, <1>3

\* Every step keeps the lock with who is where it is held, unless a lock is
\* removed that was not the judged one.
LEMMA LockStep == IndInv /\ [Next]_vars => (swapped \/ LockInv)'
<1> SUFFICES ASSUME IndInv, [Next]_vars PROVE (swapped \/ LockInv)'
  OBVIOUS
<1> USE CacheAssumption, Actors, MeApart DEF IndInv, TypeOK, CacheInv, LockInv, LifeInv,
   SweepInv, Inside, Dead, NoLock, vars, files, life, sweep, own
<1>1. ASSUME NEW a \in Actor, SweepTemp(a) PROVE (swapped \/ LockInv)'
  BY <1>1 DEF SweepTemp, ReadHolds, SweepHolds, Me, DiedHolding, Resting
<1>2. ASSUME NEW a \in Actor, Take(a) PROVE (swapped \/ LockInv)'
  <2> SUFFICES ASSUME ~swapped' PROVE LockInv'
    OBVIOUS
  <2>1. ~swapped /\ (lock = NoLock \/ \E v \in Worker : DiedHolding(v))
    BY <1>2 DEF Take, Acquire, vars, files, life, sweep, own
  <2>2. (\A v \in Worker : ~ReadHolds(v)) /\ \A b \in Actor : ~SweepHolds(b)
    BY <2>1, FreeLock
  <2> QED
    BY <2>2, <1>2 DEF Take, ReadHolds, SweepHolds, Me, DiedHolding, Doing, Resting, Acquire
<1>3. ASSUME NEW a \in Actor, GiveUpTake(a) PROVE (swapped \/ LockInv)'
  BY <1>3 DEF GiveUpTake, ReadHolds, SweepHolds, Me, DiedHolding, Here, Resting
<1>4. ASSUME NEW a \in Actor, KeepListed(a) PROVE (swapped \/ LockInv)'
  BY <1>4 DEF KeepListed, LookAtPlain, ReadHolds, SweepHolds, Me, DiedHolding, Doing, Done,
     Unlock
<1>5. ASSUME NEW a \in Actor, DropListed(a) PROVE (swapped \/ LockInv)'
  BY <1>5 DEF DropListed, LookAtPlain, ReadHolds, SweepHolds, Me, DiedHolding, Doing, Done,
     Unlock
<1>6. ASSUME NEW a \in Actor, LookToRemove(a) PROVE (swapped \/ LockInv)'
  <2> SUFFICES ASSUME ~swapped' PROVE LockInv'
    OBVIOUS
  <2>1. ~swapped /\ lock = Me(a)
    BY <1>6, LookOutcome DEF ReadHolds, SweepHolds, Me, At, vars, files, life, sweep, own
  <2>2. /\ \A v \in Worker : v # a => ~ReadHolds(v)
        /\ \A b \in Actor : b # a => ~SweepHolds(b)
        /\ a \in Worker /\ SweepHolds(a) => ~ReadHolds(a)
    BY <2>1, OnlyHolder, Actors
  <2>3. /\ \A v \in Worker : v # a /\ ReadHolds(v)' => ReadHolds(v)
        /\ \A b \in Actor : b # a /\ SweepHolds(b)' => SweepHolds(b)
    BY <1>6, LookOutcome DEF NotRemoved, ReadHolds, SweepHolds, Doing, Done, Unlock
  <2>4. a \in Worker /\ ReadHolds(a)' => lock' = Me(a)
    BY <2>1, <2>2, <1>6, LookOutcome DEF NotRemoved, ReadHolds, SweepHolds, Doing, Done, Unlock
  <2>5. SweepHolds(a)' => lock' = Me(a)
    BY <2>1, <2>2, <1>6, LookOutcome DEF NotRemoved, ReadHolds, SweepHolds, Doing, Done, Unlock
  <2>6. Me(a)' = Me(a) /\ (a \in Worker /\ ReadHolds(a)' => Me(a) = <<a, "self">>)
    BY <1>6, LookOutcome DEF NotRemoved, ReadHolds, Me, Doing, Done, Unlock
  <2> QED
    <3>1. ASSUME NEW v \in Worker, ReadHolds(v)' PROVE lock' = <<v, "self">>
      <4>1. v = a
        BY <2>2, <2>3, <3>1
      <4> QED
        BY <2>4, <2>6, <3>1, <4>1
    <3>2. ASSUME NEW b \in Actor, SweepHolds(b)' PROVE lock' = Me(b)'
      <4>1. b = a
        BY <2>2, <2>3, <3>2
      <4> QED
        BY <2>5, <2>6, <3>2, <4>1
    <3> QED
      BY <3>1, <3>2
<1>7. ASSUME NEW a \in Actor, Remove(a) PROVE (swapped \/ LockInv)'
  <2> SUFFICES ASSUME ~swapped' PROVE LockInv'
    OBVIOUS
  <2>1. ~swapped /\ lock = Me(a)
    BY <1>7, RemoveOutcome DEF ReadHolds, SweepHolds, Me, At, vars, files, life, sweep, own
  <2>2. /\ \A v \in Worker : v # a => ~ReadHolds(v)
        /\ \A b \in Actor : b # a => ~SweepHolds(b)
        /\ a \in Worker /\ SweepHolds(a) => ~ReadHolds(a)
    BY <2>1, OnlyHolder, Actors
  <2>3. /\ \A v \in Worker : v # a /\ ReadHolds(v)' => ReadHolds(v)
        /\ \A b \in Actor : b # a /\ SweepHolds(b)' => SweepHolds(b)
    BY <1>7, RemoveOutcome DEF NotRemoved, ReadHolds, SweepHolds, Doing, Done, Unlock
  <2>4. a \in Worker /\ ReadHolds(a)' => lock' = Me(a)
    BY <2>1, <2>2, <1>7, RemoveOutcome DEF NotRemoved, ReadHolds, SweepHolds, Doing, Done,
       Unlock
  <2>5. SweepHolds(a)' => lock' = Me(a)
    BY <2>1, <2>2, <1>7, RemoveOutcome DEF NotRemoved, ReadHolds, SweepHolds, Doing, Done,
       Unlock
  <2>6. Me(a)' = Me(a) /\ (a \in Worker /\ ReadHolds(a)' => Me(a) = <<a, "self">>)
    BY <1>7, RemoveOutcome DEF NotRemoved, ReadHolds, Me, Doing, Done, Unlock
  <2> QED
    <3>1. ASSUME NEW v \in Worker, ReadHolds(v)' PROVE lock' = <<v, "self">>
      <4>1. v = a
        BY <2>2, <2>3, <3>1
      <4> QED
        BY <2>4, <2>6, <3>1, <4>1
    <3>2. ASSUME NEW b \in Actor, SweepHolds(b)' PROVE lock' = Me(b)'
      <4>1. b = a
        BY <2>2, <2>3, <3>2
      <4> QED
        BY <2>5, <2>6, <3>2, <4>1
    <3> QED
      BY <3>1, <3>2
<1>8. ASSUME NEW a \in Actor, LookAgain(a) PROVE (swapped \/ LockInv)'
  BY <1>8, AgainOutcome DEF ReadHolds, SweepHolds, Me, DiedHolding, Doing, Done, Unlock
<1>9. ASSUME NEW a \in Actor, Unmark(a) PROVE (swapped \/ LockInv)'
  BY <1>9 DEF Unmark, ReadHolds, SweepHolds, Me, DiedHolding, Doing, Done
<1>10. ASSUME NEW w \in Worker, BeginRead(w) PROVE (swapped \/ LockInv)'
  BY <1>10 DEF BeginRead, Prune, ReadHolds, SweepHolds, Me, DiedHolding, Here, Sweep, At,
     Resting
<1>11. ASSUME NEW w \in Worker, TakeEntry(w) PROVE (swapped \/ LockInv)'
  <2> SUFFICES ASSUME ~swapped' PROVE LockInv'
    OBVIOUS
  <2>1. ~swapped /\ (lock = NoLock \/ \E v \in Worker : DiedHolding(v))
    BY <1>11 DEF TakeEntry, Acquire, vars, files, life, sweep, own
  <2>2. (\A v \in Worker : ~ReadHolds(v)) /\ \A b \in Actor : ~SweepHolds(b)
    BY <2>1, FreeLock
  <2> QED
    BY <2>2, <1>11 DEF TakeEntry, ReadHolds, SweepHolds, Me, DiedHolding, GoTo, Here, At,
       Resting, Acquire
<1>12. ASSUME NEW w \in Worker, GiveUpEntry(w) PROVE (swapped \/ LockInv)'
  BY <1>12 DEF GiveUpEntry, ReadHolds, SweepHolds, Me, DiedHolding, GoTo, Here, Sweep, At,
     Resting
<1>13. ASSUME NEW w \in Worker, OpenLease(w) PROVE (swapped \/ LockInv)'
  BY <1>13 DEF OpenLease, ReadHolds, SweepHolds, Me, DiedHolding, GoTo, Here, At, Resting
<1>14. ASSUME NEW w \in Worker, NothingToLease(w) PROVE (swapped \/ LockInv)'
  <2> SUFFICES ASSUME ~swapped' PROVE LockInv'
    OBVIOUS
  <2>1. ~swapped /\ lock = Me(w)
    BY <1>14 DEF NothingToLease, ReadHolds, SweepHolds, Me, At, vars, files, life, sweep, own
  <2>2. /\ \A v \in Worker : v # w => ~ReadHolds(v)
        /\ \A b \in Actor : b # w => ~SweepHolds(b)
        /\ w \in Worker /\ SweepHolds(w) => ~ReadHolds(w)
    BY <2>1, OnlyHolder, Actors
  <2>3. /\ \A v \in Worker : v # w /\ ReadHolds(v)' => ReadHolds(v)
        /\ \A b \in Actor : b # w /\ SweepHolds(b)' => SweepHolds(b)
    BY <1>14 DEF NothingToLease, NoLease, ReadHolds, SweepHolds, GoTo, Here, Sweep, At,
       Resting, Unlock
  <2>4. w \in Worker /\ ReadHolds(w)' => lock' = Me(w)
    BY <2>1, <2>2, <1>14 DEF NothingToLease, NoLease, ReadHolds, SweepHolds, GoTo, Here,
       Sweep, At, Resting, Unlock
  <2>5. SweepHolds(w)' => lock' = Me(w)
    BY <2>1, <2>2, <1>14 DEF NothingToLease, NoLease, ReadHolds, SweepHolds, GoTo, Here,
       Sweep, At, Resting, Unlock
  <2>6. Me(w)' = Me(w) /\ (w \in Worker /\ ReadHolds(w)' => Me(w) = <<w, "self">>)
    BY <1>14 DEF NothingToLease, NoLease, ReadHolds, Me, GoTo, Here, Sweep, At, Resting, Unlock
  <2> QED
    <3>1. ASSUME NEW v \in Worker, ReadHolds(v)' PROVE lock' = <<v, "self">>
      <4>1. v = w
        BY <2>2, <2>3, <3>1
      <4> QED
        BY <2>4, <2>6, <3>1, <4>1
    <3>2. ASSUME NEW b \in Actor, SweepHolds(b)' PROVE lock' = Me(b)'
      <4>1. b = w
        BY <2>2, <2>3, <3>2
      <4> QED
        BY <2>5, <2>6, <3>2, <4>1
    <3> QED
      BY <3>1, <3>2
<1>15. ASSUME NEW w \in Worker, WriteLease(w) PROVE (swapped \/ LockInv)'
  BY <1>15 DEF WriteLease, ReadHolds, SweepHolds, Me, DiedHolding, GoTo, Here, At, Resting,
     Unlock
<1>16. ASSUME NEW w \in Worker, WriteLeaseFails(w) PROVE (swapped \/ LockInv)'
  <2> SUFFICES ASSUME ~swapped' PROVE LockInv'
    OBVIOUS
  <2>1. ~swapped /\ lock = Me(w)
    BY <1>16 DEF WriteLeaseFails, ReadHolds, SweepHolds, Me, At, vars, files, life, sweep, own
  <2>2. /\ \A v \in Worker : v # w => ~ReadHolds(v)
        /\ \A b \in Actor : b # w => ~SweepHolds(b)
        /\ w \in Worker /\ SweepHolds(w) => ~ReadHolds(w)
    BY <2>1, OnlyHolder, Actors
  <2>3. /\ \A v \in Worker : v # w /\ ReadHolds(v)' => ReadHolds(v)
        /\ \A b \in Actor : b # w /\ SweepHolds(b)' => SweepHolds(b)
    BY <1>16 DEF WriteLeaseFails, NoLease, ReadHolds, SweepHolds, GoTo, Here, Sweep, At,
       Resting, Unlock
  <2>4. w \in Worker /\ ReadHolds(w)' => lock' = Me(w)
    BY <2>1, <2>2, <1>16 DEF WriteLeaseFails, NoLease, ReadHolds, SweepHolds, GoTo, Here,
       Sweep, At, Resting, Unlock
  <2>5. SweepHolds(w)' => lock' = Me(w)
    BY <2>1, <2>2, <1>16 DEF WriteLeaseFails, NoLease, ReadHolds, SweepHolds, GoTo, Here,
       Sweep, At, Resting, Unlock
  <2>6. Me(w)' = Me(w) /\ (w \in Worker /\ ReadHolds(w)' => Me(w) = <<w, "self">>)
    BY <1>16 DEF WriteLeaseFails, NoLease, ReadHolds, Me, GoTo, Here, Sweep, At, Resting, Unlock
  <2> QED
    <3>1. ASSUME NEW v \in Worker, ReadHolds(v)' PROVE lock' = <<v, "self">>
      <4>1. v = w
        BY <2>2, <2>3, <3>1
      <4> QED
        BY <2>4, <2>6, <3>1, <4>1
    <3>2. ASSUME NEW b \in Actor, SweepHolds(b)' PROVE lock' = Me(b)'
      <4>1. b = w
        BY <2>2, <2>3, <3>2
      <4> QED
        BY <2>5, <2>6, <3>2, <4>1
    <3> QED
      BY <3>1, <3>2
<1>17. ASSUME NEW w \in Worker, OpenPlain(w) PROVE (swapped \/ LockInv)'
  BY <1>17 DEF OpenPlain, Prune, ReadHolds, SweepHolds, Me, DiedHolding, GoTo, Here, Sweep,
     At, Resting, Unlock
<1>18. ASSUME NEW w \in Worker, OpenFails(w) PROVE (swapped \/ LockInv)'
  BY <1>18 DEF OpenFails, LetGoMine, LetGo, ReadHolds, SweepHolds, Me, DiedHolding, Here,
     Doing, At, Resting
<1>19. ASSUME NEW w \in Worker, CancelOpen(w) PROVE (swapped \/ LockInv)'
  BY <1>19 DEF CancelOpen, LetGoMine, LetGo, ReadHolds, SweepHolds, Me, DiedHolding, Here,
     Doing, At, Resting
<1>20. ASSUME NEW w \in Worker, CancelWait(w) PROVE (swapped \/ LockInv)'
  BY <1>20 DEF CancelWait, ReadHolds, SweepHolds, Me, DiedHolding, Here, Sweep, Resting
<1>21. ASSUME NEW w \in Worker, Release(w) PROVE (swapped \/ LockInv)'
  BY <1>21 DEF Release, ReadHolds, SweepHolds, Me, DiedHolding, Here, Doing, Done
<1>22. ASSUME NEW w \in Worker, Discard(w) PROVE (swapped \/ LockInv)'
  BY <1>22 DEF Discard, ReadHolds, SweepHolds, Me, DiedHolding, Here, Sweep, At, Resting
<1>23. ASSUME NEW w \in Worker, SelfWaitEnds(w) PROVE (swapped \/ LockInv)'
  BY <1>23 DEF SelfWaitEnds, ReadHolds, SweepHolds, Me, DiedHolding, GoTo, Here, At, Resting
<1>24. ASSUME NEW w \in Worker, LookHere(w) PROVE (swapped \/ LockInv)'
  BY <1>24, LookHereOutcome DEF Dropped, ReadHolds, SweepHolds, Me, DiedHolding, GoTo, Here,
     At, Resting
<1>25. ASSUME NEW w \in Worker, DropHere(w) PROVE (swapped \/ LockInv)'
  BY <1>25 DEF DropHere, Dropped, ReadHolds, SweepHolds, Me, DiedHolding, GoTo, Here, At,
     Resting
<1>26. ASSUME NEW w \in Worker, Publish(w) PROVE (swapped \/ LockInv)'
  BY <1>26 DEF Publish, ReadHolds, SweepHolds, Me, DiedHolding, GoTo, Here, At, Resting
<1>27. ASSUME NEW w \in Worker, BuildFails(w) PROVE (swapped \/ LockInv)'
  BY <1>27 DEF BuildFails, ReadHolds, SweepHolds, Me, DiedHolding, GoTo, Here, At, Resting
<1>28. ASSUME NEW w \in Worker, GiveUp(w) PROVE (swapped \/ LockInv)'
  BY <1>28 DEF GiveUp, ReadHolds, SweepHolds, Me, DiedHolding, GoTo, Here, At, Resting, Unlock
<1>29. ASSUME NEW w \in Worker, EndRead(w) PROVE (swapped \/ LockInv)'
  BY <1>29 DEF EndRead, LetGoMine, LetGo, ReadHolds, SweepHolds, Me, DiedHolding, GoTo, Here,
     Doing, At, Resting
<1>30. ASSUME NEW w \in Worker, Close(w) PROVE (swapped \/ LockInv)'
  BY <1>30 DEF Close, LetGo, ReadHolds, SweepHolds, Me, DiedHolding, Here, Doing, At, Resting
<1>31. ASSUME NEW w \in Worker, Exit(w) PROVE (swapped \/ LockInv)'
  BY <1>31 DEF Exit, Ends, ReadHolds, SweepHolds, Me, DiedHolding, Here, Doing, Done
<1>32. ASSUME NEW w \in Worker, Die(w) PROVE (swapped \/ LockInv)'
  BY <1>32 DEF Die, Ends, ReadHolds, SweepHolds, Me, DiedHolding, Here, Doing, Done
<1>33. ASSUME NEW w \in Worker, Collect(w) PROVE (swapped \/ LockInv)'
  BY <1>33 DEF Collect, Clear, ReadHolds, SweepHolds, Me, DiedHolding, GoTo, Here, Sweep, At,
     Resting
<1>34. ASSUME NEW w \in Worker, Unlink(w) PROVE (swapped \/ LockInv)'
  <2> SUFFICES ASSUME ~swapped' PROVE LockInv'
    OBVIOUS
  <2>1. ~swapped /\ (lock = NoLock \/ \E v \in Worker : DiedHolding(v))
    BY <1>34 DEF Unlink, Clear, Acquire, vars, files, life, sweep, own
  <2>2. (\A v \in Worker : ~ReadHolds(v)) /\ \A b \in Actor : ~SweepHolds(b)
    BY <2>1, FreeLock
  <2> QED
    BY <2>2, <1>34 DEF Unlink, Clear, ReadHolds, SweepHolds, Me, DiedHolding, GoTo, Here,
       Sweep, At, Resting
<1>35. ASSUME NEW w \in Worker, MarkLeases(w) PROVE (swapped \/ LockInv)'
  BY <1>35 DEF MarkLeases, ReadHolds, SweepHolds, Me, DiedHolding, Here, Sweep, At, Resting
<1>36. ASSUME NEW w \in Worker, CleanTemps(w) PROVE (swapped \/ LockInv)'
  BY <1>36 DEF CleanTemps, ReadHolds, SweepHolds, Me, DiedHolding, GoTo, Here, At, Resting
<1>37. ASSUME PruneTimer PROVE (swapped \/ LockInv)'
  BY <1>37 DEF PruneTimer, Prune, ReadHolds, SweepHolds, Me, DiedHolding, Here, Sweep, At,
     Resting
<1>38. ASSUME NEW l \in Lease, LeaseAges(l) PROVE (swapped \/ LockInv)'
  BY <1>38 DEF LeaseAges, ReadHolds, SweepHolds, Me, DiedHolding
<1>39. CASE UNCHANGED vars
  BY <1>39 DEF ReadHolds, SweepHolds, Me, DiedHolding
<1> QED
  BY <1>1, <1>2, <1>3, <1>4, <1>5, <1>6, <1>7, <1>8, <1>9, <1>10, <1>11,
     <1>12, <1>13, <1>14, <1>15, <1>16, <1>17, <1>18, <1>19, <1>20, <1>21,
     <1>22, <1>23, <1>24, <1>25, <1>26, <1>27, <1>28, <1>29, <1>30, <1>31,
     <1>32, <1>33, <1>34, <1>35, <1>36, <1>37, <1>38, <1>39 DEF Next,
     SweepStep, ReadStep, CleanupStep

\* Every step keeps the database from being removed under a reader, and a
\* lease from being written on one that is gone.
LEMMA UseStep == IndInv /\ [Next]_vars => (swapped \/ UseInv)'
<1> SUFFICES ASSUME IndInv, [Next]_vars PROVE (swapped \/ UseInv)'
  OBVIOUS
<1> USE CacheAssumption, Actors, MeApart, LeaseNames DEF IndInv, TypeOK, CacheInv, LockInv,
   UseInv, LifeInv, SweepInv, LeaseInv, Inside, Dead, vars, files, life, sweep, own
<1>1. ASSUME NEW a \in Actor, SweepTemp(a) PROVE (swapped \/ UseInv)'
  BY <1>1 DEF SweepTemp, ReadHolds, SweepHolds, MyLease, Resting
<1>2. ASSUME NEW a \in Actor, Take(a) PROVE (swapped \/ UseInv)'
  BY <1>2 DEF Take, ReadHolds, SweepHolds, MyLease, Doing, Resting, Acquire
<1>3. ASSUME NEW a \in Actor, GiveUpTake(a) PROVE (swapped \/ UseInv)'
  BY <1>3 DEF GiveUpTake, ReadHolds, SweepHolds, MyLease, Here, Resting
<1>4. ASSUME NEW a \in Actor, KeepListed(a) PROVE (swapped \/ UseInv)'
  <2> SUFFICES ASSUME ~swapped' PROVE UseInv'
    OBVIOUS
  <2>1. PICK inUse \in BOOLEAN : CountLeases(a, inUse)
    BY <1>4 DEF KeepListed, LookAtPlain
  <2>2. \A l \in Lease : file'[l] = "held" => file[l] = "held"
    BY <2>1, CountSeesReaders
  <2> QED
    BY <2>2, <1>4 DEF KeepListed, LookAtPlain, ReadHolds, SweepHolds, MyLease, Doing, Done,
       Unlock
<1>5. ASSUME NEW a \in Actor, DropListed(a) PROVE (swapped \/ UseInv)'
  <2> SUFFICES ASSUME ~swapped' PROVE UseInv'
    OBVIOUS
  <2>1. PICK inUse \in BOOLEAN : CountLeases(a, inUse)
    BY <1>5 DEF DropListed, LookAtPlain
  <2>2. \A l \in Lease : file'[l] = "held" => file[l] = "held"
    BY <2>1, CountSeesReaders
  <2> QED
    BY <2>2, <1>5 DEF DropListed, LookAtPlain, ReadHolds, SweepHolds, MyLease, Doing, Done,
       Unlock
<1>6. ASSUME NEW a \in Actor, LookToRemove(a) PROVE (swapped \/ UseInv)'
  <2> SUFFICES ASSUME ~swapped' PROVE UseInv'
    OBVIOUS
  <2>1. PICK inUse \in BOOLEAN : CountLeases(a, inUse)
    BY <1>6, LookOutcome
  <2>2. \A l \in Lease : file'[l] = "held" => file[l] = "held"
    BY <2>1, CountSeesReaders
  <2>3. CountsNone(a) => \A l \in known : file'[l] # "held"
    BY CountSeesReaders DEF CountsNone
  <2> QED
    BY <2>2, <2>3, <1>6, LookOutcome DEF NotRemoved, ReadHolds, SweepHolds, MyLease, Doing,
       Done, Unlock
<1>7. ASSUME NEW a \in Actor, Remove(a) PROVE (swapped \/ UseInv)'
  <2> SUFFICES ASSUME ~swapped' PROVE UseInv'
    OBVIOUS
  <2>1. ~swapped /\ lock = Me(a) /\ SweepHolds(a)
    BY <1>7, RemoveOutcome DEF SweepHolds
  <2>2. \A w \in Worker : ~ReadHolds(w)
    BY <2>1, OnlyHolder
  <2> QED
    BY <2>2, <1>7, RemoveOutcome DEF NotRemoved, ReadHolds, SweepHolds, MyLease, Doing, Done,
       Unlock
<1>8. ASSUME NEW a \in Actor, LookAgain(a) PROVE (swapped \/ UseInv)'
  <2> SUFFICES ASSUME ~swapped' PROVE UseInv'
    OBVIOUS
  <2>1. PICK inUse \in BOOLEAN : CountLeases(a, inUse)
    BY <1>8, AgainOutcome
  <2>2. \A l \in Lease : file'[l] = "held" => file[l] = "held"
    BY <2>1, CountSeesReaders
  <2> QED
    BY <2>2, <1>8, AgainOutcome DEF ReadHolds, SweepHolds, MyLease, Doing, Done, Unlock
<1>9. ASSUME NEW a \in Actor, Unmark(a) PROVE (swapped \/ UseInv)'
  BY <1>9 DEF Unmark, ReadHolds, SweepHolds, MyLease, Doing, Done
<1>10. ASSUME NEW w \in Worker, BeginRead(w) PROVE (swapped \/ UseInv)'
  BY <1>10 DEF BeginRead, Prune, ReadHolds, SweepHolds, MyLease, Here, Sweep, At, Resting
<1>11. ASSUME NEW w \in Worker, TakeEntry(w) PROVE (swapped \/ UseInv)'
  BY <1>11 DEF TakeEntry, ReadHolds, SweepHolds, MyLease, GoTo, Here, At, Resting, Acquire
<1>12. ASSUME NEW w \in Worker, GiveUpEntry(w) PROVE (swapped \/ UseInv)'
  BY <1>12 DEF GiveUpEntry, ReadHolds, SweepHolds, MyLease, GoTo, Here, Sweep, At, Resting
<1>13. ASSUME NEW w \in Worker, OpenLease(w) PROVE (swapped \/ UseInv)'
  BY <1>13 DEF OpenLease, ReadHolds, SweepHolds, MyLease, GoTo, Here, At, Resting
<1>14. ASSUME NEW w \in Worker, NothingToLease(w) PROVE (swapped \/ UseInv)'
  BY <1>14 DEF NothingToLease, NoLease, ReadHolds, SweepHolds, MyLease, GoTo, Here, Sweep, At,
     Resting, Unlock
<1>15. ASSUME NEW w \in Worker, WriteLease(w) PROVE (swapped \/ UseInv)'
  <2> SUFFICES ASSUME ~swapped' PROVE UseInv'
    OBVIOUS
  <2>1. ~swapped /\ lock = Me(w) /\ ReadHolds(w) /\ w \in Actor
    BY <1>15 DEF WriteLease, At, ReadHolds, Me
  <2>2. (\A v \in Worker : v # w => ~ReadHolds(v)) /\ \A a \in Actor : ~SweepHolds(a)
    BY <2>1, OnlyHolder
  <2> QED
    BY <2>2, <1>15 DEF WriteLease, ReadHolds, SweepHolds, MyLease, GoTo, Here, At, Resting,
       Unlock
<1>16. ASSUME NEW w \in Worker, WriteLeaseFails(w) PROVE (swapped \/ UseInv)'
  BY <1>16 DEF WriteLeaseFails, NoLease, ReadHolds, SweepHolds, MyLease, GoTo, Here, Sweep,
     At, Resting, Unlock
<1>17. ASSUME NEW w \in Worker, OpenPlain(w) PROVE (swapped \/ UseInv)'
  BY <1>17 DEF OpenPlain, Prune, ReadHolds, SweepHolds, MyLease, GoTo, Here, Sweep, At,
     Resting, Unlock
<1>18. ASSUME NEW w \in Worker, OpenFails(w) PROVE (swapped \/ UseInv)'
  BY <1>18 DEF OpenFails, LetGoMine, LetGo, ReadHolds, SweepHolds, MyLease, Here, Doing, At,
     Resting
<1>19. ASSUME NEW w \in Worker, CancelOpen(w) PROVE (swapped \/ UseInv)'
  BY <1>19 DEF CancelOpen, LetGoMine, LetGo, ReadHolds, SweepHolds, MyLease, Here, Doing, At,
     Resting
<1>20. ASSUME NEW w \in Worker, CancelWait(w) PROVE (swapped \/ UseInv)'
  BY <1>20 DEF CancelWait, ReadHolds, SweepHolds, MyLease, Here, Sweep, Resting
<1>21. ASSUME NEW w \in Worker, Release(w) PROVE (swapped \/ UseInv)'
  BY <1>21 DEF Release, ReadHolds, SweepHolds, MyLease, Here, Doing, Done
<1>22. ASSUME NEW w \in Worker, Discard(w) PROVE (swapped \/ UseInv)'
  BY <1>22 DEF Discard, ReadHolds, SweepHolds, MyLease, Here, Sweep, At, Resting
<1>23. ASSUME NEW w \in Worker, SelfWaitEnds(w) PROVE (swapped \/ UseInv)'
  BY <1>23 DEF SelfWaitEnds, ReadHolds, SweepHolds, MyLease, GoTo, Here, At, Resting
<1>24. ASSUME NEW w \in Worker, LookHere(w) PROVE (swapped \/ UseInv)'
  <2> SUFFICES ASSUME ~swapped' PROVE UseInv'
    OBVIOUS
  <2>1. PICK inUse \in BOOLEAN : CountLeases(w, inUse)
    BY <1>24, LookHereOutcome
  <2>2. \A l \in Lease : file'[l] = "held" => file[l] = "held"
    BY <2>1, CountSeesReaders
  <2>3. CountsNone(w) => \A l \in known : file'[l] # "held"
    BY CountSeesReaders DEF CountsNone
  <2> QED
    BY <2>2, <2>3, <1>24, LookHereOutcome DEF Dropped, ReadHolds, SweepHolds, MyLease, GoTo,
       Here, At, Resting
<1>25. ASSUME NEW w \in Worker, DropHere(w) PROVE (swapped \/ UseInv)'
  BY <1>25 DEF DropHere, Dropped, ReadHolds, SweepHolds, MyLease, GoTo, Here, At, Resting
<1>26. ASSUME NEW w \in Worker, Publish(w) PROVE (swapped \/ UseInv)'
  BY <1>26 DEF Publish, ReadHolds, SweepHolds, MyLease, GoTo, Here, At, Resting
<1>27. ASSUME NEW w \in Worker, BuildFails(w) PROVE (swapped \/ UseInv)'
  BY <1>27 DEF BuildFails, ReadHolds, SweepHolds, MyLease, GoTo, Here, At, Resting
<1>28. ASSUME NEW w \in Worker, GiveUp(w) PROVE (swapped \/ UseInv)'
  BY <1>28 DEF GiveUp, ReadHolds, SweepHolds, MyLease, GoTo, Here, At, Resting, Unlock
<1>29. ASSUME NEW w \in Worker, EndRead(w) PROVE (swapped \/ UseInv)'
  BY <1>29 DEF EndRead, LetGoMine, LetGo, ReadHolds, SweepHolds, MyLease, GoTo, Here, Doing,
     At, Resting
<1>30. ASSUME NEW w \in Worker, Close(w) PROVE (swapped \/ UseInv)'
  BY <1>30 DEF Close, LetGo, ReadHolds, SweepHolds, MyLease, Here, Doing, At, Resting
<1>31. ASSUME NEW w \in Worker, Exit(w) PROVE (swapped \/ UseInv)'
  BY <1>31 DEF Exit, Ends, ReadHolds, SweepHolds, MyLease, Here, Doing, Done
<1>32. ASSUME NEW w \in Worker, Die(w) PROVE (swapped \/ UseInv)'
  BY <1>32 DEF Die, Ends, ReadHolds, SweepHolds, MyLease, Here, Doing, Done
<1>33. ASSUME NEW w \in Worker, Collect(w) PROVE (swapped \/ UseInv)'
  BY <1>33 DEF Collect, Clear, ReadHolds, SweepHolds, MyLease, GoTo, Here, Sweep, At, Resting
<1>34. ASSUME NEW w \in Worker, Unlink(w) PROVE (swapped \/ UseInv)'
  BY <1>34 DEF Unlink, Clear, ReadHolds, SweepHolds, MyLease, GoTo, Here, Sweep, At, Resting
<1>35. ASSUME NEW w \in Worker, MarkLeases(w) PROVE (swapped \/ UseInv)'
  BY <1>35 DEF MarkLeases, ReadHolds, SweepHolds, MyLease, Here, Sweep, At, Resting
<1>36. ASSUME NEW w \in Worker, CleanTemps(w) PROVE (swapped \/ UseInv)'
  BY <1>36 DEF CleanTemps, ReadHolds, SweepHolds, MyLease, GoTo, Here, At, Resting
<1>37. ASSUME PruneTimer PROVE (swapped \/ UseInv)'
  BY <1>37 DEF PruneTimer, Prune, ReadHolds, SweepHolds, MyLease, Here, Sweep, At, Resting
<1>38. ASSUME NEW l \in Lease, LeaseAges(l) PROVE (swapped \/ UseInv)'
  BY <1>38 DEF LeaseAges, ReadHolds, SweepHolds, MyLease
<1>39. CASE UNCHANGED vars
  BY <1>39 DEF ReadHolds, SweepHolds, MyLease
<1> QED
  BY <1>1, <1>2, <1>3, <1>4, <1>5, <1>6, <1>7, <1>8, <1>9, <1>10, <1>11,
     <1>12, <1>13, <1>14, <1>15, <1>16, <1>17, <1>18, <1>19, <1>20, <1>21,
     <1>22, <1>23, <1>24, <1>25, <1>26, <1>27, <1>28, <1>29, <1>30, <1>31,
     <1>32, <1>33, <1>34, <1>35, <1>36, <1>37, <1>38, <1>39 DEF Next,
     SweepStep, ReadStep, CleanupStep

\* The initial state satisfies the inductive invariant.
LEMMA InitInv == Init => IndInv
<1> SUFFICES ASSUME Init PROVE IndInv
  OBVIOUS
<1>1. TypeOK
  <2>1. /\ mine \in [Worker -> 0..MaxLease] /\ session \in [Worker -> 0..MaxLease]
        /\ reads \in [Worker -> Nat] /\ \A w \in Worker : reads[w] <= MaxRead[w]
        /\ faults \in 0..MaxFault
    BY CacheAssumption DEF Init
  <2>2. /\ at \in [Actor -> {"idle"}] /\ todo \in [Actor -> {{}}]
        /\ cur \in [Actor -> {Nothing}] /\ phase \in [Actor -> {"rest"}]
    BY DEF Init
  <2>3. lock \in {NoLock} /\ file \in [Lease -> {"none"}] /\ stage \in [Worker -> {"first"}]
    BY DEF Init
  <2> QED
    BY <2>1, <2>2, <2>3 DEF Init, TypeOK
<1>2. LifeInv /\ LeaseInv /\ SweepInv /\ CacheInv
  BY Actors DEF Init, LifeInv, Dead, LeaseInv, SweepInv, CacheInv, LockInv, UseInv,
     ReadHolds, SweepHolds, Inside
<1> QED
  BY <1>1, <1>2 DEF IndInv

\* Types, the places of actors, the lock and the leases fit together in every
\* reachable state, as long as no lock is removed that was not the judged one.
THEOREM CacheInvariance == Spec => []IndInv
<1>1. IndInv /\ [Next]_vars => IndInv'
  BY TypeStep, LifeStep, LeaseStep, SweepInvStep, LockStep, UseStep DEF IndInv, CacheInv
<1> QED
  BY <1>1, InitInv, PTL DEF Spec

\* A database that a live process has leased stays where it is, for any number
\* of workers, reads, lease names and faults.
THEOREM LeasedStays == Spec => []ReadersKeepTheirFile
<1>1. IndInv => ReadersKeepTheirFile
  BY DEF IndInv, CacheInv, UseInv, ReadersKeepTheirFile
<1> QED
  BY <1>1, CacheInvariance, PTL

-----------------------------------------------------------------------------
(* What a database has that readers left behind.  Whoever takes the last     *)
(* lease away, by the settlement of a marker, has removed the database before *)
(* or has seen another lease under the lock; and a lease that is counted is   *)
(* no lease somebody is about to take away, for under the lock none is being  *)
(* written, and only markers are settled.                                    *)

\* The lease that a live process knows is on disk; so is the one it reads with,
\* the one of its session, which is another, and the one it is letting go of.
ReaderInv(w) ==
  /\ at[w] \in {"open", "reading"} => MyLease(w) \in known /\ mine[w] # session[w]
  /\ session[w] # 0 => <<w, session[w]>> \in known
  /\ at[w] = "write" => file[MyLease(w)] = "blank"

KnownInv ==
  /\ \A l \in known : file[l] = "held"
  /\ \A w \in Worker : ReaderInv(w)

ReleaseInv ==
  \A a \in Actor : phase[a] = "release" =>
    \E l \in Lease : /\ cur[a] = Settle(l) /\ l[1] = a /\ a \in up
                     /\ l \notin known /\ file[l] = "held"

\* What a sweep has in hand: a settlement is one of a marker, or of none.
InHand(a, l) == Settle(l) \in todo[a] \/ (cur[a] = Settle(l) /\ phase[a] # "release")

HandAt(a) ==
  /\ phase[a] = "look" => cur[a] \in {Drop, Plain} \cup {Settle(l) : l \in Lease}
  /\ phase[a] = "remove" => cur[a] \in {Drop} \cup {Settle(l) : l \in Lease}
  /\ phase[a] \in {"again", "unmark"} => cur[a] \in {Settle(l) : l \in Lease}

HandInv ==
  /\ \A a \in Actor : HandAt(a)
  /\ \A a \in Actor, l \in Lease : InHand(a, l) => file[l] \in {"marker", "none"}

\* A lease that goes without another look at the database.
Unmarking(l) == \E a \in Actor : phase[a] = "unmark" /\ cur[a] = Settle(l)
Writing(l) == \E w \in Worker : at[w] = "write" /\ l = MyLease(w)
Stays(l) == file[l] # "none" /\ ~Unmarking(l) /\ ~Writing(l)

AnswerInv == plain # "none" /\ leased => \E l \in Lease : Stays(l)

AnsweredInv == KnownInv /\ ReleaseInv /\ HandInv /\ (swapped \/ AnswerInv)

-----------------------------------------------------------------------------
\* What a count does to the artifact of a lease: one that is stale may become a
\* marker, all others stay.
CountMoves(l) ==
  /\ file'[l] = file[l] \/ (l \in StaleLeases /\ file'[l] = "marker")
  /\ file[l] \in {"marker", "none", "blank"} => file'[l] = file[l]
  /\ l[1] \in up /\ file[l] = "held" => file'[l] = "held"

\* A count moves leases as CountMoves says.
LEMMA CountKeeps ==
  ASSUME TypeOK, NEW a, NEW inUse, CountLeases(a, inUse), NEW l \in Lease
  PROVE  CountMoves(l)
<1>1. CASE UNCHANGED file
  BY <1>1 DEF CountMoves
<1>2. ASSUME NEW stuck \in SUBSET StaleLeases,
             file' = [k \in Lease |-> IF k \in StaleLeases \ stuck THEN "marker" ELSE file[k]]
      PROVE  CountMoves(l)
  BY <1>2 DEF CountMoves, StaleLeases
<1> QED
  BY <1>1, <1>2 DEF CountLeases

\* Who counts somebody has seen a lease that is no marker, and has left it.
LEMMA CountSees ==
  ASSUME TypeOK, KnownInv, NEW a, CountLeases(a, TRUE)
  PROVE  \E l \in Lease : file[l] \in {"held", "blank", "spoiled"} /\ file'[l] = file[l]
<1>1. CASE InUseHere(a) /\ UNCHANGED file
  BY <1>1 DEF InUseHere, KnownInv, TypeOK
<1>2. ASSUME NEW stuck \in SUBSET StaleLeases, LiveLeases \cup stuck # {},
             file' = [k \in Lease |-> IF k \in StaleLeases \ stuck THEN "marker" ELSE file[k]]
      PROVE  \E l \in Lease : file[l] \in {"held", "blank", "spoiled"} /\ file'[l] = file[l]
  BY <1>2 DEF LiveLeases, StaleLeases
<1> QED
  BY <1>1, <1>2 DEF CountLeases

\* The settlements that sweeps handle are told apart, and from the other items.
LEMMA Settlements ==
  /\ \A l, k \in Lease : Settle(l) = Settle(k) => l = k
  /\ \A l \in Lease : Settle(l)[2] = l /\ Settle(l) \notin {Drop, Plain, Nothing}
  /\ \A l \in Lease, w \in Worker : Settle(l) # Temp(w)
BY DEF Settle, Drop, Plain, Nothing, Temp

\* What is listed for settlement is a marker.
LEMMA ListedMarkers ==
  ASSUME TypeOK PROVE \A l \in Lease : Settle(l) \in Listed => file[l] = "marker"
BY Settlements DEF Listed, TypeOK

\* What a sweep takes under the lock.
LEMMA LockedItems ==
  ASSUME NEW item \in Item, item[1] # "temp"
  PROVE  item \in {Drop, Plain} \cup {Settle(l) : l \in Lease}
BY DEF Item, Temp

\* A new lease has a number that nothing refers to (OpenLease).
LEMMA OpenOutcome ==
  ASSUME NEW w, OpenLease(w)
  PROVE  /\ At(w, "lease") /\ GoTo(w, "write")
         /\ \E n \in 1..MaxLease :
              /\ file[<<w, n>>] = "none" /\ n # session[w]
              /\ \A a \in Actor : Settle(<<w, n>>) \notin todo[a] \cup {cur[a]}
              /\ mine' = [mine EXCEPT ![w] = n]
              /\ file' = [file EXCEPT ![<<w, n>>] = "blank"]
         /\ UNCHANGED <<plain, temp, lock, known, stage, session, reads, life, faults, leased, swapped>>
BY DEF OpenLease, FreeNumbers

\* What the removal of the database leads to, with the database (Remove).
LEMMA RemoveCases ==
  ASSUME NEW a, Remove(a)
  PROVE  plain' = "none" \/ (NotRemoved(a) /\ UNCHANGED <<plain, leased>>)
BY DEF Remove, RemovePlain

\* The same of the look again, and of the removal under the lock of a read.
LEMMA AgainCases ==
  ASSUME NEW a, LookAgain(a)
  PROVE  CountLeases(a, TRUE) \/ Done(a)
BY Zenon DEF LookAgain

\* A read that opens removes the database, or leaves it.
LEMMA DropCases ==
  ASSUME NEW w, DropHere(w)
  PROVE  plain' = "none" \/ UNCHANGED <<plain, leased>>
BY DEF DropHere, RemovePlain

\* The functions of the state and where they are defined.
Shape ==
  /\ DOMAIN at = Actor /\ DOMAIN todo = Actor /\ DOMAIN cur = Actor /\ DOMAIN phase = Actor
  /\ DOMAIN file = Lease /\ DOMAIN stage = Worker
  /\ DOMAIN mine = Worker /\ DOMAIN session = Worker
  /\ known \subseteq Lease /\ Worker \subseteq Actor
  /\ \A w \in Worker : mine[w] \in 0..MaxLease /\ session[w] \in 0..MaxLease

\* They are where the types say.
LEMMA Shapes == ASSUME TypeOK PROVE Shape
BY Actors DEF TypeOK, Shape

\* Every step keeps the leases that live processes know.
LEMMA KnownStep == IndInv /\ AnsweredInv /\ [Next]_vars => KnownInv'
<1> SUFFICES ASSUME IndInv, AnsweredInv, [Next]_vars PROVE KnownInv'
  OBVIOUS
<1>s. Shape
  BY Shapes DEF IndInv
<1>k. (\A l \in known : file[l] = "held") /\ \A w \in Worker : ReaderInv(w)
  BY DEF AnsweredInv, KnownInv
<1>l. /\ \A w \in Worker : w \in up <=> at[w] \notin Dead
      /\ \A l \in known : l[1] \in up
  BY DEF IndInv, LifeInv
<1>r. \A a \in Actor : phase[a] = "release" =>
        \E l \in Lease : /\ cur[a] = Settle(l) /\ l[1] = a /\ a \in up
                         /\ l \notin known /\ file[l] = "held"
  BY DEF AnsweredInv, ReleaseInv
<1>m. \A w \in Worker : at[w] \in {"write", "open", "reading"} => mine[w] # 0
  BY DEF IndInv, LeaseInv
<1>w. \A w \in Worker : at[w] \in Inside \cup {"open"} =>
        todo[w] = {} /\ (phase[w] = "rest" \/ (phase[w] = "release" /\ at[w] = "selfwait"))
  BY DEF IndInv, SweepInv
<1>h. \A a \in Actor, l \in Lease : InHand(a, l) => file[l] \in {"marker", "none"}
  BY DEF AnsweredInv, HandInv
<1>i. \A a \in Actor : HandAt(a)
  BY DEF AnsweredInv, HandInv
<1>g. /\ \A l \in Lease : Settle(l) \in Listed => file[l] = "marker"
      /\ \A a \in Actor : todo[a] \subseteq Item
  BY ListedMarkers DEF IndInv, TypeOK
<1> USE LeaseNames, Settlements DEF Shape, files, life, sweep, own, MyLease
<1>1. ASSUME NEW a \in Actor, SweepTemp(a) PROVE KnownInv'
  BY <1>k, <1>1 DEF SweepTemp, ReaderInv, KnownInv
<1>2. ASSUME NEW a \in Actor, Take(a) PROVE KnownInv'
  BY <1>k, <1>2 DEF Take, ReaderInv, KnownInv
<1>3. ASSUME NEW a \in Actor, GiveUpTake(a) PROVE KnownInv'
  BY <1>s, <1>k, <1>3 DEF GiveUpTake, Here, ReaderInv, KnownInv
<1>4. ASSUME NEW a \in Actor, KeepListed(a) PROVE KnownInv'
  <2>1. PICK inUse \in BOOLEAN : CountLeases(a, inUse)
    BY <1>4 DEF KeepListed, LookAtPlain
  <2>2. \A l \in Lease : CountMoves(l)
    BY <2>1, CountKeeps DEF IndInv
  <2> QED
    BY <2>2, <1>s, <1>k, <1>l, <1>m, <1>4 DEF CountMoves, KeepListed, LookAtPlain,
       ReaderInv, KnownInv
<1>5. ASSUME NEW a \in Actor, DropListed(a) PROVE KnownInv'
  <2>1. PICK inUse \in BOOLEAN : CountLeases(a, inUse)
    BY <1>5 DEF DropListed, LookAtPlain
  <2>2. \A l \in Lease : CountMoves(l)
    BY <2>1, CountKeeps DEF IndInv
  <2> QED
    BY <2>2, <1>s, <1>k, <1>l, <1>m, <1>5 DEF CountMoves, DropListed, LookAtPlain,
       ReaderInv, KnownInv
<1>6. ASSUME NEW a \in Actor, LookToRemove(a) PROVE KnownInv'
  <2>1. PICK inUse \in BOOLEAN : CountLeases(a, inUse)
    BY <1>6, LookOutcome
  <2>2. \A l \in Lease : CountMoves(l)
    BY <2>1, CountKeeps DEF IndInv
  <2> QED
    BY <2>2, <1>s, <1>k, <1>l, <1>m, <1>6, LookOutcome DEF CountMoves, ReaderInv, KnownInv
<1>7. ASSUME NEW a \in Actor, Remove(a) PROVE KnownInv'
  BY <1>k, <1>7, RemoveOutcome DEF ReaderInv, KnownInv
<1>8. ASSUME NEW a \in Actor, LookAgain(a) PROVE KnownInv'
  <2>1. PICK inUse \in BOOLEAN : CountLeases(a, inUse)
    BY <1>8, AgainOutcome
  <2>2. \A l \in Lease : CountMoves(l)
    BY <2>1, CountKeeps DEF IndInv
  <2> QED
    BY <2>2, <1>s, <1>k, <1>l, <1>m, <1>8, AgainOutcome DEF CountMoves, ReaderInv,
       KnownInv
<1>9. ASSUME NEW a \in Actor, Unmark(a) PROVE KnownInv'
  BY <1>s, <1>k, <1>m, <1>9 DEF Unmark, ReaderInv, KnownInv
<1>10. ASSUME NEW w \in Worker, BeginRead(w) PROVE KnownInv'
  BY <1>k, <1>10 DEF BeginRead, Prune, Sweep, Here, ReaderInv, KnownInv
<1>11. ASSUME NEW w \in Worker, TakeEntry(w) PROVE KnownInv'
  BY <1>k, <1>11 DEF TakeEntry, GoTo, Here, ReaderInv, KnownInv
<1>12. ASSUME NEW w \in Worker, GiveUpEntry(w) PROVE KnownInv'
  BY <1>s, <1>k, <1>12 DEF GiveUpEntry, GoTo, Here, Sweep, ReaderInv, KnownInv
<1>13. ASSUME NEW w \in Worker, OpenLease(w) PROVE KnownInv'
  <2>1. ASSUME NEW l \in known'
        PROVE  file'[l] = "held"
    <3>1. PICK n \in 1..MaxLease : /\ file[<<w, n>>] = "none"
                                   /\ file' = [file EXCEPT ![<<w, n>>] = "blank"]
      BY <1>13, OpenOutcome
    <3>2. l \in known /\ l \in Lease
      BY <1>s, <1>13 DEF OpenLease
    <3> QED
      BY <3>1, <3>2, <1>k
  <2>2. ASSUME NEW v \in Worker
        PROVE  ReaderInv(v)'
    <3>1. PICK n \in 1..MaxLease :
             /\ mine' = [mine EXCEPT ![w] = n]
             /\ file[<<w, n>>] = "none" /\ file' = [file EXCEPT ![<<w, n>>] = "blank"]
      BY <1>13, OpenOutcome
    <3>2. at' = [at EXCEPT ![w] = "write"] /\ UNCHANGED <<known, session>>
      BY <1>13, OpenOutcome DEF GoTo, Here
    <3>3. <<w, n>> \in Lease
      BY CacheAssumption DEF Lease
    <3>4. CASE v = w
      BY <3>1, <3>2, <3>3, <3>4, <1>s, <1>k DEF ReaderInv
    <3>5. CASE v # w
      <4>1. at'[v] = at[v] /\ mine'[v] = mine[v] /\ session'[v] = session[v]
        BY <3>1, <3>2, <3>5
      <4>2. at[v] = "write" => file'[<<v, mine[v]>>] = file[<<v, mine[v]>>]
        BY <3>1, <3>5
      <4> QED
        BY <3>2, <4>1, <4>2, <1>k DEF ReaderInv
    <3> QED
      BY <3>4, <3>5
  <2> QED
    BY <2>1, <2>2 DEF KnownInv
<1>14. ASSUME NEW w \in Worker, NothingToLease(w) PROVE KnownInv'
  BY <1>s, <1>k, <1>14 DEF NothingToLease, NoLease, GoTo, Here, Sweep, ReaderInv, KnownInv
<1>15. ASSUME NEW w \in Worker, WriteLease(w) PROVE KnownInv'
  BY <1>s, <1>k, <1>m, <1>15 DEF WriteLease, GoTo, Here, At, ReaderInv, KnownInv
<1>16. ASSUME NEW w \in Worker, WriteLeaseFails(w) PROVE KnownInv'
  <2>1. ASSUME NEW l \in known'
        PROVE  file'[l] = "held"
    <3>1. file' = [file EXCEPT ![<<w, mine[w]>>] = "none"] /\ known' = known /\ at[w] = "write"
      BY <1>16 DEF WriteLeaseFails, At
    <3>2. file[<<w, mine[w]>>] = "blank"
      BY <3>1, <1>k DEF ReaderInv
    <3> QED
      BY <3>1, <3>2, <1>k
  <2>2. ASSUME NEW v \in Worker
        PROVE  ReaderInv(v)'
    BY <1>s, <1>k, <1>16 DEF WriteLeaseFails, NoLease, GoTo, Here, Sweep, ReaderInv
  <2> QED
    BY <2>1, <2>2 DEF KnownInv
<1>17. ASSUME NEW w \in Worker, OpenPlain(w) PROVE KnownInv'
  BY <1>s, <1>k, <1>17 DEF OpenPlain, Prune, GoTo, Here, Sweep, At, ReaderInv, KnownInv
<1>18. ASSUME NEW w \in Worker, OpenFails(w) PROVE KnownInv'
  BY <1>s, <1>k, <1>18 DEF OpenFails, LetGoMine, LetGo, Here, At, ReaderInv, KnownInv
<1>19. ASSUME NEW w \in Worker, CancelOpen(w) PROVE KnownInv'
  BY <1>s, <1>k, <1>19 DEF CancelOpen, LetGoMine, LetGo, Here, At, ReaderInv, KnownInv
<1>20. ASSUME NEW w \in Worker, CancelWait(w) PROVE KnownInv'
  BY <1>k, <1>20 DEF CancelWait, Here, Sweep, ReaderInv, KnownInv
<1>21. ASSUME NEW w \in Worker, Release(w) PROVE KnownInv'
  BY <1>s, <1>k, <1>r, <1>m, <1>21 DEF Release, Here, ReaderInv, KnownInv
<1>22. ASSUME NEW w \in Worker, Discard(w) PROVE KnownInv'
  BY <1>k, <1>22 DEF Discard, Here, Sweep, ReaderInv, KnownInv
<1>23. ASSUME NEW w \in Worker, SelfWaitEnds(w) PROVE KnownInv'
  BY <1>s, <1>k, <1>23 DEF SelfWaitEnds, GoTo, Here, ReaderInv, KnownInv
<1>24. ASSUME NEW w \in Worker, LookHere(w) PROVE KnownInv'
  <2>1. PICK inUse \in BOOLEAN : CountLeases(w, inUse)
    BY <1>24, LookHereOutcome
  <2>2. \A l \in Lease : CountMoves(l)
    BY <2>1, CountKeeps DEF IndInv
  <2> QED
    BY <2>2, <1>s, <1>k, <1>l, <1>m, <1>24, LookHereOutcome DEF CountMoves, Dropped, GoTo,
       Here, ReaderInv, KnownInv
<1>25. ASSUME NEW w \in Worker, DropHere(w) PROVE KnownInv'
  BY <1>s, <1>k, <1>25 DEF DropHere, Dropped, GoTo, Here, ReaderInv, KnownInv
<1>26. ASSUME NEW w \in Worker, Publish(w) PROVE KnownInv'
  BY <1>k, <1>26 DEF Publish, GoTo, Here, ReaderInv, KnownInv
<1>27. ASSUME NEW w \in Worker, BuildFails(w) PROVE KnownInv'
  BY <1>k, <1>27 DEF BuildFails, GoTo, Here, ReaderInv, KnownInv
<1>28. ASSUME NEW w \in Worker, GiveUp(w) PROVE KnownInv'
  BY <1>k, <1>28 DEF GiveUp, GoTo, Here, ReaderInv, KnownInv
<1>29. ASSUME NEW w \in Worker, EndRead(w) PROVE KnownInv'
  BY <1>s, <1>k, <1>29 DEF EndRead, LetGoMine, LetGo, GoTo, Here, At, ReaderInv, KnownInv
<1>30. ASSUME NEW w \in Worker, Close(w) PROVE KnownInv'
  BY <1>s, <1>k, <1>30 DEF Close, LetGo, Here, ReaderInv, KnownInv
<1>31. ASSUME NEW w \in Worker, Exit(w) PROVE KnownInv'
  BY <1>s, <1>k, <1>31 DEF Exit, Ends, Here, ReaderInv, KnownInv
<1>32. ASSUME NEW w \in Worker, Die(w) PROVE KnownInv'
  BY <1>s, <1>k, <1>32 DEF Die, Ends, Here, ReaderInv, KnownInv
<1>33. ASSUME NEW w \in Worker, Collect(w) PROVE KnownInv'
  BY <1>s, <1>k, <1>33 DEF Collect, Clear, GoTo, Here, Sweep, ReaderInv, KnownInv
<1>34. ASSUME NEW w \in Worker, Unlink(w) PROVE KnownInv'
  BY <1>s, <1>k, <1>34 DEF Unlink, Clear, GoTo, Here, Sweep, ReaderInv, KnownInv
<1>35. ASSUME NEW w \in Worker, MarkLeases(w) PROVE KnownInv'
  BY <1>s, <1>k, <1>l, <1>m, <1>35 DEF MarkLeases, Left, Here, Sweep, At, ReaderInv, Dead,
     KnownInv
<1>36. ASSUME NEW w \in Worker, CleanTemps(w) PROVE KnownInv'
  BY <1>s, <1>k, <1>36 DEF CleanTemps, GoTo, Here, ReaderInv, KnownInv
<1>37. ASSUME PruneTimer PROVE KnownInv'
  BY <1>k, <1>37 DEF PruneTimer, Prune, Here, Sweep, ReaderInv, KnownInv
<1>38. ASSUME NEW l \in Lease, LeaseAges(l) PROVE KnownInv'
  BY <1>k, <1>l, <1>38 DEF LeaseAges, ReaderInv, Dead, KnownInv
<1>39. CASE UNCHANGED vars
  BY <1>k, <1>39 DEF vars, ReaderInv, KnownInv
<1> QED
  BY <1>1, <1>2, <1>3, <1>4, <1>5, <1>6, <1>7, <1>8, <1>9, <1>10, <1>11, <1>12, <1>13,
     <1>14, <1>15, <1>16, <1>17, <1>18, <1>19, <1>20, <1>21, <1>22, <1>23, <1>24, <1>25,
     <1>26, <1>27, <1>28, <1>29, <1>30, <1>31, <1>32, <1>33, <1>34, <1>35, <1>36, <1>37,
     <1>38, <1>39 DEF Next, SweepStep, ReadStep, CleanupStep

\* Every step keeps the lease that is being let go of.
LEMMA ReleaseStep == IndInv /\ AnsweredInv /\ [Next]_vars => ReleaseInv'
<1> SUFFICES ASSUME IndInv, AnsweredInv, [Next]_vars PROVE ReleaseInv'
  OBVIOUS
<1>s. Shape
  BY Shapes DEF IndInv
<1>k. (\A l \in known : file[l] = "held") /\ \A w \in Worker : ReaderInv(w)
  BY DEF AnsweredInv, KnownInv
<1>l. /\ \A w \in Worker : w \in up <=> at[w] \notin Dead
      /\ \A l \in known : l[1] \in up
  BY DEF IndInv, LifeInv
<1>r. \A a \in Actor : phase[a] = "release" =>
        \E l \in Lease : /\ cur[a] = Settle(l) /\ l[1] = a /\ a \in up
                         /\ l \notin known /\ file[l] = "held"
  BY DEF AnsweredInv, ReleaseInv
<1>m. \A w \in Worker : at[w] \in {"write", "open", "reading"} => mine[w] # 0
  BY DEF IndInv, LeaseInv
<1>w. \A w \in Worker : at[w] \in Inside \cup {"open"} =>
        todo[w] = {} /\ (phase[w] = "rest" \/ (phase[w] = "release" /\ at[w] = "selfwait"))
  BY DEF IndInv, SweepInv
<1> USE LeaseNames, Settlements DEF Shape, files, life, sweep, own, MyLease
<1>1. ASSUME NEW a \in Actor, SweepTemp(a) PROVE ReleaseInv'
  BY <1>r, <1>1 DEF SweepTemp, ReleaseInv
<1>2. ASSUME NEW a \in Actor, Take(a) PROVE ReleaseInv'
  BY <1>r, <1>2 DEF Take, Doing, Resting, ReleaseInv
<1>3. ASSUME NEW a \in Actor, GiveUpTake(a) PROVE ReleaseInv'
  BY <1>r, <1>3 DEF GiveUpTake, ReleaseInv
<1>4. ASSUME NEW a \in Actor, KeepListed(a) PROVE ReleaseInv'
  <2>1. PICK inUse \in BOOLEAN : CountLeases(a, inUse)
    BY <1>4 DEF KeepListed, LookAtPlain
  <2>2. \A l \in Lease : CountMoves(l)
    BY <2>1, CountKeeps DEF IndInv
  <2> QED
    BY <2>2, <1>r, <1>4 DEF CountMoves, KeepListed, LookAtPlain, Doing, Done, ReleaseInv
<1>5. ASSUME NEW a \in Actor, DropListed(a) PROVE ReleaseInv'
  <2>1. PICK inUse \in BOOLEAN : CountLeases(a, inUse)
    BY <1>5 DEF DropListed, LookAtPlain
  <2>2. \A l \in Lease : CountMoves(l)
    BY <2>1, CountKeeps DEF IndInv
  <2> QED
    BY <2>2, <1>r, <1>5 DEF CountMoves, DropListed, LookAtPlain, Doing, Done, ReleaseInv
<1>6. ASSUME NEW a \in Actor, LookToRemove(a) PROVE ReleaseInv'
  <2>1. PICK inUse \in BOOLEAN : CountLeases(a, inUse)
    BY <1>6, LookOutcome
  <2>2. \A l \in Lease : CountMoves(l)
    BY <2>1, CountKeeps DEF IndInv
  <2> QED
    BY <2>2, <1>s, <1>r, <1>6, LookOutcome DEF CountMoves, NotRemoved, Doing, Done,
       ReleaseInv
<1>7. ASSUME NEW a \in Actor, Remove(a) PROVE ReleaseInv'
  BY <1>s, <1>r, <1>7, RemoveOutcome DEF NotRemoved, Doing, Done, ReleaseInv
<1>8. ASSUME NEW a \in Actor, LookAgain(a) PROVE ReleaseInv'
  <2>1. PICK inUse \in BOOLEAN : CountLeases(a, inUse)
    BY <1>8, AgainOutcome
  <2>2. \A l \in Lease : CountMoves(l)
    BY <2>1, CountKeeps DEF IndInv
  <2> QED
    BY <2>2, <1>s, <1>r, <1>8, AgainOutcome DEF CountMoves, Doing, Done, ReleaseInv
<1>9. ASSUME NEW a \in Actor, Unmark(a) PROVE ReleaseInv'
  BY <1>s, <1>r, <1>9 DEF Unmark, Doing, Done, ReleaseInv
<1>10. ASSUME NEW w \in Worker, BeginRead(w) PROVE ReleaseInv'
  BY <1>r, <1>10 DEF BeginRead, Prune, Sweep, ReleaseInv
<1>11. ASSUME NEW w \in Worker, TakeEntry(w) PROVE ReleaseInv'
  BY <1>r, <1>11 DEF TakeEntry, GoTo, ReleaseInv
<1>12. ASSUME NEW w \in Worker, GiveUpEntry(w) PROVE ReleaseInv'
  BY <1>r, <1>12 DEF GiveUpEntry, GoTo, Sweep, ReleaseInv
<1>13. ASSUME NEW w \in Worker, OpenLease(w) PROVE ReleaseInv'
  BY <1>r, <1>13 DEF OpenLease, GoTo, At, Resting, ReleaseInv
<1>14. ASSUME NEW w \in Worker, NothingToLease(w) PROVE ReleaseInv'
  BY <1>r, <1>14 DEF NothingToLease, NoLease, GoTo, Sweep, ReleaseInv
<1>15. ASSUME NEW w \in Worker, WriteLease(w) PROVE ReleaseInv'
  BY <1>r, <1>15 DEF WriteLease, GoTo, At, Resting, ReleaseInv
<1>16. ASSUME NEW w \in Worker, WriteLeaseFails(w) PROVE ReleaseInv'
  BY <1>r, <1>16 DEF WriteLeaseFails, NoLease, GoTo, Sweep, At, Resting, ReleaseInv
<1>17. ASSUME NEW w \in Worker, OpenPlain(w) PROVE ReleaseInv'
  BY <1>r, <1>17 DEF OpenPlain, Prune, GoTo, Sweep, ReleaseInv
<1>18. ASSUME NEW w \in Worker, OpenFails(w) PROVE ReleaseInv'
  <2>1. ASSUME NEW b \in Actor, phase'[b] = "release"
        PROVE  \E l \in Lease : /\ cur'[b] = Settle(l) /\ l[1] = b /\ b \in up'
                               /\ l \notin known' /\ file'[l] = "held"
    <3>1. CASE b = w
      <4>1. cur'[w] = Settle(<<w, mine[w]>>) /\ known' = known \ {<<w, mine[w]>>} /\ UNCHANGED <<file, up>>
        BY <1>s, <1>18 DEF OpenFails, LetGoMine, LetGo, Doing
      <4>2. <<w, mine[w]>> \in known /\ <<w, mine[w]>> \in Lease
        BY <1>s, <1>k, <1>m, <1>18 DEF OpenFails, LetGoMine, LetGo, Here, Doing, At,
           Resting, ReaderInv
      <4>3. w \in up /\ file'[<<w, mine[w]>>] = "held" /\ <<w, mine[w]>> \notin known'
        BY <4>1, <4>2, <1>k, <1>l
      <4> QED
        BY <3>1, <4>1, <4>2, <4>3
    <3>2. CASE b # w
      <4>1. /\ phase'[b] = phase[b] /\ cur'[b] = cur[b] /\ known' \subseteq known
            /\ UNCHANGED <<file, up>>
        BY <3>2, <1>18 DEF OpenFails, LetGoMine, LetGo, Doing
      <4> QED
        BY <2>1, <4>1, <1>r
    <3> QED
      BY <3>1, <3>2
  <2> QED
    BY <2>1 DEF ReleaseInv
<1>19. ASSUME NEW w \in Worker, CancelOpen(w) PROVE ReleaseInv'
  <2>1. ASSUME NEW b \in Actor, phase'[b] = "release"
        PROVE  \E l \in Lease : /\ cur'[b] = Settle(l) /\ l[1] = b /\ b \in up'
                               /\ l \notin known' /\ file'[l] = "held"
    <3>1. CASE b = w
      <4>1. cur'[w] = Settle(<<w, mine[w]>>) /\ known' = known \ {<<w, mine[w]>>} /\ UNCHANGED <<file, up>>
        BY <1>s, <1>19 DEF CancelOpen, LetGoMine, LetGo, Doing
      <4>2. <<w, mine[w]>> \in known /\ <<w, mine[w]>> \in Lease
        BY <1>s, <1>k, <1>m, <1>19 DEF CancelOpen, LetGoMine, LetGo, Here, Doing, At,
           Resting, ReaderInv
      <4>3. w \in up /\ file'[<<w, mine[w]>>] = "held" /\ <<w, mine[w]>> \notin known'
        BY <4>1, <4>2, <1>k, <1>l
      <4> QED
        BY <3>1, <4>1, <4>2, <4>3
    <3>2. CASE b # w
      <4>1. /\ phase'[b] = phase[b] /\ cur'[b] = cur[b] /\ known' \subseteq known
            /\ UNCHANGED <<file, up>>
        BY <3>2, <1>19 DEF CancelOpen, LetGoMine, LetGo, Doing
      <4> QED
        BY <2>1, <4>1, <1>r
    <3> QED
      BY <3>1, <3>2
  <2> QED
    BY <2>1 DEF ReleaseInv
<1>20. ASSUME NEW w \in Worker, CancelWait(w) PROVE ReleaseInv'
  BY <1>r, <1>20 DEF CancelWait, Sweep, ReleaseInv
<1>21. ASSUME NEW w \in Worker, Release(w) PROVE ReleaseInv'
  BY <1>s, <1>r, <1>21 DEF Release, Doing, Done, ReleaseInv
<1>22. ASSUME NEW w \in Worker, Discard(w) PROVE ReleaseInv'
  BY <1>r, <1>22 DEF Discard, Sweep, ReleaseInv
<1>23. ASSUME NEW w \in Worker, SelfWaitEnds(w) PROVE ReleaseInv'
  BY <1>r, <1>23 DEF SelfWaitEnds, GoTo, ReleaseInv
<1>24. ASSUME NEW w \in Worker, LookHere(w) PROVE ReleaseInv'
  <2>1. PICK inUse \in BOOLEAN : CountLeases(w, inUse)
    BY <1>24, LookHereOutcome
  <2>2. \A l \in Lease : CountMoves(l)
    BY <2>1, CountKeeps DEF IndInv
  <2> QED
    BY <2>2, <1>r, <1>24, LookHereOutcome DEF CountMoves, Dropped, GoTo, ReleaseInv
<1>25. ASSUME NEW w \in Worker, DropHere(w) PROVE ReleaseInv'
  BY <1>r, <1>25 DEF DropHere, Dropped, GoTo, ReleaseInv
<1>26. ASSUME NEW w \in Worker, Publish(w) PROVE ReleaseInv'
  BY <1>r, <1>26 DEF Publish, GoTo, ReleaseInv
<1>27. ASSUME NEW w \in Worker, BuildFails(w) PROVE ReleaseInv'
  BY <1>r, <1>27 DEF BuildFails, GoTo, ReleaseInv
<1>28. ASSUME NEW w \in Worker, GiveUp(w) PROVE ReleaseInv'
  BY <1>r, <1>28 DEF GiveUp, GoTo, ReleaseInv
<1>29. ASSUME NEW w \in Worker, EndRead(w) PROVE ReleaseInv'
  <2>1. ASSUME NEW b \in Actor, phase'[b] = "release"
        PROVE  \E l \in Lease : /\ cur'[b] = Settle(l) /\ l[1] = b /\ b \in up'
                               /\ l \notin known' /\ file'[l] = "held"
    <3>1. CASE b = w
      <4>1. cur'[w] = Settle(<<w, mine[w]>>) /\ known' = known \ {<<w, mine[w]>>} /\ UNCHANGED <<file, up>>
        BY <2>1, <3>1, <1>s, <1>29 DEF EndRead, LetGoMine, LetGo, GoTo, Doing, At, Resting
      <4>2. <<w, mine[w]>> \in known /\ <<w, mine[w]>> \in Lease
        BY <1>s, <1>k, <1>m, <1>29 DEF EndRead, LetGoMine, LetGo, GoTo, Here, Doing, At,
           Resting, ReaderInv
      <4>3. w \in up /\ file'[<<w, mine[w]>>] = "held" /\ <<w, mine[w]>> \notin known'
        BY <4>1, <4>2, <1>k, <1>l
      <4> QED
        BY <3>1, <4>1, <4>2, <4>3
    <3>2. CASE b # w
      <4>1. /\ phase'[b] = phase[b] /\ cur'[b] = cur[b] /\ known' \subseteq known
            /\ UNCHANGED <<file, up>>
        BY <3>2, <1>s, <1>29 DEF EndRead, LetGoMine, LetGo, GoTo, Doing
      <4> QED
        BY <2>1, <4>1, <1>r
    <3> QED
      BY <3>1, <3>2
  <2> QED
    BY <2>1 DEF ReleaseInv
<1>30. ASSUME NEW w \in Worker, Close(w) PROVE ReleaseInv'
  <2>1. ASSUME NEW b \in Actor, phase'[b] = "release"
        PROVE  \E l \in Lease : /\ cur'[b] = Settle(l) /\ l[1] = b /\ b \in up'
                               /\ l \notin known' /\ file'[l] = "held"
    <3>1. CASE b = w
      <4>1. cur'[w] = Settle(<<w, session[w]>>) /\ known' = known \ {<<w, session[w]>>} /\ UNCHANGED <<file, up>>
        BY <1>s, <1>30 DEF Close, LetGo, Doing
      <4>2. <<w, session[w]>> \in known /\ <<w, session[w]>> \in Lease
        BY <1>s, <1>k, <1>m, <1>30 DEF Close, LetGo, Here, Doing, At, Resting, ReaderInv
      <4>3. w \in up /\ file'[<<w, session[w]>>] = "held" /\ <<w, session[w]>> \notin known'
        BY <4>1, <4>2, <1>k, <1>l
      <4> QED
        BY <3>1, <4>1, <4>2, <4>3
    <3>2. CASE b # w
      <4>1. /\ phase'[b] = phase[b] /\ cur'[b] = cur[b] /\ known' \subseteq known
            /\ UNCHANGED <<file, up>>
        BY <3>2, <1>30 DEF Close, LetGo, Doing
      <4> QED
        BY <2>1, <4>1, <1>r
    <3> QED
      BY <3>1, <3>2
  <2> QED
    BY <2>1 DEF ReleaseInv
<1>31. ASSUME NEW w \in Worker, Exit(w) PROVE ReleaseInv'
  BY <1>s, <1>r, <1>31 DEF Exit, Ends, Doing, Done, ReleaseInv
<1>32. ASSUME NEW w \in Worker, Die(w) PROVE ReleaseInv'
  BY <1>s, <1>r, <1>32 DEF Die, Ends, Doing, Done, ReleaseInv
<1>33. ASSUME NEW w \in Worker, Collect(w) PROVE ReleaseInv'
  BY <1>r, <1>33 DEF Collect, Clear, GoTo, Sweep, ReleaseInv
<1>34. ASSUME NEW w \in Worker, Unlink(w) PROVE ReleaseInv'
  BY <1>r, <1>34 DEF Unlink, Clear, GoTo, Sweep, ReleaseInv
<1>35. ASSUME NEW w \in Worker, MarkLeases(w) PROVE ReleaseInv'
  BY <1>r, <1>35 DEF MarkLeases, Left, Sweep, At, Resting, ReleaseInv
<1>36. ASSUME NEW w \in Worker, CleanTemps(w) PROVE ReleaseInv'
  BY <1>r, <1>36 DEF CleanTemps, GoTo, ReleaseInv
<1>37. ASSUME PruneTimer PROVE ReleaseInv'
  BY <1>r, <1>37 DEF PruneTimer, Prune, Sweep, ReleaseInv
<1>38. ASSUME NEW l \in Lease, LeaseAges(l) PROVE ReleaseInv'
  BY <1>r, <1>38 DEF LeaseAges, ReleaseInv
<1>39. CASE UNCHANGED vars
  BY <1>r, <1>39 DEF vars, ReleaseInv
<1> QED
  BY <1>1, <1>2, <1>3, <1>4, <1>5, <1>6, <1>7, <1>8, <1>9, <1>10, <1>11, <1>12, <1>13,
     <1>14, <1>15, <1>16, <1>17, <1>18, <1>19, <1>20, <1>21, <1>22, <1>23, <1>24, <1>25,
     <1>26, <1>27, <1>28, <1>29, <1>30, <1>31, <1>32, <1>33, <1>34, <1>35, <1>36, <1>37,
     <1>38, <1>39 DEF Next, SweepStep, ReadStep, CleanupStep

\* Every step keeps what the sweeps have in hand.
LEMMA HandStep == IndInv /\ AnsweredInv /\ [Next]_vars => HandInv'
<1> SUFFICES ASSUME IndInv, AnsweredInv, [Next]_vars PROVE HandInv'
  OBVIOUS
<1>s. Shape
  BY Shapes DEF IndInv
<1>k. (\A l \in known : file[l] = "held") /\ \A w \in Worker : ReaderInv(w)
  BY DEF AnsweredInv, KnownInv
<1>l. /\ \A w \in Worker : w \in up <=> at[w] \notin Dead
      /\ \A l \in known : l[1] \in up
  BY DEF IndInv, LifeInv
<1>r. \A a \in Actor : phase[a] = "release" =>
        \E l \in Lease : /\ cur[a] = Settle(l) /\ l[1] = a /\ a \in up
                         /\ l \notin known /\ file[l] = "held"
  BY DEF AnsweredInv, ReleaseInv
<1>m. \A w \in Worker : at[w] \in {"write", "open", "reading"} => mine[w] # 0
  BY DEF IndInv, LeaseInv
<1>w. \A w \in Worker : at[w] \in Inside \cup {"open"} =>
        todo[w] = {} /\ (phase[w] = "rest" \/ (phase[w] = "release" /\ at[w] = "selfwait"))
  BY DEF IndInv, SweepInv
<1>h. \A a \in Actor, l \in Lease : InHand(a, l) => file[l] \in {"marker", "none"}
  BY DEF AnsweredInv, HandInv
<1>i. \A a \in Actor : HandAt(a)
  BY DEF AnsweredInv, HandInv
<1>g. /\ \A l \in Lease : Settle(l) \in Listed => file[l] = "marker"
      /\ \A a \in Actor : todo[a] \subseteq Item
  BY ListedMarkers DEF IndInv, TypeOK
<1> USE LeaseNames, Settlements DEF Shape, files, life, sweep, own, MyLease
<1>1. ASSUME NEW a \in Actor, SweepTemp(a) PROVE HandInv'
  BY <1>h, <1>i, <1>1 DEF SweepTemp, HandAt, InHand, HandInv
<1>2. ASSUME NEW a \in Actor, Take(a) PROVE HandInv'
  <2>1. ASSUME NEW b \in Actor
        PROVE  HandAt(b)'
    <3>1. PICK item \in todo[a] : item[1] # "temp" /\ Doing(a, item, "look")
      BY <1>2 DEF Take, Locked
    <3>2. item \in {Drop, Plain} \cup {Settle(l) : l \in Lease}
      BY <3>1, <1>g, LockedItems
    <3> QED
      BY <3>1, <3>2, <1>s, <1>i DEF Doing, HandAt
  <2>2. ASSUME NEW b \in Actor, NEW k \in Lease, InHand(b, k)'
        PROVE  file'[k] \in {"marker", "none"}
    BY <2>2, <1>h, <1>2 DEF Take, Locked, Doing, Resting, InHand
  <2> QED
    BY <2>1, <2>2 DEF HandInv
<1>3. ASSUME NEW a \in Actor, GiveUpTake(a) PROVE HandInv'
  BY <1>s, <1>h, <1>i, <1>3 DEF GiveUpTake, HandAt, InHand, HandInv
<1>4. ASSUME NEW a \in Actor, KeepListed(a) PROVE HandInv'
  <2>1. PICK inUse \in BOOLEAN : CountLeases(a, inUse)
    BY <1>4 DEF KeepListed, LookAtPlain
  <2>2. \A l \in Lease : CountMoves(l)
    BY <2>1, CountKeeps DEF IndInv
  <2> QED
    BY <2>2, <1>s, <1>h, <1>i, <1>4 DEF CountMoves, KeepListed, LookAtPlain, Doing, Done,
       HandAt, InHand, HandInv
<1>5. ASSUME NEW a \in Actor, DropListed(a) PROVE HandInv'
  <2>1. PICK inUse \in BOOLEAN : CountLeases(a, inUse)
    BY <1>5 DEF DropListed, LookAtPlain
  <2>2. \A l \in Lease : CountMoves(l)
    BY <2>1, CountKeeps DEF IndInv
  <2> QED
    BY <2>2, <1>s, <1>h, <1>i, <1>5 DEF CountMoves, DropListed, LookAtPlain, Doing, Done,
       HandAt, InHand, HandInv
<1>6. ASSUME NEW a \in Actor, LookToRemove(a) PROVE HandInv'
  <2>1. PICK inUse \in BOOLEAN : CountLeases(a, inUse)
    BY <1>6, LookOutcome
  <2>2. \A l \in Lease : CountMoves(l)
    BY <2>1, CountKeeps DEF IndInv
  <2> QED
    BY <2>2, <1>s, <1>h, <1>i, <1>6, LookOutcome DEF CountMoves, NotRemoved, Doing, Done,
       HandAt, InHand, HandInv
<1>7. ASSUME NEW a \in Actor, Remove(a) PROVE HandInv'
  BY <1>s, <1>h, <1>i, <1>7, RemoveOutcome DEF NotRemoved, Doing, Done, HandAt, InHand,
     HandInv
<1>8. ASSUME NEW a \in Actor, LookAgain(a) PROVE HandInv'
  <2>1. PICK inUse \in BOOLEAN : CountLeases(a, inUse)
    BY <1>8, AgainOutcome
  <2>2. \A l \in Lease : CountMoves(l)
    BY <2>1, CountKeeps DEF IndInv
  <2> QED
    BY <2>2, <1>s, <1>h, <1>i, <1>8, AgainOutcome DEF CountMoves, Doing, Done, HandAt,
       InHand, HandInv
<1>9. ASSUME NEW a \in Actor, Unmark(a) PROVE HandInv'
  BY <1>s, <1>h, <1>i, <1>9 DEF Unmark, Doing, Done, HandAt, InHand, HandInv
<1>10. ASSUME NEW w \in Worker, BeginRead(w) PROVE HandInv'
  BY <1>h, <1>i, <1>g, <1>10 DEF BeginRead, Prune, Sweep, HandAt, InHand, HandInv
<1>11. ASSUME NEW w \in Worker, TakeEntry(w) PROVE HandInv'
  BY <1>h, <1>i, <1>11 DEF TakeEntry, GoTo, HandAt, InHand, HandInv
<1>12. ASSUME NEW w \in Worker, GiveUpEntry(w) PROVE HandInv'
  BY <1>s, <1>h, <1>i, <1>12 DEF GiveUpEntry, GoTo, Sweep, HandAt, InHand, HandInv
<1>13. ASSUME NEW w \in Worker, OpenLease(w) PROVE HandInv'
  <2>1. ASSUME NEW b \in Actor
        PROVE  HandAt(b)'
    BY <1>i, <1>13 DEF OpenLease, GoTo, HandAt
  <2>2. ASSUME NEW b \in Actor, NEW k \in Lease, InHand(b, k)'
        PROVE  file'[k] \in {"marker", "none"}
    <3>1. PICK n \in 1..MaxLease :
             /\ \A c \in Actor : Settle(<<w, n>>) \notin todo[c] \cup {cur[c]}
             /\ file' = [file EXCEPT ![<<w, n>>] = "blank"]
      BY <1>13, OpenOutcome
    <3>2. UNCHANGED <<todo, cur, phase>>
      BY <1>13, OpenOutcome DEF GoTo
    <3>3. InHand(b, k) /\ k # <<w, n>>
      BY <2>2, <3>1, <3>2 DEF InHand
    <3> QED
      BY <3>1, <3>3, <1>h
  <2> QED
    BY <2>1, <2>2 DEF HandInv
<1>14. ASSUME NEW w \in Worker, NothingToLease(w) PROVE HandInv'
  BY <1>s, <1>h, <1>i, <1>14 DEF NothingToLease, NoLease, GoTo, Sweep, HandAt, InHand,
     HandInv
<1>15. ASSUME NEW w \in Worker, WriteLease(w) PROVE HandInv'
  <2>1. ASSUME NEW b \in Actor
        PROVE  HandAt(b)'
    BY <1>i, <1>15 DEF WriteLease, GoTo, HandAt
  <2>2. ASSUME NEW b \in Actor, NEW k \in Lease, InHand(b, k)'
        PROVE  file'[k] \in {"marker", "none"}
    <3>1. at[w] = "write" /\ UNCHANGED <<todo, cur, phase>>
          /\ file' = [file EXCEPT ![<<w, mine[w]>>] = "held"]
      BY <1>15 DEF WriteLease, At, GoTo
    <3>2. file[<<w, mine[w]>>] = "blank" /\ InHand(b, k)
      BY <2>2, <3>1, <1>k DEF ReaderInv, InHand
    <3> QED
      BY <3>1, <3>2, <1>h
  <2> QED
    BY <2>1, <2>2 DEF HandInv
<1>16. ASSUME NEW w \in Worker, WriteLeaseFails(w) PROVE HandInv'
  BY <1>s, <1>h, <1>i, <1>16 DEF WriteLeaseFails, NoLease, GoTo, Sweep, HandAt, InHand,
     HandInv
<1>17. ASSUME NEW w \in Worker, OpenPlain(w) PROVE HandInv'
  BY <1>s, <1>h, <1>i, <1>g, <1>17 DEF OpenPlain, Prune, GoTo, Sweep, HandAt, InHand,
     HandInv
<1>18. ASSUME NEW w \in Worker, OpenFails(w) PROVE HandInv'
  BY <1>s, <1>h, <1>i, <1>18 DEF OpenFails, LetGoMine, LetGo, Doing, HandAt, InHand,
     HandInv
<1>19. ASSUME NEW w \in Worker, CancelOpen(w) PROVE HandInv'
  BY <1>s, <1>h, <1>i, <1>19 DEF CancelOpen, LetGoMine, LetGo, Doing, HandAt, InHand,
     HandInv
<1>20. ASSUME NEW w \in Worker, CancelWait(w) PROVE HandInv'
  BY <1>h, <1>i, <1>20 DEF CancelWait, Sweep, HandAt, InHand, HandInv
<1>21. ASSUME NEW w \in Worker, Release(w) PROVE HandInv'
  BY <1>s, <1>r, <1>h, <1>i, <1>21 DEF Release, Doing, Done, HandAt, InHand, HandInv
<1>22. ASSUME NEW w \in Worker, Discard(w) PROVE HandInv'
  BY <1>h, <1>i, <1>22 DEF Discard, Sweep, HandAt, InHand, HandInv
<1>23. ASSUME NEW w \in Worker, SelfWaitEnds(w) PROVE HandInv'
  BY <1>h, <1>i, <1>23 DEF SelfWaitEnds, GoTo, HandAt, InHand, HandInv
<1>24. ASSUME NEW w \in Worker, LookHere(w) PROVE HandInv'
  <2>1. PICK inUse \in BOOLEAN : CountLeases(w, inUse)
    BY <1>24, LookHereOutcome
  <2>2. \A l \in Lease : CountMoves(l)
    BY <2>1, CountKeeps DEF IndInv
  <2> QED
    BY <2>2, <1>h, <1>i, <1>24, LookHereOutcome DEF CountMoves, Dropped, GoTo, HandAt,
       InHand, HandInv
<1>25. ASSUME NEW w \in Worker, DropHere(w) PROVE HandInv'
  BY <1>h, <1>i, <1>25 DEF DropHere, Dropped, GoTo, HandAt, InHand, HandInv
<1>26. ASSUME NEW w \in Worker, Publish(w) PROVE HandInv'
  BY <1>h, <1>i, <1>26 DEF Publish, GoTo, HandAt, InHand, HandInv
<1>27. ASSUME NEW w \in Worker, BuildFails(w) PROVE HandInv'
  BY <1>h, <1>i, <1>27 DEF BuildFails, GoTo, HandAt, InHand, HandInv
<1>28. ASSUME NEW w \in Worker, GiveUp(w) PROVE HandInv'
  BY <1>h, <1>i, <1>28 DEF GiveUp, GoTo, HandAt, InHand, HandInv
<1>29. ASSUME NEW w \in Worker, EndRead(w) PROVE HandInv'
  BY <1>s, <1>h, <1>i, <1>29 DEF EndRead, LetGoMine, LetGo, GoTo, Doing, HandAt, InHand,
     HandInv
<1>30. ASSUME NEW w \in Worker, Close(w) PROVE HandInv'
  BY <1>s, <1>h, <1>i, <1>30 DEF Close, LetGo, Doing, HandAt, InHand, HandInv
<1>31. ASSUME NEW w \in Worker, Exit(w) PROVE HandInv'
  BY <1>s, <1>h, <1>i, <1>31 DEF Exit, Ends, Doing, Done, HandAt, InHand, HandInv
<1>32. ASSUME NEW w \in Worker, Die(w) PROVE HandInv'
  BY <1>s, <1>h, <1>i, <1>32 DEF Die, Ends, Doing, Done, HandAt, InHand, HandInv
<1>33. ASSUME NEW w \in Worker, Collect(w) PROVE HandInv'
  BY <1>s, <1>h, <1>i, <1>33 DEF Collect, Clear, GoTo, Sweep, HandAt, InHand, HandInv
<1>34. ASSUME NEW w \in Worker, Unlink(w) PROVE HandInv'
  BY <1>s, <1>h, <1>i, <1>34 DEF Unlink, Clear, GoTo, Sweep, HandAt, InHand, HandInv
<1>35. ASSUME NEW w \in Worker, MarkLeases(w) PROVE HandInv'
  BY <1>h, <1>i, <1>35 DEF MarkLeases, AfterMarking, Left, Sweep, HandAt, InHand, HandInv
<1>36. ASSUME NEW w \in Worker, CleanTemps(w) PROVE HandInv'
  BY <1>h, <1>i, <1>36 DEF CleanTemps, GoTo, HandAt, InHand, HandInv
<1>37. ASSUME PruneTimer PROVE HandInv'
  BY <1>h, <1>i, <1>g, <1>37 DEF PruneTimer, Prune, Sweep, HandAt, InHand, HandInv
<1>38. ASSUME NEW l \in Lease, LeaseAges(l) PROVE HandInv'
  BY <1>h, <1>i, <1>38 DEF LeaseAges, HandAt, InHand, HandInv
<1>39. CASE UNCHANGED vars
  BY <1>h, <1>i, <1>39 DEF vars, HandAt, InHand, HandInv
<1> QED
  BY <1>1, <1>2, <1>3, <1>4, <1>5, <1>6, <1>7, <1>8, <1>9, <1>10, <1>11, <1>12, <1>13,
     <1>14, <1>15, <1>16, <1>17, <1>18, <1>19, <1>20, <1>21, <1>22, <1>23, <1>24, <1>25,
     <1>26, <1>27, <1>28, <1>29, <1>30, <1>31, <1>32, <1>33, <1>34, <1>35, <1>36, <1>37,
     <1>38, <1>39 DEF Next, SweepStep, ReadStep, CleanupStep

\* A lease that stays is an answer, if it stays after the step as well.
LEMMA AnswerKept ==
  ASSUME swapped \/ AnswerInv, swapped => swapped',
         swapped' \/ (plain' # "none" /\ leased' => plain # "none" /\ leased),
         \A l \in Lease : Stays(l) => Stays(l)'
  PROVE  (swapped \/ AnswerInv)'
BY DEF AnswerInv

\* Every step keeps an answer to the database, unless a lock was swapped.
LEMMA AnswerStep == IndInv /\ AnsweredInv /\ [Next]_vars => (swapped \/ AnswerInv)'
<1> SUFFICES ASSUME IndInv, AnsweredInv, [Next]_vars PROVE (swapped \/ AnswerInv)'
  OBVIOUS
<1>s. Shape
  BY Shapes DEF IndInv
<1>k. (\A l \in known : file[l] = "held") /\ \A w \in Worker : ReaderInv(w)
  BY DEF AnsweredInv, KnownInv
<1>l. /\ \A w \in Worker : w \in up <=> at[w] \notin Dead
      /\ \A l \in known : l[1] \in up
  BY DEF IndInv, LifeInv
<1>r. \A a \in Actor : phase[a] = "release" =>
        \E l \in Lease : /\ cur[a] = Settle(l) /\ l[1] = a /\ a \in up
                         /\ l \notin known /\ file[l] = "held"
  BY DEF AnsweredInv, ReleaseInv
<1>m. \A w \in Worker : at[w] \in {"write", "open", "reading"} => mine[w] # 0
  BY DEF IndInv, LeaseInv
<1>w. \A w \in Worker : at[w] \in Inside \cup {"open"} =>
        todo[w] = {} /\ (phase[w] = "rest" \/ (phase[w] = "release" /\ at[w] = "selfwait"))
  BY DEF IndInv, SweepInv
<1>h. \A a \in Actor, l \in Lease : InHand(a, l) => file[l] \in {"marker", "none"}
  BY DEF AnsweredInv, HandInv
<1>i. \A a \in Actor : HandAt(a)
  BY DEF AnsweredInv, HandInv
<1>g. /\ \A l \in Lease : Settle(l) \in Listed => file[l] = "marker"
      /\ \A a \in Actor : todo[a] \subseteq Item
  BY ListedMarkers DEF IndInv, TypeOK
<1>x. swapped \/ AnswerInv
  BY DEF AnsweredInv
<1> USE LeaseNames, Settlements DEF Shape, files, life, sweep, own, MyLease, Unmarking,
   Writing
<1>1. ASSUME NEW a \in Actor, SweepTemp(a) PROVE (swapped \/ AnswerInv)'
  BY <1>x, <1>1 DEF SweepTemp, Stays, AnswerInv
<1>2. ASSUME NEW a \in Actor, Take(a) PROVE (swapped \/ AnswerInv)'
  BY <1>x, <1>2 DEF Take, Doing, Resting, Stays, AnswerInv
<1>3. ASSUME NEW a \in Actor, GiveUpTake(a) PROVE (swapped \/ AnswerInv)'
  BY <1>s, <1>x, <1>3 DEF GiveUpTake, Here, Stays, AnswerInv
<1>4. ASSUME NEW a \in Actor, KeepListed(a) PROVE (swapped \/ AnswerInv)'
  <2>1. PICK inUse \in BOOLEAN : CountLeases(a, inUse)
    BY <1>4 DEF KeepListed, LookAtPlain
  <2>2. \A l \in Lease : CountMoves(l)
    BY <2>1, CountKeeps DEF IndInv
  <2> QED
    BY <2>2, <1>x, <1>4 DEF CountMoves, KeepListed, LookAtPlain, Doing, Done, Stays,
       AnswerInv
<1>5. ASSUME NEW a \in Actor, DropListed(a) PROVE (swapped \/ AnswerInv)'
  <2>1. PICK inUse \in BOOLEAN : CountLeases(a, inUse)
    BY <1>5 DEF DropListed, LookAtPlain
  <2>2. \A l \in Lease : CountMoves(l)
    BY <2>1, CountKeeps DEF IndInv
  <2> QED
    BY <2>2, <1>x, <1>5 DEF CountMoves, DropListed, LookAtPlain, Doing, Done, Stays,
       AnswerInv
<1>6. ASSUME NEW a \in Actor, LookToRemove(a) PROVE (swapped \/ AnswerInv)'
  <2>1. PICK inUse \in BOOLEAN : CountLeases(a, inUse)
    BY <1>6, LookOutcome
  <2>2. \A l \in Lease : CountMoves(l)
    BY <2>1, CountKeeps DEF IndInv
  <2> QED
    BY <2>2, <1>s, <1>x, <1>6, LookOutcome DEF CountMoves, NotRemoved, Doing, Done, Stays,
       AnswerInv
<1>7. ASSUME NEW a \in Actor, Remove(a) PROVE (swapped \/ AnswerInv)'
  <2>1. CASE plain' = "none"
    BY <2>1 DEF AnswerInv
  <2>2. CASE NotRemoved(a) /\ UNCHANGED <<plain, leased>>
    <3>1. UNCHANGED <<at, file, mine, swapped>>
      BY <1>7, RemoveOutcome
    <3>2. ASSUME NEW k \in Lease, Stays(k) PROVE ~Unmarking(k)'
      BY <2>2, <3>2, <1>s DEF NotRemoved, Doing, Done, Stays
    <3>3. ASSUME NEW k \in Lease, Stays(k) PROVE ~Writing(k)' /\ file'[k] # "none"
      BY <3>1, <3>3 DEF Stays
    <3> QED
      BY <2>2, <3>1, <3>2, <1>x, AnswerKept DEF Stays
  <2> QED
    BY <2>1, <2>2, <1>7, RemoveCases
<1>8. ASSUME NEW a \in Actor, LookAgain(a) PROVE (swapped \/ AnswerInv)'
  <2> SUFFICES ASSUME ~swapped' PROVE (plain' # "none" /\ leased' => \E l \in Lease : Stays(l)')
    BY DEF AnswerInv
  <2>1. ~swapped /\ phase[a] = "again" /\ UNCHANGED <<plain, leased, at, mine>>
    BY <1>8, AgainOutcome
  <2>2. Doing(a, cur[a], "unmark") \/ Done(a)
    BY <1>8, AgainOutcome
  <2>3. CASE CountLeases(a, TRUE)
    <3>1. PICK l \in Lease : file[l] \in {"held", "blank", "spoiled"} /\ file'[l] = file[l]
      BY <2>3, CountSees DEF IndInv, AnsweredInv
    <3>2. \A b \in Actor : ~InHand(b, l)
      BY <3>1, <1>h
    <3>3. ~Unmarking(l)'
      BY <2>1, <2>2, <3>2, <1>s DEF InHand, Doing, Done
    <3>4. lock = Me(a) /\ \A v \in Worker : at[v] # "write"
      <4>1. lock = Me(a) /\ SweepHolds(a)
        BY <2>1 DEF IndInv, CacheInv, LockInv, SweepHolds
      <4> QED
        BY <2>1, <4>1, OnlyHolder DEF ReadHolds, Inside
    <3> QED
      BY <2>1, <3>1, <3>3, <3>4 DEF Stays
  <2>4. CASE Done(a)
    <3>1. PICK inUse \in BOOLEAN : CountLeases(a, inUse)
      BY <1>8, AgainOutcome
    <3>2. \A l \in Lease : file[l] # "none" => file'[l] # "none"
      BY <3>1, CountKeeps DEF IndInv, CountMoves
    <3>3. \A l \in Lease : ~Unmarking(l) => ~Unmarking(l)'
      BY <2>4 DEF Done, Doing
    <3> QED
      BY <2>1, <3>2, <3>3, <1>x DEF AnswerInv, Stays
  <2> QED
    BY <2>3, <2>4, <1>8, AgainCases
<1>9. ASSUME NEW a \in Actor, Unmark(a) PROVE (swapped \/ AnswerInv)'
  <2>1. /\ swapped => swapped'
        /\ plain' # "none" /\ leased' => plain # "none" /\ leased
    BY <1>9 DEF Unmark
  <2>2. ASSUME NEW k \in Lease, Stays(k)
        PROVE  file'[k] # "none"
    <3>1. PICK l \in Lease : cur[a] = Settle(l)
      BY <1>9, <1>i DEF Unmark, HandAt
    <3>2. cur[a][2] = l /\ k # l
      BY <2>2, <3>1, <1>9 DEF Unmark, Stays
    <3>3. file'[k] = file[k]
      BY <3>2, <1>s, <1>9 DEF Unmark
    <3> QED
      BY <2>2, <3>3 DEF Stays
  <2>3. ASSUME NEW k \in Lease, Stays(k)
        PROVE  ~Unmarking(k)'
    BY <2>3, <1>9 DEF Unmark, Doing, Done, Stays
  <2>4. ASSUME NEW k \in Lease, Stays(k)
        PROVE  ~Writing(k)'
    BY <2>4, <1>9 DEF Unmark, Stays
  <2> QED
    BY <2>1, <2>2, <2>3, <2>4, <1>x, AnswerKept DEF Stays
<1>10. ASSUME NEW w \in Worker, BeginRead(w) PROVE (swapped \/ AnswerInv)'
  BY <1>x, <1>10 DEF BeginRead, Prune, Sweep, Here, Stays, AnswerInv
<1>11. ASSUME NEW w \in Worker, TakeEntry(w) PROVE (swapped \/ AnswerInv)'
  BY <1>x, <1>11 DEF TakeEntry, GoTo, Here, Stays, AnswerInv
<1>12. ASSUME NEW w \in Worker, GiveUpEntry(w) PROVE (swapped \/ AnswerInv)'
  BY <1>s, <1>x, <1>12 DEF GiveUpEntry, GoTo, Here, Sweep, Stays, AnswerInv
<1>13. ASSUME NEW w \in Worker, OpenLease(w) PROVE (swapped \/ AnswerInv)'
  <2>1. /\ swapped => swapped'
        /\ plain' # "none" /\ leased' => plain # "none" /\ leased
    BY <1>13 DEF OpenLease
  <2>2. ASSUME NEW k \in Lease, Stays(k)
        PROVE  file'[k] # "none"
    BY <2>2, <1>13 DEF OpenLease, Stays
  <2>3. ASSUME NEW k \in Lease, Stays(k)
        PROVE  ~Unmarking(k)'
    BY <2>3, <1>13 DEF OpenLease, GoTo, Stays
  <2>4. ASSUME NEW k \in Lease, Stays(k)
        PROVE  ~Writing(k)'
    <3>1. PICK n \in 1..MaxLease : file[<<w, n>>] = "none" /\ mine' = [mine EXCEPT ![w] = n]
      BY <1>13, OpenOutcome
    <3>2. at' = [at EXCEPT ![w] = "write"]
      BY <1>13, OpenOutcome DEF GoTo, Here
    <3>3. k # <<w, n>>
      BY <2>4, <3>1 DEF Stays
    <3> QED
      BY <2>4, <3>1, <3>2, <1>s DEF Stays
  <2> QED
    BY <2>1, <2>2, <2>3, <2>4, <1>x, AnswerKept DEF Stays
<1>14. ASSUME NEW w \in Worker, NothingToLease(w) PROVE (swapped \/ AnswerInv)'
  BY <1>14 DEF NothingToLease, AnswerInv
<1>15. ASSUME NEW w \in Worker, WriteLease(w) PROVE (swapped \/ AnswerInv)'
  <2>1. at[w] = "write" /\ <<w, mine[w]>> \in Lease /\ file[<<w, mine[w]>>] = "blank"
    BY <1>15, <1>s, <1>k, <1>m DEF WriteLease, At, ReaderInv
  <2>2. /\ file'[<<w, mine[w]>>] = "held" /\ UNCHANGED <<cur, phase, mine>>
        /\ at' = [at EXCEPT ![w] = "open"]
    BY <1>15, <2>1, <1>s DEF WriteLease, GoTo, Here
  <2>3. ~Unmarking(<<w, mine[w]>>)'
    BY <2>1, <2>2, <1>h DEF InHand
  <2>4. ~Writing(<<w, mine[w]>>)'
    BY <2>2, <1>s
  <2> QED
    BY <2>1, <2>2, <2>3, <2>4 DEF AnswerInv, Stays
<1>16. ASSUME NEW w \in Worker, WriteLeaseFails(w) PROVE (swapped \/ AnswerInv)'
  BY <1>s, <1>x, <1>16 DEF WriteLeaseFails, NoLease, GoTo, Here, Sweep, At, Stays,
     AnswerInv
<1>17. ASSUME NEW w \in Worker, OpenPlain(w) PROVE (swapped \/ AnswerInv)'
  BY <1>s, <1>x, <1>17 DEF OpenPlain, Prune, GoTo, Here, Sweep, Stays, AnswerInv
<1>18. ASSUME NEW w \in Worker, OpenFails(w) PROVE (swapped \/ AnswerInv)'
  BY <1>x, <1>18 DEF OpenFails, LetGoMine, LetGo, Here, Doing, At, Resting, Stays,
     AnswerInv
<1>19. ASSUME NEW w \in Worker, CancelOpen(w) PROVE (swapped \/ AnswerInv)'
  BY <1>x, <1>19 DEF CancelOpen, LetGoMine, LetGo, Here, Doing, At, Resting, Stays,
     AnswerInv
<1>20. ASSUME NEW w \in Worker, CancelWait(w) PROVE (swapped \/ AnswerInv)'
  BY <1>x, <1>20 DEF CancelWait, Here, Sweep, Stays, AnswerInv
<1>21. ASSUME NEW w \in Worker, Release(w) PROVE (swapped \/ AnswerInv)'
  BY <1>s, <1>x, <1>21 DEF Release, Here, Doing, Done, Stays, AnswerInv
<1>22. ASSUME NEW w \in Worker, Discard(w) PROVE (swapped \/ AnswerInv)'
  BY <1>x, <1>22 DEF Discard, Here, Sweep, Stays, AnswerInv
<1>23. ASSUME NEW w \in Worker, SelfWaitEnds(w) PROVE (swapped \/ AnswerInv)'
  BY <1>s, <1>x, <1>23 DEF SelfWaitEnds, GoTo, Here, Stays, AnswerInv
<1>24. ASSUME NEW w \in Worker, LookHere(w) PROVE (swapped \/ AnswerInv)'
  <2>1. PICK inUse \in BOOLEAN : CountLeases(w, inUse)
    BY <1>24, LookHereOutcome
  <2>2. \A l \in Lease : CountMoves(l)
    BY <2>1, CountKeeps DEF IndInv
  <2> QED
    BY <2>2, <1>s, <1>x, <1>24, LookHereOutcome DEF CountMoves, Dropped, GoTo, Here,
       Stays, AnswerInv
<1>25. ASSUME NEW w \in Worker, DropHere(w) PROVE (swapped \/ AnswerInv)'
  <2>1. UNCHANGED <<file, mine, cur, phase, swapped>> /\ at'[w] # "write"
        /\ \A v \in Worker : v # w => at'[v] = at[v]
    BY <1>25, <1>s DEF DropHere, Dropped, GoTo, Here
  <2>2. \A k \in Lease : Stays(k) => Stays(k)'
    BY <2>1 DEF Stays
  <2>3. CASE plain' = "none"
    BY <2>3 DEF AnswerInv
  <2>4. CASE UNCHANGED <<plain, leased>>
    BY <2>1, <2>2, <2>4, <1>x, AnswerKept
  <2> QED
    BY <2>3, <2>4, <1>25, DropCases
<1>26. ASSUME NEW w \in Worker, Publish(w) PROVE (swapped \/ AnswerInv)'
  BY <1>26 DEF Publish, AnswerInv
<1>27. ASSUME NEW w \in Worker, BuildFails(w) PROVE (swapped \/ AnswerInv)'
  BY <1>x, <1>27 DEF BuildFails, GoTo, Here, Stays, AnswerInv
<1>28. ASSUME NEW w \in Worker, GiveUp(w) PROVE (swapped \/ AnswerInv)'
  BY <1>x, <1>28 DEF GiveUp, GoTo, Here, Stays, AnswerInv
<1>29. ASSUME NEW w \in Worker, EndRead(w) PROVE (swapped \/ AnswerInv)'
  BY <1>s, <1>x, <1>29 DEF EndRead, LetGoMine, LetGo, GoTo, Here, Doing, Stays, AnswerInv
<1>30. ASSUME NEW w \in Worker, Close(w) PROVE (swapped \/ AnswerInv)'
  BY <1>x, <1>30 DEF Close, LetGo, Here, Doing, At, Resting, Stays, AnswerInv
<1>31. ASSUME NEW w \in Worker, Exit(w) PROVE (swapped \/ AnswerInv)'
  BY <1>s, <1>x, <1>31 DEF Exit, Ends, Here, Doing, Done, Stays, AnswerInv
<1>32. ASSUME NEW w \in Worker, Die(w) PROVE (swapped \/ AnswerInv)'
  BY <1>s, <1>x, <1>32 DEF Die, Ends, Here, Doing, Done, Stays, AnswerInv
<1>33. ASSUME NEW w \in Worker, Collect(w) PROVE (swapped \/ AnswerInv)'
  BY <1>s, <1>x, <1>33 DEF Collect, Clear, GoTo, Here, Sweep, Stays, AnswerInv
<1>34. ASSUME NEW w \in Worker, Unlink(w) PROVE (swapped \/ AnswerInv)'
  <2>1. /\ swapped => swapped'
        /\ plain' # "none" /\ leased' => plain # "none" /\ leased
    BY <1>r, <1>m, <1>w, <1>h, <1>i, <1>g, <1>x, <1>34 DEF Unlink, Clear, GoTo, Here,
       Sweep, At, Resting, Stays, Inside
  <2>2. ASSUME NEW k \in Lease, Stays(k)
        PROVE  file'[k] # "none"
    BY <2>2, <1>34 DEF Unlink, Stays
  <2>3. ASSUME NEW k \in Lease, Stays(k)
        PROVE  ~Unmarking(k)'
    BY <2>3, <1>34 DEF Unlink, Clear, GoTo, Sweep, Stays
  <2>4. ASSUME NEW k \in Lease, Stays(k)
        PROVE  ~Writing(k)'
    BY <2>4, <1>s, <1>34 DEF Unlink, Clear, GoTo, Here, Sweep, Stays
  <2> QED
    BY <2>1, <2>2, <2>3, <2>4, <1>x, AnswerKept DEF Stays
<1>35. ASSUME NEW w \in Worker, MarkLeases(w) PROVE (swapped \/ AnswerInv)'
  BY <1>x, <1>35 DEF MarkLeases, Here, Sweep, Stays, AnswerInv
<1>36. ASSUME NEW w \in Worker, CleanTemps(w) PROVE (swapped \/ AnswerInv)'
  BY <1>s, <1>x, <1>36 DEF CleanTemps, GoTo, Here, Stays, AnswerInv
<1>37. ASSUME PruneTimer PROVE (swapped \/ AnswerInv)'
  BY <1>x, <1>37 DEF PruneTimer, Prune, Here, Sweep, Stays, AnswerInv
<1>38. ASSUME NEW l \in Lease, LeaseAges(l) PROVE (swapped \/ AnswerInv)'
  BY <1>x, <1>38 DEF LeaseAges, Stays, AnswerInv
<1>39. CASE UNCHANGED vars
  BY <1>x, <1>39 DEF vars, Stays, AnswerInv
<1> QED
  BY <1>1, <1>2, <1>3, <1>4, <1>5, <1>6, <1>7, <1>8, <1>9, <1>10, <1>11, <1>12, <1>13,
     <1>14, <1>15, <1>16, <1>17, <1>18, <1>19, <1>20, <1>21, <1>22, <1>23, <1>24, <1>25,
     <1>26, <1>27, <1>28, <1>29, <1>30, <1>31, <1>32, <1>33, <1>34, <1>35, <1>36, <1>37,
     <1>38, <1>39 DEF Next, SweepStep, ReadStep, CleanupStep

\* Nothing is there at first.
LEMMA InitAnswered == Init => AnsweredInv
BY Actors DEF Init, AnsweredInv, KnownInv, ReaderInv, ReleaseInv, HandInv, HandAt,
   AnswerInv

\* A readable database that has had a reader has a lease or a marker in every
\* reachable state, as long as no lock is removed that was not the judged one: who
\* crashes where, and what fails, does not matter (settlePlaintextCacheRelease).
THEOREM ReadersLeaveAnAnswer == Spec => []ReadableIsAnswered
<1>1. IndInv /\ AnsweredInv /\ [Next]_vars => AnsweredInv'
  BY KnownStep, ReleaseStep, HandStep, AnswerStep DEF AnsweredInv
<1>2. Spec => []AnsweredInv
  BY <1>1, InitAnswered, CacheInvariance, PTL DEF Spec
<1>3. AnsweredInv => ReadableIsAnswered
  BY DEF AnsweredInv, AnswerInv, Stays, ReadableIsAnswered
<1> QED
  BY <1>2, <1>3, PTL
=============================================================================
