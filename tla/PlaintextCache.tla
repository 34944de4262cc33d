--------------------------- MODULE PlaintextCache ---------------------------
(***************************************************************************)
(* The cache of decrypted database copies (src/wxdb/index.js), shared by    *)
(* worker processes (src/wxdb/isolated.js) and swept by the service.  One   *)
(* entry of the cache: a readable database at the path that its content     *)
(* names, the temporary file it is built in, one lease file per reader, and *)
(* the ".releasing" marker that a lease is renamed to when its reader ends. *)
(*                                                                          *)
(* The entry lock is the process lock of AtomicProcessLock, taken here as   *)
(* ProcessMutex promises it, except where the code unlinks it by name.  A   *)
(* worker is a process and does one read at a time; once it is dead, its    *)
(* actor stands for the cleanup that the service does for it.               *)
(***************************************************************************)
EXTENDS Naturals, FiniteSets

CONSTANTS Worker,      \* worker processes; one that starts again is another
          Persistent,  \* those that keep a session between reads
          Main,        \* the service, as the actor of the timed sweep
          MaxRead,     \* reads of each worker
          MaxLease,    \* lease names of one worker that can be told apart
          MaxFault     \* operations that fail or leave a damaged copy

ASSUME CacheAssumption ==
  /\ Main \notin Worker /\ Persistent \subseteq Worker
  /\ MaxRead \in [Worker -> Nat] /\ MaxLease \in Nat \ {0, 1, 2}
  /\ MaxFault \in Nat

VARIABLES
  plain,    \* the readable database: "none", "good" or "bad" (cannot be opened)
  temp,     \* workers whose temporary file is there
  file,     \* the artifact of each lease
  known,    \* leases a live process holds in weixinV4PlaintextCacheRefs
  lock,     \* owner of the entry lock: an actor and on whose behalf it acts
  up,       \* live workers
  at,       \* where each actor is, or goes once its sweep is over
  todo,     \* what its sweep still has to settle
  cur,      \* the item of the sweep it is at
  phase,    \* how far it is with that
  stage,    \* which of the three attempts to open a read is in
  mine,     \* the lease of its read, or 0
  session,  \* the lease its session keeps, or 0
  reads,    \* reads begun
  faults,
  killed,   \* ghost: workers that did not end by themselves
  leased,   \* ghost: this readable database has had a reader
  swapped   \* ghost: a cleanup unlinked a lock it had not judged

files == <<plain, temp, file, lock>>
life == <<up, killed>>
sweep == <<at, todo, cur, phase>>
own == <<known, stage, mine, session, reads>>
vars == <<files, sweep, own, life, faults, leased, swapped>>

Actor == Worker \cup {Main}
Lease == Worker \X (1..MaxLease)
NoLock == <<>>
Nothing == <<>>
Drop == <<"drop">>       \* removePlaintextCacheEntryIfUnused
Plain == <<"plain">>     \* the readable database as a sweep lists it
Settle(l) == <<"settle", l>>
Temp(w) == <<"temp", w>>
Item == {Drop, Plain} \cup {Settle(l) : l \in Lease} \cup {Temp(w) : w \in Worker}

Me(a) == <<a, IF a \in Worker \ up THEN "cleanup" ELSE "self">>
DiedHolding(w) == w \notin up /\ lock = <<w, "self">>
MyLease(w) == <<w, mine[w]>>

Init ==
  /\ plain = "none" /\ temp = {} /\ lock = NoLock
  /\ file = [l \in Lease |-> "none"] /\ known = {}
  /\ up = Worker /\ killed = {}
  /\ at = [a \in Actor |-> "idle"]
  /\ todo = [a \in Actor |-> {}]
  /\ cur = [a \in Actor |-> Nothing] /\ phase = [a \in Actor |-> "rest"]
  /\ stage = [w \in Worker |-> "first"]
  /\ mine = [w \in Worker |-> 0] /\ session = [w \in Worker |-> 0]
  /\ reads = [w \in Worker |-> 0] /\ faults = 0
  /\ leased = FALSE /\ swapped = FALSE

(* The values of the variables.                                            *)
TypeOK ==
  /\ plain \in {"none", "good", "bad"} /\ temp \subseteq Worker
  /\ file \in [Lease -> {"none", "blank", "spoiled", "held", "marker"}]
  /\ known \subseteq Lease /\ up \subseteq Worker /\ killed \subseteq Worker \ up
  /\ lock \in {NoLock} \cup (Actor \X {"self", "cleanup"})
  /\ at \in [Actor -> {"idle", "retain", "build", "lease", "write", "open",
                       "discard", "selfwait", "drop", "dropNow", "decrypt", "giveup",
                       "reading", "exit", "dead", "unlink",
                       "leases", "temps", "gone"}]
  /\ todo \in [Actor -> SUBSET Item] /\ cur \in [Actor -> {Nothing} \cup Item]
  /\ phase \in [Actor -> {"rest", "release", "look", "remove", "again",
                          "unmark"}]
  /\ stage \in [Worker -> {"first", "second", "built"}]
  /\ mine \in [Worker -> 0..MaxLease] /\ session \in [Worker -> 0..MaxLease]
  /\ reads \in [Worker -> Nat] /\ \A w \in Worker : reads[w] <= MaxRead[w]
  /\ faults \in 0..MaxFault /\ leased \in BOOLEAN /\ swapped \in BOOLEAN

Fault == faults < MaxFault /\ faults' = faults + 1
NoFault == UNCHANGED faults

(* An actor is at a label when it has no sweep under way.                   *)
Resting(a) == phase[a] = "rest"
At(a, label) == at[a] = label /\ Resting(a) /\ todo[a] = {}
Here(a, label) == at' = [at EXCEPT ![a] = label]
GoTo(a, label) == Here(a, label) /\ UNCHANGED <<todo, cur, phase>>

(* Begins a sweep over items, to go on at label.                           *)
Sweep(a, items, label) ==
  /\ todo' = [todo EXCEPT ![a] = items]
  /\ Here(a, label) /\ UNCHANGED <<cur, phase>>

Doing(a, item, ph) ==
  /\ cur' = [cur EXCEPT ![a] = item]
  /\ phase' = [phase EXCEPT ![a] = ph]
Done(a) == Doing(a, Nothing, "rest")

(* acquirePlaintextCacheEntryLock: the lock is free, or its owner is dead.  *)
Acquire(a) ==
  /\ lock = NoLock \/ \E w \in Worker : DiedHolding(w)
  /\ lock' = Me(a)
(* releaseAtomicProcessLockFile goes by the token.                         *)
Unlock(a) == lock' = IF lock = Me(a) THEN NoLock ELSE lock

(* The wait of five minutes ends, beside a holder that decrypts or waits    *)
(* for itself; all others are short.                                       *)
Waited(a) ==
  \E w \in up \ {a} : lock = <<w, "self">> /\ at[w] \in {"decrypt", "selfwait"}

(***************************************************************************)
(* The leases as activePlaintextCacheLeaseCount sees them.  A process that  *)
(* holds one itself looks no further.  Otherwise a lease without its text   *)
(* counts for six hours, one of a dead owner is renamed to a marker, and    *)
(* counts only if that fails.                                              *)
(***************************************************************************)
InUseHere(a) == a \in up /\ \E l \in known : l[1] = a
LiveLeases == {l \in Lease : file[l] = "blank" \/ (file[l] = "held" /\ l[1] \in up)}
StaleLeases == {l \in Lease : file[l] = "spoiled" \/ (file[l] = "held" /\ l[1] \notin up)}

CountLeases(a, inUse) ==
  \/ InUseHere(a) /\ inUse /\ UNCHANGED file /\ NoFault
  \/ /\ ~InUseHere(a)
     /\ \E stuck \in SUBSET StaleLeases :
          /\ file' = [l \in Lease |-> IF l \in StaleLeases \ stuck THEN "marker" ELSE file[l]]
          /\ inUse <=> LiveLeases \cup stuck # {}
          /\ IF stuck = {} THEN NoFault ELSE Fault

(* The removal in removePlaintextCacheEntryIfUnused.                        *)
RemovePlain(done) ==
  \/ done /\ NoFault /\ plain' = "none" /\ leased' = FALSE
  \/ ~done /\ Fault /\ plain # "none" /\ UNCHANGED <<plain, leased>>
------------------------------------------------------------------------------
(***************************************************************************)
(* pruneWeixinV4PlaintextCache, one item after the other in any order.      *)
(***************************************************************************)
\* Mutated: only databases and markers are listed.
ListedWithoutTemps ==
  {Settle(l) : l \in {k \in Lease : file[k] = "marker"}}
    \cup (IF plain = "none" THEN {} ELSE {Plain})

Listed == {Settle(l) : l \in {k \in Lease : file[k] = "marker"}}
            \cup {Temp(w) : w \in temp}
            \cup (IF plain = "none" THEN {} ELSE {Plain})

Prune(a, label) == Sweep(a, Listed, label)

(* A temporary file belongs to the holder of the lock as long as that lives. *)
SweepTemp(a) ==
  /\ Resting(a)
  /\ \E w \in Worker :
       /\ Temp(w) \in todo[a]
       /\ todo' = [todo EXCEPT ![a] = @ \ {Temp(w)}]
       /\ temp' = IF w \in up /\ lock = <<w, "self">> THEN temp ELSE temp \ {w}
  /\ UNCHANGED <<plain, file, lock, at, cur, phase, own, life, faults, leased, swapped>>

Locked(a) == {item \in todo[a] : item[1] # "temp"}

Take(a) ==
  /\ Resting(a) /\ Acquire(a)
  /\ \E item \in Locked(a) :
       Doing(a, item, "look") /\ todo' = [todo EXCEPT ![a] = @ \ {item}]
  /\ UNCHANGED <<plain, temp, file, at, own, life, faults, leased, swapped>>

(* A settlement or a removal that gave up is left for later; a sweep whose  *)
(* wait is not caught ends, and with it the read that began with it.       *)
GiveUpTake(a) ==
  /\ Resting(a) /\ Waited(a)
  /\ \E item \in Locked(a) :
       IF item = Plain
       THEN /\ todo' = [todo EXCEPT ![a] = {}]
            /\ Here(a, IF at[a] = "retain" THEN "idle" ELSE at[a])
       ELSE todo' = [todo EXCEPT ![a] = @ \ {item}] /\ UNCHANGED at
  /\ UNCHANGED <<files, cur, phase, own, life, faults, leased, swapped>>

(* Under the lock.  A readable database that nobody uses goes when it is    *)
(* older than an hour or when other entries fill the cache.                *)
LookAtPlain(a, unwanted) ==
  /\ phase[a] = "look" /\ cur[a] = Plain
  /\ \E inUse \in BOOLEAN : CountLeases(a, inUse) /\ (unwanted => ~inUse)
  /\ todo' = IF unwanted THEN [todo EXCEPT ![a] = @ \cup {Drop}] ELSE todo
  /\ Done(a) /\ Unlock(a)
  /\ UNCHANGED <<plain, temp, at, own, life, leased, swapped>>

KeepListed(a) == LookAtPlain(a, FALSE)
DropListed(a) == LookAtPlain(a, TRUE)

(* removePlaintextCacheEntryIfUnused counts, then removes.  In              *)
(* settlePlaintextCacheRelease a readable database that did not go is looked *)
(* at again: the marker may go when there is another lease.                *)
NotRemoved(a) ==
  IF cur[a] = Drop THEN Done(a) /\ Unlock(a)
                   ELSE Doing(a, cur[a], "again") /\ UNCHANGED lock

LookToRemove(a) ==
  /\ phase[a] = "look" /\ cur[a] # Plain
  /\ \/ CountLeases(a, TRUE) /\ NotRemoved(a)
     \/ CountLeases(a, FALSE) /\ Doing(a, cur[a], "remove") /\ UNCHANGED lock
  /\ UNCHANGED <<plain, temp, at, todo, own, life, leased, swapped>>

Remove(a) ==
  /\ phase[a] = "remove"
  /\ \/ /\ RemovePlain(TRUE) /\ Unlock(a)
        /\ IF cur[a] = Drop THEN Done(a) ELSE Doing(a, cur[a], "unmark")
     \/ RemovePlain(FALSE) /\ NotRemoved(a)
  /\ UNCHANGED <<temp, file, at, todo, own, life, swapped>>

\* Mutated: the marker goes whatever is seen.
LookAgainAnyway(a) ==
  /\ phase[a] = "again"
  /\ \E inUse \in BOOLEAN : CountLeases(a, inUse)
  /\ Doing(a, cur[a], "unmark") /\ Unlock(a)
  /\ UNCHANGED <<plain, temp, at, todo, own, life, leased, swapped>>

LookAgain(a) ==
  /\ phase[a] = "again"
  /\ \/ CountLeases(a, TRUE) /\ Doing(a, cur[a], "unmark")
     \/ CountLeases(a, FALSE) /\ Done(a)
  /\ Unlock(a)
  /\ UNCHANGED <<plain, temp, at, todo, own, life, leased, swapped>>

(* The marker is removed after the lock was given back.                    *)
Unmark(a) ==
  /\ phase[a] = "unmark"
  /\ LET l == cur[a][2] IN
       \/ NoFault /\ file' = [file EXCEPT ![l] = IF @ = "marker" THEN "none" ELSE @]
       \/ Fault /\ UNCHANGED file
  /\ Done(a)
  /\ UNCHANGED <<plain, temp, lock, at, todo, own, life, leased, swapped>>
------------------------------------------------------------------------------
(***************************************************************************)
(* A read: openCachedWeixinV4PlaintextDb, then the close of its database.   *)
(***************************************************************************)
(* The names of leases are random; a number stands for another name once    *)
(* nothing and nobody refers to the first one.  A read uses three at most,  *)
(* and begins, which is a bound, when as many are free.                     *)
FreeNumbers(w) ==
  {n \in 1..MaxLease : /\ file[<<w, n>>] = "none" /\ n # session[w]
                       /\ \A a \in Actor : Settle(<<w, n>>) \notin todo[a] \cup {cur[a]}}

BeginRead(w) ==
  /\ w \in up /\ At(w, "idle") /\ reads[w] < MaxRead[w]
  /\ Cardinality(FreeNumbers(w)) >= 3
  /\ reads' = [reads EXCEPT ![w] = @ + 1]
  /\ Prune(w, "retain")
  /\ UNCHANGED <<files, known, stage, mine, session, life, faults, leased, swapped>>

\* Mutated: a lease on what is there is taken without the lock.
TakeEntryUnlocked(w) ==
  /\ \/ At(w, "retain") /\ UNCHANGED lock
     \/ At(w, "build") /\ Acquire(w)
  /\ stage' = [stage EXCEPT ![w] = IF at[w] = "retain" THEN "first" ELSE "second"]
  /\ GoTo(w, "lease")
  /\ UNCHANGED <<plain, temp, file, known, mine, session, reads, life, faults, leased, swapped>>

(* The lock for a lease on what is there, or for building it.              *)
TakeEntry(w) ==
  /\ At(w, "retain") \/ At(w, "build")
  /\ Acquire(w)
  /\ stage' = [stage EXCEPT ![w] = IF at[w] = "retain" THEN "first" ELSE "second"]
  /\ GoTo(w, "lease")
  /\ UNCHANGED <<plain, temp, file, known, mine, session, reads, life, faults, leased, swapped>>

GiveUpEntry(w) ==
  /\ Waited(w)
  /\ \/ At(w, "retain") /\ Sweep(w, {Drop}, "build")
     \/ At(w, "build") /\ GoTo(w, "idle")
  /\ UNCHANGED <<files, own, life, faults, leased, swapped>>

(* An attempt that came to no lease.                                       *)
NoLease(w) ==
  IF stage[w] = "first"
  THEN Unlock(w) /\ Sweep(w, {Drop}, "build")
  ELSE GoTo(w, "drop") /\ UNCHANGED lock

(* createPlaintextCacheLease, under the lock: the file first, then its text. *)
OpenLease(w) ==
  /\ At(w, "lease") /\ plain # "none"
  /\ \E n \in FreeNumbers(w) :
       /\ \A j \in FreeNumbers(w) : n <= j
       /\ mine' = [mine EXCEPT ![w] = n]
       /\ file' = [file EXCEPT ![<<w, n>>] = "blank"]
  /\ GoTo(w, "write")
  /\ UNCHANGED <<plain, temp, lock, known, stage, session, reads, life, faults, leased, swapped>>

NothingToLease(w) ==
  /\ At(w, "lease") /\ plain = "none"
  /\ NoLease(w)
  /\ UNCHANGED <<plain, temp, file, own, life, faults, leased, swapped>>

WriteLease(w) ==
  /\ At(w, "write")
  /\ file' = [file EXCEPT ![MyLease(w)] = "held"]
  /\ known' = known \cup {MyLease(w)}
  /\ leased' = (plain # "none")
  /\ IF stage[w] = "first" THEN Unlock(w) ELSE UNCHANGED lock
  /\ GoTo(w, "open")
  /\ UNCHANGED <<plain, temp, stage, mine, session, reads, life, faults, swapped>>

(* The write fails: the lease file goes, and the attempt with it.          *)
WriteLeaseFails(w) ==
  /\ At(w, "write") /\ Fault
  /\ file' = [file EXCEPT ![MyLease(w)] = "none"]
  /\ mine' = [mine EXCEPT ![w] = 0]
  /\ NoLease(w)
  /\ UNCHANGED <<plain, temp, known, stage, session, reads, life, leased, swapped>>

(* openUsableCachedPlaintextDb finds a database that answers.              *)
OpenPlain(w) ==
  /\ At(w, "open") /\ plain = "good"
  /\ IF stage[w] = "first" THEN UNCHANGED lock ELSE Unlock(w)
  /\ IF stage[w] = "built" THEN Prune(w, "reading") ELSE GoTo(w, "reading")
  /\ stage' = [stage EXCEPT ![w] = "first"]
  /\ UNCHANGED <<plain, temp, file, known, mine, session, reads, life, faults, leased, swapped>>

(* The start of releaseWeixinV4PlaintextCache: the process forgets the      *)
(* lease, then renames it, to go on at label.                              *)
LetGo(w, l, label) ==
  /\ known' = known \ {l}
  /\ Doing(w, Settle(l), "release")
  /\ Here(w, label) /\ UNCHANGED todo

LetGoMine(w, label) ==
  LetGo(w, MyLease(w), label) /\ mine' = [mine EXCEPT ![w] = 0]

OpenFails(w) ==
  /\ At(w, "open") /\ plain # "good"
  /\ LetGoMine(w, IF stage[w] = "first" THEN "discard" ELSE "selfwait")
  /\ UNCHANGED <<files, stage, session, reads, life, faults, leased, swapped>>

(* The read is cancelled: its settlement sees the signal and does nothing. *)
CancelOpen(w) ==
  /\ At(w, "open")
  /\ LetGoMine(w, "giveup")
  /\ UNCHANGED <<files, stage, session, reads, life, faults, leased, swapped>>

CancelWait(w) ==
  /\ w \in up /\ Resting(w) /\ at[w] \in {"retain", "discard", "build"}
  /\ Sweep(w, {}, "idle")
  /\ UNCHANGED <<files, own, life, faults, leased, swapped>>

(* transitionPlaintextCacheLeaseToReleasing and what follows it.  Under the *)
(* entry lock the settlement asks for that same lock.  A lease that cannot  *)
(* be renamed stays as it is.                                              *)
Release(w) ==
  /\ phase[w] = "release"
  /\ LET l == cur[w][2] IN
       \/ /\ NoFault
          /\ file' = [file EXCEPT ![l] = IF @ = "held" THEN "marker" ELSE @]
          /\ todo' = IF at[w] \in {"selfwait", "giveup"} THEN todo
                     ELSE [todo EXCEPT ![w] = {Settle(l)}]
          /\ UNCHANGED at
       \/ /\ Fault /\ UNCHANGED <<file, todo>>
          /\ Here(w, IF at[w] = "selfwait" THEN "drop" ELSE at[w])
  /\ Done(w)
  /\ UNCHANGED <<plain, temp, lock, own, life, leased, swapped>>

Discard(w) ==
  /\ At(w, "discard") /\ Sweep(w, {Drop}, "build")
  /\ UNCHANGED <<files, own, life, faults, leased, swapped>>

(* Five minutes of waiting for a lock of its own, or the cancellation.     *)
SelfWaitEnds(w) ==
  /\ At(w, "selfwait")
  /\ GoTo(w, "drop") \/ GoTo(w, "giveup")
  /\ UNCHANGED <<files, own, life, faults, leased, swapped>>

(* What could not be opened is removed under the lock that is held; then    *)
(* the database is decrypted, or that was the last attempt.                *)
Dropped(w) ==
  IF stage[w] = "second"
  THEN GoTo(w, "decrypt") /\ temp' = temp \cup {w}
  ELSE GoTo(w, "giveup") /\ UNCHANGED temp

LookHere(w) ==
  /\ At(w, "drop")
  /\ \/ CountLeases(w, TRUE) /\ Dropped(w)
     \/ CountLeases(w, FALSE) /\ GoTo(w, "dropNow") /\ UNCHANGED temp
  /\ UNCHANGED <<plain, lock, own, life, leased, swapped>>

DropHere(w) ==
  /\ At(w, "dropNow")
  /\ \E done \in BOOLEAN : RemovePlain(done)
  /\ Dropped(w)
  /\ UNCHANGED <<file, lock, own, life, swapped>>

(* The temporary file is decrypted into and renamed over whatever is there. *)
(* The copy may be damaged.                                                *)
Publish(w) ==
  /\ At(w, "decrypt") /\ w \in temp
  /\ \/ NoFault /\ plain' = "good"
     \/ Fault /\ plain' = "bad"
  /\ leased' = FALSE /\ temp' = temp \ {w}
  /\ stage' = [stage EXCEPT ![w] = "built"]
  /\ GoTo(w, "lease")
  /\ UNCHANGED <<file, lock, known, mine, session, reads, life, swapped>>

(* The decryption or the rename fails or is cancelled; the temporary file   *)
(* is removed, if that succeeds.                                           *)
BuildFails(w) ==
  /\ At(w, "decrypt")
  /\ \/ NoFault /\ temp' = temp \ {w}
     \/ Fault /\ UNCHANGED temp
  /\ GoTo(w, "giveup")
  /\ UNCHANGED <<plain, file, lock, own, life, leased, swapped>>

GiveUp(w) ==
  /\ At(w, "giveup") /\ Unlock(w)
  /\ stage' = [stage EXCEPT ![w] = "first"]
  /\ GoTo(w, "idle")
  /\ UNCHANGED <<plain, temp, file, known, mine, session, reads, life, faults, leased, swapped>>

(* closeCopiedDb.  A session keeps the lease of its first read of this      *)
(* entry, unless it holds too much already.                                *)
EndRead(w) ==
  /\ At(w, "reading")
  /\ \/ LetGoMine(w, "idle") /\ UNCHANGED session
     \/ /\ w \in Persistent /\ session[w] = 0
        /\ session' = [session EXCEPT ![w] = mine[w]]
        /\ mine' = [mine EXCEPT ![w] = 0]
        /\ GoTo(w, "idle") /\ UNCHANGED known
  /\ UNCHANGED <<files, stage, reads, life, faults, leased, swapped>>

(* The process ends: it exits at shutdownWorker, or dies anywhere, by a     *)
(* crash or killed at a timeout.                                           *)
Ends(w) ==
  /\ up' = up \ {w}
  /\ known' = {l \in known : l[1] # w}
  /\ mine' = [mine EXCEPT ![w] = 0] /\ session' = [session EXCEPT ![w] = 0]
  /\ stage' = [stage EXCEPT ![w] = "first"]
  /\ todo' = [todo EXCEPT ![w] = {}] /\ Done(w)
  /\ Here(w, "dead")
  /\ UNCHANGED <<files, reads, faults, leased, swapped>>

(* shutdownWorker, when the worker was asked to close and has no request,   *)
(* first releases what its session keeps.                                  *)
Close(w) ==
  /\ w \in up /\ At(w, "idle") /\ session[w] # 0
  /\ LetGo(w, <<w, session[w]>>, "exit")
  /\ session' = [session EXCEPT ![w] = 0]
  /\ UNCHANGED <<files, stage, mine, reads, life, faults, leased, swapped>>

MayExit(w) == At(w, "exit") \/ (At(w, "idle") /\ session[w] = 0)

Exit(w) == w \in up /\ MayExit(w) /\ Ends(w) /\ UNCHANGED killed
Die(w) == w \in up /\ ~MayExit(w) /\ Ends(w) /\ killed' = killed \cup {w}
------------------------------------------------------------------------------
(***************************************************************************)
(* cleanupWorkerCopiesAfterExit: the service clears what a dead worker left. *)
(***************************************************************************)
Left(w) == {l \in Lease : l[1] = w /\ file[l] # "none"}

(* With a lease the readable database goes when its marker is settled,      *)
(* without one, but with another trace of the worker, by itself.           *)
Clear(w, seen) ==
  \/ Left(w) # {} /\ GoTo(w, "leases")
  \/ Left(w) = {} /\ seen /\ Sweep(w, {Drop}, "temps")
  \/ Left(w) = {} /\ ~seen /\ GoTo(w, "gone")

(* The owner of the lock is read, and read again before the lock goes: one  *)
(* step here, for what matters is what happens after the second.           *)
Collect(w) ==
  /\ At(w, "dead")
  /\ IF DiedHolding(w) THEN GoTo(w, "unlink") ELSE Clear(w, w \in temp)
  /\ UNCHANGED <<files, own, life, faults, leased, swapped>>

(* The lock is removed by its name.                                        *)
Unlink(w) ==
  /\ At(w, "unlink")
  /\ lock' = NoLock
  /\ swapped' = (swapped \/ ~(lock = NoLock \/ DiedHolding(w)))
  /\ Clear(w, TRUE)
  /\ UNCHANGED <<plain, temp, file, own, life, faults, leased>>

(* Its leases become markers, and the markers are settled; when none became *)
(* one, the readable database is removed unless somebody uses it.          *)
AfterMarking(marked) == IF marked = {} THEN {Drop} ELSE {Settle(l) : l \in marked}

MarkLeases(w) ==
  /\ At(w, "leases")
  /\ \E stuck \in SUBSET {l \in Left(w) : file[l] # "marker"} :
       /\ IF stuck = {} THEN NoFault ELSE Fault
       /\ file' = [l \in Lease |-> IF l \in Left(w) \ stuck THEN "marker" ELSE file[l]]
       /\ Sweep(w, AfterMarking(Left(w) \ stuck), "temps")
  /\ UNCHANGED <<plain, temp, lock, own, life, leased, swapped>>

(* Its temporary files go last.  A cleanup that failed somewhere, and so    *)
(* left something, is repeated, but not for ever; a sweep does the rest.    *)
CleanTemps(w) ==
  /\ At(w, "temps")
  /\ \/ NoFault /\ temp' = temp \ {w}
     \/ w \in temp /\ Fault /\ UNCHANGED temp
  /\ \/ GoTo(w, "gone")
     \/ (Left(w) # {} \/ w \in temp') /\ GoTo(w, "dead")
  /\ UNCHANGED <<plain, file, lock, own, life, leased, swapped>>
------------------------------------------------------------------------------
(* The timer of the service.                                               *)
PruneTimer ==
  /\ At(Main, "idle") /\ Listed # {}
  /\ Prune(Main, "idle")
  /\ UNCHANGED <<files, own, life, faults, leased, swapped>>

(* Six hours without the text of a lease.                                  *)
LeaseAges(l) ==
  /\ file[l] = "blank" /\ l[1] \notin up
  /\ file' = [file EXCEPT ![l] = "spoiled"]
  /\ UNCHANGED <<plain, temp, lock, sweep, own, life, faults, leased, swapped>>

SweepStep(a) ==
  \/ SweepTemp(a) \/ Take(a) \/ GiveUpTake(a)
  \/ KeepListed(a) \/ DropListed(a) \/ LookToRemove(a) \/ Remove(a)
  \/ LookAgain(a) \/ Unmark(a)

ReadStep(w) ==
  \/ TakeEntry(w) \/ GiveUpEntry(w) \/ OpenLease(w) \/ NothingToLease(w)
  \/ WriteLease(w) \/ WriteLeaseFails(w) \/ OpenPlain(w) \/ OpenFails(w)
  \/ CancelOpen(w) \/ CancelWait(w) \/ Release(w) \/ Discard(w)
  \/ SelfWaitEnds(w) \/ LookHere(w) \/ DropHere(w) \/ Publish(w) \/ BuildFails(w)
  \/ GiveUp(w) \/ EndRead(w) \/ Close(w) \/ Exit(w)

CleanupStep(w) == Collect(w) \/ Unlink(w) \/ MarkLeases(w) \/ CleanTemps(w)

Next ==
  \/ \E a \in Actor : SweepStep(a)
  \/ \E w \in Worker : BeginRead(w) \/ ReadStep(w) \/ Die(w) \/ CleanupStep(w)
  \/ PruneTimer
  \/ \E l \in Lease : LeaseAges(l)

Spec == Init /\ [][Next]_vars

(* Reads end and sessions are closed, the service cleans up after its       *)
(* workers and sweeps every ten minutes; who asks for the lock every tenth  *)
(* of a second gets it one day, hence the strong fairness; and time passes: *)
(* a database nobody uses is older than an hour at one of the sweeps.       *)
(* Nothing obliges anybody to read, and no worker has to die.              *)
Fairness ==
  /\ \A w \in Worker : SF_vars(SweepStep(w) \/ ReadStep(w) \/ CleanupStep(w))
  /\ SF_vars(SweepStep(Main) \/ PruneTimer) /\ SF_vars(DropListed(Main))
  /\ WF_vars(\E l \in Lease : LeaseAges(l))

FairSpec == Spec /\ Fairness
------------------------------------------------------------------------------
(***************************************************************************)
(* Properties                                                              *)
(***************************************************************************)

(* A database that a live process has leased stays where it is: no sweep,   *)
(* no release of another reader, no other process and no cleanup of a dead  *)
(* worker takes it away.  Excepted is what follows the unlinking of a lock  *)
(* that was not the judged one.                                            *)
ReadersKeepTheirFile ==
  /\ TypeOK
  /\ swapped \/ \A l \in known : file[l] = "held" => plain # "none"

(* A readable database that has had a reader never lies there unanswered:   *)
(* while it exists there is a lease or a durable marker, so whoever crashes *)
(* wherever, the next sweep knows that it has to go.  Excepted is what      *)
(* follows the unlinking of a lock that was not the judged one: a count     *)
(* beside the write of a lease may rely on a lease that then fails.        *)
ReadableIsAnswered ==
  swapped \/ (plain # "none" /\ leased => \E l \in Lease : file[l] # "none")

(* When the reads are over, nothing readable stays on disk, whatever died   *)
(* or failed on the way.                                                   *)
NothingReadableStays == <>[](plain = "none" /\ temp = {})
=============================================================================
