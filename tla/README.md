# wx-summary in TLA+

wx-summary is a local service (one Node.js process per project, a web front end
in the browser, a tray helper) that reads a copy of the WeChat databases, asks a
language model for digests of group messages, draws them as long PNG images and
keeps a history of them. A background scheduler does this by itself.

This directory holds the TLA+ modules for the parts of the service whose
correctness depends on the order of steps: the locks between processes, the commit
protocol of a scheduled digest, the scheduler's lifecycle, digests made by hand and
their results, local actions on the desktop, the settings transaction, the history
store and the cache of decrypted databases. TLC checks them on small instances, and
TLAPS proves the most important results for all values of the constants. Paths below
are relative to the repository.

## 1. Inventory

Each part with the state it keeps, its operations, what is hard about it and what
makes it correct.

| Part | Source | State | Operations | Hard because | Correct when | Module |
|---|---|---|---|---|---|---|
| Process lock | `src/lib/atomic-process-lock.js`; callers in `config/wxdb-key-cache.js`, `wxdb/index.js` | a lock file at a fixed path, claim files beside it | publish, release by token, reclaim of a dead owner | processes share only a directory; every read is stale when it is used; crashes; unlink refused by Windows | one holder; a live owner's lock is never removed | `AtomicProcessLock` implements `ProcessMutex` |
| Instance lock | `src/main.js` 1828-2226 | `data/wx-summary.lock` | acquire, heartbeat, reclaim, release | the file exists before its content; two judgments with an await between; unlink by name | one service per project; a dead owner locks nobody out | `InstanceLock` |
| Scheduler, digest of a group | `src/daemon/scheduler.js` 1394-2100, 2885-3600 | recovery records, cursor, output files, history index | recover, collect, summarize, save, record, commit | three stores without a common transaction; crashes; settings changed meanwhile | no message is skipped; the cursor never goes back; the rule is the saved one | `SchedulerDigestCommit` |
| Scheduler, lifecycle | `src/daemon/scheduler.js` 19-1139, 2102-2330; `src/main.js` 16617-16685, 20035-20165 | generation, queue, timer, run lease, status | start, stop, tick, manual run, retry, restart when idle | promises that outlive the state they read | one run; no timer of the past; an enabled scheduler wakes | `SchedulerLifecycle` |
| Output and history store | `src/renderer/output.js` 272-331, 590-851, 1378-1602, 2425-2972, 5567-5988, 8082-8235, 8426-8893, 8927-8979 | PNG, digest JSON, save marker, index, pending names, manifests | save, recover, delete, retention, repair | several files per digest, recovery beside saves | index and files agree at every crash point; what was removed stays away | `HistoryStore`; as states of one artifact in `SchedulerDigestCommit` |
| Settings transaction | `src/config/settings.js` | settings, secrets, journal, backups, save queue | load, save, recover, roll back, clean up | two files; loads beside saves; clean-ups that fail | both old or both new; a confirmed save stays; a patch meets the document it was made on | `SettingsTransaction` |
| Digest batches | `src/main.js` 2343-3980, 20770-21700 | leases, snapshots of the settings, cancellations, tombstones, active requests and saves | start, renew, digest, save, export, cancel, finish | handlers cut by awaits; settings saved, the scheduler started, the page gone or the service closed in between | by hand and by schedule exclude each other; no work under overtaken settings; an abandoned batch ends | `DigestBatch` |
| Results and save tickets | `src/main.js` 1550-1680, 2520-3300, 26500-26760 | results, tickets, the recovery file and its queue of writes | register, poll, save with the ticket, finish, restore after a crash | lost streams, retries of two tabs, failed writes, an account that changes | one picture per digest; what was told as kept is kept, what was told as released stays away | `DigestResult` |
| Local actions | `src/main.js` 8999-11130, 12860-12900, 12974-13100 | lanes, evidence file, commit files, helper processes | queue, run, time out, kill, settle, restore | lost answers, helpers that outlive their timeout or the service | never twice, one at a time, answered truly | `LocalAction` |
| Shutdown | `src/main.js` 1768, 6074-6265 | phases, admissions, watchdog | close, drain, exit | work that waits for work | always ends | shares in `DigestBatch`, `LocalAction`, `SchedulerLifecycle`, `PlaintextCache` |
| Plaintext cache | `src/wxdb/index.js` 7282-7950, 8135-8249, 8986; `src/wxdb/isolated.js`; `src/wxdb/message-worker.js` | decrypted copies, temporary files, leases and their markers, an entry lock | open or build, lease, release, sweep, clean up after a dead worker | several processes, a crash at any file operation, a timed sweep beside readers | nobody loses the file under its reader; nothing readable is left for ever | `PlaintextCache` |
| Database mirror | the rest of `src/wxdb/` | mirror files, readiness, worker registry | refresh, read, release | shared by runs and requests | readers see one snapshot | not modelled |
| Front-end coordinators | `src/web/public/js/shared/` | promises, `localStorage` entries | run across tabs, lease, write in order | tabs that disappear | last write wins, no double run | not modelled; their requests are the environment of `DigestBatch`, `DigestResult`, `LocalAction` |
| Collection, summarizing, drawing, media, discovery, key scan, log, tray, pages | the rest | mostly none | data processing, platform I/O, presentation | | | not modelled |

How they interact: the front end calls the service over HTTP; `main.js` turns a
request into a settings transaction, a batch, a local action or a scheduler call.
A settings request stops the scheduler first and starts it afterwards. The
scheduler reads messages through the collector and the mirror, asks the
summarizer and the renderer, hands the PNG to the output store with two barriers
that re-check the settings, and commits its cursor inside the settings
transaction. Everything that several processes may write is behind a process
lock; the whole project is behind the instance lock. The decrypted copies are read by
worker processes, which share the cache with the service that sweeps it.

## 2. Modules

### ProcessMutex and AtomicProcessLock

`ProcessMutex` is the promise: one holder; a caller is inside only while it is the
holder; it stops being the holder after it left or because its process is dead.

`AtomicProcessLock` has a step for every access to the directory. The lock and
claim files are named by the token in them: `lock` is what is linked at the fixed
path, `claim[t]` what is linked at `<lock>.reclaim.<hash of t>`. `pc` is the place
of an acquisition in `acquireKeyCacheFileLock` and, below it, in
`publishAtomicProcessLock`, `releaseAtomicProcessLockFile` or
`reclaimAtomicProcessLockFile`. The two reads after the claim are two steps in any
order (`Promise.all`). `JudgeDead` is `processOwnerState` answering `dead` or
`different`, which it does only for a dead owner; `JudgeKeep` is any other answer, a
failed query of a dead process among them. A release that is refused tries again
up to `MaxRetry` times (seven delays in the code). A crash ends all acquisitions of
a process and leaves its files.

### InstanceLock

One action per stretch between two awaits of `acquireInstanceLock` and
`reclaimStaleInstanceLock`. `file` records the owner, whether its identity is
written, whether the file is younger than thirty seconds, and its modification
time (`MaxBeat` touches). A process that starts again is another process. `Reuse`
and `Stopped` are the hand-over from a running service that answers its health check.
`Age` may not strike a file while its creator is alive and has not written it: creation
and writing are one synchronous piece of code, and thirty seconds pass only in between. A starter that finds another file at its second look judges it at once; the code waits 1.2 seconds first
when the file says nothing yet, which the order of steps allows as well. The ghost `raced` notes a reclaim that removed another file than the one it
judged; `excused` notes who met another process while starting.

### SchedulerDigestCommit

One group of one account, from `BeginRun` to `Forget`. `cursor` is the committed state
(messages seen, rule fingerprint, checked window), `pending` the recovery record
in its two phases, `art` the place of each digest's files:

| `art[d]` | on disk |
|---|---|
| `none` | nothing |
| `intent` | a marker and a temporary PNG, or the PNG without its JSON |
| `pair` | PNG and digest JSON |
| `indexed` | also in the history index |
| `removed` | published once, deleted since |

`shown` is the ghost of every digest that ever was in the index, so a user who
deletes a digest does not make its messages uncovered. `stamp` is the ghost of the
rule and the settings epoch that made a digest: switching to another rule and
back makes messages due again. Every store is written atomically (temporary file
and rename), and a write may fail before or after it took effect. `RunLost` is an
abort or a crash anywhere; a crash is nothing but the loss of `run`.

### SchedulerLifecycle

`gen` is `schedulerGeneration`; `queue` and `exec` are `schedulerLifecycleQueue` and
the operation in it; `timer` remembers the generation its callback captured; `cycle`
and `manual` are the two kinds of runs. A step is the code between two awaits.
`Settled` says that a queued operation begins in a microtask: no timer and no request
comes between it and the end of the operation before. `client` is a settings
request: it stops the scheduler, saves or fails to (`ClientSaveFails`), stops it once more when the save changed what the
scheduler works with (`ClientRestops`), and starts it again, or leaves it stopped when the settings cannot work
(`ClientNeedsSetup`) or the old run is still seen (`LeavesStopped`). `recover` counts the requests that are about to call
`restartPersistedSchedulerIfRunnable`. The setting `on` is the persisted
`scheduler.enabled`. Setup is checked up to three times by a start and by a cycle. The second check may find that it
is not required any more and leave the setting on (`StartStaysOn`), and the third that it is required again
(`StartStillNeedsSetup`, `CycleStops`): then the scheduler rests although the setting says on. The ghost `gaveUp` notes
where the code leaves it off on its own account, until the next start begins; section 6 (5, 6) lists what it excuses.

### SettingsTransaction

`file` holds, per file, the number of the save that wrote it; `journal`, `entries` and
`backup` are the transaction on disk. A step is one file operation of
`beginSettingsSecretsTransaction`, `recoverSettingsTransaction`,
`rollbackSettingsTransaction`, `commitSettingsSecretsTransaction`,
`cleanupSettingsTransaction` or `loadSettingsUnlocked`. Steps that may fail have a
second action, which lets the operation fail before or after its effect and then does
what the `catch` around it does. `saver` is the holder of the save queue. A load has a
place in the queue (`wait_for_writes=1`) or only waits for those before it and runs
beside the rest; `LoadKinds` says which of the two are asked for. `view` is what a tab shows, with its revision and
whether it waited for the writes (`settled`). The pages ask for a settled document before each change
(`settings-write-coordinator.js` 105), and a save answers with one. The ghost
`legit` collects the pairs of contents that some save meant to leave, `acked` the last
confirmed save of each file; `unsure` notes a journal write that failed although it
took effect, or a file that could not be removed on the way back, `raced` a recovery
beside a save, by a load that did not take its turn. The content of the files, their validation and the quarantine of a file that
cannot be parsed are left out; so is the key cache that takes part in a save.

### HistoryStore

`there`, `pending` and `manifest` are sets of pairs of digest and file: under its own name, under
the `.retention-delete-*.pending` name of a removal, with the manifest of a removal.
`mark` is the state a save marker says, `index` what `index.json` lists, `damaged` that
it cannot be parsed. A step is one file operation. `save` goes through
`writeTransactionalDigestPair` and the index part of `saveRenderedPng`; a marker is published
(`reserved`) before it is registered in `activeDigestSaveTransactionMarkers`. `op` is the
holder of `withHistoryWriteLock`: `deleteHistoryItem`, `cleanupOldDigests`, or the
recovery of interrupted removals alone (`settle`); all three begin with
`recoverInterruptedRetentionCleanup`. `rf` is `readCombinedHistoryBase`: the recovery of
interrupted saves, which takes no lock, then the merge, which does. Parallel
clean-ups (`Promise.allSettled`) are steps in any order.

Abstracted: one read of the index, its rewriting and the scan that feeds it are one step
under the lock; the removal of the temporary PNG after a save was committed belongs to that step; file
versions are assumed to match; a digest rebuilt from a PNG without JSON is not
listed. The ghost `gone` holds the digests whose removal reached the index, `lost` that the
index was damaged. The properties excuse the digests in two more: `beside`, those a refresh handled
or listed while their save was running and those a failed clean-up left behind, and `crossed`, those whose
unfinished save a refresh handled beside files of an unfinished removal. What can happen to them is in section 6.

### DigestBatch

The maps of `main.js` are functions of the batch (`lease`, `snapshot`, `cancelled`) and
the set `finished`; `starts`, `request` and `saves` are the handlers under way, with the
place of each between two awaits in `pc`. The page is free: but for the second start of a batch it may send any request at any
time for any batch. `SettingsCommit` and `SettingsSweep` are the two halves of a settings
request, which saves first and then cancels the work of the old settings; `unswept`
counts those between them. `scheduler` is the scheduler's activity as its probe
(`manualDigestActivityForScheduler`) sees it. A batch is started once, since the page makes a new id for each run; two
starts under one id, which would share a set of controllers (21488-21527), are left out. A start takes its snapshot
unless the batch is cancelled, also when it has been aborted meanwhile. `spoiled` and `flagged` are what a save met and
what its answer says of it. The lifetimes and limits of the maps other than the lease are
left out, and so is the work inside a digest.

### DigestResult

One digest of one batch: `term` and `ticket` are its entries in the two maps, `disk` the
recovery file, `queue` the writes to it, each with the snapshot taken when it was asked
for and who waits for it. The page asks for the digest once and polls, saves, cancels and
finishes at will; `Restart` is a crash at any step with the restoration that follows, which may find
the file unreadable for the moment and then refuses writes. `IdentityChanges` lets another
account be behind the database, `Notice` lets the mirror see it. `told`, `dropped` and `released` are
ghosts of what was answered. The expiry of results is part of `Sweep`, one finish request is under way at a
time, and a recovery file that stays unreadable is left out.

### LocalAction

One lane and the route that copies a path to the clipboard. `phase` is how far the
route has come, `active`, `quar` and `queue` are the lane, `helper` the helper process, `file`
its commit file, `state` the evidence object of a request, `mem` and `disk` the evidence
in memory and on disk. A helper's effect and its commit file are one step; it may do it
after it was given up, and it may never end. `Restore` is the start of the service with all
that it reads. `Stop` is the time limit and the client that goes away, which take the same way.
A helper that was spawned by a service that crashed is no child of the next one (`attached`).
`givenUp` is the ghost of the helpers nobody watches any more. `Finish` removes the commit file in its step; the code
removes it a little later, beside what the route does next, and what can read it in between, the recovery of the same request or a restart, then knows more than in the module.
Left out are the expiry of evidence and its limit, and a child that reports an error after a failed kill.

### PlaintextCache

One entry of the cache. `plain` is the readable database at its name, `temp` the temporary files
it is built in, `file[l]` the artifact of a lease: a lease file as long as its reader is there
(`held`, or `blank` before its content, or `spoiled`), the `.releasing` marker after. `known` are the leases that a live
process counts in `weixinV4PlaintextCacheRefs`. The entry lock is taken as `ProcessMutex` promises it,
except in `Unlink`, where the cleanup of a dead worker removes it by name. An actor is a
worker or the service; a worker that is dead stands for the cleanup that the service does for it.
The lock of a dead owner counts as free; an orphaned claim (section 6, 2) would prevent that, so
`NothingReadableStays` is about directories without one.
`at` is where it is in its read or its cleanup; `todo`, `cur` and `phase` are a sweep under
way, which reads, releases, the timed sweep and the cleanup all contain. Lease names are numbers
that are used again when nothing refers to them. Which entries go by the
limits in bytes and number is a choice (`DropListed`). The crash of the service itself, the
ten seconds of grace of a temporary file and the working copies beside the cache are left out.

## 3. Runs

| Run | Instance | Shows |
|---|---|---|
| `lock` | 3 acquisitions in 3 processes, 2 retries, fairness | mutual exclusion and refinement of `ProcessMutex`; a dead owner's lock goes while somebody asks, except under an orphaned claim |
| `instance` | 3 processes, 1 heartbeat | an owner keeps its file unless a reclaim raced; nobody is refused for a dead owner |
| `instance_twice` (violated) | the same | the race is real: two services at once |
| `digest` | 2 messages, 2 rules, 6 digests, 2 faults, 2 settings changes, fairness | no silent loss, cursor monotone and under the saved rule, records kept, no message twice; everything that arrived is covered in the end |
| `lifecycle` | 3 user actions, 3 faults, fairness | one run, no stale timer, stops are final; an enabled scheduler keeps waking; a shutdown quiesces |
| `settings` | 2 clients, 3 saves, 2 faults, loads of either kind within `FewBeside`, fairness | files belong together, confirmed saves stay, a document that waited for the writes is of one save and a patch on it meets no other document, rollback possible; a journal does not block the settings for ever |
| `settings_undone` (violated) | 1 save, no fault, loads beside saves | a load beside a save rolls it back, and the save is confirmed |
| `history` | 2 digests (one saved before), 2 faults, constraint `Within` | listed digests are on disk or restorable, removed ones stay away, saves are settled, every leftover has its manifest and a free name |
| `batch` | 2 batches, 1 save, 1 settings change, fairness | the inductive invariant (exclusion of the scheduler, current settings, finished batches are quiet, clean answers are true); hard cancellation stops saves; abandoned batches end; a shutdown drains |
| `result` | 1 digest, 2 saves, 1 change of account, 2 faults, fairness | one picture, saved means saved, told is kept, released is gone; no result of an old account; requests end |
| `local_action` | 3 requests under 2 ids, 1 place, queue of 1, 2 faults, fairness | the lane counts every living helper; what was done is remembered and not done again; answers are true; requests end |
| `cache` | 2 workers, one with a session, the service, 3 events, fairness | a leased file stays; a readable file is answered for by a lease or a marker; nothing readable is left in the end |

The bounds. Every hazard of the lock needs at most an old owner and two others,
so three acquisitions suffice, and the proofs remove the bound. The digest
protocol keeps one record and one cursor per group, so a fault interacts with the run
it hits and with the run that recovers from it; three digests and three faults let a
recovery fail, and the recovery of that recovery. Two rules, one of which drops a
message, make every outcome of the filter happen. In the lifecycle, three user
actions let two settings requests, each with up to two stops and a start, overlap with a manual run or a shutdown, and three
faults let a request fail, a load fail and a wait run out in one behaviour. Past
the bound `MaxDigest` the summarizer always fails, which the code must survive as well.
A rollback concerns one save and the one after it, so three saves and two faults let a
save fail, its rollback fail, and the recovery meet a later save. Saves are serialized;
two clients make every overlap of a load with a save. A load that does not take its turn overlaps one
save and the beginning of the next, so one client may have such loads beside two saves and one fault; behaviours end where one of them recovers
beside a save, which is excused (`FewBeside`). `settings_undone` has no such bound.

In `history`, two digests let the retention remove several, put one back and go on; two
faults let an operation fail and the recovery of it fail, or crash twice. `Within` keeps
the instance small where the properties say little: damage of the index is the only
fault of its behaviour, and once a digest is excused nothing else fails and the digest saved before is
left alone. The excused behaviours stay in, so that every branch is taken.

In `batch` one of three disturbances (settings change, page gone, shutdown) happens in a behaviour
(`OneDisturbance`) and the starts of two batches follow each other (`OneStart`); the proof removes
both bounds for the safety properties. In `result`, two saves make a retry and a second tab, and two
faults let a crash meet a failed write or an unreadable file. In `local_action` two requests share an id (a
retry) and the third competes for the lane; with three requests one fault happens, with two requests two
(`TwoFaultsOfTwo`). In `cache` two reads and a fault or a death, or one read with a fault and a death happen
(`ThreeEvents`), since a copy is lost only where two actors or an actor and a crash meet; four lease names
suffice for one worker's reads and what an earlier one left behind. Nothing is asked after a lock was unlinked
that was not the judged one (`NotSwapped`, section 6).

Deadlock checking is off where the system may stop for good: all processes are
done, the service is shut down, every digest is removed and nobody asks for another, or the requests are used up. The digest runs check it.

## 4. Fairness

`AtomicProcessLock`: a process that is alive goes on (the event loop runs a ready
continuation), and a query of the owner that fails now and then answers in the end
(strong fairness of `JudgeDead`). Nothing obliges a caller to ask or to leave.
`SchedulerDigestCommit`: the timer keeps starting runs, and a run takes its next step
(weak fairness of the run's steps together). Faults, settings changes and messages are
free. `SettingsTransaction`: a request that is under way goes on, and settings are loaded
again and again, which the pages and the scheduler do. `SchedulerLifecycle`: promises settle, timers fire, a run ends. Nothing obliges a user.
`DigestBatch`: every handler ends, a lease runs out by the clock, a settings request does its second
half and the scheduler's run ends; the page need not do anything. `DigestResult`: writes end, the
deadline of the job ends a digest, requests go on. `LocalAction`: the service's own steps for a request (what the event loop
runs next, and its timers); a helper need neither act nor end. `PlaintextCache`: reads
end, sessions are closed, the service cleans up after its workers and sweeps every ten minutes. The
entry lock is asked for every tenth of a second, so the fairness of an actor is strong, and a copy nobody uses is
older than an hour at some sweep (strong fairness of `DropListed`), by the clock.

## 5. Proofs

`ProcessLocks_proofs`, on `AtomicProcessLock`. `IndInv` is the type invariant and three parts. `ClaimInv`: a claim path is worked
on by one live removal, so the file a removal has verified is still at the fixed path when it unlinks.
`RemovalInv`: whatever a reclaim targets is dead, whatever a release targets has left. `OwnerInv`: a holder's
file is at the fixed path. Mutual exclusion is not inductive by itself: that a removal cannot hit a
replacement rests on the claim. From the invariant each action maps to a step of `ProcessMutex` or to a
stutter (`LockImplementsMutex`). Assumed: tokens differ, one process per acquisition.

The same module, on `InstanceLock` (`InstanceInv`). `HoldInv` and `WrittenInv` hold while `raced` is empty; `FileInv` and `JudgedInv` say
that a file without identity that is no longer fresh has a dead owner, and that whatever is judged reclaimable
is dead. `NoFalseRefusal` follows from `RefusalInv`: a starter that is not excused is the only one that starts
(`Launch` excuses both of two that overlap), so the file it judges is still the one on disk, nobody replaces it
before its second attempt, and what it waits for is an unfinished file of somebody who is gone.

`SchedulerDigestCommit_proofs`. `CoverInv` carries the coverage of the cursor to every state that is on its
way to become the cursor: the record's, the run's. `FreshInv` says that digest ids are new and nothing covers
the future, `RuleInv` that a run with current settings works under the saved rule, `GrowInv` that what is to
be committed is no less than the cursor. From it follow `NoMessageIsLost`, `CursorFollowsRule` and
`CursorOnlyGrows`, for any set of messages and rules and any bounds. That no message is in two digests
(`DigestedOnceOrDropped`) needs the way a digest can come back: `OnceInv` says that what a digest of the
current epoch covers is behind the cursor, or in the record, or being saved (`SettledInv`); that the record is
that of the save in progress and covers it (`RecordInv`); that a record still there when messages are read has
nothing to add (`PassedInv`); and that epochs follow the saved rule (`EpochInv`). Two digests of an epoch are
then apart (`ApartInv`), the ones that are only begun included, since the history may roll them forward.
`RecordKeptUntilSettled` follows from the same invariant.

`DigestBatch_proofs`. `IndInv` is inductive as the run checks it: the four properties, and with them that a
start whose batch is not cancelled has read the current settings (`StartsAreCurrent`), that a request or a save has
its batch (`SavesHoldTheirBatch`), that a hard cancellation has aborted what may still be stopped
(`HardAborts`) and that a save which was overtaken can be told (`SpoiledIsSeen`). `HardCancelIsFinal` follows
from `HardAborts`. For any number of batches, saves and changes of the settings.

`SettingsTransaction_proofs`. `IndInv` has what is on disk (`DiskInv`) and what each request relies on
(`RequestInv`). On disk: the files belong together or, while a journal is prepared, its backups do and are all
there (`WholeInv`); neither the files nor those backups are older than what was confirmed (`AckInv`). Of a
request: one has the turn (`ReqInv`, `QuietInv`); what that one has read is what the files contain until it
writes (`GotInv`); the journal is its own or asks for nothing, and what it wrote stays (`TurnInv`); a
restoration goes back to the journal's backups and to nothing older than what was confirmed (`LeadInv`,
`RestoreInv`), and nobody removes the backups of a prepared journal (`BackInv`). As in the properties, `raced`
(a load recovered beside a save) and `unsure` (section 6, 8) end what they spoil. `AckedKept`,
`RollbackPossible` and what `FilesAreWhole` says of the disk (`DiskIsWhole`) follow. What a client is shown needs more
(`ViewInv`): nothing is assumed of `LoadKinds`, so any load may read beside a save, and only a load that holds its turn
reads files nobody else replaces. Its document is of one save, which gives `FilesAreWhole` (`NothingIsTorn`), and its
revision stands for its own content, although it comes from another read of the file, which gives
`PatchMadeOnCurrent` (`PatchesAreCurrent`). All of it holds for loads of either kind and any number of clients, saves
and faults. What is false of the other loads is in `settings_undone` and section 6 (7).

`SchedulerLifecycle_proofs`. Neither `OneRun` nor the soundness of the timer is inductive: whether a cycle
that is about to arm the timer, or a start that goes on after a stop was asked for, does so too late depends
on the queue. `IndInv` adds to the types that the stops in the queue and in progress are as many as `stopReqs`
counts (`CountInv`), that no cycle is of the future and that what has ended leaves nothing behind (`RunInv`),
that a start has no timer, no cycle of its generation and, after its wait, no run beside it (`StartInv`), that
while a stop is pending no cycle is current and while it is in progress nothing is scheduled (`StopInv`), and
who may still arm the timer that the status claims (`ClaimInv`). `OneRun`, `TimerSound` and
`StopLeavesNothing` follow, for any number of requests, shutdowns and faults; generations are then any natural
numbers.

`PlaintextCache_proofs`. That a file with a live lease stays where it is needs to know what everyone else has
seen. `IndInv` has, beside the types, which places a live and a dead worker can be in and that the service
knows leases of live processes only (`LifeInv`), that a read has its lease until it settles it (`LeaseInv`),
that a read that holds the entry lock has no sweep left to do (`SweepInv`), that whoever is where the lock is
held holds it (`LockInv`), and that whoever is about to remove the database has seen no reader and whoever is
about to write its lease has seen the database (`UseInv`). The last two hold as long as no lock other than the
judged one was removed (`swapped`, the case `ReadersKeepTheirFile` excepts too). From it follows
`ReadersKeepTheirFile`, for any number of workers, reads, lease names and faults. That a readable database is
answered for (`ReadableIsAnswered`) is about the last lease or marker: `AnswerInv` asks for one that nobody is
about to take away, neither by the last step of a settlement nor by the failing write of a lease. It stays
because markers only are settled, and each settlement is of one marker (`HandInv`); because who removes a
marker has removed the database first or has counted another lease under the entry lock; because nobody writes
a lease while somebody counts, so a counted one is not about to fail (`LockInv`); and because the leases that
live processes know, read with or let go of are on disk (`KnownInv`, `ReleaseInv`).

`LocalAction_proofs`. What each property says of the end of a route has to be said of the whole way. `IndInv`
adds to the types that the queue holds waiting requests once each (`QueueInv`); that those who work fit into
`active`, and whoever lives is at work or quarantined (`LaneInv`); what a phase says of the helper and the
record (`LifeInv`); that one route at a time has an id, and that once it has begun whoever acted under that id
before is given up (`AloneInv`); that a route past its first save, and whoever may still act, stands in memory
and on disk, itself or as something known to be done (`RecordInv`); that what was done is told by the commit
file or by a record on disk, and by the memory once the route is over (`DoneInv`); and what was answered
(`AnswerInv`). `Outcomes` first reduces every step to what it does to the records, so that the lane matters to
one lemma only. A second route under an id can only begin when memory has nothing under it, and then
`RecordInv` says that nobody acts under it: that is why `RunsOnce` holds. A restart finds each act in a commit
file or on disk (`RestoredIsKnown`). `LaneIsTrue`, `CommitIsRemembered`, `RunsOnce` and `AnswerIsTrue` follow
for any number of requests, ids and faults, any concurrency and any length of the queue.

`DigestOutput_proofs`, on `DigestResult` (`ResultInv`). None of the four parts of `ResultsAreSafe` is inductive,
since each is decided by writes that are still in the queue. `EarlyInv`: before its result is registered a digest has
left nothing anywhere. `TicketInv`: one save holds the ticket, the picture it may take away is its own and the
only one. `SavedInv`: once a result is saved, in memory, in the queue or on disk, the picture belongs to no
save that could be refused. `QueueInv`: at most one finish waits, and a service that refuses writes has none.
`KeptInv` and `ReleaseInv` say of a write that somebody waits for what will be true when it ends: no
write behind it takes the result away again, or brings it back. `AccountInv` orders what was read of the account and
what the mirror had noticed by then, which gives `OldIsGone`. `ResultsStaySafe` and `OldResultsAreGone` follow for any
number of saves, changes of the account and mishaps. Assumed: `Nothing` is neither a result nor a number.

The same module, on `HistoryStore` (`IndInv`). Nobody owns a digest: saves, one removal and one refresh touch the
same three files, marker and index entry. `SaveInv` and `OwnInv`: until a save has listed its digest its files are those
it owns, and neither a removal nor a refresh is at it. `PendInv`: what is renamed away has left its name, has its
manifest, and the removal under way knows it. `OpInv` and `RfInv` say how far the removal and the refresh are.
`DiskInv` is what the repairs rely on: marker, index and files of one digest agree, so a listed digest is whole, a removed
one is away, and one that is neither waits with a marker that says so. `TargetInv` keeps a removal at listed digests, `FoundInv`
keeps a refresh at unlisted ones, and so the two never meet at a file - except in one way. A save that crashed
and is listed nevertheless has a prepared marker; if a removal renames its files away and puts the marker back first,
a refresh takes the save up again. That is section 6 (13): the ghost `crossed` notes it and the properties excuse
such a digest. So that this excuses nothing else, the last parts count faults: a save waits only after a crash (one),
is listed while it waits only if the refresh that took it up was stopped (two: `WaitInv`, `MarkerInv`, `TempInv`), and a
removal goes back only if a step of it fails (three: `ThereInv`). `CrossingIsRare` states it: with two faults, as
in the run `history`, a digest is crossed only where one is in `beside` or the index was damaged.
`ListedStaysKept`, `RemovalIsFinal`, `SavesStaySettled` and `LeftoversStaySettleable` follow for any number of digests
and faults.

Every invariant and every action property the runs check is proved. What stays with TLC is all liveness, since the
prover has no `ENABLED` and with it no fairness: `DeadOwnerRemoved`, `EventuallyCovered`, `KeepsWaking`,
`ShutdownQuiesces`, `AbandonedBatchesEnd`, `ShutdownDrains`, `RequestsEnd` (of `DigestResult` and of `LocalAction`),
`NothingReadableStays` and `JournalSettled`. Each inductive invariant was checked by TLC on a small instance before it
was proved: that of `HistoryStore` on one digest with two faults (16.9 million states) and,
under a constraint, with three.

## 6. What the checks found

What the model checker showed, and windows that were met while reading the code for a module. The properties
except them where a ghost says so.

Locks:

1. Two starters can both run (`instance_twice`): the second judgment of
   `reclaimStaleInstanceLock` is awaited, the `unlink` that follows goes by name.
2. An orphaned claim file protects the lock of a dead owner for ever: a crash between `link`
   and `rm` of a removal is enough. `DeadOwnerRemoved` excepts it.

Scheduler:

3. A crash inside a scheduled save can lead to the same digest twice: the
   recovery by digest id does not roll the interrupted save forward, the history's does.
4. A manual run that cannot persist the disabled setting leaves the pending timer
   armed under a status that says it is not, until the restart its request asks for next.
5. A start and a cycle check the setup again after they were told to switch the setting off. When it is left on, because it
   was not required any more, and the next check finds it required again, the scheduler rests under a setting that says on,
   without a timer (730-738, 2229-2239). `KeepsWaking` excuses it through `gaveUp`, as it does a settings request that saved
   what cannot work, or that saw the old run still going on, and then leaves the scheduler stopped.
6. `restartPersistedSchedulerIfRunnable` (`src/main.js` 16644) takes a status that claims a timer for one that stays. When
   a stop that was asked for earlier is still in the queue, it clears the timer afterwards and nobody starts again. Excused through `gaveUp`.

Settings:

7. `loadSettings` waits for the saves that are queued when it is called, then reads
   beside the later ones. It can take the journal of a running save for the trace of a crash and roll it back, and the save
   is confirmed all the same (`settings_undone`). It can also answer a document that mixes two saves - the settings
   read before, the secrets after a save of both - or the revision of a newer file than the one it shows. The pages that edit ask for `wait_for_writes=1`: what they are shown is whole, and their
   patches meet what they were made on (`settings`, proved), unless another load recovers beside a save (`raced`).
8. A journal write that fails after its rename is cleaned up, backups first; a crash in
   between leaves a prepared journal without backups, and every later load is refused.
   `RollbackPossible` excepts this case through `unsure`.

History store (excepted by `beside`, `lost` and, the last, `crossed`):

9. A forced refresh can list a digest between its publication and its own entry in the
   index (`Merge` beside `committed`); if the save is then rejected, its files go and the entry stays.
10. The clean-up of a cancelled save removes PNG, JSON and marker in parallel
   (`cleanupRenderedPair`); a crash in between can leave a file without a marker, which nobody removes.
11. A marker is on disk a moment before it is registered as active, so the recovery can link
   the PNG of a running save, which then goes on under another name.
12. An index that is damaged during a removal, followed by a crash, is rebuilt by a refresh
   from the JSONs that are left before the removal is settled: a digest whose JSON was
   already renamed away drops out, and its JSON is unlinked while its PNG stays.
13. A save crashes, the refresh that takes it up is stopped, so the digest is listed with a marker that still says
   prepared, and a removal of it fails and puts the marker back before the JSON: after these three faults
   a refresh writes the JSON, or links the PNG, again. Both names are then taken, and the recovery of
   removals leaves them as they are. Or a second removal goes through while that refresh is at work, and
   the JSON it writes lists the digest again, without its picture.

Digests made by hand:

14. The handler that starts a batch does not ask again whether the batch is finished after it awaited
   the settings (`src/main.js` 21478-21486); `finished` and `lease` can both hold.
15. When the mirror notices another account while the result of a digest is written to the recovery
   file, the stream still sends the digest of the old one (26690-26705 against 1616-1625). Its
   save is refused later.
16. A poll, or a second request, during the first write of a result is told that it is
   persisted (2953), though the write may fail. `ToldIsKept` speaks of the stream.
17. Tickets restored after a restart are not usable by the pages that held the old ones.
18. A service that could not read its recovery file does not know a batch was finished; it refuses
   writes, so the file stays as it is (`ReleasedIsGone`).

Local actions (excepted by `givenUp`):

19. A commit file that cannot be read is treated in two ways: `recoverPreparedSystemClipboardEvidenceAfterFailure` (12863)
   removes it and discards the evidence, though the reconciliation before has noted that the outcome is unknown
   (10960); the other routes keep it (22125, 22428).
20. `forgetLocalActionEvidence` deletes by id, so a retry under the same id can discard the record of a
   commit that came late.
21. A helper that has committed and hangs is never ended, and holds its place of the lane.
22. A failure to write the commit file is swallowed in the helper: the action is then done and not
   known. The model writes it in the step of the effect.

Plaintext cache:

23. `openUsableCachedPlaintextDb` runs under the entry lock (7327, 7349). When the copy cannot be opened, its `catch` (7378) settles
   the lease through a path that waits for the same lock (7637), for five minutes, which is longer than the
   default time of a worker; the message (7559) then blames another task. `SelfWaitEnds` is the end of this wait.
24. The cleanup of a dead worker reads the owner of the lock again and removes it by name
   (7776-7795). A process that took the lock in between loses it; the ghost `swapped` notes this, and the
   properties say nothing of what follows. `ReadersKeepTheirFile` and `ReadableIsAnswered` are both at stake: a settlement beside the
   write of a lease can count the empty file of a write that fails, and take the last marker away.
25. A lease whose transition to a marker fails is kept until its process ends, and so is one whose reader
   could not release the entry lock after opening. A lease without content of a dead owner counts for
   six hours. All go in the end (`NothingReadableStays`).
26. At its start the service clears its temporary directory (26990), the cache with it, also under workers
   that outlived a crashed service. Not in the module, which leaves out the crash of the service.

## 7. What is left

In the order of what they would add:

1. An abstract specification of the digest commit, one atomic step per digest, and the refinement.
2. `gracefulShutdown` as a composition of the drains the modules have.
3. Readiness of the mirror, the registry and the admission of workers.
4. The front-end coordinators and the recovery of tabs.
5. Re-renders, exported text previews and several output directories of the history.

Not modelled, and why: collecting messages, summarizing, drawing and decoding media turn data into data, and what is
hard about them is content, not order; their failures and aborts are steps of the modules that call
them. Discovery, key acquisition and the tray talk to other processes through the platform; what the protocols need of them
(an owner is alive or dead, a helper hangs) is a choice in the modules. The log and the atomic replace of files are
single steps. The pages present, and whatever order of requests they could produce is among those the modules allow.
Most of the repository's lines are in these parts.

## 8. Running

`tlc -config X.cfg M` for the runs listed in `PROJECT.json`, `tlapm M.tla` for the modules
whose names end in `_proofs`. Definitions marked `Mutated` in a comment are plausible
bugs of the definition after them; each makes the property it is listed with fail.
