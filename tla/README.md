# Verification of SongSeek

TLA+ models of the parts of SongSeek where state outlives a call or is shared by several
threads and coroutines: the journal of download attempts and its cleanup, the scan of the library
and the directory walk inside it, the two protocols that publish files into the library, the
durable operations that drive them, the queue that identifies albums and the reviews of people, the
leases of the library roots, the write lock of the stores and the request deduplicator. TLC checks each model on small instances; TLAPS proves part of the
results for all instances. `PROJECT.json` lists components, runs, mutants, hazards, findings and
theorems, and maps every definition to the lines it stands for.

    tlc -workers 2 -config journal_soulseek.cfg MCAcquisitionJournal.tla
    tlapm AcquisitionJournalProofs.tla

## 1. The system

SongSeek is one asyncio process (`src/backend`, FastAPI) over SQLite, with threads for blocking
work, and external download clients (slskd, SABnzbd). It keeps a native music library: it scans
folders, downloads requested albums, and publishes files into the library under leases.

| part (under `src/backend/`) | state | operations | works with |
|---|---|---|---|
| download orchestrator (`services/native/download_orchestrator.py`) | task rows, in-memory registries of pipelines, operation locks | enqueue, poll, import, fail over, finalize, cancel, reimport, reap, resume | journal, clients, publisher |
| attempt journal (`infrastructure/persistence/download_store.py`) | `download_attempts`: state, disposition, barriers, lease, retry, evidence, `row_revision` | create, accept, acquire, schedule, finalize, claim, CAS writes | orchestrator, cleanup |
| cleanup worker (`services/native/acquisition_cleanup_service.py`) | claimed rows of one pass | sweep, `cleanup_now`, per-row protocol | journal, clients, mount, import bundles |
| import publisher (`library_management_publisher.py`, `publish_import_bundle`, `recover_import_bundle`) | bundle and journal rows, hidden files beside the library's | stage, publish, commit, clean up, roll back, recover | orchestrator, root leases, catalogue |
| management publisher and recovery (the same file, `library_management_recovery_service.py`) | `file_mutation_journal` rows of a bundle | prepare, publish, commit, clean up, compensate | operations, root leases, catalogue |
| library operations (`library_operation_service.py`, the job and work tables) | job rows, work rows, job leases | stage, plan, apply, pause, stop, resume, recover | publisher, scan gate, wakeups |
| durable wakeups, workload gate (`infrastructure/queue/durable_work_wakeup.py`, `background_workload_gate.py`) | revision and event per kind, scan flag | notify, wait, hold back | operations, scans |
| identification queue (`identification_queue_service.py`, `library_identification_jobs`), its worker | job rows with attempts, lease, key; breaker of the provider (`infrastructure/resilience/retry.py`) | enqueue, claim, run, finish, defer, fail, sweep, collect | scans, policy, reviews, wakeups |
| reviews (`library_identification_reviews`), decisions (`apply_review_decision`, `accept_review_candidate`) | review rows, identities, exclusions | keep, exclude, restore, dismiss, accept | identification queue, catalogue |
| scan coordinator (`library_scan_coordinator.py`), supervisor | `library_scan_runs`, scopes, inventory; pending controls in memory | request, pause, resume, stop, run_once, recover | scanner, indexer, reconciler, policy |
| inventory scanner (`library_inventory_scanner.py`) | producer thread, bounded queue, heartbeat | walk a scope, persist batches, detach | leases, scan rows |
| indexer, reconciler | cursors in the scan rows, `local_tracks` | read tags, commit batches, mark missing, restore | leases, fence |
| filesystem coordinator (`library_filesystem_coordinator.py`) | per-root lease and revision, recorded scan revisions | read, write, write_many, record, forget | scanner, publishers |
| request deduplicator (`infrastructure/http/deduplication.py`) | pending future per key | dedupe, clear | every client of an external service |
| store lock (`infrastructure/persistence/_database.py`) | flag, waiter counts, burst counter | acquire, acquire_background, release | every store |

How they interact. Pipelines, commands and workers share only rows: a worker remembers a
revision and writes with a compare-and-swap, everything else is one transaction. Publishers and
the scanner share the folders through leases, and the scanner learns of publications afterwards by
comparing root revisions. Controls reach a scan or an operation through its row and are seen at
checkpoints. Any two awaits of a coroutine may have any step of the others between them; blocking
calls run in threads; the process may stop anywhere, after which only rows, files and the clients'
records remain, and startup recovery begins from those.

What is hard here, and what makes each part correct, is the list `hazards` in PROJECT.json, each
at its line with the properties that cover it. In short:

- journal: bytes are removed exactly once, never while a pipeline, a reimport or a publication
  needs them; nothing terminal stays undischarged; a debt comes up again after every fault.
- publication: a bundle is adopted entirely or not at all; no original is given up before and no
  output withdrawn after; what another program wrote is not destroyed; every bundle comes to an end.
- operations: no subject is applied twice, or counted and not applied; success means all of it; a
  stop holds back all but the subject in hand; no wakeup is lost; no job hangs.
- identification: what a person decided of an album stands for the input it was about; no album is
  lost between scans, queue and reviews; the jobs of an album come to an end.
- scan: a track is marked missing only when its file is missing; one run at a time; controls are
  neither lost nor overruled; what ended stays ended.
- walk: a completed walk is complete; no walk waits for ever; a detached thread ends.
- leases: one writer or readers per root; no request for several roots waits for ever; a
  cancellation leaves nothing behind.
- deduplicator: one flight per key; every caller is answered.
- lock: one writer; background work is overtaken a bounded number of times; nobody sleeps for ever.

## 2. Modules

| module | models | used by |
|---|---|---|
| `AcquisitionJournal` | journal, pipelines, commands, cleanup workers, clients, bundle states | `MCAcquisitionJournal`, `AcquisitionJournalProofs` |
| `AtomicPublication` | what a publication promises | `PublicationJournal`, `ImportPublication` (refinement) |
| `PublicationJournal` | a management bundle and its recovery | `MCPublicationJournal`, `MCPublication`, `PublicationProofs` |
| `ImportPublication` | a download's bundle, its calls and its recovery | `MCPublication`, `ImportPublicationProofs` |
| `LibraryOperations` | jobs, work rows, the worker loop, wakeups, the gate | `MCLibraryOperations`, `LibraryOperationsProofs` |
| `IdentificationQueue` | jobs, reviews, decisions, policy, breaker, the identification worker | `MCIdentificationQueue`, `IdentificationQueueProofs` |
| `LibraryScan` | runs, requests, controls, phases, recovery, fence, publisher | `MCLibraryScan`, `MCLibraryScans`, `LibraryScanProofs`, `LibraryScansProofs` |
| `InventoryWalkState`, `InventoryWalk` | `_walk_scope` | `MCInventoryWalk`, `MCRuntime`, `RuntimeProofs` |
| `RootLeaseState`, `RootLeases` | `LibraryFilesystemCoordinator` | `MCRuntime`, `RuntimeProofs` |
| `RequestDeduplicatorState`, `RequestDeduplicator` | `RequestDeduplicator.dedupe`, `clear` | `MCRuntime`, `RuntimeProofs` |
| `PriorityWriteLock` | the lock of `_database.py` | `MCRuntime`, `RuntimeProofs` |

How the models fit together. `LibraryScan` takes a walk as looking at the paths of a scope one by
one and either completing or failing; that a completed walk has seen every file is what
`InventoryWalk` shows (`CompletedWalkIsComplete`), that it ends is `WalkEnds`. `LibraryScan`, the
walk and both publications take a lease as something one may hold; that it excludes and is given
back is `LeaseExclusion` and `LeasesEnd` of `RootLeases` (the latter a part of `RequestsEnd`). `LibraryOperations` keeps of a management
bundle where it was interrupted (`torn`); the files are `PublicationJournal`'s. `AcquisitionJournal`
keeps of a download's bundle its state; the files and the recovery are `ImportPublication`'s.

The `*State` modules hold the variables of a small component and the properties that speak of
them alone. `MCRuntime` brings the four small systems of one process into one instance, and their
`State` modules let each property keep its one definition in the run and in the proof. `MCRuntime`
and `MCPublication` check sums, not products: the parts share no variable, a variable (`which`,
`lane`) says at the start which of them runs, and the others stay at their initial states.
`MCLibraryScans` is a sum of two instances of one module over the same variables, with different
constants. Where a run checks an instance, the module that is instantiated is the one with the proofs
(`Import` of `MCPublication`, `TwoFiles` of `MCLibraryScans`), so that a theorem about any instance is
cited for the one of the run.

`IdentificationQueue` takes of a scan only what it does to an album: files, policy, whether it is
missing, whether its directory is still to be grouped. That a scan marks missing only what is
missing is `LibraryScan`'s. `DurableWorkWakeups` and the scan gate, which the worker also uses, are
`LibraryOperations`'; here a wakeup would only shorten a wait.

A restriction of an instance that the code does not enforce is a member of the constant `Admits`: a
circumstance, named in the module, that an action's guard admits only when it is listed. An instance
without a circumstance says what holds when it does not happen. Section 3 lists each one with the
property it breaks.

### AcquisitionJournal

| state | in the code |
|---|---|
| `row[a]` | the row of `download_attempts`; `known`: the client's job id is in the handle |
| `current[a]` | the workers whose remembered `row_revision` is the present one |
| `status`, `using` | the task's status as the journal can tell it apart, and the attempt that its pipeline or reimport works on (the registries and the operation lock) |
| `link`, `manifest` | the candidate link of the task row and the manifest in the staging folder |
| `sent`, `client`, `disk` | an enqueue in flight, the client's transfer or job, the files on the mount |
| `bundle` | the publisher's bundle built from the files |
| `claim`, `wk`, `nudged` | a worker's claimed rows, where it is in `_process_claimed`, and calls of `cleanup_now` to come |

Pipeline: `CreateAttempt`, `SendEnqueue`, `ClientEnqueue`, `AcceptHandle`, `Publish` (the import),
`FailOver`, `LinkCandidate`, `Finalize`, `FailPreserving`. Commands: `Cancel`, `Reimport` (it
acquires the row and marks the task), `Resume`, `ReapReimport`. Store: `Elapse`, `LeaseExpires`,
`ExpirePreserved`. World: transfers, publications, `RemovedByHand`, `Restart`. Worker: `RunOnce`, `CleanupNow`, `Begin`, then one action for each stretch between
two awaits of `_process_claimed` and of its handlers. A bundle is keyed by task and source paths
(`uuid5`), so two attempts of one task at one path ask for the same bundle: `BundleOf`. A task may
come to a second attempt at a path (the re-pull of its first candidate, peers with folders of one
name) only with the circumstance `pathAgain`. `failures` is the smaller of `cleanup_failures`, which
the code raises without bound, and of the only number it is compared with; no property is about it.

Facts of the code one might not expect, kept in the model: the except clauses of `_process_claimed`
reread the row and write with that revision; a task that fails preserves its row without
barriers, so retention may expire under an unfinished publication;
nothing takes a bundle out of `needs_attention`, and one that was rolled back may be published again;
slskd shares a transfer between attempts for the same peer and file; a SABnzbd job between queue and
history is reported missing.

### PublicationJournal

One bundle of a management operation. `disk` gives each path of a mutation (source, temporary,
backup, destination) one of the byte strings that matter; `row` is the mutation's journal row, and
`kept` says whether its evidence still names its kind; `adopted` is the catalogue; `op` the job, the
work row and the lease owner; `conf` the settings; `mem` the position and the lists the process
holds in memory. Seven kinds of mutation (retag, move, artwork added or replaced, sidecar, deletion,
recycling) differ in which paths they use.

Publisher: `Begin`, `EnsureJournal`, `Stage`, `Advance`, `Recheck`, `BackUp`, `MarkBackedUp`, `Place`,
`MarkPublished`, `Commit`, `Cleanup`; its rollback `UndoMark`, `UndoRestore`. Recovery: `Reclaim`,
`Recover` chooses by rows and bytes; `Preflight` and `Remaining*` go on with a publication;
`Recommit` adopts; `TidyCheck`, `Tidy` finish a cleanup; `Compensate`, `Mark`, `Restore`, `Close` take
it back; `Attend` gives it to a person; `Fail` settles the job. World: `Stop`, `Restart`, `Fault`,
`Reconfigure`, `OtherWrites`, `OtherBundleFails`. A rename, an unlink and a row transition are one step
each; publisher and recovery run one after the other in one loop.

### ImportPublication

One bundle of a download. `bundle` and `row` are the states in the database, `disk` what each place
of a file holds (source, hidden temporary, destination, backup, the replaced file elsewhere, and the
sidecar's three), `lease`, `policy`, `process`, and `w` what the publisher and recovery are at, with
the copies of rows they read. A copy is `fresh` until somebody else writes the row; `CanWrite` is
the comparison of revisions.

Publisher: `Call` (again for the same bundle, too), `Mark`, `List`, `PrepareFile`, `Stage`,
`MarkStaged`, `Unprepare`; under the leases `Enter`, `BackUp`/`MarkBackedUp`/`SkipBoundary`
(what an earlier call left), `Recheck`, `Place`, `PlaceSidecar`, `MarkPublished`, `Commit`. Both:
`BeginCleanup` .. `FinishCleanup`, `BeginUndo`, `Undo`, `Restore`, `CloseUndo`. Recovery: `ListBundle`,
`RecoverBundle`, `ReadJournals`, `FinishPreparing`, `SetAside`, and `Started` at startup. World: `Fault`
(an `OSError` or a cancellation), `Stop`, `Restart`, `ChangePolicy`, `OtherWrites`.

`recover_import_bundle` asks once whether the bundle is being published: a call may begin after
that, and from then on only the row revisions and the leases keep the two apart. Hidden temporary
files may stay behind when recovery undoes a row under the publisher that stages it; no property
denies it.

### AtomicPublication

The abstract specification of both: which originals are `held`, which outputs are `shown`, and
whether the catalogue has `adopted` them. Outputs come and go before the adoption, are adopted
only all together, originals are discarded only after it. `PublicationJournal` and `ImportPublication`
each define these variables from their files and rows and are checked to implement it.

### LibraryOperations

| state | in the code |
|---|---|
| `job`, `work` | `library_operation_jobs` with the phase of its snapshot, and `library_operation_work` |
| `torn` | the bundle of a job whose journal rows are not terminal, and how far it got |
| `worker` | where `run_target_operation_worker` is, with its job and subject |
| `wake`, `untold` | the revision and event of `DurableWorkWakeups`; commits whose notify is to come |
| `scanActive` | the flag of `BackgroundWorkloadGate` |
| `applied`, `asked`, `after` | history: effects committed, jobs a user has stopped, effects since |

Users: `Create`, `Pause`, `Stop`, `Resume`, `Accept`, `Discard`, `Apply`. Loop: `ReadRevision`,
`RecoverLeases`, the recovery of each bundle (`RecoverCommitted`, `Compensate`, ...), `ClaimJob`,
`ClaimNothing`, `Wait`, `Wakes`. Work: staging and applying a bulk review, evaluating a
re-identification, planning, sealing and applying a management job, down to `FinishApply`. World:
`LeaseExpires`, `ScanBegins`, `ScanEnds`, `Restart`. A lease runs out under the worker, too, whenever
somebody looks at it. Left out: repair jobs, undo and baseline jobs, the joining of activation
previews.

### IdentificationQueue

| state | in the code |
|---|---|
| `album[a]` | the rows of an album (one track): its files and the policy it was indexed under, which together are the digest `album_input_revision`; `barred`: excluded; `where`: indexed, missing or retired; `owed`: its directory waits for grouping; its identity and the input that was found for |
| `jobs[a][kind][key]` | the newest `library_identification_jobs` row of a `dedupe_key`: state, attempts, due, last failure |
| `reviews[a][key]` | the review that is not resolved; `about`, `seen`: the input and the identity its evidence is of |
| `policy`, `paused` | `library_policy_state`, `library_work_control` |
| `breaker` | the `CircuitState` of the provider |
| `worker` | where `run_target_identification_worker` and `run_claimed_job` are, and what they have read |
| `word` | history: the last decision on an album and the input it was about |

Scans: `Change`, `Regroup`, `Retire`, `Enqueue` (the end of grouping), `Reconsider`, `Repair`,
`SetPolicy`, `ApplyPolicy`, `Vanish`, `Return`. People: `Keep`, `Exclude`, `Restore`, `Dismiss`,
`Accept`, `PauseQueue`, `ResumeQueue`. Worker: `Claim`, `ReadContext`, `Evaluate`, `Halt`, `Finish`,
`FinishStale`, `Fail`, `Defer`, `Recover`, `CollectStale`, `Sweep`. World: `Fault`, `Elapse`, `Trip`,
`Close`, `Restart`.

The key of a job and of its review is the digest when grouping enqueued the job, and the bare policy
revision when reconciliation did. That two keys name one input is the finding `identification_kept`.

Facts of the code one might not expect, kept in the model: an identity or a `keep_tagged` of an older
input protects an album from reconciliation's job when the policy becomes automatic again;
restoring an excluded album enqueues nothing; a cancelled job blocks its key for good, an enqueue
takes up again only jobs that failed at the provider; attempts are compared with their bound in
`defer` alone, so a lease that runs out never fails a job. `NothingForgotten` says which of these is
still an answer: an identity or a review of an earlier policy is one, a cancelled job is one only with
the decision that cancelled it.

Left out: identities of `legacy_import`, jobs of kind `review_retry` and the explicit
re-identification (its worker is in `LibraryOperations`), albums of several tracks (any changed track
changes the digest), priorities, heartbeats, and the row revision of an album (a write in between that
changes nothing the job reads makes it stale; that is a `Fault`).

### LibraryScan

| state | in the code |
|---|---|
| `runs[r]` | the run row, its scopes, and in `at` its inventory (`found`, `todo`), completed scopes (`walked`) and reconciliation cursors |
| `fence[r][root]` | the recorded scan revision compared with the root's: `current` or `passed`; `none` when nothing is recorded |
| `disk`, `track` | the files, and the row of `local_tracks` at each path |
| `pub` | the publication that holds write leases |
| `wk` | the scan worker: where it is in `run_once`, `_continue_run`, `discover`, `index`, `reconcile`; `fresh`: its revision of the run is the present one; `clean`: no publication in its root since the walk began |
| `since` | history: files on disk ever since the run was claimed |

Requests: `Request` joins (`Coalesce`), extends (`Expand`), refuses or queues (`Enqueue`). Controls:
`Pause`, `ResumeRun`, `Stop`. Worker: `RunOnce` claims or resumes; `NextScope` .. `CompleteScope`
discover; `Reread`, `Leave`, `Advance` end a phase; `StartIndex` .. `EndIndex`; `ReconcileRow`,
`ReconcileNext`; `Refuse` is a checkpoint that says no, `Fails` the except clause of `run_once`,
`Unwind` a walk given up. World: `Place`, `Commit`, `Rollback` publish; other programs add and remove
files; `ChangePolicy`; `Restart` with `recover_scan_runs`.

Abstractions: steps under a read lease are one action, so only the publisher is seen holding a lease;
a reconciliation batch is one track and an index batch one file; the pages in which an ended run's
inventory is deleted are one step; a checkpoint's read and write of the run are one step (a request
in between makes the code's write fail, and the run with it); grouping into albums, excluded and
deferred files and the three kinds of scan are left out.

### InventoryWalk

The thread goes through folders: lease, listing, puts on the queue, sentinel. The coroutine takes
items, persists batches, checks, and ends by the sentinel, an error, a refused checkpoint, the
deadline, a cancellation or a failing store. A detached thread goes on in the model, too:
`DetachedThreadEnds`. `stale` says that the heartbeat is older than the
deadline: it may become so while the thread waits for the lease, the file system or the queue.
Not modelled: exceptions of the walker other than `OSError`, files that vanish during the walk.

### RootLeases

`readers`, `writerActive`, `waitingWriters`, `revision` are the `_RootLeaseState` of each root; `held[t]`
the roots a request has, `request[t]` where its coroutine is, `job[t]` where the thread is that
acquires a lease for it. `Begin`, `Run` (the thread evaluates its condition), `Proceed` (the coroutine
asks for the next root, enters its body or unwinds), `Cancel`, `EndBody`, `Release`. The cancelled
request cannot stop its thread: the lease is taken first and given back then. The threads of the
executor are counted (`Workers`): a waiting reader occupies one, a body needs one.

### RequestDeduplicator

For one key: `pending` is the caller whose future is in the table, `future[c]` its outcome, `call[c]`
where a caller is. `Call`, `LeaderEnds` with a result, an exception or a cancellation,
`FollowerWakes` (it may take over, at most `Retries` times), `FollowerCancelled`, `Clear`.

### PriorityWriteLock

A thread is idle, waiting in `Condition.wait`, notified, or holding. The waiter counters are the
sizes of the sets of waiting threads. `_foreground_grants` grows without bound while only foreground
threads write; `Burst + 1` stands for every value above `Burst`, the only number it is compared with.
That it never passes the burst while background work waits is part of `TypeOK`, and a consequence of
where the code resets it. `overtaken` is a history variable.

## 3. Runs

Deadlock is not checked where the modelled part may stop: every attempt may be settled, a bundle
ends, no scan is owed, the threads of `runtime` may want nothing any more. `operations` checks it.

| run | instance | shows |
|---|---|---|
| `journal_soulseek` | one slskd attempt, sweep and `cleanup_now`, stops, faults, a reaper that meets a reimport | `DeletesNothingInUse`, `SourceOutlivesPublication` |
| `journal_failover` | two SABnzbd attempts of one task at their own paths, the sweep alone | `NoOrphanedAttempt` and `SourceOutlivesPublication` across failover; every action of the switch |
| `journal_liveness` | one SABnzbd attempt, the sweep alone, stops and faults (also at a switch of candidates), expiring retention, files taken away by hand, fairness | `CleanCompletion`, `DebtIsDischarged` |
| `publication` | lane "operation": a retag, a move and a deletion, two stops, a fault. Lane "import": a file with a sidecar that replaces its destination and a file that replaces one elsewhere, two calls, a stop, a fault or cancellation. Both: one write of another program, one change of settings, fairness | all-or-nothing (`BothRefineAtomicPublication`), `UndoneIsRestored`, `AdoptedIsWhole`, `ClosedIsWhole`, `BytesSurvive`, `BothSettle` |
| `operations` | a bulk review of two subjects in batches of one, a re-identification, an automatic management job of two; 7 events in all, a job costing 3 of them; fairness | `CountersAgree`, `FinishedIsWhole`, `StopIsHonoured`, `WakeupKept`, `JobsSettle` |
| `identification` | one album of two revisions of its files; a policy that is automatic, then local metadata, then automatic again; 3 events (changes, decisions, faults, stops); fairness | `DecisionStands`, `NothingForgotten`, `WorkEnds` |
| `scans` | instance "files": two runs one after the other over two paths of one root, publisher, other programs, controls, restarts before a scope is completed. Instance "queue": two runs, requests for one or two scopes, two policies, resumes before the worker lets go, all files indexed at the start | "files": `MarksOnlyAbsent`, `CompletedScanRestores`, `PendingControlIsHeld`; both: `OneActiveRun`, `TerminalIsFinal` |
| `runtime` | the lock with three foreground and two background threads and burst 2; a walk over folders of 4, 0 and 1 files with queue and batch of 2; a writer of two roots, a writer of one, a reader of two and a walk's reader with 4 threads; three callers of one key with one retry; fairness | `BoundedOvertaking`, `NoLostWakeup`, `LockProgress`; `CompletedWalkIsComplete`, `WalkEnds`, `ThreadEnds`; `LeaseExclusion`; `OneFlight`; leases and calls end (`RequestsEnd`) |
| `walk_store_failure` | the walk with `storeFailsMidWalk` | violation of `WalkEnds` |
| `scan_shared_root` | a run with two scopes in one root | violation of `MarksOnlyAbsent` |
| `publication_recycle` | a move that recycles what was at its destination, one stop | violation of `RolledBackIsRestored` |
| `identification_kept` | the album of `identification` with one revision of its files, 4 events, `otherReview` | violation of `DecisionStands` |

Why the bounds are enough. Attempts of different tasks meet only at a shared path of the mount, and
those of one task only at failover, for which two suffice; two workers are the sweep and a nudge, and
a third could only do what one of them does after its restart. `UnresolvedJobRetries` is 1 where the
code has 4: the counter is compared with its bound and nothing else. Failover has too many orders to
be checked with two workers, retries and slskd's shared transfers at once, so `journal_failover` has
one worker, no retries (0) and SABnzbd, stops at the first completed or partial download
(`FailsOnly`; a failed one can be followed by whatever can follow a partial one, and a completed one by
nothing), and takes the two attempts, each with its path, as symmetric. `SourceOutlivesPublication` is
about the bundle of an attempt and the attempts of its task; two tasks that share a path are not.
Apart from these runs, the instance of `journal_soulseek` passed with a SABnzbd attempt, too, for
these properties and `CleanCompletion`.

The mutations of a bundle are independent but for their order, which two show; the three of the run
are one of each sort (in place, to another path, no output). Two stops interrupt the recovery of the
first one; a third interrupts the same code again. The two files of the import cover the two ways
in which a file replaces another, and one of them has a sidecar; the lane also passed, apart from
this run, with two stops, with three calls, and with two faults and two calls.

The operations need two subjects for one to be done and one not, and jobs of each kind in one
loop; with `MaxEvents` 7 and `JobCost` 3 there are two jobs and one event more, or one job and four:
a stop of the process or a control in any step and another after it.

The jobs of two albums share only the worker, the breaker and the controls, and every property is about
one album. Two revisions of files let an input change once under a job; three policies are the
shortest sequence in which automatic identification is withdrawn and comes back. With each
circumstance but those that need more policy changes three or four events break a property. Without
circumstances four events, with one revision of the files, were checked for safety and pass.

A queue of 2 with a folder of 4 blocks the thread with files left over and lets it finish; an empty
folder and a small one follow. Two roots and a writer of both against a reader of both are the
smallest instance in which an order of acquisition matters; each request is made once. Three
callers are a leader, a follower that takes over, and one that comes in between.

Two paths are enough to move a file past the cursor of a reconciliation or behind it; a third was
checked with one run and shows nothing more. Two runs are an active one and its follow-up, all that
the request logic tells apart. Two policy revisions are only compared with each other, so the run
takes them as symmetric.

### Circumstances

No passing run of the property on the right admits these: with one of them it does not hold. Each is a
step the code may take.

| circumstance | what happens | breaks |
|---|---|---|
| `batchOutlivesLease` | a sweep claims 25 rows with one 300 s lease and never renews it; a reimport acquires a row between the worker's last compare-and-swap and its unlink | `DeletesNothingInUse` |
| `pathAgain` | a task starts an attempt at a path where an earlier one of its own has yet to be cleaned up; the barriers of that row are those of its own last import | `SourceOutlivesPublication`, `CleanCompletion` |
| `stopAtSwitch` | a stop between making an attempt cleanup-eligible and linking the next candidate; the resumed task reads the old manifest | `SourceOutlivesPublication`, `DeletesNothingInUse` |
| `barriersUnknown` | a cancellation cannot list bundles and leaves a row without barriers | `SourceOutlivesPublication` |
| `stopBeforeManifest`, `stopInReimport` | a stop after the row, before whatever would lead back to it | `NoOrphanedAttempt` |
| `stopBetweenMutations` | a stop when all rows there are validated and the row of a later mutation is missing: recovery counts audio rows and adopts the rest | `AdoptedIsWhole` |
| `callOverRollback` | recovery reads a row in the middle of its publisher's rollback and waits for the leases; meanwhile the caller calls again, publishes and adopts; recovery takes its old copy of the row as it is, whatever the revision, and removes what was adopted (three calls, two failures) | `BothRefineAtomicPublication` |
| `stopWhenOverruled` | a stop of a publisher whose bundle recovery has closed under it | `ClosedIsWhole` |
| `stopInRestore` | a stop of a rollback between audio and sidecar; the restart takes the row for never published | `UndoneIsRestored` |
| `writesWhereBackedUp` | another program writes where a file was that a rollback renames its backup to | `BytesSurvive` |
| `controlOnSealed` | a pause or stop of an automatic preview between seal and apply is cleared with the seal | `StopIsHonoured` |
| `restartAfterWalk` | the recorded root revisions are lost, the completed scopes are not | `MarksOnlyAbsent` |
| `resumeBeforeUnwind` | a run is resumed before its worker has let go | `CompletedScanRestores` |
| `controlBetweenTicks` | a control reaches a run no worker holds | `PendingControlIsHeld` |
| `restartAfterSupersededPause` | `recover_scan_runs` revives a superseded run | `TerminalIsFinal` |
| `clearInFlight` | `clear()` while a leader runs: it pops the entry of its successor | `OneFlight` |
| `Workers = 1` | a waiting reader has the only thread of the executor and the writer it waits for needs one | `RequestsEnd` |
| `decisionMeetsWork` | an album is kept as tagged while its job runs or one of kind `post_processing` is queued; the decision cancels neither | `DecisionStands` |
| `otherReview` | a decision on a review whose key is not the album's digest; see finding 4 | `DecisionStands`, `NothingForgotten` |
| `policyWithdrawn` | a policy is replaced before scans have applied it: its jobs are cancelled, and albums that never saw it get none; or one comes back as it was before, and a job left over from then finds an album that was kept | `NothingForgotten`, `DecisionStands` |
| `reviewOfMissing` | a scan resolves the open review of a missing album; when the files return nothing is enqueued | `NothingForgotten` |
| `graceRunsOut` | the job of a missing album is collected after 24 h; the same | `NothingForgotten` |
| `flakyProvider` | a provider that fails on and on without opening its breaker: the sweep starts its jobs afresh, so the cap is not reached | `WorkEnds` |

Five circumstances are admitted where they matter: `retentionExpires` (a preserved row is given up
after 24 h, by design) in `journal_liveness`, `stopAtSwitch` (a resumed pipeline then works on a
row that is owed, or set aside) and `removedByHand` (a person clears up what a row set aside left, as
its recheck expects) there too, `reaperMeetsReimport` in `journal_soulseek` and
`resumeBeforeUnwind` in the instance "queue" of `scans`. The first two would break
`SourceOutlivesPublication`. With `reaperMeetsReimport` a task is reported failed while a reimport,
which is in no registry the reaper looks at, still works on it, against the docstring of
`reap_stale_tasks`; what the run shows is that its bytes stay.

### Findings

1. `walk_store_failure`: a store call that fails in mid-walk leaves the thread on a full queue, and
   the finally clause waits for it for ever. A request that joins the running scan is enough to make
   the call fail.
2. `scan_shared_root`: two scopes of one root share one recorded revision; the walk of the second
   forgets that a publication passed since the walk of the first.
3. `publication_recycle`: recovery marks a row `rollback_pending` with a reason that overwrites the
   evidence in which the kind "recycle" is kept; the restore then does not know it as one, and the
   row says rolled back while the original lies under its hidden backup name.
4. `identification_kept`: an enqueue takes a kept review for one of the same input when the keys are
   equal, and a review has the key of its job, which need not be the album's digest. An album that is
   kept as tagged is enqueued, and identified, though nothing of it has changed.

### Fairness

`journal_liveness`: the sweep loop of `core/tasks.py` runs its worker again and again (WF on
`RunOnce`, `Begin` and the item's steps), time passes, a transfer and a publication end, and a call
to the client or the mount is answered if it is tried for ever (SF); user cancellations and restarts
do not go on for ever, and neither do publications of one attempt (a pipeline publishes once per
request, which the model does not count). Nothing is assumed of `cleanup_now`. `publication`: the loop of the operation
worker runs recovery again and again and a stopped process is started; a publisher that was called
goes on; that a caller calls again, or that faults stop, is not assumed beyond the bounds.
`operations`: the loop's coroutine runs, its waits time out, a notify that is due is made, leases run
out and scans end; users owe nothing, and a heartbeat is never in time. `identification`: the
worker's loop runs whenever it can (WF on `WorkerStep`; `core/tasks.py` supervises it) and the times
of deferred jobs pass (WF on `Elapse`); nothing is assumed of scans, people, the provider, the sweep
or the breaker. `runtime`: a runnable thread
or coroutine runs, writes, bodies and requests end, and time passes; nothing is assumed of the file
system and the lease a walk waits for, and that is the point of its deadline.

## 4. Proofs

`AcquisitionJournalProofs`, for any attempts, tasks, workers and paths:

- `TypeCorrect`. `TypeOK` says also of every row that its disposition and its lease are those its state
  calls for (`RowAgrees`); pipelines, commands, the retention and workers each write them. `TypeInv`
  adds to the types that whoever remembers a revision or has claimed a row has seen the row exist,
  and that a busy worker has an item it has claimed: without that, a CAS of a worker could write a
  field of no row. `RowStep` says of each action that a row stays as it is, or is written so that it
  agrees with its state.
- `NoOrphanedAttemptHolds`, assuming neither `stopBeforeManifest` nor `stopInReimport`. `OpenInv`
  says of every open row that somebody can reach it: a pipeline or a reimport is using it, or it is
  the linked attempt of an active task with a manifest, so that a resume finds it. Of the many
  actions only those that open a row or move `using`, `link` and `status` matter; lemmas deal with all
  others at once.
- `DeletesNothingInUseHolds`, assuming neither `batchOutlivesLease` nor `stopAtSwitch`, and not both of
  `retentionExpires` and `reaperMeetsReimport`. `LeaseInv` says of a row as a worker claimed it that
  the row is closed and no pipeline works on it, and that the worker still owns the lease unless the
  task was cancelled in between (`LeaseHeld`); of a task that is worked on that its row is open, or is
  in a state no worker takes (`UsesOpen`); and of the attempt a resume would go back to that it is open
  (`ResumeOpen`). Items of a batch move one row each, and steps are grouped by what they do to a row:
  release it, raise its revision, turn it into a debt.
- `SourceOutlivesPublicationHolds`, assuming none of `batchOutlivesLease`, `stopAtSwitch`,
  `retentionExpires`, `barriersUnknown`, `pathAgain` (section 3). Attempts of different tasks may share
  paths. `SourceInv` adds to `LeaseInv` that the attempts a task has started have bundles of their own (`OneAtPath`), that the
  barriers of a row that owes a discard name its bundle while that is open (`Covered`), that so do
  those the worker claimed (`ClaimCovered`), and that past the barrier check the bundle is over
  (`Checked`).
- `CleanCompletionHolds`, under every circumstance, assuming that no two attempts lie at one path
  (`OwnPaths`) and that `"unpinned"` names no attempt. The first is needed: with
  `pathAgain` and two attempts at one peer and folder TLC finds that the late enqueue of the
  one brings bytes for a cleanup of the other that has passed its removal. `CleanInv` has two
  parts. `SentOnce`: the client is asked once for each attempt, and before its enqueue arrives there is
  neither a record nor a file (`Early`), so that once a job is over its record and bytes can only go,
  those of a failed SABnzbd job together (`Lasts`, proved of every step). And of each worker:
  before it inspects it has found nothing (`FindsFirst`), and after it found the job over, that stays
  true while it goes on, with the bytes gone from the step that removes them (`RemovesBytes`); where it
  could pin nothing there was nothing.

`RuntimeProofs` extends `MCRuntime`, the module of the run `runtime`, with every constant left open:

- `RuntimeTypesHold` (`TypesOK`), for the four systems together: they share no variable, so the
  conjunction `RuntimeInv` of their four invariants is inductive, and a step of one leaves the others.
- The lock, for any threads and burst: `LockTypeCorrect` (the count stays within the burst whenever
  background work waits), `MutualExclusionHolds` (which no run checks,
  since the proof covers every instance), `BoundedOvertakingHolds`, `NoLostWakeupHolds`, all from
  `LockInv`. `BoundedOvertaking` is inductive with `overtaken <= grants` while background work waits;
  `NoLostWakeup` with the fact that a sleeping thread of a free lock has a notified one whose loop
  condition is false.
- The walk, for any folders, queue and batch size: `WalkTypeCorrect` and
  `CompletedWalkIsCompleteHolds`, from `WalkInv`. That a completed walk is complete is not inductive. `Accounted`
  follows each file from the thread over the queue and the batch into the inventory for as long as the
  coroutine believes in the walk; `InOrder` says that the sentinel is behind everything the thread has
  put, so that taking it means nothing is left; `ThreadOK` ties the thread to its folders, and
  `RoomInBatch` keeps the batch to its size.
- The leases, for any finite set of requests, any roots and threads: `LeaseTypeCorrect` and
  `LeaseExclusionHolds`, from `LeaseInv`. `LeaseExclusion` counts the holders and askers of a root, but
  that a cancelled request gives back exactly what it has, and is counted as a waiting writer once, rests
  on where its coroutine is while its thread waits. That is `InStep`: only a request that acquires has a
  job, and one that has not begun has nothing.
- The deduplicator, for any callers and retries, with the entry not cleared under a leader (the instance
  of `MCRuntime` admits no `clearInFlight`): `OneFlightHolds`, from `FlightInv`. `LeaderIsPending` says
  that whoever leads is the one in the table, which `clearInFlight` breaks; `Following` that a follower's
  future exists, so that its outcome is one.

`LibraryScanProofs`, for any runs, files, roots, scopes, requests and policies:

- `OneActiveRunHolds` and `TerminalIsFinalHolds`, assuming no `restartAfterSupersededPause` (there
  `recover_scan_runs` revives a superseded run), both from `ScanInv`. `OneActiveRun` alone is not
  inductive: `RunsOK` adds that the control a row requests agrees with its state, without which a
  restart could pause a queued run or cancel a completed one, and `WorkerOK` that a worker whose
  revision is the present one at the end of a phase has a run that is still in that phase, without
  which its CAS could complete a run that was stopped. Every step but the claim is shown to activate
  no run; the claim does so only when none is active.
- `ScanTypeCorrect`, with no assumption. `TypeInv` adds to the types that a run which is to be paused
  knows the phase it goes on with, and that a worker not at the end of its phase holds a run nobody
  else ends, in a phase that fits its place.
- `PendingControlIsHeldHolds`, for one policy and without `controlBetweenTicks`: with two, a stop that
  meets a policy change at a checkpoint outside the phases is lost.
- `MarksOnlyAbsentHolds`, assuming neither `restartAfterSupersededPause` nor `restartAfterWalk` and that
  no two scopes share a root (`OneScopePerRoot`, which finding 2 shows to be needed). `InventoryInv`
  relates the inventory of a walked scope to the disk: it lists every file that was there since the
  claim, and, while the recorded revision is the present one, every file that counts as present. In
  mid-walk the same holds of what has been looked at (`SoundWalk`), as long as no publication has
  passed; `TodoListed` says that indexing brings up listed files only.
- `CompletedScanRestoresHolds`, assuming also no `resumeBeforeUnwind`. `RestoreInv` says of a run in a
  late phase that all its scopes are walked, and that below the cursor of each, and in the scopes
  reconciliation has finished, no file that never left is missing; that the worker's phase is the
  run's wherever the run is in one is what `resumeBeforeUnwind` breaks.

The scopes an expansion adds are selected by a recursive function (`Additions`), of which a lemma
needs only that it yields a sequence of scopes. The last four are properties of the run `scans` on its
instance "files", under the names `FilesTypeOK`, `FilesPendingControlIsHeld`, `FilesMarksOnlyAbsent` and
`FilesCompletedScanRestores`: `LibraryScansProofs` shows that this instance satisfies the assumptions
and that the instance chosen at the start never changes, and states the four of `ScansSpec`.

`PublicationProofs` extends `MCPublication`, the module of the run `publication`, with plans and bounds
left open: bundles of any mutations in any order, any files of a download, any number of calls, stops,
faults and writes of others. Its theorems are of `LanesSpec`, which allows both publications; the
part about a download comes from `ImportPublicationProofs`. Three assumptions come again and again:
no recycling in a management bundle (`NoRecycle`; the run `publication_recycle` shows the need), no
`stopBetweenMutations`, and no `callOverRollback`.

- `PublicationTypesHold`. Of a management bundle with no assumption. For a download the type
  invariant includes that whoever moves files has the leases.
- `PublishedIsWholeHolds` (`AdoptedIsWhole`), without `stopBetweenMutations`, recycling included. There
  are two roads to adoption, along what the publisher remembers and along the rows that recovery finds.
  `JournalInv` says of both how far the rows are at each point (`PublisherInv`), that nothing is published
  of a bundle of which a row is missing (`WholeInv`), and that an adopted bundle is past every step that
  would undo it (`AdoptionInv`).
- `BothPublicationsRefine`: every step of either protocol is a step of `AtomicPublication` or a stutter.
  For a management bundle `FilesInv` says where the bytes are: the originals are somewhere until the
  adoption (`DiskInv`), what the publisher remembers to have moved is where it moved it (`CarriedInv`),
  and the publisher (`PlacedInv`) and recovery (`ResumedInv`) come to their commit with every output in
  place; the second needs that an open row still has its evidence (`KeptInv`). For a download `ImportInv` has
  two workers at once. Each writes rows by a copy it has read, so `CopyInv` says what a copy still allows
  (`Undoes`), `AdoptionInv` that an adopted bundle has nobody left who would publish or undo it, `DiskInv`
  that nothing a bundle is made from is lost before the adoption, and `PublishInv` that a call comes to
  its commit with every file in place.
- `UndoneIsRestoredHolds`: a row that says rolled back is true of the files that no other program has
  touched. For a management bundle, `RestInv`: an original that is not where it was is at its backup, and
  at each point of the two roads back the row says which (`PointOf`); recovery that takes up a
  preparation finds that nothing has moved (`EarlyInv`, with `RowsInv`). For a download, without
  `stopInRestore`, the invariant of the same name: what is not yet restored is where a
  row in its state says (`SafeOf`, `PlacedOf`); a rollback knows whether the file was published, which is
  remembered only in memory (`WasOf`); a row that recovery read in the middle of a rollback, and writes
  without comparing revisions, was undone since or is set aside (`RereadOf`); and what a publisher holds for
  prepared is staged unless it is undone under it (`StagedOf`).
- `ClosedIsWholeHolds`, for a download, without `stopWhenOverruled`. `ClosedInv` says who will still close
  each row that is open once the bundle is not being published (`OpenInv`): the publisher that has it on its list,
  or recovery; that a bundle not begun has no rows (`BegunInv`), and an adopted one that is over no open
  ones (`DoneInv`). It needs to know when a worker's copy may be behind the row: only if the other has
  overtaken it (`StaleInv`).
- `BytesSurviveHolds`, without `writesWhereBackedUp`. `BytesInv` and, for a download, `ForeignInv` say
  where another program's bytes can be while the publisher moves files: not where the next
  rename goes, and in a temporary of the publisher's own only as a copy of the source.

`LibraryOperationsProofs`, for any jobs, sizes and batches and any bound on events:

- `StopIsHonouredHolds`, assuming no `controlOnSealed`. What a user asked is a field of a row that
  the worker looks at only at checkpoints, while recovery, faults and restarts move the row and
  the worker. `StopInv` follows it: a job that was asked and may still go on has its control pending
  (`AskedIsPending`); the worker is past a checkpoint, or a bundle is left for recovery to adopt,
  only if no effect has come since (`OneMore`). A checkpoint lets a job pass that is not running, so
  `HandRuns` says that a job in hand is, and no preview that a stop ends at once; `TornApplies` that a
  bundle belongs to a management job that applies; `SealedUnasked` that a preview the worker turns
  into an apply by itself is not asked, since that clears the control. Steps are grouped by what they do to
  rows: `Mild` ones, which set no job going and keep its control, are dealt with at once.
- `WakeupKeptHolds`: nearly inductive, since only the wait puts the loop to sleep.
- `CountersAgreeHolds`, `FinishedIsWholeHolds` and `OperationsTypeCorrect`, with no assumption on the
  instance. The counters are columns of the job, the work states are rows of their own, and recovery,
  retries and requeues write one or both. `CountInv` says of every job that the counters count its rows
  (`Tally`), what a state leaves undone (`Standing`) and what its phase says (`Phases`); it is inductive
  only with where work is: the one running subject of a job is the worker's (`InHandInv`), and a
  prepared bundle is in hand or in view of startup recovery (`TornInv`). That a counter stays within
  the size of its job follows from counting finite sets.

`IdentificationQueueProofs`, for any albums, policies, deferral caps and bounds on revisions and events:

- `QueueTypeCorrect`, with no assumption on the instance. `TypeInv` adds that the job a busy worker has
  in hand runs, which no scan, decision, sweep or recovery takes from it, and that a running job was
  claimed, so that an attempt given back leaves a number.
- `DecisionStandsHolds`, assuming none of `decisionMeetsWork`, `otherReview`, `policyWithdrawn`. Files
  and policy of an album then only move on. So every row, review and identity is of an input that lies
  `Below` the present one (`Past`), and a new input starts with no row and no review. An album has one
  decision at a time, and when its input has changed since, nothing has been made of the new one before
  that decision is resolved (`OneDecision`); otherwise the decision about an earlier input would be taken
  for one about the present. `Kept` says that an album kept as tagged has no identity and no job at work
  for as long as its input is what it was.
- `NothingForgottenHolds`, assuming none of `otherReview`, `policyWithdrawn`, `reviewOfMissing`,
  `graceRunsOut`: it holds with `decisionMeetsWork` and `flakyProvider`. The property is not inductive,
  since a job at work is no answer if its failure leaves none. `CareInv` counts only work whose failure
  would leave a review of the present files (`AtWork`), asks this also of an album with a row for
  its present input that has ended, since that row stops every further enqueue, and adds that an excluded album is
  barred and that the job a policy change makes is made once, before any review of that policy
  (`PolicyJobs`). Steps are grouped by what they do (`StepKinds`): most move rows only.

TLC checked `CareInv` on instances of three events before it was proved, and found there that
`policyWithdrawn` breaks `DecisionStands` too.

Only model-checked: all liveness (`DebtIsDischarged`, `BothSettle`, `JobsSettle`, `WorkEnds`,
`LockProgress`, `WalkEnds`, `ThreadEnds`, `RequestsEnd`), which the prover does not handle. Every other property of the
passing runs is a theorem.

## 5. Plan

Done: the modules above. To come, in this order:

1. `LibraryOperations`: repair jobs, undo and baseline jobs.
2. `DownloadTask`: the task's life cycle with retries, manual picks and request synchronisation.
3. `IdentificationQueue`: jobs of kind `review_retry`, albums of several tracks.
4. An abstract `CleanupDebt` (owed, discharged, set aside) that `AcquisitionJournal` implements.
5. `LibraryScan`: overlapping scopes of one run (`scope_expanded` steals inventory rows).

## 6. Not modelled

Metadata matching, scoring, tagging and naming (functions of text and numbers); read-only queries,
pages and caches; accounts, playlists, favourites and scrobbles (single transactions); external
services and plugins; the frontend. The reasons are with each component in PROJECT.json. These are
most of the source: the definitions stand for about one line in eighteen of the implementation,
nearly all of them where state is shared or survives. Of the
modelled parts, wall-clock time is only order (expired or not), and content of files is only equality.

Known and not covered by a property: the thread of a walk that was given up blocks for good when its
folder has more audio files than the queue has room for (`library_inventory_scanner.py:367`), which
`ThreadEnds` excepts as `Outgrown`; the heartbeat of a walk is touched while a folder is listed and
not while its files are put on the queue (`library_inventory_scanner.py:388`); a request that joins a
running scan raises its revision and makes the scanner's compare-and-swap fail
(`native_library_store.py:9332`); a request may join a run that is stopping (`:8216`); a track that moves
between walk and index (`:9688`); the 24 h retention may end while the bundle of a preserved row
waits for a person (`download_store.py:1449`); a stream of publications makes a scope be walked again
each time (`library_inventory_scanner.py:273`).
