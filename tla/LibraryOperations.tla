-------------------------- MODULE LibraryOperations --------------------------
(***************************************************************************)
(* The durable operations of the library (library_operation_jobs and       *)
(* library_operation_work): a bulk review, an explicit re-identification   *)
(* and a library management job with its preview and its apply.  One       *)
(* worker loop (run_target_operation_worker) claims them under a lease;    *)
(* users pause, stop, resume, apply and discard them meanwhile; a library  *)
(* scan holds them back; the process may stop between any two steps.       *)
(* Users commit a row and then wake the loop through DurableWorkWakeups.   *)
(*                                                                         *)
(* Each action is one transaction of the store, or one stretch of the loop *)
(* without one.  A worker works on a running job only if it has claimed it *)
(* itself, so lease_owner is not kept.  The publication of one album is    *)
(* what PublicationJournal models in full: here it is prepared, adopted    *)
(* and cleaned up, and torn records where it was interrupted.              *)
(***************************************************************************)
EXTENDS Naturals, FiniteSets

CONSTANTS
    Jobs,
    Kind,         \* Kind[j]: bulk_review_apply, explicit_reidentification, library_management
    Size,         \* Size[j]: its subjects
    BatchSize,    \* BULK_PREVIEW_BATCH_SIZE
    Automatic,    \* the management jobs whose origin is scan_discovered
    MaxEvents,    \* bound of an instance: how many controls, process stops, faults and scans
    JobCost,      \* there are in all, where the creation of a job counts as JobCost of them
    Admits        \* the circumstances of this instance

Kinds == {"bulk_review_apply", "explicit_reidentification", "library_management"}

Circumstances ==
    {"controlOnSealed"} \* a user asks for a pause or a stop after an automatic preview was
                        \* sealed and before the worker turns it into an apply

ASSUME OperationsAssumption ==
    /\ Kind \in [Jobs -> Kinds]
    /\ Size \in [Jobs -> Nat \ {0}]
    /\ \A j \in Jobs : Kind[j] = "explicit_reidentification" => Size[j] = 1
    /\ BatchSize \in Nat \ {0}
    /\ Automatic \subseteq {j \in Jobs : Kind[j] = "library_management"}
    /\ MaxEvents \in Nat /\ JobCost \in Nat \ {0}
    /\ Admits \subseteq Circumstances

VARIABLES
    job,      \* the rows of library_operation_jobs and of their snapshots
    work,     \* work[j][i]: the rows of library_operation_work
    torn,     \* torn[j]: the bundle whose journal rows are not terminal, and how far it got
    worker,   \* the loop: where it is, its job and item, the bundles recovery has yet to see
    wake,     \* the wakeups of kind operation: news since the revision read, the event
    untold,   \* commits whose notify has not run yet
    scanActive, \* BackgroundWorkloadGate.scan_active
    left,     \* what the bound leaves
    applied,  \* history: how often the effect of a subject was committed
    asked,    \* history: the jobs a user asked to pause or stop and has not set going again
    after     \* history: the effects each of them has had since

vars == <<job, work, torn, worker, wake, untold, scanActive, left, applied, asked, after>>

NoBundle == [item |-> 0, at |-> "none"]
Items(j) == 1 .. Size[j]
Bulk(j) == Kind[j] = "bulk_review_apply"
Reidentification(j) == Kind[j] = "explicit_reidentification"
Management(j) == Kind[j] = "library_management"

JobStates == {"absent", "queued", "running", "paused", "stopped", "ready", "succeeded", "failed", "cancelled"}
WorkStates == {"absent", "pending", "running", "succeeded", "failed", "skipped"}
Pcs == {"read", "recover", "bundles", "recovering", "claim", "wait", "asleep",
        "stageCheck", "stage", "check", "take", "apply", "commit", "clean", "finish",
        "evaluateTake", "evaluate", "halt", "record", "plan", "seal", "sealed", "automatic"}

TypeOK ==
    /\ job \in [Jobs -> [state : JobStates, control : {"none", "pause", "stop"},
                         lease : {"none", "live", "expired"}, retryable : BOOLEAN,
                         phase : {"none", "staging", "staged", "planning", "ready", "applying", "complete"},
                         completed : Nat, succeeded : Nat, failed : Nat, skipped : Nat]]
    /\ \A j \in Jobs :
          /\ work[j] \in [Items(j) -> WorkStates]
          /\ applied[j] \in [Items(j) -> Nat]
          /\ torn[j] \in [item : {0} \union Items(j), at : {"none", "prepared", "rollback", "committed"}]
          \* A lease is held exactly while the job runs, and no row runs in a queue.
          /\ job[j].lease = "none" <=> job[j].state # "running"
          /\ job[j].state \in {"queued", "paused"} => \A i \in Items(j) : work[j][i] # "running"
    /\ worker.pc \in Pcs /\ worker.todo \subseteq Jobs
    /\ wake \in [news : BOOLEAN, event : BOOLEAN]
    /\ untold \in Nat /\ scanActive \in BOOLEAN /\ asked \subseteq Jobs

Row(j) ==
    [state |-> "absent", control |-> "none", lease |-> "none", retryable |-> FALSE,
     phase |-> IF Bulk(j) THEN "staging" ELSE IF Management(j) THEN "planning" ELSE "none",
     completed |-> 0, succeeded |-> 0, failed |-> 0, skipped |-> 0]

SomeJob == CHOOSE j \in Jobs : TRUE
Idle == [pc |-> "read", job |-> SomeJob, item |-> 0, todo |-> {}, forced |-> FALSE, fresh |-> FALSE]

Init ==
    /\ job = [j \in Jobs |-> Row(j)]
    /\ work = [j \in Jobs |-> [i \in Items(j) |-> "absent"]]
    /\ torn = [j \in Jobs |-> NoBundle]
    /\ worker = Idle
    /\ wake = [news |-> FALSE, event |-> FALSE]
    /\ untold = 0 /\ scanActive = FALSE
    /\ left = MaxEvents
    /\ applied = [j \in Jobs |-> [i \in Items(j) |-> 0]]
    /\ asked = {} /\ after = [j \in Jobs |-> 0]

-----------------------------------------------------------------------------
(* Helpers *)

\* One more event of those the bound counts.
Happens == left > 0 /\ left' = left - 1

historyVars == <<applied, asked, after>>

At(pc) == worker.pc = pc

\* Between two jobs the loop remembers neither the job nor the subject it had.
Between == {"read", "recover", "bundles", "claim", "wait", "asleep"}
Moved(pc) == [worker EXCEPT !.pc = pc,
                            !.job = IF pc \in Between THEN SomeJob ELSE @,
                            !.item = IF pc = "commit" THEN @ ELSE 0]
Goes(pc) == worker' = Moved(pc)
J == worker.job
I == worker.item
Mine == job[J].state = "running"

Count(j, states) == Cardinality({i \in Items(j) : work[j][i] \in states})
Pending(j) == {i \in Items(j) : work[j][i] = "pending"}
Requeued(rows) == [i \in DOMAIN rows |-> IF rows[i] = "running" THEN "pending" ELSE rows[i]]
Released(row, state) == [row EXCEPT !.state = state, !.lease = "none"]

\* A user's commit; the notify that follows it has yet to run.
Tell == untold' = untold + 1

\* One more effect of subject i is in the library.
Effect(j, i) ==
    /\ applied' = [applied EXCEPT ![j][i] = @ + 1]
    /\ after' = IF j \in asked THEN [after EXCEPT ![j] = @ + 1] ELSE after
    /\ UNCHANGED asked

\* The row and the counters of a subject that is done, in one transaction.
Counted(row, state) ==
    [row EXCEPT !.completed = @ + 1,
                !.succeeded = IF state = "succeeded" THEN @ + 1 ELSE @,
                !.failed = IF state = "failed" THEN @ + 1 ELSE @,
                !.skipped = IF state = "skipped" THEN @ + 1 ELSE @]

Complete(j, i, state) ==
    /\ work' = [work EXCEPT ![j][i] = state]
    /\ job' = [job EXCEPT ![j] = Counted(@, state)]

\* checkpoint_operation_control of a job with a control: it leaves the worker.
Settle(j) ==
    /\ job' = [job EXCEPT ![j] = [Released(@, IF @.control = "pause" THEN "paused" ELSE "stopped")
                                  EXCEPT !.control = "none"]]
    /\ work' = [work EXCEPT ![j] = Requeued(@)]

\* finish_operation_job: the control stays as it is.
Finish(j, state) == job' = [job EXCEPT ![j] = [Released(@, state) EXCEPT !.retryable = FALSE]]

\* An exception ends the iteration: the loop waits, the job keeps its lease.
Fault ==
    /\ Happens
    /\ Goes("wait")

-----------------------------------------------------------------------------
(* Users *)

userVars == <<torn, wake, scanActive, applied>>

\* Every change raises the row_revision: the one the worker has read is stale.
Touched(j) == worker' = IF J = j THEN [worker EXCEPT !.fresh = FALSE] ELSE worker

\* create_reidentification_operation and the other creations: a bulk review is created
\* without its work, which is staged later; so is the preview of a management job.
Create(j) ==
    /\ job[j].state = "absent" /\ left >= JobCost
    /\ left' = left - JobCost
    /\ job' = [job EXCEPT ![j].state = "queued"]
    /\ work' = IF Reidentification(j) THEN [work EXCEPT ![j][1] = "pending"] ELSE work
    /\ Tell
    /\ UNCHANGED <<userVars, worker, asked, after>>

Controls(j) ==
    /\ Happens
    /\ j \in Automatic /\ At("sealed") /\ J = j => "controlOnSealed" \in Admits
    /\ Touched(j)
    /\ UNCHANGED userVars

\* The user's word on a job: from now on its effects are counted.
Ask(j) ==
    /\ asked' = asked \union {j}
    /\ after' = IF j \in asked THEN after ELSE [after EXCEPT ![j] = 0]

GoOn(j) == asked' = asked \ {j} /\ after' = [after EXCEPT ![j] = 0]

\* A preview whose worker let its lease run out while it was planning.
StalePlanningPreview(j) ==
    Management(j) /\ job[j].state = "running" /\ job[j].lease = "expired" /\ job[j].phase = "planning"

StopsAtOnce(j) ==
    \/ job[j].state \in {"queued", "paused"}
    \/ StalePlanningPreview(j)
    \/ Reidentification(j) /\ job[j].state = "ready"

Controllable(j) == job[j].state \notin {"absent", "succeeded", "cancelled", "stopped"}

\* request_operation_control
Pause(j) ==
    /\ Controllable(j) /\ Controls(j)
    /\ job' = [job EXCEPT ![j].control = "pause"]
    /\ Ask(j)
    /\ UNCHANGED <<work, untold>>

Stop(j) ==
    /\ Controllable(j) /\ Controls(j)
    /\ job' = [job EXCEPT ![j] = IF StopsAtOnce(j)
                                 THEN [Released(@, "stopped") EXCEPT !.control = "none"]
                                 ELSE [@ EXCEPT !.control = "stop"]]
    /\ Ask(j)
    /\ UNCHANGED <<work, untold>>

\* The row of a job that starts again from failed: succeeded_count and skipped_count stay.
Restarted(row) == [row EXCEPT !.completed = 0, !.failed = 0]

\* A job that has not been paused, stopped or refused by a provider is left as it is: a
\* resume does not take back a control that is still pending.
Resume(j) ==
    LET row == job[j]
        again == [row EXCEPT !.state = "queued", !.control = "none", !.retryable = FALSE]
    IN
    /\ row.state \in {"paused", "stopped"} \/ (row.state = "failed" /\ row.retryable)
    /\ Controls(j)
    /\ IF Reidentification(j) /\ row.state = "stopped"
       THEN /\ job' = [job EXCEPT ![j] = [again EXCEPT !.completed = 0, !.succeeded = 0,
                                                       !.failed = 0, !.skipped = 0]]
            /\ work' = [work EXCEPT ![j][1] = "pending"]
       ELSE IF row.state = "failed"
       THEN /\ job' = [job EXCEPT ![j] = Restarted(again)]
            /\ work' = [work EXCEPT ![j] = [i \in Items(j) |->
                           IF @[i] \in {"failed", "running"} THEN "pending" ELSE @[i]]]
       ELSE /\ job' = [job EXCEPT ![j] = again]
            /\ UNCHANGED work
    /\ GoOn(j)
    /\ Tell

Ready(j) == job[j].state = "ready"

\* accept_reidentification_candidate (leaving the album of a succeeded job unmanaged
\* leaves its row succeeded).
Accept(j) ==
    /\ Reidentification(j) /\ Ready(j)
    /\ job' = [job EXCEPT ![j].state = "succeeded"]
    /\ Touched(j)
    /\ UNCHANGED <<userVars, work, untold, left, asked, after>>

\* discard_library_management_preview
Discard(j) ==
    /\ Management(j) /\ Ready(j) /\ job[j].phase = "ready"
    /\ job' = [job EXCEPT ![j].state = "cancelled", ![j].control = "none"]
    /\ Touched(j)
    /\ UNCHANGED <<userVars, work, untold, left, asked, after>>

\* begin_library_management_apply: the preview becomes the apply, and a control that was
\* asked of the preview is gone.
BeginApply(j) ==
    /\ Management(j) /\ Ready(j) /\ job[j].phase = "ready"
    /\ job' = [job EXCEPT ![j].state = "queued", ![j].control = "none", ![j].phase = "applying"]
    /\ work' = [work EXCEPT ![j] = [i \in Items(j) |-> "pending"]]
    /\ Tell

Apply(j) ==
    /\ BeginApply(j)
    /\ GoOn(j)
    /\ Touched(j)
    /\ UNCHANGED <<userVars, left>>

-----------------------------------------------------------------------------
(* The loop: wakeups, leases, recovery and claims *)

loopVars == <<scanActive, left, applied, asked, after>>

\* notify, after the write: the revision moves and the event is set.
Notify ==
    /\ untold > 0
    /\ untold' = untold - 1
    /\ wake' = [news |-> TRUE, event |-> TRUE]
    /\ UNCHANGED <<job, work, torn, worker, loopVars>>

ReadRevision ==
    /\ At("read")
    /\ wake' = [wake EXCEPT !.news = FALSE]
    /\ Goes("recover")
    /\ UNCHANGED <<job, work, torn, untold, loopVars>>

\* Mutant of Expired: a job with a control pending is passed over.
ExpiredUncontrolled(j) ==
    job[j].state = "running" /\ job[j].lease = "expired" /\ job[j].control = "none"

Expired(j) == job[j].state = "running" /\ job[j].lease = "expired"

\* Mutant of Reclaimed: the rows that ran are forgotten.
ReclaimedJobOnly(rows) == rows

Reclaimed(rows) == Requeued(rows)

\* recover_expired_operation_leases
RecoverLeases ==
    /\ At("recover")
    /\ job' = [j \in Jobs |-> IF Expired(j) THEN Released(job[j], "queued") ELSE job[j]]
    /\ work' = [j \in Jobs |-> IF Expired(j) THEN Reclaimed(work[j]) ELSE work[j]]
    /\ worker' = [worker EXCEPT !.pc = "bundles", !.forced = FALSE,
                                !.todo = {j \in Jobs : torn[j] # NoBundle}]
    /\ UNCHANGED <<torn, wake, untold, loopVars>>

\* Mutant of FailBundle: a subject that was done before is counted again.
FailBundleTwice(j, i) ==
    /\ work' = [work EXCEPT ![j][i] = IF @ \in {"pending", "running"} THEN "failed" ELSE @]
    /\ job' = [job EXCEPT ![j] = [Counted(Released(@, "failed"), "failed") EXCEPT !.retryable = FALSE]]

\* fail_management_bundle_recovery, whatever the job's state is.
FailBundle(j, i) ==
    LET active == work[j][i] \in {"pending", "running"} IN
    /\ work' = IF active THEN [work EXCEPT ![j][i] = "failed"] ELSE work
    /\ job' = [job EXCEPT ![j] = LET row == [Released(@, "failed") EXCEPT !.retryable = FALSE]
                                 IN  IF active THEN Counted(row, "failed") ELSE row]

\* What becomes of a recovered job: finished if all its subjects are (with their rows rows).
Outcome(rows, otherwise) ==
    IF \E i \in DOMAIN rows : rows[i] \in {"pending", "running"} THEN otherwise
    ELSE IF \E i \in DOMAIN rows : rows[i] = "failed" THEN "failed" ELSE "succeeded"

\* settle_management_recovery_job
SettledBundle(j) ==
    LET state == Outcome(work[j], "active") IN
    job' = IF state # "active" /\ job[j].state \in {"queued", "running"}
           THEN [job EXCEPT ![j] = Released(@, state)] ELSE job

Done(j) == worker' = [Moved("bundles") EXCEPT !.todo = @ \ {j}]
Mended(j) == torn' = [torn EXCEPT ![j] = NoBundle]
recoveryVars == <<wake, untold, loopVars>>

\* _recover_committed_bundle: the cleanup is finished, or a person has to look.
RecoverCommitted(j) ==
    /\ At("bundles") /\ j \in worker.todo /\ torn[j].at = "committed"
    /\ \/ SettledBundle(j) /\ UNCHANGED work
       \/ FailBundle(j, torn[j].item)
    /\ Mended(j) /\ Done(j)
    /\ UNCHANGED recoveryVars

\* _compensate_bundle: a rollback that had begun, or a job nobody will go on with.
Compensate(j) ==
    /\ At("bundles") /\ j \in worker.todo
    /\ \/ torn[j].at = "rollback"
       \/ torn[j].at = "prepared" /\ job[j].state \in {"paused", "stopped", "failed", "cancelled", "succeeded"}
    /\ FailBundle(j, torn[j].item)
    /\ Mended(j) /\ Done(j)
    /\ UNCHANGED recoveryVars

\* claim_management_bundle_for_recovery: at startup also under a lease that still runs.
ClaimBundle(j) ==
    /\ At("bundles") /\ j \in worker.todo /\ torn[j].at = "prepared"
    /\ \/ /\ job[j].state = "queued" \/ Expired(j) \/ (job[j].state = "running" /\ worker.forced)
          /\ work[j][torn[j].item] \in {"pending", "running"}
          /\ job' = [job EXCEPT ![j].state = "running", ![j].lease = "live"]
          /\ work' = [work EXCEPT ![j][torn[j].item] = "running"]
          /\ worker' = [worker EXCEPT !.pc = "recovering", !.job = j, !.item = torn[j].item]
       \/ /\ job[j].state = "running" /\ job[j].lease = "live" /\ ~worker.forced
          /\ Done(j)
          /\ UNCHANGED <<job, work>>
    /\ UNCHANGED <<torn, recoveryVars>>

\* The bundle is adopted (_resume_prepared_bundle, _finish_published_bundle) ...
RecoverAdopts ==
    LET rows == [work[J] EXCEPT ![I] = "succeeded"] IN
    /\ At("recovering")
    /\ work' = [work EXCEPT ![J] = rows]
    /\ job' = [job EXCEPT ![J] = Released(Counted(@, "succeeded"), Outcome(rows, "queued"))]
    /\ Effect(J, I)
    /\ Mended(J) /\ Done(J)
    /\ UNCHANGED <<wake, untold, scanActive, left>>

\* ... or taken back, or left to a person.
RecoverFails ==
    /\ At("recovering")
    /\ FailBundle(J, I)
    /\ Mended(J) /\ Done(J)
    /\ UNCHANGED recoveryVars

\* recover_once has seen every bundle; after recover_startup the loop begins.
RecoveryEnds ==
    /\ At("bundles") /\ worker.todo = {}
    /\ Goes(IF worker.forced THEN "read" ELSE "claim")
    /\ UNCHANGED <<job, work, torn, recoveryVars>>

\* The kinds run_once tries, in this order.
Rank(j) == IF Management(j) THEN 1 ELSE IF Reidentification(j) THEN 2 ELSE 3
Claimable(j) == job[j].state = "queued" /\ (scanActive => Bulk(j))

FirstStep(j) ==
    IF Reidentification(j) THEN "evaluateTake"
    ELSE IF Bulk(j) THEN "stageCheck"
    ELSE IF job[j].phase = "planning" THEN "plan" ELSE "check"

\* claim_operation_job, in any order within a kind.
ClaimJob(j) ==
    /\ At("claim") /\ Claimable(j)
    /\ \A k \in Jobs : Claimable(k) => Rank(j) <= Rank(k)
    /\ job' = [job EXCEPT ![j].state = "running", ![j].lease = "live"]
    /\ worker' = [worker EXCEPT !.pc = FirstStep(j), !.job = j, !.item = 0]
    /\ UNCHANGED <<work, torn, wake, untold, loopVars>>

ClaimNothing ==
    /\ At("claim") /\ \A j \in Jobs : ~Claimable(j)
    /\ Goes("wait")
    /\ UNCHANGED <<job, work, torn, wake, untold, loopVars>>

\* Mutant of Wait: the event is cleared before anything else.
WaitUnread ==
    /\ At("wait")
    /\ wake' = [wake EXCEPT !.event = FALSE]
    /\ Goes("asleep")
    /\ UNCHANGED <<job, work, torn, untold, loopVars>>

\* wait, up to event.wait(): nothing else of the loop's thread runs in between.
Wait ==
    /\ At("wait")
    /\ IF wake.news THEN Goes("read") /\ UNCHANGED wake
       ELSE Goes("asleep") /\ wake' = [wake EXCEPT !.event = FALSE]
    /\ UNCHANGED <<job, work, torn, untold, loopVars>>

\* The event, or the timeout (37 s, or 1 s after a fault).
Wakes ==
    /\ At("asleep")
    /\ Goes("read")
    /\ UNCHANGED <<job, work, torn, wake, untold, loopVars>>

-----------------------------------------------------------------------------
(* A bulk review: run_bulk_claimed *)

stepVars == <<torn, wake, untold, scanActive>>

\* checkpoint_operation_control: a control takes the job from the worker.
CheckpointAt(pc, next) ==
    /\ At(pc)
    /\ IF job[J].control # "none" /\ Mine
       THEN Settle(J) /\ Goes("read")
       ELSE Goes(next) /\ UNCHANGED <<job, work>>
    /\ UNCHANGED <<stepVars, left, historyVars>>

\* Mutant of Checkpoint: the control is not looked at.
CheckpointUnread ==
    At("check") /\ Goes("take") /\ UNCHANGED <<job, work, stepVars, left, historyVars>>

StageCheckpoint == CheckpointAt("stageCheck", "stage")
Checkpoint == CheckpointAt("check", "take")

\* Mutant of LastBatch: the page is not read one row further than the batch.
LastBatchUnread(staged) == TRUE

\* len(rows) <= limit, when staged rows have been inserted before.
LastBatch(staged) == Size[J] - staged <= BatchSize

\* stage_bulk_review_operation_batch
Stage ==
    LET staged == Cardinality({i \in Items(J) : work[J][i] # "absent"})
        last == job[J].phase = "staged" \/ LastBatch(staged)
    IN
    /\ At("stage")
    /\ work' = IF job[J].phase = "staged" THEN work
               ELSE [work EXCEPT ![J] = [i \in Items(J) |->
                        IF staged < i /\ i <= staged + BatchSize THEN "pending" ELSE @[i]]]
    /\ job' = IF last THEN [job EXCEPT ![J].phase = "staged"] ELSE job
    /\ Goes(IF last THEN "check" ELSE "stageCheck")
    /\ UNCHANGED <<stepVars, left, historyVars>>

\* claim_operation_work: the first pending subject, of a bulk review or of an apply.
TakeWork ==
    LET first == CHOOSE i \in Pending(J) : \A k \in Pending(J) : i <= k IN
    /\ At("take")
    /\ IF Pending(J) = {} THEN Goes("finish") /\ UNCHANGED work
       ELSE /\ work' = [work EXCEPT ![J][first] = "running"]
            /\ worker' = [worker EXCEPT !.pc = "apply", !.item = first]
    /\ UNCHANGED <<job, stepVars, left, historyVars>>

\* apply_bulk_review_work: the decision, the row and the counters in one transaction.  A
\* retry also queues a re-identification; the loop looks for work again before it waits.
ApplyReview ==
    /\ At("apply") /\ Bulk(J)
    /\ \/ \E state \in {"failed", "skipped"} : Complete(J, I, state) /\ UNCHANGED historyVars
       \/ Complete(J, I, "succeeded") /\ Effect(J, I)
    /\ Goes("check")
    /\ UNCHANGED <<stepVars, left>>

ApplyFaults ==
    /\ At("apply") /\ Bulk(J)
    /\ Fault
    /\ UNCHANGED <<job, work, stepVars, historyVars>>

FinishBulk ==
    /\ At("finish") /\ Bulk(J)
    /\ Finish(J, "succeeded")
    /\ Goes("read")
    /\ UNCHANGED <<work, stepVars, left, historyVars>>

-----------------------------------------------------------------------------
(* A re-identification: ExplicitReidentificationWorker.run_claimed *)

\* The subject may be gone or changed since the job was created: the job fails, and its
\* row stays as it is.
TakeEvaluation ==
    /\ At("evaluateTake")
    /\ IF work[J][1] = "pending"
       THEN work' = [work EXCEPT ![J][1] = "running"] /\ Goes("evaluate") /\ UNCHANGED job
       ELSE Finish(J, "failed") /\ Goes("read") /\ UNCHANGED work
    /\ UNCHANGED <<stepVars, left, historyVars>>

EvaluateStale ==
    /\ At("evaluate")
    /\ Finish(J, "failed")
    /\ Goes("read")
    /\ UNCHANGED <<work, stepVars, left, historyVars>>

\* The checkpoints between the provider calls; a provider error skips those that follow.
Evaluate ==
    /\ At("evaluate")
    /\ \/ (scanActive \/ job[J].control # "none") /\ Goes("halt")
       \/ Goes("record")
    /\ UNCHANGED <<job, work, stepVars, left, historyVars>>

\* halt: what was refused may have been withdrawn; the job then stays with its lease.
Halt ==
    /\ At("halt")
    /\ IF scanActive
       THEN /\ job' = [job EXCEPT ![J] = Released(@, "queued")]
            /\ work' = [work EXCEPT ![J] = Requeued(@)]
       ELSE IF job[J].control # "none" THEN Settle(J) ELSE UNCHANGED <<job, work>>
    /\ Goes("read")
    /\ UNCHANGED <<stepVars, left, historyVars>>

\* finish_reidentification_evaluation: candidates, none, or no provider.
Record ==
    /\ At("record")
    /\ \E state \in {"ready", "succeeded", "failed"} :
          LET outcome == IF state = "failed" THEN "failed" ELSE "succeeded" IN
          /\ work' = [work EXCEPT ![J][1] = outcome]
          /\ job' = [job EXCEPT ![J] =
                [Released(@, state) EXCEPT
                    !.retryable = (state = "failed"), !.completed = 1,
                    !.succeeded = IF outcome = "succeeded" THEN 1 ELSE 0,
                    !.failed = IF outcome = "failed" THEN 1 ELSE 0]]
    /\ Goes("read")
    /\ UNCHANGED <<stepVars, left, historyVars>>

\* The album changed during the evaluation: StaleRevisionError, which nobody takes.
RecordFaults ==
    /\ At("record")
    /\ Fault
    /\ UNCHANGED <<job, work, stepVars, historyVars>>

-----------------------------------------------------------------------------
(* A management job: run_claimed_preview, then _run_apply *)

\* The lease was lost to a stop of the stale preview: every write of the planner fails,
\* and so does the finish_operation_job that reports it.
PlanLost ==
    /\ worker.pc \in {"plan", "seal"} /\ ~Mine
    /\ Goes("wait")
    /\ UNCHANGED <<job, work, stepVars, left, historyVars>>

\* heartbeat_operation_job, while an album is planned.
Renew ==
    /\ At("plan") /\ Expired(J)
    /\ job' = [job EXCEPT ![J].lease = "live"]
    /\ UNCHANGED <<work, worker, stepVars, left, historyVars>>

\* One pass of the planning loop: defer for a scan, settle a control, fail on settings or
\* rows that have changed, or have the last page planned.
Plan ==
    /\ At("plan") /\ Mine
    /\ \/ /\ scanActive
          /\ job' = [job EXCEPT ![J] = Released(@, "queued")]
          /\ Goes("read") /\ UNCHANGED work
       \/ /\ ~scanActive /\ job[J].control # "none"
          /\ Settle(J) /\ Goes("read")
       \/ /\ ~scanActive /\ job[J].control = "none"
          /\ Finish(J, "failed") /\ Goes("read") /\ UNCHANGED work
       \/ /\ ~scanActive /\ job[J].control = "none"
          /\ Goes("seal") /\ UNCHANGED <<job, work>>
    /\ UNCHANGED <<stepVars, left, historyVars>>

\* _seal_preview: a control that came since the last checkpoint makes the job fail.
Seal ==
    /\ At("seal") /\ Mine
    /\ IF job[J].control = "none"
       THEN /\ job' = [job EXCEPT ![J] = [Released(@, "ready") EXCEPT !.phase = "ready"]]
            /\ Goes(IF J \in Automatic THEN "sealed" ELSE "read")
       ELSE Finish(J, "failed") /\ Goes("read")
    /\ UNCHANGED <<work, stepVars, left, historyVars>>

\* The row is read again; fresh is its row_revision.  A plan with blocked or stale items
\* waits for a user.
ReadSealed ==
    /\ At("sealed")
    /\ \/ worker' = [worker EXCEPT !.pc = "automatic", !.fresh = TRUE]
       \/ Goes("read")
    /\ UNCHANGED <<job, work, stepVars, left, historyVars>>

\* begin_library_management_apply of the worker: any change since the row was read, also a
\* control, makes it stale.
ApplyAutomatically ==
    /\ At("automatic")
    /\ worker' = [Moved("read") EXCEPT !.fresh = FALSE]
    /\ IF worker.fresh /\ Ready(J) /\ job[J].phase = "ready" THEN BeginApply(J)
       ELSE UNCHANGED <<job, work, untold>>
    /\ UNCHANGED <<torn, wake, scanActive, left, historyVars>>

TornAt(at) == torn' = [torn EXCEPT ![J] = [item |-> I, at |-> at]]

\* publish_bundle refuses before it has written anything, or has files prepared.
Publish ==
    /\ At("apply") /\ Management(J)
    /\ \/ /\ \E state \in {"failed", "skipped"} : Complete(J, I, state)
          /\ Goes("check") /\ UNCHANGED torn
       \/ /\ TornAt("prepared")
          /\ Goes("commit") /\ UNCHANGED <<job, work>>
    /\ UNCHANGED <<wake, untold, scanActive, left, historyVars>>

\* commit_library_management_bundle
Commit ==
    /\ At("commit")
    /\ Complete(J, I, "succeeded")
    /\ TornAt("committed")
    /\ Effect(J, I)
    /\ Goes("clean")
    /\ UNCHANGED <<wake, untold, scanActive, left>>

\* A failure under the leases: rolled back, or left as rollback_pending for recovery.
Rollback ==
    /\ At("commit") /\ Happens
    /\ \E state \in {"failed", "skipped"} : Complete(J, I, state)
    /\ \/ torn' = [torn EXCEPT ![J] = NoBundle]
       \/ TornAt("rollback")
    /\ Goes("check")
    /\ UNCHANGED <<wake, untold, scanActive, historyVars>>

\* The cleanup; one that fails is left to recovery, for the subject has succeeded.
Clean ==
    /\ At("clean")
    /\ \/ torn' = [torn EXCEPT ![J] = NoBundle] /\ UNCHANGED left
       \/ /\ Happens
          /\ UNCHANGED torn
    /\ Goes("check")
    /\ UNCHANGED <<job, work, wake, untold, scanActive, historyVars>>

\* finish_library_management_apply
FinishApply ==
    /\ At("finish") /\ Management(J)
    /\ IF Count(J, {"pending", "running"}) = 0
       THEN /\ job' = [job EXCEPT ![J] = [Released(@, "succeeded") EXCEPT !.phase = "complete"]]
            /\ Goes("read")
       ELSE Goes("wait") /\ UNCHANGED job
    /\ UNCHANGED <<work, stepVars, left, historyVars>>

-----------------------------------------------------------------------------
(* The surroundings *)

\* The worker has the job in hand, and nobody looks at its lease (a stop does, while a
\* preview is planned).
InHand(j) ==
    J = j /\ worker.pc \notin Between \union {"plan", "seal"}

\* Time passes over a lease, whether its worker lives or not; of a job in hand it matters
\* only when the worker has left it.
LeaseExpires(j) ==
    /\ job[j].lease = "live" /\ ~InHand(j)
    /\ job' = [job EXCEPT ![j].lease = "expired"]
    /\ UNCHANGED <<work, torn, worker, wake, untold, loopVars>>

\* LibraryScanCoordinator.run_once
ScanBegins ==
    /\ ~scanActive /\ Happens
    /\ scanActive' = TRUE
    /\ UNCHANGED <<job, work, torn, worker, wake, untold, historyVars>>

ScanEnds ==
    /\ scanActive
    /\ scanActive' = FALSE
    /\ UNCHANGED <<job, work, torn, worker, wake, untold, left, historyVars>>

\* The process stops and starts again: startup recovery sees every bundle, under any lease.
Restart ==
    /\ Happens
    /\ worker' = [Idle EXCEPT !.pc = "bundles", !.forced = TRUE,
                              !.todo = {j \in Jobs : torn[j] # NoBundle}]
    /\ wake' = [news |-> FALSE, event |-> FALSE]
    /\ untold' = 0 /\ scanActive' = FALSE
    /\ UNCHANGED <<job, work, torn, historyVars>>

-----------------------------------------------------------------------------
UserStep(j) == Create(j) \/ Pause(j) \/ Stop(j) \/ Resume(j) \/ Accept(j) \/ Discard(j) \/ Apply(j)

RecoveryStep(j) == RecoverCommitted(j) \/ Compensate(j) \/ ClaimBundle(j)

LoopStep ==
    \/ ReadRevision \/ RecoverLeases \/ RecoverAdopts \/ RecoverFails \/ RecoveryEnds
    \/ \E j \in Jobs : RecoveryStep(j) \/ ClaimJob(j)
    \/ ClaimNothing \/ Wait \/ Wakes

WorkStep ==
    \/ StageCheckpoint \/ Stage \/ Checkpoint \/ TakeWork \/ ApplyReview \/ ApplyFaults \/ FinishBulk
    \/ TakeEvaluation \/ EvaluateStale \/ Evaluate \/ Halt \/ Record \/ RecordFaults
    \/ PlanLost \/ Plan \/ Seal \/ ReadSealed \/ ApplyAutomatically
    \/ Publish \/ Commit \/ Rollback \/ Clean \/ FinishApply

Surroundings == (\E j \in Jobs : LeaseExpires(j)) \/ ScanBegins \/ ScanEnds \/ Restart

Next ==
    \/ \E j \in Jobs : UserStep(j)
    \/ Notify \/ LoopStep \/ WorkStep \/ Renew \/ Surroundings

Spec == Init /\ [][Next]_vars

\* The loop's coroutine runs whenever it can, its waits time out, leases run out and scans
\* end.  Users owe nothing, and a heartbeat is never in time.
FairSpec ==
    /\ Spec
    /\ WF_vars(LoopStep \/ WorkStep) /\ WF_vars(Notify) /\ WF_vars(ScanEnds)
    /\ \A j \in Jobs : WF_vars(LeaseExpires(j))

-----------------------------------------------------------------------------
(* Properties *)

Terminal == {"succeeded", "failed", "skipped"}

\* The counters a user sees, the rows and what was done to the library agree, whatever was
\* interrupted, recovered, compensated, stopped or started again in between: no subject is
\* applied twice, and none is counted twice or not at all.
CountersAgree ==
    \A j \in Jobs :
        /\ job[j].completed = Count(j, Terminal)
        /\ job[j].succeeded = Count(j, {"succeeded"})
        /\ job[j].failed = Count(j, {"failed"})
        /\ job[j].skipped = Count(j, {"skipped"})
        /\ ~Reidentification(j) =>
              \A i \in Items(j) : applied[j][i] = IF work[j][i] = "succeeded" THEN 1 ELSE 0

\* A job that reports success has dealt with every subject it was created for: a bulk
\* review is staged in batches, and claim_operation_work says None both when nothing is
\* left and when the job is not its worker's any more.
FinishedIsWhole ==
    \A j \in Jobs : job[j].state = "succeeded" => \A i \in Items(j) : work[j][i] \in Terminal

\* After a pause or a stop was accepted, at most the subject in hand is still applied, by
\* the worker or by the recovery of what it left, until the user sets the job going again.
StopIsHonoured == \A j \in Jobs : after[j] <= 1

\* No wakeup is lost between an empty claim and the wait: if a notify came after the loop
\* read the revision, the loop does not sleep on a cleared event.
WakeupKept == At("asleep") /\ wake.news => wake.event

\* Every job that is queued or running comes to rest, through faults, scans, lost leases
\* and restarts, and so every pause or stop of such a job is answered.
JobsSettle == \A j \in Jobs : job[j].state \in {"queued", "running"} ~> job[j].state \notin {"queued", "running"}
=============================================================================
