---------------------- MODULE LibraryOperationsProofs ----------------------
(***************************************************************************)
(* Proofs about LibraryOperations, for any jobs of any sizes and any bound *)
(* on events: after a user has asked a job to pause or to stop, at most    *)
(* the subject in hand is applied; the loop never sleeps on a wakeup; a    *)
(* job's counters always agree with its work rows; a finished job has no   *)
(* work left over; and every variable keeps its type. Only the first       *)
(* assumes something of Admits: that nobody asks between the seal of an    *)
(* automatic preview and its apply (controlOnSealed), which clears what    *)
(* was asked.                                                              *)
(*                                                                         *)
(* What is asked is a field of a row that many steps write, and the worker *)
(* looks at it only at checkpoints. The invariant follows it: a job that   *)
(* was asked and may still run has its control pending (AskedIsPending);   *)
(* the worker is past a checkpoint, or recovery has a bundle to adopt,     *)
(* only if no effect has come since (OneMore), which needs that a job in   *)
(* hand is running (HandRuns), or a checkpoint would let it pass.          *)
(*                                                                         *)
(* The counters are columns of the job's row and the work states are rows  *)
(* of their own, written together by some steps and apart by others.       *)
(* CountInv relates them for every job (Tally), bounds what a running and  *)
(* a finished job may have left (Standing) and what its phase says         *)
(* (Phases); it is inductive only with two facts about where work is: the  *)
(* one running subject of a job is the worker's (InHandInv), and a         *)
(* prepared bundle is the one in hand or one that startup recovery will    *)
(* see (TornInv).                                                          *)
(***************************************************************************)
EXTENDS LibraryOperations, FiniteSetTheorems, TLAPS

JobRow == [state : JobStates, control : {"none", "pause", "stop"},
           lease : {"none", "live", "expired"}, retryable : BOOLEAN,
           phase : {"none", "staging", "staged", "planning", "ready", "applying", "complete"},
           completed : Nat, succeeded : Nat, failed : Nat, skipped : Nat]

WorkerShape ==
    /\ DOMAIN worker = {"pc", "job", "item", "todo", "forced", "fresh"}
    /\ worker.pc \in Pcs /\ worker.fresh \in BOOLEAN
    /\ worker.pc \notin Between => worker.job \in Jobs
    /\ worker.todo \subseteq Jobs

Shape ==
    /\ job \in [Jobs -> JobRow]
    /\ DOMAIN torn = Jobs
    /\ after \in [Jobs -> Nat] /\ asked \subseteq Jobs
    /\ WorkerShape

Going == {"queued", "running"}

\* Where the worker has passed the checkpoint and an effect may come.
Doing == {"take", "apply", "commit", "recovering"}

\* Where the worker has a claimed job that is not a preview.
Hand == Doing \union {"stageCheck", "stage", "check", "clean", "finish",
                      "evaluateTake", "evaluate", "halt", "record"}

NotPlanning(j) == Management(j) => job[j].phase # "planning"

\* What is asked is said of instances in which no control comes between seal and apply.
Undisturbed == "controlOnSealed" \notin Admits

AskedIsPending ==
    Undisturbed => \A j \in asked :
        /\ job[j].state # "absent"
        /\ job[j].state \in Going => job[j].control # "none"

OneMore ==
    Undisturbed => \A j \in Jobs :
        /\ j \notin asked => after[j] = 0
        /\ after[j] <= 1
        /\ after[j] # 0 => torn[j].at # "prepared" /\ ~(worker.pc \in Doing /\ worker.job = j)

HandRuns == worker.pc \in Hand => job[worker.job].state = "running" /\ NotPlanning(worker.job)

TornApplies ==
    /\ \A j \in Jobs : torn[j].at # "none" => Management(j) /\ NotPlanning(j)
    /\ worker.pc = "commit" => Management(worker.job)

SealedUnasked == Undisturbed =>
    /\ worker.pc = "sealed" => worker.job \in Automatic /\ worker.job \notin asked
    /\ worker.pc = "automatic" /\ worker.fresh => worker.job \notin asked

StopInv == Shape /\ AskedIsPending /\ OneMore /\ HandRuns /\ TornApplies /\ SealedUnasked

-----------------------------------------------------------------------------
(* Rows and the worker *)

LEMMA ReleasedRow ==
    ASSUME NEW row \in JobRow, NEW state \in JobStates
    PROVE  /\ Released(row, state) \in JobRow
           /\ Released(row, state).state = state
           /\ Released(row, state).control = row.control
           /\ Released(row, state).phase = row.phase
BY DEF Released, JobRow

LEMMA CountedRow ==
    ASSUME NEW row \in JobRow, NEW state
    PROVE  /\ Counted(row, state) \in JobRow
           /\ Counted(row, state).state = row.state
           /\ Counted(row, state).control = row.control
           /\ Counted(row, state).phase = row.phase
<1> DEFINE done == row.completed + 1
           good == IF state = "succeeded" THEN row.succeeded + 1 ELSE row.succeeded
           bad == IF state = "failed" THEN row.failed + 1 ELSE row.failed
           other == IF state = "skipped" THEN row.skipped + 1 ELSE row.skipped
<1>1. done \in Nat /\ good \in Nat /\ bad \in Nat /\ other \in Nat
  BY DEF JobRow
<1>2. Counted(row, state) = [row EXCEPT !.completed = done, !.succeeded = good,
                                        !.failed = bad, !.skipped = other]
  BY DEF Counted
<1> HIDE DEF done, good, bad, other
<1> QED BY <1>1, <1>2 DEF JobRow

LEMMA ClaimedRow ==
    ASSUME NEW row \in JobRow
    PROVE  LET claimed == [row EXCEPT !.state = "running", !.lease = "live"] IN
           /\ claimed \in JobRow /\ claimed.state = "running"
           /\ claimed.control = row.control /\ claimed.phase = row.phase
BY DEF JobRow, JobStates

\* One row is written, the others stay.
LEMMA RowWritten ==
    ASSUME job \in [Jobs -> JobRow], NEW j \in Jobs, NEW row \in JobRow,
           job' = [job EXCEPT ![j] = row]
    PROVE  /\ job' \in [Jobs -> JobRow]
           /\ job'[j] = row
           /\ \A k \in Jobs : k # j => job'[k] = job[k]
OBVIOUS

LEMMA WorkerMoved ==
    ASSUME WorkerShape, NEW pc \in Pcs, worker.pc \notin Between \/ pc \in Between, worker' = Moved(pc)
    PROVE  /\ WorkerShape' /\ worker'.pc = pc
           /\ worker'.fresh = worker.fresh
           /\ pc \notin Between => worker'.job = worker.job
BY DEF WorkerShape, Moved, Between

\* A user's change makes what the worker has read stale, and nothing else.
LEMMA WorkerTouched ==
    ASSUME WorkerShape, NEW j \in Jobs, Touched(j)
    PROVE  /\ WorkerShape' /\ worker'.pc = worker.pc /\ worker'.job = worker.job
           /\ worker'.fresh => worker.fresh /\ worker.job # j
BY DEF WorkerShape, Touched, J

-----------------------------------------------------------------------------
(* Steps that keep the invariant whatever they do *)

\* What nearly every step but a user's does to the rows: it sets no job going, keeps what
\* was asked of one that goes on, and takes none back to its planning.
Mild ==
    \A j \in Jobs :
        /\ job'[j].state \in Going => job[j].state \in Going /\ job'[j].control = job[j].control
        /\ job'[j].phase = "planning" => job[j].phase = "planning"
        /\ job[j].state # "absent" => job'[j].state # "absent"

TornKept ==
    \A j \in Jobs :
        /\ torn'[j].at = "prepared" => torn[j].at = "prepared"
        /\ torn'[j].at # "none" => torn[j].at # "none" \/ (Management(j) /\ NotPlanning(j))

\* The worker leaves its job, or takes one to stage, plan or wait.
LEMMA LetGo ==
    ASSUME StopInv, Shape', Mild, TornKept, UNCHANGED <<asked, after>>,
           worker'.pc \notin Hand \union {"sealed", "automatic"}
    PROVE  StopInv'
<1>1. AskedIsPending'
  BY DEF StopInv, Shape, Mild, AskedIsPending
<1>2. OneMore'
  BY DEF StopInv, TornKept, OneMore, Hand
<1>3. HandRuns' /\ SealedUnasked'
  BY DEF HandRuns, SealedUnasked
<1>4. TornApplies'
  BY DEF StopInv, Mild, TornKept, TornApplies, NotPlanning, Hand, Doing
<1> QED BY <1>1, <1>2, <1>3, <1>4 DEF StopInv

\* The worker has a running job in its hand, and has passed a checkpoint only if it may.
LEMMA Holds ==
    ASSUME StopInv, Shape', Mild, TornKept, UNCHANGED <<asked, after>>, worker'.pc \in Hand \ {"commit"},
           job'[worker'.job].state = "running", NotPlanning(worker.job)',
           Undisturbed /\ worker'.pc \in Doing => after[worker'.job] = 0
    PROVE  StopInv'
<1>1. AskedIsPending'
  BY DEF StopInv, Shape, Mild, AskedIsPending
<1>2. OneMore'
  BY DEF StopInv, Shape, TornKept, OneMore
<1>3. HandRuns' /\ SealedUnasked'
  BY DEF HandRuns, SealedUnasked, Hand, Doing
<1>4. TornApplies'
  BY DEF StopInv, Mild, TornKept, TornApplies, NotPlanning
<1> QED BY <1>1, <1>2, <1>3, <1>4 DEF StopInv

\* It goes on with the job it has.
LEMMA Carry ==
    ASSUME StopInv, Shape', Mild, TornKept, UNCHANGED <<asked, after>>,
           worker.pc \in Hand, worker'.pc \in Hand \ {"commit"}, worker'.job = worker.job,
           job'[worker.job].state = "running",
           Undisturbed /\ worker'.pc \in Doing => worker.pc \in Doing \/ worker.job \notin asked
    PROVE  StopInv'
<1>1. worker.job \in Jobs /\ NotPlanning(worker.job)
  BY DEF StopInv, Shape, WorkerShape, HandRuns, Hand, Doing, Between
<1>2. NotPlanning(worker.job)'
  BY <1>1 DEF Mild, NotPlanning
<1>3. Undisturbed /\ worker'.pc \in Doing => after[worker'.job] = 0
  BY <1>1 DEF StopInv, OneMore
<1> QED BY <1>2, <1>3, Holds

\* An effect comes when the worker has passed a checkpoint, and then it is past none.
LEMMA EffectComes ==
    ASSUME StopInv, Shape', Mild, TornKept, NEW i, Effect(worker.job, i), worker.pc \in Doing,
           torn'[worker.job].at # "prepared",
           worker'.pc \in {"check", "clean", "bundles"},
           worker'.pc # "bundles" => worker'.job = worker.job /\ job'[worker.job].state = "running"
    PROVE  StopInv'
<1>1. worker.job \in Jobs /\ NotPlanning(worker.job) /\ (Undisturbed => after[worker.job] = 0)
  BY DEF StopInv, Shape, WorkerShape, HandRuns, OneMore, Hand, Doing, Between
<1>2. /\ UNCHANGED asked
      /\ Undisturbed => after'[worker.job] \in {0, 1} /\ (worker.job \notin asked => after'[worker.job] = 0)
      /\ \A k \in Jobs : k # worker.job => after'[k] = after[k]
  BY <1>1 DEF Effect, StopInv, Shape
<1>3. AskedIsPending'
  BY <1>2 DEF StopInv, Shape, Mild, AskedIsPending
<1>4. OneMore'
  BY <1>1, <1>2 DEF StopInv, TornKept, OneMore, Doing
<1>5. HandRuns' /\ SealedUnasked'
  BY <1>1 DEF HandRuns, SealedUnasked, Hand, Doing, Mild, NotPlanning
<1>6. TornApplies'
  BY DEF StopInv, Mild, TornKept, TornApplies, NotPlanning
<1> QED BY <1>3, <1>4, <1>5, <1>6 DEF StopInv

\* The worker stays where it is; of the rows only what the invariant does not speak of
\* may change.
LEMMA Stay ==
    ASSUME StopInv, Shape', UNCHANGED <<worker, torn, asked, after>>,
           \A j \in Jobs : /\ job'[j].state = job[j].state /\ job'[j].control = job[j].control
                           /\ job'[j].phase = job[j].phase
    PROVE  StopInv'
<1>1. AskedIsPending' /\ OneMore' /\ TornApplies' /\ SealedUnasked'
  BY DEF StopInv, Shape, AskedIsPending, OneMore, TornApplies, NotPlanning, SealedUnasked
<1>2. HandRuns'
  BY DEF StopInv, Shape, WorkerShape, HandRuns, NotPlanning, Hand, Doing, Between
<1> QED BY <1>1, <1>2 DEF StopInv

-----------------------------------------------------------------------------
(* Users *)

\* What a user may do to a job: a job in the worker's hand goes on running, what is asked
\* of a job that may run is pending in its row, and a sealed preview is not asked.
LEMMA UserWrites ==
    ASSUME StopInv, NEW j \in Jobs, NEW row \in JobRow,
           job' = [job EXCEPT ![j] = row], Touched(j) \/ UNCHANGED <<worker, asked>>, UNCHANGED torn,
           row.phase = "planning" => job[j].phase = "planning",
           worker.pc \in Hand /\ worker.job = j => row.state = "running",
           asked' \subseteq Jobs, \A k \in Jobs : k # j => (k \in asked' <=> k \in asked),
           after' \in [Jobs -> Nat], \A k \in Jobs : k # j => after'[k] = after[k],
           after'[j] \in {0, after[j]}, Undisturbed /\ j \notin asked' => after'[j] = 0,
           Undisturbed /\ j \in asked' => row.state # "absent" /\ (row.state \in Going => row.control # "none"),
           Undisturbed /\ worker.pc = "sealed" /\ worker.job = j => j \notin asked'
    PROVE  StopInv'
<1>1. /\ job' \in [Jobs -> JobRow] /\ job'[j] = row
      /\ \A k \in Jobs : k # j => job'[k] = job[k]
  BY RowWritten DEF StopInv, Shape
<1>2. /\ WorkerShape' /\ worker'.pc = worker.pc /\ worker'.job = worker.job
      /\ worker'.fresh => worker.fresh /\ (worker.job # j \/ UNCHANGED asked)
  <2>1. CASE Touched(j)
    BY <2>1, WorkerTouched DEF StopInv, Shape
  <2>2. CASE UNCHANGED <<worker, asked>>
    BY <2>2 DEF StopInv, Shape, WorkerShape
  <2> QED BY <2>1, <2>2
<1>3. Shape'
  BY <1>1, <1>2 DEF StopInv, Shape
<1>4. AskedIsPending'
  BY <1>1, <1>3 DEF StopInv, Shape, AskedIsPending
<1>5. OneMore'
  BY <1>2 DEF StopInv, Shape, OneMore
<1>6. HandRuns' /\ TornApplies'
  <2>1. \A k \in Jobs : NotPlanning(k) => NotPlanning(k)'
    BY <1>1 DEF NotPlanning
  <2> QED
    BY <1>1, <1>2, <2>1 DEF StopInv, Shape, WorkerShape, HandRuns, TornApplies, Hand, Doing, Between
<1>7. SealedUnasked'
  BY <1>2 DEF StopInv, SealedUnasked
<1> QED BY <1>3, <1>4, <1>5, <1>6, <1>7 DEF StopInv

LEMMA UserKeeps ==
    ASSUME StopInv, NEW j \in Jobs, UserStep(j)
    PROVE  StopInv'
<1> USE DEF Going
<1>1. job[j] \in JobRow /\ after[j] \in Nat
  BY DEF StopInv, Shape
<1>2. worker.pc \in Hand /\ worker.job = j => job[j].state = "running" /\ NotPlanning(j)
  BY DEF StopInv, HandRuns
<1>3. Undisturbed /\ worker.pc = "sealed" /\ worker.job = j => j \in Automatic /\ j \notin asked
  BY DEF StopInv, SealedUnasked
<1>4. ASSUME Controls(j)
      PROVE  Touched(j) /\ UNCHANGED torn /\ (Undisturbed => ~(worker.pc = "sealed" /\ worker.job = j))
  BY <1>3, <1>4 DEF Controls, Undisturbed, userVars, At, J
<1>5. CASE Create(j)
  <2> DEFINE row == [job[j] EXCEPT !.state = "queued"]
  <2>1. row \in JobRow /\ row.phase = job[j].phase /\ (Undisturbed => j \notin asked)
    BY <1>1, <1>5 DEF Create, JobRow, JobStates, StopInv, AskedIsPending
  <2>2. job' = [job EXCEPT ![j] = row] /\ UNCHANGED <<worker, asked, after, torn>>
    BY <1>5 DEF Create, userVars, StopInv, Shape
  <2>3. ~(worker.pc \in Hand /\ worker.job = j)
    BY <1>2, <1>5 DEF Create
  <2> HIDE DEF row
  <2> QED
    BY <1>3, <2>1, <2>2, <2>3, UserWrites DEF StopInv, Shape, OneMore
<1>6. CASE Pause(j)
  <2> DEFINE row == [job[j] EXCEPT !.control = "pause"]
  <2>1. /\ row \in JobRow /\ row.phase = job[j].phase /\ row.state = job[j].state
        /\ row.control # "none" /\ row.state # "absent"
    BY <1>1, <1>6 DEF Pause, Controllable, JobRow
  <2>2. job' = [job EXCEPT ![j] = row] /\ Controls(j)
    BY <1>6 DEF Pause
  <2>3. /\ asked' = asked \union {j} /\ after' \in [Jobs -> Nat] /\ after'[j] \in {0, after[j]}
        /\ \A k \in Jobs : k # j => after'[k] = after[k]
    BY <1>6 DEF Pause, Ask, StopInv, Shape
  <2> HIDE DEF row
  <2> QED
    BY <1>2, <1>4, <2>1, <2>2, <2>3, UserWrites DEF StopInv, Shape
<1>7. CASE Stop(j)
  <2> DEFINE row == IF StopsAtOnce(j) THEN [Released(job[j], "stopped") EXCEPT !.control = "none"]
                    ELSE [job[j] EXCEPT !.control = "stop"]
  <2>1. row \in JobRow /\ row.phase = job[j].phase
    BY <1>1 DEF Released, JobRow, JobStates
  <2>2. StopsAtOnce(j) => row.state = "stopped"
    BY <1>1 DEF Released, JobRow
  <2>3. ~StopsAtOnce(j) => row.control = "stop" /\ row.state = job[j].state
    BY <1>1 DEF JobRow
  <2>4. job[j].state # "absent"
    BY <1>7 DEF Stop, Controllable
  <2>5. worker.pc \in Hand /\ worker.job = j => ~StopsAtOnce(j)
    BY <1>2 DEF StopsAtOnce, StalePlanningPreview, NotPlanning
  <2>6. job' = [job EXCEPT ![j] = row] /\ Controls(j)
    BY <1>7 DEF Stop, StopInv, Shape
  <2>7. /\ asked' = asked \union {j} /\ after' \in [Jobs -> Nat] /\ after'[j] \in {0, after[j]}
        /\ \A k \in Jobs : k # j => after'[k] = after[k]
    BY <1>7 DEF Stop, Ask, StopInv, Shape
  <2> HIDE DEF row
  <2> QED
    BY <1>2, <1>4, <2>1, <2>2, <2>3, <2>4, <2>5, <2>6, <2>7, UserWrites DEF StopInv, Shape
<1>8. ASSUME GoOn(j)
      PROVE  /\ asked' = asked \ {j} /\ after' \in [Jobs -> Nat] /\ after'[j] = 0
             /\ \A k \in Jobs : k # j => after'[k] = after[k]
  BY <1>8 DEF GoOn, StopInv, Shape
<1>9. CASE Resume(j)
  <2>1. PICK row \in JobRow : job' = [job EXCEPT ![j] = row] /\ row.phase = job[j].phase
    <3> DEFINE again == [job[j] EXCEPT !.state = "queued", !.control = "none", !.retryable = FALSE]
    <3>1. again \in JobRow /\ again.phase = job[j].phase
      BY <1>1 DEF JobRow, JobStates
    <3> HIDE DEF again
    <3> DEFINE afresh == [again EXCEPT !.completed = 0, !.succeeded = 0, !.failed = 0, !.skipped = 0]
               failed == [again EXCEPT !.completed = 0, !.failed = 0]
    <3>2. afresh \in JobRow /\ afresh.phase = again.phase /\ failed \in JobRow /\ failed.phase = again.phase
      BY <3>1 DEF JobRow
    <3>3. job' \in {[job EXCEPT ![j] = afresh], [job EXCEPT ![j] = failed], [job EXCEPT ![j] = again]}
      BY <1>9 DEF Resume, Restarted, again
    <3> HIDE DEF afresh, failed
    <3> QED BY <3>1, <3>2, <3>3
  <2>2. Controls(j) /\ GoOn(j) /\ job[j].state # "running"
    BY <1>9 DEF Resume
  <2> QED
    BY <1>2, <1>4, <1>8, <2>1, <2>2, UserWrites DEF StopInv, Shape
<1>10. CASE Accept(j)
  <2> DEFINE row == [job[j] EXCEPT !.state = "succeeded"]
  <2>1. row \in JobRow /\ row.phase = job[j].phase /\ row.state = "succeeded" /\ job[j].state = "ready"
    BY <1>1, <1>10 DEF Accept, Ready, JobRow, JobStates
  <2>2. job' = [job EXCEPT ![j] = row] /\ Touched(j) /\ UNCHANGED <<torn, asked, after>>
    BY <1>10 DEF Accept, userVars
  <2> HIDE DEF row
  <2> QED
    BY <1>2, <1>3, <2>1, <2>2, UserWrites DEF StopInv, Shape, OneMore
<1>11. CASE Discard(j)
  <2> DEFINE row == [job[j] EXCEPT !.state = "cancelled", !.control = "none"]
  <2>1. row \in JobRow /\ row.phase = job[j].phase /\ row.state = "cancelled" /\ job[j].state = "ready"
    BY <1>1, <1>11 DEF Discard, Ready, JobRow, JobStates
  <2>2. job' = [job EXCEPT ![j] = row] /\ Touched(j) /\ UNCHANGED <<torn, asked, after>>
    BY <1>11 DEF Discard, userVars, StopInv, Shape
  <2> HIDE DEF row
  <2> QED
    BY <1>2, <1>3, <2>1, <2>2, UserWrites DEF StopInv, Shape, OneMore
<1>12. CASE Apply(j)
  <2> DEFINE row == [job[j] EXCEPT !.state = "queued", !.control = "none", !.phase = "applying"]
  <2>1. row \in JobRow /\ row.phase = "applying" /\ job[j].state = "ready"
    BY <1>1, <1>12 DEF Apply, BeginApply, Ready, JobRow, JobStates
  <2>2. job' = [job EXCEPT ![j] = row] /\ Touched(j) /\ GoOn(j) /\ UNCHANGED torn
    BY <1>12 DEF Apply, BeginApply, userVars, StopInv, Shape
  <2> HIDE DEF row
  <2> QED
    BY <1>2, <1>8, <2>1, <2>2, UserWrites DEF StopInv, Shape
<1> QED
  BY <1>5, <1>6, <1>7, <1>9, <1>10, <1>11, <1>12 DEF UserStep

-----------------------------------------------------------------------------
(* What the rows of a step are *)

LEMMA RowsKept ==
    ASSUME Shape, UNCHANGED job
    PROVE  Mild
BY DEF Shape, Mild

LEMMA TornStays ==
    ASSUME UNCHANGED torn
    PROVE  TornKept
BY DEF TornKept

\* One row is written, and the job does not get going by it.
LEMMA MildRow ==
    ASSUME Shape, NEW j \in Jobs, NEW row \in JobRow, job' = [job EXCEPT ![j] = row],
           row.state \in Going => job[j].state \in Going /\ row.control = job[j].control,
           row.phase = "planning" => job[j].phase = "planning", row.state # "absent"
    PROVE  Mild /\ job' \in [Jobs -> JobRow] /\ job'[j] = row
BY RowWritten DEF Shape, Mild

LEMMA ReleasedMild ==
    ASSUME Shape, NEW j \in Jobs, NEW state \in JobStates \ {"absent"},
           state \in Going => job[j].state \in Going,
           \/ job' = [job EXCEPT ![j] = Released(@, state)]
           \/ Finish(j, state)
    PROVE  Mild /\ job' \in [Jobs -> JobRow] /\ job'[j].state = state
<1> DEFINE row == Released(job[j], state)
<1>1. job[j] \in JobRow
  BY DEF Shape
<1>2. row \in JobRow /\ row.state = state /\ row.control = job[j].control /\ row.phase = job[j].phase
  BY <1>1, ReleasedRow
<1> HIDE DEF row
<1> DEFINE over == [row EXCEPT !.retryable = FALSE]
<1>3. over \in JobRow /\ over.state = state /\ over.control = row.control /\ over.phase = row.phase
  BY <1>2 DEF JobRow
<1>4. job' = [job EXCEPT ![j] = row] \/ job' = [job EXCEPT ![j] = over]
  BY DEF Finish, row, Shape
<1> HIDE DEF over
<1> QED BY <1>2, <1>3, <1>4, MildRow

LEMMA CompletedMild ==
    ASSUME Shape, NEW j \in Jobs, NEW i, NEW state, Complete(j, i, state), job[j].state # "absent"
    PROVE  Mild /\ job' \in [Jobs -> JobRow] /\ job'[j].state = job[j].state
<1> DEFINE row == Counted(job[j], state)
<1>1. row \in JobRow /\ row.state = job[j].state /\ row.control = job[j].control /\ row.phase = job[j].phase
  BY CountedRow DEF Shape
<1>2. job' = [job EXCEPT ![j] = row]
  BY DEF Complete
<1> HIDE DEF row
<1> QED BY <1>1, <1>2, MildRow

LEMMA SettledMild ==
    ASSUME Shape, NEW j \in Jobs, Settle(j)
    PROVE  Mild /\ job' \in [Jobs -> JobRow]
<1> DEFINE state == IF job[j].control = "pause" THEN "paused" ELSE "stopped"
           released == Released(job[j], state)
<1>1. state \in {"paused", "stopped"}
  OBVIOUS
<1> HIDE DEF state
<1>2. released \in JobRow /\ released.state = state /\ released.phase = job[j].phase
  BY <1>1, ReleasedRow DEF Shape, JobStates
<1> HIDE DEF released
<1> DEFINE row == [released EXCEPT !.control = "none"]
<1>3. row \in JobRow /\ row.state = state /\ row.phase = job[j].phase
  BY <1>2 DEF JobRow
<1>4. job' = [job EXCEPT ![j] = row]
  BY DEF Settle, state, released, row
<1> HIDE DEF row
<1> QED BY <1>1, <1>3, <1>4, MildRow DEF Going

LEMMA FailedBundleMild ==
    ASSUME Shape, NEW j \in Jobs, NEW i, FailBundle(j, i)
    PROVE  Mild /\ job' \in [Jobs -> JobRow]
<1> DEFINE failed == Released(job[j], "failed")
           row == [failed EXCEPT !.retryable = FALSE]
           counted == Counted(row, "failed")
<1>1. failed \in JobRow /\ failed.state = "failed" /\ failed.phase = job[j].phase
  BY ReleasedRow DEF Shape, JobStates
<1> HIDE DEF failed
<1>2. row \in JobRow /\ row.state = "failed" /\ row.phase = job[j].phase
  BY <1>1 DEF JobRow
<1> HIDE DEF row
<1>3. counted \in JobRow /\ counted.state = "failed" /\ counted.phase = job[j].phase
  BY <1>2, CountedRow
<1> HIDE DEF counted
<1>4. job' = [job EXCEPT ![j] = row] \/ job' = [job EXCEPT ![j] = counted]
  BY DEF FailBundle, failed, row, counted
<1> QED BY <1>2, <1>3, <1>4, MildRow DEF Going

LEMMA OutcomeKnown ==
    ASSUME NEW rows, NEW otherwise
    PROVE  Outcome(rows, otherwise) \in {otherwise, "failed", "succeeded"}
BY DEF Outcome

-----------------------------------------------------------------------------
(* The loop *)

LEMMA LoopKeeps ==
    ASSUME StopInv, LoopStep \/ Notify
    PROVE  StopInv'
<1> USE DEF Going
<1>1. Shape /\ WorkerShape
  BY DEF StopInv, Shape
<1>2. ASSUME NEW pc \in Between, Goes(pc), job' \in [Jobs -> JobRow], Mild, TornKept, DOMAIN torn' = Jobs,
             UNCHANGED <<asked, after>>
      PROVE  StopInv'
  <2>1. worker'.pc = pc /\ WorkerShape'
    BY <1>1, <1>2, WorkerMoved DEF Goes, Between, Pcs
  <2> QED
    BY <1>1, <1>2, <2>1, LetGo DEF Shape, Between, Hand, Doing
<1>3. ASSUME NEW pc \in Between, Goes(pc), UNCHANGED <<job, torn, asked, after>>
      PROVE  StopInv'
  BY <1>1, <1>2, <1>3, RowsKept, TornStays DEF Shape
<1>4. ASSUME NEW j \in Jobs, Mended(j), Done(j), job' \in [Jobs -> JobRow], Mild, UNCHANGED <<asked, after>>
      PROVE  StopInv'
  <2>1. WorkerShape' /\ worker'.pc = "bundles"
    BY <1>1, <1>4 DEF Done, Moved, WorkerShape, Between, Pcs
  <2>2. TornKept /\ DOMAIN torn' = Jobs
    BY <1>1, <1>4 DEF Mended, TornKept, NoBundle, Shape
  <2> QED
    BY <1>1, <1>4, <2>1, <2>2, LetGo DEF Shape, Hand, Doing
<1>5. CASE Notify
  BY <1>1, <1>5, Stay DEF Notify, loopVars, Shape, WorkerShape
<1>6. CASE ReadRevision
  BY <1>3, <1>6 DEF ReadRevision, loopVars, Between
<1>7. CASE RecoverLeases
  <2>1. \A j \in Jobs : job'[j] = IF Expired(j) THEN Released(job[j], "queued") ELSE job[j]
    BY <1>7 DEF RecoverLeases
  <2>2. \A j \in Jobs : Released(job[j], "queued") \in JobRow
    BY <1>1, ReleasedRow DEF Shape, JobStates
  <2>3. job' \in [Jobs -> JobRow]
    BY <1>1, <1>7, <2>2 DEF RecoverLeases, Shape
  <2>4. \A j \in Jobs : /\ Released(job[j], "queued").state = "queued"
                        /\ Released(job[j], "queued").control = job[j].control
                        /\ Released(job[j], "queued").phase = job[j].phase
    BY <1>1, ReleasedRow DEF Shape, JobStates
  <2>5. Mild
    BY <1>1, <2>1, <2>4 DEF Mild, Expired, Shape
  <2>6. WorkerShape' /\ worker'.pc = "bundles" /\ UNCHANGED <<torn, asked, after>>
    BY <1>1, <1>7 DEF RecoverLeases, WorkerShape, Between, Pcs, loopVars
  <2> QED
    BY <1>1, <2>3, <2>5, <2>6, TornStays, LetGo DEF Shape, Hand, Doing
<1>8. ASSUME NEW j \in Jobs, RecoverCommitted(j)
      PROVE  StopInv'
  <2>1. CASE SettledBundle(j)
    <3> DEFINE state == Outcome(work[j], "active")
    <3>1. state \in {"active", "failed", "succeeded"}
      BY OutcomeKnown
    <3>2. UNCHANGED job \/ (state # "active" /\ job' = [job EXCEPT ![j] = Released(@, state)])
      BY <2>1 DEF SettledBundle
    <3> HIDE DEF state
    <3>3. CASE UNCHANGED job
      BY <1>1, <1>4, <1>8, <3>3, RowsKept DEF RecoverCommitted, recoveryVars, loopVars, Shape
    <3>4. CASE state # "active" /\ job' = [job EXCEPT ![j] = Released(@, state)]
      BY <1>1, <1>4, <1>8, <3>1, <3>4, ReleasedMild DEF RecoverCommitted, recoveryVars, loopVars, JobStates
    <3> QED BY <3>2, <3>3, <3>4
  <2>2. CASE FailBundle(j, torn[j].item)
    BY <1>1, <1>4, <1>8, <2>2, FailedBundleMild DEF RecoverCommitted, recoveryVars, loopVars
  <2> QED
    BY <1>8, <2>1, <2>2 DEF RecoverCommitted
<1>9. ASSUME NEW j \in Jobs, Compensate(j)
      PROVE  StopInv'
  BY <1>1, <1>4, <1>9, FailedBundleMild DEF Compensate, recoveryVars, loopVars
<1>10. ASSUME NEW j \in Jobs, ClaimBundle(j)
       PROVE  StopInv'
  <2>1. CASE Done(j) /\ UNCHANGED <<job, work>>
    <3>1. WorkerShape' /\ worker'.pc = "bundles"
      BY <1>1, <2>1 DEF Done, Moved, WorkerShape, Between, Pcs
    <3> QED
      BY <1>1, <1>10, <2>1, <3>1, LetGo, RowsKept, TornStays
      DEF ClaimBundle, recoveryVars, loopVars, Shape, Hand, Doing
  <2>2. CASE /\ job[j].state \in Going
             /\ job' = [job EXCEPT ![j].state = "running", ![j].lease = "live"]
             /\ worker' = [worker EXCEPT !.pc = "recovering", !.job = j, !.item = torn[j].item]
    <3> DEFINE row == [job[j] EXCEPT !.state = "running", !.lease = "live"]
    <3>1. row \in JobRow /\ row.state = "running" /\ row.control = job[j].control /\ row.phase = job[j].phase
      BY <1>1, ClaimedRow DEF Shape
    <3>2. job' = [job EXCEPT ![j] = row]
      BY <1>1, <2>2 DEF Shape
    <3> HIDE DEF row
    <3>3. Mild /\ job' \in [Jobs -> JobRow] /\ job'[j] = row
      BY <1>1, <2>2, <3>1, <3>2, MildRow
    <3>4. WorkerShape' /\ worker'.pc = "recovering" /\ worker'.job = j
      BY <1>1, <2>2 DEF WorkerShape, Pcs
    <3>5. torn[j].at = "prepared" /\ UNCHANGED <<torn, asked, after>>
      BY <1>10 DEF ClaimBundle, recoveryVars, loopVars
    <3>6. NotPlanning(j) /\ (Undisturbed => after[j] = 0)
      BY <3>5 DEF StopInv, TornApplies, OneMore
    <3>7. NotPlanning(worker.job)' /\ Shape'
      BY <1>1, <3>1, <3>3, <3>4, <3>5, <3>6 DEF NotPlanning, Shape
    <3> QED
      BY <3>1, <3>3, <3>4, <3>5, <3>6, <3>7, Holds, TornStays DEF Hand, Doing
  <2> QED
    BY <1>10, <2>1, <2>2 DEF ClaimBundle, Expired
<1>11. ASSUME At("recovering")
       PROVE  J \in Jobs /\ job[J].state = "running"
  BY <1>1, <1>11 DEF At, J, WorkerShape, StopInv, HandRuns, Between, Hand, Doing
<1>12. CASE RecoverAdopts
  <2> DEFINE counted == Counted(job[J], "succeeded")
             state == Outcome([work[J] EXCEPT ![I] = "succeeded"], "queued")
             row == Released(counted, state)
  <2>1. J \in Jobs /\ job[J].state = "running" /\ At("recovering")
    BY <1>11, <1>12 DEF RecoverAdopts
  <2>2. counted \in JobRow /\ counted.control = job[J].control /\ counted.phase = job[J].phase
    BY <1>1, <2>1, CountedRow DEF Shape
  <2>3. state \in {"queued", "failed", "succeeded"}
    BY OutcomeKnown
  <2>4. job' = [job EXCEPT ![J] = row]
    BY <1>12 DEF RecoverAdopts
  <2> HIDE DEF counted, state
  <2>5. row \in JobRow /\ row.state = state /\ row.control = job[J].control /\ row.phase = job[J].phase
    BY <2>2, <2>3, ReleasedRow DEF JobStates
  <2> HIDE DEF row
  <2>6. Mild /\ job' \in [Jobs -> JobRow]
    BY <1>1, <2>1, <2>3, <2>4, <2>5, MildRow
  <2>7. WorkerShape' /\ worker'.pc = "bundles"
    BY <1>1, <1>12 DEF RecoverAdopts, Done, Moved, WorkerShape, Between, Pcs
  <2>8. TornKept /\ DOMAIN torn' = Jobs /\ torn'[J].at = "none"
    BY <1>1, <1>12, <2>1 DEF RecoverAdopts, Mended, TornKept, NoBundle, Shape
  <2>9. Effect(J, I)
    BY <1>12 DEF RecoverAdopts
  <2>10. after' \in [Jobs -> Nat] /\ asked' \subseteq Jobs
    BY <1>1, <2>1, <2>9 DEF Effect, Shape
  <2>11. Shape'
    BY <2>6, <2>7, <2>8, <2>10 DEF Shape
  <2> QED
    BY <2>1, <2>6, <2>7, <2>8, <2>9, <2>11, EffectComes DEF At, J, Doing
<1>13. CASE RecoverFails
  BY <1>1, <1>4, <1>11, <1>13, FailedBundleMild DEF RecoverFails, recoveryVars, loopVars
<1>14. CASE RecoveryEnds
  BY <1>3, <1>14 DEF RecoveryEnds, recoveryVars, loopVars, Between
<1>15. ASSUME NEW j \in Jobs, ClaimJob(j)
       PROVE  StopInv'
  <2> DEFINE row == [job[j] EXCEPT !.state = "running", !.lease = "live"]
  <2>1. row \in JobRow /\ row.state = "running" /\ row.control = job[j].control /\ row.phase = job[j].phase
    BY <1>1, ClaimedRow DEF Shape
  <2>2. job' = [job EXCEPT ![j] = row] /\ job[j].state = "queued"
    BY <1>1, <1>15 DEF ClaimJob, Claimable, Shape
  <2> HIDE DEF row
  <2>3. Mild /\ job' \in [Jobs -> JobRow] /\ job'[j] = row
    BY <1>1, <2>1, <2>2, MildRow
  <2>4. worker' = [worker EXCEPT !.pc = FirstStep(j), !.job = j, !.item = 0] /\ UNCHANGED <<torn, asked, after>>
    BY <1>15 DEF ClaimJob, loopVars
  <2>5. FirstStep(j) \in {"evaluateTake", "stageCheck", "plan", "check"}
    BY DEF FirstStep
  <2>6. WorkerShape' /\ worker'.pc = FirstStep(j) /\ worker'.job = j
    BY <1>1, <2>4, <2>5 DEF WorkerShape, Pcs
  <2>7. Shape'
    BY <1>1, <2>3, <2>4, <2>6 DEF Shape
  <2>8. CASE FirstStep(j) = "plan"
    BY <2>3, <2>4, <2>6, <2>7, <2>8, LetGo, TornStays DEF Hand, Doing
  <2>9. CASE FirstStep(j) # "plan"
    <3>1. NotPlanning(worker.job)'
      BY <2>1, <2>3, <2>6, <2>9 DEF NotPlanning, FirstStep, Management, Reidentification, Bulk
    <3> QED
      BY <2>1, <2>3, <2>4, <2>5, <2>6, <2>7, <2>9, <3>1, Holds, TornStays DEF Hand, Doing
  <2> QED BY <2>8, <2>9
<1>16. CASE ClaimNothing
  BY <1>3, <1>16 DEF ClaimNothing, loopVars, Between
<1>17. CASE Wait
  BY <1>3, <1>17 DEF Wait, loopVars, Between
<1>18. CASE Wakes
  BY <1>3, <1>18 DEF Wakes, loopVars, Between
<1> QED
  BY <1>5, <1>6, <1>7, <1>8, <1>9, <1>10, <1>12, <1>13, <1>14, <1>15, <1>16, <1>17, <1>18
  DEF LoopStep, RecoveryStep

-----------------------------------------------------------------------------
(* Work *)

LEMMA WorkKeeps ==
    ASSUME StopInv, WorkStep \/ Renew
    PROVE  StopInv'
<1> USE DEF Going
<1>1. Shape /\ WorkerShape
  BY DEF StopInv, Shape
<1>2. ASSUME worker.pc \notin Between
      PROVE  J \in Jobs /\ job[J] \in JobRow
  BY <1>1, <1>2 DEF Shape, WorkerShape, J
<1>3. ASSUME worker.pc \in Hand
      PROVE  /\ J \in Jobs /\ job[J] \in JobRow /\ job[J].state = "running"
             /\ Undisturbed /\ J \in asked => job[J].control # "none"
  BY <1>1, <1>2, <1>3 DEF StopInv, HandRuns, AskedIsPending, Hand, Doing, Between, J
\* The worker lets go of its job ...
<1>4. ASSUME NEW pc \in Between \union {"plan", "seal"}, Goes(pc), worker.pc \notin Between,
             job' \in [Jobs -> JobRow], Mild, TornKept, DOMAIN torn' = Jobs, UNCHANGED <<asked, after>>
      PROVE  StopInv'
  <2>1. worker'.pc = pc /\ WorkerShape'
    BY <1>1, <1>4, WorkerMoved DEF Goes, Between, Pcs
  <2> QED
    BY <1>1, <1>4, <2>1, LetGo DEF Shape, Between, Hand, Doing
<1>5. ASSUME NEW pc \in Between \union {"plan", "seal"}, Goes(pc), worker.pc \notin Between,
             UNCHANGED <<job, torn, asked, after>>
      PROVE  StopInv'
  BY <1>1, <1>4, <1>5, RowsKept, TornStays DEF Shape
\* ... or keeps it, and passes no checkpoint unless nobody has asked.
<1>6. ASSUME NEW pc \in Hand \ {"commit"}, Goes(pc), worker.pc \in Hand, Undisturbed /\ pc \in Doing => J \notin asked,
             job' \in [Jobs -> JobRow], Mild, job'[J].state = "running",
             TornKept, DOMAIN torn' = Jobs, UNCHANGED <<asked, after>>
      PROVE  StopInv'
  <2>1. worker'.pc = pc /\ worker'.job = worker.job /\ WorkerShape'
    BY <1>1, <1>6, WorkerMoved DEF Goes, Hand, Doing, Between, Pcs
  <2> QED
    BY <1>1, <1>6, <2>1, Carry DEF Shape, J
<1>7. ASSUME NEW pc \in Hand \ {"commit"}, Goes(pc), worker.pc \in Hand, Undisturbed /\ pc \in Doing => J \notin asked,
             UNCHANGED <<job, torn, asked, after>>
      PROVE  StopInv'
  BY <1>1, <1>3, <1>6, <1>7, RowsKept, TornStays DEF Shape
<1>8. ASSUME NEW pc, NEW next \in Hand \ {"commit"}, CheckpointAt(pc, next), pc \in Hand
      PROVE  StopInv'
  <2>1. worker.pc \in Hand /\ UNCHANGED <<torn, asked, after>>
    BY <1>8 DEF CheckpointAt, At, stepVars, historyVars
  <2>2. CASE job[J].control # "none"
    <3>1. Settle(J) /\ Goes("read")
      BY <1>3, <1>8, <2>1, <2>2 DEF CheckpointAt, Mine
    <3> QED
      BY <1>1, <1>3, <1>4, <2>1, <3>1, SettledMild, TornStays DEF Between, Shape, Hand, Doing
  <2>3. CASE job[J].control = "none"
    <3>1. Goes(next) /\ UNCHANGED job /\ (Undisturbed => J \notin asked)
      BY <1>3, <1>8, <2>1, <2>3 DEF CheckpointAt
    <3> QED
      BY <1>7, <1>8, <2>1, <3>1
  <2> QED BY <2>2, <2>3
<1>9. CASE StageCheckpoint \/ Checkpoint
  BY <1>8, <1>9 DEF StageCheckpoint, Checkpoint, Hand, Doing
<1>10. CASE Stage
  <2>1. worker.pc = "stage" /\ UNCHANGED <<torn, asked, after>>
    BY <1>10 DEF Stage, At, stepVars, historyVars
  <2>2. J \in Jobs /\ job[J] \in JobRow /\ job[J].state = "running"
    BY <1>3, <2>1 DEF Hand
  <2> DEFINE row == [job[J] EXCEPT !.phase = "staged"]
  <2>3. row \in JobRow /\ row.state = job[J].state /\ row.control = job[J].control /\ row.phase = "staged"
    BY <2>2 DEF JobRow
  <2>4. job' = [job EXCEPT ![J] = row] \/ UNCHANGED job
    BY <1>10 DEF Stage
  <2> HIDE DEF row
  <2>5. Mild /\ job' \in [Jobs -> JobRow] /\ job'[J].state = "running"
    BY <1>1, <2>2, <2>3, <2>4, MildRow, RowsKept DEF Shape
  <2>6. Goes("check") \/ Goes("stageCheck")
    BY <1>10 DEF Stage
  <2> QED
    BY <1>1, <1>6, <2>1, <2>5, <2>6, TornStays DEF Shape, Hand, Doing
<1>11. CASE TakeWork
  <2>1. worker.pc = "take" /\ UNCHANGED <<job, torn, asked, after>>
    BY <1>11 DEF TakeWork, At, stepVars, historyVars
  <2>2. CASE Goes("finish")
    BY <1>7, <2>1, <2>2 DEF Hand, Doing
  <2>3. CASE \E first : worker' = [worker EXCEPT !.pc = "apply", !.item = first]
    <3>1. WorkerShape' /\ worker'.pc = "apply" /\ worker'.job = worker.job
      BY <1>1, <2>1, <2>3 DEF WorkerShape, Pcs, Between
    <3>2. job[worker.job].state = "running"
      BY <1>3, <2>1 DEF Hand, Doing, J
    <3> QED
      BY <1>1, <2>1, <3>1, <3>2, Carry, RowsKept, TornStays DEF Shape, Hand, Doing
  <2> QED
    BY <1>11, <2>2, <2>3 DEF TakeWork
<1>12. ASSUME worker.pc \in Doing, Effect(J, I)
       PROVE  J \in Jobs /\ after' \in [Jobs -> Nat] /\ asked' \subseteq Jobs
  BY <1>1, <1>3, <1>12 DEF Effect, Shape, Hand
<1>13. CASE ApplyReview
  <2>1. worker.pc = "apply" /\ Goes("check") /\ UNCHANGED torn
    BY <1>13 DEF ApplyReview, At, stepVars
  <2>2. J \in Jobs /\ job[J].state = "running"
    BY <1>3, <2>1 DEF Hand, Doing
  <2>3. \E state : Complete(J, I, state)
    BY <1>13 DEF ApplyReview
  <2>4. Mild /\ job' \in [Jobs -> JobRow] /\ job'[J].state = "running"
    BY <1>1, <2>2, <2>3, CompletedMild
  <2>5. CASE UNCHANGED historyVars
    BY <1>1, <1>6, <2>1, <2>4, <2>5, TornStays DEF historyVars, Shape, Hand, Doing
  <2>6. CASE Effect(J, I)
    <3>1. WorkerShape' /\ worker'.pc = "check" /\ worker'.job = worker.job
      BY <1>1, <2>1, WorkerMoved DEF Goes, Between, Pcs
    <3>2. torn'[J].at # "prepared"
      BY <1>13, <2>1, <2>2 DEF ApplyReview, StopInv, TornApplies, Bulk, Management
    <3>3. Shape'
      BY <1>1, <1>12, <2>1, <2>4, <2>6, <3>1 DEF Shape, Doing
    <3> QED
      BY <2>1, <2>4, <2>6, <3>1, <3>2, <3>3, EffectComes, TornStays DEF J, Doing
  <2> QED
    BY <1>13, <2>5, <2>6 DEF ApplyReview
<1>14. CASE ApplyFaults \/ RecordFaults
  BY <1>5, <1>14 DEF ApplyFaults, RecordFaults, Fault, At, stepVars, historyVars, Between
<1>15. ASSUME NEW state \in {"succeeded", "failed"}, Finish(J, state), Goes("read"), worker.pc \notin Between,
              UNCHANGED <<torn, asked, after>>
       PROVE  StopInv'
  BY <1>1, <1>2, <1>4, <1>15, ReleasedMild, TornStays DEF JobStates, Between, Shape
<1>16. CASE FinishBulk
  BY <1>15, <1>16 DEF FinishBulk, At, stepVars, historyVars, Between
<1>17. CASE TakeEvaluation
  <2>1. worker.pc = "evaluateTake" /\ UNCHANGED <<torn, asked, after>>
    BY <1>17 DEF TakeEvaluation, At, stepVars, historyVars
  <2>2. CASE Goes("evaluate") /\ UNCHANGED job
    BY <1>7, <2>1, <2>2 DEF Hand, Doing
  <2>3. CASE Finish(J, "failed") /\ Goes("read")
    BY <1>15, <2>1, <2>3 DEF Between
  <2> QED
    BY <1>17, <2>2, <2>3 DEF TakeEvaluation
<1>18. CASE EvaluateStale
  BY <1>15, <1>18 DEF EvaluateStale, At, stepVars, historyVars, Between
<1>19. CASE Evaluate
  BY <1>7, <1>19 DEF Evaluate, At, stepVars, historyVars, Hand, Doing
<1>20. CASE Halt
  <2>1. worker.pc = "halt" /\ Goes("read") /\ UNCHANGED <<torn, asked, after>>
    BY <1>20 DEF Halt, At, stepVars, historyVars
  <2>2. J \in Jobs /\ job[J].state = "running"
    BY <1>3, <2>1 DEF Hand
  <2>3. \/ job' = [job EXCEPT ![J] = Released(@, "queued")]
        \/ Settle(J) \/ UNCHANGED job
    BY <1>20 DEF Halt
  <2>4. Mild /\ job' \in [Jobs -> JobRow]
    BY <1>1, <2>2, <2>3, ReleasedMild, SettledMild, RowsKept DEF JobStates, Shape
  <2> QED
    BY <1>1, <1>4, <2>1, <2>4, TornStays DEF Between, Shape
<1>21. CASE Record
  <2>1. worker.pc = "record" /\ Goes("read") /\ UNCHANGED <<torn, asked, after>>
    BY <1>21 DEF Record, At, stepVars, historyVars
  <2>2. J \in Jobs /\ job[J] \in JobRow
    BY <1>3, <2>1 DEF Hand
  <2>3. PICK state \in {"ready", "succeeded", "failed"}, good \in {0, 1}, bad \in {0, 1} :
           job' = [job EXCEPT ![J] = [Released(@, state) EXCEPT
                      !.retryable = (state = "failed"), !.completed = 1, !.succeeded = good, !.failed = bad]]
    BY <1>21 DEF Record
  <2> DEFINE released == Released(job[J], state)
  <2>4. released \in JobRow /\ released.state = state /\ released.phase = job[J].phase
    BY <2>2, ReleasedRow DEF JobStates
  <2> HIDE DEF released
  <2> DEFINE row == [released EXCEPT !.retryable = (state = "failed"), !.completed = 1,
                                     !.succeeded = good, !.failed = bad]
  <2>5. row \in JobRow /\ row.state = state /\ row.phase = job[J].phase
    <3>1. (state = "failed") \in BOOLEAN /\ 1 \in Nat /\ good \in Nat /\ bad \in Nat
      OBVIOUS
    <3> QED BY <2>4, <3>1 DEF JobRow
  <2>6. job' = [job EXCEPT ![J] = row]
    BY <2>3 DEF released
  <2> HIDE DEF row
  <2>7. Mild /\ job' \in [Jobs -> JobRow]
    BY <1>1, <2>2, <2>5, <2>6, MildRow
  <2> QED
    BY <1>1, <1>4, <2>1, <2>7, TornStays DEF Between, Shape
<1>22. CASE PlanLost
  BY <1>5, <1>22 DEF PlanLost, stepVars, historyVars, Between
<1>23. CASE Renew
  <2>1. worker.pc = "plan" /\ UNCHANGED <<worker, torn, asked, after>>
        /\ job' = [job EXCEPT ![J].lease = "live"]
    BY <1>23 DEF Renew, At, stepVars, historyVars
  <2>2. J \in Jobs
    BY <1>2, <2>1 DEF Between
  <2> QED
    BY <1>1, <2>1, <2>2, Stay DEF Shape, WorkerShape, JobRow
<1>24. CASE Plan
  <2>1. worker.pc = "plan" /\ job[J].state = "running" /\ UNCHANGED <<torn, asked, after>>
    BY <1>24 DEF Plan, Mine, At, stepVars, historyVars
  <2>2. J \in Jobs
    BY <1>2, <2>1 DEF Between
  <2>3. CASE job' = [job EXCEPT ![J] = Released(@, "queued")] /\ Goes("read")
    BY <1>1, <1>4, <2>1, <2>2, <2>3, ReleasedMild, TornStays DEF JobStates, Between, Shape
  <2>4. CASE Settle(J) /\ Goes("read")
    BY <1>1, <1>4, <2>1, <2>2, <2>4, SettledMild, TornStays DEF Between, Shape
  <2>5. CASE Finish(J, "failed") /\ Goes("read")
    BY <1>15, <2>1, <2>5 DEF Between
  <2>6. CASE Goes("seal") /\ UNCHANGED job
    BY <1>5, <2>1, <2>6 DEF Between
  <2> QED
    BY <1>24, <2>3, <2>4, <2>5, <2>6 DEF Plan
\* A preview is sealed only when nobody has asked: the control would be pending.
<1>25. CASE Seal
  <2>1. worker.pc = "seal" /\ job[J].state = "running" /\ UNCHANGED <<torn, asked, after>>
    BY <1>25 DEF Seal, Mine, At, stepVars, historyVars
  <2>2. J \in Jobs /\ job[J] \in JobRow
    BY <1>2, <2>1 DEF Between
  <2>3. CASE Finish(J, "failed") /\ Goes("read")
    BY <1>15, <2>1, <2>3 DEF Between
  <2>4. CASE /\ job[J].control = "none"
             /\ job' = [job EXCEPT ![J] = [Released(@, "ready") EXCEPT !.phase = "ready"]]
             /\ Goes(IF J \in Automatic THEN "sealed" ELSE "read")
    <3> DEFINE released == Released(job[J], "ready")
               row == [released EXCEPT !.phase = "ready"]
    <3>1. released \in JobRow /\ released.state = "ready"
      BY <2>2, ReleasedRow DEF JobStates
    <3>2. job' = [job EXCEPT ![J] = row]
      BY <2>4
    <3> HIDE DEF released
    <3>3. row \in JobRow /\ row.state = "ready" /\ row.phase = "ready"
      BY <3>1 DEF JobRow
    <3> HIDE DEF row
    <3>4. Mild /\ job' \in [Jobs -> JobRow]
      BY <1>1, <2>2, <3>2, <3>3, MildRow
    <3>5. Undisturbed => J \notin asked
      BY <2>1, <2>4 DEF StopInv, AskedIsPending
    <3>6. CASE Goes("read")
      BY <1>1, <1>4, <2>1, <3>4, <3>6, TornStays DEF Between, Shape
    <3>7. CASE J \in Automatic /\ Goes("sealed")
      <4>1. WorkerShape' /\ worker'.pc = "sealed" /\ worker'.job = J
        BY <1>1, <2>1, <3>7, WorkerMoved DEF Goes, Between, Pcs, J
      <4>2. AskedIsPending' /\ OneMore' /\ HandRuns' /\ TornApplies' /\ Shape'
        BY <1>1, <2>1, <3>4, <4>1 DEF Mild, StopInv, AskedIsPending, OneMore, HandRuns, TornApplies,
                                      NotPlanning, Shape, Hand, Doing
      <4> QED
        BY <2>1, <3>5, <3>7, <4>1, <4>2 DEF StopInv, SealedUnasked
    <3> QED BY <2>4, <3>6, <3>7
  <2> QED
    BY <1>25, <2>3, <2>4 DEF Seal
<1>26. CASE ReadSealed
  <2>1. worker.pc = "sealed" /\ UNCHANGED <<job, torn, asked, after>>
    BY <1>26 DEF ReadSealed, At, stepVars, historyVars
  <2>2. CASE Goes("read")
    BY <1>5, <2>1, <2>2 DEF Between
  <2>3. CASE worker' = [worker EXCEPT !.pc = "automatic", !.fresh = TRUE]
    <3>1. WorkerShape' /\ worker'.pc = "automatic" /\ worker'.job = worker.job
      BY <1>1, <2>1, <2>3 DEF WorkerShape, Between, Pcs
    <3>2. AskedIsPending' /\ OneMore' /\ HandRuns' /\ TornApplies' /\ Shape'
      BY <1>1, <2>1, <3>1 DEF StopInv, AskedIsPending, OneMore, HandRuns, TornApplies, NotPlanning,
                              Shape, Hand, Doing
    <3> QED
      BY <2>1, <3>1, <3>2 DEF StopInv, SealedUnasked
  <2> QED
    BY <1>26, <2>2, <2>3 DEF ReadSealed
\* The worker applies what it has sealed only when its revision is the present one.
<1>27. CASE ApplyAutomatically
  <2>1. /\ worker.pc = "automatic" /\ worker' = [Moved("read") EXCEPT !.fresh = FALSE]
        /\ UNCHANGED <<torn, asked, after>>
    BY <1>27 DEF ApplyAutomatically, At, historyVars
  <2>2. J \in Jobs /\ job[J] \in JobRow
    BY <1>2, <2>1 DEF Between
  <2>3. WorkerShape' /\ worker'.pc = "read"
    BY <1>1, <2>1 DEF WorkerShape, Moved, Between, Pcs
  <2>4. CASE UNCHANGED job
    BY <1>1, <2>1, <2>3, <2>4, LetGo, RowsKept, TornStays DEF Shape, Hand, Doing
  <2>5. CASE worker.fresh /\ BeginApply(J)
    <3> DEFINE row == [job[J] EXCEPT !.state = "queued", !.control = "none", !.phase = "applying"]
    <3>1. row \in JobRow /\ row.phase = "applying"
      BY <2>2 DEF JobRow, JobStates
    <3>2. job' = [job EXCEPT ![J] = row]
      BY <2>5 DEF BeginApply
    <3> HIDE DEF row
    <3>3. /\ job' \in [Jobs -> JobRow] /\ job'[J] = row
          /\ \A k \in Jobs : k # J => job'[k] = job[k]
      BY <1>1, <2>2, <3>1, <3>2, RowWritten DEF Shape
    <3>4. Undisturbed => J \notin asked
      BY <2>1, <2>5 DEF StopInv, SealedUnasked, J
    <3>5. AskedIsPending'
      BY <1>1, <2>1, <3>3, <3>4 DEF StopInv, AskedIsPending, Shape
    <3>6. \A k \in Jobs : NotPlanning(k) => NotPlanning(k)'
      BY <3>1, <3>3 DEF NotPlanning
    <3>7. OneMore' /\ HandRuns' /\ TornApplies' /\ SealedUnasked' /\ Shape'
      BY <1>1, <2>1, <2>3, <3>3, <3>6 DEF StopInv, OneMore, HandRuns, TornApplies, SealedUnasked,
                                          Shape, Hand, Doing
    <3> QED
      BY <3>5, <3>7 DEF StopInv
  <2> QED
    BY <1>27, <2>4, <2>5 DEF ApplyAutomatically
<1>28. ASSUME NEW state, Complete(J, I, state), Goes("check"), worker.pc \in Hand,
              TornKept, DOMAIN torn' = Jobs, UNCHANGED <<asked, after>>
       PROVE  StopInv'
  <2>1. J \in Jobs /\ job[J].state = "running"
    BY <1>3, <1>28
  <2>2. Mild /\ job' \in [Jobs -> JobRow] /\ job'[J].state = "running"
    BY <1>1, <1>28, <2>1, CompletedMild
  <2> QED
    BY <1>6, <1>28, <2>2 DEF Hand, Doing
<1>29. CASE Publish
  <2>1. worker.pc = "apply" /\ Management(J) /\ UNCHANGED <<asked, after>>
    BY <1>29 DEF Publish, At, historyVars
  <2>2. J \in Jobs /\ job[J].state = "running" /\ NotPlanning(J) /\ (Undisturbed => after[J] = 0)
    BY <1>3, <2>1 DEF StopInv, HandRuns, OneMore, Hand, Doing, J
  <2>3. CASE \E state : Complete(J, I, state) /\ Goes("check") /\ UNCHANGED torn
    BY <1>1, <1>28, <2>1, <2>3, TornStays DEF Shape, Hand, Doing
  <2>4. CASE TornAt("prepared") /\ Goes("commit") /\ UNCHANGED job
    <3>1. WorkerShape' /\ worker'.pc = "commit" /\ worker'.job = J
      BY <1>1, <2>1, <2>4, WorkerMoved DEF Goes, Between, Pcs, J
    <3>2. DOMAIN torn' = Jobs /\ \A k \in Jobs : k # J => torn'[k] = torn[k]
      BY <1>1, <2>4 DEF TornAt, Shape
    <3>3. AskedIsPending' /\ OneMore' /\ HandRuns' /\ TornApplies' /\ SealedUnasked' /\ Shape'
      BY <1>1, <2>1, <2>2, <2>4, <3>1, <3>2
      DEF StopInv, AskedIsPending, OneMore, HandRuns, TornApplies, SealedUnasked, NotPlanning, Shape,
          Hand, Doing, J
    <3> QED
      BY <3>3 DEF StopInv
  <2> QED
    BY <1>29, <2>3, <2>4 DEF Publish
<1>30. CASE Commit
  <2>1. worker.pc = "commit" /\ Goes("clean") /\ Effect(J, I) /\ TornAt("committed")
        /\ Complete(J, I, "succeeded")
    BY <1>30 DEF Commit, At
  <2>2. J \in Jobs /\ job[J].state = "running"
    BY <1>3, <2>1 DEF Hand, Doing
  <2>3. Mild /\ job' \in [Jobs -> JobRow] /\ job'[J].state = "running"
    BY <1>1, <2>1, <2>2, CompletedMild
  <2>4. WorkerShape' /\ worker'.pc = "clean" /\ worker'.job = worker.job
    BY <1>1, <2>1, WorkerMoved DEF Goes, Between, Pcs
  <2>5. torn' = [torn EXCEPT ![J] = [item |-> I, at |-> "committed"]]
    BY <2>1 DEF TornAt
  <2>6. DOMAIN torn' = Jobs /\ torn'[J].at = "committed" /\ \A k \in Jobs : k # J => torn'[k] = torn[k]
    BY <1>1, <2>2, <2>5 DEF Shape
  <2>7. TornKept
    <3>1. Management(J) /\ NotPlanning(J)
      BY <2>1, <2>2 DEF StopInv, TornApplies, HandRuns, Hand, Doing, J
    <3> QED BY <2>6, <3>1 DEF TornKept
  <2>8. Shape'
    BY <1>1, <1>12, <2>1, <2>3, <2>4, <2>6 DEF Shape, Doing
  <2> QED
    BY <2>1, <2>2, <2>3, <2>4, <2>6, <2>7, <2>8, EffectComes DEF J, Doing
<1>31. CASE Rollback
  <2>1. /\ worker.pc = "commit" /\ Goes("check") /\ UNCHANGED <<asked, after>>
        /\ \E state : Complete(J, I, state)
    BY <1>31 DEF Rollback, At, historyVars
  <2>2. J \in Jobs /\ Management(J) /\ NotPlanning(J)
    BY <1>3, <2>1 DEF StopInv, TornApplies, HandRuns, Hand, Doing, J
  <2>3. PICK bundle \in {NoBundle, [item |-> I, at |-> "rollback"]} : torn' = [torn EXCEPT ![J] = bundle]
    BY <1>31 DEF Rollback, TornAt
  <2>4. bundle.at \in {"none", "rollback"}
    BY <2>3 DEF NoBundle
  <2>5. DOMAIN torn' = Jobs /\ torn'[J] = bundle /\ \A k \in Jobs : k # J => torn'[k] = torn[k]
    BY <1>1, <2>2, <2>3 DEF Shape
  <2>6. TornKept
    BY <2>2, <2>4, <2>5 DEF TornKept
  <2> QED
    BY <1>28, <2>1, <2>5, <2>6 DEF Hand, Doing
<1>32. CASE Clean
  <2>1. worker.pc = "clean" /\ Goes("check") /\ UNCHANGED <<job, asked, after>>
    BY <1>32 DEF Clean, At, historyVars
  <2>2. J \in Jobs /\ job[J].state = "running"
    BY <1>3, <2>1 DEF Hand
  <2>3. TornKept /\ DOMAIN torn' = Jobs
    BY <1>1, <1>32, <2>2 DEF Clean, TornKept, NoBundle, Shape
  <2> QED
    BY <1>1, <1>6, <2>1, <2>2, <2>3, RowsKept DEF Shape, Hand, Doing
<1>33. CASE FinishApply
  <2>1. worker.pc = "finish" /\ UNCHANGED <<torn, asked, after>>
    BY <1>33 DEF FinishApply, At, stepVars, historyVars
  <2>2. J \in Jobs
    BY <1>3, <2>1 DEF Hand
  <2>3. CASE Goes("wait") /\ UNCHANGED job
    BY <1>5, <2>1, <2>3 DEF Between
  <2>4. CASE job' = [job EXCEPT ![J] = [Released(@, "succeeded") EXCEPT !.phase = "complete"]] /\ Goes("read")
    <3> DEFINE released == Released(job[J], "succeeded")
               row == [released EXCEPT !.phase = "complete"]
    <3>1. released \in JobRow /\ released.state = "succeeded"
      BY <1>1, <2>2, ReleasedRow DEF Shape, JobStates
    <3>2. job' = [job EXCEPT ![J] = row]
      BY <2>4
    <3> HIDE DEF released
    <3>3. row \in JobRow /\ row.state = "succeeded" /\ row.phase = "complete"
      BY <3>1 DEF JobRow
    <3> HIDE DEF row
    <3>4. Mild /\ job' \in [Jobs -> JobRow]
      BY <1>1, <2>2, <3>2, <3>3, MildRow
    <3> QED
      BY <1>1, <1>4, <2>1, <2>4, <3>4, TornStays DEF Between, Shape
  <2> QED
    BY <1>33, <2>3, <2>4 DEF FinishApply
<1> QED
  BY <1>9, <1>10, <1>11, <1>13, <1>14, <1>16, <1>17, <1>18, <1>19, <1>20, <1>21, <1>22, <1>23, <1>24,
     <1>25, <1>26, <1>27, <1>29, <1>30, <1>31, <1>32, <1>33 DEF WorkStep

-----------------------------------------------------------------------------
(* The surroundings, and the theorem *)

LEMMA SurroundingsKeep ==
    ASSUME StopInv, Surroundings
    PROVE  StopInv'
<1>1. Shape /\ WorkerShape
  BY DEF StopInv, Shape
<1>2. ASSUME NEW j \in Jobs, LeaseExpires(j)
      PROVE  StopInv'
  <2>1. job' = [job EXCEPT ![j].lease = "expired"] /\ UNCHANGED <<worker, torn, asked, after>>
    BY <1>2 DEF LeaseExpires, loopVars
  <2> QED
    BY <1>1, <2>1, Stay DEF Shape, WorkerShape, JobRow
<1>3. CASE ScanBegins \/ ScanEnds
  BY <1>1, <1>3, Stay DEF ScanBegins, ScanEnds, historyVars, Shape, WorkerShape
<1>4. CASE Restart
  <2>1. UNCHANGED <<job, torn, asked, after>>
    BY <1>4 DEF Restart, historyVars
  <2>2. WorkerShape' /\ worker'.pc = "bundles"
    BY <1>4 DEF Restart, Idle, WorkerShape, Between, Pcs
  <2> QED
    BY <1>1, <2>1, <2>2, LetGo, RowsKept, TornStays DEF Shape, Hand, Doing
<1> QED BY <1>2, <1>3, <1>4 DEF Surroundings

LEMMA StopInvInit ==
    ASSUME Init
    PROVE  StopInv
<1>1. \A j \in Jobs : Row(j) \in JobRow /\ Row(j).state = "absent"
  BY DEF Row, JobRow, JobStates
<1>2. job \in [Jobs -> JobRow]
  BY <1>1 DEF Init
<1>3. WorkerShape /\ worker.pc = "read"
  BY DEF Init, Idle, WorkerShape, Between, Pcs
<1>4. Shape
  BY <1>2, <1>3 DEF Init, Shape
<1>5. AskedIsPending /\ OneMore /\ HandRuns /\ TornApplies /\ SealedUnasked
  BY <1>3 DEF Init, AskedIsPending, OneMore, HandRuns, TornApplies, SealedUnasked, NoBundle, Hand, Doing
<1> QED BY <1>4, <1>5 DEF StopInv

LEMMA StopInvariant == Spec => []StopInv
<1>1. Init => StopInv
  BY StopInvInit
<1>2. StopInv /\ [Next]_vars => StopInv'
  <2> SUFFICES ASSUME StopInv, [Next]_vars
               PROVE  StopInv'
    OBVIOUS
  <2>1. CASE Next
    BY <2>1, UserKeeps, LoopKeeps, WorkKeeps, SurroundingsKeep DEF Next
  <2>2. CASE UNCHANGED vars
    BY <2>2, Stay DEF vars, StopInv, Shape, WorkerShape
  <2> QED BY <2>1, <2>2
<1> QED BY <1>1, <1>2, PTL DEF Spec

\* A user who has paused or stopped a job sees at most one more of its subjects applied,
\* whoever applies it: the worker that had it in hand, or the recovery of the bundle it
\* left.  The control of an automatic preview between its seal and its apply is excepted.
THEOREM StopIsHonouredHolds ==
    ASSUME "controlOnSealed" \notin Admits
    PROVE  Spec => []StopIsHonoured
<1>1. StopInv => StopIsHonoured
  BY DEF StopInv, OneMore, StopIsHonoured, Undisturbed
<1> QED BY <1>1, StopInvariant, PTL

-----------------------------------------------------------------------------
(* Wakeups *)

WakeInv ==
    /\ DOMAIN worker = {"pc", "job", "item", "todo", "forced", "fresh"}
    /\ wake \in [news : BOOLEAN, event : BOOLEAN]
    /\ WakeupKept

LEMMA Stirs ==
    ASSUME DOMAIN worker = {"pc", "job", "item", "todo", "forced", "fresh"}, NEW pc, worker' = Moved(pc)
    PROVE  DOMAIN worker' = DOMAIN worker /\ worker'.pc = pc
BY DEF Moved

\* A worker that is asleep is only woken, and one that goes to sleep has read every notify.
LEMMA WakeStep ==
    ASSUME WakeInv, Next
    PROVE  WakeInv'
<1> DEFINE fields == {"pc", "job", "item", "todo", "forced", "fresh"}
<1>1. DOMAIN worker = fields /\ wake \in [news : BOOLEAN, event : BOOLEAN]
  BY DEF WakeInv
<1>2. ASSUME DOMAIN worker' = fields, worker'.pc # "asleep", UNCHANGED wake
      PROVE  WakeInv'
  BY <1>1, <1>2 DEF WakeInv, WakeupKept, At
<1>3. ASSUME NEW pc, Goes(pc), pc # "asleep", UNCHANGED wake
      PROVE  WakeInv'
  BY <1>1, <1>2, <1>3, Stirs DEF Goes
<1>4. ASSUME DOMAIN worker' = fields, worker'.pc = worker.pc, UNCHANGED wake
      PROVE  WakeInv'
  BY <1>1, <1>4 DEF WakeInv, WakeupKept, At
<1>5. ASSUME NEW j \in Jobs, UserStep(j)
      PROVE  WakeInv'
  <2>1. Touched(j) \/ UNCHANGED worker
    BY <1>5 DEF UserStep, Create, Pause, Stop, Resume, Accept, Discard, Apply, Controls
  <2>2. DOMAIN worker' = fields /\ worker'.pc = worker.pc
    BY <1>1, <2>1 DEF Touched, J
  <2>3. UNCHANGED wake
    BY <1>5 DEF UserStep, Create, Pause, Stop, Resume, Accept, Discard, Apply, Controls, userVars
  <2> QED BY <1>4, <2>2, <2>3
<1>6. CASE Notify
  <2>1. wake' = [news |-> TRUE, event |-> TRUE] /\ UNCHANGED worker
    BY <1>6 DEF Notify
  <2> QED BY <1>1, <2>1 DEF WakeInv, WakeupKept
<1>7. CASE ReadRevision
  <2>1. wake' = [wake EXCEPT !.news = FALSE] /\ Goes("recover")
    BY <1>7 DEF ReadRevision
  <2>2. DOMAIN worker' = fields /\ worker'.pc = "recover"
    BY <1>1, <2>1, Stirs DEF Goes
  <2> QED BY <1>1, <2>1, <2>2 DEF WakeInv, WakeupKept, At
<1>8. ASSUME NEW j, Done(j), UNCHANGED wake
      PROVE  WakeInv'
  <2>1. DOMAIN worker' = fields /\ worker'.pc = "bundles"
    BY <1>1, <1>8 DEF Done, Moved
  <2> QED BY <1>2, <1>8, <2>1
<1>9. CASE RecoverLeases
  <2>1. DOMAIN worker' = fields /\ worker'.pc = "bundles" /\ UNCHANGED wake
    BY <1>1, <1>9 DEF RecoverLeases
  <2> QED BY <1>2, <2>1
<1>10. CASE RecoverAdopts \/ RecoverFails
  BY <1>8, <1>10 DEF RecoverAdopts, RecoverFails, recoveryVars
<1>11. CASE RecoveryEnds
  BY <1>3, <1>11 DEF RecoveryEnds, recoveryVars
<1>12. ASSUME NEW j \in Jobs, RecoveryStep(j)
       PROVE  WakeInv'
  <2>1. UNCHANGED wake
    BY <1>12 DEF RecoveryStep, RecoverCommitted, Compensate, ClaimBundle, recoveryVars
  <2>2. Done(j) \/ worker' = [worker EXCEPT !.pc = "recovering", !.job = j, !.item = torn[j].item]
    BY <1>12 DEF RecoveryStep, RecoverCommitted, Compensate, ClaimBundle
  <2> QED BY <1>1, <1>2, <1>8, <2>1, <2>2
<1>13. ASSUME NEW j \in Jobs, ClaimJob(j)
       PROVE  WakeInv'
  <2>1. worker' = [worker EXCEPT !.pc = FirstStep(j), !.job = j, !.item = 0] /\ UNCHANGED wake
    BY <1>13 DEF ClaimJob
  <2>2. FirstStep(j) # "asleep"
    BY DEF FirstStep
  <2> QED BY <1>1, <1>2, <2>1, <2>2
<1>14. CASE ClaimNothing \/ Wakes
  BY <1>3, <1>14 DEF ClaimNothing, Wakes
<1>15. CASE Wait
  <2>1. CASE wake.news
    BY <1>3, <1>15, <2>1 DEF Wait
  <2>2. CASE ~wake.news
    <3>1. Goes("asleep") /\ wake' = [wake EXCEPT !.event = FALSE]
      BY <1>15, <2>2 DEF Wait
    <3>2. DOMAIN worker' = fields
      BY <1>1, <3>1, Stirs DEF Goes
    <3> QED BY <1>1, <2>2, <3>1, <3>2 DEF WakeInv, WakeupKept
  <2> QED BY <2>1, <2>2
<1>16. CASE WorkStep
  <2>1. UNCHANGED wake
    BY <1>16 DEF WorkStep, StageCheckpoint, Checkpoint, CheckpointAt, Stage, TakeWork, ApplyReview,
                 ApplyFaults, FinishBulk, TakeEvaluation, EvaluateStale, Evaluate, Halt, Record,
                 RecordFaults, PlanLost, Plan, Seal, ReadSealed, ApplyAutomatically, Publish, Commit,
                 Rollback, Clean, FinishApply, stepVars
  <2>2. \/ \E pc \in Pcs \ {"asleep"} : Goes(pc)
        \/ worker' = [Moved("read") EXCEPT !.fresh = FALSE]
        \/ worker' = [worker EXCEPT !.pc = "automatic", !.fresh = TRUE]
        \/ \E i : worker' = [worker EXCEPT !.pc = "apply", !.item = i]
    BY <1>16 DEF WorkStep, StageCheckpoint, Checkpoint, CheckpointAt, Stage, TakeWork, ApplyReview,
                 ApplyFaults, FinishBulk, TakeEvaluation, EvaluateStale, Evaluate, Halt, Record,
                 RecordFaults, PlanLost, Plan, Seal, ReadSealed, ApplyAutomatically, Publish, Commit,
                 Rollback, Clean, FinishApply, Fault, Pcs
  <2>3. CASE \E pc \in Pcs \ {"asleep"} : Goes(pc)
    BY <1>3, <2>1, <2>3
  <2>4. CASE worker' = [Moved("read") EXCEPT !.fresh = FALSE]
    BY <1>1, <1>2, <2>1, <2>4 DEF Moved
  <2>5. CASE worker' = [worker EXCEPT !.pc = "automatic", !.fresh = TRUE]
    BY <1>1, <1>2, <2>1, <2>5
  <2>6. CASE \E i : worker' = [worker EXCEPT !.pc = "apply", !.item = i]
    BY <1>1, <1>2, <2>1, <2>6
  <2> QED BY <2>2, <2>3, <2>4, <2>5, <2>6
<1>17. CASE Renew
  BY <1>1, <1>4, <1>17 DEF Renew, stepVars
<1>18. CASE Restart
  <2>1. DOMAIN worker' = fields /\ worker'.pc = "bundles" /\ wake' = [news |-> FALSE, event |-> FALSE]
    BY <1>18 DEF Restart, Idle
  <2> QED BY <2>1 DEF WakeInv, WakeupKept, At
<1>19. CASE Surroundings /\ ~Restart
  BY <1>1, <1>4, <1>19 DEF Surroundings, LeaseExpires, ScanBegins, ScanEnds
<1> QED
  BY <1>5, <1>6, <1>7, <1>9, <1>10, <1>11, <1>12, <1>13, <1>14, <1>15, <1>16, <1>17, <1>18, <1>19
  DEF Next, LoopStep

LEMMA WakeInvariant == Spec => []WakeInv
<1>1. Init => WakeInv
  BY DEF Init, Idle, WakeInv, WakeupKept, At
<1>2. WakeInv /\ [Next]_vars => WakeInv'
  BY WakeStep DEF vars, WakeInv, WakeupKept, At
<1> QED BY <1>1, <1>2, PTL DEF Spec

\* A notify that comes after the loop has read the revision, in whatever step it finds the
\* loop, is not lost: the loop does not sleep on a cleared event.
THEOREM WakeupKeptHolds == Spec => []WakeupKept
<1>1. WakeInv => WakeupKept
  BY DEF WakeInv
<1> QED BY <1>1, WakeInvariant, PTL

-----------------------------------------------------------------------------
(* Counters: the invariant *)

Rest(j, states) == \A i \in Items(j) : work[j][i] \in states
Quiet(j) == \A i \in Items(j) : work[j][i] # "running"
Unstarted(j) == Rest(j, {"absent"})
Staged(j) == Rest(j, WorkStates \ {"absent"})

\* CountersAgree of one job.
Tally(j) ==
    /\ job[j].completed = Count(j, Terminal)
    /\ job[j].succeeded = Count(j, {"succeeded"})
    /\ job[j].failed = Count(j, {"failed"})
    /\ job[j].skipped = Count(j, {"skipped"})
    /\ ~Reidentification(j) =>
          \A i \in Items(j) : applied[j][i] = IF work[j][i] = "succeeded" THEN 1 ELSE 0

\* What the state of a row says of its work.
Standing(j) ==
    /\ job[j].lease = "none" <=> job[j].state # "running"
    /\ job[j].retryable => Reidentification(j) /\ job[j].state = "failed" /\ work[j][1] = "failed"
    /\ job[j].state = "absent" => Unstarted(j)
    /\ job[j].state \in {"queued", "paused", "stopped"} => Quiet(j)
    /\ job[j].state = "succeeded" => Rest(j, Terminal)

\* What its phase says: a bulk review is staged from the first subject on, and a preview has
\* no work before it is applied.
Phases(j) ==
    /\ Reidentification(j) /\ job[j].state = "ready" => work[j][1] \in Terminal
    /\ Bulk(j) =>
          /\ job[j].phase \in {"staging", "staged"}
          /\ job[j].state # "ready"
          /\ \E n \in 0 .. Size[j] : \A i \in Items(j) : work[j][i] # "absent" <=> i <= n
          /\ job[j].phase = "staged" => Staged(j)
    /\ Management(j) =>
          /\ job[j].phase \in {"planning", "ready", "applying", "complete"}
          /\ job[j].phase \in {"planning", "ready"} => Unstarted(j)
          /\ job[j].phase \in {"applying", "complete"} => Staged(j)
          /\ job[j].phase = "ready" => job[j].state \in {"ready", "cancelled"}
          /\ job[j].phase = "complete" => job[j].state \in {"succeeded", "failed"}

RowShape(j) == work[j] \in [Items(j) -> WorkStates] /\ applied[j] \in [Items(j) -> Nat]

Good(j) == RowShape(j) /\ Tally(j) /\ Standing(j) /\ Phases(j)

RunsOnly(j, i) ==
    i \in Items(j) /\ work[j][i] = "running" /\ \A k \in Items(j) : work[j][k] = "running" => k = i

\* The one subject that runs in a job is the one the worker has, and it has none between two.
InHandInv ==
    /\ worker.pc \in {"apply", "commit", "recovering"} => RunsOnly(worker.job, worker.item)
    /\ worker.pc \in {"stageCheck", "stage", "check", "take", "clean", "finish", "evaluateTake"} =>
          Quiet(worker.job)
    /\ worker.pc = "finish" => Pending(worker.job) = {}
    /\ worker.pc \in {"stageCheck", "stage"} => Bulk(worker.job)
    /\ worker.pc \in {"evaluateTake", "evaluate", "halt", "record"} => Reidentification(worker.job)
    /\ worker.pc \in {"evaluate", "halt", "record"} => work[worker.job][1] = "running"
    /\ worker.pc \in {"plan", "seal"} => job[worker.job].phase = "planning"
    /\ worker.pc \in {"check", "take", "apply", "finish"} =>
          ~Reidentification(worker.job) /\ (Bulk(worker.job) => job[worker.job].phase = "staged")
    /\ worker.pc \in {"recovering", "clean", "plan", "seal", "sealed", "automatic"} =>
          Management(worker.job)

\* A bundle whose files are prepared is in the worker's hand, or startup recovery will see it.
TornInv ==
    \A j \in Jobs :
        /\ torn[j] \in [item : {0} \union Items(j), at : {"none", "prepared", "rollback", "committed"}]
        /\ torn[j].at # "none" => torn[j].item \in Items(j) /\ job[j].phase \in {"applying", "complete"}
        /\ torn[j].at = "prepared" =>
              /\ \A k \in Items(j) : work[j][k] = "running" => k = torn[j].item
              /\ \/ worker.pc \in {"commit", "recovering"} /\ worker.job = j
                 \/ worker.pc \in {"bundles", "recovering"} /\ worker.forced /\ j \in worker.todo

Domains == work = [j \in Jobs |-> work[j]] /\ applied = [j \in Jobs |-> applied[j]]

CountInv == Domains /\ (\A j \in Jobs : Good(j)) /\ InHandInv /\ TornInv

-----------------------------------------------------------------------------
(* Counting *)

LEMMA ItemsFinite ==
    ASSUME NEW j \in Jobs, NEW states
    PROVE  IsFiniteSet({i \in Items(j) : work[j][i] \in states}) /\ Count(j, states) \in Nat
<1>1. Size[j] \in Nat
  BY OperationsAssumption
<1>2. IsFiniteSet(Items(j))
  BY <1>1, FS_Interval DEF Items
<1>3. {i \in Items(j) : work[j][i] \in states} \in SUBSET Items(j)
  OBVIOUS
<1> QED BY <1>2, <1>3, FS_Subset, FS_CardinalityType DEF Count

LEMMA CountSame ==
    ASSUME NEW j \in Jobs, NEW states,
           \A i \in Items(j) : work'[j][i] \in states <=> work[j][i] \in states
    PROVE  Count(j, states)' = Count(j, states)
<1>1. {i \in Items(j) : work'[j][i] \in states} = {i \in Items(j) : work[j][i] \in states}
  OBVIOUS
<1> QED BY <1>1 DEF Count

\* One subject more is in one of the states, if it comes to one of them from none of them.
LEMMA CountMore ==
    ASSUME NEW j \in Jobs, NEW states, NEW i \in Items(j), NEW state,
           work[j] \in [Items(j) -> WorkStates], work'[j] = [work[j] EXCEPT ![i] = state],
           work[j][i] \notin states
    PROVE  Count(j, states)' = IF state \in states THEN Count(j, states) + 1 ELSE Count(j, states)
<1> DEFINE those == {k \in Items(j) : work[j][k] \in states}
           now == {k \in Items(j) : work'[j][k] \in states}
<1>1. IsFiniteSet(those) /\ i \notin those
  BY ItemsFinite
<1>2. Count(j, states)' = Cardinality(now) /\ Count(j, states) = Cardinality(those)
  BY DEF Count
<1>3. CASE state \in states
  <2>1. now = those \union {i}
    BY <1>3
  <2> HIDE DEF those, now
  <2> QED BY <1>1, <1>2, <1>3, <2>1, FS_AddElement
<1>4. CASE state \notin states
  <2>1. now = those
    BY <1>4
  <2> QED BY <1>2, <1>4, <2>1
<1> QED BY <1>3, <1>4

SameCounts(row, old) ==
    /\ row.completed = old.completed /\ row.succeeded = old.succeeded
    /\ row.failed = old.failed /\ row.skipped = old.skipped

\* Nothing that was counted changes.
LEMMA TallyKept ==
    ASSUME NEW j \in Jobs, Tally(j), SameCounts(job'[j], job[j]), applied'[j] = applied[j],
           \A i \in Items(j) :
               work'[j][i] = work[j][i] \/ (work[j][i] \notin Terminal /\ work'[j][i] \notin Terminal)
    PROVE  Tally(j)'
<1>1. /\ Count(j, Terminal)' = Count(j, Terminal)
      /\ Count(j, {"succeeded"})' = Count(j, {"succeeded"})
      /\ Count(j, {"failed"})' = Count(j, {"failed"})
      /\ Count(j, {"skipped"})' = Count(j, {"skipped"})
  BY CountSame DEF Terminal
<1> QED BY <1>1 DEF Tally, SameCounts, Terminal, Reidentification

\* A subject is done and counted, and applied if it has succeeded.
LEMMA TallyCounted ==
    ASSUME NEW j \in Jobs, Tally(j), RowShape(j), NEW i \in Items(j), NEW state \in Terminal,
           work[j][i] \notin Terminal, work'[j] = [work[j] EXCEPT ![i] = state],
           NEW row \in JobRow, SameCounts(row, job[j]), SameCounts(job'[j], Counted(row, state)),
           applied'[j] = IF state = "succeeded" THEN [applied[j] EXCEPT ![i] = @ + 1] ELSE applied[j]
    PROVE  Tally(j)'
<1>1. /\ Count(j, Terminal)' = Count(j, Terminal) + 1
      /\ Count(j, {"succeeded"})' =
            IF state = "succeeded" THEN Count(j, {"succeeded"}) + 1 ELSE Count(j, {"succeeded"})
      /\ Count(j, {"failed"})' = IF state = "failed" THEN Count(j, {"failed"}) + 1 ELSE Count(j, {"failed"})
      /\ Count(j, {"skipped"})' =
            IF state = "skipped" THEN Count(j, {"skipped"}) + 1 ELSE Count(j, {"skipped"})
  <2>1. ASSUME NEW states, states \subseteq Terminal
        PROVE  Count(j, states)' = IF state \in states THEN Count(j, states) + 1 ELSE Count(j, states)
    BY <2>1, CountMore DEF RowShape
  <2>2. {"succeeded"} \subseteq Terminal /\ {"failed"} \subseteq Terminal /\ {"skipped"} \subseteq Terminal
    BY DEF Terminal
  <2>3. Count(j, Terminal)' = Count(j, Terminal) + 1
    BY <2>1
  <2>4. Count(j, {"succeeded"})' =
            IF state = "succeeded" THEN Count(j, {"succeeded"}) + 1 ELSE Count(j, {"succeeded"})
    BY <2>1, <2>2
  <2>5. Count(j, {"failed"})' = IF state = "failed" THEN Count(j, {"failed"}) + 1 ELSE Count(j, {"failed"})
    BY <2>1, <2>2
  <2>6. Count(j, {"skipped"})' = IF state = "skipped" THEN Count(j, {"skipped"}) + 1 ELSE Count(j, {"skipped"})
    BY <2>1, <2>2
  <2> QED BY <2>3, <2>4, <2>5, <2>6
<1>2. /\ job'[j].completed = row.completed + 1
      /\ job'[j].succeeded = IF state = "succeeded" THEN row.succeeded + 1 ELSE row.succeeded
      /\ job'[j].failed = IF state = "failed" THEN row.failed + 1 ELSE row.failed
      /\ job'[j].skipped = IF state = "skipped" THEN row.skipped + 1 ELSE row.skipped
  BY DEF SameCounts, Counted, JobRow
<1>3. ~Reidentification(j) =>
         \A k \in Items(j) : applied'[j][k] = IF work'[j][k] = "succeeded" THEN 1 ELSE 0
  BY DEF Tally, RowShape, Terminal
<1> QED BY <1>1, <1>2, <1>3 DEF Tally, SameCounts, Reidentification

\* There is something pending exactly if there is a first that is.
LEMMA FirstPending ==
    ASSUME NEW j \in Jobs, Pending(j) # {}
    PROVE  LET first == CHOOSE i \in Pending(j) : \A k \in Pending(j) : i <= k IN first \in Pending(j)
<1> DEFINE R == Pending(j)
           n == Size[j]
           T == {1 .. r : r \in R}
<1>1. n \in Nat /\ R \subseteq 1 .. n
  BY OperationsAssumption DEF Pending, Items
<1> HIDE DEF R, n
<1>2. T \subseteq FiniteSubsetsOf(1 .. n) /\ T # {}
  <2>1. \A r \in R : 1 .. r \in FiniteSubsetsOf(1 .. n)
    <3> TAKE r \in R
    <3>1. r \in Int /\ 1 .. r \in SUBSET (1 .. n)
      BY <1>1
    <3>2. IsFiniteSet(1 .. r)
      BY <3>1, FS_Interval
    <3> QED BY <3>1, <3>2 DEF FiniteSubsetsOf
  <2> QED BY <2>1 DEF R
<1>3. PICK x \in T : \A y \in T : ~(<<y, x>> \in StrictSubsetOrdering(1 .. n))
  BY <1>1, <1>2, FS_StrictSubsetOrderingWellFounded, WFMin
<1>4. PICK m \in R : x = 1 .. m
  OBVIOUS
<1>5. \A q \in R : m <= q
  <2> SUFFICES ASSUME NEW q \in R, q < m PROVE FALSE
    BY <1>1
  <2>1. (1 .. q) \in T
    OBVIOUS
  <2>2. m \in 1 .. m /\ m \notin 1 .. q /\ (1 .. q) \subseteq (1 .. m) /\ (1 .. m) \subseteq (1 .. n)
    BY <1>1
  <2>3. <<1 .. q, x>> \in StrictSubsetOrdering(1 .. n)
    BY <1>4, <2>2 DEF StrictSubsetOrdering
  <2> QED BY <1>3, <2>1, <2>3
<1> QED BY <1>5 DEF R

-----------------------------------------------------------------------------
(* Counters: one row after a step *)

KeptRow(j) ==
    /\ SameCounts(job'[j], job[j]) /\ job'[j].phase = job[j].phase /\ applied'[j] = applied[j]

LEMMA GoodSame ==
    ASSUME NEW j \in Jobs, Good(j), job'[j] = job[j], work'[j] = work[j], applied'[j] = applied[j]
    PROVE  Good(j)'
<1>1. Tally(j)'
  BY TallyKept DEF Good, SameCounts
<1>2. RowShape(j)' /\ Standing(j)' /\ Phases(j)'
  BY DEF Good, RowShape, Standing, Phases, Rest, Unstarted, Quiet, Staged, Items, Bulk, Reidentification, Management
<1> QED BY <1>1, <1>2 DEF Good

LEMMA RequeuedRows ==
    ASSUME NEW j \in Jobs, RowShape(j), work'[j] = Requeued(work[j])
    PROVE  /\ work'[j] \in [Items(j) -> WorkStates]
           /\ Quiet(j)'
           /\ \A i \in Items(j) : /\ work'[j][i] \in Terminal <=> work[j][i] \in Terminal
                                  /\ work[j][i] # "running" => work'[j][i] = work[j][i]
                                  /\ work'[j][i] = "absent" <=> work[j][i] = "absent"
BY DEF RowShape, Requeued, WorkStates, Quiet, Items, Terminal

\* The rows stay, or those that ran are pending again, and no counter and no phase changes.
LEMMA GoodKept ==
    ASSUME NEW j \in Jobs, Good(j), KeptRow(j),
           work'[j] = work[j] \/ (work'[j] = Requeued(work[j]) /\ job'[j].state # "succeeded"),
           job'[j].lease = "none" <=> job'[j].state # "running",
           job'[j].state \in {"queued", "paused", "stopped"} => Quiet(j) \/ work'[j] = Requeued(work[j]),
           job'[j].retryable => job[j].retryable /\ job'[j].state = "failed",
           job'[j].state # "absent",
           job'[j].state = "succeeded" => Rest(j, Terminal),
           job'[j].state = "ready" => job[j].state = "ready",
           job[j].phase = "ready" => job'[j].state \in {"ready", "cancelled"} \/ ~Management(j),
           job[j].phase = "complete" => job'[j].state \in {"succeeded", "failed"} \/ ~Management(j)
    PROVE  Good(j)'
<1>1. \A i \in Items(j) :
         /\ work'[j][i] = work[j][i] \/ (work[j][i] \notin Terminal /\ work'[j][i] \notin Terminal)
         /\ work'[j][i] = "absent" <=> work[j][i] = "absent"
         /\ work[j][i] # "running" => work'[j][i] = work[j][i]
  BY RequeuedRows DEF Good, RowShape, Requeued, Terminal
<1>2. Tally(j)'
  BY <1>1, TallyKept DEF Good, KeptRow
<1>3. RowShape(j)' /\ (work'[j] = Requeued(work[j]) => Quiet(j)')
  BY RequeuedRows DEF Good, RowShape, KeptRow, Items
<1>4. Standing(j)'
  <2>1. job'[j].retryable => Reidentification(j) /\ job'[j].state = "failed" /\ work'[j][1] = "failed"
    BY <1>1, OperationsAssumption DEF Good, Standing, Items, Reidentification
  <2>2. job'[j].state \in {"queued", "paused", "stopped"} => Quiet(j)'
    BY <1>1, <1>3 DEF Quiet, Items
  <2>3. job'[j].state = "succeeded" => Rest(j, Terminal)'
    BY DEF Rest, Items, Terminal
  <2> QED BY <2>1, <2>2, <2>3 DEF Standing, Reidentification
<1>5. Phases(j)'
  <2>1. Reidentification(j) /\ job'[j].state = "ready" => work'[j][1] \in Terminal
    BY <1>1, OperationsAssumption DEF Good, Phases, Items, Reidentification, Terminal
  <2>2. Bulk(j) => \E n \in 0 .. Size[j] : \A i \in Items(j) : work'[j][i] # "absent" <=> i <= n
    BY <1>1 DEF Good, Phases
  <2>3. Unstarted(j) => Unstarted(j)'
    BY <1>1 DEF Unstarted, Rest, Items
  <2>4. Staged(j) => Staged(j)'
    BY <1>1, <1>3 DEF Staged, Rest, Items, RowShape
  <2> QED BY <2>1, <2>2, <2>3, <2>4 DEF Good, Phases, KeptRow, Bulk, Management, Reidentification, Items
<1> QED BY <1>2, <1>3, <1>4, <1>5 DEF Good

\* A subject that was pending or running is done.
LEMMA GoodCounted ==
    ASSUME NEW j \in Jobs, Good(j), NEW i \in Items(j), NEW state \in Terminal,
           work[j][i] \in {"pending", "running"}, work'[j] = [work[j] EXCEPT ![i] = state],
           NEW row \in JobRow, SameCounts(row, job[j]), SameCounts(job'[j], Counted(row, state)),
           applied'[j] = IF state = "succeeded" THEN [applied[j] EXCEPT ![i] = @ + 1] ELSE applied[j],
           job'[j].phase = job[j].phase, ~job'[j].retryable,
           job'[j].lease = "none" <=> job'[j].state # "running",
           job'[j].state \notin {"absent", "ready", "paused", "stopped"},
           job'[j].state = "queued" => Quiet(j)',
           job'[j].state = "succeeded" => Rest(j, Terminal)',
           Management(j) => \/ job[j].phase = "applying"
                            \/ job[j].phase = "complete" /\ job'[j].state \in {"succeeded", "failed"}
    PROVE  Good(j)'
<1>1. RowShape(j)' /\ work[j][i] \notin Terminal
  <2>1. work[j] \in [Items(j) -> WorkStates] /\ applied[j] \in [Items(j) -> Nat]
    BY DEF Good, RowShape
  <2>2. work'[j] \in [Items(j) -> WorkStates]
    BY <2>1 DEF Terminal, WorkStates
  <2>3. applied'[j] \in [Items(j) -> Nat]
    BY <2>1
  <2> QED BY <2>2, <2>3 DEF RowShape, Terminal, Items
<1>2. Tally(j)'
  BY <1>1, TallyCounted DEF Good
<1>3. Standing(j)'
  BY DEF Standing
<1>4. \A k \in Items(j) : work'[j][k] = "absent" <=> work[j][k] = "absent"
  BY DEF Good, RowShape, Terminal
<1>5. Phases(j)'
  <2>1. Bulk(j) => \E n \in 0 .. Size[j] : \A k \in Items(j) : work'[j][k] # "absent" <=> k <= n
    BY <1>4 DEF Good, Phases
  <2>2. Staged(j) => Staged(j)'
    BY <1>1, <1>4 DEF Staged, Rest, Items, RowShape
  <2> QED BY <2>1, <2>2 DEF Good, Phases, Bulk, Management, Reidentification, Items
<1> QED BY <1>1, <1>2, <1>3, <1>5 DEF Good

\* A subject that was pending, or had been left running, is the worker's.
LEMMA GoodStarted ==
    ASSUME NEW j \in Jobs, Good(j), NEW i \in Items(j), work[j][i] \in {"pending", "running"},
           work'[j] = [work[j] EXCEPT ![i] = "running"], KeptRow(j),
           job'[j].state = "running", job'[j].lease # "none", ~job'[j].retryable,
           Management(j) => job[j].phase = "applying"
    PROVE  Good(j)'
<1>1. RowShape(j)'
  BY DEF Good, RowShape, KeptRow, WorkStates, Items
<1>2. Tally(j)'
  BY TallyKept DEF Good, RowShape, KeptRow, Terminal
<1>3. \A k \in Items(j) : work'[j][k] = "absent" <=> work[j][k] = "absent"
  BY DEF Good, RowShape
<1>4. Phases(j)'
  <2>1. Bulk(j) => \E n \in 0 .. Size[j] : \A k \in Items(j) : work'[j][k] # "absent" <=> k <= n
    BY <1>3 DEF Good, Phases
  <2>2. Staged(j) => Staged(j)'
    BY <1>1, <1>3 DEF Staged, Rest, Items, RowShape
  <2> QED BY <2>1, <2>2 DEF Good, Phases, KeptRow, Bulk, Management, Reidentification, Items
<1> QED BY <1>1, <1>2, <1>4 DEF Good, Standing

\* Subjects that had no row get a pending one.
LEMMA GoodPending ==
    ASSUME NEW j \in Jobs, Good(j), SameCounts(job'[j], job[j]), applied'[j] = applied[j],
           \A i \in Items(j) : \/ work'[j][i] = work[j][i]
                               \/ work[j][i] = "absent" /\ work'[j][i] = "pending",
           DOMAIN work'[j] = Items(j), work'[j] = [i \in Items(j) |-> work'[j][i]],
           job'[j].state \in {"queued", "running"}, Quiet(j),
           job'[j].lease = "none" <=> job'[j].state # "running", ~job'[j].retryable,
           Phases(j)'
    PROVE  Good(j)' /\ Quiet(j)'
<1>1. RowShape(j)'
  <2>1. \A i \in Items(j) : work'[j][i] \in WorkStates
    BY DEF Good, RowShape, WorkStates
  <2> QED BY <2>1 DEF Good, RowShape, Items
<1>2. Tally(j)'
  BY TallyKept DEF Good, Terminal
<1>3. Quiet(j)'
  BY DEF Quiet, Items
<1> QED BY <1>1, <1>2, <1>3 DEF Good, Standing

\* The rows of the other jobs stay.
RestStays(j) ==
    /\ Domains'
    /\ \A k \in Jobs \ {j} : job'[k] = job[k] /\ work'[k] = work[k] /\ applied'[k] = applied[k]

LEMMA ReleasedCounts ==
    ASSUME NEW row \in JobRow, NEW state \in JobStates
    PROVE  /\ SameCounts(Released(row, state), row) /\ Released(row, state) \in JobRow
           /\ Released(row, state).state = state /\ Released(row, state).lease = "none"
           /\ Released(row, state).retryable = row.retryable /\ Released(row, state).phase = row.phase
BY DEF Released, SameCounts, JobRow

\* A job that runs is neither a preview that is ready nor an apply that is complete.
LEMMA RunningRow ==
    ASSUME NEW j \in Jobs, Good(j), job[j].state = "running"
    PROVE  /\ ~job[j].retryable /\ job[j].lease # "none"
           /\ Management(j) => job[j].phase \in {"planning", "applying"}
BY DEF Good, Standing, Phases

LEMMA SettledGood ==
    ASSUME Shape, Domains, NEW j \in Jobs, Good(j), job[j].state = "running", Settle(j), UNCHANGED applied
    PROVE  Good(j)' /\ RestStays(j) /\ job'[j].phase = job[j].phase
<1> DEFINE state == IF job[j].control = "pause" THEN "paused" ELSE "stopped"
           released == Released(job[j], state)
<1>1. state \in {"paused", "stopped"} /\ state \in JobStates
  BY DEF JobStates
<1> HIDE DEF state
<1>2. /\ SameCounts(released, job[j]) /\ released \in JobRow
      /\ released.state = state /\ released.lease = "none"
      /\ ~released.retryable /\ released.phase = job[j].phase
  BY <1>1, ReleasedCounts, RunningRow DEF Shape
<1> HIDE DEF released
<1> DEFINE row == [released EXCEPT !.control = "none"]
<1>3. /\ SameCounts(row, job[j]) /\ row.state = state /\ row.lease = "none"
      /\ ~row.retryable /\ row.phase = job[j].phase
  BY <1>2 DEF JobRow, SameCounts
<1>4. job' = [job EXCEPT ![j] = row]
  BY DEF Settle, state, released, row
<1> HIDE DEF row
<1>5. job'[j] = row /\ work'[j] = Requeued(work[j])
  BY <1>4 DEF Settle, Shape, Domains
<1>6. RestStays(j)
  BY <1>4 DEF Settle, RestStays, Domains, Shape
<1> QED BY <1>1, <1>3, <1>5, <1>6, GoodKept, RunningRow DEF KeptRow

LEMMA FailedGood ==
    ASSUME Shape, Domains, NEW j \in Jobs, Good(j), job[j].state = "running", Finish(j, "failed"),
           UNCHANGED <<work, applied>>
    PROVE  Good(j)' /\ RestStays(j) /\ job'[j].phase = job[j].phase
<1> DEFINE released == Released(job[j], "failed")
           row == [released EXCEPT !.retryable = FALSE]
<1>1. /\ SameCounts(released, job[j]) /\ released \in JobRow
      /\ released.state = "failed" /\ released.lease = "none" /\ released.phase = job[j].phase
  BY ReleasedCounts DEF Shape, JobStates
<1>2. job' = [job EXCEPT ![j] = row]
  BY DEF Finish
<1> HIDE DEF released
<1>3. /\ SameCounts(row, job[j]) /\ row.state = "failed" /\ row.lease = "none"
      /\ ~row.retryable /\ row.phase = job[j].phase
  BY <1>1 DEF JobRow, SameCounts
<1> HIDE DEF row
<1>4. job'[j] = row
  BY <1>2 DEF Shape
<1>5. RestStays(j)
  BY <1>2 DEF RestStays, Domains, Shape
<1> QED BY <1>3, <1>4, <1>5, GoodKept, RunningRow DEF KeptRow

LEMMA RequeuedGood ==
    ASSUME Shape, NEW j \in Jobs, Good(j), job[j].state = "running",
           job'[j] = Released(job[j], "queued"), applied'[j] = applied[j],
           (work'[j] = work[j] /\ Quiet(j)) \/ work'[j] = Requeued(work[j])
    PROVE  Good(j)'
<1>1. /\ SameCounts(job'[j], job[j]) /\ job'[j].state = "queued" /\ job'[j].lease = "none"
      /\ ~job'[j].retryable /\ job'[j].phase = job[j].phase
  BY ReleasedCounts, RunningRow DEF Shape, JobStates
<1> QED BY <1>1, GoodKept, RunningRow DEF KeptRow

LEMMA BundleFailedGood ==
    ASSUME Shape, Domains, NEW j \in Jobs, Good(j), NEW i \in Items(j), Management(j),
           job[j].phase \in {"applying", "complete"}, FailBundle(j, i), UNCHANGED applied
    PROVE  Good(j)' /\ job'[j].phase = job[j].phase
<1> DEFINE released == Released(job[j], "failed")
           row == [released EXCEPT !.retryable = FALSE]
           counted == Counted(row, "failed")
<1>1. /\ SameCounts(released, job[j]) /\ released \in JobRow
      /\ released.state = "failed" /\ released.lease = "none" /\ released.phase = job[j].phase
  BY ReleasedCounts DEF Shape, JobStates
<1>2. IF work[j][i] \in {"pending", "running"}
      THEN job' = [job EXCEPT ![j] = counted] /\ work' = [work EXCEPT ![j][i] = "failed"]
      ELSE job' = [job EXCEPT ![j] = row] /\ work' = work
  BY DEF FailBundle
<1> HIDE DEF released
<1>3. /\ SameCounts(row, job[j]) /\ row.state = "failed" /\ row.lease = "none"
      /\ ~row.retryable /\ row.phase = job[j].phase /\ row \in JobRow
  BY <1>1 DEF JobRow, SameCounts
<1> HIDE DEF row
<1>4. CASE work[j][i] \in {"pending", "running"}
  <2>1. job'[j] = counted /\ work'[j] = [work[j] EXCEPT ![i] = "failed"] /\ applied'[j] = applied[j]
    BY <1>2, <1>4 DEF Shape, Domains
  <2>2. /\ counted.state = "failed" /\ counted.lease = "none" /\ ~counted.retryable
        /\ counted.phase = job[j].phase
    BY <1>3 DEF Counted, JobRow
  <2>3. SameCounts(job'[j], Counted(row, "failed"))
    BY <2>1 DEF SameCounts
  <2> HIDE DEF counted
  <2> QED BY <1>3, <1>4, <2>1, <2>2, <2>3, GoodCounted DEF Terminal
<1>5. CASE work[j][i] \notin {"pending", "running"}
  <2>1. job'[j] = row /\ work'[j] = work[j] /\ applied'[j] = applied[j]
    BY <1>2, <1>5 DEF Shape
  <2> QED BY <1>3, <2>1, GoodKept DEF KeptRow
<1> QED BY <1>4, <1>5

-----------------------------------------------------------------------------
(* Counters: users *)

LEMMA RestGood ==
    ASSUME CountInv, NEW j \in Jobs, RestStays(j), Good(j)'
    PROVE  Domains' /\ \A k \in Jobs : Good(k)'
<1>1. ASSUME NEW k \in Jobs, k # j
      PROVE  Good(k)'
  BY <1>1, GoodSame DEF CountInv, RestStays
<1> QED BY <1>1 DEF RestStays

LEMMA BegunGood ==
    ASSUME Shape, Domains, NEW j \in Jobs, Good(j), BeginApply(j), UNCHANGED applied
    PROVE  RestStays(j) /\ Good(j)' /\ job'[j].phase = "applying" /\ job'[j].state = "queued"
<1> DEFINE row == [job[j] EXCEPT !.state = "queued", !.control = "none", !.phase = "applying"]
           rows == [i \in Items(j) |-> "pending"]
<1>1. /\ SameCounts(row, job[j]) /\ row.state = "queued" /\ row.lease = job[j].lease
      /\ row.retryable = job[j].retryable /\ row.phase = "applying"
  BY DEF Shape, JobRow, SameCounts
<1>2. job' = [job EXCEPT ![j] = row] /\ work' = [work EXCEPT ![j] = rows]
  BY DEF BeginApply, Shape
<1> HIDE DEF row
<1>3. RestStays(j) /\ job'[j] = row /\ work'[j] = rows /\ applied'[j] = applied[j]
  BY <1>2 DEF RestStays, Domains, Shape
<1>4. Unstarted(j) /\ job[j].lease = "none" /\ ~job[j].retryable /\ Management(j)
  BY DEF BeginApply, Ready, Good, Standing, Phases
<1>5. Phases(j)'
  BY <1>1, <1>3, <1>4 DEF Phases, Management, Bulk, Reidentification, Staged, Rest, WorkStates, Items
<1>6. \A i \in Items(j) : work[j][i] = "absent" /\ work'[j][i] = "pending"
  BY <1>3, <1>4 DEF Unstarted, Rest
<1>7. Quiet(j)
  BY <1>6 DEF Quiet
<1>8. DOMAIN work'[j] = Items(j) /\ work'[j] = [i \in Items(j) |-> work'[j][i]]
  BY <1>3
<1> HIDE DEF rows
<1> QED BY <1>1, <1>3, <1>4, <1>5, <1>6, <1>7, <1>8, GoodPending

\* A user writes no subject of a job that runs, and moves no phase but from ready on.
LEMMA UserCounts ==
    ASSUME StopInv, CountInv, NEW j \in Jobs, RestStays(j), Good(j)',
           UNCHANGED torn, Touched(j) \/ UNCHANGED worker,
           \/ work'[j] = work[j]
           \/ job[j].state # "running" /\ (Reidentification(j) \/ job[j].phase = "ready"),
           job'[j].phase = job[j].phase \/ (Management(j) /\ job[j].phase = "ready" /\ job'[j].phase = "applying")
    PROVE  CountInv'
<1>1. Domains' /\ \A k \in Jobs : Good(k)'
  BY RestGood
<1>2. /\ worker'.pc = worker.pc /\ worker'.job = worker.job /\ worker'.item = worker.item
      /\ worker'.todo = worker.todo /\ worker'.forced = worker.forced
  BY DEF Touched, J, StopInv, Shape, WorkerShape
<1>3. worker.pc \in Hand => worker.job \in Jobs /\ job[worker.job].state = "running"
  BY DEF StopInv, HandRuns, Shape, WorkerShape, Hand, Doing, Between
<1>4. InHandInv'
  <2>1. CASE worker.pc \in Hand
    <3>1. work'[worker.job] = work[worker.job]
      BY <1>3, <2>1 DEF RestStays, CountInv, Good, Phases, StopInv, HandRuns
    <3> QED
      BY <1>2, <1>3, <2>1, <3>1
      DEF CountInv, InHandInv, RunsOnly, Quiet, Pending, Items, Bulk, Management, Reidentification, RestStays,
          Good, Phases
  <2>2. CASE worker.pc \in {"plan", "seal"}
    BY <1>2, <2>2 DEF CountInv, InHandInv, Management, RestStays, StopInv, Shape, WorkerShape, Between
  <2>3. CASE worker.pc \notin Hand \union {"plan", "seal"}
    BY <1>2, <2>3 DEF CountInv, InHandInv, Management, Hand, Doing
  <2> QED BY <2>1, <2>2, <2>3
<1>5. TornInv'
  <2> SUFFICES ASSUME NEW k \in Jobs, torn[k].at # "none"
               PROVE  /\ job'[k].phase \in {"applying", "complete"}
                      /\ work'[k] = work[k]
    BY <1>2 DEF CountInv, TornInv, Items
  <2>1. Management(k) /\ job[k].phase \in {"applying", "complete"}
    BY DEF StopInv, TornApplies, CountInv, TornInv
  <2> QED BY <2>1 DEF RestStays, Management, Reidentification
<1> QED BY <1>1, <1>4, <1>5 DEF CountInv

LEMMA UserCountsKept ==
    ASSUME StopInv, StopInv', CountInv, NEW j \in Jobs, UserStep(j)
    PROVE  CountInv'
<1>1. job[j] \in JobRow /\ Good(j) /\ Shape /\ Domains /\ RowShape(j)
  BY DEF StopInv, Shape, CountInv, Good
<1>2. UNCHANGED <<torn, applied>> /\ (Touched(j) \/ UNCHANGED worker)
  BY DEF UserStep, Create, Pause, Stop, Resume, Accept, Discard, Apply, Controls, userVars
<1>3. ASSUME NEW row, job' = [job EXCEPT ![j] = row], UNCHANGED work
      PROVE  RestStays(j) /\ job'[j] = row /\ work'[j] = work[j] /\ applied'[j] = applied[j]
  BY <1>1, <1>2, <1>3 DEF RestStays, Domains, Shape
<1>4. ASSUME NEW row, job' = [job EXCEPT ![j] = row], NEW rows, work' = [work EXCEPT ![j] = rows]
      PROVE  RestStays(j) /\ job'[j] = row /\ work'[j] = rows /\ applied'[j] = applied[j]
  BY <1>1, <1>2, <1>4 DEF RestStays, Domains, Shape
<1>5. CASE Create(j)
  <2> DEFINE row == [job[j] EXCEPT !.state = "queued"]
             rows == IF Reidentification(j) THEN [work[j] EXCEPT ![1] = "pending"] ELSE work[j]
  <2>1. /\ SameCounts(row, job[j]) /\ row.state = "queued" /\ row.lease = job[j].lease
        /\ row.retryable = job[j].retryable /\ row.phase = job[j].phase
    BY <1>1 DEF JobRow, SameCounts
  <2>2. job' = [job EXCEPT ![j] = row] /\ work' = [work EXCEPT ![j] = rows]
    BY <1>1, <1>5 DEF Create, Domains, Shape
  <2>3. RestStays(j) /\ job'[j] = row /\ work'[j] = rows /\ applied'[j] = applied[j]
    BY <1>4, <2>2
  <2>4. Unstarted(j) /\ job[j].lease = "none" /\ ~job[j].retryable /\ job[j].state = "absent"
    BY <1>1, <1>5 DEF Create, Good, Standing
  <2>5. Quiet(j)
    BY <2>4 DEF Unstarted, Rest, Quiet
  <2>6. /\ \A i \in Items(j) : rows[i] = work[j][i] \/ (work[j][i] = "absent" /\ rows[i] = "pending")
        /\ DOMAIN rows = Items(j) /\ rows = [i \in Items(j) |-> rows[i]]
        /\ ~Reidentification(j) => rows = work[j]
    BY <1>1, <2>4 DEF RowShape, Unstarted, Rest
  <2> HIDE DEF row, rows
  <2>7. Phases(j)'
    <3>1. CASE Reidentification(j)
      BY <2>1, <2>3, <3>1 DEF Phases, Bulk, Management, Reidentification
    <3>2. CASE ~Reidentification(j)
      BY <1>1, <2>1, <2>3, <2>4, <2>6, <3>2
      DEF Good, Phases, Bulk, Management, Reidentification, Unstarted, Staged, Rest, Items
    <3> QED BY <3>1, <3>2
  <2>8. Good(j)'
    BY <1>1, <2>1, <2>3, <2>4, <2>5, <2>6, <2>7, GoodPending
  <2> QED
    BY <1>2, <2>1, <2>3, <2>4, <2>6, <2>8, UserCounts
<1>6. CASE Pause(j)
  <2> DEFINE row == [job[j] EXCEPT !.control = "pause"]
  <2>1. /\ SameCounts(row, job[j]) /\ row.state = job[j].state /\ row.lease = job[j].lease
        /\ row.retryable = job[j].retryable /\ row.phase = job[j].phase
    BY <1>1 DEF JobRow, SameCounts
  <2>2. job' = [job EXCEPT ![j] = row] /\ UNCHANGED work /\ job[j].state \notin {"absent", "succeeded"}
    BY <1>6 DEF Pause, Controllable
  <2> HIDE DEF row
  <2>3. RestStays(j) /\ job'[j] = row /\ work'[j] = work[j] /\ applied'[j] = applied[j]
    BY <1>3, <2>2
  <2>4. Good(j)'
    BY <1>1, <2>1, <2>2, <2>3, GoodKept DEF KeptRow, Good, Standing, Phases
  <2> QED
    BY <1>2, <2>1, <2>3, <2>4, UserCounts
<1>7. CASE Stop(j)
  <2>1. job[j].state \notin {"absent", "succeeded"} /\ UNCHANGED work
    BY <1>7 DEF Stop, Controllable
  <2>2. CASE StopsAtOnce(j)
    <3> DEFINE released == Released(job[j], "stopped")
               row == [released EXCEPT !.control = "none"]
    <3>1. /\ SameCounts(released, job[j]) /\ released \in JobRow
          /\ released.state = "stopped" /\ released.lease = "none"
          /\ released.retryable = job[j].retryable /\ released.phase = job[j].phase
      BY <1>1, ReleasedCounts DEF JobStates
    <3>2. job' = [job EXCEPT ![j] = row]
      BY <1>1, <1>7, <2>2 DEF Stop, Shape
    <3> HIDE DEF released
    <3>3. /\ SameCounts(row, job[j]) /\ row.state = "stopped" /\ row.lease = "none"
          /\ row.retryable = job[j].retryable /\ row.phase = job[j].phase
      BY <3>1 DEF JobRow, SameCounts
    <3> HIDE DEF row
    <3>4. RestStays(j) /\ job'[j] = row /\ work'[j] = work[j] /\ applied'[j] = applied[j]
      BY <1>3, <2>1, <3>2
    <3>5. job[j].state # "failed" /\ ~job[j].retryable
      BY <1>1, <2>2 DEF StopsAtOnce, StalePlanningPreview, Good, Standing
    <3>6. Quiet(j)
      <4>1. CASE job[j].state \in {"queued", "paused"}
        BY <1>1, <4>1 DEF Good, Standing
      <4>2. CASE StalePlanningPreview(j)
        BY <1>1, <4>2 DEF Good, Phases, StalePlanningPreview, Unstarted, Rest, Quiet
      <4>3. CASE Reidentification(j) /\ job[j].state = "ready"
        BY <1>1, <4>3, OperationsAssumption DEF Good, Phases, Reidentification, Items, Quiet, Terminal
      <4> QED BY <2>2, <4>1, <4>2, <4>3 DEF StopsAtOnce
    <3>7. Management(j) => job[j].phase \notin {"ready", "complete"}
      BY <1>1, <2>2 DEF StopsAtOnce, StalePlanningPreview, Good, Phases, Management, Reidentification
    <3>8. Good(j)'
      BY <1>1, <3>3, <3>4, <3>5, <3>6, <3>7, GoodKept DEF KeptRow
    <3> QED
      BY <1>2, <3>3, <3>4, <3>8, UserCounts
  <2>3. CASE ~StopsAtOnce(j)
    <3> DEFINE row == [job[j] EXCEPT !.control = "stop"]
    <3>1. /\ SameCounts(row, job[j]) /\ row.state = job[j].state /\ row.lease = job[j].lease
          /\ row.retryable = job[j].retryable /\ row.phase = job[j].phase
      BY <1>1 DEF JobRow, SameCounts
    <3>2. job' = [job EXCEPT ![j] = row]
      BY <1>1, <1>7, <2>3 DEF Stop, Shape
    <3> HIDE DEF row
    <3>3. RestStays(j) /\ job'[j] = row /\ work'[j] = work[j] /\ applied'[j] = applied[j]
      BY <1>3, <2>1, <3>2
    <3>4. Good(j)'
      BY <1>1, <2>1, <3>1, <3>3, GoodKept DEF KeptRow, Good, Standing, Phases
    <3> QED
      BY <1>2, <3>1, <3>3, <3>4, UserCounts
  <2> QED BY <2>2, <2>3
<1>8. CASE Resume(j)
  <2> DEFINE again == [job[j] EXCEPT !.state = "queued", !.control = "none", !.retryable = FALSE]
             afresh == [again EXCEPT !.completed = 0, !.succeeded = 0, !.failed = 0, !.skipped = 0]
             failed == [again EXCEPT !.completed = 0, !.failed = 0]
  <2>1. /\ SameCounts(again, job[j]) /\ again.state = "queued" /\ again.lease = job[j].lease
        /\ ~again.retryable /\ again.phase = job[j].phase /\ again \in JobRow
    BY <1>1 DEF JobRow, SameCounts, JobStates
  <2> HIDE DEF again
  <2>2. job[j].lease = "none"
    BY <1>1, <1>8 DEF Resume, Good, Standing
  <2>3. ASSUME Reidentification(j), work'[j] = [work[j] EXCEPT ![1] = "pending"], job'[j].phase = job[j].phase,
               job'[j].completed = 0, job'[j].succeeded = 0, job'[j].failed = 0, job'[j].skipped = 0,
               job'[j].state = "queued", job'[j].lease = "none", ~job'[j].retryable, applied'[j] = applied[j]
        PROVE  Good(j)'
    <3>1. Items(j) = {1} /\ work'[j] \in [Items(j) -> WorkStates] /\ work'[j][1] = "pending"
      BY <1>1, <2>3, OperationsAssumption DEF Items, Reidentification, RowShape, WorkStates
    <3>2. ASSUME NEW states, "pending" \notin states
          PROVE  Count(j, states)' = 0
      <4>1. {i \in Items(j) : work'[j][i] \in states} = {}
        BY <3>1, <3>2
      <4> QED BY <4>1, FS_EmptySet DEF Count, Items
    <3>3. Tally(j)'
      BY <2>3, <3>2 DEF Tally, Terminal, Reidentification
    <3>4. Standing(j)' /\ RowShape(j)'
      BY <1>1, <2>3, <3>1 DEF Standing, Quiet, RowShape, Items
    <3>5. Phases(j)'
      BY <2>3 DEF Phases, Reidentification, Bulk, Management
    <3> QED BY <3>3, <3>4, <3>5 DEF Good
  <2>4. CASE Reidentification(j) /\ job[j].state = "stopped"
    <3>1. job' = [job EXCEPT ![j] = afresh] /\ work' = [work EXCEPT ![j] = [@ EXCEPT ![1] = "pending"]]
      BY <1>1, <1>8, <2>4 DEF Resume, again, Domains, Shape
    <3>2. /\ afresh.state = "queued" /\ afresh.lease = again.lease /\ ~afresh.retryable
          /\ afresh.phase = again.phase /\ afresh.completed = 0 /\ afresh.succeeded = 0
          /\ afresh.failed = 0 /\ afresh.skipped = 0
      BY <2>1 DEF JobRow
    <3> HIDE DEF afresh
    <3>3. RestStays(j) /\ job'[j] = afresh /\ work'[j] = [work[j] EXCEPT ![1] = "pending"] /\ applied'[j] = applied[j]
      BY <1>1, <1>2, <3>1 DEF RestStays, Domains, Shape
    <3>4. Good(j)'
      BY <2>1, <2>2, <2>3, <2>4, <3>2, <3>3
    <3> QED BY <1>2, <2>1, <2>4, <3>2, <3>3, <3>4, UserCounts
  <2>5. CASE job[j].state = "failed"
    <3>1. Reidentification(j) /\ work[j][1] = "failed" /\ Items(j) = {1}
      BY <1>1, <1>8, <2>5, OperationsAssumption DEF Resume, Good, Standing, Items, Reidentification
    <3> DEFINE rows == [i \in Items(j) |-> IF work[j][i] \in {"failed", "running"} THEN "pending" ELSE work[j][i]]
    <3>2. rows = [work[j] EXCEPT ![1] = "pending"]
      BY <1>1, <3>1 DEF RowShape
    <3>3. job' = [job EXCEPT ![j] = failed] /\ work' = [work EXCEPT ![j] = rows]
      BY <1>1, <1>8, <2>5 DEF Resume, Restarted, again, Domains, Shape
    <3> HIDE DEF rows
    <3>4. /\ failed.state = "queued" /\ failed.lease = again.lease /\ ~failed.retryable
          /\ failed.phase = again.phase /\ failed.completed = 0 /\ failed.succeeded = again.succeeded
          /\ failed.failed = 0 /\ failed.skipped = again.skipped
      BY <2>1 DEF JobRow
    <3> HIDE DEF failed
    <3>5. RestStays(j) /\ job'[j] = failed /\ work'[j] = rows /\ applied'[j] = applied[j]
      BY <1>4, <3>3
    <3>6. job[j].succeeded = 0 /\ job[j].skipped = 0
      <4>1. {i \in Items(j) : work[j][i] \in {"succeeded"}} = {} /\ {i \in Items(j) : work[j][i] \in {"skipped"}} = {}
        BY <3>1
      <4> QED BY <1>1, <4>1, FS_EmptySet DEF Good, Tally, Count
    <3>7. Good(j)'
      BY <2>1, <2>2, <2>3, <3>1, <3>2, <3>4, <3>5, <3>6 DEF SameCounts
    <3> QED BY <1>2, <2>1, <2>5, <3>1, <3>4, <3>5, <3>7, UserCounts
  <2>6. CASE job[j].state # "failed" /\ ~(Reidentification(j) /\ job[j].state = "stopped")
    <3>1. job' = [job EXCEPT ![j] = again] /\ UNCHANGED work /\ job[j].state \in {"paused", "stopped"}
      BY <1>8, <2>6 DEF Resume, again
    <3>2. RestStays(j) /\ job'[j] = again /\ work'[j] = work[j] /\ applied'[j] = applied[j]
      BY <1>3, <3>1
    <3>3. Quiet(j) /\ (Management(j) => job[j].phase \notin {"ready", "complete"})
      BY <1>1, <3>1 DEF Good, Standing, Phases
    <3>4. Good(j)'
      BY <1>1, <2>1, <2>2, <3>2, <3>3, GoodKept DEF KeptRow
    <3> QED BY <1>2, <2>1, <3>2, <3>4, UserCounts
  <2> QED BY <2>4, <2>5, <2>6
<1>9. CASE Accept(j)
  <2> DEFINE row == [job[j] EXCEPT !.state = "succeeded"]
  <2>1. /\ SameCounts(row, job[j]) /\ row.state = "succeeded" /\ row.lease = job[j].lease
        /\ row.retryable = job[j].retryable /\ row.phase = job[j].phase
    BY <1>1 DEF JobRow, SameCounts
  <2>2. job' = [job EXCEPT ![j] = row] /\ UNCHANGED work /\ Reidentification(j) /\ job[j].state = "ready"
    BY <1>9 DEF Accept, Ready
  <2> HIDE DEF row
  <2>3. RestStays(j) /\ job'[j] = row /\ work'[j] = work[j] /\ applied'[j] = applied[j]
    BY <1>3, <2>2
  <2>4. Rest(j, Terminal) /\ job[j].lease = "none" /\ ~job[j].retryable
    BY <1>1, <2>2, OperationsAssumption DEF Good, Standing, Phases, Rest, Items, Reidentification
  <2>5. Good(j)'
    BY <1>1, <2>1, <2>2, <2>3, <2>4, GoodKept DEF KeptRow, Reidentification, Management
  <2> QED BY <1>2, <2>1, <2>3, <2>5, UserCounts
<1>10. CASE Discard(j)
  <2> DEFINE row == [job[j] EXCEPT !.state = "cancelled", !.control = "none"]
  <2>1. /\ SameCounts(row, job[j]) /\ row.state = "cancelled" /\ row.lease = job[j].lease
        /\ row.retryable = job[j].retryable /\ row.phase = job[j].phase
    BY <1>1 DEF JobRow, SameCounts
  <2>2. job' = [job EXCEPT ![j] = row] /\ UNCHANGED work /\ job[j].state = "ready" /\ job[j].phase = "ready"
    BY <1>1, <1>10 DEF Discard, Ready, Shape
  <2> HIDE DEF row
  <2>3. RestStays(j) /\ job'[j] = row /\ work'[j] = work[j] /\ applied'[j] = applied[j]
    BY <1>3, <2>2
  <2>4. job[j].lease = "none" /\ ~job[j].retryable
    BY <1>1, <2>2 DEF Good, Standing
  <2>5. Good(j)'
    BY <1>1, <2>1, <2>2, <2>3, <2>4, GoodKept DEF KeptRow
  <2> QED BY <1>2, <2>1, <2>3, <2>5, UserCounts
<1>11. CASE Apply(j)
  <2>1. RestStays(j) /\ Good(j)' /\ job'[j].phase = "applying" /\ job[j].phase = "ready" /\ job[j].state = "ready"
        /\ Management(j)
    BY <1>1, <1>2, <1>11, BegunGood DEF Apply, BeginApply, Ready
  <2> QED BY <1>2, <2>1, UserCounts
<1> QED
  BY <1>5, <1>6, <1>7, <1>8, <1>9, <1>10, <1>11 DEF UserStep

-----------------------------------------------------------------------------
(* Counters: the loop *)

NonePrepared == \A j \in Jobs : torn[j].at # "prepared"

LEMMA NoneIsPrepared ==
    ASSUME CountInv,
           worker.pc \notin {"commit", "recovering", "bundles"} \/ (worker.pc = "bundles" /\ worker.todo = {})
    PROVE  NonePrepared
BY DEF CountInv, TornInv, NonePrepared

\* The worker goes where it has nothing in hand, and the rows stay.
LEMMA LeftCounts ==
    ASSUME CountInv, NonePrepared, UNCHANGED <<job, work, torn, applied>>, worker'.pc \in Between
    PROVE  CountInv'
<1>1. \A k \in Jobs : Good(k)'
  BY GoodSame DEF CountInv
<1>2. InHandInv'
  BY DEF InHandInv, Between
<1>3. TornInv' /\ Domains'
  BY DEF CountInv, TornInv, Domains, NonePrepared, Items
<1> QED BY <1>1, <1>2, <1>3 DEF CountInv

\* Recovery is done with a bundle; those it has yet to see stay as they are.
LEMMA BundleDone ==
    ASSUME StopInv, CountInv, NEW j \in Jobs, Mended(j), Done(j), RestStays(j), Good(j)',
           worker.pc = "bundles" \/ (worker.pc = "recovering" /\ worker.job = j)
    PROVE  CountInv'
<1>1. Domains' /\ \A k \in Jobs : Good(k)'
  BY RestGood
<1>2. worker'.pc = "bundles" /\ worker'.forced = worker.forced /\ worker'.todo = worker.todo \ {j}
  BY DEF Done, Moved, StopInv, Shape, WorkerShape
<1>3. torn'[j] = NoBundle /\ \A k \in Jobs \ {j} : torn'[k] = torn[k]
  BY DEF Mended, StopInv, Shape
<1>4. InHandInv'
  BY <1>2 DEF InHandInv
<1>5. TornInv'
  BY <1>2, <1>3 DEF CountInv, TornInv, RestStays, NoBundle, Items
<1> QED BY <1>1, <1>4, <1>5 DEF CountInv

LEMMA OutcomeSays ==
    ASSUME NEW rows, NEW otherwise
    PROVE  \/ Outcome(rows, otherwise) = otherwise
           \/ Outcome(rows, otherwise) = "failed"
           \/ /\ Outcome(rows, otherwise) = "succeeded"
              /\ \A i \in DOMAIN rows : rows[i] \notin {"pending", "running", "failed"}
BY DEF Outcome

LEMMA LoopCountsKept ==
    ASSUME StopInv, StopInv', CountInv, LoopStep \/ Notify
    PROVE  CountInv'
<1>1. Shape /\ WorkerShape /\ Domains /\ \A j \in Jobs : Good(j) /\ RowShape(j) /\ job[j] \in JobRow
  BY DEF StopInv, Shape, CountInv, Good
<1>2. ASSUME NEW pc \in Between, Goes(pc), NonePrepared, UNCHANGED <<job, work, torn, applied>>
      PROVE  CountInv'
  <2>1. worker'.pc = pc
    BY <1>1, <1>2 DEF Goes, Moved, WorkerShape
  <2> QED BY <1>2, <2>1, LeftCounts
<1>3. ASSUME NEW j \in Jobs, NEW row, job' = [job EXCEPT ![j] = row], UNCHANGED <<work, applied>>
      PROVE  RestStays(j) /\ job'[j] = row /\ work'[j] = work[j] /\ applied'[j] = applied[j]
  BY <1>1, <1>3 DEF RestStays, Domains, Shape
<1>4. ASSUME NEW j \in Jobs, torn[j].at # "none"
      PROVE  /\ Management(j) /\ job[j].phase \in {"applying", "complete"} /\ torn[j].item \in Items(j)
             /\ Staged(j)
  BY <1>1, <1>4 DEF StopInv, TornApplies, CountInv, TornInv, Good, Phases
<1>5. ASSUME NEW j \in Jobs, FailBundle(j, torn[j].item), torn[j].at # "none", UNCHANGED applied
      PROVE  Good(j)' /\ RestStays(j)
  <2>1. Good(j)'
    BY <1>1, <1>4, <1>5, BundleFailedGood
  <2>2. RestStays(j)
    BY <1>1, <1>5 DEF FailBundle, RestStays, Domains, Shape
  <2> QED BY <2>1, <2>2
<1>6. CASE Notify
  <2>1. UNCHANGED <<job, work, torn, applied, worker>>
    BY <1>6 DEF Notify, loopVars
  <2>2. \A k \in Jobs : Good(k)'
    BY <1>1, <2>1, GoodSame
  <2> QED
    BY <2>1, <2>2 DEF CountInv, Domains, InHandInv, TornInv, RunsOnly, Quiet, Pending, Items, Bulk,
        Management, Reidentification
<1>7. CASE ReadRevision
  BY <1>2, <1>7, NoneIsPrepared DEF ReadRevision, loopVars, Between, At
<1>8. CASE RecoverLeases
  <2>1. NonePrepared /\ UNCHANGED <<torn, applied>> /\ worker'.pc = "bundles"
    BY <1>1, <1>8, NoneIsPrepared DEF RecoverLeases, loopVars, At, WorkerShape
  <2>2. ASSUME NEW j \in Jobs
        PROVE  /\ IF Expired(j) THEN job'[j] = Released(job[j], "queued") /\ work'[j] = Requeued(work[j])
                  ELSE job'[j] = job[j] /\ work'[j] = work[j]
               /\ applied'[j] = applied[j]
    BY <1>8, <2>1 DEF RecoverLeases, Reclaimed
  <2>3. ASSUME NEW j \in Jobs
        PROVE  Good(j)' /\ job'[j].phase = job[j].phase
    <3>1. CASE Expired(j)
      BY <1>1, <2>2, <3>1, RequeuedGood, ReleasedCounts DEF Expired, JobStates
    <3>2. CASE ~Expired(j)
      BY <1>1, <2>2, <3>2, GoodSame
    <3> QED BY <3>1, <3>2
  <2>4. Domains'
    BY <1>1, <1>8, <2>1 DEF RecoverLeases, Domains
  <2>5. InHandInv' /\ TornInv'
    BY <2>1, <2>3 DEF InHandInv, CountInv, TornInv, NonePrepared, Items
  <2> QED BY <2>3, <2>4, <2>5 DEF CountInv
<1>9. ASSUME NEW j \in Jobs, RecoverCommitted(j)
      PROVE  CountInv'
  <2>1. UNCHANGED applied /\ Mended(j) /\ Done(j) /\ worker.pc = "bundles" /\ torn[j].at # "none"
    BY <1>9 DEF RecoverCommitted, recoveryVars, loopVars, At
  <2>2. CASE SettledBundle(j) /\ UNCHANGED work
    <3> DEFINE state == Outcome(work[j], "active")
    <3>1. \/ job' = job
          \/ /\ job' = [job EXCEPT ![j] = Released(@, state)]
             /\ state # "active" /\ job[j].state \in {"queued", "running"}
      BY <2>2 DEF SettledBundle
    <3>2. state \in {"active", "failed", "succeeded"} /\ (state = "succeeded" => Rest(j, Terminal))
      BY <1>1, <1>4, <2>1, OutcomeSays DEF RowShape, WorkStates, Terminal, Rest, Staged
    <3> HIDE DEF state
    <3>3. CASE job' = job
      <4>1. RestStays(j)
        BY <1>1, <2>1, <2>2, <3>3 DEF RestStays, Domains
      <4>2. Good(j)'
        BY <1>1, <2>1, <2>2, <3>3, GoodSame
      <4> QED BY <2>1, <4>1, <4>2, BundleDone
    <3>4. CASE job' = [job EXCEPT ![j] = Released(@, state)] /\ state # "active" /\ job[j].state \in {"queued", "running"}
      <4>1. RestStays(j) /\ job'[j] = Released(job[j], state) /\ work'[j] = work[j] /\ applied'[j] = applied[j]
        BY <1>3, <2>1, <2>2, <3>4
      <4>2. /\ SameCounts(job'[j], job[j]) /\ job'[j].state = state /\ job'[j].lease = "none"
            /\ ~job'[j].retryable /\ job'[j].phase = job[j].phase
        BY <1>1, <3>2, <3>4, <4>1, ReleasedCounts DEF JobStates, Good, Standing
      <4>3. Management(j) => job[j].phase \notin {"ready", "complete"}
        BY <1>1, <3>4 DEF Good, Phases
      <4>4. Good(j)'
        BY <1>1, <3>2, <3>4, <4>1, <4>2, <4>3, GoodKept DEF KeptRow
      <4> QED BY <2>1, <4>1, <4>4, BundleDone
    <3> QED BY <3>1, <3>3, <3>4
  <2>3. CASE FailBundle(j, torn[j].item)
    BY <1>5, <2>1, <2>3, BundleDone
  <2> QED
    BY <1>9, <2>2, <2>3 DEF RecoverCommitted
<1>10. ASSUME NEW j \in Jobs, Compensate(j)
       PROVE  CountInv'
  <2>1. /\ UNCHANGED applied /\ Mended(j) /\ Done(j) /\ worker.pc = "bundles" /\ torn[j].at # "none"
        /\ FailBundle(j, torn[j].item)
    BY <1>10 DEF Compensate, recoveryVars, loopVars, At
  <2> QED BY <1>5, <2>1, BundleDone
<1>11. ASSUME NEW j \in Jobs, ClaimBundle(j)
       PROVE  CountInv'
  <2>0. PICK i : i = torn[j].item
    OBVIOUS
  <2> DEFINE row == [job[j] EXCEPT !.state = "running", !.lease = "live"]
  <2>1. /\ worker.pc = "bundles" /\ torn[j].at = "prepared" /\ UNCHANGED <<torn, applied>>
        /\ j \in worker.todo /\ worker.forced
    BY <1>11 DEF ClaimBundle, At, recoveryVars, loopVars, CountInv, TornInv
  <2>2. /\ job[j].state \in {"queued", "running"} /\ work[j][i] \in {"pending", "running"}
        /\ job' = [job EXCEPT ![j] = row] /\ work' = [work EXCEPT ![j] = [@ EXCEPT ![i] = "running"]]
        /\ worker' = [worker EXCEPT !.pc = "recovering", !.job = j, !.item = i]
    BY <1>1, <1>11, <2>0, <2>1 DEF ClaimBundle, Expired, Shape, Domains
  <2>3. i \in Items(j) /\ Management(j) /\ job[j].phase = "applying" /\ ~job[j].retryable
    BY <1>1, <1>4, <2>0, <2>1, <2>2 DEF Good, Phases, Standing
  <2>4. /\ SameCounts(row, job[j]) /\ row.state = "running" /\ row.lease = "live"
        /\ row.retryable = job[j].retryable /\ row.phase = job[j].phase
    BY <1>1 DEF JobRow, SameCounts
  <2> HIDE DEF row
  <2>5. RestStays(j) /\ job'[j] = row /\ work'[j] = [work[j] EXCEPT ![i] = "running"] /\ applied'[j] = applied[j]
    BY <1>1, <2>1, <2>2 DEF RestStays, Domains, Shape
  <2>6. Good(j)'
    BY <1>1, <2>2, <2>3, <2>4, <2>5, GoodStarted DEF KeptRow
  <2>7. \A k \in Items(j) : k # i => work[j][k] # "running"
    BY <2>0, <2>1 DEF CountInv, TornInv
  <2>8. worker'.pc = "recovering" /\ worker'.job = j /\ worker'.item = i /\ UNCHANGED <<worker.forced, worker.todo>>
    BY <1>1, <2>2 DEF WorkerShape
  <2>9. RunsOnly(j, i)'
    BY <1>1, <2>3, <2>5, <2>7 DEF RunsOnly, Items, RowShape
  <2>10. InHandInv'
    BY <2>3, <2>8, <2>9 DEF InHandInv, Management, RunsOnly, Items
  <2>11. TornInv'
    <3> SUFFICES ASSUME NEW k \in Jobs
                 PROVE  /\ torn[k].at # "none" => job'[k].phase \in {"applying", "complete"}
                        /\ torn[k].at = "prepared" =>
                             \A x \in Items(k) : work'[k][x] = "running" => x = torn[k].item
                        /\ torn[k].at = "prepared" =>
                              worker.forced /\ k \in worker.todo
      BY <2>1, <2>8 DEF CountInv, TornInv, Items
    <3>1. CASE k = j
      BY <2>0, <2>1, <2>3, <2>4, <2>5, <2>7, <3>1, <1>1 DEF RowShape
    <3>2. CASE k # j
      BY <2>1, <2>5, <3>2 DEF CountInv, TornInv, RestStays
    <3> QED BY <3>1, <3>2
  <2> QED BY <2>5, <2>6, <2>10, <2>11, RestGood DEF CountInv
<1>12. CASE RecoverAdopts
  <2>0. PICK j \in Jobs, i \in {I} : j = J /\ i = I
    BY <1>1, <1>12 DEF RecoverAdopts, At, J, WorkerShape, Between
  <2> DEFINE rows == [work[j] EXCEPT ![i] = "succeeded"]
             state == Outcome(rows, "queued")
             counted == Counted(job[j], "succeeded")
             row == Released(counted, state)
  <2>1. worker.pc = "recovering" /\ worker.job = j /\ Mended(j) /\ Done(j)
    BY <1>12, <2>0 DEF RecoverAdopts, At, J
  <2>2. /\ RunsOnly(j, i) /\ Management(j) /\ job[j].state = "running" /\ ~job[j].retryable
        /\ job[j].phase = "applying"
    BY <1>1, <2>0, <2>1, RunningRow DEF CountInv, InHandInv, StopInv, HandRuns, Hand, Doing, NotPlanning, I
  <2>3. /\ work' = [work EXCEPT ![j] = rows] /\ job' = [job EXCEPT ![j] = row]
        /\ applied' = [applied EXCEPT ![j] = [applied[j] EXCEPT ![i] = applied[j][i] + 1]]
    <3>1. work' = [work EXCEPT ![j] = rows] /\ job' = [job EXCEPT ![j] = row]
      BY <1>12, <2>0 DEF RecoverAdopts
    <3>2. applied' = [applied EXCEPT ![j] = [applied[j] EXCEPT ![i] = applied[j][i] + 1]]
      <4>1. applied' = [applied EXCEPT ![J][I] = @ + 1]
        BY <1>12 DEF RecoverAdopts, Effect
      <4> QED BY <2>0, <4>1
    <3> QED BY <3>1, <3>2
  <2>4. /\ state \in {"queued", "failed", "succeeded"} /\ state \in JobStates
        /\ state = "succeeded" => \A k \in Items(j) : rows[k] \in Terminal
    <3>1. DOMAIN rows = Items(j) /\ \A k \in Items(j) : rows[k] \in WorkStates \ {"absent"}
      <4>1. work[j] \in [Items(j) -> WorkStates] /\ \A k \in Items(j) : work[j][k] # "absent"
        BY <1>1, <2>2 DEF RowShape, Good, Phases, Staged, Rest
      <4> QED BY <4>1 DEF WorkStates
    <3> HIDE DEF rows
    <3> QED BY <3>1, OutcomeSays DEF WorkStates, Terminal, JobStates
  <2>5. counted \in JobRow /\ counted.phase = job[j].phase /\ counted.retryable = job[j].retryable
    <3>1. job[j] \in JobRow
      BY <1>1
    <3>2. counted.retryable = job[j].retryable
      BY <3>1 DEF Counted, JobRow
    <3> QED BY <3>1, <3>2, CountedRow
  <2>6. /\ SameCounts(row, counted) /\ row.state = state /\ row.lease = "none"
        /\ row.retryable = job[j].retryable /\ row.phase = job[j].phase
    <3> HIDE DEF state, counted
    <3> QED BY <2>4, <2>5, ReleasedCounts
  <2>7. /\ RestStays(j) /\ job'[j] = row /\ work'[j] = rows
        /\ applied'[j] = [applied[j] EXCEPT ![i] = @ + 1]
    <3> HIDE DEF rows, row
    <3> DEFINE times == [applied[j] EXCEPT ![i] = @ + 1]
    <3>1. applied' = [applied EXCEPT ![j] = times]
      BY <2>3
    <3> HIDE DEF times
    <3>2. RestStays(j) /\ job'[j] = row /\ work'[j] = rows /\ applied'[j] = times
      BY <1>1, <2>3, <3>1 DEF RestStays, Domains, Shape
    <3> QED BY <3>2 DEF times
  <2>8. i \in Items(j) /\ work[j][i] \in {"pending", "running"} /\ Quiet(j)'
    <3>1. i \in Items(j) /\ work[j][i] = "running" /\ \A k \in Items(j) : work[j][k] = "running" => k = i
      BY <2>2 DEF RunsOnly
    <3>2. \A k \in Items(j) : rows[k] # "running"
      BY <1>1, <2>1, <3>1 DEF RowShape
    <3> QED BY <2>7, <3>1, <3>2 DEF Quiet, Items
  <2> HIDE DEF state, row
  <2>9. Good(j)'
    <3>1. SameCounts(job[j], job[j]) /\ SameCounts(job'[j], Counted(job[j], "succeeded"))
      BY <2>6, <2>7 DEF SameCounts
    <3>2. state = "succeeded" => Rest(j, Terminal)'
      BY <2>4, <2>7 DEF Rest, Items, Terminal
    <3> HIDE DEF counted
    <3> QED BY <1>1, <2>2, <2>4, <2>6, <2>7, <2>8, <3>1, <3>2, GoodCounted DEF Terminal
  <2> QED BY <2>1, <2>7, <2>9, BundleDone
<1>13. CASE RecoverFails
  <2>0. PICK j \in Jobs, i \in {I} : j = J /\ i = I
    BY <1>1, <1>13 DEF RecoverFails, At, J, WorkerShape, Between
  <2>1. /\ worker.pc = "recovering" /\ worker.job = j /\ Mended(j) /\ Done(j) /\ FailBundle(j, i)
        /\ UNCHANGED applied
    BY <1>13, <2>0 DEF RecoverFails, At, J, recoveryVars, loopVars
  <2>2. i \in Items(j) /\ Management(j) /\ job[j].phase = "applying"
    BY <1>1, <2>0, <2>1, RunningRow DEF CountInv, InHandInv, RunsOnly, StopInv, HandRuns, Hand, Doing, NotPlanning, I
  <2>3. Good(j)'
    BY <1>1, <2>1, <2>2, BundleFailedGood
  <2>4. RestStays(j)
    BY <1>1, <2>1 DEF FailBundle, RestStays, Domains, Shape
  <2> QED BY <2>1, <2>3, <2>4, BundleDone
<1>14. CASE RecoveryEnds
  <2>1. NonePrepared
    BY <1>14, NoneIsPrepared DEF RecoveryEnds, At
  <2>2. PICK pc \in {"read", "claim"} : Goes(pc)
    BY <1>14 DEF RecoveryEnds
  <2> QED BY <1>2, <1>14, <2>1, <2>2 DEF RecoveryEnds, recoveryVars, loopVars, Between
<1>15. ASSUME NEW j \in Jobs, ClaimJob(j)
       PROVE  CountInv'
  <2> DEFINE row == [job[j] EXCEPT !.state = "running", !.lease = "live"]
  <2>1. NonePrepared /\ UNCHANGED <<work, torn, applied>> /\ job[j].state = "queued"
    BY <1>15, NoneIsPrepared DEF ClaimJob, loopVars, At, Claimable
  <2>2. job' = [job EXCEPT ![j] = row]
    BY <1>1, <1>15 DEF ClaimJob, Shape
  <2>3. /\ SameCounts(row, job[j]) /\ row.state = "running" /\ row.lease = "live"
        /\ row.retryable = job[j].retryable /\ row.phase = job[j].phase
    BY <1>1 DEF JobRow, SameCounts
  <2> HIDE DEF row
  <2>4. RestStays(j) /\ job'[j] = row /\ work'[j] = work[j] /\ applied'[j] = applied[j]
    BY <1>3, <2>1, <2>2
  <2>5. ~job[j].retryable /\ Quiet(j) /\ (Management(j) => job[j].phase \notin {"ready", "complete"})
    BY <1>1, <2>1 DEF Good, Standing, Phases
  <2>6. Good(j)'
    BY <1>1, <2>3, <2>4, <2>5, GoodKept DEF KeptRow
  <2>7. worker'.pc = FirstStep(j) /\ worker'.job = j
    BY <1>1, <1>15 DEF ClaimJob, WorkerShape
  <2>8. Quiet(j)'
    BY <2>4, <2>5 DEF Quiet, Items
  <2>9. InHandInv'
    <3>1. CASE Reidentification(j)
      BY <2>7, <2>8, <3>1 DEF InHandInv, FirstStep, Reidentification, Quiet, Items
    <3>2. CASE Bulk(j)
      BY <2>7, <2>8, <3>2 DEF InHandInv, FirstStep, Reidentification, Bulk, Quiet, Items
    <3>3. CASE Management(j) /\ job[j].phase = "planning"
      BY <2>3, <2>4, <2>7, <3>3 DEF InHandInv, FirstStep, Reidentification, Bulk, Management
    <3>4. CASE Management(j) /\ job[j].phase # "planning"
      BY <2>7, <2>8, <3>4 DEF InHandInv, FirstStep, Reidentification, Bulk, Management, Quiet, Items
    <3>5. Kind[j] \in Kinds
      BY OperationsAssumption
    <3> QED BY <3>1, <3>2, <3>3, <3>4, <3>5 DEF Kinds, Reidentification, Bulk, Management
  <2>10. TornInv'
    BY <2>1, <2>3, <2>4 DEF CountInv, TornInv, NonePrepared, RestStays, Items
  <2> QED BY <2>4, <2>6, <2>9, <2>10, RestGood DEF CountInv
<1>16. CASE ClaimNothing
  BY <1>2, <1>16, NoneIsPrepared DEF ClaimNothing, loopVars, Between, At
<1>17. CASE Wait
  BY <1>2, <1>17, NoneIsPrepared DEF Wait, loopVars, Between, At
<1>18. CASE Wakes
  BY <1>2, <1>18, NoneIsPrepared DEF Wakes, loopVars, Between, At
<1> QED
  BY <1>6, <1>7, <1>8, <1>9, <1>10, <1>11, <1>12, <1>13, <1>14, <1>15, <1>16, <1>17, <1>18
  DEF LoopStep, RecoveryStep

-----------------------------------------------------------------------------
(* Counters: work *)

LEMMA InHandFacts ==
    ASSUME StopInv, CountInv, worker.pc \notin Between
    PROVE  /\ worker.job \in Jobs /\ Good(worker.job) /\ RowShape(worker.job) /\ job[worker.job] \in JobRow
           /\ worker.pc \in Hand =>
                 /\ job[worker.job].state = "running" /\ ~job[worker.job].retryable
                 /\ job[worker.job].lease # "none"
                 /\ Management(worker.job) => job[worker.job].phase = "applying"
<1>1. worker.job \in Jobs /\ Good(worker.job) /\ RowShape(worker.job) /\ job[worker.job] \in JobRow
  BY DEF StopInv, Shape, WorkerShape, CountInv, Good
<1>2. worker.pc \in Hand => job[worker.job].state = "running" /\ NotPlanning(worker.job)
  BY DEF StopInv, HandRuns
<1> QED BY <1>1, <1>2, RunningRow DEF NotPlanning

LEMMA TornStaysGood ==
    ASSUME CountInv, NonePrepared, NEW j \in Jobs, RestStays(j), UNCHANGED torn,
           job[j].phase \in {"applying", "complete"} => job'[j].phase \in {"applying", "complete"}
    PROVE  TornInv'
BY DEF CountInv, TornInv, NonePrepared, RestStays, Items

LEMMA TornWritten ==
    ASSUME CountInv, Shape, NEW j \in Jobs, RestStays(j), NEW bundle, torn' = [torn EXCEPT ![j] = bundle],
           \A k \in Jobs \ {j} : torn[k].at # "prepared", job'[j].phase = "applying",
           \/ bundle = NoBundle
           \/ \E i \in Items(j), at \in {"rollback", "committed"} : bundle = [item |-> i, at |-> at]
           \/ /\ \E i \in Items(j) : bundle = [item |-> i, at |-> "prepared"] /\ RunsOnly(j, i)'
              /\ worker'.pc = "commit" /\ worker'.job = j
    PROVE  TornInv'
<1>1. torn'[j] = bundle /\ \A k \in Jobs \ {j} : torn'[k] = torn[k]
  BY DEF Shape
<1>2. ASSUME NEW k \in Jobs \ {j}
      PROVE  /\ torn'[k] \in [item : {0} \union Items(k), at : {"none", "prepared", "rollback", "committed"}]
             /\ torn'[k].at # "none" => torn'[k].item \in Items(k) /\ job'[k].phase \in {"applying", "complete"}
             /\ torn'[k].at # "prepared"
  BY <1>1, <1>2 DEF CountInv, TornInv, RestStays
<1>3. bundle \in [item : {0} \union Items(j), at : {"none", "prepared", "rollback", "committed"}]
  BY DEF NoBundle
<1>4. bundle.at # "none" => bundle.item \in Items(j)
  BY DEF NoBundle
<1>5. bundle.at = "prepared" =>
         /\ \A k \in Items(j) : work'[j][k] = "running" => k = bundle.item
         /\ worker'.pc = "commit" /\ worker'.job = j
  BY DEF NoBundle, RunsOnly, Items
<1> QED BY <1>1, <1>2, <1>3, <1>4, <1>5 DEF TornInv, Items

\* The subject in hand is done.
LEMMA CompleteGood ==
    ASSUME Shape, Domains, NEW j \in Jobs, Good(j), NEW i, RunsOnly(j, i), NEW state \in Terminal,
           Complete(j, i, state), job[j].state = "running", Management(j) => job[j].phase = "applying",
           IF state = "succeeded" THEN applied' = [applied EXCEPT ![j][i] = @ + 1] ELSE UNCHANGED applied
    PROVE  RestStays(j) /\ Good(j)' /\ Quiet(j)' /\ job'[j].phase = job[j].phase
<1> DEFINE row == Counted(job[j], state)
           rows == [work[j] EXCEPT ![i] = state]
           times == IF state = "succeeded" THEN [applied[j] EXCEPT ![i] = @ + 1] ELSE applied[j]
<1>1. job' = [job EXCEPT ![j] = row] /\ work' = [work EXCEPT ![j] = rows]
  BY DEF Complete
<1>2. applied' = [applied EXCEPT ![j] = times]
  BY DEF Domains
<1>3. /\ row.state = "running" /\ row.phase = job[j].phase /\ row.retryable = job[j].retryable
      /\ row.lease = job[j].lease
  BY DEF Shape, Counted, JobRow
<1>4. SameCounts(row, Counted(job[j], state)) /\ SameCounts(job[j], job[j]) /\ job[j] \in JobRow
  BY DEF SameCounts, Shape
<1>5. i \in Items(j) /\ work[j][i] \in {"pending", "running"} /\ \A k \in Items(j) : rows[k] # "running"
  BY DEF RunsOnly, Good, RowShape, Terminal
<1>6. rows = [work[j] EXCEPT ![i] = state]
  OBVIOUS
<1>7. times = IF state = "succeeded" THEN [applied[j] EXCEPT ![i] = @ + 1] ELSE applied[j]
  OBVIOUS
<1> HIDE DEF row, rows, times
<1>8. RestStays(j) /\ job'[j] = row /\ work'[j] = rows /\ applied'[j] = times
  BY <1>1, <1>2 DEF RestStays, Domains, Shape
<1>9. ~job[j].retryable /\ job[j].lease # "none"
  BY RunningRow
<1>10. Good(j)'
  BY <1>3, <1>4, <1>5, <1>6, <1>7, <1>8, <1>9, GoodCounted
<1> QED BY <1>3, <1>5, <1>8, <1>10 DEF Quiet, Items

LEMMA WorkHasJob ==
    ASSUME WorkStep \/ Renew
    PROVE  worker.pc \notin Between
<1>1. CASE StageCheckpoint \/ Stage \/ Checkpoint \/ TakeWork \/ ApplyReview \/ ApplyFaults \/ FinishBulk
  BY <1>1 DEF StageCheckpoint, Stage, Checkpoint, CheckpointAt, TakeWork, ApplyReview, ApplyFaults, FinishBulk,
              At, Between
<1>2. CASE TakeEvaluation \/ EvaluateStale \/ Evaluate \/ Halt \/ Record \/ RecordFaults
  BY <1>2 DEF TakeEvaluation, EvaluateStale, Evaluate, Halt, Record, RecordFaults, At, Between
<1>3. CASE PlanLost \/ Plan \/ Seal \/ ReadSealed \/ ApplyAutomatically \/ Renew
  BY <1>3 DEF PlanLost, Plan, Seal, ReadSealed, ApplyAutomatically, Renew, At, Between
<1>4. CASE Publish \/ Commit \/ Rollback \/ Clean \/ FinishApply
  BY <1>4 DEF Publish, Commit, Rollback, Clean, FinishApply, At, Between
<1> QED BY <1>1, <1>2, <1>3, <1>4 DEF WorkStep

\* A bulk review is staged from the first subject on, so the number of its rows says which.
LEMMA StagedFromFirst ==
    ASSUME NEW j \in Jobs, NEW n \in 0 .. Size[j], \A i \in Items(j) : work[j][i] # "absent" <=> i <= n
    PROVE  Cardinality({i \in Items(j) : work[j][i] # "absent"}) = n
<1>1. Size[j] \in Nat /\ n \in Nat
  BY OperationsAssumption
<1>2. {i \in Items(j) : work[j][i] # "absent"} = 1 .. n
  BY <1>1 DEF Items
<1>3. Cardinality(1 .. n) = IF 1 > n THEN 0 ELSE n - 1 + 1
  BY <1>1, FS_Interval
<1>4. Cardinality(1 .. n) = n
  BY <1>1, <1>3
<1> QED BY <1>2, <1>4

LEMMA StageGood ==
    ASSUME Shape, Domains, NEW j \in Jobs, j = J, Good(j), Quiet(j), Bulk(j), job[j].state = "running", Stage
    PROVE  /\ RestStays(j) /\ Good(j)' /\ Quiet(j)'
           /\ Goes("stageCheck") \/ (Goes("check") /\ job'[j].phase = "staged")
<1>1. PICK n \in 0 .. Size[j] : \A i \in Items(j) : work[j][i] # "absent" <=> i <= n
  BY DEF Good, Phases
<1> DEFINE last == job[j].phase = "staged" \/ Size[j] - n <= BatchSize
           row == IF last THEN [job[j] EXCEPT !.phase = "staged"] ELSE job[j]
           rows == IF job[j].phase = "staged" THEN work[j]
                   ELSE [i \in Items(j) |-> IF n < i /\ i <= n + BatchSize THEN "pending" ELSE work[j][i]]
<1>2. Cardinality({i \in Items(j) : work[j][i] # "absent"}) = n
  BY <1>1, StagedFromFirst
<1>3. /\ job' = [job EXCEPT ![j] = row] /\ work' = [work EXCEPT ![j] = rows] /\ UNCHANGED applied
      /\ Goes(IF last THEN "check" ELSE "stageCheck")
  <2>1. work' = IF job[j].phase = "staged" THEN work
                ELSE [work EXCEPT ![j] =
                        [i \in Items(j) |-> IF n < i /\ i <= n + BatchSize THEN "pending" ELSE work[j][i]]]
    BY <1>2 DEF Stage, LastBatch
  <2>2. job' = IF last THEN [job EXCEPT ![j].phase = "staged"] ELSE job
    BY <1>2 DEF Stage, LastBatch
  <2>3. Goes(IF last THEN "check" ELSE "stageCheck") /\ UNCHANGED applied
    BY <1>2 DEF Stage, LastBatch, historyVars
  <2>4. job = [job EXCEPT ![j] = job[j]] /\ work = [work EXCEPT ![j] = work[j]]
    BY DEF Shape, Domains
  <2> QED BY <2>1, <2>2, <2>3, <2>4
<1>4. Size[j] \in Nat /\ n \in Nat /\ BatchSize \in Nat \ {0} /\ n <= Size[j] /\ Items(j) = 1 .. Size[j]
  BY <1>1, OperationsAssumption DEF Items
<1>5. /\ SameCounts(row, job[j]) /\ row.state = "running" /\ row.lease = job[j].lease
      /\ row.retryable = job[j].retryable /\ row.phase = IF last THEN "staged" ELSE job[j].phase
  BY DEF Shape, JobRow, SameCounts
<1>6. \A i \in Items(j) : rows[i] = work[j][i] \/ (work[j][i] = "absent" /\ rows[i] = "pending")
  BY <1>1, <1>4
<1>7. DOMAIN rows = Items(j) /\ rows = [i \in Items(j) |-> rows[i]]
  BY DEF Good, RowShape
<1>8. \E m \in 0 .. Size[j] : \A i \in Items(j) : rows[i] # "absent" <=> i <= m
  <2>1. CASE job[j].phase = "staged"
    BY <1>1, <2>1
  <2>2. CASE job[j].phase # "staged" /\ Size[j] - n <= BatchSize
    <3>1. \A i \in Items(j) : rows[i] # "absent" <=> i <= Size[j]
      BY <1>1, <1>4, <2>2
    <3>2. Size[j] \in 0 .. Size[j]
      BY <1>4
    <3> HIDE DEF rows, last, row
    <3> QED BY <3>1, <3>2, Zenon
  <2>3. CASE job[j].phase # "staged" /\ ~(Size[j] - n <= BatchSize)
    <3>1. \A i \in Items(j) : rows[i] # "absent" <=> i <= n + BatchSize
      BY <1>1, <1>4, <2>3
    <3>2. n + BatchSize \in 0 .. Size[j]
      BY <1>4, <2>3
    <3> HIDE DEF rows
    <3> QED BY <3>1, <3>2
  <2> QED BY <2>1, <2>2, <2>3
<1>9. last => \A i \in Items(j) : rows[i] # "absent"
  BY <1>1, <1>4 DEF Good, Phases, Staged, Rest
<1>10. \A i \in Items(j) : rows[i] \in WorkStates
  BY DEF Good, RowShape, WorkStates
<1>11. job[j].phase \in {"staging", "staged"}
  BY DEF Good, Phases
<1>12. last <=> row.phase = "staged"
  BY <1>5
<1> HIDE DEF last, row, rows
<1>13. RestStays(j) /\ job'[j] = row /\ work'[j] = rows /\ applied'[j] = applied[j]
  BY <1>3 DEF RestStays, Domains, Shape
<1>14. Phases(j)'
  BY <1>5, <1>8, <1>9, <1>10, <1>11, <1>12, <1>13
  DEF Phases, Bulk, Management, Reidentification, Staged, Rest, Items
<1>15. ~job[j].retryable /\ job[j].lease # "none"
  BY RunningRow
<1>16. Good(j)' /\ Quiet(j)'
  BY <1>5, <1>6, <1>7, <1>13, <1>14, <1>15, GoodPending
<1> QED BY <1>3, <1>12, <1>13, <1>16

\* The answer of an evaluation: its one subject is decided, and counted alone.
LEMMA RecordGood ==
    ASSUME Shape, Domains, NEW j \in Jobs, j = J, Good(j), Reidentification(j), work[j][1] = "running", Record
    PROVE  RestStays(j) /\ Good(j)'
<1>1. PICK state \in {"ready", "succeeded", "failed"} :
         LET outcome == IF state = "failed" THEN "failed" ELSE "succeeded" IN
         /\ work' = [work EXCEPT ![j][1] = outcome]
         /\ job' = [job EXCEPT ![j] =
               [Released(@, state) EXCEPT
                   !.retryable = (state = "failed"), !.completed = 1,
                   !.succeeded = IF outcome = "succeeded" THEN 1 ELSE 0,
                   !.failed = IF outcome = "failed" THEN 1 ELSE 0]]
  BY DEF Record
<1> DEFINE outcome == IF state = "failed" THEN "failed" ELSE "succeeded"
           released == Released(job[j], state)
           good == IF outcome = "succeeded" THEN 1 ELSE 0
           bad == IF outcome = "failed" THEN 1 ELSE 0
           row == [released EXCEPT !.retryable = (state = "failed"), !.completed = 1,
                                   !.succeeded = good, !.failed = bad]
           rows == [work[j] EXCEPT ![1] = outcome]
<1>2. work' = [work EXCEPT ![j] = rows] /\ job' = [job EXCEPT ![j] = row]
  BY <1>1
<1>3. /\ SameCounts(released, job[j]) /\ released \in JobRow
      /\ released.state = state /\ released.lease = "none"
  BY ReleasedCounts DEF Shape, JobStates
<1> HIDE DEF released
<1>4. /\ row.state = state /\ row.lease = "none" /\ row.retryable = (state = "failed")
      /\ row.completed = 1 /\ row.succeeded = good /\ row.failed = bad /\ row.skipped = released.skipped
  BY <1>3 DEF JobRow
<1>5. Items(j) = {1} /\ rows[1] = outcome /\ rows \in [Items(j) -> WorkStates]
  BY OperationsAssumption DEF Items, Reidentification, Good, RowShape, WorkStates
<1> HIDE DEF row, rows
<1>6. RestStays(j) /\ job'[j] = row /\ work'[j] = rows /\ applied'[j] = applied[j]
  BY <1>2 DEF Record, historyVars, RestStays, Domains, Shape
<1>7. ASSUME NEW states
      PROVE  Count(j, states)' = IF outcome \in states THEN 1 ELSE 0
  <2>1. {k \in Items(j) : rows[k] \in states} = IF outcome \in states THEN {1} ELSE {}
    BY <1>5
  <2>2. Count(j, states)' = Cardinality({k \in Items(j) : rows[k] \in states})
    BY <1>6 DEF Count, Items
  <2>3. Cardinality({}) = 0 /\ Cardinality({1}) = 1
    BY FS_EmptySet, FS_Singleton
  <2> QED BY <2>1, <2>2, <2>3
<1>8. job[j].skipped = 0
  <2>1. {k \in Items(j) : work[j][k] \in {"skipped"}} = {}
    BY <1>5
  <2> QED BY <2>1, FS_EmptySet DEF Good, Tally, Count
<1>9. Tally(j)'
  <2>1. /\ Count(j, Terminal)' = 1 /\ Count(j, {"succeeded"})' = good
        /\ Count(j, {"failed"})' = bad /\ Count(j, {"skipped"})' = 0
    BY <1>7 DEF Terminal
  <2> QED BY <1>3, <1>4, <1>6, <1>8, <2>1 DEF Tally, SameCounts, Reidentification
<1>10. Standing(j)'
  BY <1>4, <1>5, <1>6 DEF Standing, Rest, Terminal, Items, Reidentification
<1>11. Phases(j)'
  BY <1>5, <1>6 DEF Phases, Reidentification, Bulk, Management, Terminal
<1>12. RowShape(j)'
  BY <1>5, <1>6 DEF Good, RowShape, Items
<1> QED BY <1>6, <1>9, <1>10, <1>11, <1>12 DEF Good

\* A preview that is sealed has no work yet.
LEMMA SealGood ==
    ASSUME Shape, Domains, NEW j \in Jobs, Good(j), Management(j), job[j].phase = "planning",
           ~job[j].retryable, UNCHANGED <<work, applied>>,
           job' = [job EXCEPT ![j] = [Released(@, "ready") EXCEPT !.phase = "ready"]]
    PROVE  RestStays(j) /\ Good(j)'
<1> DEFINE released == Released(job[j], "ready")
           row == [released EXCEPT !.phase = "ready"]
<1>1. /\ SameCounts(released, job[j]) /\ released \in JobRow
      /\ released.state = "ready" /\ released.lease = "none" /\ ~released.retryable
  BY ReleasedCounts DEF Shape, JobStates
<1>2. job' = [job EXCEPT ![j] = row]
  OBVIOUS
<1> HIDE DEF released
<1>3. /\ SameCounts(row, job[j]) /\ row.state = "ready" /\ row.lease = "none" /\ ~row.retryable
      /\ row.phase = "ready"
  BY <1>1 DEF JobRow, SameCounts
<1> HIDE DEF row
<1>4. RestStays(j) /\ job'[j] = row /\ work'[j] = work[j] /\ applied'[j] = applied[j]
  BY <1>2 DEF RestStays, Domains, Shape
<1>5. Tally(j)'
  BY <1>3, <1>4, TallyKept DEF Good
<1>6. RowShape(j)' /\ Standing(j)'
  BY <1>3, <1>4 DEF Good, RowShape, Standing, Items
<1>7. Unstarted(j)'
  BY <1>4 DEF Good, Phases, Unstarted, Rest, Items
<1>8. Phases(j)'
  BY <1>3, <1>4, <1>7 DEF Phases, Management, Bulk, Reidentification
<1> QED BY <1>4, <1>5, <1>6, <1>8 DEF Good

LEMMA ApplyFinishedGood ==
    ASSUME Shape, Domains, NEW j \in Jobs, Good(j), Management(j), job[j].phase = "applying",
           ~job[j].retryable, Rest(j, Terminal), UNCHANGED <<work, applied>>,
           job' = [job EXCEPT ![j] = [Released(@, "succeeded") EXCEPT !.phase = "complete"]]
    PROVE  RestStays(j) /\ Good(j)' /\ job'[j].phase = "complete"
<1> DEFINE released == Released(job[j], "succeeded")
           row == [released EXCEPT !.phase = "complete"]
<1>1. /\ SameCounts(released, job[j]) /\ released \in JobRow
      /\ released.state = "succeeded" /\ released.lease = "none" /\ ~released.retryable
  BY ReleasedCounts DEF Shape, JobStates
<1>2. job' = [job EXCEPT ![j] = row]
  OBVIOUS
<1> HIDE DEF released
<1>3. /\ SameCounts(row, job[j]) /\ row.state = "succeeded" /\ row.lease = "none" /\ ~row.retryable
      /\ row.phase = "complete"
  BY <1>1 DEF JobRow, SameCounts
<1> HIDE DEF row
<1>4. RestStays(j) /\ job'[j] = row /\ work'[j] = work[j] /\ applied'[j] = applied[j]
  BY <1>2 DEF RestStays, Domains, Shape
<1>5. Tally(j)'
  BY <1>3, <1>4, TallyKept DEF Good
<1>6. RowShape(j)' /\ Standing(j)'
  BY <1>3, <1>4 DEF Good, RowShape, Standing, Rest, Items, Terminal
<1>7. Staged(j)'
  BY <1>4 DEF Good, Phases, Staged, Rest, Items
<1>8. Phases(j)'
  BY <1>3, <1>4, <1>7 DEF Phases, Management, Bulk, Reidentification
<1> QED BY <1>3, <1>4, <1>5, <1>6, <1>8 DEF Good

LEMMA WorkCountsKept ==
    ASSUME StopInv, StopInv', CountInv, WorkStep \/ Renew
    PROVE  CountInv'
<1>1. PICK j \in Jobs, i \in {I} : j = J /\ i = I
  BY WorkHasJob, InHandFacts DEF J
<1>2. Shape /\ WorkerShape /\ Domains /\ Good(j) /\ RowShape(j) /\ job[j] \in JobRow /\ worker.job = j
  BY <1>1, WorkHasJob, InHandFacts DEF StopInv, Shape, CountInv, J
<1>3. worker.pc \in Hand => /\ job[j].state = "running" /\ ~job[j].retryable /\ job[j].lease # "none"
                            /\ Management(j) => job[j].phase = "applying"
  BY <1>1, WorkHasJob, InHandFacts DEF J
<1>4. worker.pc \notin {"commit", "recovering"} => NonePrepared
  BY WorkHasJob, NoneIsPrepared DEF Between
<1>5. ASSUME UNCHANGED <<job, work, applied>>
      PROVE  RestStays(j) /\ Good(j)' /\ job'[j] = job[j] /\ work'[j] = work[j]
  BY <1>2, <1>5, GoodSame DEF RestStays, Domains
<1>6. ASSUME NEW pc, Goes(pc)
      PROVE  worker'.pc = pc /\ (pc \notin Between => worker'.job = j) /\ (pc = "commit" => worker'.item = i)
  BY <1>1, <1>2, <1>6 DEF Goes, Moved, WorkerShape, I
<1>7. ASSUME NonePrepared, UNCHANGED torn, RestStays(j), Good(j)', InHandInv',
             job[j].phase \in {"applying", "complete"} => job'[j].phase \in {"applying", "complete"}
      PROVE  CountInv'
  BY <1>2, <1>7, TornStaysGood, RestGood DEF CountInv
\* The worker lets go of its job ...
<1>8. ASSUME NonePrepared, UNCHANGED torn, RestStays(j), Good(j)', NEW pc \in Between, Goes(pc),
             job[j].phase \in {"applying", "complete"} => job'[j].phase \in {"applying", "complete"}
      PROVE  CountInv'
  <2>1. InHandInv'
    BY <1>6, <1>8 DEF InHandInv, Between
  <2> QED BY <1>7, <1>8, <2>1
<1>9. ASSUME NEW pc \in Between, Goes(pc), NonePrepared, UNCHANGED <<job, work, applied, torn>>
      PROVE  CountInv'
  BY <1>5, <1>8, <1>9
<1>10. ASSUME NEW pc \in Between, Goes(pc), NonePrepared, UNCHANGED <<applied, torn>>, worker.pc \in Hand,
              Settle(j) \/ (Finish(j, "failed") /\ UNCHANGED work)
       PROVE  CountInv'
  BY <1>2, <1>3, <1>8, <1>10, SettledGood, FailedGood
\* ... or keeps it, with no row written.
<1>11. ASSUME NEW pc, Goes(pc), NonePrepared, UNCHANGED <<job, work, applied, torn>>,
              pc \in {"stage", "take", "finish", "check", "clean"} => Quiet(j),
              pc = "finish" => Pending(j) = {}, pc = "stage" => Bulk(j),
              pc \in {"halt", "record"} => Reidentification(j) /\ work[j][1] = "running",
              pc \in {"check", "take", "finish"} =>
                    ~Reidentification(j) /\ (Bulk(j) => job[j].phase = "staged"),
              pc = "seal" => Management(j) /\ job[j].phase = "planning",
              pc \in {"stage", "take", "finish", "check", "halt", "record", "seal"}
       PROVE  CountInv'
  <2>1. worker'.pc = pc /\ worker'.job = j
    BY <1>6, <1>11 DEF Between
  <2>2. InHandInv'
    BY <1>5, <1>11, <2>1
    DEF InHandInv, Quiet, Pending, Bulk, Reidentification, Management, Items, RunsOnly
  <2> QED BY <1>5, <1>7, <1>11, <2>2
<1>12. CASE StageCheckpoint
  <2>1. worker.pc = "stageCheck" /\ UNCHANGED <<torn, applied>> /\ NonePrepared
    BY <1>4, <1>12 DEF StageCheckpoint, CheckpointAt, At, stepVars, historyVars
  <2>2. (Settle(j) /\ Goes("read")) \/ (Goes("stage") /\ UNCHANGED <<job, work>>)
    BY <1>1, <1>12 DEF StageCheckpoint, CheckpointAt
  <2>3. Quiet(j) /\ Bulk(j)
    BY <1>2, <2>1 DEF CountInv, InHandInv
  <2> QED BY <1>10, <1>11, <2>1, <2>2, <2>3 DEF Hand, Between
<1>13. CASE Checkpoint
  <2>1. worker.pc = "check" /\ UNCHANGED <<torn, applied>> /\ NonePrepared
    BY <1>4, <1>13 DEF Checkpoint, CheckpointAt, At, stepVars, historyVars
  <2>2. (Settle(j) /\ Goes("read")) \/ (Goes("take") /\ UNCHANGED <<job, work>>)
    BY <1>1, <1>13 DEF Checkpoint, CheckpointAt
  <2>3. Quiet(j) /\ ~Reidentification(j) /\ (Bulk(j) => job[j].phase = "staged")
    BY <1>2, <2>1 DEF CountInv, InHandInv
  <2> QED BY <1>10, <1>11, <2>1, <2>2, <2>3 DEF Hand, Between
<1>14. CASE TakeWork
  <2>1. worker.pc = "take" /\ UNCHANGED <<job, torn, applied>> /\ NonePrepared
    BY <1>4, <1>14 DEF TakeWork, At, stepVars, historyVars
  <2>2. Quiet(j) /\ ~Reidentification(j) /\ (Bulk(j) => job[j].phase = "staged")
    BY <1>2, <2>1 DEF CountInv, InHandInv
  <2>3. CASE Pending(j) = {}
    BY <1>1, <1>11, <1>14, <2>1, <2>2, <2>3 DEF TakeWork
  <2>4. CASE Pending(j) # {}
    <3>1. PICK first \in Pending(j) : /\ work' = [work EXCEPT ![j][first] = "running"]
                                      /\ worker' = [worker EXCEPT !.pc = "apply", !.item = first]
      BY <1>1, <1>14, <2>4, FirstPending DEF TakeWork
    <3>2. first \in Items(j) /\ work[j][first] = "pending"
      BY <3>1 DEF Pending
    <3>3. RestStays(j) /\ job'[j] = job[j] /\ work'[j] = [work[j] EXCEPT ![first] = "running"] /\ applied'[j] = applied[j]
      BY <1>2, <2>1, <3>1 DEF RestStays, Domains
    <3>4. Good(j)'
      BY <1>2, <1>3, <2>1, <3>2, <3>3, GoodStarted DEF KeptRow, SameCounts, Hand, Doing
    <3>5. RunsOnly(j, first)'
      BY <1>2, <2>2, <3>2, <3>3 DEF RunsOnly, RowShape, Items, Quiet
    <3>6. worker'.pc = "apply" /\ worker'.job = j /\ worker'.item = first
      BY <1>2, <3>1 DEF WorkerShape
    <3>7. InHandInv'
      BY <2>2, <3>3, <3>5, <3>6 DEF InHandInv, RunsOnly, Reidentification, Bulk, Items
    <3> QED BY <1>7, <2>1, <3>3, <3>4, <3>7
  <2> QED BY <2>3, <2>4
<1>15. CASE Stage
  <2>1. worker.pc = "stage" /\ UNCHANGED torn /\ NonePrepared
    BY <1>4, <1>15 DEF Stage, At, stepVars
  <2>2. Quiet(j) /\ Bulk(j)
    BY <1>2, <2>1 DEF CountInv, InHandInv
  <2>3. /\ RestStays(j) /\ Good(j)' /\ Quiet(j)'
        /\ Goes("stageCheck") \/ (Goes("check") /\ job'[j].phase = "staged")
    BY <1>1, <1>2, <1>3, <1>15, <2>1, <2>2, StageGood DEF Hand
  <2>4. worker'.job = j /\ (worker'.pc = "stageCheck" \/ (worker'.pc = "check" /\ job'[j].phase = "staged"))
    BY <1>6, <2>3 DEF Between
  <2>5. InHandInv'
    BY <2>2, <2>3, <2>4 DEF InHandInv, Bulk, Reidentification, Quiet, Items
  <2>6. job[j].phase \notin {"applying", "complete"}
    BY <1>2, <2>2 DEF Good, Phases
  <2> QED BY <1>7, <2>1, <2>3, <2>5, <2>6
<1>16. ASSUME NEW state \in Terminal, Complete(j, i, state), RunsOnly(j, i), worker.pc \in Hand,
              IF state = "succeeded" THEN applied' = [applied EXCEPT ![j][i] = @ + 1] ELSE UNCHANGED applied
       PROVE  RestStays(j) /\ Good(j)' /\ Quiet(j)' /\ job'[j].phase = job[j].phase
  BY <1>2, <1>3, <1>16, CompleteGood
<1>17. CASE ApplyReview
  <2>1. worker.pc = "apply" /\ Bulk(j) /\ Goes("check") /\ UNCHANGED torn /\ NonePrepared
    BY <1>1, <1>4, <1>17 DEF ApplyReview, At, stepVars
  <2>2. RunsOnly(j, i) /\ job[j].phase = "staged"
    BY <1>1, <1>2, <2>1 DEF CountInv, InHandInv, I
  <2>3. \E state \in Terminal :
           /\ Complete(j, i, state)
           /\ IF state = "succeeded" THEN applied' = [applied EXCEPT ![j][i] = @ + 1] ELSE UNCHANGED applied
    BY <1>1, <1>17 DEF ApplyReview, Effect, Terminal, historyVars
  <2>4. RestStays(j) /\ Good(j)' /\ Quiet(j)' /\ job'[j].phase = job[j].phase
    BY <1>16, <2>1, <2>2, <2>3 DEF Hand, Doing
  <2>5. worker'.pc = "check" /\ worker'.job = j
    BY <1>6, <2>1 DEF Between
  <2>6. InHandInv'
    BY <2>1, <2>2, <2>4, <2>5 DEF InHandInv, Bulk, Reidentification, Quiet, Items
  <2> QED BY <1>7, <2>1, <2>4, <2>6
<1>18. CASE ApplyFaults
  BY <1>4, <1>9, <1>18 DEF ApplyFaults, At, Fault, stepVars, historyVars, Between
\* The rows are all done when the worker finds none to take.
<1>19. ASSUME worker.pc = "finish"
       PROVE  Rest(j, Terminal)
  <2>1. /\ Quiet(j) /\ Pending(j) = {} /\ ~Reidentification(j)
        /\ Bulk(j) => job[j].phase = "staged"
    BY <1>2, <1>19 DEF CountInv, InHandInv
  <2>2. Kind[j] \in Kinds
    BY OperationsAssumption
  <2>3. Staged(j)
    BY <1>2, <1>3, <1>19, <2>1, <2>2 DEF Good, Phases, Kinds, Bulk, Management, Reidentification, Hand
  <2> QED BY <1>2, <2>1, <2>3 DEF Staged, Rest, Quiet, Pending, RowShape, WorkStates, Terminal
<1>20. CASE FinishBulk
  <2>1. worker.pc = "finish" /\ Bulk(j) /\ Finish(j, "succeeded") /\ Goes("read") /\ UNCHANGED <<work, torn, applied>>
    BY <1>1, <1>20 DEF FinishBulk, At, stepVars, historyVars
  <2> DEFINE released == Released(job[j], "succeeded")
             row == [released EXCEPT !.retryable = FALSE]
  <2>2. /\ SameCounts(released, job[j]) /\ released \in JobRow
        /\ released.state = "succeeded" /\ released.lease = "none" /\ released.phase = job[j].phase
    BY <1>2, ReleasedCounts DEF JobStates
  <2>3. job' = [job EXCEPT ![j] = row]
    BY <2>1 DEF Finish
  <2> HIDE DEF released
  <2>4. /\ SameCounts(row, job[j]) /\ row.state = "succeeded" /\ row.lease = "none" /\ ~row.retryable
        /\ row.phase = job[j].phase
    BY <2>2 DEF JobRow, SameCounts
  <2> HIDE DEF row
  <2>5. RestStays(j) /\ job'[j] = row /\ work'[j] = work[j] /\ applied'[j] = applied[j]
    BY <1>2, <2>1, <2>3 DEF RestStays, Domains, Shape
  <2>6. Good(j)'
    BY <1>2, <1>19, <2>1, <2>4, <2>5, GoodKept DEF KeptRow, Bulk, Management
  <2>7. job'[j].phase = job[j].phase
    BY <2>4, <2>5
  <2> QED BY <1>4, <1>8, <2>1, <2>5, <2>6, <2>7 DEF Between
<1>21. CASE TakeEvaluation
  <2>1. worker.pc = "evaluateTake" /\ UNCHANGED <<torn, applied>> /\ NonePrepared
    BY <1>4, <1>21 DEF TakeEvaluation, At, stepVars, historyVars
  <2>2. Reidentification(j)
    BY <1>2, <2>1 DEF CountInv, InHandInv
  <2>3. CASE work[j][1] = "pending"
    <3>1. work' = [work EXCEPT ![j] = [work[j] EXCEPT ![1] = "running"]] /\ Goes("evaluate") /\ UNCHANGED job
      BY <1>1, <1>21, <2>3 DEF TakeEvaluation
    <3>2. 1 \in Items(j)
      BY <2>2, OperationsAssumption DEF Items, Reidentification
    <3>3. /\ RestStays(j) /\ job'[j] = job[j] /\ work'[j] = [work[j] EXCEPT ![1] = "running"]
          /\ applied'[j] = applied[j]
      BY <1>2, <2>1, <3>1 DEF RestStays, Domains
    <3>4. Good(j)'
      BY <1>2, <1>3, <2>1, <2>2, <2>3, <3>2, <3>3, GoodStarted
      DEF KeptRow, SameCounts, Hand, Reidentification, Management
    <3>5. worker'.pc = "evaluate" /\ worker'.job = j
      BY <1>6, <3>1 DEF Between
    <3>6. work'[j][1] = "running"
      BY <1>2, <3>2, <3>3 DEF RowShape
    <3>7. InHandInv'
      BY <2>2, <3>5, <3>6 DEF InHandInv, Reidentification
    <3> QED BY <1>7, <2>1, <3>3, <3>4, <3>7
  <2>4. CASE work[j][1] # "pending"
    BY <1>1, <1>10, <1>21, <2>1, <2>4 DEF TakeEvaluation, Hand, Between
  <2> QED BY <2>3, <2>4
<1>22. CASE EvaluateStale
  BY <1>1, <1>4, <1>10, <1>22 DEF EvaluateStale, At, stepVars, historyVars, Hand, Between
<1>23. CASE Evaluate
  <2>1. worker.pc = "evaluate" /\ UNCHANGED <<job, work, torn, applied>> /\ NonePrepared
    BY <1>4, <1>23 DEF Evaluate, At, stepVars, historyVars
  <2>2. Goes("halt") \/ Goes("record")
    BY <1>23 DEF Evaluate
  <2>3. Reidentification(j) /\ work[j][1] = "running"
    BY <1>2, <2>1 DEF CountInv, InHandInv
  <2> QED BY <1>11, <2>1, <2>2, <2>3
<1>24. CASE Halt
  <2>1. worker.pc = "halt" /\ UNCHANGED <<torn, applied>> /\ NonePrepared /\ Goes("read")
    BY <1>4, <1>24 DEF Halt, At, stepVars, historyVars
  <2>2. \/ job' = [job EXCEPT ![j] = Released(@, "queued")] /\ work' = [work EXCEPT ![j] = Requeued(@)]
        \/ Settle(j)
        \/ UNCHANGED <<job, work>>
    BY <1>1, <1>24 DEF Halt
  <2>3. CASE job' = [job EXCEPT ![j] = Released(@, "queued")] /\ work' = [work EXCEPT ![j] = Requeued(@)]
    <3>1. /\ RestStays(j) /\ job'[j] = Released(job[j], "queued") /\ work'[j] = Requeued(work[j])
          /\ applied'[j] = applied[j]
      BY <1>2, <2>1, <2>3 DEF RestStays, Domains, Shape
    <3>2. Good(j)' /\ job'[j].phase = job[j].phase
      BY <1>2, <1>3, <2>1, <3>1, RequeuedGood, ReleasedCounts DEF Hand, JobStates
    <3> QED BY <1>8, <2>1, <3>1, <3>2 DEF Between
  <2> QED BY <1>9, <1>10, <2>1, <2>2, <2>3 DEF Hand, Between
<1>25. CASE Record
  <2>1. worker.pc = "record" /\ UNCHANGED torn /\ NonePrepared /\ Goes("read")
    BY <1>4, <1>25 DEF Record, At, stepVars
  <2>2. Reidentification(j) /\ work[j][1] = "running"
    BY <1>2, <2>1 DEF CountInv, InHandInv
  <2>3. RestStays(j) /\ Good(j)'
    BY <1>1, <1>2, <1>25, <2>2, RecordGood
  <2>4. job'[j].phase = job[j].phase
    BY <1>1, <1>2, <1>25 DEF Record, Released, JobRow, Shape
  <2> QED BY <1>8, <2>1, <2>3, <2>4 DEF Between
<1>26. CASE RecordFaults
  BY <1>4, <1>9, <1>26 DEF RecordFaults, At, Fault, stepVars, historyVars, Between
<1>27. CASE PlanLost
  BY <1>4, <1>9, <1>27 DEF PlanLost, stepVars, historyVars, Between
<1>28. CASE Renew
  <2> DEFINE row == [job[j] EXCEPT !.lease = "live"]
  <2>1. /\ worker.pc = "plan" /\ UNCHANGED <<work, worker, torn, applied>> /\ NonePrepared
        /\ job[j].state = "running"
    BY <1>1, <1>4, <1>28 DEF Renew, At, stepVars, historyVars, Expired
  <2>2. job' = [job EXCEPT ![j] = row]
    BY <1>1, <1>2, <1>28 DEF Renew, Shape
  <2>3. /\ SameCounts(row, job[j]) /\ row.state = "running" /\ row.lease = "live"
        /\ row.retryable = job[j].retryable /\ row.phase = job[j].phase
    BY <1>2, <2>1 DEF JobRow, SameCounts
  <2> HIDE DEF row
  <2>4. RestStays(j) /\ job'[j] = row /\ work'[j] = work[j] /\ applied'[j] = applied[j]
    BY <1>2, <2>1, <2>2 DEF RestStays, Domains, Shape
  <2>5. ~job[j].retryable /\ (Management(j) => job[j].phase \in {"planning", "applying"})
    BY <1>2, <2>1, RunningRow
  <2>6. Good(j)'
    BY <1>2, <2>3, <2>4, <2>5, GoodKept DEF KeptRow
  <2>7. InHandInv'
    BY <1>2, <2>1, <2>3, <2>4 DEF CountInv, InHandInv, Management
  <2> QED BY <1>7, <2>1, <2>3, <2>4, <2>6, <2>7
<1>29. ASSUME worker.pc \in {"plan", "seal"}
       PROVE  Management(j) /\ job[j].phase = "planning" /\ Quiet(j)
  BY <1>2, <1>29 DEF CountInv, InHandInv, Good, Phases, Unstarted, Rest, Quiet
<1>30. CASE Plan
  <2>1. worker.pc = "plan" /\ UNCHANGED <<torn, applied>> /\ NonePrepared /\ job[j].state = "running"
    BY <1>1, <1>4, <1>30 DEF Plan, At, stepVars, historyVars, Mine
  <2>2. \/ job' = [job EXCEPT ![j] = Released(@, "queued")] /\ UNCHANGED work /\ Goes("read")
        \/ Settle(j) /\ Goes("read")
        \/ Finish(j, "failed") /\ Goes("read") /\ UNCHANGED work
        \/ UNCHANGED <<job, work>> /\ Goes("seal")
    BY <1>1, <1>30 DEF Plan
  <2>3. CASE job' = [job EXCEPT ![j] = Released(@, "queued")] /\ UNCHANGED work /\ Goes("read")
    <3>1. /\ RestStays(j) /\ job'[j] = Released(job[j], "queued") /\ work'[j] = work[j]
          /\ applied'[j] = applied[j]
      BY <1>2, <2>1, <2>3 DEF RestStays, Domains, Shape
    <3>2. Good(j)' /\ job'[j].phase = job[j].phase
      BY <1>2, <1>29, <2>1, <3>1, RequeuedGood, ReleasedCounts DEF JobStates
    <3> QED BY <1>8, <2>1, <2>3, <3>1, <3>2 DEF Between
  <2>4. CASE (Settle(j) \/ (Finish(j, "failed") /\ UNCHANGED work)) /\ Goes("read")
    BY <1>2, <1>8, <2>1, <2>4, SettledGood, FailedGood DEF Between
  <2>5. CASE UNCHANGED <<job, work>> /\ Goes("seal")
    BY <1>11, <1>29, <2>1, <2>5
  <2> QED BY <2>2, <2>3, <2>4, <2>5
<1>31. CASE Seal
  <2>1. /\ worker.pc = "seal" /\ UNCHANGED <<work, torn, applied>> /\ NonePrepared
        /\ job[j].state = "running"
    BY <1>1, <1>4, <1>31 DEF Seal, At, stepVars, historyVars, Mine
  <2>2. CASE Finish(j, "failed") /\ Goes("read")
    BY <1>2, <1>8, <2>1, <2>2, FailedGood DEF Between
  <2>3. CASE /\ job' = [job EXCEPT ![j] = [Released(@, "ready") EXCEPT !.phase = "ready"]]
             /\ Goes("sealed") \/ Goes("read")
    <3>1. RestStays(j) /\ Good(j)'
      BY <1>2, <1>29, <2>1, <2>3, RunningRow, SealGood
    <3>2. worker'.pc = "read" \/ (worker'.pc = "sealed" /\ worker'.job = j)
      BY <1>6, <2>3 DEF Between
    <3>3. InHandInv'
      BY <1>29, <2>1, <3>2 DEF InHandInv, Management
    <3> QED BY <1>7, <1>29, <2>1, <3>1, <3>3
  <2> QED BY <1>1, <1>31, <2>2, <2>3 DEF Seal
<1>32. CASE ReadSealed
  <2>1. worker.pc = "sealed" /\ UNCHANGED <<job, work, torn, applied>> /\ NonePrepared
    BY <1>4, <1>32 DEF ReadSealed, At, stepVars, historyVars
  <2>2. (worker'.pc = "automatic" /\ worker'.job = j) \/ Goes("read")
    BY <1>2, <1>32 DEF ReadSealed, WorkerShape
  <2>3. Management(j)
    BY <1>2, <2>1 DEF CountInv, InHandInv
  <2>4. InHandInv'
    BY <1>6, <2>2, <2>3 DEF InHandInv, Management, Between
  <2> QED BY <1>5, <1>7, <2>1, <2>4
<1>33. CASE ApplyAutomatically
  <2>1. /\ worker.pc = "automatic" /\ UNCHANGED <<torn, applied>> /\ NonePrepared
        /\ worker'.pc = "read"
    BY <1>2, <1>4, <1>33 DEF ApplyAutomatically, At, historyVars, Moved, WorkerShape
  <2>2. BeginApply(j) \/ UNCHANGED <<job, work>>
    BY <1>1, <1>33 DEF ApplyAutomatically
  <2>3. RestStays(j) /\ Good(j)' /\ (job'[j].phase = "applying" \/ job'[j].phase = job[j].phase)
    BY <1>2, <1>5, <2>1, <2>2, BegunGood
  <2>4. InHandInv'
    BY <2>1 DEF InHandInv
  <2> QED BY <1>7, <2>1, <2>3, <2>4
\* The subject in hand is done, and its bundle is gone or left to recovery.
<1>34. ASSUME NEW state \in Terminal, Complete(j, i, state), NEW at \in {"rollback", "committed"},
              worker.pc \in {"apply", "commit"}, Management(j), Goes("check") \/ Goes("clean"),
              IF state = "succeeded" THEN applied' = [applied EXCEPT ![j][i] = @ + 1] ELSE UNCHANGED applied,
              \/ torn' = [torn EXCEPT ![j] = NoBundle]
              \/ torn' = [torn EXCEPT ![j] = [item |-> i, at |-> at]]
              \/ NonePrepared /\ UNCHANGED torn
       PROVE  CountInv'
  <2>1. RunsOnly(j, i) /\ job[j].phase = "applying"
    BY <1>1, <1>2, <1>3, <1>34 DEF CountInv, InHandInv, Hand, Doing, I
  <2>2. RestStays(j) /\ Good(j)' /\ Quiet(j)' /\ job'[j].phase = "applying"
    BY <1>16, <1>34, <2>1 DEF Hand, Doing
  <2>3. worker'.pc \in {"check", "clean"} /\ worker'.job = j
    BY <1>6, <1>34 DEF Between
  <2>4. InHandInv'
    BY <1>34, <2>2, <2>3 DEF InHandInv, Management, Bulk, Reidentification, Quiet, Items
  <2>5. \A k \in Jobs \ {j} : torn[k].at # "prepared"
    BY <1>2, <1>34 DEF CountInv, TornInv
  <2>6. i \in Items(j)
    BY <2>1 DEF RunsOnly
  <2>7. TornInv'
    <3>1. CASE torn' = [torn EXCEPT ![j] = NoBundle]
      BY <1>2, <2>2, <2>5, <3>1, TornWritten
    <3>2. CASE torn' = [torn EXCEPT ![j] = [item |-> i, at |-> at]]
      BY <1>2, <2>2, <2>5, <2>6, <3>2, TornWritten
    <3>3. CASE NonePrepared /\ UNCHANGED torn
      BY <2>2, <3>3, TornStaysGood
    <3> QED BY <1>34, <3>1, <3>2, <3>3
  <2> QED BY <1>2, <2>2, <2>4, <2>7, RestGood DEF CountInv
<1>35. CASE Publish
  <2>1. worker.pc = "apply" /\ Management(j) /\ UNCHANGED applied /\ NonePrepared
    BY <1>1, <1>4, <1>35 DEF Publish, At, historyVars
  <2>2. CASE (\E state \in {"failed", "skipped"} : Complete(j, i, state)) /\ Goes("check") /\ UNCHANGED torn
    BY <1>34, <2>1, <2>2 DEF Terminal
  <2>3. CASE TornAt("prepared") /\ Goes("commit") /\ UNCHANGED <<job, work>>
    <3>1. RunsOnly(j, i) /\ job[j].phase = "applying"
      BY <1>1, <1>2, <1>3, <2>1 DEF CountInv, InHandInv, Hand, Doing, I
    <3>2. RestStays(j) /\ Good(j)' /\ job'[j] = job[j] /\ work'[j] = work[j]
      BY <1>5, <2>1, <2>3
    <3>3. worker'.pc = "commit" /\ worker'.job = j /\ worker'.item = i
      BY <1>6, <2>3 DEF Between
    <3>4. RunsOnly(j, i)' /\ i \in Items(j)
      BY <3>1, <3>2 DEF RunsOnly, Items
    <3>5. InHandInv'
      BY <3>3, <3>4 DEF InHandInv, RunsOnly, Items
    <3>6. torn' = [torn EXCEPT ![j] = [item |-> i, at |-> "prepared"]] /\ \A k \in Jobs \ {j} : torn[k].at # "prepared"
      BY <1>1, <2>1, <2>3 DEF TornAt, NonePrepared
    <3>7. TornInv'
      BY <1>2, <3>1, <3>2, <3>3, <3>4, <3>6, TornWritten
    <3> QED BY <1>2, <3>2, <3>5, <3>7, RestGood DEF CountInv
  <2> QED BY <1>1, <1>35, <2>2, <2>3 DEF Publish
<1>36. worker.pc = "commit" => Management(j)
  BY <1>2 DEF StopInv, TornApplies
<1>37. CASE Commit
  <2>1. worker.pc = "commit" /\ Complete(j, i, "succeeded") /\ Goes("clean")
    BY <1>1, <1>37 DEF Commit, At
  <2>2. torn' = [torn EXCEPT ![j] = [item |-> i, at |-> "committed"]]
    BY <1>1, <1>37 DEF Commit, TornAt
  <2>3. applied' = [applied EXCEPT ![j][i] = @ + 1]
    BY <1>1, <1>37 DEF Commit, Effect
  <2> QED BY <1>34, <1>36, <2>1, <2>2, <2>3 DEF Terminal
<1>38. CASE Rollback
  <2>1. worker.pc = "commit" /\ Goes("check") /\ UNCHANGED applied
    BY <1>38 DEF Rollback, At, historyVars
  <2>2. PICK state \in {"failed", "skipped"} : Complete(j, i, state)
    BY <1>1, <1>38 DEF Rollback
  <2>3. torn' = [torn EXCEPT ![j] = NoBundle] \/ torn' = [torn EXCEPT ![j] = [item |-> i, at |-> "rollback"]]
    BY <1>1, <1>38 DEF Rollback, TornAt
  <2> QED BY <1>34, <1>36, <2>1, <2>2, <2>3 DEF Terminal
<1>39. CASE Clean
  <2>1. worker.pc = "clean" /\ Goes("check") /\ UNCHANGED <<job, work, applied>> /\ NonePrepared
    BY <1>4, <1>39 DEF Clean, At, historyVars
  <2>2. Quiet(j) /\ Management(j) /\ job[j].phase = "applying"
    BY <1>2, <1>3, <2>1 DEF CountInv, InHandInv, Hand
  <2>3. CASE UNCHANGED torn
    BY <1>11, <2>1, <2>2, <2>3 DEF Management, Bulk, Reidentification
  <2>4. CASE torn' = [torn EXCEPT ![j] = NoBundle]
    <3>1. RestStays(j) /\ Good(j)' /\ job'[j] = job[j] /\ work'[j] = work[j]
      BY <1>5, <2>1
    <3>2. worker'.pc = "check" /\ worker'.job = j
      BY <1>6, <2>1 DEF Between
    <3>3. InHandInv'
      BY <2>2, <3>1, <3>2 DEF InHandInv, Quiet, Bulk, Management, Reidentification, Items
    <3>4. TornInv'
      BY <1>2, <2>1, <2>2, <2>4, <3>1, TornWritten DEF NonePrepared
    <3> QED BY <1>2, <3>1, <3>3, <3>4, RestGood DEF CountInv
  <2> QED BY <1>1, <1>39, <2>3, <2>4 DEF Clean
<1>40. CASE FinishApply
  <2>1. worker.pc = "finish" /\ Management(j) /\ UNCHANGED <<work, torn, applied>> /\ NonePrepared
    BY <1>1, <1>4, <1>40 DEF FinishApply, At, stepVars, historyVars
  <2>2. CASE Goes("wait") /\ UNCHANGED job
    BY <1>9, <2>1, <2>2 DEF Between
  <2>3. CASE job' = [job EXCEPT ![j] = [Released(@, "succeeded") EXCEPT !.phase = "complete"]] /\ Goes("read")
    <3>1. job[j].phase = "applying" /\ ~job[j].retryable /\ Rest(j, Terminal)
      BY <1>3, <1>19, <2>1 DEF Hand
    <3>2. RestStays(j) /\ Good(j)' /\ job'[j].phase = "complete"
      BY <1>2, <2>1, <2>3, <3>1, ApplyFinishedGood
    <3> QED BY <1>8, <2>1, <2>3, <3>2 DEF Between
  <2> QED BY <1>1, <1>40, <2>2, <2>3 DEF FinishApply
<1> QED
  BY <1>12, <1>13, <1>14, <1>15, <1>17, <1>18, <1>20, <1>21, <1>22, <1>23, <1>24, <1>25, <1>26, <1>27, <1>28,
     <1>30, <1>31, <1>32, <1>33, <1>35, <1>37, <1>38, <1>39, <1>40
  DEF WorkStep

-----------------------------------------------------------------------------
(* Counters: the surroundings, and the theorems *)

\* The worker stays where it is, and no row changes but in its lease.
LEMMA CountsStay ==
    ASSUME CountInv, Domains', \A k \in Jobs : Good(k)', UNCHANGED <<worker, work, torn>>,
           \A k \in Jobs : job'[k].phase = job[k].phase, worker.pc \notin Between => worker.job \in Jobs
    PROVE  CountInv'
<1>1. InHandInv'
  <2>1. CASE worker.pc \in Between
    BY <2>1 DEF InHandInv, Between
  <2>2. CASE worker.pc \notin Between
    BY <2>2 DEF CountInv, InHandInv, RunsOnly, Quiet, Pending, Bulk, Management, Reidentification, Items
  <2> QED BY <2>1, <2>2
<1>2. TornInv'
  BY DEF CountInv, TornInv, Items
<1> QED BY <1>1, <1>2 DEF CountInv

LEMMA SurroundingsCountsKept ==
    ASSUME StopInv, CountInv, Surroundings \/ UNCHANGED vars
    PROVE  CountInv'
<1>1. Shape /\ Domains /\ \A k \in Jobs : Good(k)
  BY DEF StopInv, CountInv
<1>2. ASSUME UNCHANGED <<job, work, applied>>
      PROVE  Domains' /\ \A k \in Jobs : Good(k)'
  BY <1>1, <1>2, GoodSame DEF Domains
<1>3. worker.pc \notin Between => worker.job \in Jobs
  BY <1>1 DEF Shape, WorkerShape
<1>4. ASSUME NEW j \in Jobs, LeaseExpires(j)
      PROVE  CountInv'
  <2> DEFINE row == [job[j] EXCEPT !.lease = "expired"]
  <2>1. job[j].lease = "live" /\ UNCHANGED <<work, torn, worker, applied>>
    BY <1>4 DEF LeaseExpires, loopVars
  <2>2. job' = [job EXCEPT ![j] = row]
    BY <1>1, <1>4 DEF LeaseExpires, Shape
  <2>3. /\ SameCounts(row, job[j]) /\ row.state = job[j].state /\ row.lease = "expired"
        /\ row.retryable = job[j].retryable /\ row.phase = job[j].phase
    BY <1>1 DEF Shape, JobRow, SameCounts
  <2> HIDE DEF row
  <2>4. RestStays(j) /\ job'[j] = row /\ work'[j] = work[j] /\ applied'[j] = applied[j]
    BY <1>1, <2>1, <2>2 DEF RestStays, Domains, Shape
  <2>5. job[j].state = "running"
    BY <1>1, <2>1 DEF Good, Standing
  <2>6. Good(j)'
    BY <1>1, <2>3, <2>4, <2>5, RunningRow, GoodKept DEF KeptRow
  <2>7. \A k \in Jobs : job'[k].phase = job[k].phase
    BY <2>3, <2>4 DEF RestStays
  <2> QED BY <1>3, <2>1, <2>4, <2>6, <2>7, RestGood, CountsStay
<1>5. CASE ScanBegins \/ ScanEnds
  BY <1>2, <1>3, <1>5, CountsStay DEF ScanBegins, ScanEnds, historyVars
<1>6. CASE Restart
  <2>1. UNCHANGED <<job, work, torn, applied>>
    BY <1>6 DEF Restart, historyVars
  <2>2. worker'.pc = "bundles" /\ worker'.forced /\ worker'.todo = {j \in Jobs : torn[j] # NoBundle}
    BY <1>6 DEF Restart, Idle
  <2>3. InHandInv'
    BY <2>2 DEF InHandInv
  <2>4. TornInv'
    BY <2>1, <2>2 DEF CountInv, TornInv, NoBundle, Items
  <2> QED BY <1>2, <2>1, <2>3, <2>4 DEF CountInv
<1>7. CASE UNCHANGED vars
  BY <1>2, <1>3, <1>7, CountsStay DEF vars
<1> QED BY <1>4, <1>5, <1>6, <1>7 DEF Surroundings

LEMMA CountInvInit ==
    ASSUME Init
    PROVE  CountInv
<1>1. ASSUME NEW j \in Jobs
      PROVE  Good(j)
  <2>1. job[j] = Row(j) /\ \A i \in Items(j) : work[j][i] = "absent" /\ applied[j][i] = 0
    BY DEF Init
  <2>2. RowShape(j)
    BY DEF Init, RowShape, WorkStates
  <2>3. ASSUME NEW states, "absent" \notin states
        PROVE  Count(j, states) = 0
    <3>1. {i \in Items(j) : work[j][i] \in states} = {}
      BY <2>1, <2>3
    <3> QED BY <3>1, FS_EmptySet DEF Count
  <2>4. Tally(j)
    BY <2>1, <2>3 DEF Tally, Row, Terminal
  <2>5. Standing(j)
    BY <2>1 DEF Standing, Row, Unstarted, Rest
  <2>6. Bulk(j) => \E n \in 0 .. Size[j] : \A i \in Items(j) : work[j][i] # "absent" <=> i <= n
    <3>1. Size[j] \in Nat /\ 0 \in 0 .. Size[j]
      BY OperationsAssumption
    <3>2. \A i \in Items(j) : work[j][i] # "absent" <=> i <= 0
      BY <2>1, <3>1 DEF Items
    <3> QED BY <3>1, <3>2
  <2>7. Phases(j)
    BY <2>1, <2>6 DEF Phases, Row, Bulk, Management, Reidentification, Unstarted, Rest
  <2> QED BY <2>2, <2>4, <2>5, <2>7 DEF Good
<1>2. Domains
  BY DEF Init, Domains
<1>3. InHandInv
  BY DEF Init, Idle, InHandInv
<1>4. TornInv
  BY DEF Init, TornInv, NoBundle
<1> QED BY <1>1, <1>2, <1>3, <1>4 DEF CountInv

LEMMA CountInvariant == Spec => []CountInv
<1>1. Init => CountInv
  BY CountInvInit
<1>2. StopInv /\ StopInv' /\ CountInv /\ [Next]_vars => CountInv'
  <2> SUFFICES ASSUME StopInv, StopInv', CountInv, [Next]_vars
               PROVE  CountInv'
    OBVIOUS
  <2>1. CASE Next
    BY <2>1, UserCountsKept, LoopCountsKept, WorkCountsKept, SurroundingsCountsKept DEF Next
  <2>2. CASE UNCHANGED vars
    BY <2>2, SurroundingsCountsKept
  <2> QED BY <2>1, <2>2
<1> QED BY <1>1, <1>2, StopInvariant, PTL DEF Spec

\* Through faults, lost leases, process stops, recovered and compensated bundles, pauses,
\* stops and resumes, the counters of every operation are those of its subjects' rows, and
\* a subject of a bulk review or of an apply was applied exactly once if its row says that
\* it has succeeded, and never otherwise.
THEOREM CountersAgreeHolds == Spec => []CountersAgree
<1>1. CountInv => CountersAgree
  BY DEF CountInv, Good, Tally, CountersAgree
<1> QED BY <1>1, CountInvariant, PTL

\* An operation that reports success, whether its worker finished it, recovery settled it or
\* a user accepted its candidate, has left none of its subjects undone.
THEOREM FinishedIsWholeHolds == Spec => []FinishedIsWhole
<1>1. CountInv => FinishedIsWhole
  BY DEF CountInv, Good, Standing, Rest, FinishedIsWhole
<1> QED BY <1>1, CountInvariant, PTL

Signals == untold \in Nat /\ scanActive \in BOOLEAN

LEMMA SignalsStep ==
    ASSUME Signals, [Next]_vars
    PROVE  Signals'
<1>1. ASSUME UNCHANGED <<untold, scanActive>> \/ (Tell /\ UNCHANGED scanActive)
      PROVE  Signals'
  BY <1>1 DEF Signals, Tell
<1>2. ASSUME NEW j \in Jobs, UserStep(j)
      PROVE  Signals'
  <2>1. UNCHANGED scanActive
    BY <1>2 DEF UserStep, Create, Pause, Stop, Resume, Accept, Discard, Apply, Controls, userVars
  <2>2. UNCHANGED untold \/ Tell
    BY <1>2 DEF UserStep, Create, Pause, Stop, Resume, Accept, Discard, Apply, BeginApply
  <2> QED BY <1>1, <2>1, <2>2
<1>3. CASE Notify
  BY <1>3 DEF Notify, loopVars, Signals
<1>4. CASE LoopStep
  <2>1. CASE ReadRevision \/ RecoverLeases \/ RecoverAdopts \/ RecoverFails \/ RecoveryEnds
    BY <1>1, <2>1
    DEF ReadRevision, RecoverLeases, RecoverAdopts, RecoverFails, RecoveryEnds, recoveryVars, loopVars
  <2>2. ASSUME NEW j \in Jobs, RecoveryStep(j) \/ ClaimJob(j)
        PROVE  Signals'
    BY <1>1, <2>2 DEF RecoveryStep, RecoverCommitted, Compensate, ClaimBundle, ClaimJob, recoveryVars, loopVars
  <2>3. CASE ClaimNothing \/ Wait \/ Wakes
    BY <1>1, <2>3 DEF ClaimNothing, Wait, Wakes, loopVars
  <2> QED BY <1>4, <2>1, <2>2, <2>3 DEF LoopStep
<1>5. CASE WorkStep
  <2>1. CASE ApplyAutomatically
    BY <1>1, <2>1 DEF ApplyAutomatically, BeginApply
  <2>2. CASE Publish \/ Commit \/ Rollback \/ Clean
    BY <1>1, <2>2 DEF Publish, Commit, Rollback, Clean
  <2>3. CASE StageCheckpoint \/ Stage \/ Checkpoint \/ TakeWork \/ ApplyReview \/ ApplyFaults \/ FinishBulk
    BY <1>1, <2>3
    DEF StageCheckpoint, Stage, Checkpoint, CheckpointAt, TakeWork, ApplyReview, ApplyFaults, FinishBulk, stepVars
  <2>4. CASE TakeEvaluation \/ EvaluateStale \/ Evaluate \/ Halt \/ Record \/ RecordFaults
    BY <1>1, <2>4 DEF TakeEvaluation, EvaluateStale, Evaluate, Halt, Record, RecordFaults, stepVars
  <2>5. CASE PlanLost \/ Plan \/ Seal \/ ReadSealed \/ FinishApply
    BY <1>1, <2>5 DEF PlanLost, Plan, Seal, ReadSealed, FinishApply, stepVars
  <2> QED BY <1>5, <2>1, <2>2, <2>3, <2>4, <2>5 DEF WorkStep
<1>6. CASE Renew
  BY <1>1, <1>6 DEF Renew, stepVars
<1>7. CASE Surroundings
  <2>1. untold' = untold \/ untold' = 0
    BY <1>7 DEF Surroundings, LeaseExpires, ScanBegins, ScanEnds, Restart
  <2>2. scanActive' = scanActive \/ scanActive' = TRUE \/ scanActive' = FALSE
    BY <1>7, Zenon DEF Surroundings, LeaseExpires, ScanBegins, ScanEnds, Restart, loopVars
  <2>3. scanActive' \in BOOLEAN
    BY <2>2, Zenon DEF Signals
  <2> QED BY <2>1, <2>3 DEF Signals
<1>8. CASE UNCHANGED vars
  BY <1>1, <1>8 DEF vars
<1> QED BY <1>2, <1>3, <1>4, <1>5, <1>6, <1>7, <1>8 DEF Next

\* The rows of the operations, of their subjects and of their bundles have their types; a
\* lease is held exactly while its operation runs, and no subject runs in one that waits.
THEOREM OperationsTypeCorrect == Spec => []TypeOK
<1>1. Init => Signals
  <2>1. Init => scanActive \in BOOLEAN
    BY Zenon DEF Init
  <2> QED BY <2>1 DEF Init, Signals
<1>2. Signals /\ [Next]_vars => Signals'
  BY SignalsStep
<1>3. StopInv /\ CountInv /\ WakeInv /\ Signals => TypeOK
  <2> SUFFICES ASSUME StopInv, CountInv, WakeInv, Signals
               PROVE  TypeOK
    OBVIOUS
  <2>1. \A j \in Jobs :
           /\ work[j] \in [Items(j) -> WorkStates]
           /\ applied[j] \in [Items(j) -> Nat]
           /\ torn[j] \in [item : {0} \union Items(j), at : {"none", "prepared", "rollback", "committed"}]
           /\ job[j].lease = "none" <=> job[j].state # "running"
           /\ job[j].state \in {"queued", "paused"} => \A i \in Items(j) : work[j][i] # "running"
    BY DEF CountInv, Good, RowShape, TornInv, Standing, Quiet
  <2>2. job \in [Jobs -> JobRow] /\ worker.pc \in Pcs /\ worker.todo \subseteq Jobs /\ asked \subseteq Jobs
    BY DEF StopInv, Shape, WorkerShape
  <2> QED BY <2>1, <2>2 DEF TypeOK, JobRow, WakeInv, Signals
<1> QED BY <1>1, <1>2, <1>3, StopInvariant, CountInvariant, WakeInvariant, PTL DEF Spec
=============================================================================
