------------------------- MODULE LibraryScanProofs -------------------------
(***************************************************************************)
(* Proofs about LibraryScan, for any number of runs, files, roots, scopes  *)
(* and policies, in the order in which the invariants rest on each other:  *)
(*   ScanInv: one run at a time is active, and a run that is over keeps    *)
(*     its outcome;                                                        *)
(*   TypeInv: types, and what the worker's place says of its run;          *)
(*   PendingControlIsHeld, where there is one policy;                      *)
(*   InventoryInv: what the inventories and fences say of the disk, from   *)
(*     which only absent files are marked missing;                         *)
(*   RestoreInv: what reconciliation has finished, from which a completed  *)
(*     run has left no present file of its scopes missing.                 *)
(* The circumstances that a theorem excludes are named at the theorem.     *)
(***************************************************************************)
EXTENDS LibraryScan, FiniteSetTheorems, TLAPS

Fields == {"state", "control", "resume", "policy", "scopes", "at"}

\* What requested_control says agrees with the state: a run that waits in the queue has no
\* control pending, or RunOnce would claim it and a restart would pause or cancel it; a
\* pause or a stop is left standing only in the states it leads to.
ControlAgrees(rec) ==
    /\ rec.state = "queued" => rec.control = "none"
    /\ rec.control = "pause" => rec.state \in {"pausing"} \union Terminal
    /\ rec.control = "stop" => rec.state \in {"stopping", "cancelled"}

GoodRun(rec) == DOMAIN rec = Fields /\ ControlAgrees(rec)

RunsOK ==
    /\ DOMAIN runs = Runs
    /\ \A r \in Runs : runs[r] # NoRun => GoodRun(runs[r])

\* A worker that is not idle has a run and a phase, and as long as nobody has written the
\* run since the worker read it at the end of a phase, the run is still in that phase: so
\* the CAS of Advance moves no run that was paused, stopped or ended meanwhile.
WorkerOK ==
    /\ DOMAIN wk = DOMAIN Idle
    /\ wk.fresh \in BOOLEAN
    /\ wk.pc # "idle" => wk.run \in Runs /\ wk.phase \in Phases
    /\ wk.pc \in {"advance", "leave"} /\ wk.fresh => Run.state = wk.phase

Known(rec) == rec = NoRun \/ GoodRun(rec)

\* What a write of a run may do to it: it does not revive it, and does not activate it.
May(rec, new) ==
    /\ Known(new)
    /\ rec # NoRun /\ rec.state \in Terminal => new # NoRun /\ new.state = rec.state
    /\ new # NoRun /\ new.state \in Active => rec # NoRun /\ rec.state \in Active

OutcomesStay ==
    \A r \in Runs : InState(r, Terminal) => runs'[r] # NoRun /\ runs'[r].state = runs[r].state

NoneActivated == \A r \in Runs : InState(r, Active)' => InState(r, Active)

\* What every step but a claim ensures.
Kept == RunsOK' /\ OutcomesStay /\ NoneActivated

\* A nonempty set of numbers between 1 and n has a least one.
LEMMA FirstIn ==
    ASSUME NEW n \in Nat, NEW R \in SUBSET (1 .. n), R # {}
    PROVE  First(R) \in R /\ \A q \in R : First(R) <= q
<1> DEFINE T == {1 .. r : r \in R}
<1>1. T \subseteq FiniteSubsetsOf(1 .. n) /\ T # {}
  <2>1. \A r \in R : 1 .. r \in FiniteSubsetsOf(1 .. n)
    <3> TAKE r \in R
    <3>1. r \in Int /\ 1 .. r \in SUBSET (1 .. n)
      OBVIOUS
    <3>2. IsFiniteSet(1 .. r)
      BY <3>1, FS_Interval
    <3> QED
      BY <3>1, <3>2 DEF FiniteSubsetsOf
  <2> QED
    BY <2>1
<1>2. IsWellFoundedOn(StrictSubsetOrdering(1 .. n), FiniteSubsetsOf(1 .. n))
  BY FS_StrictSubsetOrderingWellFounded
<1>3. PICK x \in T : \A y \in T : ~(<<y, x>> \in StrictSubsetOrdering(1 .. n))
  BY <1>1, <1>2, WFMin
<1>4. PICK m \in R : x = 1 .. m
  OBVIOUS
<1>5. \A q \in R : m <= q
  <2> SUFFICES ASSUME NEW q \in R, q < m PROVE FALSE
    OBVIOUS
  <2>1. (1 .. q) \in T
    OBVIOUS
  <2>2. m \in 1 .. m /\ m \notin 1 .. q /\ (1 .. q) \subseteq (1 .. m) /\ (1 .. m) \subseteq (1 .. n)
    OBVIOUS
  <2>3. <<1 .. q, x>> \in StrictSubsetOrdering(1 .. n)
    BY <1>4, <2>2 DEF StrictSubsetOrdering
  <2> QED
    BY <1>3, <2>1, <2>3
<1> QED
  BY <1>5 DEF First

\* Induction up to n, over a set instead of a predicate.
LEMMA Upwards ==
    ASSUME NEW n \in Nat, NEW T, 0 \in T, \A m \in 1 .. n : m - 1 \in T => m \in T
    PROVE  \A m \in 0 .. n : m \in T
<1> DEFINE bad == (1 .. n) \ T
<1>1. bad = {}
  <2> SUFFICES ASSUME bad # {} PROVE FALSE
    OBVIOUS
  <2>1. PICK m \in bad : \A q \in bad : m <= q
    BY FirstIn
  <2>2. m - 1 \in 0 .. n /\ m - 1 \notin bad
    BY <2>1
  <2> QED
    BY <2>1, <2>2
<1> QED
  BY <1>1

\* request_scan_run adds scopes of the request to those of the run: whatever the function
\* that collects them yields is a sequence of scopes.
LEMMA AdditionsType ==
    ASSUME NEW old, NEW request \in Seq(Scopes)
    PROVE  Additions(old, request) \in Seq(Scopes)
<1> DEFINE isNew(t) == \A s \in Members(old) : ~ScopeCovers(s, t)
           Rest(f, n) == IF n = 0 THEN <<>>
                         ELSE IF isNew(request[n]) THEN Append(f[n - 1], request[n]) ELSE f[n - 1]
           Solves(f, m) == f = [n \in 0 .. m |-> Rest(f, n)]
           N == Len(request)
           solved == {m \in 0 .. N : \E f : Solves(f, m)}
<1>1. N \in Nat /\ \A n \in 1 .. N : request[n] \in Scopes
  OBVIOUS
<1> HIDE DEF isNew, N
<1>2. 0 \in solved
  <2>1. Solves([n \in 0 .. 0 |-> <<>>], 0)
    OBVIOUS
  <2>2. 0 \in 0 .. N
    BY <1>1
  <2> HIDE DEF Solves
  <2> QED
    BY <2>1, <2>2
<1>3. ASSUME NEW m \in 1 .. N, m - 1 \in solved
      PROVE  m \in solved
  <2>1. PICK f : Solves(f, m - 1)
    BY <1>3
  <2> DEFINE g == [n \in 0 .. m |-> IF n = m THEN Rest(f, m) ELSE f[n]]
  <2>2. Solves(g, m)
    <3>1. ASSUME NEW n \in 0 .. m PROVE g[n] = Rest(g, n)
      <4>1. n - 1 # m /\ (n # 0 => n - 1 \in 0 .. m) /\ (n # m => n \in 0 .. m - 1) /\ m \in Nat
        BY <1>1
      <4>2. n # 0 => g[n - 1] = f[n - 1]
        BY <4>1
      <4>3. n # m => f[n] = Rest(f, n)
        BY <2>1, <4>1
      <4> QED
        BY <4>1, <4>2, <4>3
    <3> QED
      BY <3>1
  <2> HIDE DEF g, Solves
  <2> QED
    BY <1>1, <2>2
<1>4. \E f : Solves(f, N)
  <2> HIDE DEF Solves
  <2>1. N \in 0 .. N
    BY <1>1
  <2>2. \A m \in 1 .. N : m - 1 \in solved => m \in solved
    BY <1>3
  <2> HIDE DEF solved
  <2>3. N \in solved
    BY <1>1, <1>2, <2>1, <2>2, Upwards
  <2> QED
    BY <2>3 DEF solved
<1> DEFINE added == CHOOSE f : Solves(f, N)
           good == {n \in 0 .. N : added[n] \in Seq(Scopes)}
<1>5. Solves(added, N)
  BY <1>4
<1>6. Additions(old, request) = added[N]
  BY DEF Additions, N, isNew
<1> HIDE DEF added
<1>7. 0 \in good
  BY <1>1, <1>5
<1>8. \A n \in 1 .. N : n - 1 \in good => n \in good
  <2> TAKE n \in 1 .. N
  <2>1. n \in 0 .. N /\ n # 0
    BY <1>1
  <2>2. added[n] \in {added[n - 1], Append(added[n - 1], request[n])}
    BY <1>5, <2>1
  <2>3. added[n - 1] \in Seq(Scopes) => Append(added[n - 1], request[n]) \in Seq(Scopes)
    BY <1>1
  <2> QED
    BY <2>1, <2>2, <2>3
<1> HIDE DEF good
<1>9. N \in good
  <2>1. N \in 0 .. N
    BY <1>1
  <2> QED
    BY <1>1, <1>7, <1>8, <2>1, Upwards
<1> QED
  BY <1>6, <1>9 DEF good

\* Whatever writes a run as May allows keeps the invariant on the runs.
LEMMA BecomesKeeps ==
    ASSUME RunsOK, NEW r \in Runs, NEW rec, Becomes(r, rec), May(runs[r], rec)
    PROVE  Kept
<1> DEFINE new == IF rec.state \in Terminal THEN [rec EXCEPT !.at = NoProgress] ELSE rec
<1>1. runs' = [runs EXCEPT ![r] = new]
  BY DEF Becomes
<1>2. new.state = rec.state /\ new.control = rec.control /\ DOMAIN new = DOMAIN rec
  BY DEF NoRun, GoodRun, Fields, Terminal, May, Known
<1>3. new = NoRun <=> rec = NoRun
  BY <1>2 DEF NoRun, GoodRun, Fields, Terminal, May, Known
<1> HIDE DEF new
<1>4. RunsOK'
  BY <1>1, <1>2, <1>3 DEF RunsOK, GoodRun, ControlAgrees, May, Known
<1>5. OutcomesStay /\ NoneActivated
  BY <1>1, <1>2, <1>3 DEF RunsOK, OutcomesStay, NoneActivated, InState, May
<1> QED
  BY <1>4, <1>5 DEF Kept

\* Progress of a run leaves its state alone.
LEMMA UpdatesKeeps ==
    ASSUME RunsOK, NEW r, NEW at, Updates(r, at)
    PROVE  Kept
<1>1. runs' = [runs EXCEPT ![r] = [runs[r] EXCEPT !.at = at]]
  BY DEF Updates
<1>2. ASSUME NEW q \in Runs, runs[q] # NoRun
      PROVE  /\ GoodRun([runs[q] EXCEPT !.at = at])
             /\ [runs[q] EXCEPT !.at = at].state = runs[q].state
  BY <1>2 DEF RunsOK, GoodRun, Fields, ControlAgrees
<1>3. [NoRun EXCEPT !.at = at] = NoRun
  BY DEF NoRun
<1>4. \A q \in Runs : runs'[q] = runs[q] \/ runs'[q] = [runs[q] EXCEPT !.at = at]
  BY <1>1 DEF RunsOK
<1> QED
  BY <1>1, <1>2, <1>3, <1>4 DEF RunsOK, Kept, OutcomesStay, NoneActivated, InState, NoRun, GoodRun, Fields

\* A step that writes no run.
LEMMA SameRunsKeep ==
    ASSUME RunsOK, UNCHANGED runs
    PROVE  Kept
  BY DEF RunsOK, Kept, OutcomesStay, NoneActivated, InState

\* FIFO claims and joins pick one of the runs they choose from.
LEMMA FirstRun ==
    ASSUME NEW R \in SUBSET Runs, R # {}
    PROVE  First(R) \in R
<1>1. RunCount \in Nat /\ R \in SUBSET (1 .. RunCount)
  BY ScanAssumption DEF ScanAssumption, Runs
<1> QED
  BY <1>1, FirstIn

\* The sets that are chosen from hold runs, and over is not active.
LEMMA PlainRuns ==
    /\ ActiveRuns \subseteq Runs /\ Queued \subseteq Runs
    /\ Resumable \subseteq Runs
    /\ Phases \subseteq Active
    /\ \A s \in Terminal : s \notin Active /\ s # "queued"
  BY DEF ActiveRuns, Queued, Resumable, Phases, Active, Terminal

\* request_scan_run never touches the state of a run: it joins, extends or queues one.
LEMMA RequestKeeps ==
    ASSUME RunsOK, NEW request, Request(request)
    PROVE  Kept
<1> DEFINE covering == {r \in ActiveRuns \union Queued : Covers(r, request)}
           chosen == First(IF covering \intersect ActiveRuns # {}
                           THEN covering \intersect ActiveRuns ELSE covering)
<1>1. \/ Coalesce(chosen)
      \/ Queued # {} /\ Expand(First(Queued), request)
      \/ Enqueue(request)
  BY DEF Request
<1>2. CASE UNCHANGED runs
  BY <1>2, SameRunsKeep
<1>3. CASE Queued # {} /\ Expand(First(Queued), request) /\ runs' # runs
  <2> DEFINE q == First(Queued)
  <2>1. q \in Runs /\ InState(q, {"queued"})
    <3>1. Queued \in SUBSET Runs /\ Queued # {}
      BY <1>3, PlainRuns
    <3>2. q \in Queued
      BY <3>1, FirstRun
    <3> QED
      BY <3>2 DEF Queued
  <2>2. PICK new : runs' = [runs EXCEPT ![q] = [runs[q] EXCEPT !.scopes = new]]
    BY <1>3 DEF Expand
  <2> HIDE DEF q
  <2>3. GoodRun(runs[q]) /\ runs[q] # NoRun /\ runs[q].state = "queued"
    BY <2>1 DEF InState, RunsOK
  <2>4. /\ GoodRun([runs[q] EXCEPT !.scopes = new])
        /\ [runs[q] EXCEPT !.scopes = new].state = "queued"
    BY <2>3 DEF GoodRun, Fields, ControlAgrees
  <2> QED
    BY <2>1, <2>2, <2>3, <2>4, PlainRuns
       DEF RunsOK, Kept, OutcomesStay, NoneActivated, InState, Terminal, Active, Phases
<1>4. CASE Enqueue(request)
  <2> DEFINE free == {r \in Runs : runs[r] = NoRun}
             q == First(free)
             new == [state |-> "queued", control |-> "none", resume |-> "none",
                     policy |-> policy, scopes |-> request, at |-> NoProgress]
  <2>1. q \in Runs /\ runs[q] = NoRun
    <3>1. free \in SUBSET Runs /\ free # {}
      BY <1>4 DEF Enqueue
    <3>2. q \in free
      BY <3>1, FirstRun
    <3> QED
      BY <3>2
  <2>2. runs' = [runs EXCEPT ![q] = new]
    BY <1>4 DEF Enqueue
  <2>3. GoodRun(new) /\ new.state = "queued" /\ new # NoRun
    BY DEF GoodRun, Fields, ControlAgrees, NoRun
  <2> HIDE DEF q, new
  <2> QED
    BY <2>1, <2>2, <2>3 DEF RunsOK, Kept, OutcomesStay, NoneActivated, InState, Terminal, Active, Phases
<1> QED
  BY <1>1, <1>2, <1>3, <1>4 DEF Coalesce

\* The writes of the scan worker: _settle_pending_control, mark_scan_superseded and
\* transition_scan_run out of a phase.
LEMMA MaySettle ==
    ASSUME NEW rec, Known(rec)
    PROVE  May(rec, Settled(rec))
  BY DEF Known, May, Settled, GoodRun, ControlAgrees, Fields, NoRun, Terminal, Active, Phases

\* A superseded run was active.
LEMMA MaySupersede ==
    ASSUME NEW rec, Known(rec)
    PROVE  May(rec, Superseded(rec))
  BY DEF Known, May, Superseded, GoodRun, ControlAgrees, Fields, NoRun, Terminal, Active, Phases

\* Out of a phase, into the next one or an end.
LEMMA MayLeavePhase ==
    ASSUME NEW rec, Known(rec), rec.state \in Phases,
           NEW state \in Phases \union {"completed", "failed"}
    PROVE  May(rec, [rec EXCEPT !.state = state])
  BY DEF Known, May, GoodRun, ControlAgrees, Fields, NoRun, Terminal, Active, Phases

\* A user's write of the run outdates the revision the worker holds.
LEMMA StaleWorker ==
    ASSUME WorkerOK, RunsOK, NEW r, Stales(r),
           UNCHANGED runs \/ \E rec : Becomes(r, rec)
    PROVE  WorkerOK'
<1>1. \A q \in Runs : q # r => runs'[q] = runs[q]
  BY DEF Becomes, RunsOK
<1> QED
  BY <1>1 DEF WorkerOK, Stales, Run, Idle

\* Requests and controls.
LEMMA UserStepKeeps ==
    ASSUME RunsOK, WorkerOK, UserStep
    PROVE  Kept /\ WorkerOK'
<1>1. CASE \E request \in Requests : Request(request)
  <2> PICK request \in Requests : Request(request)
    BY <1>1
  <2>1. Kept
    BY RequestKeeps
  <2>2. WorkerOK'
    <3> DEFINE covering == {r \in ActiveRuns \union Queued : Covers(r, request)}
               chosen == First(IF covering \intersect ActiveRuns # {}
                               THEN covering \intersect ActiveRuns ELSE covering)
    <3>1. CASE Coalesce(chosen)
      BY <3>1, StaleWorker DEF Coalesce
    <3>2. CASE Expand(First(Queued), request)
      <4>1. \A q \in Runs : runs[q] # NoRun => runs'[q].state = runs[q].state
        BY <3>2 DEF Expand, RunsOK, GoodRun, Fields
      <4> QED
        BY <3>2, <4>1 DEF Expand, WorkerOK, Run, NoRun, Phases
    <3>3. CASE Enqueue(request)
      <4> DEFINE free == {r \in Runs : runs[r] = NoRun}
      <4>1. free \in SUBSET Runs /\ free # {}
        BY <3>3 DEF Enqueue
      <4>2. First(free) \in free
        BY <4>1, FirstRun
      <4>3. \A q \in Runs : runs[q] # NoRun => runs'[q] = runs[q]
        BY <3>3, <4>2 DEF Enqueue, RunsOK
      <4> QED
        BY <3>3, <4>3 DEF Enqueue, WorkerOK, Run, NoRun, Phases
    <3> QED
      BY <3>1, <3>2, <3>3 DEF Request
  <2> QED
    BY <2>1, <2>2
<1>2. ASSUME NEW r \in Runs, Pause(r)
      PROVE  Kept /\ WorkerOK'
  <2> DEFINE rec == [runs[r] EXCEPT !.state = "pausing", !.control = "pause",
                                     !.resume = runs[r].state]
  <2>1. Becomes(r, rec) /\ Stales(r)
    BY <1>2 DEF Pause
  <2>2. GoodRun(runs[r]) /\ runs[r] # NoRun /\ runs[r].state \in Phases
    BY <1>2 DEF Pause, InState, RunsOK
  <2>3. May(runs[r], rec)
    BY <2>2 DEF May, Known, GoodRun, ControlAgrees, Fields, NoRun, Terminal, Active, Phases
  <2> QED
    BY <2>1, <2>3, BecomesKeeps, StaleWorker
<1>3. ASSUME NEW r \in Runs, ResumeRun(r)
      PROVE  Kept /\ WorkerOK'
  <2> DEFINE rec == [runs[r] EXCEPT !.state = runs[r].resume, !.control = "none", !.resume = "none"]
  <2>1. Becomes(r, rec) /\ Stales(r)
    BY <1>3 DEF ResumeRun
  <2>2. GoodRun(runs[r]) /\ runs[r] # NoRun /\ runs[r].state = "paused"
    BY <1>3 DEF ResumeRun, InState, RunsOK
  <2>3. May(runs[r], rec)
    BY <2>2 DEF May, Known, GoodRun, ControlAgrees, Fields, NoRun, Terminal, Active, Phases
  <2> QED
    BY <2>1, <2>3, BecomesKeeps, StaleWorker
<1>4. ASSUME NEW r \in Runs, Stop(r)
      PROVE  Kept /\ WorkerOK'
  <2>1. Stales(r) /\ GoodRun(runs[r]) /\ runs[r] # NoRun
    BY <1>4 DEF Stop, InState, RunsOK
  <2>2. PICK state \in {"cancelled", "stopping"}, control \in {"none", "stop"} :
            /\ Becomes(r, [runs[r] EXCEPT !.state = state, !.control = control])
            /\ state = "stopping" => runs[r].state \in Phases \union {"pausing"}
            /\ runs[r].state \in Phases \union {"queued", "paused", "pausing"}
    BY <1>4 DEF Stop, InState
  <2>3. May(runs[r], [runs[r] EXCEPT !.state = state, !.control = control])
    BY <2>1, <2>2 DEF May, Known, GoodRun, ControlAgrees, Fields, NoRun, Terminal, Active, Phases
  <2> QED
    BY <2>1, <2>2, <2>3, BecomesKeeps, StaleWorker
<1> QED
  BY <1>1, <1>2, <1>3, <1>4 DEF UserStep

\* The worker lets go of its run.
LEMMA IdleWorker ==
    ASSUME wk' = Idle
    PROVE  WorkerOK'
  BY DEF WorkerOK, Idle

\* The worker goes on to the end of the phase, where it reads the run again.
LEMMA GoesOnWorker ==
    ASSUME WorkerOK, wk.pc # "idle", NEW pc \in {"unwind", "reread"}, GoesOn(pc)
    PROVE  WorkerOK'
<1>1. /\ wk'.pc = pc /\ wk'.run = wk.run /\ wk'.phase = wk.phase
      /\ wk'.fresh = FALSE /\ DOMAIN wk' = DOMAIN Idle
  BY DEF GoesOn, Idle
<1> QED
  BY <1>1 DEF WorkerOK, Idle

\* An exception in run_once.
LEMMA FailsKeeps ==
    ASSUME RunsOK, WorkerOK, wk.pc # "idle", Fails
    PROVE  Kept /\ WorkerOK'
<1>1. wk.run \in Runs /\ Known(Run)
  BY DEF WorkerOK, RunsOK, Known, Run
<1>2. CASE Run.state \in Phases
  <2>1. May(Run, [Run EXCEPT !.state = "failed"])
    BY <1>1, <1>2, MayLeavePhase
  <2> QED
    BY <1>1, <1>2, <2>1, BecomesKeeps, IdleWorker DEF Fails, Run
<1>3. CASE Run.state \notin Phases
  BY <1>1, <1>3, MaySettle, BecomesKeeps, IdleWorker DEF Fails, Run
<1> QED
  BY <1>2, <1>3

\* Discovery.
LEMMA WalkStepKeeps ==
    ASSUME RunsOK, WorkerOK,
           \/ NextScope \/ Persist \/ WalkOn \/ WalkFails \/ EndWalk \/ CompleteScope
           \/ \E f \in Files : LookAt(f)
    PROVE  Kept /\ WorkerOK'
<1>1. CASE NextScope
  BY <1>1, SameRunsKeep DEF NextScope, At, GoesOn, runVars, WorkerOK, Idle
<1>2. CASE Persist
  <2>1. CASE wk.fresh
    BY <1>2, <2>1, UpdatesKeeps DEF Persist, At, WorkerOK, Idle
  <2>2. CASE ~wk.fresh
    BY <1>2, <2>2, FailsKeeps DEF Persist, At
  <2> QED
    BY <2>1, <2>2
<1>3. CASE WalkOn
  BY <1>3, SameRunsKeep DEF WalkOn, At, Goes, runVars, WorkerOK, Idle
<1>4. CASE WalkFails
  BY <1>4, SameRunsKeep DEF WalkFails, At, GoesOn, runVars, WorkerOK, Idle
<1>5. CASE EndWalk
  <2>1. CASE RecordFence
    BY <1>5, <2>1, SameRunsKeep DEF EndWalk, RecordFence, At, Goes, WorkerOK, Idle
  <2>2. CASE Rewalk
    BY <1>5, <2>2, UpdatesKeeps DEF EndWalk, Rewalk, At, WorkerOK, Idle
  <2> QED
    BY <1>5, <2>1, <2>2 DEF EndWalk
<1>6. CASE CompleteScope
  BY <1>6, UpdatesKeeps DEF CompleteScope, At, WorkerOK, Idle
<1>7. ASSUME NEW f \in Files, LookAt(f)
      PROVE  Kept /\ WorkerOK'
  BY <1>7, SameRunsKeep DEF LookAt, At, runVars, WorkerOK, Idle
<1> QED
  BY <1>1, <1>2, <1>3, <1>4, <1>5, <1>6, <1>7

\* Indexing and reconciliation.
LEMMA IndexStepKeeps ==
    ASSUME RunsOK, WorkerOK,
           \/ StartIndex \/ CommitIndex \/ EndIndex \/ ReconcileRow \/ ReconcileNext
           \/ \E f \in Files : ReadTags(f)
    PROVE  Kept /\ WorkerOK'
<1>1. CASE StartIndex
  BY <1>1, SameRunsKeep DEF StartIndex, At, Goes, runVars, WorkerOK, Idle
<1>2. CASE CommitIndex
  <2>1. CASE Fails
    BY <1>2, <2>1, FailsKeeps DEF CommitIndex, At
  <2>2. CASE Done(wk.file) /\ wk' = [wk EXCEPT !.pc = "index", !.file = NoFile]
    BY <1>2, <2>2, UpdatesKeeps DEF CommitIndex, Done, At, WorkerOK, Idle
  <2> QED
    BY <1>2, <2>1, <2>2 DEF CommitIndex
<1>3. CASE EndIndex
  BY <1>3, SameRunsKeep DEF EndIndex, At, Goes, runVars, WorkerOK, Idle
<1>4. CASE ReconcileRow
  <2>1. PICK at : Updates(wk.run, at)
    BY <1>4 DEF ReconcileRow
  <2> QED
    BY <1>4, <2>1, UpdatesKeeps DEF ReconcileRow, At, WorkerOK, Idle
<1>5. CASE ReconcileNext
  BY <1>5, SameRunsKeep DEF ReconcileNext, At, runVars, WorkerOK, Idle
<1>6. ASSUME NEW f \in Files, ReadTags(f)
      PROVE  Kept /\ WorkerOK'
  <2>1. CASE wk' = [wk EXCEPT !.pc = "commit", !.file = f] /\ UNCHANGED runVars
    BY <1>6, <2>1, SameRunsKeep DEF ReadTags, At, runVars, WorkerOK, Idle
  <2>2. CASE Done(f) /\ UNCHANGED wk
    BY <1>6, <2>2, UpdatesKeeps DEF ReadTags, Done, At, WorkerOK, Idle
  <2> QED
    BY <1>6, <2>1, <2>2 DEF ReadTags
<1> QED
  BY <1>1, <1>2, <1>3, <1>4, <1>5, <1>6

\* The ends of the phases, and the checkpoints that say no.
LEMMA PhaseStepKeeps ==
    ASSUME RunsOK, WorkerOK, Unwind \/ Reread \/ Leave \/ Advance \/ Refuse
    PROVE  Kept /\ WorkerOK'
<1>1. wk.run \in Runs /\ Known(Run)
  BY DEF WorkerOK, RunsOK, Known, Run, Unwind, Reread, Leave, Advance, Refuse, At
<1>2. CASE Unwind
  <2>1. CASE Run.state = "discovering"
    <3>1. May(Run, [Run EXCEPT !.state = "failed"])
      BY <1>1, <2>1, MayLeavePhase DEF Phases
    <3> QED
      BY <1>1, <1>2, <2>1, <3>1, BecomesKeeps, IdleWorker DEF Unwind, Run
  <2>2. CASE Run.state # "discovering"
    BY <1>1, <1>2, <2>2, MaySettle, BecomesKeeps, IdleWorker DEF Unwind, Run
  <2> QED
    BY <2>1, <2>2
<1>3. CASE Reread
  <2>1. CASE Run.state = wk.phase
    BY <1>3, <2>1, SameRunsKeep DEF Reread, Fresh, At, Run, runVars, WorkerOK, Idle
  <2>2. CASE Run.state # wk.phase
    BY <1>1, <1>3, <2>2, MaySettle, BecomesKeeps, IdleWorker DEF Reread, Run
  <2> QED
    BY <2>1, <2>2
<1>4. CASE Leave
  BY <1>4, SameRunsKeep DEF Leave, At, Goes, Run, runVars, WorkerOK, Idle
<1>5. CASE Advance
  <2>1. CASE ~wk.fresh
    BY <1>5, <2>1, FailsKeeps DEF Advance, At
  <2>2. CASE wk.fresh
    <3>1. Run.state \in Phases
      BY <1>5, <2>2 DEF Advance, At, WorkerOK
    <3>2. PICK state \in Phases \union {"completed", "failed"} :
              Becomes(wk.run, [Run EXCEPT !.state = state])
      BY <1>5, <2>2 DEF Advance, Phases
    <3>3. May(Run, [Run EXCEPT !.state = state])
      BY <1>1, <3>1, MayLeavePhase
    <3>4. Kept
      BY <1>1, <3>2, <3>3, BecomesKeeps DEF Run
    <3>5. WorkerOK'
      <4>1. wk.pc = "advance"
        BY <1>5 DEF Advance, At
      <4>2. CASE wk.phase = "discovering"
        BY <1>5, <2>2, <4>1, <4>2 DEF Advance, WorkerOK, Idle, Phases
      <4>3. CASE wk.phase = "indexing"
        BY <1>5, <2>2, <4>1, <4>3 DEF Advance, WorkerOK, Idle, Phases
      <4>4. CASE wk.phase \notin {"discovering", "indexing"}
        BY <1>5, <2>2, <4>4, IdleWorker DEF Advance
      <4> QED
        BY <4>2, <4>3, <4>4
    <3> QED
      BY <3>4, <3>5
  <2> QED
    BY <2>1, <2>2 DEF WorkerOK
<1>6. CASE Refuse
  <2>1. Becomes(wk.run, Superseded(Run)) \/ Becomes(wk.run, Settled(Run))
    BY <1>6 DEF Refuse
  <2>2. Kept
    BY <1>1, <2>1, MaySettle, MaySupersede, BecomesKeeps DEF Run
  <2>3. WorkerOK'
    <3>1. wk.pc # "idle"
      BY <1>6 DEF Refuse, At
    <3>2. GoesOn("unwind") \/ wk' = Idle \/ GoesOn("reread")
      BY <1>6 DEF Refuse
    <3> QED
      BY <3>1, <3>2, GoesOnWorker, IdleWorker
  <2> QED
    BY <2>2, <2>3
<1> QED
  BY <1>2, <1>3, <1>4, <1>5, <1>6

\* The claim of run_once: the only step that activates a run, and only when none is active.
LEMMA RunOnceKeeps ==
    ASSUME RunsOK, WorkerOK, RunOnce
    PROVE  /\ RunsOK' /\ WorkerOK' /\ OutcomesStay
           /\ NoneActivated \/ (\E q \in Runs : ActiveRuns' \subseteq {q})
<1>1. CASE Resumable # {}
  <2> DEFINE q == First(Resumable)
  <2>1. q \in Resumable
    BY <1>1, PlainRuns, FirstRun
  <2>2. q \in Runs /\ GoodRun(runs[q]) /\ runs[q] # NoRun /\ runs[q].state \in Phases
    BY <2>1 DEF Resumable, ActiveRuns, InState, RunsOK
  <2>3. Take(q, runs[q].state)
    BY <1>1 DEF RunOnce
  <2> HIDE DEF q
  <2>4. PICK at : runs' = [runs EXCEPT ![q] =
                                [[runs[q] EXCEPT !.state = runs[q].state] EXCEPT !.at = at]]
    BY <2>3 DEF Take
  <2>5. LET new == [[runs[q] EXCEPT !.state = runs[q].state] EXCEPT !.at = at]
        IN GoodRun(new) /\ new # NoRun /\ new.state = runs[q].state
    BY <2>2 DEF GoodRun, Fields, ControlAgrees, NoRun
  <2>6. RunsOK' /\ OutcomesStay /\ NoneActivated
    BY <2>2, <2>4, <2>5 DEF RunsOK, OutcomesStay, NoneActivated, InState
  <2>7. WorkerOK'
    BY <2>2, <2>3 DEF Take, WorkerOK, Idle
  <2> QED
    BY <2>6, <2>7
<1>2. CASE Resumable = {}
  <2> DEFINE q == First(Queued)
  <2>1. ActiveRuns = {} /\ Queued # {} /\ Take(q, "discovering")
    BY <1>2 DEF RunOnce
  <2>2. q \in Queued
    BY <2>1, PlainRuns, FirstRun
  <2>3. q \in Runs /\ GoodRun(runs[q]) /\ runs[q] # NoRun /\ runs[q].state = "queued"
    BY <2>2 DEF Queued, InState, RunsOK
  <2> HIDE DEF q
  <2>4. PICK at : runs' = [runs EXCEPT ![q] =
                                [[runs[q] EXCEPT !.state = "discovering"] EXCEPT !.at = at]]
    BY <2>1 DEF Take
  <2>5. LET new == [[runs[q] EXCEPT !.state = "discovering"] EXCEPT !.at = at]
        IN GoodRun(new) /\ new # NoRun
    BY <2>3 DEF GoodRun, Fields, ControlAgrees, NoRun
  <2>6. RunsOK' /\ OutcomesStay
    BY <2>3, <2>4, <2>5 DEF RunsOK, OutcomesStay, InState, Terminal
  <2>7. \A r \in Runs : r # q => runs'[r] = runs[r]
    BY <2>4 DEF RunsOK
  <2>8. ActiveRuns' \subseteq {q}
    BY <2>1, <2>7 DEF ActiveRuns, InState
  <2>9. WorkerOK'
    BY <2>1, <2>3 DEF Take, WorkerOK, Idle, Phases
  <2> QED
    BY <2>3, <2>6, <2>8, <2>9
<1> QED
  BY <1>1, <1>2

\* Where an ended run is not revived by recover_scan_runs.
NoneRevived == "restartAfterSupersededPause" \notin Admits

\* The publisher, other programs, the policy and restarts.
LEMMA WorldStepKeeps ==
    ASSUME RunsOK, WorkerOK, WorldStep
    PROVE  RunsOK' /\ WorkerOK' /\ (NoneRevived => Kept)
<1>1. CASE Restart
  <2>1. NoneRevived => \A r \in Runs : InState(r, Terminal) => runs[r].control # "pause"
    BY <1>1 DEF Restart, NoneRevived
  <2>2. \A r \in Runs : runs'[r] = Recovered(runs[r])
    BY <1>1 DEF Restart
  <2>3. ASSUME NEW r \in Runs
        PROVE  Known(Recovered(runs[r])) /\ (NoneRevived => May(runs[r], Recovered(runs[r])))
    <3>1. CASE runs[r] = NoRun
      BY <3>1 DEF Recovered, May, Known, NoRun, Active, Phases, Terminal
    <3>2. CASE runs[r] # NoRun
      <4>1. GoodRun(runs[r])
        BY <3>2 DEF RunsOK
      <4>2. GoodRun(Recovered(runs[r]))
        BY <3>2, <4>1 DEF Recovered, GoodRun, ControlAgrees, Fields, NoRun, Terminal, Active, Phases
      <4>3. NoneRevived => (runs[r].state \in Terminal => runs[r].control # "pause")
        BY <2>1, <3>2 DEF InState
      <4>4. NoneRevived => May(runs[r], Recovered(runs[r]))
        BY <3>2, <4>1, <4>2, <4>3 DEF Recovered, May, Known, GoodRun, ControlAgrees, Fields, NoRun,
                          Terminal, Active, Phases
      <4> QED
        BY <4>2, <4>4 DEF Known
    <3> QED
      BY <3>1, <3>2
  <2>4. DOMAIN runs' = Runs
    BY <1>1 DEF Restart
  <2>5. RunsOK' /\ (NoneRevived => Kept)
    BY <2>2, <2>3, <2>4 DEF Kept, RunsOK, OutcomesStay, NoneActivated, InState, May, Known
  <2> QED
    BY <1>1, <2>5, IdleWorker DEF Restart
<1>2. CASE Commit \/ Rollback
  <2>1. UNCHANGED runs /\ (wk' = [wk EXCEPT !.clean = FALSE] \/ wk' = wk)
    BY <1>2 DEF Commit, Rollback, Release
  <2>2. WorkerOK'
    BY <2>1 DEF WorkerOK, Run, Idle
  <2> QED
    BY <2>1, <2>2, SameRunsKeep DEF Kept
<1>3. CASE UNCHANGED <<runs, wk>>
  BY <1>3, SameRunsKeep DEF WorkerOK, Run, Kept
<1> QED
  BY <1>1, <1>2, <1>3 DEF WorldStep, Place, ChangePolicy, RemoveFile, AddFile

ScanInv == RunsOK /\ WorkerOK /\ OneActiveRun

\* ScanInv is inductive.
LEMMA ScanInit == Init => ScanInv
<1> SUFFICES ASSUME Init PROVE ScanInv
  OBVIOUS
<1>1. RunsOK /\ ActiveRuns = {}
  BY DEF Init, RunsOK, ActiveRuns, InState
<1>2. WorkerOK
  BY DEF Init, WorkerOK, Idle
<1> QED
  BY <1>1, <1>2 DEF ScanInv, OneActiveRun

\* Every step keeps what the rows and the worker say, whatever the instance admits; if no
\* ended run is revived, it keeps the outcomes too, and claims at most one run.
LEMMA WritesStep ==
    ASSUME RunsOK, WorkerOK, [Next]_vars
    PROVE  /\ RunsOK' /\ WorkerOK'
           /\ NoneRevived => /\ OutcomesStay
                             /\ NoneActivated \/ \E q \in Runs : ActiveRuns' \subseteq {q}
<1>1. CASE UserStep
  BY <1>1, UserStepKeeps DEF Kept
<1>2. CASE RunOnce
  BY <1>2, RunOnceKeeps
<1>3. CASE WorkerStep /\ ~RunOnce
  BY <1>3, WalkStepKeeps, IndexStepKeeps, PhaseStepKeeps DEF WorkerStep, Kept
<1>4. CASE WorldStep
  BY <1>4, WorldStepKeeps DEF Kept
<1>5. CASE UNCHANGED vars
  <2>1. Kept
    BY <1>5, SameRunsKeep DEF vars
  <2>2. WorkerOK'
    BY <1>5 DEF vars, WorkerOK, Run
  <2> QED
    BY <2>1, <2>2 DEF Kept
<1> QED
  BY <1>1, <1>2, <1>3, <1>4, <1>5 DEF Next

LEMMA ScanStep ==
    ASSUME NoneRevived, ScanInv, [Next]_vars
    PROVE  ScanInv' /\ OutcomesStay
<1>1. /\ RunsOK' /\ WorkerOK' /\ OutcomesStay
      /\ NoneActivated \/ \E q \in Runs : ActiveRuns' \subseteq {q}
  BY WritesStep DEF ScanInv
<1>2. CASE NoneActivated
  BY <1>1, <1>2 DEF ScanInv, OneActiveRun, NoneActivated, ActiveRuns
<1>3. CASE \E q \in Runs : ActiveRuns' \subseteq {q}
  BY <1>1, <1>3 DEF ScanInv, OneActiveRun
<1> QED
  BY <1>1, <1>2, <1>3

\* At most one scan run has been claimed and is not over, whatever requests, pauses,
\* resumes, stops, policy changes and restarts happen, and however many runs there are
\* (claim_next_scan_run and get_resumable_scan_run; the scan worker is one thread).
THEOREM OneActiveRunHolds ==
    ASSUME NoneRevived
    PROVE  Spec => []OneActiveRun
<1>1. Init => ScanInv
  BY ScanInit
<1>2. ScanInv /\ [Next]_vars => ScanInv'
  BY ScanStep
<1>3. ScanInv => OneActiveRun
  BY DEF ScanInv
<1> QED
  BY <1>1, <1>2, <1>3, PTL DEF Spec

\* A run that was completed, cancelled, superseded or has failed keeps that state: no late
\* step of the worker, no control and no recovery writes another.
THEOREM TerminalIsFinalHolds ==
    ASSUME NoneRevived
    PROVE  Spec => TerminalIsFinal
<1>1. Init => ScanInv
  BY ScanInit
<1>2. ScanInv /\ [Next]_vars => ScanInv'
  BY ScanStep
<1>3. ScanInv /\ [Next]_vars =>
          [\A r \in Runs : InState(r, Terminal) => runs'[r].state = runs[r].state]_vars
  BY ScanStep DEF OutcomesStay
<1> QED
  BY <1>1, <1>2, <1>3, PTL DEF Spec, TerminalIsFinal

-----------------------------------------------------------------------------
(* The type invariant, and what the worker's place says of its run *)

\* A run that is paused or is to be paused knows the phase it goes on with; it has a scope,
\* and in the queue nothing of it is walked.
Row(rec) ==
    /\ rec \in RunRecords
    /\ rec.scopes # <<>>
    /\ rec.state \in {"pausing", "paused"} \/ rec.control = "pause" => rec.resume \in Phases
    /\ rec.state = "queued" => rec.at.walked = {}

RowsOK == \A r \in Runs : runs[r] # NoRun => Row(runs[r])

PhaseAt(pc) == CASE pc \in {"scope", "walk", "persisted", "walked"} -> {"discovering"}
                 [] pc \in {"indexStart", "index", "commit"} -> {"indexing"}
                 [] pc = "reconcile" -> {"reconciling"}
                 [] OTHER -> Phases

Ends == {"idle", "unwind", "reread"}

\* A worker that has not come to the end of its phase holds a run that nobody ends; an idle
\* one holds none.
WorkerHolds ==
    /\ At("idle") => wk.run = 0
    /\ ~At("idle") =>
          /\ wk.run \in Runs /\ Run # NoRun /\ Run.state # "queued"
          /\ wk.scope \in DOMAIN Run.scopes /\ wk.phase \in PhaseAt(wk.pc)
    /\ wk.pc \notin Ends => Run.state \in Phases \union {"pausing", "stopping"}

TypeInv == TypeOK /\ RowsOK /\ WorkerHolds

WorkerType == [pc : Pcs, run : 0 .. RunCount, phase : Phases \union {"none"},
               scope : Nat, left : SUBSET Files, batch : SUBSET Files,
               clean : BOOLEAN, fresh : BOOLEAN, file : 0 .. FileCount]

\* The parts of TypeInv that a write of a run, and a step of the worker, can disturb.
RunsTyped ==
    /\ runs \in [Runs -> RunRecords \union {NoRun}]
    /\ fence \in [Runs -> [Roots -> {"none", "current", "passed"}]]
    /\ RowsOK
WorkerTyped == wk \in WorkerType /\ WorkerHolds

LEMMA TypeParts ==
    TypeInv <=> /\ RunsTyped /\ WorkerTyped
                /\ policy \in Policies /\ disk \subseteq Files /\ since \subseteq disk
                /\ track \in [Files -> {"none", "indexed", "missing"}]
                /\ pub \in [pc : {"idle", "placed"}, from : 0 .. FileCount, to : 0 .. FileCount]
  BY DEF TypeInv, TypeOK, RunsTyped, WorkerTyped, WorkerType

LEMMA TypePartsNext ==
    /\ RunsTyped' /\ WorkerTyped'
    /\ policy' \in Policies /\ disk' \subseteq Files /\ since' \subseteq disk'
    /\ track' \in [Files -> {"none", "indexed", "missing"}]
    /\ pub' \in [pc : {"idle", "placed"}, from : 0 .. FileCount, to : 0 .. FileCount]
    => TypeInv'
  BY DEF TypeInv, TypeOK, RunsTyped, WorkerTyped, WorkerType

\* The constants' facts in the form the proofs use.
LEMMA Numbers ==
    /\ RunCount \in Nat /\ FileCount \in Nat
    /\ Runs = 1 .. RunCount /\ Files = 1 .. FileCount /\ NoScope \notin Scopes
    /\ NoProgress \in Progress /\ NoProgress.walked = {}
    /\ NoRun \notin RunRecords
  BY ScanAssumption DEF ScanAssumption, Runs, Files, NoProgress, Progress, NoRun, RunRecords,
                        RunStates, Active, Phases, Terminal

\* A run's first scope exists.
LEMMA HasScope ==
    ASSUME NEW rec, Row(rec)
    PROVE  1 \in DOMAIN rec.scopes /\ rec.scopes \in Seq(Scopes) /\ rec.at \in Progress
<1>1. rec.scopes \in Seq(Scopes) /\ rec.scopes # <<>> /\ rec.at \in Progress
  BY DEF Row, RunRecords
<1> QED
  BY <1>1

\* A write of one run, and no other.
LEMMA BecomesTyped ==
    ASSUME RunsTyped, NEW r \in Runs, NEW rec, Row(rec), Becomes(r, rec)
    PROVE  /\ RunsTyped' /\ since' \subseteq since
           /\ \A q \in Runs : q # r => runs'[q] = runs[q]
           /\ runs'[r] # NoRun /\ runs'[r].state = rec.state /\ runs'[r].scopes = rec.scopes
           /\ rec.state \notin Terminal => runs'[r] = rec
<1> DEFINE new == IF rec.state \in Terminal THEN [rec EXCEPT !.at = NoProgress] ELSE rec
<1>1. runs' = [runs EXCEPT ![r] = new]
  BY DEF Becomes
<1>2. Row(new) /\ new.state = rec.state /\ new.scopes = rec.scopes
  BY Numbers DEF Row, RunRecords
<1>3. new # NoRun
  BY <1>2, Numbers DEF Row
<1>4. rec.state \notin Terminal => new = rec
  OBVIOUS
<1> HIDE DEF new
<1>5. fence' \in [Runs -> [Roots -> {"none", "current", "passed"}]] /\ since' \subseteq since
  BY DEF Becomes, RunsTyped
<1>6. runs' \in [Runs -> RunRecords \union {NoRun}]
  BY <1>1, <1>2 DEF RunsTyped, Row
<1>7. RowsOK'
  BY <1>1, <1>2 DEF RunsTyped, RowsOK
<1> QED
  BY <1>1, <1>2, <1>3, <1>4, <1>5, <1>6, <1>7 DEF RunsTyped

\* Progress of the worker's run.
LEMMA UpdatesTyped ==
    ASSUME RunsTyped, NEW r \in Runs, runs[r] # NoRun, runs[r].state # "queued",
           NEW at \in Progress, Updates(r, at)
    PROVE  /\ RunsTyped' /\ since' = since
           /\ \A q \in Runs : q # r => runs'[q] = runs[q]
           /\ runs'[r] # NoRun /\ runs'[r].state = runs[r].state /\ runs'[r].scopes = runs[r].scopes
           /\ runs'[r] = [runs[r] EXCEPT !.at = at] /\ runs'[r].at = at
<1> DEFINE new == [runs[r] EXCEPT !.at = at]
<1>1. runs' = [runs EXCEPT ![r] = new] /\ UNCHANGED <<fence, since>>
  BY DEF Updates
<1>2. Row(runs[r]) /\ runs[r] \in RunRecords
  BY DEF RunsTyped, RowsOK, Row
<1>3. /\ Row(new) /\ new.state = runs[r].state /\ new.scopes = runs[r].scopes /\ new.at = at
      /\ new \in RunRecords
  BY <1>2 DEF Row, RunRecords
<1>4. new # NoRun
  BY <1>3, Numbers
<1>5. runs'[r] = new /\ (\A q \in Runs : q # r => runs'[q] = runs[q])
  BY <1>1 DEF RunsTyped
<1>6. runs' \in [Runs -> RunRecords \union {NoRun}]
  BY <1>1, <1>3 DEF RunsTyped
<1> HIDE DEF new
<1>7. RowsOK'
  BY <1>3, <1>5 DEF RunsTyped, RowsOK
<1> QED
  BY <1>1, <1>3, <1>4, <1>5, <1>6, <1>7 DEF RunsTyped, new

\* The worker stays where it is, or its revision is outdated, and its run goes on.
LEMMA SamePlace ==
    ASSUME WorkerTyped,
           wk' = wk \/ wk' = [wk EXCEPT !.fresh = FALSE] \/ wk' = [wk EXCEPT !.clean = FALSE],
           ~At("idle") => /\ runs'[wk.run] # NoRun /\ runs'[wk.run].state # "queued"
                          /\ DOMAIN Run.scopes \subseteq DOMAIN runs'[wk.run].scopes,
           wk.pc \notin Ends => runs'[wk.run].state \in Phases \union {"pausing", "stopping"}
    PROVE  WorkerTyped'
<1>1. wk' \in WorkerType
  BY DEF WorkerTyped, WorkerType
<1>2. wk'.pc = wk.pc /\ wk'.run = wk.run /\ wk'.scope = wk.scope /\ wk'.phase = wk.phase
  BY DEF WorkerTyped, WorkerType
<1> QED
  BY <1>1, <1>2 DEF WorkerTyped, WorkerHolds, At, Run, Ends

\* It lets go of its run.
LEMMA LetsGo ==
    ASSUME wk' = Idle
    PROVE  WorkerTyped'
<1>1. wk' \in WorkerType
  BY Numbers DEF WorkerType, Idle, Pcs, NoFile
<1>2. wk'.pc = "idle" /\ wk'.run = 0
  BY DEF Idle
<1> QED
  BY <1>1, <1>2 DEF WorkerTyped, WorkerHolds, At, Ends

\* It goes on to the end of the phase.
LEMMA GoesOnTyped ==
    ASSUME WorkerTyped, ~At("idle"), NEW pc \in {"unwind", "reread"}, GoesOn(pc), RunsTyped',
           runs'[wk.run] # NoRun, runs'[wk.run].state # "queued"
    PROVE  WorkerTyped'
<1>1. wk.run \in Runs /\ wk.phase \in Phases /\ wk \in WorkerType
  BY DEF WorkerTyped, WorkerHolds, PhaseAt, Phases
<1>2. /\ wk' \in WorkerType
      /\ wk'.pc = pc /\ wk'.run = wk.run /\ wk'.phase = wk.phase /\ wk'.scope = 1
  <2>1. wk' = [pc |-> pc, run |-> wk.run, phase |-> wk.phase, scope |-> 1, left |-> {},
               batch |-> {}, clean |-> FALSE, fresh |-> FALSE, file |-> 0]
    BY DEF GoesOn, Idle, NoFile
  <2>2. pc \in Pcs /\ wk.run \in 0 .. RunCount /\ 1 \in Nat /\ 0 \in 0 .. FileCount
    BY <1>1, Numbers DEF WorkerType, Pcs
  <2> QED
    BY <1>1, <2>1, <2>2 DEF WorkerType
<1>3. Row(runs'[wk.run])
  BY <1>1 DEF RunsTyped, RowsOK
<1>4. 1 \in DOMAIN runs'[wk.run].scopes
  BY <1>3, HasScope
<1>5. pc # "idle" /\ pc \in Ends /\ wk.phase \in PhaseAt(pc)
  BY <1>1 DEF Ends, PhaseAt
<1> QED
  BY <1>1, <1>2, <1>4, <1>5 DEF WorkerTyped, WorkerHolds, At, Run

\* A control writes a run, which goes on or leaves the worker's hands.
LEMMA ControlTyped ==
    ASSUME RunsTyped, WorkerTyped, NEW r \in Runs, NEW rec, Row(rec), Becomes(r, rec), Stales(r),
           rec.scopes = runs[r].scopes, rec.state # "queued",
           wk.run = r /\ wk.pc \notin Ends => rec.state \in Phases \union {"pausing", "stopping"}
    PROVE  RunsTyped' /\ WorkerTyped' /\ since' \subseteq since
<1>1. /\ RunsTyped' /\ since' \subseteq since
      /\ \A q \in Runs : q # r => runs'[q] = runs[q]
      /\ runs'[r] # NoRun /\ runs'[r].state = rec.state /\ runs'[r].scopes = rec.scopes
  BY BecomesTyped
<1>2. wk' = wk \/ wk' = [wk EXCEPT !.fresh = FALSE]
  BY DEF Stales
<1>3. ~At("idle") => /\ runs'[wk.run] # NoRun /\ runs'[wk.run].state # "queued"
                     /\ runs'[wk.run].scopes = Run.scopes
  BY <1>1 DEF WorkerTyped, WorkerHolds, Run
<1>4. wk.pc \notin Ends => runs'[wk.run].state \in Phases \union {"pausing", "stopping"}
  BY <1>1 DEF WorkerTyped, WorkerHolds, Run, Ends, At
<1> QED
  BY <1>1, <1>2, <1>3, <1>4, SamePlace

\* Requests and controls.
LEMMA UserStepTyped ==
    ASSUME TypeInv, UserStep
    PROVE  RunsTyped' /\ WorkerTyped' /\ since' \subseteq since /\ UNCHANGED worldVars
<1> RunsTyped /\ WorkerTyped
  BY TypeParts
<1>1. ASSUME NEW request \in Requests, Request(request)
      PROVE  RunsTyped' /\ WorkerTyped' /\ since' \subseteq since /\ UNCHANGED worldVars
  <2> DEFINE covering == {r \in ActiveRuns \union Queued : Covers(r, request)}
             chosen == First(IF covering \intersect ActiveRuns # {}
                             THEN covering \intersect ActiveRuns ELSE covering)
  <2>1. UNCHANGED <<fence, since, worldVars>>
    BY <1>1 DEF Request
  <2>2. request \in Seq(Scopes) /\ request # <<>>
    BY ScanAssumption DEF ScanAssumption
  <2>3. CASE Coalesce(chosen)
    <3>1. UNCHANGED runs /\ (wk' = wk \/ wk' = [wk EXCEPT !.fresh = FALSE])
      BY <2>3 DEF Coalesce, Stales
    <3>2. WorkerTyped'
      BY <3>1, SamePlace DEF WorkerTyped, WorkerHolds, Run
    <3> QED
      BY <2>1, <3>1, <3>2 DEF RunsTyped, RowsOK, Row
  <2>4. CASE Queued # {} /\ Expand(First(Queued), request)
    <3> DEFINE q == First(Queued)
    <3>1. q \in Queued
      BY <2>4, PlainRuns, FirstRun
    <3>2. q \in Runs /\ runs[q] # NoRun /\ runs[q].state = "queued"
      BY <3>1 DEF Queued, InState
    <3>3. UNCHANGED wk /\ (runs' = runs \/
              runs' = [runs EXCEPT ![q].scopes = @ \o Additions(@, request)])
      BY <2>4 DEF Expand
    <3> HIDE DEF q
    <3> DEFINE more == runs[q].scopes \o Additions(runs[q].scopes, request)
               new == [runs[q] EXCEPT !.scopes = more]
    <3>4. Row(runs[q]) /\ runs[q] \in RunRecords
      BY <3>2 DEF RunsTyped, RowsOK, Row
    <3>5. more \in Seq(Scopes) /\ more # <<>>
      <4>1. Additions(runs[q].scopes, request) \in Seq(Scopes)
        BY <2>2, AdditionsType
      <4>2. runs[q].scopes \in Seq(Scopes) /\ runs[q].scopes # <<>>
        BY <3>4 DEF Row, RunRecords
      <4> QED
        BY <4>1, <4>2
    <3> HIDE DEF more
    <3>6. Row(new) /\ new \in RunRecords /\ new.state = "queued"
      BY <3>2, <3>4, <3>5 DEF Row, RunRecords
    <3>7. runs' = runs \/ runs' = [runs EXCEPT ![q] = new]
      BY <3>3 DEF more
    <3> HIDE DEF new
    <3>8. RunsTyped'
      BY <2>1, <3>2, <3>6, <3>7 DEF RunsTyped, RowsOK
    <3>9. ~At("idle") => wk.run \in Runs /\ wk.run # q /\ runs'[wk.run] = Run
      BY <3>2, <3>7 DEF WorkerTyped, WorkerHolds, Run, RunsTyped
    <3>10. WorkerTyped'
      BY <3>3, <3>9, SamePlace DEF WorkerTyped, WorkerHolds, Ends, At, Run
    <3> QED
      BY <2>1, <3>8, <3>10
  <2>5. CASE Enqueue(request)
    <3> DEFINE free == {r \in Runs : runs[r] = NoRun}
               q == First(free)
               new == [state |-> "queued", control |-> "none", resume |-> "none",
                       policy |-> policy, scopes |-> request, at |-> NoProgress]
    <3>1. q \in free
      BY <2>5, FirstRun DEF Enqueue
    <3>2. runs' = [runs EXCEPT ![q] = new] /\ UNCHANGED wk
      BY <2>5 DEF Enqueue
    <3>3. policy \in Policies
      BY DEF TypeInv, TypeOK
    <3>4. Row(new) /\ new \in RunRecords
      BY <2>2, <3>3, Numbers DEF Row, RunRecords, RunStates
    <3>5. q \in Runs /\ runs[q] = NoRun
      BY <3>1
    <3> HIDE DEF q, new
    <3>6. RunsTyped'
      BY <2>1, <3>2, <3>4, <3>5 DEF RunsTyped, RowsOK
    <3>7. ~At("idle") => wk.run \in Runs /\ wk.run # q /\ runs'[wk.run] = Run
      BY <3>2, <3>5 DEF WorkerTyped, WorkerHolds, Run, RunsTyped
    <3>8. WorkerTyped'
      BY <3>2, <3>7, SamePlace DEF WorkerTyped, WorkerHolds, Ends, At, Run
    <3> QED
      BY <2>1, <3>6, <3>8
  <2> QED
    BY <1>1, <2>3, <2>4, <2>5 DEF Request
<1>2. ASSUME NEW r \in Runs, Pause(r)
      PROVE  RunsTyped' /\ WorkerTyped' /\ since' \subseteq since /\ UNCHANGED worldVars
  <2> DEFINE rec == [runs[r] EXCEPT !.state = "pausing", !.control = "pause",
                                    !.resume = runs[r].state]
  <2>1. runs[r] # NoRun /\ runs[r].state \in Phases /\ Becomes(r, rec) /\ Stales(r)
    BY <1>2 DEF Pause, InState
  <2>2. Row(runs[r])
    BY <2>1 DEF RunsTyped, RowsOK
  <2>3. Row(rec) /\ rec.state = "pausing" /\ rec.scopes = runs[r].scopes
    BY <2>1, <2>2 DEF Row, RunRecords, RunStates, Active, Phases
  <2> HIDE DEF rec
  <2> QED
    BY <1>2, <2>1, <2>3, ControlTyped DEF Pause
<1>3. ASSUME NEW r \in Runs, ResumeRun(r)
      PROVE  RunsTyped' /\ WorkerTyped' /\ since' \subseteq since /\ UNCHANGED worldVars
  <2> DEFINE rec == [runs[r] EXCEPT !.state = runs[r].resume, !.control = "none", !.resume = "none"]
  <2>1. runs[r] # NoRun /\ runs[r].state = "paused" /\ Becomes(r, rec) /\ Stales(r)
    BY <1>3 DEF ResumeRun, InState
  <2>2. Row(runs[r])
    BY <2>1 DEF RunsTyped, RowsOK
  <2>3. Row(rec) /\ rec.state \in Phases /\ rec.state # "queued" /\ rec.scopes = runs[r].scopes
    BY <2>1, <2>2 DEF Row, RunRecords, RunStates, Active, Phases
  <2> HIDE DEF rec
  <2> QED
    BY <1>3, <2>1, <2>3, ControlTyped DEF ResumeRun
<1>4. ASSUME NEW r \in Runs, Stop(r)
      PROVE  RunsTyped' /\ WorkerTyped' /\ since' \subseteq since /\ UNCHANGED worldVars
  <2>1. PICK state \in {"cancelled", "stopping"}, control \in {"none", "stop"} :
            /\ Becomes(r, [runs[r] EXCEPT !.state = state, !.control = control])
            /\ state = "cancelled" => runs[r].state \in {"paused", "queued"}
    BY <1>4 DEF Stop, InState
  <2> DEFINE rec == [runs[r] EXCEPT !.state = state, !.control = control]
  <2>2. Row(runs[r]) /\ Stales(r) /\ Becomes(r, rec)
    BY <1>4, <2>1 DEF Stop, InState, RunsTyped, RowsOK
  <2>3. Row(rec) /\ rec.state = state /\ rec.scopes = runs[r].scopes
    BY <2>2 DEF Row, RunRecords, RunStates, Active, Terminal
  <2>4. wk.run = r /\ wk.pc \notin Ends => rec.state \in Phases \union {"pausing", "stopping"}
    BY <2>1, <2>3 DEF WorkerTyped, WorkerHolds, Run, Phases
  <2> HIDE DEF rec
  <2> QED
    BY <1>4, <2>2, <2>3, <2>4, ControlTyped DEF Stop
<1> QED
  BY <1>1, <1>2, <1>3, <1>4 DEF UserStep

\* A step of the worker that takes it to another place of its run.
LEMMA Moves ==
    ASSUME wk' \in WorkerType, wk'.pc # "idle", wk'.run \in Runs, wk'.phase \in PhaseAt(wk'.pc),
           NEW rec, rec = runs'[wk'.run], rec # NoRun, rec.state # "queued",
           wk'.scope \in DOMAIN rec.scopes,
           wk'.pc \notin Ends => rec.state \in Phases \union {"pausing", "stopping"}
    PROVE  WorkerTyped'
  BY DEF WorkerTyped, WorkerHolds, At, Run

\* The worker has a run, a scope of it, and its record.
LEMMA InHand ==
    ASSUME TypeInv, ~At("idle")
    PROVE  /\ RunsTyped /\ WorkerTyped /\ wk \in WorkerType
           /\ wk.run \in Runs /\ runs[wk.run] # NoRun /\ Run # NoRun /\ Run.state # "queued"
           /\ Row(Run) /\ Run \in RunRecords /\ Run.at \in Progress /\ Run.scopes \in Seq(Scopes)
           /\ 1 \in DOMAIN Run.scopes /\ wk.scope \in DOMAIN Run.scopes /\ Scope \in Scopes
           /\ wk.phase \in PhaseAt(wk.pc) /\ wk.phase \in Phases
           /\ wk.left \subseteq Files /\ wk.batch \subseteq Files
           /\ wk.pc \notin Ends => Run.state \in Phases \union {"pausing", "stopping"}
<1>1. RunsTyped /\ WorkerTyped /\ wk \in WorkerType
  BY TypeParts DEF WorkerTyped
<1>2. /\ wk.run \in Runs /\ Run # NoRun /\ Run.state # "queued" /\ wk.scope \in DOMAIN Run.scopes
      /\ wk.phase \in PhaseAt(wk.pc)
      /\ wk.pc \notin Ends => Run.state \in Phases \union {"pausing", "stopping"}
  BY <1>1 DEF WorkerTyped, WorkerHolds
<1>3. Row(Run) /\ Run \in RunRecords
  BY <1>1, <1>2 DEF RunsTyped, RowsOK, Run, Row
<1>4. 1 \in DOMAIN Run.scopes /\ Run.scopes \in Seq(Scopes) /\ Run.at \in Progress
  BY <1>3, HasScope
<1>5. Scope \in Scopes
  BY <1>2, <1>4 DEF Scope
<1>6. wk.phase \in Phases
  BY <1>2 DEF PhaseAt, Phases
<1> QED
  BY <1>1, <1>2, <1>3, <1>4, <1>5, <1>6 DEF Run, WorkerType

\* What the writes of the worker make of a row.
LEMMA RowLeaves ==
    ASSUME NEW rec, Row(rec)
    PROVE  /\ Row(Settled(rec)) /\ Settled(rec).scopes = rec.scopes
           /\ Row(Superseded(rec)) /\ Superseded(rec).scopes = rec.scopes
           /\ rec.state # "queued" => Settled(rec).state # "queued" /\ Superseded(rec).state # "queued"
           /\ \A state \in Phases \union {"completed", "failed"} :
                 LET new == [rec EXCEPT !.state = state]
                 IN Row(new) /\ new.state = state /\ new.scopes = rec.scopes
<1>1. Row(Settled(rec)) /\ Settled(rec).scopes = rec.scopes
  BY DEF Row, Settled, RunRecords, RunStates, Active, Terminal, Phases
<1>2. Row(Superseded(rec)) /\ Superseded(rec).scopes = rec.scopes
  BY DEF Row, Superseded, RunRecords, RunStates, Active, Terminal, Phases
<1>3. rec.state # "queued" => Settled(rec).state # "queued" /\ Superseded(rec).state # "queued"
  BY DEF Row, Settled, Superseded, RunRecords, RunStates, Active, Terminal, Phases
<1>4. ASSUME NEW state \in Phases \union {"completed", "failed"}
      PROVE  LET new == [rec EXCEPT !.state = state]
             IN Row(new) /\ new.state = state /\ new.scopes = rec.scopes
  BY DEF Row, RunRecords, RunStates, Active, Terminal, Phases
<1> QED
  BY <1>1, <1>2, <1>3, <1>4

\* The worker ends its run or leaves it as it is.
LEMMA FailsTyped ==
    ASSUME TypeInv, ~At("idle"), Fails
    PROVE  RunsTyped' /\ WorkerTyped' /\ since' \subseteq since
<1> DEFINE rec == IF Run.state \in Phases THEN [Run EXCEPT !.state = "failed"] ELSE Settled(Run)
<1>1. Becomes(wk.run, rec) /\ wk' = Idle
  BY DEF Fails
<1>2. Row(rec)
  BY InHand, RowLeaves
<1> HIDE DEF rec
<1> QED
  BY <1>1, <1>2, InHand, BecomesTyped, LetsGo

\* Progress records of a walk.
LEMMA ProgressTyped ==
    ASSUME NEW at \in Progress
    PROVE  /\ \A dropped : NewGeneration(at, dropped) \in Progress
           /\ \A s \in Scopes : [at EXCEPT !.walked = @ \union {s}] \in Progress
           /\ \A f \in Files : [at EXCEPT !.todo[f] = "no"] \in Progress
           /\ \A s \in Scopes, f \in Files : [at EXCEPT !.cursor[s] = f] \in Progress
           /\ \A changed : Scope \in Scopes => Classified(at, changed) \in Progress
<1>1. ASSUME NEW dropped PROVE NewGeneration(at, dropped) \in Progress
  BY DEF NewGeneration, Progress
<1>2. ASSUME NEW s \in Scopes PROVE [at EXCEPT !.walked = @ \union {s}] \in Progress
  BY DEF Progress
<1>3. ASSUME NEW f \in Files PROVE [at EXCEPT !.todo[f] = "no"] \in Progress
  BY DEF Progress
<1>4. ASSUME NEW s \in Scopes, NEW f \in Files PROVE [at EXCEPT !.cursor[s] = f] \in Progress
  <2>1. f \in 0 .. FileCount
    BY Numbers
  <2> QED
    BY <2>1 DEF Progress
<1>5. ASSUME NEW changed, Scope \in Scopes PROVE Classified(at, changed) \in Progress
  BY <1>5 DEF Classified, Progress
<1> QED
  BY <1>1, <1>2, <1>3, <1>4, <1>5

\* Discovery.
LEMMA WalkStepTyped ==
    ASSUME TypeInv,
           \/ NextScope \/ Persist \/ WalkOn \/ WalkFails \/ EndWalk \/ CompleteScope
           \/ \E f \in Files : LookAt(f)
    PROVE  RunsTyped' /\ WorkerTyped' /\ since' \subseteq since /\ UNCHANGED worldVars
<1>1. ~At("idle") /\ UNCHANGED worldVars
  BY DEF NextScope, Persist, WalkOn, WalkFails, EndWalk, CompleteScope, LookAt, At
<1> USE InHand
<1>2. ASSUME UNCHANGED runVars PROVE RunsTyped' /\ since' \subseteq since /\ Run = runs'[wk.run]
  BY <1>1, <1>2 DEF runVars, RunsTyped, RowsOK, Row, Run
<1>3. CASE NextScope
  <2> DEFINE left == {i \in DOMAIN Run.scopes : Run.scopes[i] \notin Run.at.walked}
  <2>1. CASE left = {}
    BY <1>1, <1>2, <1>3, <2>1, GoesOnTyped DEF NextScope
  <2>2. CASE left # {}
    <3>1. First(left) \in DOMAIN Run.scopes
      <4>1. Len(Run.scopes) \in Nat /\ DOMAIN Run.scopes = 1 .. Len(Run.scopes)
        BY <1>1
      <4> HIDE DEF First
      <4> QED
        BY <2>2, <4>1, FirstIn
    <3>2. wk' = [wk EXCEPT !.pc = "walk", !.scope = First(left), !.clean = TRUE,
                            !.left = FilesIn[Run.scopes[First(left)]], !.batch = {}]
      BY <1>3, <2>2 DEF NextScope
    <3> HIDE DEF left
    <3>3. FilesIn[Run.scopes[First(left)]] \subseteq Files /\ First(left) \in Nat
      BY <1>1, <3>1, ScanAssumption DEF ScanAssumption
    <3>4. /\ wk' \in WorkerType /\ wk'.pc = "walk" /\ wk'.run = wk.run /\ wk'.phase = wk.phase
          /\ wk'.scope = First(left)
      BY <1>1, <3>2, <3>3 DEF WorkerType, Pcs
    <3>5. wk.pc = "scope" /\ UNCHANGED runVars
      BY <1>3 DEF NextScope, At
    <3>6. wk.phase \in PhaseAt("walk")
      BY <1>1, <3>5 DEF PhaseAt
    <3> QED
      BY <1>1, <1>2, <3>1, <3>4, <3>5, <3>6, Moves DEF Ends
  <2> QED
    BY <2>1, <2>2
<1>4. CASE Persist
  <2>1. CASE wk.fresh
    <3>1. PICK changed : Updates(wk.run, Classified(Run.at, changed))
      BY <1>4, <2>1 DEF Persist
    <3>2. wk' = [wk EXCEPT !.pc = "persisted", !.batch = {}] /\ wk.pc = "walk"
      BY <1>4, <2>1 DEF Persist, At
    <3>3. /\ wk' \in WorkerType /\ wk'.pc = "persisted" /\ wk'.run = wk.run /\ wk'.phase = wk.phase
          /\ wk'.scope = wk.scope
      BY <1>1, <3>2 DEF WorkerType, Pcs
    <3>4. wk.phase \in PhaseAt("persisted")
      BY <1>1, <3>2 DEF PhaseAt
    <3>5. Classified(Run.at, changed) \in Progress
      BY <1>1, ProgressTyped
    <3> QED
      BY <1>1, <3>1, <3>2, <3>3, <3>4, <3>5, UpdatesTyped, Moves DEF Ends, Run
  <2>2. CASE ~wk.fresh
    BY <1>1, <1>4, <2>2, FailsTyped DEF Persist
  <2> QED
    BY <2>1, <2>2
<1>5. CASE WalkOn
  <2>1. wk' = [wk EXCEPT !.pc = "walk"] /\ wk.pc = "persisted" /\ UNCHANGED runVars
    BY <1>5 DEF WalkOn, At, Goes
  <2>2. /\ wk' \in WorkerType /\ wk'.pc = "walk" /\ wk'.run = wk.run /\ wk'.phase = wk.phase
        /\ wk'.scope = wk.scope
    BY <1>1, <2>1 DEF WorkerType, Pcs
  <2>3. wk.phase \in PhaseAt("walk")
    BY <1>1, <2>1 DEF PhaseAt
  <2> QED
    BY <1>1, <1>2, <2>1, <2>2, <2>3, Moves DEF Ends
<1>6. CASE WalkFails
  BY <1>1, <1>2, <1>6, GoesOnTyped DEF WalkFails
<1>7. CASE EndWalk
  <2>1. wk.pc = "walk"
    BY <1>7 DEF EndWalk, At
  <2>2. CASE RecordFence
    <3>1. wk' = [wk EXCEPT !.pc = "walked"]
      BY <2>2 DEF RecordFence, Goes
    <3>2. /\ wk' \in WorkerType /\ wk'.pc = "walked" /\ wk'.run = wk.run /\ wk'.phase = wk.phase
          /\ wk'.scope = wk.scope
      BY <1>1, <3>1 DEF WorkerType, Pcs
    <3>3. wk.phase \in PhaseAt("walked")
      BY <1>1, <2>1 DEF PhaseAt
    <3>4. UNCHANGED <<runs, since>> /\ fence' \in [Runs -> [Roots -> {"none", "current", "passed"}]]
      BY <1>1, <2>2 DEF RecordFence, RunsTyped
    <3>5. RunsTyped'
      BY <1>1, <3>4 DEF RunsTyped, RowsOK, Row
    <3> QED
      BY <1>1, <2>1, <3>2, <3>3, <3>4, <3>5, Moves DEF Ends, Run
  <2>3. CASE Rewalk
    <3>1. Updates(wk.run, NewGeneration(Run.at, {Scope}))
          /\ wk' = [wk EXCEPT !.left = FilesIn[Scope], !.clean = TRUE, !.fresh = TRUE]
      BY <2>3 DEF Rewalk
    <3>2. FilesIn[Scope] \subseteq Files
      BY <1>1, ScanAssumption DEF ScanAssumption
    <3>3. /\ wk' \in WorkerType /\ wk'.pc = "walk" /\ wk'.run = wk.run /\ wk'.phase = wk.phase
          /\ wk'.scope = wk.scope
      BY <1>1, <2>1, <3>1, <3>2 DEF WorkerType
    <3>4. NewGeneration(Run.at, {Scope}) \in Progress
      BY <1>1, ProgressTyped
    <3> QED
      BY <1>1, <2>1, <3>1, <3>3, <3>4, UpdatesTyped, Moves DEF Ends, Run
  <2> QED
    BY <1>7, <2>2, <2>3 DEF EndWalk
<1>8. CASE CompleteScope
  <2>1. /\ wk.pc = "walked" /\ wk' = [wk EXCEPT !.pc = "scope", !.scope = 1]
        /\ Updates(wk.run, [Run.at EXCEPT !.walked = @ \union {Scope}])
    BY <1>8 DEF CompleteScope, At
  <2>2. /\ wk' \in WorkerType /\ wk'.pc = "scope" /\ wk'.run = wk.run /\ wk'.phase = wk.phase
        /\ wk'.scope = 1
    BY <1>1, <2>1 DEF WorkerType, Pcs
  <2>3. wk.phase \in PhaseAt("scope")
    BY <1>1, <2>1 DEF PhaseAt
  <2>4. [Run.at EXCEPT !.walked = @ \union {Scope}] \in Progress
    BY <1>1, ProgressTyped
  <2> QED
    BY <1>1, <2>1, <2>2, <2>3, <2>4, UpdatesTyped, Moves DEF Ends, Run
<1>9. ASSUME NEW f \in Files, LookAt(f)
      PROVE  RunsTyped' /\ WorkerTyped' /\ since' \subseteq since
  <2>1. /\ wk' = [wk EXCEPT !.left = @ \ {f}, !.batch = @ \union ({f} \intersect disk)]
        /\ wk.pc = "walk" /\ UNCHANGED runVars
    BY <1>9 DEF LookAt, At
  <2>2. /\ wk' \in WorkerType /\ wk'.pc = "walk" /\ wk'.run = wk.run /\ wk'.phase = wk.phase
        /\ wk'.scope = wk.scope
    BY <1>1, <2>1 DEF WorkerType
  <2> QED
    BY <1>1, <1>2, <2>1, <2>2, Moves DEF Ends
<1> QED
  BY <1>1, <1>3, <1>4, <1>5, <1>6, <1>7, <1>8, <1>9

\* Indexing and reconciliation.
LEMMA IndexStepTyped ==
    ASSUME TypeInv,
           \/ StartIndex \/ CommitIndex \/ EndIndex \/ ReconcileRow \/ ReconcileNext
           \/ \E f \in Files : ReadTags(f)
    PROVE  /\ RunsTyped' /\ WorkerTyped' /\ since' \subseteq since /\ UNCHANGED <<policy, disk, pub>>
           /\ track' \in [Files -> {"none", "indexed", "missing"}]
<1>1. ~At("idle") /\ UNCHANGED <<policy, disk, pub>>
  BY DEF StartIndex, CommitIndex, EndIndex, ReconcileRow, ReconcileNext, ReadTags, At, worldVars
<1>2. track \in [Files -> {"none", "indexed", "missing"}]
  BY TypeParts
<1> USE InHand
<1>3. ASSUME UNCHANGED runVars PROVE RunsTyped' /\ since' \subseteq since /\ Run = runs'[wk.run]
  BY <1>1, <1>3 DEF runVars, RunsTyped, RowsOK, Row, Run
<1>4. ASSUME NEW f \in Files, Done(f), wk.pc \notin Ends
      PROVE  /\ RunsTyped' /\ since' \subseteq since /\ runs'[wk.run] # NoRun
             /\ runs'[wk.run].state = Run.state /\ runs'[wk.run].scopes = Run.scopes
  <2>1. [Run.at EXCEPT !.todo[f] = "no"] \in Progress
    BY <1>1, ProgressTyped
  <2> QED
    BY <1>1, <1>4, <2>1, UpdatesTyped DEF Done, Run
<1>5. CASE StartIndex
  <2>1. wk' = [wk EXCEPT !.pc = "index"] /\ wk.pc = "indexStart" /\ UNCHANGED <<runVars, track>>
    BY <1>5 DEF StartIndex, At, Goes, worldVars
  <2>2. /\ wk' \in WorkerType /\ wk'.pc = "index" /\ wk'.run = wk.run /\ wk'.phase = wk.phase
        /\ wk'.scope = wk.scope
    BY <1>1, <2>1 DEF WorkerType, Pcs
  <2>3. wk.phase \in PhaseAt("index")
    BY <1>1, <2>1 DEF PhaseAt
  <2> QED
    BY <1>1, <1>2, <1>3, <2>1, <2>2, <2>3, Moves DEF Ends
<1>6. CASE CommitIndex
  <2>1. CASE Fails /\ UNCHANGED track
    BY <1>1, <1>2, <2>1, FailsTyped
  <2>2. CASE /\ Done(wk.file) /\ wk' = [wk EXCEPT !.pc = "index", !.file = NoFile]
             /\ track' = [track EXCEPT ![wk.file] = "indexed"]
    <3>1. /\ Done(wk.file) /\ wk' = [wk EXCEPT !.pc = "index", !.file = NoFile] /\ wk.pc = "commit"
          /\ track' = [track EXCEPT ![wk.file] = "indexed"]
      BY <1>6, <2>2 DEF CommitIndex, At
    <3>2. /\ wk' \in WorkerType /\ wk'.pc = "index" /\ wk'.run = wk.run /\ wk'.phase = wk.phase
          /\ wk'.scope = wk.scope
      <4>1. 0 \in 0 .. FileCount
        BY Numbers
      <4> QED
        BY <1>1, <3>1, <4>1 DEF WorkerType, Pcs, NoFile
    <3>3. wk.phase \in PhaseAt("index")
      BY <1>1, <3>1 DEF PhaseAt
    <3>4. [Run.at EXCEPT !.todo[wk.file] = "no"] \in Progress
      BY <1>1 DEF Progress
    <3>5. /\ RunsTyped' /\ since' \subseteq since /\ runs'[wk.run] # NoRun
          /\ runs'[wk.run].state = Run.state /\ runs'[wk.run].scopes = Run.scopes
      BY <1>1, <3>1, <3>4, UpdatesTyped DEF Done, Run
    <3>6. track' \in [Files -> {"none", "indexed", "missing"}]
      BY <1>2, <3>1
    <3> QED
      BY <1>1, <3>1, <3>2, <3>3, <3>5, <3>6, Moves DEF Ends
  <2> QED
    BY <1>6, <2>1, <2>2 DEF CommitIndex
<1>7. CASE EndIndex
  <2>1. wk' = [wk EXCEPT !.pc = "reread"] /\ wk.pc = "index" /\ UNCHANGED <<runVars, track>>
    BY <1>7 DEF EndIndex, At, Goes, worldVars
  <2>2. /\ wk' \in WorkerType /\ wk'.pc = "reread" /\ wk'.run = wk.run /\ wk'.phase = wk.phase
        /\ wk'.scope = wk.scope
    BY <1>1, <2>1 DEF WorkerType, Pcs
  <2>3. wk.phase \in PhaseAt("reread")
    BY <1>1 DEF PhaseAt
  <2> QED
    BY <1>1, <1>2, <1>3, <2>1, <2>2, <2>3, Moves DEF Ends
<1>8. CASE ReconcileRow
  <2> DEFINE f == First(Candidates)
  <2>1. f \in Candidates
    <3>1. Candidates \subseteq 1 .. FileCount
      BY <1>1, ScanAssumption, Numbers DEF ScanAssumption, Candidates
    <3> HIDE DEF First
    <3> QED
      BY <1>8, <3>1, Numbers, FirstIn DEF ReconcileRow
  <2>2. f \in Files
    BY <1>1, <2>1, ScanAssumption DEF ScanAssumption, Candidates
  <2> HIDE DEF f
  <2>3. Updates(wk.run, [Run.at EXCEPT !.cursor[Scope] = f]) /\ wk.pc = "reconcile" /\ UNCHANGED wk
    BY <1>8 DEF ReconcileRow, At, f
  <2>4. [Run.at EXCEPT !.cursor[Scope] = f] \in Progress
    BY <1>1, <2>2, ProgressTyped
  <2>5. /\ RunsTyped' /\ since' \subseteq since /\ runs'[wk.run] # NoRun
        /\ runs'[wk.run].state = Run.state /\ runs'[wk.run].scopes = Run.scopes
    BY <1>1, <2>3, <2>4, UpdatesTyped DEF Run
  <2>6. track' \in [Files -> {"none", "indexed", "missing"}]
    BY <1>2, <1>8 DEF ReconcileRow
  <2>7. WorkerTyped'
    BY <1>1, <2>3, <2>5, SamePlace
  <2> QED
    BY <1>1, <2>5, <2>6, <2>7
<1>9. CASE ReconcileNext
  <2>1. wk.pc = "reconcile" /\ UNCHANGED <<runVars, track>>
    BY <1>9 DEF ReconcileNext, At, worldVars
  <2>2. CASE wk.scope < Len(Run.scopes)
    <3>1. wk' = [wk EXCEPT !.scope = @ + 1]
      BY <1>9, <2>2 DEF ReconcileNext
    <3>2. /\ wk' \in WorkerType /\ wk'.pc = "reconcile" /\ wk'.run = wk.run /\ wk'.phase = wk.phase
          /\ wk'.scope = wk.scope + 1
      BY <1>1, <2>1, <3>1 DEF WorkerType
    <3>3. wk.scope + 1 \in DOMAIN Run.scopes
      BY <1>1, <2>2
    <3> QED
      BY <1>1, <1>2, <1>3, <2>1, <3>2, <3>3, Moves DEF Ends
  <2>3. CASE ~(wk.scope < Len(Run.scopes))
    <3>1. wk' = [wk EXCEPT !.pc = "reread", !.scope = 1]
      BY <1>9, <2>3 DEF ReconcileNext
    <3>2. /\ wk' \in WorkerType /\ wk'.pc = "reread" /\ wk'.run = wk.run /\ wk'.phase = wk.phase
          /\ wk'.scope = 1
      BY <1>1, <3>1 DEF WorkerType, Pcs
    <3>3. wk.phase \in PhaseAt("reread")
      BY <1>1 DEF PhaseAt
    <3> QED
      BY <1>1, <1>2, <1>3, <2>1, <3>2, <3>3, Moves DEF Ends
  <2> QED
    BY <2>2, <2>3
<1>10. ASSUME NEW f \in Files, ReadTags(f)
       PROVE  RunsTyped' /\ WorkerTyped' /\ since' \subseteq since /\ UNCHANGED track
  <2>1. wk.pc = "index" /\ UNCHANGED track
    BY <1>10 DEF ReadTags, At, worldVars
  <2>2. CASE wk' = [wk EXCEPT !.pc = "commit", !.file = f] /\ UNCHANGED runVars
    <3>1. /\ wk' \in WorkerType /\ wk'.pc = "commit" /\ wk'.run = wk.run /\ wk'.phase = wk.phase
          /\ wk'.scope = wk.scope
      <4>1. f \in 0 .. FileCount
        BY Numbers
      <4> QED
        BY <1>1, <2>2, <4>1 DEF WorkerType, Pcs
    <3>2. wk.phase \in PhaseAt("commit")
      BY <1>1, <2>1 DEF PhaseAt
    <3> QED
      BY <1>1, <1>3, <2>1, <2>2, <3>1, <3>2, Moves DEF Ends
  <2>3. CASE Done(f) /\ UNCHANGED wk
    BY <1>1, <1>4, <2>1, <2>3, SamePlace DEF Ends
  <2> QED
    BY <1>10, <2>1, <2>2, <2>3 DEF ReadTags
<1> QED
  BY <1>1, <1>2, <1>5, <1>6, <1>7, <1>8, <1>9, <1>10

\* The ends of the phases, and the checkpoints that say no.
LEMMA PhaseStepTyped ==
    ASSUME TypeInv, WorkerOK, Unwind \/ Reread \/ Leave \/ Advance \/ Refuse
    PROVE  RunsTyped' /\ WorkerTyped' /\ since' \subseteq since /\ UNCHANGED worldVars
<1>1. ~At("idle") /\ UNCHANGED worldVars
  BY DEF Unwind, Reread, Leave, Advance, Refuse, At
<1> USE InHand
<1>2. ASSUME NEW rec, Row(rec), Becomes(wk.run, rec)
      PROVE  /\ RunsTyped' /\ since' \subseteq since
             /\ wk' = Idle => WorkerTyped'
  BY <1>1, <1>2, BecomesTyped, LetsGo
<1>3. ASSUME UNCHANGED runVars PROVE RunsTyped' /\ since' \subseteq since /\ Run = runs'[wk.run]
  BY <1>1, <1>3 DEF runVars, RunsTyped, RowsOK, Row, Run
<1>4. CASE Unwind
  <2>1. Row(IF Run.state = "discovering" THEN [Run EXCEPT !.state = "failed"] ELSE Settled(Run))
    BY <1>1, RowLeaves
  <2> QED
    BY <1>1, <1>2, <1>4, <2>1 DEF Unwind
<1>5. CASE Reread
  <2>1. CASE Run.state = wk.phase
    <3> DEFINE pc == IF wk.phase = "discovering" THEN "advance" ELSE "leave"
    <3>1. wk' = [wk EXCEPT !.pc = pc, !.fresh = TRUE] /\ UNCHANGED runVars
      BY <1>5, <2>1 DEF Reread, Fresh
    <3>2. /\ wk' \in WorkerType /\ wk'.pc = pc /\ wk'.run = wk.run /\ wk'.phase = wk.phase
          /\ wk'.scope = wk.scope
      BY <1>1, <3>1 DEF WorkerType, Pcs
    <3>3. wk.phase \in PhaseAt(pc) /\ Run.state \in Phases /\ pc # "idle"
      BY <1>1, <2>1 DEF PhaseAt
    <3> HIDE DEF pc
    <3> QED
      BY <1>1, <1>3, <3>1, <3>2, <3>3, Moves
  <2>2. CASE Run.state # wk.phase
    BY <1>1, <1>2, <1>5, <2>2, RowLeaves DEF Reread
  <2> QED
    BY <2>1, <2>2
<1>6. CASE Leave
  <2>1. wk' = [wk EXCEPT !.pc = "advance"] /\ wk.pc = "leave" /\ UNCHANGED runVars
    BY <1>6 DEF Leave, At, Goes
  <2>2. /\ wk' \in WorkerType /\ wk'.pc = "advance" /\ wk'.run = wk.run /\ wk'.phase = wk.phase
        /\ wk'.scope = wk.scope
    BY <1>1, <2>1 DEF WorkerType, Pcs
  <2>3. wk.phase \in PhaseAt("advance")
    BY <1>1 DEF PhaseAt
  <2> QED
    BY <1>1, <1>3, <2>1, <2>2, <2>3, Moves DEF Ends
<1>7. CASE Advance
  <2>1. CASE ~wk.fresh
    BY <1>1, <1>7, <2>1, FailsTyped DEF Advance
  <2>2. CASE wk.fresh
    <3>1. wk.pc = "advance" /\ Run.state = wk.phase
      BY <1>7, <2>2 DEF Advance, At, WorkerOK
    <3>2. ASSUME NEW pc \in {"indexStart", "reconcile"}, NEW state \in Phases,
                 state \in PhaseAt(pc), Becomes(wk.run, [Run EXCEPT !.state = state]),
                 wk' = [wk EXCEPT !.pc = pc, !.phase = state, !.fresh = FALSE]
          PROVE  RunsTyped' /\ WorkerTyped' /\ since' \subseteq since
      <4>1. /\ wk' \in WorkerType /\ wk'.pc = pc /\ wk'.run = wk.run /\ wk'.phase = state
            /\ wk'.scope = wk.scope
        BY <1>1, <3>2 DEF WorkerType, Pcs
      <4> DEFINE rec == [Run EXCEPT !.state = state]
      <4>2. Row(rec) /\ rec.state = state /\ rec.scopes = Run.scopes
        BY <1>1, RowLeaves
      <4>3. state # "queued"
        BY DEF Phases
      <4> HIDE DEF rec
      <4>4. /\ RunsTyped' /\ since' \subseteq since /\ runs'[wk.run] # NoRun
            /\ runs'[wk.run].state = state /\ runs'[wk.run].scopes = Run.scopes
        BY <1>1, <3>2, <4>2, BecomesTyped DEF rec
      <4> QED
        BY <1>1, <3>2, <4>1, <4>3, <4>4, Moves
    <3>3. CASE wk.phase = "discovering"
      BY <1>7, <2>2, <3>2, <3>3 DEF Advance, Phases, PhaseAt
    <3>4. CASE wk.phase = "indexing"
      BY <1>7, <2>2, <3>2, <3>4 DEF Advance, Phases, PhaseAt
    <3>5. CASE wk.phase \notin {"discovering", "indexing"}
      <4> DEFINE rec == [Run EXCEPT !.state = "completed"]
      <4>1. Becomes(wk.run, rec) /\ wk' = Idle
        BY <1>7, <2>2, <3>5 DEF Advance
      <4>2. Row(rec)
        BY <1>1, RowLeaves
      <4> HIDE DEF rec
      <4> QED
        BY <1>1, <1>2, <4>1, <4>2
    <3> QED
      BY <1>1, <3>3, <3>4, <3>5
  <2>3. wk.fresh \in BOOLEAN
    BY <1>1 DEF WorkerType
  <2> QED
    BY <1>1, <2>1, <2>2, <2>3
<1>8. CASE Refuse
  <2> DEFINE rec == IF Run.policy # policy THEN Superseded(Run) ELSE Settled(Run)
  <2>1. Becomes(wk.run, rec)
    BY <1>8 DEF Refuse
  <2>2. Row(rec) /\ rec.state # "queued"
    BY <1>1, RowLeaves
  <2> HIDE DEF rec
  <2>3. RunsTyped' /\ since' \subseteq since /\ runs'[wk.run] # NoRun /\ runs'[wk.run].state # "queued"
    BY <1>1, <2>1, <2>2, BecomesTyped
  <2>4. GoesOn("unwind") \/ wk' = Idle \/ GoesOn("reread")
    BY <1>8 DEF Refuse
  <2> QED
    BY <1>1, <2>3, <2>4, GoesOnTyped, LetsGo
<1> QED
  BY <1>1, <1>4, <1>5, <1>6, <1>7, <1>8

\* The claim: of a run in a phase, or of the first in the queue.
LEMMA RunOnceTyped ==
    ASSUME TypeInv, RunOnce
    PROVE  RunsTyped' /\ WorkerTyped' /\ since' \subseteq disk /\ UNCHANGED worldVars
<1>1. UNCHANGED <<fence, worldVars>> /\ RunsTyped /\ since' \subseteq disk
  BY TypeParts DEF RunOnce
<1>2. ASSUME NEW q \in Runs, runs[q] # NoRun, NEW state \in Phases, Take(q, state)
      PROVE  RunsTyped' /\ WorkerTyped'
  <2>1. Row(runs[q]) /\ runs[q] \in RunRecords
    BY <1>1, <1>2 DEF RunsTyped, RowsOK, Row
  <2>2. PICK at : /\ at = runs[q].at \/ \E dropped : at = NewGeneration(runs[q].at, dropped)
                  /\ runs' = [runs EXCEPT ![q] = [[runs[q] EXCEPT !.state = state] EXCEPT !.at = at]]
    BY <1>2 DEF Take
  <2>3. at \in Progress
    BY <2>1, <2>2, ProgressTyped, HasScope
  <2> DEFINE new == [[runs[q] EXCEPT !.state = state] EXCEPT !.at = at]
  <2>4. Row(new) /\ new.state = state /\ new.scopes = runs[q].scopes /\ new \in RunRecords
    BY <2>1, <2>3 DEF Row, RunRecords, RunStates, Active, Phases
  <2> HIDE DEF new
  <2>5. runs' = [runs EXCEPT ![q] = new] /\ runs'[q] = new
    BY <1>1, <2>2 DEF new, RunsTyped
  <2>6. RunsTyped'
    BY <1>1, <2>4, <2>5 DEF RunsTyped, RowsOK
  <2>7. wk' = [Idle EXCEPT !.run = q, !.fresh = (state = "discovering"), !.phase = state,
                          !.scope = 1,
                          !.pc = CASE state = "discovering" -> "scope"
                                   [] state = "indexing" -> "indexStart"
                                   [] OTHER -> "reconcile"]
    BY <1>2 DEF Take
  <2> DEFINE pc == CASE state = "discovering" -> "scope" [] state = "indexing" -> "indexStart"
                     [] OTHER -> "reconcile"
  <2>8. state \in PhaseAt(pc) /\ pc \in Pcs /\ pc # "idle"
    BY DEF PhaseAt, Phases, Pcs
  <2>9. /\ wk' = [pc |-> pc, run |-> q, phase |-> state, scope |-> 1, left |-> {}, batch |-> {},
                  clean |-> FALSE, fresh |-> (state = "discovering"), file |-> 0]
        /\ q \in 0 .. RunCount /\ 0 \in 0 .. FileCount
    <3>1. q \in 0 .. RunCount /\ 0 \in 0 .. FileCount
      BY Numbers
    <3> QED
      BY <2>7, <3>1 DEF Idle, NoFile
  <2> HIDE DEF pc
  <2>10. wk' \in WorkerType /\ wk'.pc = pc /\ wk'.run = q /\ wk'.phase = state /\ wk'.scope = 1
    BY <2>8, <2>9 DEF WorkerType
  <2>11. 1 \in DOMAIN new.scopes /\ new # NoRun /\ new.state # "queued"
    BY <2>4, HasScope, Numbers DEF Phases
  <2> QED
    BY <2>4, <2>5, <2>6, <2>8, <2>10, <2>11, Moves
<1>3. CASE Resumable # {}
  <2> DEFINE q == First(Resumable)
  <2>1. q \in Resumable
    BY <1>3, PlainRuns, FirstRun
  <2>2. Take(q, runs[q].state)
    BY <1>3 DEF RunOnce
  <2> HIDE DEF q
  <2>3. q \in Runs /\ runs[q] # NoRun /\ runs[q].state \in Phases
    BY <2>1 DEF Resumable, ActiveRuns, InState
  <2> QED
    BY <1>1, <1>2, <2>2, <2>3
<1>4. CASE Resumable = {}
  <2> DEFINE q == First(Queued)
  <2>1. Queued # {} /\ Take(q, "discovering")
    BY <1>4 DEF RunOnce
  <2>2. q \in Queued
    BY <2>1, PlainRuns, FirstRun
  <2> HIDE DEF q
  <2>3. q \in Runs /\ runs[q] # NoRun /\ "discovering" \in Phases
    BY <2>2 DEF Queued, InState, Phases
  <2> QED
    BY <1>1, <1>2, <2>1, <2>3
<1> QED
  BY <1>3, <1>4

\* The publisher, other programs, the policy and restarts.
LEMMA WorldStepTyped ==
    ASSUME TypeInv, WorldStep
    PROVE  TypeInv'
<1> RunsTyped /\ WorkerTyped
  BY TypeParts
<1> /\ policy \in Policies /\ disk \subseteq Files /\ since \subseteq disk
    /\ track \in [Files -> {"none", "indexed", "missing"}]
    /\ pub \in [pc : {"idle", "placed"}, from : 0 .. FileCount, to : 0 .. FileCount]
  BY TypeParts
<1>1. ASSUME UNCHANGED <<runs, fence, wk>>
      PROVE  RunsTyped' /\ WorkerTyped'
  BY <1>1, SamePlace DEF RunsTyped, RowsOK, Row, WorkerTyped, WorkerHolds, Run
<1>2. NoPublication \in [pc : {"idle", "placed"}, from : 0 .. FileCount, to : 0 .. FileCount]
  BY Numbers DEF NoPublication, NoFile
<1>3. pub.pc = "placed" => Restored \subseteq Files
  <2>1. pub.from # 0 => pub.from \in Files
    BY Numbers
  <2> QED
    BY <2>1 DEF Restored, NoFile, Place
<1>4. since \ {pub.to} \subseteq Restored
  BY DEF Restored
<1>5. ASSUME NEW f \in Files \union {NoFile}, NEW g \in Files, Place(f, g)
      PROVE  TypeInv'
  <2>1. f \in 0 .. FileCount /\ g \in 0 .. FileCount
    BY Numbers DEF NoFile
  <2> QED
    BY <1>1, <1>5, <2>1, TypePartsNext DEF Place
<1>6. CASE Commit \/ Rollback
  <2>1. Release /\ UNCHANGED <<runs, policy>>
    BY <1>6 DEF Commit, Rollback
  <2>2. RunsTyped'
    <3>1. fence' \in [Runs -> [Roots -> {"none", "current", "passed"}]]
      BY <2>1 DEF Release, RunsTyped
    <3> QED
      BY <2>1, <3>1 DEF RunsTyped, RowsOK, Row
  <2>3. WorkerTyped'
    <3>1. wk' = wk \/ wk' = [wk EXCEPT !.clean = FALSE]
      BY <2>1 DEF Release
    <3> QED
      BY <2>1, <3>1, SamePlace DEF WorkerTyped, WorkerHolds, Run
  <2>4. pub' \in [pc : {"idle", "placed"}, from : 0 .. FileCount, to : 0 .. FileCount]
    BY <1>2, <2>1 DEF Release
  <2>5. disk' \subseteq Files /\ since' \subseteq disk' /\ track' \in [Files -> {"none", "indexed", "missing"}]
    BY <1>3, <1>4, <1>6 DEF Commit, Rollback
  <2> QED
    BY <2>1, <2>2, <2>3, <2>4, <2>5, TypePartsNext
<1>7. CASE ChangePolicy
  BY <1>1, <1>7, TypePartsNext DEF ChangePolicy
<1>8. ASSUME NEW f \in Files, RemoveFile(f) \/ AddFile(f)
      PROVE  TypeInv'
  BY <1>1, <1>8, TypePartsNext DEF RemoveFile, AddFile
<1>9. CASE Restart
  <2>1. ASSUME NEW r \in Runs, runs[r] # NoRun
        PROVE  Row(Recovered(runs[r])) /\ Recovered(runs[r]) \in RunRecords
    <3>1. Row(runs[r]) /\ runs[r] \in RunRecords
      BY <2>1 DEF RunsTyped, RowsOK, Row
    <3>2. \/ Recovered(runs[r]) = runs[r]
          \/ Recovered(runs[r]) = [runs[r] EXCEPT !.state = "cancelled", !.control = "none", !.at = NoProgress]
          \/ /\ Recovered(runs[r]) = [runs[r] EXCEPT !.state = "paused", !.control = "none"]
             /\ runs[r].state = "pausing" \/ runs[r].control = "pause"
      BY <2>1 DEF Recovered
    <3>3. LET new == [runs[r] EXCEPT !.state = "cancelled", !.control = "none", !.at = NoProgress]
          IN Row(new) /\ new \in RunRecords
      BY <3>1, Numbers DEF Row, RunRecords, RunStates, Terminal
    <3>4. ASSUME runs[r].state = "pausing" \/ runs[r].control = "pause"
          PROVE  LET new == [runs[r] EXCEPT !.state = "paused", !.control = "none"]
                 IN Row(new) /\ new \in RunRecords
      BY <3>1, <3>4 DEF Row, RunRecords, RunStates, Active
    <3> QED
      BY <3>1, <3>2, <3>3, <3>4
  <2>2. \A r \in Runs : runs[r] = NoRun => Recovered(runs[r]) = NoRun
    BY DEF Recovered
  <2>3. runs' = [r \in Runs |-> Recovered(runs[r])]
    BY <1>9 DEF Restart
  <2> HIDE DEF Recovered
  <2>4. runs' \in [Runs -> RunRecords \union {NoRun}] /\ RowsOK'
    BY <2>1, <2>2, <2>3 DEF RowsOK
  <2>5. fence' \in [Runs -> [Roots -> {"none", "current", "passed"}]]
    BY <1>9 DEF Restart
  <2>6. disk' \subseteq Files /\ since' \subseteq disk'
    BY <1>3, <1>4, <1>9 DEF Restart
  <2> QED
    BY <1>2, <1>9, <2>4, <2>5, <2>6, LetsGo, TypePartsNext DEF Restart, RunsTyped
<1> QED
  BY <1>5, <1>6, <1>7, <1>8, <1>9 DEF WorldStep

\* RunsOK, WorkerOK and TypeInv together are inductive, whatever the instance admits.
LEMMA TypeInit == Init => TypeInv
<1> SUFFICES ASSUME Init PROVE TypeInv
  OBVIOUS
<1>1. RunsTyped
  BY DEF Init, RunsTyped, RowsOK
<1>2. WorkerTyped
  <2>1. wk = Idle
    BY DEF Init
  <2>2. wk \in WorkerType
    BY <2>1, Numbers DEF WorkerType, Idle, Pcs, NoFile
  <2> QED
    BY <2>1, <2>2 DEF WorkerTyped, WorkerHolds, At, Ends, Idle
<1>3. pub \in [pc : {"idle", "placed"}, from : 0 .. FileCount, to : 0 .. FileCount]
  BY Numbers DEF Init, NoPublication, NoFile
<1> QED
  BY <1>1, <1>2, <1>3, TypeParts DEF Init

LEMMA TypeStep ==
    ASSUME TypeInv, WorkerOK, [Next]_vars
    PROVE  TypeInv'
<1> /\ RunsTyped /\ WorkerTyped
    /\ policy \in Policies /\ disk \subseteq Files /\ since \subseteq disk
    /\ track \in [Files -> {"none", "indexed", "missing"}]
    /\ pub \in [pc : {"idle", "placed"}, from : 0 .. FileCount, to : 0 .. FileCount]
  BY TypeParts
<1>1. CASE UserStep
  BY <1>1, UserStepTyped, TypePartsNext DEF worldVars
<1>2. CASE NextScope \/ Persist \/ WalkOn \/ WalkFails \/ EndWalk \/ CompleteScope
           \/ \E f \in Files : LookAt(f)
  BY <1>2, WalkStepTyped, TypePartsNext DEF worldVars
<1>3. CASE StartIndex \/ CommitIndex \/ EndIndex \/ ReconcileRow \/ ReconcileNext
           \/ \E f \in Files : ReadTags(f)
  BY <1>3, IndexStepTyped, TypePartsNext
<1>4. CASE Unwind \/ Reread \/ Leave \/ Advance \/ Refuse
  BY <1>4, PhaseStepTyped, TypePartsNext DEF worldVars
<1>5. CASE RunOnce
  BY <1>5, RunOnceTyped, TypePartsNext DEF worldVars
<1>6. CASE WorldStep
  BY <1>6, WorldStepTyped
<1>7. CASE UNCHANGED vars
  BY <1>7, SamePlace, TypePartsNext DEF vars, RunsTyped, RowsOK, Row, WorkerTyped, WorkerHolds, Run
<1> QED
  BY <1>1, <1>2, <1>3, <1>4, <1>5, <1>6, <1>7 DEF Next, WorkerStep

\* Every variable keeps its type: every run its fields, a phase to go on with while it is
\* paused and scopes to walk, and the worker a run, a scope of it and the phase of its step.
\* It holds through every circumstance, those in which an ended run is revived included
\* (the rows of library_scan_runs and what run_once keeps in hand between two awaits).
THEOREM ScanTypeCorrect == Spec => []TypeOK
<1>1. Init => TypeInv /\ RunsOK /\ WorkerOK
  BY TypeInit, ScanInit DEF ScanInv
<1>2. TypeInv /\ RunsOK /\ WorkerOK /\ [Next]_vars => (TypeInv /\ RunsOK /\ WorkerOK)'
  BY TypeStep, WritesStep
<1>3. TypeInv => TypeOK
  BY DEF TypeInv
<1> QED
  BY <1>1, <1>2, <1>3, PTL DEF Spec

-----------------------------------------------------------------------------
(* A pending control has a worker *)

OnePolicy == \A p, q \in Policies : p = q

Pending == {"pausing", "stopping"}

\* No step but a control makes a run pending, and a step of its worker that is not a control
\* leaves no run pending without one.
LEMMA WriteSettles ==
    ASSUME TypeInv, NEW r \in Runs, NEW rec, Row(rec), Becomes(r, rec),
           PendingControlIsHeld, rec.state \in Pending => wk'.run = r,
           \A q \in Runs : q # r /\ wk.run = q => wk'.run = q
    PROVE  PendingControlIsHeld'
<1>1. /\ \A q \in Runs : q # r => runs'[q] = runs[q]
      /\ runs'[r].state = rec.state
  BY TypeParts, BecomesTyped
<1> QED
  BY <1>1 DEF PendingControlIsHeld, InState, Pending

\* Progress of the worker's run makes nothing pending.
LEMMA UpdateSettles ==
    ASSUME TypeInv, ~At("idle"), NEW at \in Progress, Updates(wk.run, at),
           PendingControlIsHeld, wk'.run = wk.run
    PROVE  PendingControlIsHeld'
<1>1. /\ \A q \in Runs : q # wk.run => runs'[q] = runs[q]
      /\ runs'[wk.run].state = Run.state /\ Run # NoRun
  BY InHand, UpdatesTyped DEF Run
<1> QED
  BY <1>1 DEF PendingControlIsHeld, InState, Run

\* A step that makes no run pending, and after which the worker has the run it had.
LEMMA NonePending ==
    ASSUME PendingControlIsHeld, wk'.run = wk.run,
           \A q \in Runs : runs'[q] # NoRun /\ runs'[q].state \in Pending => InState(q, Pending)
    PROVE  PendingControlIsHeld'
  BY DEF PendingControlIsHeld, InState, Pending

\* After _settle_pending_control nothing is pending.
LEMMA SettledIsNot ==
    ASSUME TypeInv, ~At("idle")
    PROVE  /\ Row(Settled(Run)) /\ Settled(Run).state \notin Pending
           /\ LET failed == [Run EXCEPT !.state = "failed"]
              IN Row(failed) /\ failed.state \notin Pending
<1>1. Row(Run)
  BY InHand
<1>2. Settled(Run).state \notin Pending
  BY <1>1 DEF Settled, Row, RunRecords, Pending
<1> QED
  BY <1>1, <1>2, RowLeaves DEF Pending

\* A run whose control was settled, or that has ended, is let go.
LEMMA FailsSettles ==
    ASSUME TypeInv, ~At("idle"), Fails, PendingControlIsHeld
    PROVE  PendingControlIsHeld'
<1> DEFINE rec == IF Run.state \in Phases THEN [Run EXCEPT !.state = "failed"] ELSE Settled(Run)
<1>1. Becomes(wk.run, rec)
  BY DEF Fails
<1>2. Row(rec) /\ rec.state \notin Pending
  BY SettledIsNot
<1> HIDE DEF rec
<1> QED
  BY <1>1, <1>2, InHand, WriteSettles

LEMMA UserStepHeld ==
    ASSUME "controlBetweenTicks" \notin Admits, TypeInv, PendingControlIsHeld, UserStep
    PROVE  PendingControlIsHeld'
<1> RunsTyped /\ wk \in WorkerType
  BY TypeParts DEF WorkerTyped
<1>1. ASSUME NEW request \in Requests, Request(request)
      PROVE  PendingControlIsHeld'
  <2>1. CASE UNCHANGED runs /\ \E r : Stales(r)
    BY <2>1, NonePending DEF Stales, WorkerType, InState
  <2>2. CASE Queued # {} /\ Expand(First(Queued), request)
    <3> DEFINE q == First(Queued)
    <3>1. q \in Queued
      BY <2>2, PlainRuns, FirstRun
    <3>2. q \in Runs /\ runs[q] # NoRun /\ runs[q].state = "queued" /\ runs[q] \in RunRecords
      BY <3>1 DEF Queued, InState, RunsTyped
    <3>3. UNCHANGED wk /\ (runs' = runs \/
              runs' = [runs EXCEPT ![q].scopes = @ \o Additions(@, request)])
      BY <2>2 DEF Expand
    <3> HIDE DEF q
    <3>4. runs'[q].state = "queued" /\ \A r \in Runs : r # q => runs'[r] = runs[r]
      BY <3>2, <3>3 DEF RunsTyped, RunRecords
    <3> QED
      BY <3>3, <3>4, NonePending DEF Pending, InState
  <2>3. CASE Enqueue(request)
    <3> DEFINE q == First({r \in Runs : runs[r] = NoRun})
    <3>1. q \in Runs
      BY <2>3, FirstRun DEF Enqueue
    <3>2. UNCHANGED wk /\ runs' = [runs EXCEPT ![q] =
              [state |-> "queued", control |-> "none", resume |-> "none",
               policy |-> policy, scopes |-> request, at |-> NoProgress]]
      BY <2>3 DEF Enqueue
    <3> HIDE DEF q
    <3>3. runs'[q].state = "queued" /\ \A r \in Runs : r # q => runs'[r] = runs[r]
      BY <3>1, <3>2 DEF RunsTyped
    <3> QED
      BY <3>2, <3>3, NonePending DEF Pending, InState
  <2> QED
    BY <1>1, <2>1, <2>2, <2>3 DEF Request, Coalesce
<1>2. ASSUME NEW r \in Runs, Pause(r) \/ ResumeRun(r) \/ Stop(r)
      PROVE  PendingControlIsHeld'
  <2>1. PICK rec : Becomes(r, rec) /\ (rec.state \in Pending => wk.run = r) /\ Row(rec)
    <3>1. Row(runs[r]) /\ runs[r] \in RunRecords
      BY <1>2 DEF Pause, ResumeRun, Stop, InState, RunsTyped, RowsOK, Row
    <3>2. CASE Pause(r)
      <4>1. Becomes(r, [runs[r] EXCEPT !.state = "pausing", !.control = "pause", !.resume = runs[r].state])
            /\ wk.run = r /\ runs[r].state \in Phases
        BY <3>2 DEF Pause, Controllable, InState
      <4>2. Row([runs[r] EXCEPT !.state = "pausing", !.control = "pause", !.resume = runs[r].state])
        BY <3>1, <4>1 DEF Row, RunRecords, RunStates, Active, Phases
      <4> QED
        BY <4>1, <4>2
    <3>3. CASE ResumeRun(r)
      <4> DEFINE rec == [runs[r] EXCEPT !.state = runs[r].resume, !.control = "none", !.resume = "none"]
      <4>1. Becomes(r, rec) /\ runs[r].state = "paused"
        BY <3>3 DEF ResumeRun, InState
      <4>2. Row(rec) /\ rec.state \notin Pending
        BY <3>1, <4>1 DEF Row, RunRecords, RunStates, Active, Phases, Pending
      <4> QED
        BY <4>1, <4>2
    <3>4. CASE Stop(r)
      <4>1. PICK state \in {"cancelled", "stopping"}, control \in {"none", "stop"} :
                /\ Becomes(r, [runs[r] EXCEPT !.state = state, !.control = control])
                /\ state = "stopping" => wk.run = r
        BY <3>4 DEF Stop, InState, Controllable
      <4> DEFINE rec == [runs[r] EXCEPT !.state = state, !.control = control]
      <4>2. Row(rec) /\ rec.state = state
        BY <3>1 DEF Row, RunRecords, RunStates, Active, Terminal
      <4> HIDE DEF rec
      <4>3. rec.state \in Pending => wk.run = r
        BY <4>1, <4>2 DEF Pending
      <4> QED
        BY <4>1, <4>2, <4>3 DEF rec
    <3> QED
      BY <1>2, <3>2, <3>3, <3>4
  <2>2. wk'.run = wk.run
    BY <1>2 DEF Pause, ResumeRun, Stop, Stales, WorkerType
  <2> QED
    BY <2>1, <2>2, WriteSettles
<1> QED
  BY <1>1, <1>2 DEF UserStep

\* A step of the worker.
LEMMA WorkerStepHeld ==
    ASSUME OnePolicy, TypeInv, WorkerOK, PendingControlIsHeld, WorkerStep
    PROVE  PendingControlIsHeld'
<1> RunsTyped /\ wk \in WorkerType
  BY TypeParts DEF WorkerTyped
<1>1. CASE UNCHANGED runs /\ (wk'.run = wk.run)
  BY <1>1, NonePending DEF InState
<1>2. CASE NextScope \/ WalkOn \/ WalkFails \/ RecordFence \/ Leave \/ StartIndex \/ EndIndex
           \/ ReconcileNext \/ \E f \in Files : LookAt(f)
  BY <1>1, <1>2 DEF NextScope, WalkOn, WalkFails, RecordFence, Leave, StartIndex, EndIndex,
                    ReconcileNext, LookAt, GoesOn, Goes, runVars, WorkerType, Idle
<1>3. CASE ~At("idle") /\ Fails
  BY <1>3, FailsSettles
<1>4. CASE Persist
  <2>1. CASE wk.fresh
    <3>1. PICK changed : Updates(wk.run, Classified(Run.at, changed))
      BY <1>4, <2>1 DEF Persist
    <3>2. wk' = [wk EXCEPT !.pc = "persisted", !.batch = {}] /\ ~At("idle")
      BY <1>4, <2>1 DEF Persist, At
    <3>3. Classified(Run.at, changed) \in Progress
      BY <3>2, InHand, ProgressTyped
    <3> QED
      BY <3>1, <3>2, <3>3, UpdateSettles DEF WorkerType
  <2>2. CASE ~wk.fresh
    BY <1>3, <1>4, <2>2 DEF Persist, At
  <2> QED
    BY <2>1, <2>2
<1>5. CASE EndWalk
  <2>1. CASE Rewalk
    <3>1. ~At("idle") /\ wk'.run = wk.run /\ Updates(wk.run, NewGeneration(Run.at, {Scope}))
      BY <1>5, <2>1 DEF EndWalk, Rewalk, At, WorkerType
    <3>2. NewGeneration(Run.at, {Scope}) \in Progress
      BY <3>1, InHand, ProgressTyped
    <3> QED
      BY <3>1, <3>2, UpdateSettles
  <2> QED
    BY <1>2, <1>5, <2>1 DEF EndWalk
<1>6. CASE CompleteScope
  <2>1. /\ ~At("idle") /\ wk'.run = wk.run
        /\ Updates(wk.run, [Run.at EXCEPT !.walked = @ \union {Scope}])
    BY <1>6 DEF CompleteScope, At, WorkerType
  <2>2. [Run.at EXCEPT !.walked = @ \union {Scope}] \in Progress
    BY <2>1, InHand, ProgressTyped
  <2> QED
    BY <2>1, <2>2, UpdateSettles
<1>7. CASE Unwind
  <2> DEFINE rec == IF Run.state = "discovering" THEN [Run EXCEPT !.state = "failed"] ELSE Settled(Run)
  <2>1. Becomes(wk.run, rec) /\ ~At("idle")
    BY <1>7 DEF Unwind, At
  <2>2. Row(rec) /\ rec.state \notin Pending
    BY <2>1, SettledIsNot
  <2> HIDE DEF rec
  <2> QED
    BY <2>1, <2>2, InHand, WriteSettles
<1>8. CASE Reread
  <2>1. ~At("idle")
    BY <1>8 DEF Reread, At
  <2>2. CASE Run.state = wk.phase
    BY <1>1, <1>8, <2>2 DEF Reread, Fresh, runVars, WorkerType
  <2>3. CASE Run.state # wk.phase
    <3>1. Becomes(wk.run, Settled(Run))
      BY <1>8, <2>3 DEF Reread
    <3>2. Row(Settled(Run)) /\ Settled(Run).state \notin Pending
      BY <2>1, SettledIsNot
    <3> QED
      BY <2>1, <3>1, <3>2, InHand, WriteSettles
  <2> QED
    BY <2>2, <2>3
<1>9. CASE Advance
  <2>1. ~At("idle") /\ wk.fresh \in BOOLEAN
    BY <1>9 DEF Advance, At, WorkerType
  <2>2. CASE wk.fresh
    <3>1. PICK state \in Phases \union {"completed"} : Becomes(wk.run, [Run EXCEPT !.state = state])
      BY <1>9, <2>2 DEF Advance, Phases
    <3> DEFINE rec == [Run EXCEPT !.state = state]
    <3>2. Row(rec) /\ rec.state \notin Pending
      <4>1. Row(Run)
        BY <2>1, InHand
      <4>2. Row(rec) /\ rec.state = state
        BY <4>1, RowLeaves
      <4> HIDE DEF rec
      <4> QED
        BY <4>2 DEF Pending, Phases
    <3> HIDE DEF rec
    <3> QED
      BY <2>1, <3>1, <3>2, InHand, WriteSettles DEF rec
  <2> QED
    BY <1>3, <1>9, <2>1, <2>2 DEF Advance
<1>10. CASE CommitIndex \/ \E f \in Files : ReadTags(f)
  <2>1. ~At("idle")
    BY <1>10 DEF CommitIndex, ReadTags, At
  <2>2. CASE \E f : Done(f) /\ wk'.run = wk.run
    <3> PICK f : Done(f) /\ wk'.run = wk.run
      BY <2>2
    <3>1. [Run.at EXCEPT !.todo[f] = "no"] \in Progress
      BY <2>1, InHand DEF Progress
    <3> QED
      BY <2>1, <3>1, UpdateSettles DEF Done
  <2> QED
    BY <1>1, <1>3, <1>10, <2>1, <2>2 DEF CommitIndex, ReadTags, runVars, WorkerType
<1>11. CASE ReconcileRow
  <2>1. PICK f : Updates(wk.run, [Run.at EXCEPT !.cursor[Scope] = f]) /\ f \in Candidates
    <3>1. ~At("idle")
      BY <1>11 DEF ReconcileRow, At
    <3>2. Candidates \subseteq 1 .. FileCount
      BY <3>1, InHand, ScanAssumption, Numbers DEF ScanAssumption, Candidates
    <3>3. First(Candidates) \in Candidates
      <4> HIDE DEF First
      <4> QED
        BY <1>11, <3>2, Numbers, FirstIn DEF ReconcileRow
    <3> QED
      BY <1>11, <3>3 DEF ReconcileRow
  <2>2. ~At("idle") /\ UNCHANGED wk
    BY <1>11 DEF ReconcileRow, At
  <2>3. f \in Files
    BY <2>1, <2>2, InHand, ScanAssumption DEF ScanAssumption, Candidates
  <2>4. [Run.at EXCEPT !.cursor[Scope] = f] \in Progress
    BY <2>2, <2>3, InHand, ProgressTyped
  <2> QED
    BY <2>1, <2>2, <2>4, UpdateSettles
<1>12. CASE Refuse
  <2>1. ~At("idle")
    BY <1>12 DEF Refuse, At
  <2>2. Run.policy = policy
    BY <2>1, InHand, TypeParts DEF OnePolicy, RunRecords
  <2>3. Becomes(wk.run, Settled(Run))
    BY <1>12, <2>2 DEF Refuse
  <2>4. Row(Settled(Run)) /\ Settled(Run).state \notin Pending
    BY <2>1, SettledIsNot
  <2>5. wk'.run \in {0, wk.run}
    <3>1. GoesOn("unwind") \/ wk' = Idle \/ GoesOn("reread")
      BY <1>12 DEF Refuse
    <3>2. \A pc : GoesOn(pc) => wk'.run = wk.run
      BY DEF GoesOn, Idle
    <3> QED
      BY <3>1, <3>2 DEF Idle
  <2> QED
    BY <2>1, <2>3, <2>4, InHand, WriteSettles
<1>13. CASE RunOnce
  <2>1. \A q \in Runs : ~InState(q, Pending)
    <3>1. wk.run = 0
      BY <1>13, TypeParts DEF RunOnce, WorkerTyped, WorkerHolds
    <3> QED
      BY <3>1, Numbers DEF PendingControlIsHeld, Pending
  <2>2. ASSUME NEW q \in Runs, NEW state \in Phases, Take(q, state), runs[q] # NoRun
        PROVE  PendingControlIsHeld'
    <3>1. PICK at : runs' = [runs EXCEPT ![q] = [[runs[q] EXCEPT !.state = state] EXCEPT !.at = at]]
      BY <2>2 DEF Take
    <3>2. runs[q] \in RunRecords
      BY <2>2 DEF RunsTyped
    <3>3. runs'[q].state = state /\ \A r \in Runs : r # q => runs'[r] = runs[r]
      BY <3>1, <3>2 DEF RunsTyped, RunRecords
    <3> QED
      BY <2>1, <3>3 DEF PendingControlIsHeld, InState, Pending, Phases
  <2>3. CASE Resumable # {}
    <3> DEFINE q == First(Resumable)
    <3>1. q \in Resumable
      BY <2>3, PlainRuns, FirstRun
    <3>2. Take(q, runs[q].state)
      BY <1>13, <2>3 DEF RunOnce
    <3> HIDE DEF q
    <3> QED
      BY <2>2, <3>1, <3>2 DEF Resumable, ActiveRuns, InState
  <2>4. CASE Resumable = {}
    <3> DEFINE q == First(Queued)
    <3>1. Queued # {} /\ Take(q, "discovering")
      BY <1>13, <2>4 DEF RunOnce
    <3>2. q \in Queued
      BY <3>1, PlainRuns, FirstRun
    <3> HIDE DEF q
    <3> QED
      BY <2>2, <3>1, <3>2 DEF Queued, InState, Phases
  <2> QED
    BY <2>3, <2>4
<1> QED
  BY <1>2, <1>4, <1>5, <1>6, <1>7, <1>8, <1>9, <1>10, <1>11, <1>12, <1>13 DEF WorkerStep

\* The rest of the world: only a restart writes runs.
LEMMA WorldStepHeld ==
    ASSUME TypeInv, PendingControlIsHeld, WorldStep
    PROVE  PendingControlIsHeld'
<1> RunsTyped /\ wk \in WorkerType
  BY TypeParts DEF WorkerTyped
<1>1. CASE UNCHANGED runs /\ wk'.run = wk.run
  BY <1>1, NonePending DEF InState
<1>2. CASE Commit \/ Rollback
  BY <1>1, <1>2 DEF Commit, Rollback, Release, WorkerType
<1>3. CASE Restart
  <2>1. ASSUME NEW r \in Runs, runs[r] # NoRun
        PROVE  Recovered(runs[r]).state \notin Pending
    BY <2>1 DEF RunsTyped, RunRecords, Recovered, Pending
  <2>2. \A r \in Runs : runs[r] = NoRun => Recovered(runs[r]) = NoRun
    BY DEF Recovered
  <2> QED
    BY <1>3, <2>1, <2>2 DEF Restart, PendingControlIsHeld, InState, Pending
<1> QED
  BY <1>1, <1>2, <1>3 DEF WorldStep, Place, ChangePolicy, RemoveFile, AddFile

\* A pause or a stop that was accepted has a worker that will settle it, for any number of
\* runs and scopes: no end of a phase, failure, refusal, request or restart leaves a run
\* pausing or stopping with nobody to settle it, so that no run could be claimed any more.
\* A control that comes while no worker holds the run, and a policy change, can: they are
\* assumed away (request_scan_control, _settle_pending_control and the ends of run_once).
THEOREM PendingControlIsHeldHolds ==
    ASSUME OnePolicy, "controlBetweenTicks" \notin Admits
    PROVE  Spec => []PendingControlIsHeld
<1> DEFINE Inv == TypeInv /\ RunsOK /\ WorkerOK /\ PendingControlIsHeld
<1>1. Init => Inv
  BY TypeInit, ScanInit DEF ScanInv, Init, PendingControlIsHeld, InState
<1>2. Inv /\ [Next]_vars => Inv'
  <2> SUFFICES ASSUME Inv, [Next]_vars PROVE Inv'
    OBVIOUS
  <2>1. (TypeInv /\ RunsOK /\ WorkerOK)'
    BY TypeStep, WritesStep
  <2>2. PendingControlIsHeld'
    <3>1. CASE UNCHANGED vars
      BY <3>1 DEF vars, PendingControlIsHeld, InState
    <3> QED
      BY <3>1, UserStepHeld, WorkerStepHeld, WorldStepHeld DEF Next
  <2> QED
    BY <2>1, <2>2
<1>3. Inv => PendingControlIsHeld
  OBVIOUS
<1> QED
  BY <1>1, <1>2, <1>3, PTL DEF Spec
-----------------------------------------------------------------------------
(* What an inventory may be trusted with *)

\* Two scopes of one root share a fence: a run of such scopes may mark a present file
\* missing.  Within one root, one scope.
OneScopePerRoot == \A s, t \in Scopes : ScopeRoot[s] = ScopeRoot[t] => s = t

\* What is pending for indexing is listed in a scope it lies in.
TodoListed ==
    \A r \in Runs : runs[r] # NoRun => \A f \in Files :
        runs[r].at.todo[f] # "no" =>
            runs[r].at.found[f] \in Scopes /\ f \in FilesIn[runs[r].at.found[f]]

\* A file the catalogue counts as present, and rightly.
Present(f) == track[f] = "indexed" /\ f \in disk

\* The inventory of a walked scope lists every present file, as long as no publication has
\* passed, and every file that never left.
Lists(r, s) ==
    \A f \in FilesIn[s] :
        (fence[r][ScopeRoot[s]] = "current" /\ Present(f)) \/ f \in since => runs[r].at.found[f] = s

\* Its revision is recorded, and its inventory lists what it should.
SoundRuns ==
    \A r \in ActiveRuns : \A s \in runs[r].at.walked :
        fence[r][ScopeRoot[s]] # "none" /\ Lists(r, s)

\* The same of the paths that the worker has walked of a scope.
Listed1(f) == (wk.clean /\ Present(f)) \/ f \in since => Run.at.found[f] = Scope

SoundWalk ==
    /\ wk.pc \in {"walk", "persisted", "walked"} => Scope \notin Run.at.walked
    /\ wk.pc \in {"walk", "persisted"} =>
          /\ wk.left \subseteq FilesIn[Scope] /\ wk.batch \subseteq FilesIn[Scope]
          /\ \A f \in FilesIn[Scope] \ (wk.left \union wk.batch) : Listed1(f)
    /\ At("walked") => fence[wk.run][ScopeRoot[Scope]] # "none" /\ Lists(wk.run, Scope)
    /\ At("commit") => wk.file \in Files /\ Run.at.todo[wk.file] # "no"

InventoryInv == TodoListed /\ SoundRuns /\ SoundWalk

\* A file lies in scopes of one root only.
LEMMA OneScope ==
    ASSUME OneScopePerRoot, NEW s \in Scopes, NEW t \in Scopes, NEW f \in FilesIn[s], f \in FilesIn[t]
    PROVE  s = t /\ f \in Files /\ RootOf[f] = ScopeRoot[s] /\ ScopeRoot[s] \in Roots
  BY ScanAssumption DEF ScanAssumption, OneScopePerRoot

\* A run that is active has a row, and its walked scopes are scopes.
LEMMA ActiveRow ==
    ASSUME TypeInv, NEW r \in ActiveRuns
    PROVE  /\ r \in Runs /\ runs[r] # NoRun /\ Row(runs[r]) /\ runs[r] \in RunRecords
           /\ runs[r].at \in Progress /\ runs[r].at.walked \subseteq Scopes
<1>1. r \in Runs /\ runs[r] # NoRun /\ Row(runs[r])
  BY TypeParts DEF ActiveRuns, InState, RunsTyped, RowsOK
<1>2. runs[r] \in RunRecords /\ runs[r].at \in Progress
  BY <1>1 DEF Row, RunRecords
<1> QED
  BY <1>1, <1>2 DEF Progress

\* While the worker has its run, no other is active.
LEMMA OnlyOurs ==
    ASSUME TypeInv, OneActiveRun, ~At("idle"), wk.pc \notin Ends
    PROVE  \A r \in ActiveRuns : r = wk.run
<1>1. wk.run \in Runs /\ Run # NoRun /\ Run.state \in Phases \union {"pausing", "stopping"}
  BY InHand
<1>2. wk.run \in ActiveRuns
  BY <1>1 DEF ActiveRuns, InState, Active, Run
<1> QED
  BY <1>2 DEF OneActiveRun

\* No walked scope has changed, and no file has come up that is counted as present.
LEMMA SoundFrame ==
    ASSUME TypeInv, SoundRuns,
           \A r \in ActiveRuns' : /\ r \in ActiveRuns /\ runs'[r].at = runs[r].at
                                  /\ fence'[r] = fence[r],
           since' \subseteq since, \A f \in Files : Present(f)' => Present(f)
    PROVE  SoundRuns'
<1> SUFFICES ASSUME NEW r \in ActiveRuns', NEW s \in runs'[r].at.walked
             PROVE  fence'[r][ScopeRoot[s]] # "none" /\ Lists(r, s)'
  BY DEF SoundRuns
<1>1. /\ r \in ActiveRuns /\ runs'[r].at = runs[r].at /\ fence'[r] = fence[r] /\ s \in Scopes
      /\ fence[r][ScopeRoot[s]] # "none" /\ Lists(r, s)
  BY ActiveRow DEF SoundRuns
<1>2. FilesIn[s] \subseteq Files
  BY <1>1, ScanAssumption DEF ScanAssumption
<1> QED
  BY <1>1, <1>2 DEF Lists

\* The worker stays at its place, and its run's progress and fence are as they were.
LEMMA WalkFrame ==
    ASSUME TypeInv, SoundWalk,
           wk' = wk \/ wk' = [wk EXCEPT !.fresh = FALSE],
           wk.pc \notin Ends => /\ runs'[wk.run].at = Run.at /\ runs'[wk.run].scopes = Run.scopes
                                /\ fence'[wk.run] = fence[wk.run],
           since' \subseteq since, \A f \in Files : Present(f)' => Present(f)
    PROVE  SoundWalk'
<1>1. /\ wk'.pc = wk.pc /\ wk'.run = wk.run /\ wk'.scope = wk.scope /\ wk'.left = wk.left
      /\ wk'.batch = wk.batch /\ wk'.clean = wk.clean /\ wk'.file = wk.file
  BY TypeParts DEF WorkerTyped, WorkerType
<1>2. CASE wk.pc \in {"walk", "persisted", "walked", "commit"}
  <2>1. wk.pc \notin Ends /\ ~At("idle")
    BY <1>2 DEF Ends, At
  <2>2. Scope' = Scope /\ Run'.at = Run.at /\ Scope \in Scopes
    BY <1>1, <2>1, InHand DEF Scope, Run
  <2>3. FilesIn[Scope] \subseteq Files
    BY <2>2, ScanAssumption DEF ScanAssumption
  <2>4. \A f \in FilesIn[Scope] : Listed1(f) => Listed1(f)'
    BY <1>1, <2>2, <2>3 DEF Listed1
  <2>5. Lists(wk.run, Scope) => Lists(wk.run, Scope)'
    BY <1>1, <2>1, <2>2, <2>3 DEF Lists, Run
  <2> QED
    BY <1>1, <2>1, <2>2, <2>4, <2>5 DEF SoundWalk, At
<1>3. CASE wk.pc \notin {"walk", "persisted", "walked", "commit"}
  BY <1>1, <1>3 DEF SoundWalk, At
<1> QED
  BY <1>2, <1>3

\* The worker is at none of the places the walk invariant speaks of.
LEMMA Elsewhere ==
    ASSUME wk'.pc \notin {"walk", "persisted", "walked", "commit"}
    PROVE  SoundWalk'
  BY DEF SoundWalk, At

\* A write of a run that leaves its progress alone, or ends it.
LEMMA BecomesFrame ==
    ASSUME TypeInv, NEW r \in Runs, NEW rec, Row(rec), Becomes(r, rec), rec.at = runs[r].at,
           runs[r] # NoRun, rec.state \in Active => r \in ActiveRuns
    PROVE  /\ \A q \in ActiveRuns' : /\ q \in ActiveRuns /\ runs'[q].at = runs[q].at
                                     /\ fence'[q] = fence[q]
           /\ \A q \in Runs : runs'[q] # NoRun =>
                 \/ runs'[q].at = NoProgress
                 \/ (runs[q] # NoRun /\ runs'[q].at = runs[q].at)
           /\ rec.state \notin Terminal => runs'[r].at = runs[r].at /\ fence' = fence
           /\ since' \subseteq since
<1>1. /\ \A q \in Runs : q # r => runs'[q] = runs[q]
      /\ runs'[r] # NoRun /\ runs'[r].state = rec.state
      /\ rec.state \notin Terminal => runs'[r] = rec
      /\ since' \subseteq since
  BY TypeParts, BecomesTyped
<1>2. rec.state \in Terminal => runs'[r].at = NoProgress
  <2>1. runs \in [Runs -> RunRecords \union {NoRun}] /\ rec \in RunRecords
    BY TypeParts DEF RunsTyped, Row
  <2> QED
    BY <2>1 DEF Becomes, RunRecords
<1>3. \A q \in Runs : q # r \/ rec.state \notin Terminal => fence'[q] = fence[q]
  BY TypeParts DEF Becomes, RunsTyped
<1>4. rec.state \notin Terminal => fence' = fence
  BY DEF Becomes
<1>5. \A s \in Terminal : s \notin Active
  BY PlainRuns
<1> QED
  BY <1>1, <1>2, <1>3, <1>4, <1>5 DEF ActiveRuns, InState

\* Rows that keep their progress, or lose it, keep TodoListed.
LEMMA TodoFrame ==
    ASSUME TodoListed,
           \A q \in Runs : runs'[q] # NoRun =>
               runs'[q].at = NoProgress \/ (runs[q] # NoRun /\ runs'[q].at = runs[q].at)
    PROVE  TodoListed'
<1>1. \A f \in Files : NoProgress.todo[f] = "no"
  BY DEF NoProgress
<1> QED
  BY <1>1 DEF TodoListed


\* The phase after discovery that a run is in, or goes on with when it is resumed.
Late(rec) ==
    (IF rec.state \in {"pausing", "paused"} THEN {rec.resume} ELSE {rec.state})
        \intersect {"indexing", "reconciling"}

\* What requests and controls leave as it is.
UserFrame ==
    /\ wk' = wk \/ wk' = [wk EXCEPT !.fresh = FALSE]
    /\ \A q \in ActiveRuns' : /\ q \in ActiveRuns /\ runs'[q].at = runs[q].at /\ fence'[q] = fence[q]
                              /\ runs'[q].scopes = runs[q].scopes /\ Late(runs'[q]) \subseteq Late(runs[q])
    /\ \A q \in Runs : runs'[q] # NoRun =>
          runs'[q].at = NoProgress \/ (runs[q] # NoRun /\ runs'[q].at = runs[q].at)
    /\ wk.pc \notin Ends => runs'[wk.run].at = Run.at /\ fence'[wk.run] = fence[wk.run]
    /\ ~At("idle") => /\ runs'[wk.run].scopes = Run.scopes
                      /\ ("resumeBeforeUnwind" \notin Admits /\ runs'[wk.run].state \in Phases)
                            => runs'[wk.run].state = Run.state
    /\ since' \subseteq since

\* A control writes one run, which it leaves active or ends.
LEMMA ControlFrame ==
    ASSUME TypeInv, NEW r \in Runs, NEW rec, Row(rec), Becomes(r, rec), Stales(r), runs[r] # NoRun,
           rec.at = runs[r].at, rec.scopes = runs[r].scopes,
           rec.state \in Active => r \in ActiveRuns /\ Late(rec) \subseteq Late(runs[r]),
           wk.run = r /\ wk.pc \notin Ends => rec.state \notin Terminal,
           wk.run = r /\ ~At("idle") /\ "resumeBeforeUnwind" \notin Admits => rec.state \notin Phases
    PROVE  UserFrame
<1>1. /\ \A q \in Runs : q # r => runs'[q] = runs[q]
      /\ runs'[r] # NoRun /\ runs'[r].state = rec.state /\ runs'[r].scopes = rec.scopes
      /\ rec.state \notin Terminal => runs'[r] = rec
  BY TypeParts, BecomesTyped
<1>2. /\ \A q \in ActiveRuns' : /\ q \in ActiveRuns /\ runs'[q].at = runs[q].at
                                /\ fence'[q] = fence[q]
      /\ \A q \in Runs : runs'[q] # NoRun =>
            \/ runs'[q].at = NoProgress
            \/ (runs[q] # NoRun /\ runs'[q].at = runs[q].at)
      /\ rec.state \notin Terminal => runs'[r].at = runs[r].at /\ fence' = fence
      /\ since' \subseteq since
  BY BecomesFrame
<1>3. \A q \in ActiveRuns' : runs'[q].scopes = runs[q].scopes /\ Late(runs'[q]) \subseteq Late(runs[q])
  <2> TAKE q \in ActiveRuns'
  <2>1. q \in Runs /\ runs'[q] # NoRun /\ runs'[q].state \in Active
    BY DEF ActiveRuns, InState
  <2>2. CASE q # r
    BY <1>1, <2>1, <2>2 DEF Late
  <2>3. CASE q = r
    <3>1. rec.state \in Active /\ rec.state \notin Terminal
      BY <1>1, <2>1, <2>3, PlainRuns
    <3> QED
      BY <1>1, <2>3, <3>1
  <2> QED
    BY <2>2, <2>3
<1>4. ~At("idle") => wk.run \in Runs
  BY InHand
<1>5. wk.pc \notin Ends => ~At("idle")
  BY DEF Ends, At
<1>6. fence'[wk.run] = fence[wk.run] \/ wk.run = r
  BY TypeParts DEF Becomes, RunsTyped
<1> QED
  BY <1>1, <1>2, <1>3, <1>4, <1>5, <1>6 DEF UserFrame, Stales, Run

LEMMA UserStepFrame ==
    ASSUME TypeInv, UserStep
    PROVE  UserFrame
<1> RunsTyped /\ wk \in WorkerType
  BY TypeParts DEF WorkerTyped
<1>1. ASSUME UNCHANGED <<fence, since>>, NEW q \in Runs, runs[q] = NoRun \/ runs[q].state = "queued",
             runs'[q].state = "queued",
             runs'[q].at = NoProgress \/ (runs[q] # NoRun /\ runs'[q].at = runs[q].at),
             \A r \in Runs : r # q => runs'[r] = runs[r],
             wk' = wk
      PROVE  UserFrame
  <2>1. ~At("idle") => wk.run \in Runs /\ wk.run # q
    BY <1>1, InHand DEF Run
  <2>2. wk.pc \notin Ends => ~At("idle")
    BY DEF Ends, At
  <2>3. "queued" \notin Active
    BY DEF Active, Phases
  <2>4. \A r \in ActiveRuns' : r \in ActiveRuns /\ runs'[r] = runs[r] /\ fence'[r] = fence[r]
    BY <1>1, <2>3 DEF ActiveRuns, InState
  <2>5. \A r \in Runs : runs'[r] # NoRun =>
            runs'[r].at = NoProgress \/ (runs[r] # NoRun /\ runs'[r].at = runs[r].at)
    BY <1>1
  <2>6. ~At("idle") => runs'[wk.run] = Run /\ fence'[wk.run] = fence[wk.run]
    BY <1>1, <2>1 DEF Run
  <2> QED
    BY <1>1, <2>2, <2>4, <2>5, <2>6 DEF UserFrame, Late
<1>2. ASSUME NEW request \in Requests, Request(request)
      PROVE  UserFrame
  <2>1. UNCHANGED <<fence, since>>
    BY <1>2 DEF Request
  <2>2. CASE UNCHANGED runs /\ \E r : Stales(r)
    BY <2>1, <2>2 DEF Stales, UserFrame, ActiveRuns, InState, Run, Late
  <2>3. CASE Queued # {} /\ Expand(First(Queued), request)
    <3> DEFINE q == First(Queued)
    <3>1. q \in Queued
      BY <2>3, PlainRuns, FirstRun
    <3>2. q \in Runs /\ runs[q] # NoRun /\ runs[q].state = "queued" /\ runs[q] \in RunRecords
      BY <3>1 DEF Queued, InState, RunsTyped
    <3>3. UNCHANGED wk /\ (runs' = runs \/
              runs' = [runs EXCEPT ![q].scopes = @ \o Additions(@, request)])
      BY <2>3 DEF Expand
    <3> HIDE DEF q
    <3>4. /\ runs'[q].state = "queued" /\ runs'[q].at = runs[q].at
          /\ \A r \in Runs : r # q => runs'[r] = runs[r]
      BY <3>2, <3>3 DEF RunsTyped, RunRecords
    <3> QED
      BY <1>1, <2>1, <3>2, <3>3, <3>4
  <2>4. CASE Enqueue(request)
    <3> DEFINE free == {r \in Runs : runs[r] = NoRun}
               q == First(free)
    <3>1. q \in free
      BY <2>4, FirstRun DEF Enqueue
    <3>2. UNCHANGED wk /\ runs' = [runs EXCEPT ![q] =
              [state |-> "queued", control |-> "none", resume |-> "none",
               policy |-> policy, scopes |-> request, at |-> NoProgress]]
      BY <2>4 DEF Enqueue
    <3>3. q \in Runs /\ runs[q] = NoRun
      BY <3>1
    <3> HIDE DEF q
    <3>4. /\ runs'[q].state = "queued" /\ runs'[q].at = NoProgress
          /\ \A r \in Runs : r # q => runs'[r] = runs[r]
      BY <3>2, <3>3 DEF RunsTyped
    <3> QED
      BY <1>1, <2>1, <3>2, <3>3, <3>4
  <2> QED
    BY <1>2, <2>2, <2>3, <2>4 DEF Request, Coalesce
<1>3. ASSUME NEW r \in Runs, Pause(r)
      PROVE  UserFrame
  <2> DEFINE rec == [runs[r] EXCEPT !.state = "pausing", !.control = "pause", !.resume = runs[r].state]
  <2>1. runs[r] # NoRun /\ runs[r].state \in Phases /\ Becomes(r, rec) /\ Stales(r)
    BY <1>3 DEF Pause, InState
  <2>2. runs[r] \in RunRecords /\ Row(runs[r]) /\ r \in ActiveRuns
    BY <2>1 DEF RunsTyped, RowsOK, Row, ActiveRuns, InState, Active
  <2>3. /\ Row(rec) /\ rec.at = runs[r].at /\ rec.scopes = runs[r].scopes
        /\ rec.state = "pausing" /\ rec.resume = runs[r].state
    BY <2>1, <2>2 DEF Row, RunRecords, RunStates, Active, Phases
  <2> HIDE DEF rec
  <2>4. Late(rec) \subseteq Late(runs[r]) /\ rec.state \notin Terminal /\ rec.state \notin Phases
    BY <2>3 DEF Late, Terminal, Phases
  <2> QED
    BY <2>1, <2>2, <2>3, <2>4, ControlFrame
<1>4. ASSUME NEW r \in Runs, ResumeRun(r)
      PROVE  UserFrame
  <2> DEFINE rec == [runs[r] EXCEPT !.state = runs[r].resume, !.control = "none", !.resume = "none"]
  <2>1. /\ runs[r] # NoRun /\ runs[r].state = "paused" /\ Becomes(r, rec) /\ Stales(r)
        /\ "resumeBeforeUnwind" \notin Admits => wk.run # r
    BY <1>4 DEF ResumeRun, InState
  <2>2. runs[r] \in RunRecords /\ Row(runs[r]) /\ r \in ActiveRuns
    BY <2>1 DEF RunsTyped, RowsOK, Row, ActiveRuns, InState, Active
  <2>3. /\ Row(rec) /\ rec.at = runs[r].at /\ rec.scopes = runs[r].scopes
        /\ rec.state = runs[r].resume /\ rec.resume = "none" /\ rec.state \in Phases
    BY <2>1, <2>2 DEF Row, RunRecords, RunStates, Active, Phases
  <2> HIDE DEF rec
  <2>4. Late(rec) \subseteq Late(runs[r]) /\ rec.state \notin Terminal
    BY <2>3 DEF Late, Terminal, Phases
  <2> QED
    BY <2>1, <2>2, <2>3, <2>4, ControlFrame
<1>5. ASSUME NEW r \in Runs, Stop(r)
      PROVE  UserFrame
  <2>1. PICK state \in {"cancelled", "stopping"}, control \in {"none", "stop"} :
            /\ Becomes(r, [runs[r] EXCEPT !.state = state, !.control = control])
            /\ state = "cancelled" => runs[r].state \in {"paused", "queued"}
            /\ state = "stopping" => runs[r].state \in Phases \union {"pausing"}
    BY <1>5 DEF Stop, InState
  <2> DEFINE rec == [runs[r] EXCEPT !.state = state, !.control = control]
  <2>2. runs[r] # NoRun /\ Stales(r) /\ runs[r] \in RunRecords /\ Row(runs[r])
    BY <1>5 DEF Stop, InState, RunsTyped, RowsOK
  <2>3. /\ Row(rec) /\ rec.at = runs[r].at /\ rec.scopes = runs[r].scopes
        /\ rec.state = state /\ rec.resume = runs[r].resume
    BY <2>2 DEF Row, RunRecords, RunStates, Active, Terminal
  <2>4. rec.state \in Active => r \in ActiveRuns
    BY <2>1, <2>2, <2>3 DEF ActiveRuns, InState, Active, Phases
  <2>5. wk.run = r /\ wk.pc \notin Ends => rec.state \notin Terminal
    BY <2>1, <2>3, TypeParts DEF WorkerTyped, WorkerHolds, Run, Phases, Terminal
  <2> HIDE DEF rec
  <2>6. Late(rec) \subseteq Late(runs[r]) /\ rec.state \notin Phases
    BY <2>3 DEF Late, Phases
  <2> QED
    BY <2>1, <2>2, <2>3, <2>4, <2>5, <2>6, ControlFrame DEF rec
<1> QED
  BY <1>2, <1>3, <1>4, <1>5 DEF UserStep

LEMMA UserStepSound ==
    ASSUME TypeInv, InventoryInv, UserStep
    PROVE  InventoryInv'
<1>1. UserFrame /\ UNCHANGED worldVars
  BY UserStepFrame, UserStepTyped
<1>2. \A f : Present(f)' => Present(f)
  BY <1>1 DEF Present, worldVars
<1>3. wk.pc \notin Ends => ~At("idle")
  BY DEF Ends, At
<1> QED
  BY <1>1, <1>2, <1>3, SoundFrame, WalkFrame, TodoFrame DEF InventoryInv, UserFrame

\* The worker writes its run, leaving its progress, and is not in a walk afterwards.
LEMMA LeavesSound ==
    ASSUME TypeInv, InventoryInv, ~At("idle"), NEW rec, Row(rec), Becomes(wk.run, rec),
           rec.at = Run.at, rec.state \in Active => Run.state \in Active,
           UNCHANGED <<disk, track>>, wk'.pc \notin {"walk", "persisted", "walked", "commit"}
    PROVE  InventoryInv'
<1>1. wk.run \in Runs /\ runs[wk.run] # NoRun /\ (rec.state \in Active => wk.run \in ActiveRuns)
  BY InHand DEF ActiveRuns, InState, Run
<1>2. /\ \A q \in ActiveRuns' : /\ q \in ActiveRuns /\ runs'[q].at = runs[q].at
                                /\ fence'[q] = fence[q]
      /\ \A q \in Runs : runs'[q] # NoRun =>
            runs'[q].at = NoProgress \/ (runs[q] # NoRun /\ runs'[q].at = runs[q].at)
      /\ since' \subseteq since
  BY <1>1, BecomesFrame DEF Run
<1>3. \A f : Present(f)' => Present(f)
  BY DEF Present
<1> QED
  BY <1>2, <1>3, Elsewhere, SoundFrame, TodoFrame DEF InventoryInv

\* What the worker may write of a run: it ends it, or settles its control.
LEMMA Written ==
    ASSUME NEW rec, Row(rec)
    PROVE  /\ Settled(rec).at = rec.at /\ (Settled(rec).state \in Active => rec.state \in Active)
           /\ Superseded(rec).at = rec.at /\ (Superseded(rec).state \in Active => rec.state \in Active)
           /\ \A state \in Phases \union {"completed", "failed"} :
                 LET new == [rec EXCEPT !.state = state]
                 IN new.at = rec.at /\ (new.state \in Active => state \in Phases)
  BY DEF Row, RunRecords, RunStates, Settled, Superseded, Active, Phases

LEMMA FailsSound ==
    ASSUME TypeInv, InventoryInv, ~At("idle"), Fails, UNCHANGED <<disk, track>>
    PROVE  InventoryInv'
<1> DEFINE rec == IF Run.state \in Phases THEN [Run EXCEPT !.state = "failed"] ELSE Settled(Run)
<1>1. Becomes(wk.run, rec) /\ wk'.pc = "idle"
  BY DEF Fails, Idle
<1>2. Row(Run)
  BY InHand
<1>3. "failed" \notin Phases
  BY DEF Phases
<1>4. Row(rec) /\ rec.at = Run.at /\ (rec.state \in Active => Run.state \in Active)
  BY <1>2, <1>3, RowLeaves, Written
<1> HIDE DEF rec
<1> QED
  BY <1>1, <1>4, LeavesSound

\* Steps that write no run, and no file.
LEMMA SameSound ==
    ASSUME TypeInv, InventoryInv, UNCHANGED <<runVars, disk, track>>
    PROVE  TodoListed' /\ SoundRuns'
<1>1. \A f : Present(f)' => Present(f)
  BY DEF Present
<1> QED
  BY <1>1, SoundFrame, TodoFrame DEF InventoryInv, runVars, ActiveRuns, InState

\* Progress of a phase: no other run is active, and the walked scopes still list what they
\* should.
LEMMA ProgressSound ==
    ASSUME TypeInv, OneActiveRun, TodoListed, ~At("idle"), wk.pc \notin Ends,
           NEW at \in Progress, Updates(wk.run, at),
           \A f \in Files : at.todo[f] # "no" => at.found[f] \in Scopes /\ f \in FilesIn[at.found[f]],
           \A s \in at.walked :
              /\ fence[wk.run][ScopeRoot[s]] # "none"
              /\ \A f \in FilesIn[s] :
                    (fence[wk.run][ScopeRoot[s]] = "current" /\ Present(f)') \/ f \in since
                        => at.found[f] = s
    PROVE  /\ TodoListed' /\ SoundRuns' /\ UNCHANGED <<fence, since>>
           /\ runs'[wk.run].at = at /\ runs'[wk.run].scopes = Run.scopes
<1>1. /\ \A q \in Runs : q # wk.run => runs'[q] = runs[q]
      /\ runs'[wk.run].at = at /\ runs'[wk.run].scopes = Run.scopes
  BY InHand, UpdatesTyped DEF Run
<1>2. UNCHANGED <<fence, since>>
  BY DEF Updates
<1>3. \A q \in ActiveRuns' : q = wk.run
  <2> SUFFICES ASSUME NEW q \in ActiveRuns', q # wk.run PROVE FALSE
    OBVIOUS
  <2>1. q \in ActiveRuns
    BY <1>1 DEF ActiveRuns, InState
  <2> QED
    BY <2>1, OnlyOurs
<1>4. SoundRuns'
  BY <1>1, <1>2, <1>3 DEF SoundRuns, Lists
<1>5. TodoListed'
  BY <1>1 DEF TodoListed
<1> QED
  BY <1>1, <1>2, <1>4, <1>5

\* What holds of the run in hand.
LEMMA Sound ==
    ASSUME TypeInv, InventoryInv, ~At("idle"), wk.pc \notin Ends
    PROVE  /\ wk.run \in ActiveRuns
           /\ \A s \in Run.at.walked : /\ s \in Scopes /\ fence[wk.run][ScopeRoot[s]] # "none"
                                       /\ Lists(wk.run, s)
           /\ \A f \in Files : Run.at.todo[f] # "no" =>
                 Run.at.found[f] \in Scopes /\ f \in FilesIn[Run.at.found[f]]
<1>1. wk.run \in Runs /\ Run # NoRun /\ Run.state \in Phases \union {"pausing", "stopping"}
  BY InHand
<1>2. wk.run \in ActiveRuns
  BY <1>1 DEF ActiveRuns, InState, Active, Run
<1> QED
  BY <1>1, <1>2, ActiveRow DEF InventoryInv, SoundRuns, TodoListed, Run

LEMMA WalkStepSound ==
    ASSUME OneScopePerRoot, TypeInv, OneActiveRun, InventoryInv,
           \/ NextScope \/ Persist \/ WalkOn \/ WalkFails \/ EndWalk \/ CompleteScope
           \/ \E f \in Files : LookAt(f)
    PROVE  InventoryInv'
<1>1. ~At("idle") /\ wk.pc \notin Ends /\ UNCHANGED <<disk, track>>
  BY DEF NextScope, Persist, WalkOn, WalkFails, EndWalk, CompleteScope, LookAt, At, worldVars, Ends
<1>2. /\ wk \in WorkerType /\ Scope \in Scopes /\ Run.scopes \in Seq(Scopes) /\ Run.at \in Progress
      /\ wk.run \in Runs
  BY <1>1, InHand
<1>3. UNCHANGED runVars => TodoListed' /\ SoundRuns' /\ Run.at = runs'[wk.run].at
                           /\ Run.scopes = runs'[wk.run].scopes
  BY <1>1, SameSound DEF runVars, Run
<1>4. \A s \in Scopes : FilesIn[s] \subseteq Files
  BY ScanAssumption DEF ScanAssumption
<1>5. CASE NextScope
  <2> DEFINE left == {i \in DOMAIN Run.scopes : Run.scopes[i] \notin Run.at.walked}
  <2>1. UNCHANGED runVars
    BY <1>5 DEF NextScope
  <2>2. CASE left = {}
    <3>1. GoesOn("reread")
      BY <1>5, <2>2 DEF NextScope
    <3> QED
      BY <1>3, <2>1, <3>1, Elsewhere DEF InventoryInv, GoesOn, Idle
  <2>3. CASE left # {}
    <3>1. First(left) \in left
      <4>1. Len(Run.scopes) \in Nat /\ left \subseteq 1 .. Len(Run.scopes)
        BY <1>2
      <4> HIDE DEF First, left
      <4> QED
        BY <2>3, <4>1, FirstIn
    <3>2. wk' = [wk EXCEPT !.pc = "walk", !.scope = First(left), !.clean = TRUE,
                            !.left = FilesIn[Run.scopes[First(left)]], !.batch = {}]
      BY <1>5, <2>3 DEF NextScope
    <3>3. Run.scopes[First(left)] \notin Run.at.walked
      BY <3>1
    <3> HIDE DEF left, First
    <3>4. /\ wk'.pc = "walk" /\ Scope' = Run.scopes[First(left)] /\ Run'.at = Run.at
          /\ wk'.left = FilesIn[Scope'] /\ wk'.batch = {}
      BY <1>2, <1>3, <2>1, <3>2 DEF WorkerType, Scope, Run
    <3>5. SoundWalk'
      BY <3>3, <3>4 DEF SoundWalk, At
    <3> QED
      BY <1>3, <2>1, <3>5 DEF InventoryInv
  <2> QED
    BY <2>2, <2>3
<1>6. CASE Persist
  <2>1. wk.pc = "walk"
    BY <1>6 DEF Persist, At
  <2>2. CASE ~wk.fresh
    BY <1>1, <1>6, <2>2, FailsSound DEF Persist
  <2>3. CASE wk.fresh
    <3>1. PICK changed : Updates(wk.run, Classified(Run.at, changed))
      BY <1>6, <2>3 DEF Persist
    <3> DEFINE at == Classified(Run.at, changed)
    <3>2. wk' = [wk EXCEPT !.pc = "persisted", !.batch = {}]
      BY <1>6, <2>3 DEF Persist
    <3>3. at \in Progress
      BY <1>2, ProgressTyped
    <3>4. /\ at.walked = Run.at.walked
          /\ \A f \in Files : /\ at.found[f] = IF f \in wk.batch THEN Scope ELSE Run.at.found[f]
                              /\ f \notin wk.batch => at.todo[f] = Run.at.todo[f]
      BY <1>2 DEF Classified, Progress
    <3> HIDE DEF at
    <3>5. wk.batch \subseteq FilesIn[Scope] /\ Scope \notin Run.at.walked
          /\ \A f \in FilesIn[Scope] \ (wk.left \union wk.batch) : Listed1(f)
      BY <2>1 DEF InventoryInv, SoundWalk
    <3>6. \A f \in Files : at.todo[f] # "no" =>
              at.found[f] \in Scopes /\ f \in FilesIn[at.found[f]]
      BY <1>1, <1>2, <3>4, <3>5, Sound
    <3>7. ASSUME NEW s \in at.walked
          PROVE  /\ fence[wk.run][ScopeRoot[s]] # "none"
                 /\ \A f \in FilesIn[s] :
                       (fence[wk.run][ScopeRoot[s]] = "current" /\ Present(f)') \/ f \in since
                           => at.found[f] = s
      <4>1. s \in Scopes /\ fence[wk.run][ScopeRoot[s]] # "none" /\ Lists(wk.run, s) /\ s # Scope
        BY <1>1, <3>4, <3>5, <3>7, Sound
      <4>2. \A f \in FilesIn[s] : f \in Files /\ f \notin wk.batch
        BY <1>2, <1>4, <3>5, <4>1, OneScope
      <4> QED
        BY <1>1, <3>4, <4>1, <4>2 DEF Lists, Present, Run
    <3>8. /\ TodoListed' /\ SoundRuns' /\ UNCHANGED <<fence, since>>
          /\ runs'[wk.run].at = at /\ runs'[wk.run].scopes = Run.scopes
      BY <1>1, <3>1, <3>3, <3>6, <3>7, ProgressSound DEF at, InventoryInv
    <3>9. /\ wk'.pc = "persisted" /\ wk'.left = wk.left /\ wk'.batch = {} /\ wk'.clean = wk.clean
          /\ Scope' = Scope /\ Run'.at = at /\ wk.left \subseteq FilesIn[Scope]
      BY <1>2, <2>1, <3>2, <3>8 DEF WorkerType, Scope, Run, InventoryInv, SoundWalk
    <3>10. \A f \in FilesIn[Scope] \ wk.left : Listed1(f)'
      BY <1>1, <1>2, <1>4, <3>4, <3>5, <3>8, <3>9 DEF Listed1, Present
    <3>11. SoundWalk'
      BY <3>4, <3>5, <3>9, <3>10 DEF SoundWalk, At
    <3> QED
      BY <3>8, <3>11 DEF InventoryInv
  <2> QED
    BY <2>2, <2>3
<1>7. CASE WalkOn
  <2>1. wk' = [wk EXCEPT !.pc = "walk"] /\ wk.pc = "persisted" /\ UNCHANGED runVars
    BY <1>7 DEF WalkOn, At, Goes
  <2>2. /\ wk'.pc = "walk" /\ wk'.left = wk.left /\ wk'.batch = wk.batch /\ wk'.clean = wk.clean
        /\ Scope' = Scope /\ Run' = Run /\ since' = since
    BY <1>2, <2>1 DEF WorkerType, Scope, Run, runVars
  <2>3. SoundWalk'
    BY <1>1, <2>1, <2>2 DEF InventoryInv, SoundWalk, At, Listed1, Present
  <2> QED
    BY <1>3, <2>1, <2>3 DEF InventoryInv
<1>8. CASE WalkFails
  BY <1>3, <1>8, Elsewhere DEF WalkFails, InventoryInv, GoesOn, Idle
<1>9. CASE EndWalk
  <2>1. wk.pc = "walk" /\ wk.left = {} /\ wk.batch = {}
    BY <1>9 DEF EndWalk, At
  <2>2. Scope \notin Run.at.walked /\ \A f \in FilesIn[Scope] : Listed1(f)
    BY <2>1 DEF InventoryInv, SoundWalk
  <2>3. CASE wk.clean
    <3>1. /\ fence' = [fence EXCEPT ![wk.run][ScopeRoot[Scope]] = "current"]
          /\ wk' = [wk EXCEPT !.pc = "walked"] /\ UNCHANGED <<runs, since>>
      BY <1>9, <2>3 DEF EndWalk, RecordFence, Goes
    <3>2. /\ wk'.pc = "walked" /\ wk'.run = wk.run /\ Scope' = Scope /\ Run' = Run
          /\ ActiveRuns' = ActiveRuns
      BY <1>2, <3>1 DEF WorkerType, Scope, Run, ActiveRuns, InState
    <3>3. /\ fence'[wk.run][ScopeRoot[Scope]] = "current"
          /\ \A root \in Roots : root # ScopeRoot[Scope] => fence'[wk.run][root] = fence[wk.run][root]
      <4>1. fence \in [Runs -> [Roots -> {"none", "current", "passed"}]] /\ ScopeRoot[Scope] \in Roots
        BY <1>2, TypeParts, ScanAssumption DEF ScanAssumption, RunsTyped
      <4> QED
        BY <1>2, <3>1, <4>1
    <3>4. SoundRuns'
      <4> SUFFICES ASSUME NEW s \in Run.at.walked
                   PROVE  fence'[wk.run][ScopeRoot[s]] # "none" /\ Lists(wk.run, s)'
        BY <1>1, <3>1, <3>2, OnlyOurs DEF SoundRuns, Run
      <4>1. s \in Scopes /\ fence[wk.run][ScopeRoot[s]] # "none" /\ Lists(wk.run, s) /\ s # Scope
        BY <1>1, <2>2, Sound
      <4>2. ScopeRoot[s] # ScopeRoot[Scope] /\ ScopeRoot[s] \in Roots
        BY <1>2, <4>1, ScanAssumption DEF OneScopePerRoot, ScanAssumption
      <4>3. fence'[wk.run][ScopeRoot[s]] = fence[wk.run][ScopeRoot[s]]
        BY <3>3, <4>2
      <4> QED
        BY <1>1, <3>1, <4>1, <4>3 DEF Lists, Present
    <3>5. SoundWalk'
      <4>1. Lists(wk.run, Scope)'
        BY <1>1, <2>2, <2>3, <3>1, <3>2 DEF Lists, Listed1, Present, Run
      <4> QED
        BY <2>2, <3>2, <3>3, <4>1 DEF SoundWalk, At
    <3>6. TodoListed'
      BY <3>1 DEF InventoryInv, TodoListed
    <3> QED
      BY <3>4, <3>5, <3>6 DEF InventoryInv
  <2>4. CASE ~wk.clean
    <3> DEFINE at == NewGeneration(Run.at, {Scope})
    <3>1. Updates(wk.run, at) /\ wk' = [wk EXCEPT !.left = FilesIn[Scope], !.clean = TRUE, !.fresh = TRUE]
      BY <1>9, <2>4 DEF EndWalk, Rewalk
    <3>2. at \in Progress
      BY <1>2, ProgressTyped
    <3>3. /\ at.walked = Run.at.walked
          /\ \A f \in Files : Run.at.found[f] # Scope =>
                at.found[f] = Run.at.found[f] /\ at.todo[f] = Run.at.todo[f]
          /\ \A f \in Files : Run.at.found[f] = Scope => at.todo[f] = "no"
      BY <1>2 DEF NewGeneration, Progress
    <3> HIDE DEF at
    <3>4. \A f \in Files : at.todo[f] # "no" =>
              at.found[f] \in Scopes /\ f \in FilesIn[at.found[f]]
      BY <1>1, <3>3, Sound
    <3>5. ASSUME NEW s \in at.walked
          PROVE  /\ fence[wk.run][ScopeRoot[s]] # "none"
                 /\ \A f \in FilesIn[s] :
                       (fence[wk.run][ScopeRoot[s]] = "current" /\ Present(f)') \/ f \in since
                           => at.found[f] = s
      <4>1. s \in Scopes /\ fence[wk.run][ScopeRoot[s]] # "none" /\ Lists(wk.run, s) /\ s # Scope
        BY <1>1, <2>2, <3>3, <3>5, Sound
      <4> QED
        BY <1>1, <1>4, <3>3, <4>1 DEF Lists, Present, Run
    <3>6. /\ TodoListed' /\ SoundRuns' /\ UNCHANGED <<fence, since>>
          /\ runs'[wk.run].at = at /\ runs'[wk.run].scopes = Run.scopes
      BY <1>1, <3>1, <3>2, <3>4, <3>5, ProgressSound DEF InventoryInv
    <3>7. /\ wk'.pc = "walk" /\ wk'.left = FilesIn[Scope] /\ wk'.batch = {}
          /\ Scope' = Scope /\ Run'.at = at
      BY <1>2, <2>1, <3>1, <3>6 DEF WorkerType, Scope, Run
    <3>8. SoundWalk'
      BY <2>2, <3>3, <3>7 DEF SoundWalk, At
    <3> QED
      BY <3>6, <3>8 DEF InventoryInv
  <2> QED
    BY <2>3, <2>4
<1>10. CASE CompleteScope
  <2> DEFINE at == [Run.at EXCEPT !.walked = @ \union {Scope}]
  <2>1. /\ wk.pc = "walked" /\ wk' = [wk EXCEPT !.pc = "scope", !.scope = 1]
        /\ Updates(wk.run, at)
    BY <1>10 DEF CompleteScope, At
  <2>2. at \in Progress
    BY <1>2, ProgressTyped
  <2>3. at.walked = Run.at.walked \union {Scope} /\ at.found = Run.at.found /\ at.todo = Run.at.todo
    BY <1>2 DEF Progress
  <2> HIDE DEF at
  <2>4. fence[wk.run][ScopeRoot[Scope]] # "none" /\ Lists(wk.run, Scope)
    BY <2>1 DEF InventoryInv, SoundWalk, At
  <2>5. \A s \in at.walked : fence[wk.run][ScopeRoot[s]] # "none" /\ Lists(wk.run, s)
    BY <1>1, <2>3, <2>4, Sound
  <2>6. TodoListed' /\ SoundRuns'
    <3>1. \A f \in Files : at.todo[f] # "no" => at.found[f] \in Scopes /\ f \in FilesIn[at.found[f]]
      BY <1>1, <2>3, Sound
    <3>2. \A s \in at.walked :
              /\ fence[wk.run][ScopeRoot[s]] # "none"
              /\ \A f \in FilesIn[s] :
                    (fence[wk.run][ScopeRoot[s]] = "current" /\ Present(f)') \/ f \in since
                        => at.found[f] = s
      BY <1>1, <2>3, <2>5 DEF Lists, Present, Run
    <3> QED
      BY <1>1, <2>1, <2>2, <3>1, <3>2, ProgressSound DEF InventoryInv
  <2>7. wk'.pc = "scope"
    BY <1>2, <2>1 DEF WorkerType
  <2> QED
    BY <2>6, <2>7, Elsewhere DEF InventoryInv
<1>11. ASSUME NEW f \in Files, LookAt(f)
       PROVE  InventoryInv'
  <2>1. /\ wk' = [wk EXCEPT !.left = @ \ {f}, !.batch = @ \union ({f} \intersect disk)]
        /\ wk.pc = "walk" /\ UNCHANGED runVars /\ f \in wk.left
    BY <1>11 DEF LookAt, At
  <2>2. /\ wk'.pc = "walk" /\ wk'.left = wk.left \ {f} /\ wk'.clean = wk.clean
        /\ wk'.batch = wk.batch \union ({f} \intersect disk)
        /\ Scope' = Scope /\ Run' = Run /\ since' = since
    BY <1>2, <2>1 DEF WorkerType, Scope, Run, runVars
  <2>3. f \notin disk => Listed1(f)
    BY TypeParts DEF Listed1, Present
  <2>4. SoundWalk'
    BY <1>1, <2>1, <2>2, <2>3 DEF InventoryInv, SoundWalk, At, Listed1, Present
  <2> QED
    BY <1>3, <2>1, <2>4 DEF InventoryInv
<1> QED
  BY <1>5, <1>6, <1>7, <1>8, <1>9, <1>10, <1>11

LEMMA IndexStepSound ==
    ASSUME OneScopePerRoot, TypeInv, OneActiveRun, InventoryInv,
           \/ StartIndex \/ CommitIndex \/ EndIndex \/ ReconcileRow \/ ReconcileNext
           \/ \E f \in Files : ReadTags(f)
    PROVE  InventoryInv'
<1>1. ~At("idle") /\ wk.pc \notin Ends /\ UNCHANGED disk
  BY DEF StartIndex, CommitIndex, EndIndex, ReconcileRow, ReconcileNext, ReadTags, At, worldVars, Ends
<1>2. /\ wk \in WorkerType /\ Scope \in Scopes /\ Run.at \in Progress /\ wk.run \in Runs
      /\ track \in [Files -> {"none", "indexed", "missing"}]
  BY <1>1, InHand, TypeParts
<1>3. UNCHANGED <<runVars, track>> => TodoListed' /\ SoundRuns'
  BY <1>1, SameSound
<1>4. \A s \in Scopes : FilesIn[s] \subseteq Files
  BY ScanAssumption DEF ScanAssumption
<1>5. ASSUME NEW g \in Files, Done(g),
             \A s \in Run.at.walked : \A f \in FilesIn[s] :
                 fence[wk.run][ScopeRoot[s]] = "current" /\ Present(f)' =>
                     Present(f) \/ Run.at.found[f] = s
      PROVE  TodoListed' /\ SoundRuns'
  <2> DEFINE at == [Run.at EXCEPT !.todo[g] = "no"]
  <2>1. Updates(wk.run, at) /\ at \in Progress
    BY <1>2, <1>5, ProgressTyped DEF Done
  <2>2. /\ at.walked = Run.at.walked /\ at.found = Run.at.found
        /\ \A f \in Files : at.todo[f] = "no" \/ at.todo[f] = Run.at.todo[f]
    BY <1>2 DEF Progress
  <2> HIDE DEF at
  <2>3. \A f \in Files : at.todo[f] # "no" => at.found[f] \in Scopes /\ f \in FilesIn[at.found[f]]
    BY <1>1, <2>2, Sound
  <2>4. \A s \in at.walked :
            /\ fence[wk.run][ScopeRoot[s]] # "none"
            /\ \A f \in FilesIn[s] :
                  (fence[wk.run][ScopeRoot[s]] = "current" /\ Present(f)') \/ f \in since
                      => at.found[f] = s
    BY <1>1, <1>5, <2>2, Sound DEF Lists, Run
  <2> QED
    BY <1>1, <2>1, <2>3, <2>4, ProgressSound DEF InventoryInv
<1>6. CASE StartIndex
  BY <1>1, <1>2, <1>3, <1>6, Elsewhere DEF StartIndex, Goes, WorkerType, InventoryInv, worldVars
<1>7. CASE EndIndex
  BY <1>1, <1>2, <1>3, <1>7, Elsewhere DEF EndIndex, Goes, WorkerType, InventoryInv, worldVars
<1>8. CASE ReconcileNext
  <2>1. wk'.pc \in {"reconcile", "reread"}
    BY <1>2, <1>8 DEF ReconcileNext, WorkerType, At
  <2> QED
    BY <1>3, <1>8, <2>1, Elsewhere DEF ReconcileNext, InventoryInv, worldVars
<1>9. CASE CommitIndex
  <2>1. CASE Fails /\ UNCHANGED track
    BY <1>1, <2>1, FailsSound
  <2>2. CASE /\ Done(wk.file) /\ wk' = [wk EXCEPT !.pc = "index", !.file = NoFile]
             /\ track' = [track EXCEPT ![wk.file] = "indexed"]
    <3>1. wk.file \in Files /\ Run.at.todo[wk.file] # "no"
      BY <1>9 DEF CommitIndex, InventoryInv, SoundWalk
    <3>2. Run.at.found[wk.file] \in Scopes /\ wk.file \in FilesIn[Run.at.found[wk.file]]
      BY <1>1, <3>1, Sound
    <3>3. ASSUME NEW s \in Run.at.walked, NEW f \in FilesIn[s], Present(f)'
          PROVE  Present(f) \/ Run.at.found[f] = s
      <4>1. s \in Scopes
        BY <1>1, Sound
      <4>2. CASE f = wk.file
        BY <3>2, <4>1, <4>2, OneScope
      <4>3. CASE f # wk.file
        BY <1>1, <1>2, <1>4, <2>2, <3>3, <4>1, <4>3 DEF Present
      <4> QED
        BY <4>2, <4>3
    <3>4. TodoListed' /\ SoundRuns'
      BY <1>5, <2>2, <3>1, <3>3
    <3>5. wk'.pc = "index"
      BY <1>2, <2>2 DEF WorkerType
    <3> QED
      BY <3>4, <3>5, Elsewhere DEF InventoryInv
  <2> QED
    BY <1>9, <2>1, <2>2 DEF CommitIndex
<1>10. CASE ReconcileRow
  <2> DEFINE g == First(Candidates)
             at == [Run.at EXCEPT !.cursor[Scope] = g]
  <2>1. g \in Candidates
    <3>1. Candidates \subseteq 1 .. FileCount
      BY <1>1, <1>2, <1>4, Numbers DEF Candidates
    <3> HIDE DEF First
    <3> QED
      BY <1>10, <3>1, Numbers, FirstIn DEF ReconcileRow
  <2>2. /\ track' = [track EXCEPT ![g] = IF Listed(g) THEN "indexed"
                                         ELSE IF MayMiss(RootOf[g]) THEN "missing" ELSE @]
        /\ Updates(wk.run, at) /\ wk' = wk /\ wk.pc = "reconcile"
    BY <1>10 DEF ReconcileRow, At
  <2> HIDE DEF g
  <2>3. g \in FilesIn[Scope] /\ g \in Files
    BY <1>2, <1>4, <2>1 DEF Candidates
  <2>4. at \in Progress
    BY <1>2, <2>3, ProgressTyped
  <2>5. at.walked = Run.at.walked /\ at.found = Run.at.found /\ at.todo = Run.at.todo
    BY <1>2 DEF Progress
  <2>6. ASSUME NEW s \in Run.at.walked, NEW f \in FilesIn[s], Present(f)'
        PROVE  Present(f) \/ Run.at.found[f] = s
    <3>1. s \in Scopes /\ f \in Files
      BY <1>1, <1>4, Sound
    <3>2. CASE f = g
      <4>1. s = Scope
        BY <1>2, <2>3, <3>1, <3>2, OneScope
      <4>2. CASE Listed(g)
        BY <3>2, <4>1, <4>2 DEF Listed
      <4>3. CASE ~Listed(g)
        BY <1>1, <1>2, <2>2, <2>3, <2>6, <3>2, <4>3 DEF Present
      <4> QED
        BY <4>2, <4>3
    <3>3. CASE f # g
      BY <1>1, <1>2, <2>2, <2>6, <3>1, <3>3 DEF Present
    <3> QED
      BY <3>2, <3>3
  <2> HIDE DEF at
  <2>7. \A s \in at.walked :
            /\ fence[wk.run][ScopeRoot[s]] # "none"
            /\ \A f \in FilesIn[s] :
                  (fence[wk.run][ScopeRoot[s]] = "current" /\ Present(f)') \/ f \in since
                      => at.found[f] = s
    BY <1>1, <2>5, <2>6, Sound DEF Lists, Run
  <2>8. \A f \in Files : at.todo[f] # "no" => at.found[f] \in Scopes /\ f \in FilesIn[at.found[f]]
    BY <1>1, <2>5, Sound
  <2>9. TodoListed' /\ SoundRuns'
    BY <1>1, <2>2, <2>4, <2>7, <2>8, ProgressSound DEF InventoryInv
  <2> QED
    BY <2>2, <2>9, Elsewhere DEF InventoryInv
<1>11. ASSUME NEW f \in Files, ReadTags(f)
       PROVE  InventoryInv'
  <2>1. wk.pc = "index" /\ Run.at.todo[f] # "no" /\ UNCHANGED track
    BY <1>11 DEF ReadTags, At, worldVars
  <2>2. CASE wk' = [wk EXCEPT !.pc = "commit", !.file = f] /\ UNCHANGED runVars
    <3>1. wk'.pc = "commit" /\ wk'.file = f /\ Run' = Run
      BY <1>2, <2>2 DEF WorkerType, Run, runVars
    <3>2. SoundWalk'
      BY <2>1, <3>1 DEF SoundWalk, At
    <3> QED
      BY <1>3, <2>1, <2>2, <3>2 DEF InventoryInv
  <2>3. CASE Done(f) /\ UNCHANGED wk
    BY <1>1, <1>5, <2>1, <2>3, Elsewhere DEF InventoryInv, Present
  <2> QED
    BY <1>11, <2>2, <2>3 DEF ReadTags
<1> QED
  BY <1>6, <1>7, <1>8, <1>9, <1>10, <1>11

LEMMA PhaseStepSound ==
    ASSUME TypeInv, WorkerOK, InventoryInv, Unwind \/ Reread \/ Leave \/ Advance \/ Refuse
    PROVE  InventoryInv'
<1>1. ~At("idle") /\ UNCHANGED <<disk, track>>
  BY DEF Unwind, Reread, Leave, Advance, Refuse, At, worldVars
<1>2. wk \in WorkerType /\ Row(Run) /\ wk.phase \in Phases
  BY <1>1, InHand
<1>3. /\ Row(Settled(Run)) /\ Row(Superseded(Run))
      /\ \A state \in Phases \union {"completed", "failed"} : Row([Run EXCEPT !.state = state])
  BY <1>2, RowLeaves
<1>4. /\ Settled(Run).at = Run.at /\ (Settled(Run).state \in Active => Run.state \in Active)
      /\ Superseded(Run).at = Run.at /\ (Superseded(Run).state \in Active => Run.state \in Active)
      /\ \A state \in Phases \union {"completed", "failed"} :
            LET new == [Run EXCEPT !.state = state]
            IN new.at = Run.at /\ (new.state \in Active => state \in Phases)
  BY <1>2, Written
<1>5. UNCHANGED runVars => TodoListed' /\ SoundRuns'
  BY <1>1, SameSound
<1>6. Idle.pc = "idle" /\ \A pc : GoesOn(pc) => wk'.pc = pc
  BY DEF Idle, GoesOn
<1>7. CASE Unwind
  <2>1. CASE Run.state = "discovering"
    <3>1. Becomes(wk.run, [Run EXCEPT !.state = "failed"]) /\ wk' = Idle
      BY <1>7, <2>1 DEF Unwind
    <3>2. LET new == [Run EXCEPT !.state = "failed"]
          IN Row(new) /\ new.at = Run.at /\ (new.state \in Active => Run.state \in Active)
      BY <1>3, <1>4, <2>1 DEF Active, Phases
    <3> QED
      BY <1>1, <1>6, <3>1, <3>2, LeavesSound
  <2>2. CASE Run.state # "discovering"
    BY <1>1, <1>3, <1>4, <1>6, <1>7, <2>2, LeavesSound DEF Unwind
  <2> QED
    BY <2>1, <2>2
<1>8. CASE Reread
  <2>1. CASE Run.state = wk.phase
    <3>1. wk'.pc \in {"advance", "leave"} /\ UNCHANGED runVars
      BY <1>2, <1>8, <2>1 DEF Reread, Fresh, WorkerType
    <3> QED
      BY <1>5, <3>1, Elsewhere DEF InventoryInv
  <2>2. CASE Run.state # wk.phase
    BY <1>1, <1>3, <1>4, <1>6, <1>8, <2>2, LeavesSound DEF Reread
  <2> QED
    BY <2>1, <2>2
<1>9. CASE Leave
  BY <1>2, <1>5, <1>9, Elsewhere DEF Leave, Goes, WorkerType, InventoryInv
<1>10. CASE Advance
  <2>1. CASE ~wk.fresh
    BY <1>1, <1>10, <2>1, FailsSound DEF Advance
  <2>2. CASE wk.fresh
    <3>1. Run.state \in Active
      BY <1>2, <1>10, <2>2, PlainRuns DEF Advance, At, WorkerOK
    <3>2. PICK state \in Phases \union {"completed", "failed"} :
              Becomes(wk.run, [Run EXCEPT !.state = state]) /\ wk'.pc \in {"indexStart", "reconcile", "idle"}
      BY <1>2, <1>6, <1>10, <2>2 DEF Advance, Phases, WorkerType
    <3>3. LET new == [Run EXCEPT !.state = state]
          IN Row(new) /\ new.at = Run.at /\ (new.state \in Active => Run.state \in Active)
      BY <1>3, <1>4, <3>1
    <3> QED
      BY <1>1, <3>2, <3>3, LeavesSound
  <2>3. wk.fresh \in BOOLEAN
    BY <1>2 DEF WorkerType
  <2> QED
    BY <2>1, <2>2, <2>3
<1>11. CASE Refuse
  <2> DEFINE rec == IF Run.policy # policy THEN Superseded(Run) ELSE Settled(Run)
  <2>1. Becomes(wk.run, rec) /\ (GoesOn("unwind") \/ wk' = Idle \/ GoesOn("reread"))
    BY <1>11 DEF Refuse
  <2>2. wk'.pc \in {"unwind", "idle", "reread"}
    BY <1>6, <2>1
  <2>3. Row(rec) /\ rec.at = Run.at /\ (rec.state \in Active => Run.state \in Active)
    BY <1>3, <1>4
  <2> HIDE DEF rec
  <2> QED
    BY <1>1, <2>1, <2>2, <2>3, LeavesSound
<1> QED
  BY <1>7, <1>8, <1>9, <1>10, <1>11

\* A claimed run has walked nothing; a resumed one keeps what it has walked, and its
\* inventory of that.
LEMMA RunOnceSound ==
    ASSUME TypeInv, InventoryInv, RunOnce
    PROVE  InventoryInv'
<1>1. UNCHANGED <<fence, disk, track>> /\ RunsTyped
  BY TypeParts DEF RunOnce, worldVars
<1>2. ASSUME NEW q \in Runs, runs[q] # NoRun, NEW state \in Phases, Take(q, state),
             \A r \in ActiveRuns' : r # q => since' = since,
             \/ q \in ActiveRuns /\ since' = since
             \/ runs[q].at.walked = {}
      PROVE  InventoryInv'
  <2>1. Row(runs[q]) /\ runs[q] \in RunRecords /\ runs[q].at \in Progress
    BY <1>1, <1>2, HasScope DEF RunsTyped, RowsOK, Row
  <2> DEFINE unfinished == Members(runs[q].scopes) \ runs[q].at.walked
             at == IF state = "discovering" THEN NewGeneration(runs[q].at, unfinished) ELSE runs[q].at
  <2>2. runs' = [runs EXCEPT ![q] = [[runs[q] EXCEPT !.state = state] EXCEPT !.at = at]]
    BY <1>2 DEF Take
  <2>3. runs'[q].at = at /\ \A r \in Runs : r # q => runs'[r] = runs[r]
    BY <1>1, <2>1, <2>2 DEF RunsTyped, RunRecords
  <2>4. /\ at.walked = runs[q].at.walked
        /\ \A f \in Files :
              /\ runs[q].at.found[f] \in unfinished => at.todo[f] = "no" \/ at = runs[q].at
              /\ runs[q].at.found[f] \notin unfinished =>
                    at.found[f] = runs[q].at.found[f] /\ at.todo[f] = runs[q].at.todo[f]
    BY <2>1 DEF NewGeneration, Progress
  <2>5. \A s \in at.walked : s \notin unfinished /\ s \in Scopes
    BY <2>1, <2>4 DEF Progress
  <2> HIDE DEF at, unfinished
  <2>6. TodoListed'
    BY <1>2, <2>3, <2>4 DEF TodoListed, InventoryInv
  <2>7. \A s \in Scopes : FilesIn[s] \subseteq Files
    BY ScanAssumption DEF ScanAssumption
  <2>8. SoundRuns'
    <3> SUFFICES ASSUME NEW r \in ActiveRuns', NEW s \in runs'[r].at.walked
                 PROVE  fence'[r][ScopeRoot[s]] # "none" /\ Lists(r, s)'
      BY DEF SoundRuns
    <3>1. CASE r # q
      <4>1. r \in ActiveRuns /\ runs'[r] = runs[r] /\ since' = since
        BY <1>2, <2>3, <3>1 DEF ActiveRuns, InState
      <4> QED
        BY <1>1, <4>1 DEF InventoryInv, SoundRuns, Lists, Present
    <3>2. CASE r = q
      <4>1. q \in ActiveRuns /\ since' = since /\ s \in runs[q].at.walked /\ s \in Scopes
        BY <1>2, <2>3, <2>4, <2>5, <3>2
      <4>2. fence[q][ScopeRoot[s]] # "none" /\ Lists(q, s)
        BY <4>1 DEF InventoryInv, SoundRuns
      <4>3. \A f \in FilesIn[s] : runs[q].at.found[f] = s => at.found[f] = s
        BY <2>3, <2>4, <2>5, <2>7, <3>2, <4>1
      <4> QED
        BY <1>1, <2>3, <3>2, <4>1, <4>2, <4>3 DEF Lists, Present
    <3> QED
      BY <3>1, <3>2
  <2>9. wk'.pc \in {"scope", "indexStart", "reconcile"}
    BY <1>2 DEF Take, Idle
  <2> QED
    BY <2>6, <2>8, <2>9, Elsewhere DEF InventoryInv
<1>3. CASE Resumable # {}
  <2> DEFINE q == First(Resumable)
  <2>1. q \in Resumable
    BY <1>3, PlainRuns, FirstRun
  <2>2. Take(q, runs[q].state) /\ since' = since
    BY <1>3 DEF RunOnce
  <2> HIDE DEF q
  <2>3. q \in Runs /\ runs[q] # NoRun /\ runs[q].state \in Phases /\ q \in ActiveRuns
    BY <2>1 DEF Resumable, ActiveRuns, InState
  <2> QED
    BY <1>2, <2>2, <2>3
<1>4. CASE Resumable = {}
  <2> DEFINE q == First(Queued)
  <2>1. Queued # {} /\ ActiveRuns = {} /\ Take(q, "discovering")
    BY <1>4 DEF RunOnce
  <2>2. q \in Queued
    BY <2>1, PlainRuns, FirstRun
  <2> HIDE DEF q
  <2>3. q \in Runs /\ runs[q] # NoRun /\ runs[q].state = "queued" /\ "discovering" \in Phases
    BY <2>2 DEF Queued, InState, Phases
  <2>4. runs[q].at.walked = {}
    BY <1>1, <2>3 DEF RunsTyped, RowsOK, Row
  <2>5. \A r \in ActiveRuns' : r = q
    <3> SUFFICES ASSUME NEW r \in ActiveRuns', r # q PROVE FALSE
      OBVIOUS
    <3>1. runs'[r] = runs[r]
      BY <1>1, <2>1 DEF Take, RunsTyped, ActiveRuns, InState
    <3>2. r \in ActiveRuns
      BY <3>1 DEF ActiveRuns, InState
    <3> QED
      BY <2>1, <3>2
  <2> QED
    BY <1>2, <2>1, <2>3, <2>4, <2>5
<1> QED
  BY <1>3, <1>4

\* The revisions of the publication's roots fall behind: of the files of the other roots,
\* none has come up.
LEMMA ReleaseSound ==
    ASSUME TypeInv, InventoryInv, Release, UNCHANGED runs, since' \subseteq since,
           \A f \in Files : f \notin {pub.from, pub.to} => (Present(f)' => Present(f))
    PROVE  InventoryInv'
<1>1. fence \in [Runs -> [Roots -> {"none", "current", "passed"}]] /\ wk \in WorkerType
  BY TypeParts DEF RunsTyped, WorkerTyped
<1>2. \A r \in Runs : \A root \in Roots :
          /\ fence[r][root] # "none" => fence'[r][root] # "none"
          /\ fence'[r][root] = "current" => fence[r][root] = "current" /\ root \notin PubRoots
  BY <1>1 DEF Release
<1>3. \A s \in Scopes : ScopeRoot[s] \in Roots /\ FilesIn[s] \subseteq Files
  BY ScanAssumption DEF ScanAssumption
<1>4. ASSUME NEW s \in Scopes, ScopeRoot[s] \notin PubRoots, NEW f \in FilesIn[s], Present(f)'
      PROVE  Present(f)
  <2>1. RootOf[f] = ScopeRoot[s] /\ f \in Files /\ f # NoFile
    BY <1>3, ScanAssumption, Numbers DEF ScanAssumption, NoFile
  <2> QED
    BY <1>4, <2>1 DEF PubRoots
<1>5. ActiveRuns' = ActiveRuns
  BY DEF ActiveRuns, InState
<1>6. ASSUME NEW r \in Runs, NEW s \in Scopes, fence[r][ScopeRoot[s]] # "none", Lists(r, s)
      PROVE  fence'[r][ScopeRoot[s]] # "none" /\ Lists(r, s)'
  BY <1>2, <1>3, <1>4, <1>6 DEF Lists
<1>7. SoundRuns'
  <2> SUFFICES ASSUME NEW r \in ActiveRuns, NEW s \in runs[r].at.walked
               PROVE  fence'[r][ScopeRoot[s]] # "none" /\ Lists(r, s)'
    BY <1>5 DEF SoundRuns
  <2>1. r \in Runs /\ s \in Scopes
    BY ActiveRow
  <2> QED
    BY <1>6, <2>1 DEF InventoryInv, SoundRuns
<1>8. TodoListed'
  BY DEF InventoryInv, TodoListed
<1>9. SoundWalk'
  <2>1. /\ wk'.pc = wk.pc /\ wk'.run = wk.run /\ wk'.scope = wk.scope /\ wk'.left = wk.left
        /\ wk'.batch = wk.batch /\ wk'.file = wk.file /\ Run' = Run /\ Scope' = Scope
    BY <1>1 DEF Release, WorkerType, Run, Scope
  <2>2. wk.pc \in {"walk", "persisted"} /\ wk'.clean => wk.clean /\ ScopeRoot[Scope] \notin PubRoots
    BY <1>1 DEF Release, WorkerType
  <2>3. CASE wk.pc \in {"walk", "persisted", "walked"}
    <3>1. Scope \in Scopes /\ wk.run \in Runs
      BY <2>3, InHand DEF At
    <3>2. wk.pc \in {"walk", "persisted"} => \A f \in FilesIn[Scope] : Listed1(f) => Listed1(f)'
      <4> SUFFICES ASSUME wk.pc \in {"walk", "persisted"}, NEW f \in FilesIn[Scope], Listed1(f)
                   PROVE  Listed1(f)'
        OBVIOUS
      <4>1. wk'.clean /\ Present(f)' => wk.clean /\ Present(f)
        BY <1>4, <2>2, <3>1
      <4> QED
        <5>1. (wk'.clean /\ Present(f)') \/ f \in since' => (wk.clean /\ Present(f)) \/ f \in since
          BY <4>1
        <5>2. Run'.at.found[f] = Run.at.found[f] /\ Scope' = Scope
          BY <2>1
        <5> QED
          BY <5>1, <5>2 DEF Listed1
    <3>3. At("walked") =>
              /\ fence'[wk.run][ScopeRoot[Scope]] # "none"
              /\ \A f \in FilesIn[Scope] :
                    (fence'[wk.run][ScopeRoot[Scope]] = "current" /\ Present(f)') \/ f \in since'
                        => Run.at.found[f] = Scope
      <4> DEFINE r == wk.run
                 s == Scope
      <4>1. SUFFICES ASSUME At("walked")
                     PROVE  /\ fence'[r][ScopeRoot[s]] # "none"
                            /\ \A f \in FilesIn[s] :
                                  (fence'[r][ScopeRoot[s]] = "current" /\ Present(f)') \/ f \in since'
                                      => runs[r].at.found[f] = s
        BY DEF Run
      <4>2. fence[r][ScopeRoot[s]] # "none" /\ Lists(r, s) /\ r \in Runs /\ s \in Scopes
        BY <3>1, <4>1 DEF InventoryInv, SoundWalk
      <4> HIDE DEF r, s
      <4> QED
        BY <1>2, <1>3, <1>4, <4>2 DEF Lists
    <3> QED
      BY <2>1, <2>3, <3>2, <3>3 DEF InventoryInv, SoundWalk, At, Lists, Run
  <2>4. CASE wk.pc \notin {"walk", "persisted", "walked"}
    BY <2>1, <2>4 DEF InventoryInv, SoundWalk, At
  <2> QED
    BY <2>3, <2>4
<1> QED
  BY <1>7, <1>8, <1>9 DEF InventoryInv

\* What the publisher, other programs and a restart do to the files and the inventories.
LEMMA WorldStepSound ==
    ASSUME NoneRevived, "restartAfterWalk" \notin Admits,
           TypeInv, RunsOK, WorkerOK, InventoryInv, WorldStep
    PROVE  InventoryInv'
<1> /\ RunsTyped /\ wk \in WorkerType /\ since \subseteq disk
    /\ track \in [Files -> {"none", "indexed", "missing"}]
  BY TypeParts DEF WorkerTyped
<1>1. ASSUME UNCHANGED <<runs, fence, wk>>, since' \subseteq since,
             \A f \in Files : Present(f)' => Present(f)
      PROVE  InventoryInv'
  <2>1. \A r \in ActiveRuns' : r \in ActiveRuns /\ runs'[r].at = runs[r].at /\ fence'[r] = fence[r]
    BY <1>1 DEF ActiveRuns, InState
  <2> QED
    BY <1>1, <2>1, SoundFrame, WalkFrame, TodoFrame DEF InventoryInv, Run
<1>2. ASSUME NEW f \in Files \union {NoFile}, NEW g \in Files, Place(f, g)
      PROVE  InventoryInv'
  <2>1. disk' \subseteq disk \union {g} /\ track' = track /\ track[g] # "indexed" /\ since' \subseteq since
    BY <1>2 DEF Place
  <2>2. \A h \in Files : Present(h)' => Present(h)
    BY <2>1 DEF Present
  <2> QED
    BY <1>1, <1>2, <2>1, <2>2 DEF Place
<1>3. ASSUME NEW f \in Files, RemoveFile(f) \/ AddFile(f)
      PROVE  InventoryInv'
  <2>1. /\ disk' \subseteq disk \/ (disk' = disk \union {f} /\ track[f] # "indexed")
        /\ track' = track /\ since' \subseteq since /\ UNCHANGED <<runs, fence, wk>>
    BY <1>3 DEF RemoveFile, AddFile
  <2>2. \A h \in Files : Present(h)' => Present(h)
    BY <2>1 DEF Present
  <2> QED
    BY <1>1, <2>1, <2>2
<1>4. CASE ChangePolicy
  BY <1>1, <1>4 DEF ChangePolicy, Present
<1>5. CASE Commit
  <2>1. \A f \in Files : f \notin {pub.from, pub.to} => (Present(f)' => Present(f))
    BY <1>5 DEF Commit, Present
  <2> QED
    BY <1>5, <2>1, ReleaseSound DEF Commit
<1>6. CASE Rollback
  <2>1. \A f \in Files : f \notin {pub.from, pub.to} => (Present(f)' => Present(f))
    BY <1>6 DEF Rollback, Present, Restored
  <2> QED
    BY <1>6, <2>1, ReleaseSound DEF Rollback
<1>7. CASE Restart
  <2>1. \A r \in ActiveRuns : runs[r].at.walked = {}
    BY <1>7 DEF Restart
  <2>2. NoneActivated
    BY <1>7, WorldStepKeeps DEF Kept
  <2>3. \A r \in Runs : /\ runs'[r] = Recovered(runs[r])
                        /\ runs[r] = NoRun => Recovered(runs[r]) = NoRun
    BY <1>7 DEF Restart, Recovered
  <2>4. ASSUME NEW r \in Runs, runs[r] # NoRun
        PROVE  runs'[r].at = NoProgress \/ runs'[r].at = runs[r].at
    <3>1. runs[r] \in RunRecords
      BY <2>4 DEF RunsTyped
    <3> QED
      BY <2>3, <2>4, <3>1 DEF Recovered, RunRecords
  <2>5. SoundRuns'
    <3>1. \A r \in ActiveRuns' : r \in ActiveRuns /\ r \in Runs /\ runs[r] # NoRun
      BY <2>2 DEF NoneActivated, ActiveRuns, InState
    <3>2. \A r \in ActiveRuns' : runs'[r].at.walked = {}
      BY <2>1, <2>4, <3>1, Numbers
    <3> QED
      BY <3>2 DEF SoundRuns
  <2>6. TodoListed'
    BY <2>3, <2>4, TodoFrame DEF InventoryInv
  <2>7. wk'.pc = "idle"
    BY <1>7 DEF Restart, Idle
  <2> QED
    BY <2>5, <2>6, <2>7, Elsewhere DEF InventoryInv
<1> QED
  BY <1>2, <1>3, <1>4, <1>5, <1>6, <1>7 DEF WorldStep

LEMMA InventoryInit == Init => InventoryInv
  BY DEF Init, InventoryInv, TodoListed, SoundRuns, SoundWalk, ActiveRuns, InState, At, Idle

LEMMA InventoryStep ==
    ASSUME NoneRevived, "restartAfterWalk" \notin Admits, OneScopePerRoot,
           TypeInv, ScanInv, InventoryInv, [Next]_vars
    PROVE  InventoryInv'
<1> RunsOK /\ WorkerOK /\ OneActiveRun
  BY DEF ScanInv
<1>1. CASE UserStep
  BY <1>1, UserStepSound
<1>2. CASE NextScope \/ Persist \/ WalkOn \/ WalkFails \/ EndWalk \/ CompleteScope
           \/ \E f \in Files : LookAt(f)
  BY <1>2, WalkStepSound
<1>3. CASE StartIndex \/ CommitIndex \/ EndIndex \/ ReconcileRow \/ ReconcileNext
           \/ \E f \in Files : ReadTags(f)
  BY <1>3, IndexStepSound
<1>4. CASE Unwind \/ Reread \/ Leave \/ Advance \/ Refuse
  BY <1>4, PhaseStepSound
<1>5. CASE RunOnce
  BY <1>5, RunOnceSound
<1>6. CASE WorldStep
  BY <1>6, WorldStepSound
<1>7. CASE UNCHANGED vars
  BY <1>7 DEF vars, InventoryInv, TodoListed, SoundRuns, SoundWalk, Lists, Listed1, Present,
              ActiveRuns, InState, At, Run, Scope
<1> QED
  BY <1>1, <1>2, <1>3, <1>4, <1>5, <1>6, <1>7 DEF Next, WorkerStep

\* What reconciliation marks missing, the inventory of a walked scope does not list, although
\* no publication has passed since its revision was recorded: it is not there.
LEMMA MarkedIsAbsent ==
    ASSUME TypeInv, InventoryInv, [Next]_vars
    PROVE  OnlyAbsentMarked
<1> SUFFICES ASSUME NEW f \in Files, track'[f] = "missing", track[f] # "missing"
             PROVE  f \notin disk
  BY DEF OnlyAbsentMarked
<1>1. track \in [Files -> {"none", "indexed", "missing"}]
  BY TypeParts
<1>2. CASE ReconcileRow
  <2> DEFINE g == First(Candidates)
  <2>1. ~At("idle") /\ wk.pc \notin Ends /\ wk.run \in Runs
    BY <1>2, InHand DEF ReconcileRow, At, Ends
  <2>2. Scope \in Scopes /\ Run.at \in Progress
    BY <2>1, InHand
  <2>3. g \in Candidates
    <3>1. Candidates \subseteq 1 .. FileCount
      BY <2>2, ScanAssumption, Numbers DEF ScanAssumption, Candidates
    <3> HIDE DEF First
    <3> QED
      BY <1>2, <3>1, Numbers, FirstIn DEF ReconcileRow
  <2>4. track' = [track EXCEPT ![g] = IF Listed(g) THEN "indexed"
                                      ELSE IF MayMiss(RootOf[g]) THEN "missing" ELSE @]
    BY <1>2 DEF ReconcileRow
  <2> HIDE DEF g
  <2>5. f = g /\ ~Listed(f) /\ MayMiss(RootOf[f]) /\ track[f] # "none"
    BY <1>1, <2>3, <2>4 DEF Candidates
  <2>6. Scope \in Run.at.walked /\ f \in FilesIn[Scope]
    BY <2>3, <2>5 DEF Candidates
  <2>7. RootOf[f] = ScopeRoot[Scope] /\ ScopeRoot[Scope] \in Roots
    BY <2>2, <2>6, ScanAssumption DEF ScanAssumption
  <2>8. fence[wk.run][ScopeRoot[Scope]] = "current"
    <3>1. fence[wk.run][ScopeRoot[Scope]] \in {"none", "current", "passed"}
      BY <2>1, <2>7, TypeParts DEF RunsTyped
    <3>2. fence[wk.run][ScopeRoot[Scope]] # "none"
      BY <2>1, <2>6, Sound
    <3> QED
      BY <2>5, <2>7, <3>1, <3>2 DEF MayMiss, AllowMissing
  <2>9. Lists(wk.run, Scope)
    BY <2>1, <2>6, Sound
  <2> QED
    BY <1>1, <2>5, <2>6, <2>8, <2>9 DEF Lists, Listed, Present, Run
<1>3. CASE CommitIndex
  BY <1>1, <1>3 DEF CommitIndex
<1>4. CASE Commit
  BY <1>4 DEF Commit
<1>5. CASE UNCHANGED track
  BY <1>5
<1>6. ReconcileRow \/ CommitIndex \/ Commit \/ UNCHANGED track
  <2>1. CASE UserStep
    BY <2>1 DEF UserStep, Request, Pause, ResumeRun, Stop, worldVars
  <2>2. CASE WorkerStep
    BY <2>2 DEF WorkerStep, RunOnce, NextScope, Persist, WalkOn, WalkFails, EndWalk, CompleteScope,
                Unwind, Reread, Leave, Advance, StartIndex, EndIndex, ReconcileNext, Refuse,
                LookAt, ReadTags, worldVars
  <2>3. CASE WorldStep
    BY <2>3 DEF WorldStep, Place, Rollback, ChangePolicy, Restart, RemoveFile, AddFile
  <2> QED
    BY <2>1, <2>2, <2>3 DEF Next, vars
<1> QED
  BY <1>2, <1>3, <1>4, <1>5, <1>6

\* A scan marks a track missing only when its file is not there, whatever publications,
\* pauses, requests and other scans happened between the walk and the reconciliation
\* (record_scan_completed, missing_allowed and reconcile_scan_scope_batch).  Assumed: no two
\* scopes share a root, and with it a recorded revision; and the process does not restart
\* after a scope was walked, which forgets the revisions, nor after a pausing run was
\* superseded.
THEOREM MarksOnlyAbsentHolds ==
    ASSUME NoneRevived, "restartAfterWalk" \notin Admits, OneScopePerRoot
    PROVE  Spec => MarksOnlyAbsent
<1>1. Init => TypeInv /\ ScanInv /\ InventoryInv
  BY TypeInit, ScanInit, InventoryInit
<1>2. TypeInv /\ ScanInv /\ InventoryInv /\ [Next]_vars => (TypeInv /\ ScanInv /\ InventoryInv)'
  BY TypeStep, ScanStep, InventoryStep DEF ScanInv
<1>3. TypeInv /\ ScanInv /\ InventoryInv /\ [Next]_vars => [OnlyAbsentMarked]_vars
  BY MarkedIsAbsent
<1> QED
  BY <1>1, <1>2, <1>3, PTL DEF Spec, MarksOnlyAbsent

-----------------------------------------------------------------------------
(* What a completed run has restored *)

Walked(rec) == Members(rec.scopes) \subseteq rec.at.walked

Restored1(s) == \A f \in FilesIn[s] \intersect since : track[f] # "missing"

\* Reconciliation starts on walked scopes only.
CursorsOfWalked ==
    \A r \in Runs : runs[r] # NoRun =>
        \A s \in Scopes \ runs[r].at.walked : runs[r].at.cursor[s] = 0

\* After discovery every scope is walked; up to its cursor, reconciliation has left no file
\* missing that never left.
RestoringRuns ==
    \A r \in ActiveRuns :
        /\ Late(runs[r]) # {} => Walked(runs[r])
        /\ \A s \in runs[r].at.walked : \A f \in FilesIn[s] \intersect since :
              f <= runs[r].at.cursor[s] => track[f] # "missing"

\* The same of what the worker has finished, in a phase that its run is still in.
RestoringWork ==
    /\ wk.pc \notin Ends /\ Run.state \in Phases => Run.state = wk.phase
    /\ wk.pc \in {"reread", "leave", "advance", "indexStart", "index", "commit"} => wk.scope = 1
    /\ wk.pc \in {"reread", "leave", "advance"} /\ wk.phase = "discovering" /\ Run.state = "discovering"
          => Walked(Run)
    /\ At("reconcile") => \A i \in 1 .. wk.scope - 1 : Restored1(Run.scopes[i])
    /\ wk.pc \in {"reread", "leave", "advance"} /\ wk.phase = "reconciling" /\ Run.state = "reconciling"
          => \A s \in Members(Run.scopes) : Restored1(s)

RestoreInv == CursorsOfWalked /\ RestoringRuns /\ RestoringWork

\* No file that never left has become missing.
NoneLost == \A f \in Files : f \in since' /\ track'[f] = "missing" => f \in since /\ track[f] = "missing"

LEMMA CursorFrame ==
    ASSUME CursorsOfWalked,
           \A q \in Runs : runs'[q] # NoRun =>
               runs'[q].at = NoProgress \/ (runs[q] # NoRun /\ runs'[q].at = runs[q].at)
    PROVE  CursorsOfWalked'
<1>1. \A s \in Scopes : NoProgress.cursor[s] = 0
  BY DEF NoProgress
<1> QED
  BY <1>1 DEF CursorsOfWalked

LEMMA RunsFrame ==
    ASSUME TypeInv, RestoringRuns, NoneLost,
           \A q \in ActiveRuns' : /\ q \in ActiveRuns /\ runs'[q].at = runs[q].at
                                  /\ runs'[q].scopes = runs[q].scopes
                                  /\ Late(runs'[q]) \subseteq Late(runs[q]) \/ Walked(runs[q])
    PROVE  RestoringRuns'
<1> SUFFICES ASSUME NEW q \in ActiveRuns'
             PROVE  /\ Late(runs'[q]) # {} => Walked(runs'[q])
                    /\ \A s \in runs'[q].at.walked : \A f \in FilesIn[s] \intersect since' :
                          f <= runs'[q].at.cursor[s] => track'[f] # "missing"
  BY DEF RestoringRuns
<1>1. /\ q \in ActiveRuns /\ runs'[q].at = runs[q].at /\ runs'[q].scopes = runs[q].scopes
      /\ Late(runs'[q]) \subseteq Late(runs[q]) \/ Walked(runs[q])
  OBVIOUS
<1>2. \A s \in runs[q].at.walked : s \in Scopes /\ FilesIn[s] \subseteq Files
  BY <1>1, ActiveRow, ScanAssumption DEF ScanAssumption
<1>3. Late(runs'[q]) # {} => Walked(runs'[q])
  BY <1>1 DEF RestoringRuns, Walked
<1>4. \A s \in runs[q].at.walked : \A f \in FilesIn[s] \intersect since :
          f <= runs[q].at.cursor[s] => track[f] # "missing"
  BY <1>1 DEF RestoringRuns
<1> QED
  BY <1>1, <1>2, <1>3, <1>4 DEF NoneLost

\* The worker stays at its place, and its run in its phase unless it is ended or controlled.
LEMMA WorkFrame ==
    ASSUME TypeInv, RestoringWork, NoneLost,
           wk'.pc = wk.pc, wk'.run = wk.run, wk'.phase = wk.phase, wk'.scope = wk.scope,
           ~At("idle") =>
              /\ runs'[wk.run].scopes = Run.scopes
              /\ runs'[wk.run].state \in Phases =>
                    runs'[wk.run].state = Run.state /\ Run.at.walked \subseteq runs'[wk.run].at.walked
    PROVE  RestoringWork'
<1>1. CASE At("idle")
  BY <1>1 DEF RestoringWork, At, Ends
<1>2. CASE ~At("idle")
  <2>1. /\ Run.scopes \in Seq(Scopes) /\ wk.scope \in DOMAIN Run.scopes
        /\ Run' = runs'[wk.run] /\ Run'.scopes = Run.scopes
    BY <1>2, InHand DEF Run
  <2>2. \A s \in Scopes : Restored1(s) => Restored1(s)'
    <3>1. \A s \in Scopes : FilesIn[s] \subseteq Files
      BY ScanAssumption DEF ScanAssumption
    <3> QED
      BY <3>1 DEF Restored1, NoneLost
  <2>3. \A s \in Members(Run.scopes) : s \in Scopes
    BY <2>1 DEF Members
  <2>4. \A i \in 1 .. wk.scope - 1 : Run.scopes[i] \in Scopes
    BY <2>1
  <2>5. Run'.state \in Phases =>
            Run'.state = Run.state /\ Run.at.walked \subseteq Run'.at.walked
    BY <1>2, <2>1
  <2>6. "discovering" \in Phases /\ "reconciling" \in Phases
    BY DEF Phases
  <2>7. At("reconcile")' => \A i \in 1 .. wk.scope - 1 : Restored1(Run.scopes[i])'
    <3> SUFFICES ASSUME At("reconcile"), NEW i \in 1 .. wk.scope - 1
                 PROVE  \A f \in FilesIn[Run'.scopes[i]] \intersect since' : track'[f] # "missing"
      BY DEF At, Restored1
    <3>1. Restored1(Run.scopes[i]) /\ Run.scopes[i] \in Scopes
      BY <2>4 DEF RestoringWork
    <3> QED
      BY <2>1, <2>2, <3>1 DEF Restored1
  <2>8. ASSUME wk.pc \in {"reread", "leave", "advance"}, wk.phase = "reconciling",
               Run'.state = "reconciling", NEW s \in Members(Run.scopes)
        PROVE  Restored1(s)'
    BY <2>2, <2>3, <2>5, <2>6, <2>8 DEF RestoringWork
  <2>9. wk.pc \in {"reread", "leave", "advance"} /\ wk.phase = "discovering" /\ Run'.state = "discovering"
            => Walked(Run')
    BY <2>1, <2>5, <2>6 DEF RestoringWork, Walked
  <2> QED
    BY <2>1, <2>5, <2>7, <2>8, <2>9 DEF RestoringWork, At
<1> QED
  BY <1>1, <1>2

LEMMA UserStepRestores ==
    ASSUME "resumeBeforeUnwind" \notin Admits, TypeInv, RestoreInv, UserStep
    PROVE  RestoreInv'
<1>1. UserFrame /\ UNCHANGED worldVars
  BY UserStepFrame, UserStepTyped
<1>2. wk \in WorkerType
  BY TypeParts DEF WorkerTyped
<1>3. NoneLost
  BY <1>1 DEF UserFrame, NoneLost, worldVars
<1>4. CursorsOfWalked'
  BY <1>1, CursorFrame DEF UserFrame, RestoreInv
<1>5. RestoringRuns'
  BY <1>1, <1>3, RunsFrame DEF UserFrame, RestoreInv
<1>6. RestoringWork'
  <2>1. /\ wk'.pc = wk.pc /\ wk'.run = wk.run /\ wk'.phase = wk.phase /\ wk'.scope = wk.scope
    BY <1>1, <1>2 DEF UserFrame, WorkerType
  <2>2. ASSUME ~At("idle")
        PROVE  /\ runs'[wk.run].scopes = Run.scopes
               /\ runs'[wk.run].state \in Phases =>
                     runs'[wk.run].state = Run.state /\ Run.at.walked \subseteq runs'[wk.run].at.walked
    <3>1. wk.run \in Runs /\ Run # NoRun
      BY <2>2, InHand
    <3>2. runs'[wk.run] # NoRun /\ runs'[wk.run].scopes = Run.scopes
      <4>1. runs'[wk.run] # NoRun
        BY <2>1, <2>2, UserStepTyped DEF WorkerTyped, WorkerHolds, At, Run
      <4> QED
        BY <1>1, <2>2, <4>1 DEF UserFrame
    <3>3. ASSUME runs'[wk.run].state \in Phases
          PROVE  wk.run \in ActiveRuns'
      BY <3>1, <3>2, <3>3 DEF ActiveRuns, InState, Active
    <3> QED
      BY <1>1, <2>2, <3>2, <3>3 DEF UserFrame, Run
  <2> QED
    BY <1>3, <2>1, <2>2, WorkFrame DEF RestoreInv
<1> QED
  BY <1>4, <1>5, <1>6 DEF RestoreInv

\* The worker writes its run, and leaves its progress.
LEMMA LeavesRestored ==
    ASSUME TypeInv, RestoreInv, ~At("idle"), NEW rec, Row(rec), Becomes(wk.run, rec),
           rec.at = Run.at, rec.scopes = Run.scopes, UNCHANGED track,
           rec.state \in Active => /\ Run.state \in Active
                                   /\ Late(rec) \subseteq Late(Run) \/ Walked(Run)
    PROVE  CursorsOfWalked' /\ RestoringRuns' /\ NoneLost
<1>1. wk.run \in Runs /\ runs[wk.run] # NoRun /\ (rec.state \in Active => wk.run \in ActiveRuns)
  BY InHand DEF ActiveRuns, InState, Run
<1>2. /\ \A q \in ActiveRuns' : q \in ActiveRuns /\ runs'[q].at = runs[q].at
      /\ \A q \in Runs : runs'[q] # NoRun =>
            runs'[q].at = NoProgress \/ (runs[q] # NoRun /\ runs'[q].at = runs[q].at)
      /\ since' \subseteq since
  BY <1>1, BecomesFrame DEF Run
<1>3. /\ \A q \in Runs : q # wk.run => runs'[q] = runs[q]
      /\ runs'[wk.run].state = rec.state /\ runs'[wk.run].scopes = rec.scopes
      /\ rec.state \notin Terminal => runs'[wk.run] = rec
  BY <1>1, TypeParts, BecomesTyped
<1>4. NoneLost
  BY <1>2 DEF NoneLost
<1>5. ASSUME NEW q \in ActiveRuns'
      PROVE  /\ runs'[q].scopes = runs[q].scopes
             /\ Late(runs'[q]) \subseteq Late(runs[q]) \/ Walked(runs[q])
  <2>1. q \in Runs /\ runs'[q].state \in Active /\ runs'[q].state \notin Terminal
    BY PlainRuns DEF ActiveRuns, InState
  <2>2. CASE q = wk.run
    BY <1>3, <2>1, <2>2 DEF Run
  <2>3. CASE q # wk.run
    BY <1>3, <2>1, <2>3
  <2> QED
    BY <2>2, <2>3
<1>6. CursorsOfWalked'
  BY <1>2, CursorFrame DEF RestoreInv
<1>7. RestoringRuns'
  BY <1>2, <1>4, <1>5, RunsFrame DEF RestoreInv
<1> QED
  BY <1>4, <1>6, <1>7

\* The worker has let go of its run, or goes on to the end of a phase that the run has left.
LEMMA Gone ==
    ASSUME \/ wk'.pc \in {"idle", "unwind"}
           \/ wk'.pc = "reread" /\ wk'.scope = 1 /\ Run'.state \notin Phases
    PROVE  RestoringWork'
  BY DEF RestoringWork, At, Ends, Phases

LEMMA LeaveLate ==
    ASSUME NEW rec, Row(rec)
    PROVE  /\ Late(Settled(rec)) \subseteq Late(rec) /\ Settled(rec).scopes = rec.scopes
           /\ Late(Superseded(rec)) \subseteq Late(rec) /\ Superseded(rec).scopes = rec.scopes
           /\ Late([rec EXCEPT !.state = "failed"]) = {}
           /\ Late([rec EXCEPT !.state = "completed"]) = {}
           /\ rec.state \in {"pausing", "stopping"} => Settled(rec).state \notin Phases
           /\ Superseded(rec).state \notin Phases
  BY DEF Late, Row, RunRecords, RunStates, Active, Terminal, Phases, Settled, Superseded

LEMMA FailsRestored ==
    ASSUME TypeInv, RestoreInv, ~At("idle"), Fails, UNCHANGED track
    PROVE  RestoreInv'
<1> DEFINE rec == IF Run.state \in Phases THEN [Run EXCEPT !.state = "failed"] ELSE Settled(Run)
<1>1. Becomes(wk.run, rec) /\ wk'.pc = "idle"
  BY DEF Fails, Idle
<1>2. Row(Run)
  BY InHand
<1>3. "failed" \notin Phases
  BY DEF Phases
<1>4. Row(rec) /\ rec.at = Run.at /\ (rec.state \in Active => Run.state \in Active)
  BY <1>2, <1>3, RowLeaves, Written
<1>5. Late(rec) \subseteq Late(Run) /\ rec.scopes = Run.scopes
  <2>1. CASE Run.state \in Phases
    <3>1. Late([Run EXCEPT !.state = "failed"]) = {}
      BY <1>2, LeaveLate
    <3>2. [Run EXCEPT !.state = "failed"].scopes = Run.scopes
      BY <1>2 DEF Row, RunRecords
    <3> QED
      BY <2>1, <3>1, <3>2
  <2>2. CASE Run.state \notin Phases
    BY <1>2, <2>2, LeaveLate
  <2> QED
    BY <2>1, <2>2
<1> HIDE DEF rec
<1> QED
  BY <1>1, <1>4, <1>5, LeavesRestored, Gone DEF RestoreInv

\* Steps that write no run and no file.
LEMMA SameRestored ==
    ASSUME TypeInv, RestoreInv, UNCHANGED <<runVars, track>>
    PROVE  CursorsOfWalked' /\ RestoringRuns' /\ NoneLost
<1>1. NoneLost
  BY DEF NoneLost, runVars
<1>2. \A q \in ActiveRuns' : q \in ActiveRuns /\ runs'[q] = runs[q]
  BY DEF ActiveRuns, InState, runVars
<1> QED
  BY <1>1, <1>2, CursorFrame, RunsFrame DEF RestoreInv, runVars

\* Progress of a phase.
LEMMA ProgressRestored ==
    ASSUME TypeInv, OneActiveRun, RestoreInv, ~At("idle"), wk.pc \notin Ends,
           NEW at \in Progress, Updates(wk.run, at), Run.at.walked \subseteq at.walked,
           \A s \in Scopes \ at.walked : at.cursor[s] = 0,
           \A s \in at.walked : \A f \in FilesIn[s] \intersect since :
              f <= at.cursor[s] => track'[f] # "missing"
    PROVE  /\ CursorsOfWalked' /\ RestoringRuns' /\ since' = since
           /\ runs'[wk.run].at = at /\ runs'[wk.run].scopes = Run.scopes
           /\ runs'[wk.run].state = Run.state
<1>1. /\ \A q \in Runs : q # wk.run => runs'[q] = runs[q]
      /\ runs'[wk.run].at = at /\ runs'[wk.run].scopes = Run.scopes
      /\ runs'[wk.run] = [Run EXCEPT !.at = at] /\ Run \in RunRecords
      /\ runs'[wk.run].state = Run.state /\ since' = since /\ wk.run \in Runs
  BY InHand, UpdatesTyped DEF Run
<1>2. runs'[wk.run].resume = Run.resume
  BY <1>1 DEF RunRecords
<1>3. wk.run \in ActiveRuns /\ \A q \in ActiveRuns' : q = wk.run
  <2>1. wk.run \in ActiveRuns
    BY InHand DEF ActiveRuns, InState, Run, Active
  <2>2. ASSUME NEW q \in ActiveRuns', q # wk.run PROVE FALSE
    <3>1. q \in ActiveRuns
      BY <1>1, <2>2 DEF ActiveRuns, InState
    <3> QED
      BY <2>2, <3>1, OnlyOurs
  <2> QED
    BY <2>1, <2>2
<1>4. CursorsOfWalked'
  <2> SUFFICES ASSUME NEW q \in Runs, runs'[q] # NoRun, NEW s \in Scopes \ runs'[q].at.walked
               PROVE  runs'[q].at.cursor[s] = 0
    BY DEF CursorsOfWalked
  <2>1. CASE q = wk.run
    BY <1>1, <2>1
  <2>2. CASE q # wk.run
    BY <1>1, <2>2 DEF CursorsOfWalked, RestoreInv
  <2> QED
    BY <2>1, <2>2
<1>5. Late(runs'[wk.run]) = Late(Run)
  BY <1>1, <1>2 DEF Late
<1>6. Late(Run) # {} => Members(Run.scopes) \subseteq at.walked
  BY <1>3 DEF RestoreInv, RestoringRuns, Walked, Run
<1>7. RestoringRuns'
  BY <1>1, <1>3, <1>5, <1>6 DEF RestoringRuns, Walked
<1> QED
  BY <1>1, <1>4, <1>7

\* What holds of the run in hand.
LEMMA Restoring ==
    ASSUME TypeInv, RestoreInv, ~At("idle"), wk.pc \notin Ends
    PROVE  /\ Late(Run) # {} => Walked(Run)
           /\ \A s \in Run.at.walked : s \in Scopes /\ \A f \in FilesIn[s] \intersect since :
                 f <= Run.at.cursor[s] => track[f] # "missing"
           /\ \A s \in Scopes \ Run.at.walked : Run.at.cursor[s] = 0
<1>1. wk.run \in Runs /\ Run # NoRun /\ Run.state \in Phases \union {"pausing", "stopping"}
  BY InHand
<1>2. wk.run \in ActiveRuns
  BY <1>1 DEF ActiveRuns, InState, Active, Run
<1> QED
  BY <1>1, <1>2, ActiveRow DEF RestoreInv, RestoringRuns, CursorsOfWalked, Run

\* The worker is in discovery, of a run in the state it was in.
LEMMA WalkPlace ==
    ASSUME RestoringWork, wk.pc \notin Ends, wk'.phase = wk.phase, Run'.state = Run.state,
           wk'.pc \in {"scope", "walk", "persisted", "walked"}
    PROVE  RestoringWork'
  BY DEF RestoringWork, At, Ends

LEMMA WalkStepRestores ==
    ASSUME TypeInv, OneActiveRun, RestoreInv,
           \/ NextScope \/ Persist \/ WalkOn \/ WalkFails \/ EndWalk \/ CompleteScope
           \/ \E f \in Files : LookAt(f)
    PROVE  RestoreInv'
<1>1. ~At("idle") /\ wk.pc \notin Ends /\ UNCHANGED track
  BY DEF NextScope, Persist, WalkOn, WalkFails, EndWalk, CompleteScope, LookAt, At, worldVars, Ends
<1>2. /\ wk \in WorkerType /\ Scope \in Scopes /\ Run.scopes \in Seq(Scopes) /\ Run.at \in Progress
      /\ wk.run \in Runs /\ RestoringWork
  BY <1>1, InHand DEF RestoreInv
<1>3. UNCHANGED runVars => CursorsOfWalked' /\ RestoringRuns' /\ runs'[wk.run] = Run
  BY <1>1, SameRestored DEF runVars, Run
<1>4. ASSUME UNCHANGED runVars, wk'.run = wk.run, wk'.phase = wk.phase,
             wk'.pc \in {"scope", "walk", "persisted", "walked"}
      PROVE  RestoreInv'
  <2>1. Run'.state = Run.state
    BY <1>3, <1>4 DEF Run
  <2> QED
    BY <1>1, <1>2, <1>3, <1>4, <2>1, WalkPlace DEF RestoreInv
<1>5. ASSUME NEW at \in Progress, Updates(wk.run, at), at.cursor = Run.at.cursor,
             \/ at.walked = Run.at.walked
             \/ at.walked = Run.at.walked \union {Scope} /\ Scope \notin Run.at.walked,
             wk'.run = wk.run, wk'.phase = wk.phase,
             wk'.pc \in {"scope", "walk", "persisted", "walked"}
      PROVE  RestoreInv'
  <2>1. \A s \in Scopes \ Run.at.walked : Run.at.cursor[s] = 0
    BY <1>1, Restoring
  <2>2. \A f \in FilesIn[Scope] : ~(f <= 0)
    BY <1>2, ScanAssumption, Numbers DEF ScanAssumption
  <2>3. \A s \in at.walked : \A f \in FilesIn[s] \intersect since :
            f <= at.cursor[s] => track'[f] # "missing"
    BY <1>1, <1>2, <1>5, <2>1, <2>2, Restoring
  <2>4. /\ CursorsOfWalked' /\ RestoringRuns' /\ runs'[wk.run].state = Run.state
    BY <1>1, <1>5, <2>1, <2>3, ProgressRestored
  <2>5. Run'.state = Run.state
    BY <1>5, <2>4 DEF Run
  <2> QED
    BY <1>1, <1>2, <1>5, <2>4, <2>5, WalkPlace DEF RestoreInv
<1>6. CASE NextScope
  <2> DEFINE left == {i \in DOMAIN Run.scopes : Run.scopes[i] \notin Run.at.walked}
  <2>1. UNCHANGED runVars /\ wk.pc = "scope"
    BY <1>6 DEF NextScope, At
  <2>2. CASE left = {}
    <3>1. wk'.pc = "reread" /\ wk'.run = wk.run /\ wk'.phase = wk.phase /\ wk'.scope = 1
      BY <1>6, <2>2 DEF NextScope, GoesOn, Idle
    <3>2. Walked(Run) /\ Run' = Run
      BY <1>3, <2>1, <2>2, <3>1 DEF Walked, Members, Run
    <3>3. wk.phase = "discovering"
      BY <1>1, <2>1, InHand DEF PhaseAt
    <3>4. RestoringWork'
      BY <3>1, <3>2, <3>3 DEF RestoringWork, At, Ends
    <3> QED
      BY <1>3, <2>1, <3>4 DEF RestoreInv
  <2>3. CASE left # {}
    <3>1. wk' = [wk EXCEPT !.pc = "walk", !.scope = First(left), !.clean = TRUE,
                            !.left = FilesIn[Run.scopes[First(left)]], !.batch = {}]
      BY <1>6, <2>3 DEF NextScope
    <3> HIDE DEF left
    <3> QED
      BY <1>2, <1>4, <2>1, <3>1 DEF WorkerType
  <2> QED
    BY <2>2, <2>3
<1>7. CASE Persist
  <2>1. CASE ~wk.fresh
    BY <1>1, <1>7, <2>1, FailsRestored DEF Persist
  <2>2. CASE wk.fresh
    <3>1. PICK changed : Updates(wk.run, Classified(Run.at, changed))
      BY <1>7, <2>2 DEF Persist
    <3>2. wk' = [wk EXCEPT !.pc = "persisted", !.batch = {}]
      BY <1>7, <2>2 DEF Persist
    <3> DEFINE at == Classified(Run.at, changed)
    <3>3. at \in Progress /\ at.walked = Run.at.walked /\ at.cursor = Run.at.cursor
      <4>1. at \in Progress
        BY <1>2, ProgressTyped
      <4> QED
        BY <1>2, <4>1 DEF Classified, Progress
    <3>4. wk'.run = wk.run /\ wk'.phase = wk.phase /\ wk'.pc = "persisted"
      BY <1>2, <3>2 DEF WorkerType
    <3>5. Updates(wk.run, at)
      BY <3>1
    <3> HIDE DEF at
    <3> QED
      BY <1>5, <3>3, <3>4, <3>5
  <2> QED
    BY <2>1, <2>2
<1>8. CASE WalkOn
  BY <1>2, <1>4, <1>8 DEF WalkOn, Goes, WorkerType
<1>9. CASE WalkFails
  <2>1. wk'.pc = "unwind" /\ UNCHANGED runVars
    BY <1>9 DEF WalkFails, GoesOn, Idle
  <2> QED
    BY <1>3, <2>1, Gone DEF RestoreInv
<1>10. CASE EndWalk
  <2>1. wk.pc = "walk"
    BY <1>10 DEF EndWalk, At
  <2>2. CASE RecordFence
    <3>1. wk' = [wk EXCEPT !.pc = "walked"] /\ UNCHANGED <<runs, since>>
      BY <2>2 DEF RecordFence, Goes
    <3>2. wk'.run = wk.run /\ wk'.phase = wk.phase /\ wk'.pc = "walked" /\ Run' = Run
      BY <1>2, <3>1 DEF WorkerType, Run
    <3>3. CursorsOfWalked' /\ RestoringRuns'
      <4>1. NoneLost
        BY <1>1, <3>1 DEF NoneLost
      <4>2. \A q \in ActiveRuns' : q \in ActiveRuns /\ runs'[q] = runs[q]
        BY <3>1 DEF ActiveRuns, InState
      <4> QED
        BY <3>1, <4>1, <4>2, CursorFrame, RunsFrame DEF RestoreInv
    <3> QED
      BY <1>1, <1>2, <3>2, <3>3, WalkPlace DEF RestoreInv
  <2>3. CASE Rewalk
    <3> DEFINE at == NewGeneration(Run.at, {Scope})
    <3>1. Updates(wk.run, at) /\ wk' = [wk EXCEPT !.left = FilesIn[Scope], !.clean = TRUE, !.fresh = TRUE]
      BY <2>3 DEF Rewalk
    <3>2. at \in Progress
      BY <1>2, ProgressTyped
    <3>3. at.walked = Run.at.walked /\ at.cursor = Run.at.cursor
      BY <1>2 DEF NewGeneration, Progress
    <3>4. wk'.run = wk.run /\ wk'.phase = wk.phase /\ wk'.pc = "walk"
      BY <1>2, <2>1, <3>1 DEF WorkerType
    <3> HIDE DEF at
    <3> QED
      BY <1>5, <3>1, <3>2, <3>3, <3>4
  <2> QED
    BY <1>10, <2>2, <2>3 DEF EndWalk
<1>11. CASE CompleteScope
  <2> DEFINE at == [Run.at EXCEPT !.walked = @ \union {Scope}]
  <2>1. wk' = [wk EXCEPT !.pc = "scope", !.scope = 1] /\ Updates(wk.run, at)
    BY <1>11 DEF CompleteScope
  <2>2. at \in Progress
    BY <1>2, ProgressTyped
  <2>3. at.walked = Run.at.walked \union {Scope} /\ at.cursor = Run.at.cursor
    BY <1>2 DEF Progress
  <2>4. at.walked = Run.at.walked \/ Scope \notin Run.at.walked
    BY <2>3
  <2>5. wk'.run = wk.run /\ wk'.phase = wk.phase /\ wk'.pc = "scope"
    BY <1>2, <2>1 DEF WorkerType
  <2> HIDE DEF at
  <2> QED
    BY <1>5, <2>1, <2>2, <2>3, <2>4, <2>5
<1>12. ASSUME NEW f \in Files, LookAt(f)
       PROVE  RestoreInv'
  BY <1>2, <1>4, <1>12 DEF LookAt, At, WorkerType
<1> QED
  BY <1>6, <1>7, <1>8, <1>9, <1>10, <1>11, <1>12

\* The worker is in indexing, or at its end.
LEMMA IndexPlace ==
    ASSUME RestoringWork, wk.pc \notin Ends, wk.phase = "indexing", wk'.phase = wk.phase,
           Run'.state = Run.state, wk.scope = 1, wk'.scope = 1, wk'.pc \in {"index", "commit", "reread"}
    PROVE  RestoringWork'
  BY DEF RestoringWork, At, Ends

LEMMA IndexStepRestores ==
    ASSUME TypeInv, OneActiveRun, InventoryInv, RestoreInv,
           \/ StartIndex \/ CommitIndex \/ EndIndex \/ ReconcileRow \/ ReconcileNext
           \/ \E f \in Files : ReadTags(f)
    PROVE  RestoreInv'
<1>1. ~At("idle") /\ wk.pc \notin Ends
  BY DEF StartIndex, CommitIndex, EndIndex, ReconcileRow, ReconcileNext, ReadTags, At, Ends
<1>2. /\ wk \in WorkerType /\ Scope \in Scopes /\ Run.scopes \in Seq(Scopes) /\ Run.at \in Progress
      /\ wk.run \in Runs /\ RestoringWork /\ wk.scope \in DOMAIN Run.scopes
      /\ track \in [Files -> {"none", "indexed", "missing"}] /\ wk.phase \in PhaseAt(wk.pc)
  BY <1>1, InHand, TypeParts DEF RestoreInv
<1>3. UNCHANGED <<runVars, track>> => CursorsOfWalked' /\ RestoringRuns' /\ NoneLost /\ runs'[wk.run] = Run
  BY <1>1, SameRestored DEF runVars, Run
<1>4. \A s \in Scopes : FilesIn[s] \subseteq Files
  BY ScanAssumption DEF ScanAssumption
<1>5. wk.pc \in {"indexStart", "index", "commit"} => wk.phase = "indexing" /\ wk.scope = 1
  BY <1>2 DEF PhaseAt, RestoringWork
<1>6. ASSUME NEW g \in Files, Done(g), \A f \in Files : track'[f] = "missing" => track[f] = "missing"
      PROVE  CursorsOfWalked' /\ RestoringRuns' /\ runs'[wk.run].state = Run.state
  <2> DEFINE at == [Run.at EXCEPT !.todo[g] = "no"]
  <2>1. Updates(wk.run, at) /\ at \in Progress
    BY <1>2, <1>6, ProgressTyped DEF Done
  <2>2. at.walked = Run.at.walked /\ at.cursor = Run.at.cursor
    BY <1>2 DEF Progress
  <2> HIDE DEF at
  <2>3. \A s \in Scopes \ at.walked : at.cursor[s] = 0
    BY <1>1, <2>2, Restoring
  <2>4. \A s \in at.walked : \A f \in FilesIn[s] \intersect since :
            f <= at.cursor[s] => track'[f] # "missing"
    BY <1>1, <1>4, <1>6, <2>2, Restoring
  <2> QED
    BY <1>1, <2>1, <2>2, <2>3, <2>4, ProgressRestored
<1>7. CASE StartIndex
  <2>1. wk' = [wk EXCEPT !.pc = "index"] /\ wk.pc = "indexStart" /\ UNCHANGED <<runVars, track>>
    BY <1>7 DEF StartIndex, At, Goes, worldVars
  <2>2. wk'.pc = "index" /\ wk'.phase = wk.phase /\ wk'.scope = wk.scope /\ Run' = Run
    BY <1>2, <1>3, <2>1 DEF WorkerType, Run
  <2> QED
    BY <1>1, <1>2, <1>3, <1>5, <2>1, <2>2, IndexPlace DEF RestoreInv
<1>8. CASE EndIndex
  <2>1. wk' = [wk EXCEPT !.pc = "reread"] /\ wk.pc = "index" /\ UNCHANGED <<runVars, track>>
    BY <1>8 DEF EndIndex, At, Goes, worldVars
  <2>2. wk'.pc = "reread" /\ wk'.phase = wk.phase /\ wk'.scope = wk.scope /\ Run' = Run
    BY <1>2, <1>3, <2>1 DEF WorkerType, Run
  <2> QED
    BY <1>1, <1>2, <1>3, <1>5, <2>1, <2>2, IndexPlace DEF RestoreInv
<1>9. CASE CommitIndex
  <2>1. CASE Fails /\ UNCHANGED track
    BY <1>1, <2>1, FailsRestored
  <2>2. CASE /\ Done(wk.file) /\ wk' = [wk EXCEPT !.pc = "index", !.file = NoFile]
             /\ track' = [track EXCEPT ![wk.file] = "indexed"]
    <3>1. wk.pc = "commit"
      BY <1>9 DEF CommitIndex, At
    <3>2. wk.file \in Files
      BY <3>1 DEF InventoryInv, SoundWalk, At
    <3>3. CursorsOfWalked' /\ RestoringRuns' /\ runs'[wk.run].state = Run.state
      BY <1>2, <1>6, <2>2, <3>2
    <3>4. /\ wk'.pc = "index" /\ wk'.phase = wk.phase /\ wk'.scope = wk.scope
          /\ Run'.state = Run.state
      BY <1>2, <2>2, <3>3 DEF WorkerType, Run
    <3> QED
      BY <1>1, <1>2, <1>5, <3>1, <3>3, <3>4, IndexPlace DEF RestoreInv
  <2> QED
    BY <1>9, <2>1, <2>2 DEF CommitIndex
<1>10. ASSUME NEW f \in Files, ReadTags(f)
       PROVE  RestoreInv'
  <2>1. wk.pc = "index" /\ UNCHANGED track
    BY <1>10 DEF ReadTags, At, worldVars
  <2>2. CASE wk' = [wk EXCEPT !.pc = "commit", !.file = f] /\ UNCHANGED runVars
    <3>1. wk'.pc = "commit" /\ wk'.phase = wk.phase /\ wk'.scope = wk.scope /\ Run' = Run
      BY <1>2, <1>3, <2>1, <2>2 DEF WorkerType, Run
    <3> QED
      BY <1>1, <1>2, <1>3, <1>5, <2>1, <2>2, <3>1, IndexPlace DEF RestoreInv
  <2>3. CASE Done(f) /\ UNCHANGED wk
    <3>1. CursorsOfWalked' /\ RestoringRuns' /\ runs'[wk.run].state = Run.state
      BY <1>6, <2>1, <2>3
    <3>2. Run'.state = Run.state
      BY <2>3, <3>1 DEF Run
    <3> QED
      BY <1>1, <1>2, <1>5, <2>1, <2>3, <3>1, <3>2, IndexPlace DEF RestoreInv
  <2> QED
    BY <1>10, <2>2, <2>3 DEF ReadTags
<1>11. CASE ReconcileRow
  <2> DEFINE g == First(Candidates)
             at == [Run.at EXCEPT !.cursor[Scope] = g]
  <2>1. g \in Candidates /\ \A f \in Candidates : g <= f
    <3>1. Candidates \subseteq 1 .. FileCount
      BY <1>1, <1>2, <1>4, Numbers DEF Candidates
    <3> HIDE DEF First
    <3> QED
      BY <1>11, <3>1, Numbers, FirstIn DEF ReconcileRow
  <2>2. /\ track' = [track EXCEPT ![g] = IF Listed(g) THEN "indexed"
                                         ELSE IF MayMiss(RootOf[g]) THEN "missing" ELSE @]
        /\ Updates(wk.run, at) /\ wk' = wk /\ wk.pc = "reconcile" /\ UNCHANGED disk
    BY <1>11 DEF ReconcileRow, At
  <2> HIDE DEF g
  <2>3. g \in FilesIn[Scope] /\ g \in Files /\ Scope \in Run.at.walked
    BY <1>2, <1>4, <2>1 DEF Candidates
  <2>4. at \in Progress
    BY <1>2, <2>3, ProgressTyped
  <2>5. /\ at.walked = Run.at.walked /\ at.cursor[Scope] = g
        /\ \A s \in Scopes : s # Scope => at.cursor[s] = Run.at.cursor[s]
    BY <1>2 DEF Progress
  <2> HIDE DEF at
  <2>6. Lists(wk.run, Scope)
    BY <1>1, <2>3, Sound
  <2>7. ASSUME NEW f \in Files, f \in since, track'[f] = "missing"
        PROVE  track[f] = "missing" /\ f # g
    <3>1. CASE f = g
      <4>1. Listed(g)
        BY <2>3, <2>6, <2>7, <3>1 DEF Lists, Listed, Run
      <4> QED
        BY <1>2, <2>2, <2>3, <2>7, <3>1, <4>1
    <3>2. CASE f # g
      BY <1>2, <2>2, <2>7, <3>2
    <3> QED
      BY <3>1, <3>2
  <2>8. \A s \in Scopes \ at.walked : at.cursor[s] = 0
    BY <1>1, <2>3, <2>5, Restoring
  <2>9. ASSUME NEW s \in at.walked, NEW f \in FilesIn[s] \intersect since, f <= at.cursor[s],
               track'[f] = "missing"
        PROVE  FALSE
    <3>1. s \in Scopes /\ f \in Files /\ track[f] = "missing" /\ f # g
      BY <1>1, <1>4, <2>5, <2>7, <2>9, Restoring
    <3>2. f <= Run.at.cursor[s] => track[f] # "missing"
      BY <1>1, <2>5, <2>9, Restoring
    <3>3. s = Scope /\ f <= g
      BY <2>5, <2>9, <3>1, <3>2
    <3>4. f \in Candidates
      <4>1. Run.at.cursor[Scope] \in 0 .. FileCount
        BY <1>2 DEF Progress
      <4>2. f > Run.at.cursor[Scope]
        BY <3>1, <3>2, <3>3, <4>1, Numbers
      <4> QED
        BY <2>3, <3>1, <3>3, <4>2 DEF Candidates
    <3> QED
      BY <2>1, <2>3, <3>1, <3>3, <3>4, Numbers
  <2>10. /\ CursorsOfWalked' /\ RestoringRuns' /\ since' = since /\ runs'[wk.run].at = at
         /\ runs'[wk.run].scopes = Run.scopes /\ runs'[wk.run].state = Run.state
    BY <1>1, <2>2, <2>4, <2>5, <2>8, <2>9, ProgressRestored
  <2>11. NoneLost
    BY <2>7, <2>10 DEF NoneLost
  <2>12. RestoringWork'
    BY <1>2, <2>2, <2>5, <2>10, <2>11, WorkFrame
  <2> QED
    BY <2>10, <2>12 DEF RestoreInv
<1>12. CASE ReconcileNext
  <2>1. wk.pc = "reconcile" /\ UNCHANGED <<runVars, track>> /\ Candidates = {} /\ Passes
    BY <1>12 DEF ReconcileNext, At, worldVars
  <2>2. Run.state = "reconciling"
    <3>1. wk.phase = "reconciling"
      BY <1>2, <2>1 DEF PhaseAt
    <3>2. Run.state \in Phases \union {"pausing", "stopping"}
      BY <1>1, InHand
    <3> QED
      BY <1>1, <1>2, <2>1, <3>1, <3>2 DEF Passes, RestoringWork
  <2>3. Scope \in Run.at.walked
    <3>1. Late(Run) # {}
      BY <2>2 DEF Late
    <3>2. Walked(Run) /\ Scope \in Members(Run.scopes)
      BY <1>1, <1>2, <3>1, Restoring DEF Members, Scope
    <3> QED
      BY <3>2 DEF Walked
  <2>4. Restored1(Scope)
    <3> SUFFICES ASSUME NEW f \in FilesIn[Scope] \intersect since, track[f] = "missing" PROVE FALSE
      BY DEF Restored1
    <3>1. ~(f > Run.at.cursor[Scope])
      BY <2>1, <2>3 DEF Candidates
    <3>2. f \in Nat /\ Run.at.cursor[Scope] \in Nat
      BY <1>2, <1>4, Numbers DEF Progress
    <3>3. f <= Run.at.cursor[Scope]
      BY <3>1, <3>2
    <3> QED
      BY <1>1, <2>3, <3>3, Restoring
  <2>5. \A i \in 1 .. wk.scope : Restored1(Run.scopes[i])
    <3>1. \A i \in 1 .. wk.scope - 1 : Restored1(Run.scopes[i])
      BY <1>2, <2>1 DEF RestoringWork, At
    <3>2. wk.scope \in Nat /\ \A i \in 1 .. wk.scope : i = wk.scope \/ i \in 1 .. wk.scope - 1
      BY <1>2
    <3> QED
      BY <2>4, <3>1, <3>2 DEF Scope
  <2>6. \A s : Restored1(s) => Restored1(s)'
    BY <2>1 DEF Restored1, runVars
  <2>7. CASE wk.scope < Len(Run.scopes)
    <3>1. wk' = [wk EXCEPT !.scope = @ + 1]
      BY <1>12, <2>7 DEF ReconcileNext
    <3>2. /\ wk'.pc = "reconcile" /\ wk'.phase = wk.phase /\ wk'.scope = wk.scope + 1 /\ Run' = Run
          /\ wk'.scope - 1 = wk.scope
      BY <1>2, <1>3, <2>1, <3>1 DEF WorkerType, Run
    <3>3. \A i \in 1 .. wk'.scope - 1 : Restored1(Run.scopes[i])'
      <4> SUFFICES ASSUME NEW i \in 1 .. wk.scope
                   PROVE  \A f \in FilesIn[Run'.scopes[i]] \intersect since' : track'[f] # "missing"
        BY <3>2 DEF Restored1
      <4> QED
        BY <2>1, <2>5, <3>2 DEF Restored1, runVars
    <3>4. RestoringWork'
      BY <1>1, <1>2, <2>1, <3>2, <3>3 DEF RestoringWork, At, Ends
    <3> QED
      BY <1>3, <2>1, <3>4 DEF RestoreInv
  <2>8. CASE ~(wk.scope < Len(Run.scopes))
    <3>1. wk' = [wk EXCEPT !.pc = "reread", !.scope = 1]
      BY <1>12, <2>8 DEF ReconcileNext
    <3>2. wk'.pc = "reread" /\ wk'.scope = 1 /\ Run' = Run /\ wk'.phase = "reconciling"
      BY <1>2, <1>3, <2>1, <3>1 DEF WorkerType, Run, PhaseAt
    <3>3. \A s \in Members(Run.scopes) : Restored1(s)
      <4>1. \A i \in DOMAIN Run.scopes : i \in 1 .. wk.scope
        BY <1>2, <2>8
      <4> QED
        BY <2>5, <4>1 DEF Members
    <3>4. RestoringWork'
      BY <2>2, <2>6, <3>2, <3>3 DEF RestoringWork, At, Ends
    <3> QED
      BY <1>3, <2>1, <3>4 DEF RestoreInv
  <2> QED
    BY <2>7, <2>8
<1> QED
  BY <1>7, <1>8, <1>9, <1>10, <1>11, <1>12

LEMMA PhaseStepRestores ==
    ASSUME TypeInv, WorkerOK, RestoreInv, Unwind \/ Reread \/ Leave \/ Advance \/ Refuse
    PROVE  RestoreInv'
<1>1. ~At("idle") /\ UNCHANGED track
  BY DEF Unwind, Reread, Leave, Advance, Refuse, At, worldVars
<1>2. /\ wk \in WorkerType /\ Row(Run) /\ wk.phase \in Phases /\ Run.scopes \in Seq(Scopes)
      /\ wk.run \in Runs /\ RestoringWork
  BY <1>1, InHand DEF RestoreInv
<1>3. /\ Row(Settled(Run)) /\ Row(Superseded(Run))
      /\ \A state \in Phases \union {"completed", "failed"} : Row([Run EXCEPT !.state = state])
  BY <1>2, RowLeaves
<1>4. /\ Settled(Run).at = Run.at /\ (Settled(Run).state \in Active => Run.state \in Active)
      /\ Superseded(Run).at = Run.at /\ (Superseded(Run).state \in Active => Run.state \in Active)
      /\ \A state \in Phases \union {"completed", "failed"} :
            LET new == [Run EXCEPT !.state = state]
            IN new.at = Run.at /\ (new.state \in Active => state \in Phases)
  BY <1>2, Written
<1>5. /\ Late(Settled(Run)) \subseteq Late(Run) /\ Settled(Run).scopes = Run.scopes
      /\ Late(Superseded(Run)) \subseteq Late(Run) /\ Superseded(Run).scopes = Run.scopes
      /\ Late([Run EXCEPT !.state = "failed"]) = {}
      /\ Late([Run EXCEPT !.state = "completed"]) = {}
      /\ Run.state \in {"pausing", "stopping"} => Settled(Run).state \notin Phases
      /\ Superseded(Run).state \notin Phases
  BY <1>2, LeaveLate
<1>6. UNCHANGED runVars => CursorsOfWalked' /\ RestoringRuns' /\ runs'[wk.run] = Run
  BY <1>1, SameRestored DEF runVars, Run
<1>7. Idle.pc = "idle" /\ \A state : [Run EXCEPT !.state = state].scopes = Run.scopes
  BY <1>2 DEF Idle, Row, RunRecords
<1>8. CASE Unwind
  <2>1. CASE Run.state = "discovering"
    <3> DEFINE rec == [Run EXCEPT !.state = "failed"]
    <3>1. Becomes(wk.run, rec) /\ wk'.pc = "idle"
      BY <1>7, <1>8, <2>1 DEF Unwind
    <3>2. Row(rec) /\ rec.at = Run.at /\ rec.scopes = Run.scopes /\ Late(rec) \subseteq Late(Run)
      BY <1>3, <1>4, <1>5, <1>7
    <3>3. rec.state \in Active => Run.state \in Active
      BY <1>4, <2>1 DEF Active, Phases
    <3> HIDE DEF rec
    <3> QED
      BY <1>1, <3>1, <3>2, <3>3, LeavesRestored, Gone DEF RestoreInv
  <2>2. CASE Run.state # "discovering"
    <3>1. Becomes(wk.run, Settled(Run)) /\ wk'.pc = "idle"
      BY <1>7, <1>8, <2>2 DEF Unwind
    <3> QED
      BY <1>1, <1>3, <1>4, <1>5, <3>1, LeavesRestored, Gone DEF RestoreInv
  <2> QED
    BY <2>1, <2>2
<1>9. CASE Reread
  <2>1. CASE Run.state = wk.phase
    <3>1. /\ wk' = [wk EXCEPT !.pc = IF wk.phase = "discovering" THEN "advance" ELSE "leave", !.fresh = TRUE]
          /\ UNCHANGED runVars /\ wk.pc = "reread"
      BY <1>9, <2>1 DEF Reread, Fresh, At
    <3>2. /\ wk'.pc = IF wk.phase = "discovering" THEN "advance" ELSE "leave"
          /\ wk'.phase = wk.phase /\ wk'.scope = wk.scope /\ Run' = Run
      BY <1>2, <1>6, <3>1 DEF WorkerType, Run
    <3>3. \A s : Restored1(s) => Restored1(s)'
      BY <1>1, <3>1 DEF Restored1, runVars
    <3>4. RestoringWork'
      BY <1>2, <2>1, <3>1, <3>2, <3>3 DEF RestoringWork, At, Ends
    <3> QED
      BY <1>6, <3>1, <3>4 DEF RestoreInv
  <2>2. CASE Run.state # wk.phase
    <3>1. Becomes(wk.run, Settled(Run)) /\ wk'.pc = "idle"
      BY <1>7, <1>9, <2>2 DEF Reread
    <3> QED
      BY <1>1, <1>3, <1>4, <1>5, <3>1, LeavesRestored, Gone DEF RestoreInv
  <2> QED
    BY <2>1, <2>2
<1>10. CASE Leave
  <2>1. wk' = [wk EXCEPT !.pc = "advance"] /\ wk.pc = "leave" /\ UNCHANGED runVars /\ Passes
    BY <1>10 DEF Leave, At, Goes
  <2>2. wk'.pc = "advance" /\ wk'.phase = wk.phase /\ wk'.scope = wk.scope /\ Run' = Run
    BY <1>2, <1>6, <2>1 DEF WorkerType, Run
  <2>3. \A s : Restored1(s) => Restored1(s)'
    BY <1>1, <2>1 DEF Restored1, runVars
  <2>4. RestoringWork'
    BY <1>2, <2>1, <2>2, <2>3 DEF RestoringWork, At, Ends
  <2> QED
    BY <1>6, <2>1, <2>4 DEF RestoreInv
<1>11. CASE Advance
  <2>1. CASE ~wk.fresh
    BY <1>1, <1>11, <2>1, FailsRestored DEF Advance
  <2>2. CASE wk.fresh
    <3>1. wk.pc = "advance" /\ Run.state = wk.phase /\ wk.scope = 1
      BY <1>2, <1>11, <2>2 DEF Advance, At, WorkerOK, RestoringWork
    <3>2. ASSUME NEW pc \in {"indexStart", "reconcile"}, NEW state \in {"indexing", "reconciling"},
                 pc = "reconcile" <=> state = "reconciling",
                 wk.phase \in {"discovering", "indexing"},
                 Becomes(wk.run, [Run EXCEPT !.state = state]),
                 wk' = [wk EXCEPT !.pc = pc, !.phase = state, !.fresh = FALSE]
          PROVE  RestoreInv'
      <4> DEFINE rec == [Run EXCEPT !.state = state]
      <4>1. Walked(Run)
        <5>1. CASE wk.phase = "discovering"
          BY <1>2, <3>1, <5>1 DEF RestoringWork
        <5>2. CASE wk.phase = "indexing"
          <6>1. Late(Run) # {} /\ wk.pc \notin Ends
            BY <3>1, <5>2 DEF Late, Ends
          <6> QED
            BY <1>1, <6>1, Restoring
        <5> QED
          BY <3>2, <5>1, <5>2
      <4>2. Row(rec) /\ rec.at = Run.at /\ rec.scopes = Run.scopes /\ rec.state = state
        <5>1. state \in Phases
          BY DEF Phases
        <5>2. Row(rec) /\ rec.at = Run.at /\ rec.scopes = Run.scopes
          BY <1>3, <1>4, <1>7, <5>1
        <5>3. rec.state = state
          BY <1>2 DEF Row, RunRecords
        <5> QED
          BY <5>2, <5>3
      <4>3. Run.state \in Active
        BY <1>2, <3>1, PlainRuns
      <4>4. wk'.pc = pc /\ wk'.phase = state /\ wk'.scope = 1 /\ wk'.run = wk.run
        BY <1>2, <3>1, <3>2 DEF WorkerType
      <4>10. Becomes(wk.run, rec)
        BY <3>2
      <4> HIDE DEF rec
      <4>5. CursorsOfWalked' /\ RestoringRuns'
        BY <1>1, <4>1, <4>2, <4>3, <4>10, LeavesRestored
      <4>6. runs'[wk.run].state = state
        BY <1>2, <4>2, <4>10, TypeParts, BecomesTyped
      <4>7. Run'.state = state
        BY <4>4, <4>6 DEF Run
      <4>8. \A i \in 1 .. wk'.scope - 1 : FALSE
        BY <4>4
      <4>9. RestoringWork'
        BY <3>2, <4>4, <4>7, <4>8 DEF RestoringWork, At, Ends
      <4> QED
        BY <4>5, <4>9 DEF RestoreInv
    <3>3. CASE wk.phase = "discovering"
      BY <1>11, <2>2, <3>2, <3>3 DEF Advance
    <3>4. CASE wk.phase = "indexing"
      BY <1>11, <2>2, <3>2, <3>4 DEF Advance
    <3>5. CASE wk.phase \notin {"discovering", "indexing"}
      <4> DEFINE rec == [Run EXCEPT !.state = "completed"]
      <4>1. Becomes(wk.run, rec) /\ wk'.pc = "idle"
        BY <1>7, <1>11, <2>2, <3>5 DEF Advance
      <4>2. Row(rec) /\ rec.at = Run.at /\ rec.scopes = Run.scopes /\ Late(rec) \subseteq Late(Run)
        BY <1>3, <1>4, <1>5, <1>7
      <4>3. Run.state \in Active
        BY <1>2, <3>1, PlainRuns
      <4> HIDE DEF rec
      <4> QED
        BY <1>1, <4>1, <4>2, <4>3, LeavesRestored, Gone DEF RestoreInv
    <3> QED
      BY <3>3, <3>4, <3>5
  <2>3. wk.fresh \in BOOLEAN
    BY <1>2 DEF WorkerType
  <2> QED
    BY <2>1, <2>2, <2>3
<1>12. CASE Refuse
  <2> DEFINE rec == IF Run.policy # policy THEN Superseded(Run) ELSE Settled(Run)
  <2>1. /\ Becomes(wk.run, rec) /\ ~Passes
        /\ GoesOn("unwind") \/ wk' = Idle \/ GoesOn("reread")
    BY <1>12 DEF Refuse
  <2>2. \/ wk'.pc \in {"unwind", "idle"}
        \/ wk'.pc = "reread" /\ wk'.scope = 1 /\ wk'.run = wk.run
    <3>1. GoesOn("unwind") => wk'.pc = "unwind"
      BY DEF GoesOn, Idle
    <3>2. wk' = Idle => wk'.pc = "idle"
      BY DEF Idle
    <3>3. GoesOn("reread") => wk'.pc = "reread" /\ wk'.scope = 1 /\ wk'.run = wk.run
      BY DEF GoesOn, Idle
    <3> QED
      BY <2>1, <3>1, <3>2, <3>3
  <2>3. /\ Row(rec) /\ rec.at = Run.at /\ rec.scopes = Run.scopes
        /\ (rec.state \in Active => Run.state \in Active /\ Late(rec) \subseteq Late(Run))
        /\ rec.state \notin Phases
    <3>1. CASE Run.policy # policy
      BY <1>3, <1>4, <1>5, <3>1
    <3>2. CASE Run.policy = policy
      <4>1. Run.state \in {"pausing", "stopping"}
        BY <2>1, <3>2 DEF Passes
      <4> QED
        BY <1>3, <1>4, <1>5, <3>2, <4>1
    <3> QED
      BY <3>1, <3>2
  <2> HIDE DEF rec
  <2>4. runs'[wk.run].state = rec.state
    BY <1>2, <2>1, <2>3, TypeParts, BecomesTyped
  <2>5. RestoringWork'
    BY <2>2, <2>3, <2>4, Gone DEF Run
  <2>6. CursorsOfWalked' /\ RestoringRuns'
    BY <1>1, <2>1, <2>3, LeavesRestored
  <2> QED
    BY <2>5, <2>6 DEF RestoreInv
<1> QED
  BY <1>8, <1>9, <1>10, <1>11, <1>12

\* A claimed run has reconciled nothing; a resumed one keeps its cursors, which start again at
\* the first scope.
LEMMA RunOnceRestores ==
    ASSUME TypeInv, RestoreInv, RunOnce
    PROVE  RestoreInv'
<1>1. UNCHANGED track /\ RunsTyped /\ WorkerTyped
  BY TypeParts DEF RunOnce, worldVars
<1>2. ASSUME NEW q \in Runs, runs[q] # NoRun, NEW state \in Phases, Take(q, state),
             \A r \in ActiveRuns' : r # q => r \in ActiveRuns /\ since' = since,
             \/ q \in ActiveRuns /\ since' = since /\ state = runs[q].state
             \/ runs[q].at.walked = {} /\ state = "discovering"
      PROVE  RestoreInv'
  <2>1. Row(runs[q]) /\ runs[q] \in RunRecords /\ runs[q].at \in Progress
    BY <1>1, <1>2, HasScope DEF RunsTyped, RowsOK, Row
  <2> DEFINE unfinished == Members(runs[q].scopes) \ runs[q].at.walked
             at == IF state = "discovering" THEN NewGeneration(runs[q].at, unfinished) ELSE runs[q].at
  <2>2. runs' = [runs EXCEPT ![q] = [[runs[q] EXCEPT !.state = state] EXCEPT !.at = at]]
    BY <1>2 DEF Take
  <2>3. at.walked = runs[q].at.walked /\ at.cursor = runs[q].at.cursor
    BY <2>1 DEF NewGeneration, Progress
  <2>4. /\ runs'[q].at = at /\ runs'[q].state = state /\ runs'[q].scopes = runs[q].scopes
        /\ runs'[q].resume = runs[q].resume
        /\ \A r \in Runs : r # q => runs'[r] = runs[r]
    BY <1>1, <2>1, <2>2 DEF RunsTyped, RunRecords
  <2> HIDE DEF at, unfinished
  <2>5. CursorsOfWalked'
    <3> SUFFICES ASSUME NEW r \in Runs, runs'[r] # NoRun, NEW s \in Scopes \ runs'[r].at.walked
                 PROVE  runs'[r].at.cursor[s] = 0
      BY DEF CursorsOfWalked
    <3>1. CASE r = q
      BY <1>2, <2>3, <2>4, <3>1 DEF RestoreInv, CursorsOfWalked
    <3>2. CASE r # q
      BY <2>4, <3>2 DEF RestoreInv, CursorsOfWalked
    <3> QED
      BY <3>1, <3>2
  <2>6. RestoringRuns'
    <3> SUFFICES ASSUME NEW r \in ActiveRuns'
                 PROVE  /\ Late(runs'[r]) # {} => Walked(runs'[r])
                        /\ \A s \in runs'[r].at.walked : \A f \in FilesIn[s] \intersect since' :
                              f <= runs'[r].at.cursor[s] => track'[f] # "missing"
      BY DEF RestoringRuns
    <3>1. CASE r # q
      <4>1. r \in ActiveRuns /\ since' = since /\ r \in Runs /\ runs'[r] = runs[r]
        BY <1>2, <2>4, <3>1 DEF ActiveRuns
      <4> QED
        BY <1>1, <4>1 DEF RestoreInv, RestoringRuns
    <3>2. CASE r = q /\ q \in ActiveRuns /\ since' = since /\ state = runs[q].state
      <4>1. Late(runs'[q]) = Late(runs[q]) /\ (Walked(runs[q]) => Walked(runs'[q]))
        BY <2>3, <2>4, <3>2 DEF Late, Walked
      <4> QED
        BY <1>1, <2>3, <2>4, <3>2, <4>1 DEF RestoreInv, RestoringRuns
    <3>3. CASE r = q /\ runs[q].at.walked = {} /\ state = "discovering"
      <4>1. Late(runs'[q]) = {}
        BY <2>4, <3>3 DEF Late
      <4> QED
        BY <2>3, <2>4, <3>3, <4>1
    <3> QED
      BY <1>2, <3>1, <3>2, <3>3
  <2>7. /\ wk'.pc \in {"scope", "indexStart", "reconcile"}
        /\ wk'.scope = 1 /\ wk'.run = q /\ wk'.phase = state
    BY <1>2 DEF Take, Idle
  <2>8. Run'.state = wk'.phase /\ 1 .. wk'.scope - 1 = {}
    BY <2>4, <2>7 DEF Run
  <2>9. RestoringWork'
    BY <2>7, <2>8 DEF RestoringWork, At
  <2> QED
    BY <2>5, <2>6, <2>9 DEF RestoreInv
<1>3. CASE Resumable # {}
  <2> DEFINE q == First(Resumable)
  <2>1. q \in Resumable
    BY <1>3, PlainRuns, FirstRun
  <2>2. Take(q, runs[q].state) /\ since' = since
    BY <1>3 DEF RunOnce
  <2> HIDE DEF q
  <2>3. q \in Runs /\ runs[q] # NoRun /\ runs[q].state \in Phases /\ q \in ActiveRuns
    BY <2>1 DEF Resumable, ActiveRuns, InState
  <2>4. \A r \in ActiveRuns' : r # q => r \in ActiveRuns
    BY <1>1, <2>2 DEF Take, RunsTyped, ActiveRuns, InState
  <2> QED
    BY <1>2, <2>2, <2>3, <2>4
<1>4. CASE Resumable = {}
  <2> DEFINE q == First(Queued)
  <2>1. Queued # {} /\ ActiveRuns = {} /\ Take(q, "discovering")
    BY <1>4 DEF RunOnce
  <2>2. q \in Queued
    BY <2>1, PlainRuns, FirstRun
  <2> HIDE DEF q
  <2>3. q \in Runs /\ runs[q] # NoRun /\ runs[q].state = "queued" /\ "discovering" \in Phases
    BY <2>2 DEF Queued, InState, Phases
  <2>4. runs[q].at.walked = {}
    BY <1>1, <2>3 DEF RunsTyped, RowsOK, Row
  <2>5. \A r \in ActiveRuns' : r = q
    <3> SUFFICES ASSUME NEW r \in ActiveRuns', r # q PROVE FALSE
      OBVIOUS
    <3>1. runs'[r] = runs[r]
      BY <1>1, <2>1 DEF Take, RunsTyped, ActiveRuns, InState
    <3>2. r \in ActiveRuns
      BY <3>1 DEF ActiveRuns, InState
    <3> QED
      BY <2>1, <3>2
  <2> QED
    BY <1>2, <2>1, <2>3, <2>4, <2>5
<1> QED
  BY <1>3, <1>4

\* The publisher, other programs, the policy, and restarts, which leave the worker no run.
LEMMA WorldStepRestores ==
    ASSUME NoneRevived, TypeInv, RunsOK, WorkerOK, RestoreInv, WorldStep
    PROVE  RestoreInv'
<1> /\ RunsTyped /\ wk \in WorkerType /\ since \subseteq disk
    /\ track \in [Files -> {"none", "indexed", "missing"}]
  BY TypeParts DEF WorkerTyped
<1>1. ASSUME UNCHANGED runs, wk' = wk \/ wk' = [wk EXCEPT !.clean = FALSE], NoneLost
      PROVE  RestoreInv'
  <2>1. \A q \in ActiveRuns' : q \in ActiveRuns /\ runs'[q] = runs[q]
    BY <1>1 DEF ActiveRuns, InState
  <2>2. CursorsOfWalked' /\ RestoringRuns'
    BY <1>1, <2>1, CursorFrame, RunsFrame DEF RestoreInv
  <2>3. /\ wk'.pc = wk.pc /\ wk'.run = wk.run /\ wk'.phase = wk.phase /\ wk'.scope = wk.scope
    BY <1>1 DEF WorkerType
  <2>4. RestoringWork'
    BY <1>1, <2>3, WorkFrame DEF RestoreInv, Run
  <2> QED
    BY <2>2, <2>4 DEF RestoreInv
<1>2. CASE Commit \/ Rollback
  <2>1. UNCHANGED runs /\ (wk' = wk \/ wk' = [wk EXCEPT !.clean = FALSE])
    BY <1>2 DEF Commit, Rollback, Release
  <2>2. NoneLost
    BY <1>2 DEF Commit, Rollback, NoneLost
  <2> QED
    BY <1>1, <2>1, <2>2
<1>3. CASE UNCHANGED <<runs, wk, track>> /\ since' \subseteq since
  BY <1>1, <1>3 DEF NoneLost
<1>4. CASE Restart
  <2>1. NoneActivated
    BY <1>4, WorldStepKeeps DEF Kept
  <2>2. NoneLost
    BY <1>4 DEF Restart, NoneLost
  <2>3. \A r \in Runs : runs'[r] = Recovered(runs[r])
    BY <1>4 DEF Restart
  <2>4. ASSUME NEW r \in Runs, runs[r] # NoRun
        PROVE  /\ runs'[r].at = NoProgress \/ runs'[r].at = runs[r].at
               /\ runs'[r].state \in Active => runs'[r].at = runs[r].at
               /\ runs'[r].scopes = runs[r].scopes
    <3>1. runs[r] \in RunRecords
      BY <2>4 DEF RunsTyped
    <3> QED
      BY <2>3, <2>4, <3>1 DEF Recovered, RunRecords, Active, Phases
  <2>5. ASSUME NEW r \in ActiveRuns
        PROVE  Late(runs'[r]) \subseteq Late(runs[r])
    <3>1. r \in Runs /\ runs[r] # NoRun /\ runs[r].state \in Active /\ runs[r] \in RunRecords
      BY DEF ActiveRuns, InState, RunsTyped
    <3>2. runs[r].control = "pause" => runs[r].state = "pausing"
      BY <3>1 DEF RunsOK, GoodRun, ControlAgrees, Active, Phases, Terminal
    <3> QED
      BY <2>3, <3>1, <3>2 DEF Recovered, RunRecords, Late
  <2>6. \A r \in ActiveRuns' : r \in ActiveRuns /\ r \in Runs /\ runs[r] # NoRun
                               /\ runs'[r].state \in Active
    BY <2>1 DEF NoneActivated, ActiveRuns, InState
  <2>7. \A r \in Runs : runs[r] = NoRun => runs'[r] = NoRun
    BY <2>3 DEF Recovered
  <2>8. CursorsOfWalked'
    BY <2>4, <2>7, CursorFrame DEF RestoreInv
  <2>9. RestoringRuns'
    BY <2>2, <2>4, <2>5, <2>6, RunsFrame DEF RestoreInv
  <2>10. wk'.pc = "idle"
    BY <1>4 DEF Restart, Idle
  <2> QED
    BY <2>8, <2>9, <2>10, Gone DEF RestoreInv
<1>5. WorldStep => \/ Commit \/ Rollback \/ Restart
                   \/ UNCHANGED <<runs, wk, track>> /\ since' \subseteq since
  BY DEF WorldStep, Place, ChangePolicy, RemoveFile, AddFile
<1> QED
  BY <1>2, <1>3, <1>4, <1>5

LEMMA RestoreInit == Init => RestoreInv
  BY DEF Init, RestoreInv, CursorsOfWalked, RestoringRuns, RestoringWork, ActiveRuns, InState,
         At, Idle, Ends

LEMMA RestoreStep ==
    ASSUME NoneRevived, "resumeBeforeUnwind" \notin Admits,
           TypeInv, ScanInv, InventoryInv, RestoreInv, [Next]_vars
    PROVE  RestoreInv'
<1> RunsOK /\ WorkerOK /\ OneActiveRun
  BY DEF ScanInv
<1>1. CASE UserStep
  BY <1>1, UserStepRestores
<1>2. CASE NextScope \/ Persist \/ WalkOn \/ WalkFails \/ EndWalk \/ CompleteScope
           \/ \E f \in Files : LookAt(f)
  BY <1>2, WalkStepRestores
<1>3. CASE StartIndex \/ CommitIndex \/ EndIndex \/ ReconcileRow \/ ReconcileNext
           \/ \E f \in Files : ReadTags(f)
  BY <1>3, IndexStepRestores
<1>4. CASE Unwind \/ Reread \/ Leave \/ Advance \/ Refuse
  BY <1>4, PhaseStepRestores
<1>5. CASE RunOnce
  BY <1>5, RunOnceRestores
<1>6. CASE WorldStep
  BY <1>6, WorldStepRestores
<1>7. CASE UNCHANGED vars
  BY <1>7 DEF vars, RestoreInv, CursorsOfWalked, RestoringRuns, RestoringWork, Walked, Restored1,
              Late, ActiveRuns, InState, At, Run
<1> QED
  BY <1>1, <1>2, <1>3, <1>4, <1>5, <1>6, <1>7 DEF Next, WorkerStep

\* A write completes a run that reconciles only if it says so, and progress never.
LEMMA WriteCompletes ==
    ASSUME TypeInv, NEW q \in Runs, NEW rec, Row(rec), Becomes(q, rec),
           NEW r \in Runs, InState(r, {"reconciling"}), runs'[r].state = "completed"
    PROVE  q = r /\ rec.state = "completed"
<1>1. runs'[q].state = rec.state /\ \A p \in Runs : p # q => runs'[p] = runs[p]
  BY TypeParts, BecomesTyped
<1> QED
  BY <1>1 DEF InState

LEMMA ProgressCompletes ==
    ASSUME TypeInv, NEW q, NEW at, Updates(q, at), NEW r \in Runs, InState(r, {"reconciling"})
    PROVE  runs'[r].state # "completed"
<1>1. runs \in [Runs -> RunRecords \union {NoRun}] /\ runs' = [runs EXCEPT ![q].at = at]
  BY TypeParts DEF RunsTyped, Updates
<1>2. runs[r] \in RunRecords /\ runs[r].state = "reconciling"
  BY <1>1 DEF InState
<1> QED
  BY <1>1, <1>2 DEF RunRecords

\* What the worker writes when it leaves a run completes none.
LEMMA LeavingCompletes ==
    ASSUME TypeInv, ~At("idle"), NEW rec,
           rec \in {Settled(Run), Superseded(Run), [Run EXCEPT !.state = "failed"]},
           Becomes(wk.run, rec), NEW r \in Runs, InState(r, {"reconciling"})
    PROVE  runs'[r].state # "completed"
<1>1. Row(Run) /\ wk.run \in Runs /\ Run.state \in RunStates
  BY InHand DEF RunRecords
<1>2. Row(rec)
  BY <1>1, RowLeaves
<1>3. Run.state = "reconciling" => rec.state # "completed"
  BY <1>1 DEF Settled, Superseded, Row, RunRecords, Phases
<1> QED
  BY <1>1, <1>2, <1>3, WriteCompletes DEF InState, Run

LEMMA FailsCompletes ==
    ASSUME TypeInv, ~At("idle"), Fails, NEW r \in Runs, InState(r, {"reconciling"})
    PROVE  runs'[r].state # "completed"
<1>1. CASE Run.state \in Phases
  BY <1>1, LeavingCompletes DEF Fails
<1>2. CASE Run.state \notin Phases
  BY <1>2, LeavingCompletes DEF Fails
<1> QED
  BY <1>1, <1>2

LEMMA UserStepCompletes ==
    ASSUME TypeInv, UserStep, NEW r \in Runs, InState(r, {"reconciling"})
    PROVE  runs'[r].state # "completed"
<1>1. RunsTyped /\ runs[r] \in RunRecords /\ runs[r].state = "reconciling"
  BY TypeParts DEF RunsTyped, InState
<1>2. ASSUME NEW request \in Requests, Request(request)
      PROVE  runs'[r].state # "completed"
  <2>1. CASE UNCHANGED runs
    BY <1>1, <2>1
  <2>2. ASSUME NEW q, Expand(q, request)
        PROVE  runs'[r].state # "completed"
    <3>1. \/ runs' = runs
          \/ \E more : runs' = [runs EXCEPT ![q].scopes = more]
      BY <2>2 DEF Expand
    <3>2. CASE runs' = runs
      BY <1>1, <3>2
    <3>3. ASSUME NEW more, runs' = [runs EXCEPT ![q].scopes = more]
          PROVE  runs'[r].state # "completed"
      BY <1>1, <3>3 DEF RunsTyped, RunRecords
    <3> QED
      BY <3>1, <3>2, <3>3
  <2>3. CASE Enqueue(request)
    <3> DEFINE q == First({p \in Runs : runs[p] = NoRun})
    <3>1. runs' = [runs EXCEPT ![q] =
              [state |-> "queued", control |-> "none", resume |-> "none",
               policy |-> policy, scopes |-> request, at |-> NoProgress]]
      BY <2>3 DEF Enqueue
    <3> HIDE DEF q
    <3> QED
      BY <1>1, <3>1 DEF RunsTyped
  <2> QED
    BY <1>2, <2>1, <2>2, <2>3 DEF Request, Coalesce
<1>3. ASSUME NEW q \in Runs, Pause(q) \/ ResumeRun(q) \/ Stop(q)
      PROVE  runs'[r].state # "completed"
  <2>1. Row(runs[q]) /\ runs[q] \in RunRecords
    BY <1>1, <1>3 DEF Pause, ResumeRun, Stop, InState, RunsTyped, RowsOK, Row
  <2>2. CASE Pause(q)
    <3>1. Becomes(q, [runs[q] EXCEPT !.state = "pausing", !.control = "pause", !.resume = runs[q].state])
          /\ runs[q].state \in Phases
      BY <2>2 DEF Pause, InState
    <3>2. Row([runs[q] EXCEPT !.state = "pausing", !.control = "pause", !.resume = runs[q].state])
      BY <2>1, <3>1 DEF Row, RunRecords, RunStates, Active, Phases
    <3>3. [runs[q] EXCEPT !.state = "pausing", !.control = "pause", !.resume = runs[q].state].state
              # "completed"
      BY <2>1 DEF RunRecords
    <3> QED
      BY <3>1, <3>2, <3>3, WriteCompletes
  <2>3. CASE ResumeRun(q)
    <3> DEFINE rec == [runs[q] EXCEPT !.state = runs[q].resume, !.control = "none", !.resume = "none"]
    <3>1. Becomes(q, rec) /\ runs[q].state = "paused"
      BY <2>3 DEF ResumeRun, InState
    <3>2. Row(rec) /\ rec.state \in Phases
      BY <2>1, <3>1 DEF Row, RunRecords, RunStates, Active, Phases
    <3> HIDE DEF rec
    <3> QED
      BY <3>1, <3>2, WriteCompletes DEF Phases
  <2>4. CASE Stop(q)
    <3>1. PICK state \in {"cancelled", "stopping"}, control \in {"none", "stop"} :
              Becomes(q, [runs[q] EXCEPT !.state = state, !.control = control])
      BY <2>4 DEF Stop, InState
    <3> DEFINE rec == [runs[q] EXCEPT !.state = state, !.control = control]
    <3>2. Row(rec) /\ rec.state = state
      BY <2>1 DEF Row, RunRecords, RunStates, Active, Terminal
    <3>3. Becomes(q, rec)
      BY <3>1
    <3> HIDE DEF rec
    <3> QED
      BY <3>2, <3>3, WriteCompletes
  <2> QED
    BY <1>3, <2>2, <2>3, <2>4
<1> QED
  BY <1>2, <1>3 DEF UserStep

\* Only the step out of reconciliation completes a run that reconciles.
LEMMA Completes ==
    ASSUME TypeInv, WorkerOK, [Next]_vars, NEW r \in Runs, InState(r, {"reconciling"}),
           runs'[r].state = "completed"
    PROVE  r = wk.run /\ At("advance") /\ wk.fresh /\ UNCHANGED track
<1>1. RunsTyped /\ runs[r] \in RunRecords /\ runs[r].state = "reconciling" /\ wk.fresh \in BOOLEAN
  BY TypeParts DEF RunsTyped, InState, WorkerOK
<1>2. ~UNCHANGED runs
  BY <1>1
<1>3. \A at : ~Updates(wk.run, at)
  BY ProgressCompletes
<1>4. ~(~At("idle") /\ Fails)
  BY FailsCompletes
<1>5. CASE UserStep
  BY <1>5, UserStepCompletes
<1>6. CASE WorldStep
  <2>1. \A q \in Runs : runs'[q] = Recovered(runs[q])
    BY <1>2, <1>6 DEF WorldStep, Place, Commit, Rollback, ChangePolicy, Restart, RemoveFile, AddFile
  <2>2. Recovered(runs[r]).state # "completed"
    BY <1>1 DEF Recovered, RunRecords
  <2> QED
    BY <2>1, <2>2
<1>7. CASE RunOnce
  <2>1. ASSUME NEW q, NEW state \in Phases, Take(q, state)
        PROVE  FALSE
    <3>1. PICK at : runs' = [runs EXCEPT ![q] = [[runs[q] EXCEPT !.state = state] EXCEPT !.at = at]]
      BY <2>1 DEF Take
    <3>2. runs'[r].state \in Phases \union {"reconciling"}
      BY <1>1, <3>1 DEF RunsTyped, RunRecords
    <3> QED
      BY <3>2 DEF Phases
  <2>2. CASE Resumable # {}
    <3> DEFINE q == First(Resumable)
    <3>1. q \in Resumable
      BY <2>2, PlainRuns, FirstRun
    <3>2. Take(q, runs[q].state)
      BY <1>7, <2>2 DEF RunOnce
    <3> HIDE DEF q
    <3>3. runs[q].state \in Phases
      BY <3>1 DEF Resumable
    <3> QED
      BY <2>1, <3>2, <3>3
  <2>3. CASE Resumable = {}
    <3> DEFINE q == First(Queued)
    <3>1. Take(q, "discovering")
      BY <1>7, <2>3 DEF RunOnce
    <3> HIDE DEF q
    <3> QED
      BY <2>1, <3>1 DEF Phases
  <2> QED
    BY <2>2, <2>3
<1>8. CASE WorkerStep /\ ~RunOnce
  <2>1. \/ Persist /\ ~wk.fresh
        \/ CommitIndex \/ Unwind \/ Reread \/ Advance \/ Refuse
    BY <1>2, <1>3, <1>8 DEF WorkerStep, NextScope, Persist, WalkOn, WalkFails, EndWalk, Rewalk,
       RecordFence, CompleteScope, Leave, StartIndex, EndIndex, ReconcileRow, ReconcileNext,
       LookAt, ReadTags, Done, runVars
  <2>2. ~At("idle")
    BY <2>1 DEF Persist, CommitIndex, Unwind, Reread, Advance, Refuse, At
  <2>3. CASE Persist /\ ~wk.fresh
    BY <1>4, <2>2, <2>3 DEF Persist
  <2>4. CASE CommitIndex
    BY <1>3, <1>4, <2>2, <2>4 DEF CommitIndex, Done
  <2>5. CASE Unwind
    <3>1. CASE Run.state = "discovering"
      BY <2>2, <2>5, <3>1, LeavingCompletes DEF Unwind
    <3>2. CASE Run.state # "discovering"
      BY <2>2, <2>5, <3>2, LeavingCompletes DEF Unwind
    <3> QED
      BY <3>1, <3>2
  <2>6. CASE Reread
    BY <1>2, <2>2, <2>6, LeavingCompletes DEF Reread, runVars
  <2>7. CASE Refuse
    <3>1. CASE Run.policy # policy
      BY <2>2, <2>7, <3>1, LeavingCompletes DEF Refuse
    <3>2. CASE Run.policy = policy
      BY <2>2, <2>7, <3>2, LeavingCompletes DEF Refuse
    <3> QED
      BY <3>1, <3>2
  <2>8. CASE Advance
    <3>1. At("advance") /\ UNCHANGED track /\ wk.fresh
      BY <1>1, <1>4, <2>2, <2>8 DEF Advance, worldVars
    <3>2. PICK state \in Phases \union {"completed"} : Becomes(wk.run, [Run EXCEPT !.state = state])
      BY <2>8, <3>1 DEF Advance, Phases
    <3> DEFINE rec == [Run EXCEPT !.state = state]
    <3>3. Becomes(wk.run, rec) /\ Row(Run) /\ wk.run \in Runs
      BY <2>2, <3>2, InHand
    <3>4. Row(rec)
      BY <3>3, RowLeaves
    <3> HIDE DEF rec
    <3> QED
      BY <3>1, <3>3, <3>4, WriteCompletes
  <2> QED
    BY <2>1, <2>3, <2>4, <2>5, <2>6, <2>7, <2>8
<1> QED
  BY <1>2, <1>5, <1>6, <1>7, <1>8 DEF Next, vars

\* When a run completes, every file of its scopes that was on disk ever since the run was
\* claimed, and is in the catalogue, is available (reconcile_scan_scope_batch, its cursors and
\* the discovery that a resumed run starts again).  Assumed, besides what MarksOnlyAbsentHolds
\* assumes: a paused run is resumed when its worker has let go of it.
THEOREM CompletedScanRestoresHolds ==
    ASSUME NoneRevived, "restartAfterWalk" \notin Admits,
           "resumeBeforeUnwind" \notin Admits, OneScopePerRoot
    PROVE  Spec => CompletedScanRestores
<1> DEFINE Inv == TypeInv /\ ScanInv /\ InventoryInv /\ RestoreInv
<1>1. Init => Inv
  BY TypeInit, ScanInit, InventoryInit, RestoreInit
<1>2. Inv /\ [Next]_vars => Inv'
  BY TypeStep, ScanStep, InventoryStep, RestoreStep DEF ScanInv
<1>3. Inv /\ [Next]_vars => [PresentRestored]_vars
  <2> SUFFICES ASSUME Inv, [Next]_vars, NEW r \in Runs, InState(r, {"reconciling"}),
                      runs'[r].state = "completed", NEW s \in Members(runs[r].scopes),
                      NEW f \in FilesIn[s] \intersect since
               PROVE  track[f] # "missing"
    BY DEF PresentRestored
  <2>1. r = wk.run /\ At("advance") /\ wk.fresh
    BY Completes DEF ScanInv
  <2>2. wk.phase = "reconciling"
    BY <2>1 DEF ScanInv, WorkerOK, InState, Run, At
  <2>3. Restored1(s)
    BY <2>1, <2>2 DEF RestoreInv, RestoringWork, At, InState, Run
  <2> QED
    BY <2>3 DEF Restored1
<1> QED
  BY <1>1, <1>2, <1>3, PTL DEF Spec, CompletedScanRestores
=============================================================================
