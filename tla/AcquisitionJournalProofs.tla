---------------------- MODULE AcquisitionJournalProofs ----------------------
(***************************************************************************)
(* Theorems of AcquisitionJournal, for every set of attempts, tasks and    *)
(* workers.  TypeInv is TypeOK with what makes it inductive: a worker      *)
(* remembers and claims only rows that exist, so that what it writes back  *)
(* is a row, and RowsAgree that every row fits its state.  LeaseInv        *)
(* relates the leases to the pipelines, SourceInv the barriers of a debt   *)
(* to the publications that read its bytes (a task starts one attempt at   *)
(* each path: OneAtPath), CleanInv what a worker found out about a job to  *)
(* what the client still holds.                                            *)
(***************************************************************************)
EXTENDS AcquisitionJournal, TLAPS

-----------------------------------------------------------------------------
(* Type correctness *)

JournalOK ==
    /\ row \in [Attempts -> Rows \union {NoRow}]
    /\ current \in [Attempts -> SUBSET Workers]
    /\ \A a \in Attempts : current[a] # {} => row[a] \in Rows

ClaimOK ==
    /\ claim \in [Workers -> [Attempts -> Rows \union {NoRow}]]
    /\ \A w \in Workers, a \in Attempts : claim[w][a] \in Rows => row[a] \in Rows

Wks == [pc : Pcs, item : Attempts \union {NoAttempt}, found : Findings,
        code : {"none", "barrier", "other"}]

WkOK ==
    /\ wk \in [Workers -> Wks]
    /\ \A w \in Workers :
          IF wk[w].pc = "idle" THEN wk[w] = Idle
          ELSE wk[w].item \in Attempts /\ claim[w][wk[w].item] \in Rows

TaskOK ==
    /\ status \in [Tasks -> Statuses]
    /\ using \in [Tasks -> Attempts \union {NoAttempt}]
    /\ link \in [Tasks -> Attempts \union {NoAttempt}]
    /\ manifest \in [Tasks -> BOOLEAN]
    /\ nudged \subseteq Attempts

WorldOK ==
    /\ sent \subseteq Attempts
    /\ bundle \in [Attempts -> BundleStates]
    /\ disk \in [Paths -> Attempts \union {NoAttempt}]
    /\ client \in [Paths -> Records]

TypeInv == JournalOK /\ ClaimOK /\ WkOK /\ TaskOK /\ WorldOK

\* No step makes a row vanish.
KeepsRows == \A a \in Attempts : row[a] \in Rows => row'[a] \in Rows

LEMMA NoRowIsNoRow == NoRow \notin Rows
  BY DEF NoRow, Rows, RowStates

LEMMA NewRowIsRow == NewRow \in Rows /\ [NewRow EXCEPT !.state = "in_use"] \in Rows
<1>1. NewRow \in Rows
  BY DEF NewRow, Rows, RowStates, Pins
<1> QED
  BY <1>1 DEF Rows, RowStates

LEMMA ReleasedIsRow == \A r \in Rows : Released(r) \in Rows
  BY WorkersAssumption DEF Released, Rows

LEMMA DebtIsRow ==
    \A r \in Rows, d \in {"discard", "preserve"}, b \in SUBSET Attempts :
        Debt(r, d, b) \in Rows
<1> TAKE r \in Rows, d \in {"discard", "preserve"}, b \in SUBSET Attempts
<1> DEFINE s == Released(r)
           target == IF d = "discard" THEN "cleanup_pending" ELSE "preserved"
<1>1. s \in Rows /\ target \in RowStates
  BY ReleasedIsRow DEF RowStates
<1>2. Debt(r, d, b) = [s EXCEPT !.state = target, !.disposition = d, !.barriers = b,
                               !.due = TRUE, !.error = "none"]
  BY DEF Debt
<1> HIDE DEF s, target
<1> QED
  BY <1>1, <1>2 DEF Rows

LEMMA ExistsIsRow ==
    ASSUME JournalOK, NEW a \in Attempts
    PROVE  Exists(a) <=> row[a] \in Rows
  BY NoRowIsNoRow DEF JournalOK, Exists

LEMMA WriteJournal ==
    ASSUME JournalOK, NEW a \in Attempts, NEW r \in Rows, NEW writers \in SUBSET Workers,
           Write(a, r, writers)
    PROVE  JournalOK' /\ KeepsRows
  BY DEF JournalOK, Write, KeepsRows

LEMMA ScheduleAllJournal ==
    ASSUME JournalOK, NEW as \in SUBSET Attempts, NEW d \in {"discard", "preserve"},
           NEW b \in SUBSET Attempts, ScheduleAll(as, d, b)
    PROVE  JournalOK' /\ KeepsRows
<1> DEFINE open == {a \in as : Exists(a) /\ row[a].state \notin Settled}
<1>1. \A a \in open : row[a] \in Rows /\ Debt(row[a], d, b) \in Rows
  BY ExistsIsRow, DebtIsRow
<1>2. row' = [a \in Attempts |-> IF a \in open THEN Debt(row[a], d, b) ELSE row[a]]
  BY DEF ScheduleAll
<1>3. current' = [a \in Attempts |-> IF a \in open THEN {} ELSE current[a]]
  BY DEF ScheduleAll
<1> HIDE DEF open
<1> QED
  BY <1>1, <1>2, <1>3 DEF JournalOK, KeepsRows

\* A worker moves on within its item.
LEMMA GotoWk ==
    ASSUME TypeInv, NEW w \in Workers, wk[w].pc # "idle", NEW pc \in Pcs \ {"idle"},
           Goto(w, pc), UNCHANGED claim
    PROVE  WkOK'
<1>1. wk[w] \in Wks /\ wk' = [wk EXCEPT ![w] = [wk[w] EXCEPT !.pc = pc]]
  BY DEF TypeInv, WkOK, Goto
<1>2. [wk[w] EXCEPT !.pc = pc] \in Wks
  BY <1>1 DEF Wks
<1> QED
  BY <1>1, <1>2 DEF TypeInv, WkOK, Wks

LEMMA RaiseWk ==
    ASSUME TypeInv, NEW w \in Workers, wk[w].pc # "idle", NEW pc \in Pcs \ {"idle"},
           NEW code \in {"barrier", "other"}, Raise(w, pc, code), UNCHANGED claim
    PROVE  WkOK'
<1>1. wk[w] \in Wks /\ wk' = [wk EXCEPT ![w] = [wk[w] EXCEPT !.pc = pc, !.code = code]]
  BY DEF TypeInv, WkOK, Raise
<1>2. [wk[w] EXCEPT !.pc = pc, !.code = code] \in Wks
  BY <1>1 DEF Wks
<1> QED
  BY <1>1, <1>2 DEF TypeInv, WkOK, Wks

LEMMA IdleIsWk == Idle \in Wks
  BY DEF Idle, Wks, Pcs, Findings

\* A worker is done with its item.
LEMMA FinishWorker ==
    ASSUME TypeInv, JournalOK', KeepsRows, NEW w \in Workers, wk[w].pc # "idle", Finish(w)
    PROVE  ClaimOK' /\ WkOK'
<1>1. wk[w].item \in Attempts /\ claim[w] \in [Attempts -> Rows \union {NoRow}]
  BY DEF TypeInv, WkOK, ClaimOK
<1>2. claim' = [claim EXCEPT ![w] = [claim[w] EXCEPT ![wk[w].item] = NoRow]]
  BY DEF Finish
<1>3. wk' = [wk EXCEPT ![w] = Idle]
  BY DEF Finish
<1>4. ClaimOK'
  BY <1>1, <1>2, NoRowIsNoRow DEF TypeInv, ClaimOK, KeepsRows
<1>5. WkOK'
  BY <1>1, <1>2, <1>3, IdleIsWk DEF TypeInv, WkOK, Wks, Idle
<1> QED
  BY <1>4, <1>5

LEMMA CasWorker ==
    ASSUME TypeInv, NEW w \in Workers, wk[w].pc # "idle", NEW pc \in Pcs \ {"idle"}, NEW r,
           row[wk[w].item] \in Rows => r \in Rows,
           Cas(w, r, pc)
    PROVE  JournalOK' /\ KeepsRows /\ ClaimOK' /\ WkOK'
<1> DEFINE a == wk[w].item
<1>1. a \in Attempts /\ row[a] \in Rows /\ r \in Rows
  BY DEF TypeInv, WkOK, ClaimOK
<1>2. CASE w \in current[a]
  <2>1. Write(a, r, {w}) /\ claim' = [claim EXCEPT ![w][a] = r] /\ Goto(w, pc)
    BY <1>2 DEF Cas
  <2>2. JournalOK' /\ KeepsRows
    BY <1>1, <2>1, WriteJournal DEF TypeInv
  <2>3. row'[a] \in Rows
    BY <1>1, <2>2 DEF KeepsRows
  <2>4. claim' = [claim EXCEPT ![w] = [claim[w] EXCEPT ![a] = r]]
    BY <2>1
  <2>5. ClaimOK'
    BY <1>1, <2>2, <2>3, <2>4 DEF TypeInv, ClaimOK, KeepsRows
  <2>6. wk[w] \in Wks /\ wk' = [wk EXCEPT ![w] = [wk[w] EXCEPT !.pc = pc]]
    BY <2>1 DEF TypeInv, WkOK, Goto
  <2>7. [wk[w] EXCEPT !.pc = pc] \in Wks
    BY <2>6 DEF Wks
  <2>8. \A v \in Workers, b \in Attempts : claim[v][b] \in Rows => claim'[v][b] \in Rows
    BY <1>1, <2>4 DEF TypeInv, ClaimOK
  <2>9. WkOK'
    BY <1>1, <2>6, <2>7, <2>8 DEF TypeInv, WkOK, Wks
  <2> QED
    BY <2>2, <2>5, <2>9
<1>3. CASE w \notin current[a]
  <2>1. Raise(w, "retry", "other") /\ UNCHANGED <<row, current, claim>>
    BY <1>3 DEF Cas, Retryable, journalVars
  <2>2. WkOK'
    BY <2>1, RaiseWk DEF Pcs
  <2> QED
    BY <2>1, <2>2 DEF TypeInv, JournalOK, KeepsRows, ClaimOK
<1> QED
  BY <1>2, <1>3

LEMMA CasFinishWorker ==
    ASSUME TypeInv, NEW w \in Workers, wk[w].pc # "idle", NEW r,
           row[wk[w].item] \in Rows => r \in Rows,
           CasFinish(w, r)
    PROVE  JournalOK' /\ KeepsRows /\ ClaimOK' /\ WkOK'
<1> DEFINE a == wk[w].item
<1>1. a \in Attempts /\ row[a] \in Rows /\ r \in Rows
  BY DEF TypeInv, WkOK, ClaimOK
<1>2. CASE w \in current[a]
  <2>1. Write(a, r, {w}) /\ Finish(w)
    BY <1>2 DEF CasFinish
  <2>2. JournalOK' /\ KeepsRows
    BY <1>1, <2>1, WriteJournal DEF TypeInv
  <2> QED
    BY <2>1, <2>2, FinishWorker
<1>3. CASE w \notin current[a]
  <2>1. Raise(w, "retry", "other") /\ UNCHANGED <<row, current, claim>>
    BY <1>3 DEF CasFinish, Retryable, journalVars
  <2>2. WkOK'
    BY <2>1, RaiseWk DEF Pcs
  <2> QED
    BY <2>1, <2>2 DEF TypeInv, JournalOK, KeepsRows, ClaimOK
<1> QED
  BY <1>2, <1>3

LEMMA HandlerWriteWorker ==
    ASSUME TypeInv, NEW w \in Workers, wk[w].pc # "idle", NEW r,
           row[wk[w].item] \in Rows => r \in Rows,
           HandlerWrite(w, r)
    PROVE  TypeInv' /\ KeepsRows
<1> DEFINE a == wk[w].item
<1>1. a \in Attempts /\ row[a] \in Rows /\ r \in Rows
  BY DEF TypeInv, WkOK, ClaimOK
<1>2. JournalOK' /\ KeepsRows
  <2>1. CASE w \in current[a]
    BY <1>1, <2>1, WriteJournal DEF TypeInv, HandlerWrite
  <2>2. CASE w \notin current[a]
    BY <2>2 DEF HandlerWrite, journalVars, TypeInv, JournalOK, KeepsRows
  <2> QED
    BY <2>1, <2>2
<1>3. ClaimOK' /\ WkOK'
  BY <1>2, FinishWorker DEF HandlerWrite
<1>4. TaskOK' /\ WorldOK'
  BY DEF HandlerWrite, taskVars, worldVars, TypeInv, TaskOK, WorldOK
<1> QED
  BY <1>2, <1>3, <1>4 DEF TypeInv

-----------------------------------------------------------------------------
(* The steps of pipelines and commands keep the types *)

LEMMA OutcomesTyped ==
    ASSUME NEW a \in Attempts, NEW o \in ImportOutcomes(a)
    PROVE  o[1] \in {"discard", "preserve"} /\ o[2] \in SUBSET Attempts
<1>1. CASE o = <<"preserve", {}>>
  BY <1>1
<1>2. CASE o = <<"discard", {b \in {BundleOf[a]} : bundle[b] # "none"}>>
  <2>1. BundleOf[a] \in Attempts
    BY AttemptsAssumption
  <2> QED
    BY <1>2, <2>1
<1>3. CASE o = <<"discard", {}>>
  BY <1>3
<1> QED
  BY <1>1, <1>2, <1>3 DEF ImportOutcomes

\* The bundles a cancellation lists are attempts' keys.
LEMMA BundlesTyped ==
    ASSUME NEW t \in Tasks
    PROVE  BundlesOf(t) \in SUBSET Attempts
BY AttemptsAssumption DEF BundlesOf, AttemptsOf

\* A step that leaves the workers alone.
LEMMA OtherWorkers ==
    ASSUME TypeInv, KeepsRows, UNCHANGED workerVars
    PROVE  ClaimOK' /\ WkOK'
<1>1. UNCHANGED <<claim, wk>>
  BY DEF workerVars
<1>2. ClaimOK'
  BY <1>1 DEF TypeInv, ClaimOK, KeepsRows
<1>3. WkOK'
  BY <1>1 DEF TypeInv, WkOK
<1> QED
  BY <1>2, <1>3

LEMMA JournalUnchanged ==
    ASSUME TypeInv, UNCHANGED journalVars
    PROVE  JournalOK' /\ KeepsRows
  BY DEF TypeInv, JournalOK, KeepsRows, journalVars

LEMMA TaskUnchanged ==
    ASSUME TypeInv, UNCHANGED taskVars
    PROVE  TaskOK'
  BY DEF TypeInv, TaskOK, taskVars

LEMMA WorldUnchanged ==
    ASSUME TypeInv, UNCHANGED worldVars
    PROVE  WorldOK'
  BY DEF TypeInv, WorldOK, worldVars

LEMMA PreserveLatestJournal ==
    ASSUME JournalOK, NEW t \in Tasks, PreserveLatest(t)
    PROVE  JournalOK' /\ KeepsRows
<1> DEFINE open == {a \in AttemptsOf(t) : InState(a, Open)}
<1>1. PICK a : ScheduleAll({a} \intersect open, "preserve", {})
  BY DEF PreserveLatest
<1>2. {a} \intersect open \in SUBSET Attempts
  BY DEF AttemptsOf
<1> HIDE DEF open
<1> QED
  BY <1>1, <1>2, ScheduleAllJournal

LEMMA PipelineTypeInv ==
    ASSUME TypeInv, PipelineStep
    PROVE  TypeInv' /\ KeepsRows
<1> USE DEF TypeInv
<1>1. ASSUME NEW a \in Attempts, CreateAttempt(a)
      PROVE  TypeInv' /\ KeepsRows
  <2>1. JournalOK' /\ KeepsRows
    BY <1>1, WriteJournal, NewRowIsRow DEF CreateAttempt
  <2>2. TaskOK' /\ WorldOK'
    BY <1>1, WorldUnchanged, AttemptsAssumption DEF CreateAttempt, TaskOK
  <2> QED
    BY <1>1, <2>1, <2>2, OtherWorkers DEF CreateAttempt
<1>2. ASSUME NEW a \in Attempts, SendEnqueue(a)
      PROVE  TypeInv' /\ KeepsRows
  <2>1. JournalOK' /\ KeepsRows
    BY <1>2, JournalUnchanged DEF SendEnqueue
  <2>2. TaskOK' /\ WorldOK'
    BY <1>2, AttemptsAssumption DEF SendEnqueue, TaskOK, WorldOK
  <2> QED
    BY <1>2, <2>1, <2>2, OtherWorkers DEF SendEnqueue
<1>3. ASSUME NEW a \in Attempts, AcceptHandle(a)
      PROVE  TypeInv' /\ KeepsRows
  <2>1. row[a] \in Rows
    BY <1>3, ExistsIsRow DEF AcceptHandle, InState
  <2>2. [row[a] EXCEPT !.state = "in_use", !.known = TRUE] \in Rows
    BY <2>1 DEF Rows, RowStates
  <2>3. JournalOK' /\ KeepsRows
    BY <1>3, <2>2, WriteJournal DEF AcceptHandle
  <2> QED
    BY <1>3, <2>3, OtherWorkers, TaskUnchanged, WorldUnchanged DEF AcceptHandle
<1>4. ASSUME NEW a \in Attempts, Publish(a)
      PROVE  TypeInv' /\ KeepsRows
  <2>1. JournalOK' /\ KeepsRows
    BY <1>4, JournalUnchanged DEF Publish
  <2>2. WorldOK'
    BY <1>4 DEF Publish, WorldOK, BundleStates
  <2> QED
    BY <1>4, <2>1, <2>2, OtherWorkers, TaskUnchanged DEF Publish
<1>5. ASSUME NEW a \in Attempts, FailOver(a)
      PROVE  TypeInv' /\ KeepsRows
  <2>1. JournalOK' /\ KeepsRows
    <3>1. PICK o \in ImportOutcomes(a) : ScheduleAll({a}, o[1], o[2])
      BY <1>5 DEF FailOver
    <3> QED
      BY <3>1, OutcomesTyped, ScheduleAllJournal
  <2>2. TaskOK'
    BY <1>5, AttemptsAssumption DEF FailOver, Nudge, TaskOK, Statuses
  <2>3. NoRecord \in Records
    BY DEF Records
  <2>4. WorldOK'
    BY <1>5, <2>3, AttemptsAssumption DEF FailOver, WorldOK
  <2> QED
    BY <1>5, <2>1, <2>2, <2>4, OtherWorkers DEF FailOver
<1>6. ASSUME NEW t \in Tasks, LinkCandidate(t)
      PROVE  TypeInv' /\ KeepsRows
  <2>1. JournalOK' /\ KeepsRows
    BY <1>6, JournalUnchanged DEF LinkCandidate
  <2>2. TaskOK'
    BY <1>6 DEF LinkCandidate, TaskOK, Statuses
  <2> QED
    BY <1>6, <2>1, <2>2, OtherWorkers, WorldUnchanged DEF LinkCandidate
<1>7. ASSUME NEW a \in Attempts, NEW final \in TerminalStatuses, Finalize(a, final)
      PROVE  TypeInv' /\ KeepsRows
  <2>1. JournalOK' /\ KeepsRows
    <3>1. PICK o \in ImportOutcomes(a) : ScheduleAll({a}, o[1], o[2])
      BY <1>7 DEF Finalize
    <3> QED
      BY <3>1, OutcomesTyped, ScheduleAllJournal
  <2>2. TaskOK'
    BY <1>7, AttemptsAssumption DEF Finalize, Nudge, TaskOK, Statuses
  <2> QED
    BY <1>7, <2>1, <2>2, OtherWorkers, WorldUnchanged DEF Finalize
<1>8. ASSUME NEW t \in Tasks, FailPreserving(t)
      PROVE  TypeInv' /\ KeepsRows
  <2>1. JournalOK' /\ KeepsRows
    BY <1>8, PreserveLatestJournal DEF FailPreserving
  <2>2. TaskOK'
    BY <1>8 DEF FailPreserving, TaskOK, Statuses, TerminalStatuses
  <2> QED
    BY <1>8, <2>1, <2>2, OtherWorkers, WorldUnchanged DEF FailPreserving
<1>9. ASSUME NEW t \in Tasks, ReapReimport(t)
      PROVE  TypeInv' /\ KeepsRows
  <2>1. JournalOK' /\ KeepsRows
    BY <1>9, PreserveLatestJournal DEF ReapReimport
  <2>2. TaskOK'
    BY <1>9 DEF ReapReimport, TaskOK, Statuses, TerminalStatuses
  <2> QED
    BY <1>9, <2>1, <2>2, OtherWorkers, WorldUnchanged DEF ReapReimport
<1>10. ASSUME NEW t \in Tasks, Cancel(t)
       PROVE  TypeInv' /\ KeepsRows
  <2>1. PICK d \in {"discard", "preserve"} :
           /\ ScheduleAll(AttemptsOf(t), d, IF d = "discard" THEN BundlesOf(t) ELSE {})
           /\ Nudge({a \in AttemptsOf(t) : Exists(a) /\ row[a].state \notin Settled}, d)
    BY <1>10 DEF Cancel
  <2>2. JournalOK' /\ KeepsRows
    <3>1. /\ AttemptsOf(t) \in SUBSET Attempts
          /\ (IF d = "discard" THEN BundlesOf(t) ELSE {}) \in SUBSET Attempts
      BY BundlesTyped DEF AttemptsOf
    <3> QED
      BY <2>1, <3>1, ScheduleAllJournal
  <2>3. TaskOK'
    BY <1>10, <2>1 DEF Cancel, Nudge, TaskOK, Statuses, TerminalStatuses, AttemptsOf
  <2> QED
    BY <1>10, <2>2, <2>3, OtherWorkers, WorldUnchanged DEF Cancel
<1>11. ASSUME NEW a \in Attempts, Reimport(a)
       PROVE  TypeInv' /\ KeepsRows
  <2>1. PICK r \in Rows : Write(a, r, {})
    <3>1. CASE InState(a, {"cleanup_pending", "preserved", "needs_attention"})
               /\ Write(a, [row[a] EXCEPT !.state = "in_use", !.disposition = "undecided",
                                          !.due = TRUE, !.error = "none"], {})
      <4>1. row[a] \in Rows
        BY <3>1, ExistsIsRow DEF InState
      <4>2. [row[a] EXCEPT !.state = "in_use", !.disposition = "undecided",
                           !.due = TRUE, !.error = "none"] \in Rows
        BY <4>1 DEF Rows, RowStates
      <4> QED
        BY <3>1, <4>2
    <3>2. CASE Write(a, [NewRow EXCEPT !.state = "in_use"], {})
      BY <3>2, NewRowIsRow
    <3> QED
      BY <1>11, <3>1, <3>2 DEF Reimport
  <2>2. JournalOK' /\ KeepsRows
    BY <2>1, WriteJournal
  <2>3. TaskOK'
    BY <1>11, AttemptsAssumption DEF Reimport, TaskOK, Statuses
  <2> QED
    BY <1>11, <2>2, <2>3, OtherWorkers, WorldUnchanged DEF Reimport
<1>12. ASSUME NEW a \in Attempts, Resume(a)
       PROVE  TypeInv' /\ KeepsRows
  <2>1. JournalOK' /\ KeepsRows
    BY <1>12, JournalUnchanged DEF Resume
  <2>2. TaskOK'
    BY <1>12, AttemptsAssumption DEF Resume, TaskOK
  <2> QED
    BY <1>12, <2>1, <2>2, OtherWorkers, WorldUnchanged DEF Resume
<1>13. ASSUME NEW a \in Attempts, ExpirePreserved(a)
       PROVE  TypeInv' /\ KeepsRows
  <2>1. row[a] \in Rows
    BY <1>13, ExistsIsRow DEF ExpirePreserved, InState
  <2>2. [row[a] EXCEPT !.state = "cleanup_pending", !.disposition = "discard",
                       !.due = TRUE, !.error = "none"] \in Rows
    BY <2>1 DEF Rows, RowStates
  <2>3. JournalOK' /\ KeepsRows
    BY <1>13, <2>2, WriteJournal DEF ExpirePreserved
  <2> QED
    BY <1>13, <2>3, OtherWorkers, TaskUnchanged, WorldUnchanged DEF ExpirePreserved
<1> QED
  BY <1>1, <1>2, <1>3, <1>4, <1>5, <1>6, <1>7, <1>8, <1>9, <1>10, <1>11, <1>12, <1>13
  DEF PipelineStep

-----------------------------------------------------------------------------
(* The steps of the workers keep the types *)

\* The row of the item a worker processes.
LEMMA ItemIsRow ==
    ASSUME TypeInv, NEW w \in Workers, wk[w].pc # "idle"
    PROVE  /\ wk[w].item \in Attempts
           /\ row[wk[w].item] \in Rows
           /\ claim[w][wk[w].item] \in Rows
  BY DEF TypeInv, WkOK, ClaimOK

\* A worker that only moves on.
LEMMA GotoStep ==
    ASSUME TypeInv, NEW w \in Workers, wk[w].pc # "idle", NEW pc \in Pcs \ {"idle"},
           NEW code \in {"barrier", "other"}, Goto(w, pc) \/ Raise(w, pc, code),
           UNCHANGED <<journalVars, claim>>
    PROVE  JournalOK' /\ KeepsRows /\ ClaimOK' /\ WkOK'
<1>1. JournalOK' /\ KeepsRows
  BY JournalUnchanged
<1>2. ClaimOK'
  BY <1>1 DEF TypeInv, ClaimOK, KeepsRows
<1>3. WkOK'
  BY GotoWk, RaiseWk
<1> QED
  BY <1>1, <1>2, <1>3

LEMMA DiscardedWorld ==
    ASSUME TypeInv, NEW a \in Attempts, Discarded(a)
    PROVE  WorldOK'
<1>1. NoRecord \in Records
  BY DEF Records
<1>2. CASE UNCHANGED worldVars
  BY <1>2, WorldUnchanged
<1>3. CASE \E b \in BOOLEAN : DropRecord(a, b) /\ UNCHANGED <<bundle, sent>>
  BY <1>1, <1>3, AttemptsAssumption DEF DropRecord, TypeInv, WorldOK
<1> QED
  BY <1>2, <1>3 DEF Discarded

LEMMA ItemTypeInv ==
    ASSUME TypeInv, NEW w \in Workers, ItemStep(w)
    PROVE  TypeInv' /\ KeepsRows
<1> DEFINE a == wk[w].item
<1> USE DEF TypeInv, Pcs
<1>0. Idle.pc = "idle"
  BY DEF Idle
<1>1. CASE CheckBarriers(w)
  <2>1. PICK pc \in {"discard", "inspect", "unsafe", "defer"} :
           Goto(w, pc) \/ Raise(w, pc, "barrier")
    BY <1>1 DEF CheckBarriers, Unsafe
  <2> QED
    BY <1>1, <2>1, GotoStep, TaskUnchanged, WorldUnchanged DEF CheckBarriers
<1>2. CASE DeferForPublisher(w)
  <2>1. row[a] \in Rows =>
          [Released(row[a]) EXCEPT !.due = FALSE, !.error = "other"] \in Rows
    BY ReleasedIsRow DEF Rows
  <2> QED
    BY <1>2, <2>1, CasFinishWorker, TaskUnchanged, WorldUnchanged DEF DeferForPublisher
<1>3. CASE Inspect(w)
  <2>1. a \in Attempts /\ row[a] \in Rows /\ claim[w][a] \in Rows
    BY <1>3, ItemIsRow DEF Inspect
  <2>2. CASE Retryable(w) /\ UNCHANGED claim
    BY <1>3, <2>2, GotoStep, TaskUnchanged, WorldUnchanged DEF Inspect, Retryable
  <2>3. CASE Unsafe(w, "other") /\ UNCHANGED claim
    BY <1>3, <2>3, GotoStep, TaskUnchanged, WorldUnchanged DEF Inspect, Unsafe
  <2>4. ASSUME NEW pin \in NewPins(a, claim[w][a], Materialization(a)),
               claim' = [claim EXCEPT ![w][a].pin = pin,
                                      ![w][a].known = @ \/ Materialization(a) # "missing"],
               wk' = [wk EXCEPT ![w].pc = "evidence", ![w].found = Materialization(a)]
        PROVE  TypeInv' /\ KeepsRows
    <3>1. pin \in Pins
      <4>1. claim[w][a].pin \in Pins /\ claim[w][a].barriers \in SUBSET Attempts
        BY <2>1 DEF Rows
      <4>2. PublisherPrints(a, claim[w][a]) \subseteq Attempts
        BY <4>1, AttemptsAssumption DEF PublisherPrints
      <4>3. disk[PathOf[a]] # NoAttempt => BytesOf[disk[PathOf[a]]] \in Attempts
        BY <2>1, AttemptsAssumption DEF WorldOK
      <4>4. BytesOf[a] \in Attempts
        BY <2>1, AttemptsAssumption
      <4> QED
        BY <2>4, <4>1, <4>2, <4>3, <4>4 DEF NewPins, Pins
    <3> DEFINE c == [claim[w][a] EXCEPT !.pin = pin,
                                        !.known = @ \/ Materialization(a) # "missing"]
    <3>2. c \in Rows
      BY <2>1, <3>1 DEF Rows
    <3>3. claim' = [claim EXCEPT ![w] = [claim[w] EXCEPT ![a] = c]]
      BY <2>1, <2>4 DEF ClaimOK
    <3>4. Materialization(a) \in Findings
      BY <2>1, AttemptsAssumption DEF Materialization, Findings, WorldOK, Records, NoRecord
    <3>5. JournalOK' /\ KeepsRows
      BY <1>3, JournalUnchanged DEF Inspect
    <3> HIDE DEF c
    <3>6. ClaimOK'
      BY <2>1, <3>2, <3>3, <3>5 DEF ClaimOK, KeepsRows
    <3>7. \A v \in Workers, b \in Attempts : claim[v][b] \in Rows => claim'[v][b] \in Rows
      BY <2>1, <3>2, <3>3 DEF ClaimOK
    <3>8. /\ wk[w] \in Wks
          /\ wk' = [wk EXCEPT ![w] = [wk[w] EXCEPT !.pc = "evidence",
                                                   !.found = Materialization(a)]]
      BY <2>4 DEF WkOK
    <3>9. [wk[w] EXCEPT !.pc = "evidence", !.found = Materialization(a)] \in Wks
      BY <3>4, <3>8 DEF Wks
    <3>10. WkOK'
      BY <2>1, <3>7, <3>8, <3>9 DEF WkOK, Wks
    <3> QED
      BY <1>3, <3>5, <3>6, <3>10, TaskUnchanged, WorldUnchanged DEF Inspect
  <2> QED
    BY <1>3, <2>2, <2>3, <2>4 DEF Inspect
<1>4. CASE RecordEvidence(w)
  <2>1. a \in Attempts /\ row[a] \in Rows /\ claim[w][a] \in Rows
    BY <1>4, ItemIsRow DEF RecordEvidence
  <2>2. [row[a] EXCEPT !.pin = claim[w][a].pin, !.known = claim[w][a].known] \in Rows
    BY <2>1 DEF Rows
  <2>3. PICK pc \in {"abort", "source"} :
          Cas(w, [row[a] EXCEPT !.pin = claim[w][a].pin, !.known = claim[w][a].known], pc)
    BY <1>4 DEF RecordEvidence
  <2> QED
    BY <1>4, <2>2, <2>3, CasWorker, TaskUnchanged, WorldUnchanged DEF RecordEvidence
<1>5. CASE Abort(w)
  <2>1. a \in Attempts
    BY <1>5, ItemIsRow DEF Abort
  <2>2. PICK pc \in {"retry", "complete", "source"} : Goto(w, pc) \/ Raise(w, pc, "other")
    BY <1>5 DEF Abort, Retryable
  <2>3. NoRecord \in Records
    BY DEF Records
  <2>4. WorldOK'
    BY <1>5, <2>1, <2>3, AttemptsAssumption DEF Abort, DropRecord, WorldOK, worldVars
  <2> QED
    BY <1>5, <2>2, <2>4, GotoStep, TaskUnchanged DEF Abort
<1>6. CASE RemoveFile(w)
  <2>1. a \in Attempts
    BY <1>6, ItemIsRow DEF RemoveFile
  <2>2. PICK pc \in {"retry", "discard", "unsafe"} : Goto(w, pc) \/ Raise(w, pc, "other")
    BY <1>6 DEF RemoveFile, Retryable, Unsafe
  <2>3. WorldOK'
    BY <1>6, <2>1, AttemptsAssumption DEF RemoveFile, WorldOK
  <2> QED
    BY <1>6, <2>2, <2>3, GotoStep, TaskUnchanged DEF RemoveFile
<1>7. CASE RemoveWorkspace(w)
  <2>1. a \in Attempts
    BY <1>7, ItemIsRow DEF RemoveWorkspace
  <2>2. PICK pc \in {"retry", "discard", "unsafe", "complete", "removed"} :
           Goto(w, pc) \/ Raise(w, pc, "other")
    BY <1>7 DEF RemoveWorkspace, Retryable, Unsafe
  <2>3. WorldOK'
    BY <1>7, <2>1, AttemptsAssumption DEF RemoveWorkspace, WorldOK
  <2> QED
    BY <1>7, <2>2, <2>3, GotoStep, TaskUnchanged DEF RemoveWorkspace
<1>8. CASE MarkRemoved(w)
  <2>1. row[a] \in Rows =>
          [row[a] EXCEPT !.state = "workspace_removed", !.error = "none"] \in Rows
    BY DEF Rows, RowStates
  <2> QED
    BY <1>8, <2>1, CasWorker, TaskUnchanged, WorldUnchanged DEF MarkRemoved
<1>9. CASE Discard(w)
  <2>1. a \in Attempts
    BY <1>9, ItemIsRow DEF Discard
  <2>2. PICK pc \in {"retry", "complete"} : Goto(w, pc) \/ Raise(w, pc, "other")
    BY <1>9 DEF Discard, Retryable
  <2>3. WorldOK'
    BY <1>9, <2>1, DiscardedWorld, WorldUnchanged DEF Discard
  <2> QED
    BY <1>9, <2>2, <2>3, GotoStep, TaskUnchanged DEF Discard
<1>10. CASE MarkComplete(w)
  <2>1. row[a] \in Rows =>
          [Released(row[a]) EXCEPT !.state = "complete", !.error = "none"] \in Rows
    BY ReleasedIsRow DEF Rows, RowStates
  <2> QED
    BY <1>10, <2>1, CasFinishWorker, TaskUnchanged, WorldUnchanged DEF MarkComplete
<1>11. CASE AttentionBarriers(w)
  <2>1. PICK pc \in {"attentionInspect", "attentionDefer"} : Goto(w, pc)
    BY <1>11 DEF AttentionBarriers
  <2> QED
    BY <1>11, <2>1, GotoStep, TaskUnchanged, WorldUnchanged DEF AttentionBarriers
<1>12. CASE AttentionInspect(w)
  <2>1. PICK pc \in {"attentionDefer", "attentionDiscard", "attentionResume"} : Goto(w, pc)
    BY <1>12 DEF AttentionInspect, Reconsider
  <2> QED
    BY <1>12, <2>1, GotoStep, TaskUnchanged, WorldUnchanged DEF AttentionInspect
<1>13. CASE AttentionDiscard(w)
  <2>1. a \in Attempts
    BY <1>13, ItemIsRow DEF AttentionDiscard
  <2>2. PICK pc \in {"attentionDefer", "attentionResume", "complete"} : Goto(w, pc)
    BY <1>13 DEF AttentionDiscard, Reconsider
  <2>3. WorldOK'
    BY <1>13, <2>1, DiscardedWorld, WorldUnchanged DEF AttentionDiscard
  <2> QED
    BY <1>13, <2>2, <2>3, GotoStep, TaskUnchanged DEF AttentionDiscard
<1>14. CASE AttentionResume(w)
  <2>1. row[a] \in Rows =>
          [Released(row[a]) EXCEPT !.state = "cleanup_pending", !.disposition = "discard",
                                   !.due = TRUE, !.error = "none"] \in Rows
    BY ReleasedIsRow DEF Rows, RowStates
  <2> QED
    BY <1>14, <2>1, CasFinishWorker, TaskUnchanged, WorldUnchanged DEF AttentionResume
<1>15. CASE AttentionDefer(w)
  <2>1. row[a] \in Rows =>
          [Released(row[a]) EXCEPT !.state = "needs_attention", !.due = FALSE] \in Rows
    BY ReleasedIsRow DEF Rows, RowStates
  <2> QED
    BY <1>15, <2>1, CasFinishWorker, TaskUnchanged, WorldUnchanged DEF AttentionDefer
<1>16. CASE UnsafeReread(w) \/ RetryReread(w)
  <2>1. PICK pc \in {"unsafeWrite", "retryWrite"} : Reread(w, pc)
    BY <1>16 DEF UnsafeReread, RetryReread
  <2>2. wk[w].pc # "idle"
    BY <1>16 DEF UnsafeReread, RetryReread
  <2>3. JournalOK' /\ KeepsRows
    BY <2>1, <2>2, ItemIsRow DEF Reread, JournalOK, KeepsRows
  <2>4. ClaimOK' /\ WkOK'
    BY <2>1, <2>2, GotoWk DEF Reread, ClaimOK
  <2> QED
    BY <2>1, <2>3, <2>4, TaskUnchanged, WorldUnchanged DEF Reread
<1>17. CASE UnsafeWrite(w)
  <2> DEFINE r == [Released(row[a]) EXCEPT !.state = "needs_attention",
                      !.disposition = "preserve", !.due = FALSE, !.error = wk[w].code]
  <2>1. row[a] \in Rows => r \in Rows
    <3>1. wk[w].code \in {"none", "barrier", "other"}
      BY DEF WkOK, Wks
    <3> QED
      BY <3>1, ReleasedIsRow DEF Rows, RowStates
  <2>2. wk[w].pc # "idle" /\ HandlerWrite(w, r)
    BY <1>17 DEF UnsafeWrite
  <2> HIDE DEF r
  <2> QED
    BY <2>1, <2>2, HandlerWriteWorker
<1>18. CASE RetryWrite(w)
  <2> DEFINE f == IF row[a].failures < UnresolvedJobRetries THEN row[a].failures + 1
                  ELSE row[a].failures
             r == [Released(row[a]) EXCEPT
                     !.failures = IF @ < UnresolvedJobRetries THEN @ + 1 ELSE @,
                     !.due = FALSE, !.error = "other"]
  <2>1. ASSUME row[a] \in Rows
        PROVE  r \in Rows
    <3>1. Released(row[a]).failures = row[a].failures
      BY <2>1 DEF Released, Rows
    <3>2. f \in Nat
      BY <2>1 DEF Rows
    <3>3. r = [Released(row[a]) EXCEPT !.failures = f, !.due = FALSE, !.error = "other"]
      BY <2>1, <3>1, ReleasedIsRow DEF Rows
    <3> DEFINE s == Released(row[a])
    <3>4. s \in Rows
      BY <2>1, ReleasedIsRow
    <3> HIDE DEF f, s
    <3>5. [s EXCEPT !.failures = f, !.due = FALSE, !.error = "other"] \in Rows
      BY <3>2, <3>4 DEF Rows
    <3> QED
      BY <3>3, <3>5 DEF s
  <2>2. wk[w].pc # "idle" /\ HandlerWrite(w, r)
    BY <1>18 DEF RetryWrite
  <2> HIDE DEF r
  <2> QED
    BY <2>1, <2>2, HandlerWriteWorker
<1> QED
  BY <1>1, <1>2, <1>3, <1>4, <1>5, <1>6, <1>7, <1>8, <1>9, <1>10, <1>11, <1>12, <1>13,
     <1>14, <1>15, <1>16, <1>17, <1>18
  DEF ItemStep

LEMMA ClaimRowsTyped ==
    ASSUME TypeInv, NEW w \in Workers, Free(w), NEW as \in SUBSET Attempts,
           \A a \in as : row[a] \in Rows,
           ClaimRows(w, as), UNCHANGED wk
    PROVE  JournalOK' /\ KeepsRows /\ ClaimOK' /\ WkOK'
<1>1. \A a \in as : [row[a] EXCEPT !.owner = w] \in Rows
  BY DEF Rows
<1>2. row' = [a \in Attempts |-> IF a \in as THEN [row[a] EXCEPT !.owner = w] ELSE row[a]]
  BY DEF ClaimRows
<1>3. current' = [a \in Attempts |-> IF a \in as THEN {w} ELSE current[a]]
  BY DEF ClaimRows
<1>4. claim' = [claim EXCEPT ![w] = [a \in Attempts |-> IF a \in as THEN row'[a] ELSE NoRow]]
  BY DEF ClaimRows
<1>5. JournalOK' /\ KeepsRows
  BY <1>1, <1>2, <1>3 DEF TypeInv, JournalOK, KeepsRows
<1>6. \A a \in as : row'[a] \in Rows
  BY <1>5 DEF KeepsRows
<1>7. [a \in Attempts |-> IF a \in as THEN row'[a] ELSE NoRow] \in [Attempts -> Rows \union {NoRow}]
  BY <1>6
<1>8. ClaimOK'
  BY <1>4, <1>5, <1>6, <1>7, NoRowIsNoRow DEF TypeInv, ClaimOK, KeepsRows
<1>9. WkOK'
  <2>1. wk' = wk /\ wk[w] = Idle /\ Idle.pc = "idle"
    BY DEF Free, Idle
  <2>2. \A v \in Workers : v # w => claim'[v] = claim[v]
    BY <1>4 DEF TypeInv, ClaimOK
  <2> QED
    BY <2>1, <2>2 DEF TypeInv, WkOK
<1> QED
  BY <1>5, <1>8, <1>9

LEMMA WorkerTypeInv ==
    ASSUME TypeInv, WorkerStep
    PROVE  TypeInv' /\ KeepsRows
<1> USE DEF TypeInv
<1>0. \A a \in Claimable : row[a] \in Rows
  BY ExistsIsRow DEF Claimable, InState
<1>1. ASSUME NEW w \in Workers, RunOnce(w)
      PROVE  TypeInv' /\ KeepsRows
  <2>1. Claimable \in SUBSET Attempts
    BY DEF Claimable
  <2> QED
    BY <1>0, <1>1, <2>1, ClaimRowsTyped, TaskUnchanged, WorldUnchanged DEF RunOnce
<1>2. ASSUME NEW w \in Workers, NEW a \in Attempts, CleanupNow(w, a)
      PROVE  TypeInv' /\ KeepsRows
  <2>1. JournalOK' /\ KeepsRows /\ ClaimOK' /\ WkOK'
    <3>1. CASE a \in Claimable
      <4>1. {a} \in SUBSET Attempts /\ \A b \in {a} : row[b] \in Rows
        BY <1>0, <3>1
      <4> QED
        BY <1>2, <3>1, <4>1, ClaimRowsTyped DEF CleanupNow
    <3>2. CASE a \notin Claimable
      BY <1>2, <3>2, JournalUnchanged, OtherWorkers DEF CleanupNow, workerVars
    <3> QED
      BY <3>1, <3>2
  <2>2. TaskOK'
    BY <1>2 DEF CleanupNow, TaskOK
  <2> QED
    BY <1>2, <2>1, <2>2, WorldUnchanged DEF CleanupNow
<1>3. ASSUME NEW w \in Workers, NEW a \in Attempts, Begin(w, a)
      PROVE  TypeInv' /\ KeepsRows
  <2>1. JournalOK' /\ KeepsRows
    BY <1>3, JournalUnchanged DEF Begin
  <2>2. ClaimOK'
    BY <1>3, <2>1 DEF Begin, ClaimOK, KeepsRows
  <2>3. claim[w][a] \in Rows
    BY <1>3 DEF Begin, ClaimOK
  <2>4. PICK pc \in {"attention", "barriers"} :
           wk' = [wk EXCEPT ![w] = [wk[w] EXCEPT !.item = a, !.pc = pc]]
    BY <1>3 DEF Begin, WkOK
  <2>5. wk[w] \in Wks
    BY DEF WkOK
  <2> DEFINE k == [wk[w] EXCEPT !.item = a, !.pc = pc]
  <2>6. k \in Wks /\ k.pc # "idle" /\ k.item = a
    BY <2>4, <2>5 DEF Wks, Pcs
  <2>7. WkOK'
    <3>1. UNCHANGED claim
      BY <1>3 DEF Begin
    <3> HIDE DEF k
    <3> QED
      BY <2>3, <2>4, <2>6, <3>1 DEF WkOK, k
  <2> QED
    BY <1>3, <2>1, <2>2, <2>7, TaskUnchanged, WorldUnchanged DEF Begin
<1>4. ASSUME NEW w \in Workers, KillWorker(w)
      PROVE  TypeInv' /\ KeepsRows
  <2>1. JournalOK' /\ KeepsRows
    BY <1>4, JournalUnchanged DEF KillWorker
  <2>2. ClaimOK'
    BY <1>4, <2>1, NoRowIsNoRow DEF KillWorker, ClaimOK, KeepsRows
  <2>3. WkOK'
    BY <1>4, IdleIsWk DEF KillWorker, WkOK, Idle
  <2> QED
    BY <1>4, <2>1, <2>2, <2>3, TaskUnchanged, WorldUnchanged DEF KillWorker
<1> QED
  BY <1>1, <1>2, <1>3, <1>4, ItemTypeInv DEF WorkerStep

-----------------------------------------------------------------------------
(* The steps of the world keep the types, and the theorem *)

LEMMA WorldTypeInv ==
    ASSUME TypeInv, WorldStep
    PROVE  TypeInv' /\ KeepsRows
<1> USE DEF TypeInv
<1>1. ASSUME NEW a \in Attempts, ClientEnqueue(a)
      PROVE  TypeInv' /\ KeepsRows
  <2>1. [state |-> "active", by |-> a] \in Records
    BY DEF Records
  <2>2. WorldOK'
    BY <1>1, <2>1, AttemptsAssumption DEF ClientEnqueue, WorldOK
  <2>3. JournalOK' /\ KeepsRows
    BY <1>1, JournalUnchanged DEF ClientEnqueue
  <2> QED
    BY <1>1, <2>2, <2>3, TaskUnchanged, OtherWorkers DEF ClientEnqueue
<1>2. ASSUME NEW a \in Attempts, NEW r \in Rows, row' = [row EXCEPT ![a] = r],
             UNCHANGED <<current, taskVars, worldVars, workerVars>>
      PROVE  TypeInv' /\ KeepsRows
  <2>1. JournalOK' /\ KeepsRows
    BY <1>2 DEF JournalOK, KeepsRows
  <2> QED
    BY <1>2, <2>1, TaskUnchanged, WorldUnchanged, OtherWorkers
<1>3. ASSUME NEW a \in Attempts, Elapse(a) \/ LeaseExpires(a)
      PROVE  TypeInv' /\ KeepsRows
  <2>1. row[a] \in Rows
    BY <1>3, ExistsIsRow DEF Elapse, LeaseExpires
  <2>2. [row[a] EXCEPT !.due = TRUE] \in Rows /\ [row[a] EXCEPT !.owner = NoWorker] \in Rows
    BY <2>1 DEF Rows
  <2>3. PICK r \in Rows : row' = [row EXCEPT ![a] = r]
    BY <1>3, <2>2 DEF Elapse, LeaseExpires
  <2> QED
    BY <1>2, <1>3, <2>3 DEF Elapse, LeaseExpires
<1>4. ASSUME NEW a \in Attempts, PublisherStep(a)
      PROVE  TypeInv' /\ KeepsRows
  <2>1. WorldOK'
    BY <1>4 DEF PublisherStep, WorldOK, BundleStates
  <2> QED
    BY <1>4, <2>1, JournalUnchanged, TaskUnchanged, OtherWorkers DEF PublisherStep
<1>5. ASSUME NEW p \in Paths, NEW s \in {"moving", "finished", "failed"},
             client[p].state \in {"active", "moving"},
             client' = [client EXCEPT ![p].state = s],
             disk' \in {disk, [disk EXCEPT ![p] = client[p].by]},
             UNCHANGED <<journalVars, taskVars, bundle, sent, workerVars>>
      PROVE  TypeInv' /\ KeepsRows
  <2>1. client[p] \in Records /\ client[p] # NoRecord
    BY <1>5 DEF WorldOK, NoRecord
  <2>2. client[p].by \in Attempts /\ [client[p] EXCEPT !.state = s] \in Records
    BY <2>1 DEF Records
  <2>3. client' = [client EXCEPT ![p] = [client[p] EXCEPT !.state = s]]
    BY <1>5 DEF WorldOK
  <2>4. WorldOK'
    BY <1>5, <2>2, <2>3 DEF WorldOK
  <2> QED
    BY <1>5, <2>4, JournalUnchanged, TaskUnchanged, OtherWorkers
<1>6. ASSUME NEW p \in Paths, TransferMoves(p)
      PROVE  TypeInv' /\ KeepsRows
  <2>1. UNCHANGED disk
    BY <1>6 DEF TransferMoves
  <2> QED
    BY <1>5, <1>6, <2>1 DEF TransferMoves
<1>7. ASSUME NEW p \in Paths, TransferEnds(p)
      PROVE  TypeInv' /\ KeepsRows
  <2>1. PICK final \in {"finished", "failed"} :
          /\ client' = [client EXCEPT ![p].state = final]
          /\ disk' \in {disk, [disk EXCEPT ![p] = client[p].by]}
    BY <1>7 DEF TransferEnds
  <2>2. /\ client[p].state \in {"active", "moving"}
        /\ UNCHANGED <<journalVars, taskVars, bundle, sent, workerVars>>
    BY <1>7 DEF TransferEnds
  <2> QED
    BY <1>5, <2>1, <2>2
<1>8. CASE Restart
  <2>1. JournalOK' /\ KeepsRows
    BY <1>8, JournalUnchanged DEF Restart
  <2>2. ClaimOK'
    BY <1>8, <2>1, NoRowIsNoRow DEF Restart, ClaimOK
  <2>3. WkOK'
    BY <1>8, IdleIsWk DEF Restart, WkOK, Idle
  <2>4. TaskOK'
    BY <1>8 DEF Restart, TaskOK, Statuses
  <2> QED
    BY <1>8, <2>1, <2>2, <2>3, <2>4, WorldUnchanged DEF Restart
<1>9. ASSUME NEW a \in Attempts, RemovedByHand(a)
      PROVE  TypeInv' /\ KeepsRows
  <2>1. WorldOK'
    BY <1>9 DEF RemovedByHand, WorldOK
  <2> QED
    BY <1>9, <2>1, JournalUnchanged, TaskUnchanged, OtherWorkers DEF RemovedByHand
<1> QED
  BY <1>1, <1>3, <1>4, <1>6, <1>7, <1>8, <1>9 DEF WorldStep

LEMMA TypeInvInit ==
    ASSUME Init
    PROVE  TypeInv
<1>1. NoRecord \in Records
  BY DEF Records
<1>2. JournalOK /\ ClaimOK
  BY NoRowIsNoRow DEF Init, JournalOK, ClaimOK
<1>3. WkOK
  BY IdleIsWk DEF Init, WkOK, Idle
<1>4. TaskOK /\ WorldOK
  BY <1>1 DEF Init, TaskOK, WorldOK, Statuses, BundleStates
<1> QED
  BY <1>2, <1>3, <1>4 DEF TypeInv

LEMMA TypeInvStep ==
    ASSUME TypeInv, [Next]_vars
    PROVE  TypeInv' /\ KeepsRows
<1>1. CASE UNCHANGED vars
  <2>1. UNCHANGED <<journalVars, taskVars, workerVars, worldVars>>
    BY <1>1 DEF vars
  <2> QED
    BY <2>1, JournalUnchanged, TaskUnchanged, WorldUnchanged, OtherWorkers DEF TypeInv
<1> QED
  BY <1>1, PipelineTypeInv, WorkerTypeInv, WorldTypeInv DEF Next

LEMMA TypeInvariant == Spec => []TypeInv
  BY TypeInvInit, TypeInvStep, PTL DEF Spec

-----------------------------------------------------------------------------
(* Rows agree with their states *)

RowsAgree == \A a \in Attempts : Exists(a) => RowAgrees(row[a])

\* A step leaves a row as it is, rewrites one that is there, or creates the one row of an
\* attempt that may start.
Kept(a) == row'[a] = row[a] \/ (Exists(a) /\ RowAgrees(row'[a]))
Created(a) ==
    /\ ~Exists(a) /\ MayStart(a) /\ RowAgrees(row'[a])
    /\ \A b \in Attempts \ {a} : row'[b] = row[b]
RowStep == \A a \in Attempts : Kept(a) \/ Created(a)

LEMMA TypeInvImpliesTypeOK == TypeInv /\ RowsAgree => TypeOK
  BY DEF TypeInv, TypeOK, RowsAgree, JournalOK, ClaimOK, WkOK, TaskOK, WorldOK, Wks

LEMMA ReleasedAgrees ==
    ASSUME NEW r \in Rows
    PROVE  /\ Released(r) \in Rows /\ Released(r).owner = NoWorker
           /\ Released(r).state = r.state /\ Released(r).disposition = r.disposition
  BY ReleasedIsRow DEF Released, Rows

LEMMA DebtAgrees ==
    ASSUME NEW r \in Rows, NEW d \in {"discard", "preserve"}, NEW b \in SUBSET Attempts
    PROVE  RowAgrees(Debt(r, d, b))
<1> DEFINE s == Released(r)
           target == IF d = "discard" THEN "cleanup_pending" ELSE "preserved"
<1>1. s \in Rows /\ s.owner = NoWorker
  BY ReleasedAgrees
<1>2. Debt(r, d, b) = [s EXCEPT !.state = target, !.disposition = d, !.barriers = b,
                               !.due = TRUE, !.error = "none"]
  BY DEF Debt
<1> HIDE DEF s
<1>3. /\ Debt(r, d, b).state = target /\ Debt(r, d, b).disposition = d
      /\ Debt(r, d, b).owner = NoWorker
  BY <1>1, <1>2 DEF Rows
<1> QED
  BY <1>3 DEF RowAgrees, Open

LEMMA JournalKept ==
    ASSUME UNCHANGED row
    PROVE  RowStep
  BY DEF RowStep, Kept

LEMMA WriteKept ==
    ASSUME TypeInv, NEW a \in Attempts, NEW r, NEW writers, Write(a, r, writers),
           RowAgrees(r), Exists(a) \/ MayStart(a)
    PROVE  RowStep
<1>1. row'[a] = r /\ \A b \in Attempts \ {a} : row'[b] = row[b]
  BY DEF TypeInv, JournalOK, Write
<1> QED
  BY <1>1 DEF RowStep, Kept, Created

LEMMA ScheduleAllKept ==
    ASSUME TypeInv, NEW as \in SUBSET Attempts, NEW d \in {"discard", "preserve"},
           NEW b \in SUBSET Attempts, ScheduleAll(as, d, b)
    PROVE  RowStep
<1> DEFINE open == {a \in as : Exists(a) /\ row[a].state \notin Settled}
<1>1. row' = [a \in Attempts |-> IF a \in open THEN Debt(row[a], d, b) ELSE row[a]]
  BY DEF ScheduleAll
<1>2. \A a \in open : Exists(a) /\ row[a] \in Rows
  BY ExistsIsRow DEF TypeInv
<1>3. \A a \in open : RowAgrees(Debt(row[a], d, b))
  BY <1>2, DebtAgrees
<1> HIDE DEF open
<1> QED
  BY <1>1, <1>2, <1>3 DEF RowStep, Kept

\* A worker writes a row that is there.
LEMMA CasKept ==
    ASSUME TypeInv, NEW w \in Workers, wk[w].pc # "idle", NEW r, RowAgrees(r),
           (\E pc : Cas(w, r, pc)) \/ CasFinish(w, r) \/ HandlerWrite(w, r)
    PROVE  RowStep
<1>1. wk[w].item \in Attempts /\ Exists(wk[w].item)
  BY ItemIsRow, ExistsIsRow DEF TypeInv
<1>2. UNCHANGED row \/ \E writers : Write(wk[w].item, r, writers)
  BY DEF Cas, CasFinish, HandlerWrite, journalVars
<1> QED
  BY <1>1, <1>2, WriteKept, JournalKept

LEMMA PipelineKept ==
    ASSUME TypeInv, RowsAgree, PipelineStep
    PROVE  RowStep
<1>0. JournalOK
  BY DEF TypeInv
<1>1. ASSUME NEW a \in Attempts, CreateAttempt(a)
      PROVE  RowStep
  <2>1. RowAgrees(NewRow)
    BY DEF RowAgrees, NewRow
  <2> QED
    BY <1>1, <2>1, WriteKept DEF CreateAttempt
<1>2. ASSUME NEW a \in Attempts, AcceptHandle(a)
      PROVE  RowStep
  <2>1. Exists(a) /\ row[a].state = "acquiring"
    BY <1>2 DEF AcceptHandle, InState
  <2>2. row[a] \in Rows /\ RowAgrees(row[a])
    BY <1>0, <2>1, ExistsIsRow DEF RowsAgree
  <2>3. RowAgrees([row[a] EXCEPT !.state = "in_use", !.known = TRUE])
    BY <2>1, <2>2 DEF RowAgrees, Rows, Open, Cleanable
  <2> QED
    BY <1>2, <2>1, <2>3, WriteKept DEF AcceptHandle
<1>3. ASSUME NEW a \in Attempts, FailOver(a) \/ \E final \in TerminalStatuses : Finalize(a, final)
      PROVE  RowStep
  <2>1. PICK o \in ImportOutcomes(a) : ScheduleAll({a}, o[1], o[2])
    BY <1>3 DEF FailOver, Finalize
  <2> QED
    BY <2>1, OutcomesTyped, ScheduleAllKept
<1>4. ASSUME NEW t \in Tasks, FailPreserving(t) \/ ReapReimport(t)
      PROVE  RowStep
  <2> DEFINE open == {a \in AttemptsOf(t) : InState(a, Open)}
  <2>1. PICK a : ScheduleAll({a} \intersect open, "preserve", {})
    BY <1>4 DEF FailPreserving, ReapReimport, PreserveLatest
  <2>2. {a} \intersect open \in SUBSET Attempts
    BY DEF AttemptsOf
  <2> HIDE DEF open
  <2> QED
    BY <2>1, <2>2, ScheduleAllKept
<1>5. ASSUME NEW t \in Tasks, Cancel(t)
      PROVE  RowStep
  <2>1. PICK d \in {"discard", "preserve"} :
           ScheduleAll(AttemptsOf(t), d, IF d = "discard" THEN BundlesOf(t) ELSE {})
    BY <1>5 DEF Cancel
  <2>2. /\ AttemptsOf(t) \in SUBSET Attempts
        /\ (IF d = "discard" THEN BundlesOf(t) ELSE {}) \in SUBSET Attempts
    BY BundlesTyped DEF AttemptsOf
  <2> QED
    BY <2>1, <2>2, ScheduleAllKept
<1>6. ASSUME NEW a \in Attempts, Reimport(a)
      PROVE  RowStep
  <2>1. CASE /\ InState(a, {"cleanup_pending", "preserved", "needs_attention"})
             /\ row[a].owner = NoWorker
             /\ Write(a, [row[a] EXCEPT !.state = "in_use", !.disposition = "undecided",
                                        !.due = TRUE, !.error = "none"], {})
    <3>1. Exists(a) /\ row[a] \in Rows
      BY <1>0, <2>1, ExistsIsRow DEF InState
    <3>2. RowAgrees([row[a] EXCEPT !.state = "in_use", !.disposition = "undecided",
                                   !.due = TRUE, !.error = "none"])
      BY <2>1, <3>1 DEF RowAgrees, Rows
    <3> QED
      BY <2>1, <3>1, <3>2, WriteKept
  <2>2. CASE MayStart(a) /\ Write(a, [NewRow EXCEPT !.state = "in_use"], {})
    <3>1. RowAgrees([NewRow EXCEPT !.state = "in_use"])
      BY DEF RowAgrees, NewRow
    <3> QED
      BY <2>2, <3>1, WriteKept
  <2> QED
    BY <1>6, <2>1, <2>2 DEF Reimport
<1>7. ASSUME NEW a \in Attempts, ExpirePreserved(a)
      PROVE  RowStep
  <2>1. Exists(a) /\ row[a] \in Rows /\ row[a].owner = NoWorker
    BY <1>0, <1>7, ExistsIsRow DEF ExpirePreserved, InState
  <2>2. RowAgrees([row[a] EXCEPT !.state = "cleanup_pending", !.disposition = "discard",
                                 !.due = TRUE, !.error = "none"])
    BY <2>1 DEF RowAgrees, Rows, Open
  <2> QED
    BY <1>7, <2>1, <2>2, WriteKept DEF ExpirePreserved
<1>8. ASSUME \/ \E a \in Attempts : SendEnqueue(a) \/ Publish(a) \/ Resume(a)
             \/ \E t \in Tasks : LinkCandidate(t)
      PROVE  RowStep
  BY <1>8, JournalKept DEF SendEnqueue, Publish, Resume, LinkCandidate, journalVars
<1> QED
  BY <1>1, <1>2, <1>3, <1>4, <1>5, <1>6, <1>7, <1>8 DEF PipelineStep

LEMMA ItemKept ==
    ASSUME TypeInv, RowsAgree, NEW w \in Workers, ItemStep(w)
    PROVE  RowStep
<1> DEFINE a == wk[w].item
           s == Released(row[a])
<1>1. CASE UNCHANGED row
  BY <1>1, JournalKept
<1>2. wk[w].pc # "idle" => /\ a \in Attempts /\ row[a] \in Rows /\ RowAgrees(row[a])
                           /\ s \in Rows /\ s.owner = NoWorker
                           /\ s.state = row[a].state /\ s.disposition = row[a].disposition
  BY ItemIsRow, ExistsIsRow, ReleasedAgrees DEF RowsAgree, TypeInv
<1> HIDE DEF s
<1>3. CASE DeferForPublisher(w)
  <2>1. RowAgrees([s EXCEPT !.due = FALSE, !.error = "other"])
    BY <1>2, <1>3 DEF DeferForPublisher, RowAgrees, Rows
  <2> QED
    BY <1>3, <2>1, CasKept DEF DeferForPublisher, s
<1>4. CASE RecordEvidence(w)
  <2>1. PICK pc : Cas(w, [row[a] EXCEPT !.pin = claim[w][a].pin,
                                        !.known = claim[w][a].known], pc)
    BY <1>4 DEF RecordEvidence
  <2>2. RowAgrees([row[a] EXCEPT !.pin = claim[w][a].pin, !.known = claim[w][a].known])
    BY <1>2, <1>4 DEF RecordEvidence, RowAgrees, Rows
  <2> QED
    BY <1>4, <2>1, <2>2, CasKept DEF RecordEvidence
<1>5. CASE MarkRemoved(w)
  <2>1. RowAgrees([row[a] EXCEPT !.state = "workspace_removed", !.error = "none"])
    BY <1>2, <1>5 DEF MarkRemoved, RowAgrees, Rows, Open, Cleanable
  <2> QED
    BY <1>5, <2>1, CasKept DEF MarkRemoved
<1>6. CASE MarkComplete(w)
  <2>1. RowAgrees([s EXCEPT !.state = "complete", !.error = "none"])
    BY <1>2, <1>6 DEF MarkComplete, RowAgrees, Rows, Open
  <2> QED
    BY <1>6, <2>1, CasKept DEF MarkComplete, s
<1>7. CASE AttentionResume(w)
  <2>1. RowAgrees([s EXCEPT !.state = "cleanup_pending", !.disposition = "discard",
                            !.due = TRUE, !.error = "none"])
    BY <1>2, <1>7 DEF AttentionResume, RowAgrees, Rows, Open
  <2> QED
    BY <1>7, <2>1, CasKept DEF AttentionResume, s
<1>8. CASE AttentionDefer(w)
  <2>1. RowAgrees([s EXCEPT !.state = "needs_attention", !.due = FALSE])
    BY <1>2, <1>8 DEF AttentionDefer, RowAgrees, Rows, Open
  <2> QED
    BY <1>8, <2>1, CasKept DEF AttentionDefer, s
<1>9. CASE UnsafeWrite(w)
  <2>1. RowAgrees([s EXCEPT !.state = "needs_attention", !.disposition = "preserve",
                            !.due = FALSE, !.error = wk[w].code])
    BY <1>2, <1>9 DEF UnsafeWrite, RowAgrees, Rows, Open
  <2> QED
    BY <1>9, <2>1, CasKept DEF UnsafeWrite, s
<1>10. CASE RetryWrite(w)
  <2> DEFINE r == [s EXCEPT !.failures = IF @ < UnresolvedJobRetries THEN @ + 1 ELSE @,
                            !.due = FALSE, !.error = "other"]
  <2>1. r.state = s.state /\ r.disposition = s.disposition /\ r.owner = s.owner
    BY <1>2, <1>10 DEF RetryWrite, Rows
  <2>2. HandlerWrite(w, r) /\ wk[w].pc # "idle"
    BY <1>10 DEF RetryWrite, s
  <2> HIDE DEF r
  <2>3. RowAgrees(r)
    BY <1>2, <2>1, <2>2 DEF RowAgrees
  <2> QED
    BY <2>2, <2>3, CasKept
<1>11. CASE \/ CheckBarriers(w) \/ Inspect(w) \/ Abort(w) \/ RemoveFile(w)
            \/ RemoveWorkspace(w) \/ Discard(w) \/ AttentionBarriers(w)
            \/ AttentionInspect(w) \/ AttentionDiscard(w) \/ UnsafeReread(w)
            \/ RetryReread(w)
  BY <1>1, <1>11 DEF CheckBarriers, Inspect, Abort, RemoveFile, RemoveWorkspace, Discard,
     AttentionBarriers, AttentionInspect, AttentionDiscard, UnsafeReread, RetryReread,
     Reread, journalVars
<1> QED
  BY <1>3, <1>4, <1>5, <1>6, <1>7, <1>8, <1>9, <1>10, <1>11 DEF ItemStep

\* Leases are given only to rows in a state that may have one.
LEMMA ClaimKept ==
    ASSUME TypeInv, RowsAgree, NEW w \in Workers, NEW as \in SUBSET Claimable, ClaimRows(w, as)
    PROVE  RowStep
<1>1. \A a \in as : Exists(a) /\ row[a] \in Rows /\ row[a].state \in Cleanable
  BY ExistsIsRow DEF TypeInv, Claimable, InState
<1>2. \A a \in as : RowAgrees(row[a])
  BY <1>1 DEF RowsAgree, Claimable
<1>3. \A a \in as : RowAgrees([row[a] EXCEPT !.owner = w])
  BY <1>1, <1>2 DEF RowAgrees, Rows
<1>4. row' = [a \in Attempts |-> IF a \in as THEN [row[a] EXCEPT !.owner = w] ELSE row[a]]
  BY DEF ClaimRows
<1> QED
  BY <1>1, <1>3, <1>4 DEF RowStep, Kept

LEMMA WorkerKept ==
    ASSUME TypeInv, RowsAgree, WorkerStep
    PROVE  RowStep
<1>1. ASSUME NEW w \in Workers, RunOnce(w) \/ \E a \in Attempts : CleanupNow(w, a)
      PROVE  RowStep
  <2>1. UNCHANGED row \/ \E as \in SUBSET Claimable : ClaimRows(w, as)
    BY <1>1 DEF RunOnce, CleanupNow, journalVars
  <2> QED
    BY <2>1, JournalKept, ClaimKept
<1>2. ASSUME NEW w \in Workers, KillWorker(w) \/ \E a \in Attempts : Begin(w, a)
      PROVE  RowStep
  BY <1>2, JournalKept DEF KillWorker, Begin, journalVars
<1> QED
  BY <1>1, <1>2, ItemKept DEF WorkerStep

LEMMA WorldKept ==
    ASSUME TypeInv, RowsAgree, WorldStep
    PROVE  RowStep
<1>1. ASSUME NEW a \in Attempts, Elapse(a) \/ LeaseExpires(a)
      PROVE  RowStep
  <2>1. Exists(a) /\ row[a] \in Rows /\ RowAgrees(row[a])
    BY <1>1, ExistsIsRow DEF Elapse, LeaseExpires, TypeInv, RowsAgree
  <2>2. PICK r \in {[row[a] EXCEPT !.due = TRUE], [row[a] EXCEPT !.owner = NoWorker]} :
           row' = [row EXCEPT ![a] = r]
    BY <1>1 DEF Elapse, LeaseExpires
  <2>3. RowAgrees(r)
    BY <2>1 DEF RowAgrees, Rows
  <2>4. row'[a] = r /\ \A b \in Attempts \ {a} : row'[b] = row[b]
    BY <2>2 DEF TypeInv, JournalOK
  <2> QED
    BY <2>1, <2>3, <2>4 DEF RowStep, Kept
<1>2. ASSUME \/ \E a \in Attempts : ClientEnqueue(a) \/ PublisherStep(a) \/ RemovedByHand(a)
             \/ \E p \in Paths : TransferMoves(p) \/ TransferEnds(p)
             \/ Restart
      PROVE  RowStep
  BY <1>2, JournalKept
  DEF ClientEnqueue, PublisherStep, RemovedByHand, TransferMoves, TransferEnds, Restart,
      journalVars
<1> QED
  BY <1>1, <1>2 DEF WorldStep

LEMMA RowsStep ==
    ASSUME TypeInv, RowsAgree, [Next]_vars
    PROVE  RowStep /\ RowsAgree'
<1>1. ASSUME UNCHANGED vars
      PROVE  RowStep
  BY <1>1, JournalKept DEF vars, journalVars
<1>2. RowStep
  BY <1>1, PipelineKept, WorkerKept, WorldKept DEF Next
<1> QED
  BY <1>2 DEF RowStep, Kept, Created, RowsAgree, Exists

\* Every variable keeps its type, and every row its shape: whichever of the pipelines, the
\* commands and the workers wrote it last, its disposition is the one its state calls for,
\* and only a row in a state that a cleanup worker may claim is under a lease.
THEOREM TypeCorrect == Spec => []TypeOK
<1>1. Init => RowsAgree
  BY DEF Init, RowsAgree, Exists
<1>2. TypeInv /\ RowsAgree /\ [Next]_vars => RowsAgree'
  BY RowsStep
<1>3. TypeInv /\ RowsAgree => TypeOK
  BY TypeInvImpliesTypeOK
<1> QED
  BY <1>1, <1>2, <1>3, TypeInvariant, PTL DEF Spec

-----------------------------------------------------------------------------
(* Open attempts belong to live pipelines *)

\* Between two pipelines an open row is the one a resumed pipeline finds: the latest
\* attempt at the linked candidate, with its manifest on disk.
OpenIsReachable ==
    \A a \in Attempts :
        row[a].state \in Open =>
            LET t == TaskOf[a] IN
            /\ status[t] \in {"active", "reimporting"}
            /\ link[t] = a
            /\ using[t] = NoAttempt => status[t] = "active" /\ manifest[t]

\* A pipeline or a reimport works on the latest attempt of its own task, and on none
\* while it moves to the next candidate.
UsesLinked ==
    \A t \in Tasks :
        using[t] # NoAttempt =>
            TaskOf[using[t]] = t /\ link[t] = using[t] /\ status[t] # "switching"

OpenInv == TypeInv /\ UsesLinked /\ OpenIsReachable

\* No row is opened, and the pipelines stand still.
NoneOpened == \A a \in Attempts : row'[a].state \in Open => row[a].state \in Open
PipelinesStand == UNCHANGED <<status, using, link, manifest>>

LEMMA StandingStep ==
    ASSUME OpenInv, NoneOpened, PipelinesStand
    PROVE  UsesLinked' /\ OpenIsReachable'
<1>1. UsesLinked'
  BY DEF OpenInv, UsesLinked, PipelinesStand
<1>2. OpenIsReachable'
  BY DEF OpenInv, OpenIsReachable, PipelinesStand, NoneOpened
<1> QED
  BY <1>1, <1>2

LEMMA WriteOpens ==
    ASSUME TypeInv, NEW a \in Attempts, NEW r, NEW writers, Write(a, r, writers),
           r.state \in Open => row[a].state \in Open
    PROVE  NoneOpened
  BY DEF TypeInv, JournalOK, Write, NoneOpened

LEMMA JournalStands ==
    ASSUME UNCHANGED journalVars
    PROVE  NoneOpened
  BY DEF journalVars, NoneOpened

LEMMA DebtIsClosed ==
    ASSUME NEW r \in Rows, NEW d \in {"discard", "preserve"}, NEW b \in SUBSET Attempts
    PROVE  Debt(r, d, b).state \notin Open
<1> DEFINE s == Released(r)
           target == IF d = "discard" THEN "cleanup_pending" ELSE "preserved"
<1>1. s \in Rows /\ target \notin Open
  BY ReleasedIsRow DEF Open
<1>2. Debt(r, d, b) = [s EXCEPT !.state = target, !.disposition = d, !.barriers = b,
                               !.due = TRUE, !.error = "none"]
  BY DEF Debt
<1> HIDE DEF s, target
<1> QED
  BY <1>1, <1>2 DEF Rows

\* Scheduling opens nothing and closes every row it is given.
LEMMA ScheduleAllCloses ==
    ASSUME TypeInv, NEW as \in SUBSET Attempts, NEW d \in {"discard", "preserve"},
           NEW b \in SUBSET Attempts, ScheduleAll(as, d, b)
    PROVE  NoneOpened /\ \A a \in as : row'[a].state \notin Open
<1> DEFINE open == {a \in as : Exists(a) /\ row[a].state \notin Settled}
<1>1. row' = [a \in Attempts |-> IF a \in open THEN Debt(row[a], d, b) ELSE row[a]]
  BY DEF ScheduleAll
<1>2. \A a \in open : row[a] \in Rows
  BY ExistsIsRow DEF TypeInv
<1>3. \A a \in open : row'[a].state \notin Open
  BY <1>1, <1>2, DebtIsClosed
<1>4. \A a \in as : a \notin open => row[a].state \notin Open
  <2>1. NoRow.state = "none" /\ "none" \notin Open /\ Settled \intersect Open = {}
    BY DEF NoRow, Settled, Open
  <2>2. \A a \in as : a \notin open => row[a] = NoRow \/ row[a].state \in Settled
    BY DEF Exists
  <2> QED
    BY <2>1, <2>2
<1>5. \A a \in Attempts : a \notin open => row'[a] = row[a]
  BY <1>1
<1> HIDE DEF open
<1> QED
  BY <1>3, <1>4, <1>5 DEF NoneOpened

LEMMA CasOpens ==
    ASSUME TypeInv, NEW w \in Workers, wk[w].pc # "idle", NEW r,
           r.state \in Open => row[wk[w].item].state \in Open,
           (\E pc : Cas(w, r, pc)) \/ CasFinish(w, r) \/ HandlerWrite(w, r)
    PROVE  NoneOpened
  BY ItemIsRow, WriteOpens, JournalStands DEF Cas, CasFinish, HandlerWrite

\* A cleanup worker never opens a row and never touches a pipeline.
LEMMA ItemStands ==
    ASSUME TypeInv, NEW w \in Workers, ItemStep(w)
    PROVE  NoneOpened /\ PipelinesStand
<1> DEFINE a == wk[w].item
<1>1. PipelinesStand
  BY DEF ItemStep, CheckBarriers, DeferForPublisher, Inspect, RecordEvidence, Abort,
         RemoveFile, RemoveWorkspace, MarkRemoved, Discard, MarkComplete,
         AttentionBarriers, AttentionInspect, AttentionDiscard, AttentionResume,
         AttentionDefer, UnsafeReread, UnsafeWrite, RetryReread, RetryWrite, Reread,
         HandlerWrite, taskVars, PipelinesStand
<1>2. CASE UNCHANGED row
  BY <1>1, <1>2 DEF NoneOpened
<1>3. wk[w].pc # "idle" => /\ a \in Attempts
                           /\ row[a] \in Rows
                           /\ Released(row[a]) \in Rows
                           /\ Released(row[a]).state = row[a].state
  BY ItemIsRow, ReleasedIsRow DEF Released, Rows
<1>4. CASE DeferForPublisher(w)
  BY <1>1, <1>3, <1>4, CasOpens DEF DeferForPublisher, Rows
<1>5. CASE RecordEvidence(w)
  <2>1. PICK pc : Cas(w, [row[a] EXCEPT !.pin = claim[w][a].pin,
                                        !.known = claim[w][a].known], pc)
    BY <1>5 DEF RecordEvidence
  <2> QED
    BY <1>1, <1>3, <1>5, <2>1, CasOpens DEF RecordEvidence, Rows
<1>6. CASE MarkRemoved(w)
  BY <1>1, <1>3, <1>6, CasOpens DEF MarkRemoved, Rows, Open
<1>7. CASE MarkComplete(w)
  BY <1>1, <1>3, <1>7, CasOpens DEF MarkComplete, Rows, Open
<1>8. CASE AttentionResume(w)
  BY <1>1, <1>3, <1>8, CasOpens DEF AttentionResume, Rows, Open
<1>9. CASE AttentionDefer(w)
  BY <1>1, <1>3, <1>9, CasOpens DEF AttentionDefer, Rows, Open
<1>10. CASE UnsafeWrite(w)
  BY <1>1, <1>3, <1>10, CasOpens DEF UnsafeWrite, Rows, Open
<1>11. CASE RetryWrite(w)
  BY <1>1, <1>3, <1>11, CasOpens DEF RetryWrite, Rows
<1>12. CASE \/ CheckBarriers(w) \/ Inspect(w) \/ Abort(w) \/ RemoveFile(w)
            \/ RemoveWorkspace(w) \/ Discard(w) \/ AttentionBarriers(w)
            \/ AttentionInspect(w) \/ AttentionDiscard(w) \/ UnsafeReread(w)
            \/ RetryReread(w)
  BY <1>1, <1>2, <1>12 DEF CheckBarriers, Inspect, Abort, RemoveFile, RemoveWorkspace, Discard,
     AttentionBarriers, AttentionInspect, AttentionDiscard, UnsafeReread, RetryReread,
     Reread, journalVars
<1> QED
  BY <1>4, <1>5, <1>6, <1>7, <1>8, <1>9, <1>10, <1>11, <1>12 DEF ItemStep

LEMMA WorkerStands ==
    ASSUME TypeInv, WorkerStep
    PROVE  NoneOpened /\ PipelinesStand
<1>1. ASSUME NEW w \in Workers, NEW as \in SUBSET Attempts, ClaimRows(w, as),
             \A a \in as : row[a] \in Rows
      PROVE  NoneOpened
  <2>1. \A a \in as : [row[a] EXCEPT !.owner = w].state = row[a].state
    BY <1>1 DEF Rows
  <2>2. row' = [a \in Attempts |-> IF a \in as THEN [row[a] EXCEPT !.owner = w] ELSE row[a]]
    BY <1>1 DEF ClaimRows
  <2> QED
    BY <2>1, <2>2 DEF NoneOpened
<1>2. \A a \in Claimable : row[a] \in Rows
  BY ExistsIsRow DEF Claimable, InState, TypeInv
<1>3. ASSUME NEW w \in Workers, RunOnce(w)
      PROVE  NoneOpened /\ PipelinesStand
  <2>1. Claimable \in SUBSET Attempts
    BY DEF Claimable
  <2> QED
    BY <1>1, <1>2, <1>3, <2>1 DEF RunOnce, PipelinesStand, taskVars
<1>4. ASSUME NEW w \in Workers, NEW a \in Attempts, CleanupNow(w, a)
      PROVE  NoneOpened /\ PipelinesStand
  <2>1. CASE a \in Claimable
    <3>1. {a} \in SUBSET Attempts /\ \A b \in {a} : row[b] \in Rows
      BY <1>2, <2>1
    <3> QED
      BY <1>1, <1>4, <2>1, <3>1 DEF CleanupNow, PipelinesStand
  <2>2. CASE a \notin Claimable
    BY <1>4, <2>2, JournalStands DEF CleanupNow, PipelinesStand
  <2> QED
    BY <2>1, <2>2
<1>5. ASSUME NEW w \in Workers, KillWorker(w) \/ \E a \in Attempts : Begin(w, a)
      PROVE  NoneOpened /\ PipelinesStand
  BY <1>5, JournalStands DEF KillWorker, Begin, PipelinesStand, taskVars
<1> QED
  BY <1>3, <1>4, <1>5, ItemStands DEF WorkerStep

LEMMA OpenRows == \A a : InState(a, Open) <=> row[a].state \in Open
  BY DEF InState, Exists, NoRow, Open

\* By OpenIsReachable the one row PreserveLatest closes is the only open one.
LEMMA PreserveLatestCloses ==
    ASSUME OpenInv, NEW t \in Tasks, PreserveLatest(t)
    PROVE  NoneOpened /\ \A a \in AttemptsOf(t) : row'[a].state \notin Open
<1> DEFINE open == {a \in AttemptsOf(t) : InState(a, Open)}
<1>1. \A a \in open : a \in Attempts /\ link[t] = a
  BY OpenRows DEF OpenInv, OpenIsReachable, AttemptsOf
<1>2. \A a \in AttemptsOf(t) : a \notin open => row[a].state \notin Open
  BY OpenRows
<1>3. PICK a \in (IF link[t] \in open \/ open = {} THEN {link[t]} ELSE open) :
         ScheduleAll({a} \intersect open, "preserve", {})
  BY DEF PreserveLatest
<1> HIDE DEF open
<1>4. {a} \intersect open = open
  BY <1>1, <1>3
<1>5. NoneOpened /\ \A b \in open : row'[b].state \notin Open
  <2>1. open \in SUBSET Attempts /\ {} \in SUBSET Attempts
    BY <1>1
  <2>2. ScheduleAll(open, "preserve", {})
    BY <1>3, <1>4
  <2> QED
    BY <2>1, <2>2, ScheduleAllCloses DEF OpenInv
<1> QED
  BY <1>2, <1>5 DEF NoneOpened, AttemptsOf

\* A pipeline ends: all the rows of its task are closed, or its only open one.
LEMMA ClosedTask ==
    ASSUME OpenInv, NEW t \in Tasks, NoneOpened,
           \A a \in AttemptsOf(t) : row'[a].state \notin Open,
           \A u \in Tasks \ {t} : /\ status'[u] = status[u] /\ using'[u] = using[u]
                                  /\ link'[u] = link[u] /\ manifest'[u] = manifest[u],
           \/ using'[t] = NoAttempt
           \/ using'[t] = using[t] /\ link'[t] = link[t] /\ status'[t] # "switching"
    PROVE  UsesLinked' /\ OpenIsReachable'
<1>1. UsesLinked'
  BY DEF OpenInv, UsesLinked
<1>2. ASSUME NEW a \in Attempts, row'[a].state \in Open
      PROVE  TaskOf[a] \in Tasks \ {t} /\ row[a].state \in Open
  BY <1>2, AttemptsAssumption DEF AttemptsOf, NoneOpened
<1>3. OpenIsReachable'
  BY <1>2 DEF OpenInv, OpenIsReachable
<1> QED
  BY <1>1, <1>3

LEMMA ClosedAttempt ==
    ASSUME OpenInv, NEW t \in Tasks, NEW a \in Attempts, using[t] = a, NoneOpened,
           row'[a].state \notin Open
    PROVE  \A b \in AttemptsOf(t) : row'[b].state \notin Open
<1>1. link[t] = a
  BY AttemptsAssumption DEF OpenInv, UsesLinked
<1> QED
  BY <1>1 DEF OpenInv, OpenIsReachable, NoneOpened, AttemptsOf

LEMMA PipelineOpenInv ==
    ASSUME OpenInv, PipelineStep
    PROVE  UsesLinked' /\ OpenIsReachable'
<1> USE DEF OpenInv
<1> USE AttemptsAssumption
<1>0. TypeInv' /\ JournalOK /\ TaskOK
  BY PipelineTypeInv DEF TypeInv
<1>1. ASSUME NEW a \in Attempts, CreateAttempt(a)
      PROVE  UsesLinked' /\ OpenIsReachable'
  <2>1. \A b \in AttemptsOf(TaskOf[a]) : row[b].state \notin Open
    BY <1>1 DEF CreateAttempt, OpenIsReachable, AttemptsOf
  <2>2. \A b \in Attempts \ {a} : row'[b] = row[b]
    BY <1>0, <1>1 DEF CreateAttempt, Write, JournalOK
  <2>3. UsesLinked'
    BY <1>0, <1>1 DEF CreateAttempt, UsesLinked, TaskOK
  <2>4. OpenIsReachable'
    BY <1>0, <1>1, <2>1, <2>2 DEF CreateAttempt, OpenIsReachable, AttemptsOf, TaskOK
  <2> QED
    BY <2>3, <2>4
<1>2. ASSUME NEW a \in Attempts, SendEnqueue(a)
      PROVE  UsesLinked' /\ OpenIsReachable'
  <2>1. UNCHANGED <<row, status, using, link>> /\ manifest' = [manifest EXCEPT ![TaskOf[a]] = TRUE]
    BY <1>2 DEF SendEnqueue, journalVars
  <2> QED
    BY <1>0, <2>1 DEF UsesLinked, OpenIsReachable, TaskOK
<1>3. ASSUME NEW a \in Attempts, AcceptHandle(a)
      PROVE  UsesLinked' /\ OpenIsReachable'
  <2>1. row[a].state \in Open
    BY <1>3 DEF AcceptHandle, InState, Open
  <2>2. NoneOpened /\ PipelinesStand
    BY <1>3, <2>1, WriteOpens DEF AcceptHandle, PipelinesStand, taskVars
  <2> QED
    BY <2>2, StandingStep
<1>4. ASSUME NEW a \in Attempts, Publish(a)
      PROVE  UsesLinked' /\ OpenIsReachable'
  BY <1>4, JournalStands, StandingStep DEF Publish, PipelinesStand, taskVars
<1>5. ASSUME NEW a \in Attempts, FailOver(a)
      PROVE  UsesLinked' /\ OpenIsReachable'
  <2>1. PICK o \in ImportOutcomes(a) : ScheduleAll({a}, o[1], o[2])
    BY <1>5 DEF FailOver
  <2>2. NoneOpened /\ row'[a].state \notin Open
    <3>1. {a} \in SUBSET Attempts /\ a \in {a}
      OBVIOUS
    <3>2. PICK d \in {"discard", "preserve"}, bs \in SUBSET Attempts : ScheduleAll({a}, d, bs)
      BY <2>1, OutcomesTyped
    <3>3. TypeInv
      OBVIOUS
    <3>4. NoneOpened /\ \A b \in {a} : row'[b].state \notin Open
      BY ONLY <3>1, <3>2, <3>3, ScheduleAllCloses
    <3> QED
      BY <3>1, <3>4
  <2>3. \A b \in AttemptsOf(TaskOf[a]) : row'[b].state \notin Open
    BY <1>5, <2>2, ClosedAttempt DEF FailOver
  <2> QED
    BY <1>0, <1>5, <2>2, <2>3, ClosedTask DEF FailOver, TaskOK
<1>6. ASSUME NEW t \in Tasks, LinkCandidate(t)
      PROVE  UsesLinked' /\ OpenIsReachable'
  <2>1. NoneOpened
    BY <1>6, JournalStands DEF LinkCandidate
  <2>2. using[t] = NoAttempt
    BY <1>6 DEF LinkCandidate, UsesLinked
  <2>3. \A a \in AttemptsOf(t) : row'[a].state \notin Open
    BY <1>6, <2>1 DEF LinkCandidate, OpenIsReachable, AttemptsOf, NoneOpened
  <2> QED
    BY <1>0, <1>6, <2>1, <2>2, <2>3, ClosedTask DEF LinkCandidate, TaskOK
<1>7. ASSUME NEW a \in Attempts, NEW final \in TerminalStatuses, Finalize(a, final)
      PROVE  UsesLinked' /\ OpenIsReachable'
  <2>1. PICK o \in ImportOutcomes(a) : ScheduleAll({a}, o[1], o[2])
    BY <1>7 DEF Finalize
  <2>2. NoneOpened /\ row'[a].state \notin Open
    <3>1. {a} \in SUBSET Attempts /\ a \in {a}
      OBVIOUS
    <3>2. PICK d \in {"discard", "preserve"}, bs \in SUBSET Attempts : ScheduleAll({a}, d, bs)
      BY <2>1, OutcomesTyped
    <3>3. TypeInv
      OBVIOUS
    <3>4. NoneOpened /\ \A b \in {a} : row'[b].state \notin Open
      BY ONLY <3>1, <3>2, <3>3, ScheduleAllCloses
    <3> QED
      BY <3>1, <3>4
  <2>3. \A b \in AttemptsOf(TaskOf[a]) : row'[b].state \notin Open
    BY <1>7, <2>2, ClosedAttempt DEF Finalize
  <2>4. manifest' \in {manifest, [manifest EXCEPT ![TaskOf[a]] = FALSE]}
    BY <1>7 DEF Finalize
  <2> QED
    BY <1>0, <1>7, <2>2, <2>3, <2>4, ClosedTask DEF Finalize, TaskOK
<1>8. ASSUME NEW t \in Tasks, FailPreserving(t)
      PROVE  UsesLinked' /\ OpenIsReachable'
  BY <1>0, <1>8, PreserveLatestCloses, ClosedTask DEF FailPreserving, TaskOK
<1>9. ASSUME NEW t \in Tasks, ReapReimport(t)
      PROVE  UsesLinked' /\ OpenIsReachable'
  BY <1>0, <1>9, PreserveLatestCloses, ClosedTask DEF ReapReimport, TaskOK
<1>10. ASSUME NEW t \in Tasks, Cancel(t)
       PROVE  UsesLinked' /\ OpenIsReachable'
  <2>1. PICK d \in {"discard", "preserve"} :
           ScheduleAll(AttemptsOf(t), d, IF d = "discard" THEN BundlesOf(t) ELSE {})
    BY <1>10 DEF Cancel
  <2>2. NoneOpened /\ \A a \in AttemptsOf(t) : row'[a].state \notin Open
    <3>1. /\ AttemptsOf(t) \in SUBSET Attempts
          /\ (IF d = "discard" THEN BundlesOf(t) ELSE {}) \in SUBSET Attempts
      BY BundlesTyped DEF AttemptsOf
    <3> QED
      BY <2>1, <3>1, ScheduleAllCloses
  <2> QED
    BY <1>0, <1>10, <2>2, ClosedTask DEF Cancel, TaskOK
<1>11. ASSUME NEW a \in Attempts, Reimport(a)
       PROVE  UsesLinked' /\ OpenIsReachable'
  <2>1. \A b \in AttemptsOf(TaskOf[a]) : row[b].state \notin Open
    BY <1>11 DEF Reimport, OpenIsReachable, AttemptsOf
  <2>2. \A b \in Attempts \ {a} : row'[b] = row[b]
    BY <1>0, <1>11 DEF Reimport, Write, JournalOK
  <2>3. UsesLinked'
    BY <1>0, <1>11 DEF Reimport, UsesLinked, TaskOK
  <2>4. OpenIsReachable'
    BY <1>0, <1>11, <2>1, <2>2 DEF Reimport, OpenIsReachable, AttemptsOf, TaskOK
  <2> QED
    BY <2>3, <2>4
<1>12. ASSUME NEW a \in Attempts, Resume(a)
       PROVE  UsesLinked' /\ OpenIsReachable'
  <2>1. UNCHANGED <<row, status, link, manifest>> /\ using' = [using EXCEPT ![TaskOf[a]] = a]
        /\ status[TaskOf[a]] = "active" /\ link[TaskOf[a]] = a
    BY <1>12 DEF Resume, journalVars
  <2> QED
    BY <1>0, <2>1 DEF UsesLinked, OpenIsReachable, TaskOK
<1>13. ASSUME NEW a \in Attempts, ExpirePreserved(a)
       PROVE  UsesLinked' /\ OpenIsReachable'
  <2>1. row[a] \in Rows
    BY <1>13, ExistsIsRow DEF ExpirePreserved, InState, TypeInv
  <2>2. NoneOpened
    BY <1>13, <2>1, WriteOpens DEF ExpirePreserved, Rows, Open
  <2> QED
    BY <1>13, <2>2, StandingStep DEF ExpirePreserved, PipelinesStand, taskVars
<1> QED
  BY <1>1, <1>2, <1>3, <1>4, <1>5, <1>6, <1>7, <1>8, <1>9, <1>10, <1>11, <1>12, <1>13
  DEF PipelineStep

LEMMA WorldOpenInv ==
    ASSUME OpenInv, WorldStep,
           {"stopBeforeManifest", "stopInReimport"} \intersect Admits = {}
    PROVE  UsesLinked' /\ OpenIsReachable'
<1> USE DEF OpenInv
<1>1. ASSUME NEW a \in Attempts, Elapse(a) \/ LeaseExpires(a)
      PROVE  UsesLinked' /\ OpenIsReachable'
  <2>1. row[a] \in Rows
    BY <1>1, ExistsIsRow DEF Elapse, LeaseExpires, TypeInv
  <2>2. NoneOpened
    BY <1>1, <2>1 DEF Elapse, LeaseExpires, TypeInv, JournalOK, NoneOpened, Rows
  <2> QED
    BY <1>1, <2>2, StandingStep DEF Elapse, LeaseExpires, PipelinesStand, taskVars
<1>2. ASSUME \/ \E a \in Attempts : ClientEnqueue(a) \/ PublisherStep(a) \/ RemovedByHand(a)
             \/ \E p \in Paths : TransferMoves(p) \/ TransferEnds(p)
      PROVE  UsesLinked' /\ OpenIsReachable'
  BY <1>2, JournalStands, StandingStep
  DEF ClientEnqueue, PublisherStep, RemovedByHand, TransferMoves, TransferEnds,
      PipelinesStand, taskVars
<1>3. CASE Restart
  <2>1. UNCHANGED <<row, link, manifest>>
    BY <1>3 DEF Restart, journalVars
  <2>2. status' = [t \in Tasks |-> IF status[t] \in {"switching", "reimporting"}
                                   THEN "active" ELSE status[t]]
    BY <1>3 DEF Restart
  <2>3. using' = [t \in Tasks |-> NoAttempt]
    BY <1>3 DEF Restart
  <2>4. UsesLinked'
    BY <2>3 DEF UsesLinked
  <2>5. ASSUME NEW a \in Attempts, row[a].state \in Open
        PROVE  status[TaskOf[a]] = "active" /\ manifest[TaskOf[a]]
    <3> DEFINE t == TaskOf[a]
    <3>1. t \in Tasks /\ MomentOf(t) \subseteq Admits
      BY <1>3, AttemptsAssumption DEF Restart
    <3>2. status[t] \in {"active", "reimporting"}
          /\ (using[t] = NoAttempt => status[t] = "active" /\ manifest[t])
      BY <2>5 DEF OpenIsReachable
    <3>3. CASE using[t] # NoAttempt /\ status[t] = "active"
      <4>1. ~manifest[t] => MomentOf(t) = {"stopBeforeManifest"}
        BY <3>3 DEF MomentOf, ReimportRuns
      <4> QED
        BY <3>1, <3>3, <4>1
    <3>4. CASE using[t] # NoAttempt /\ status[t] = "reimporting"
      <4>1. MomentOf(t) = {"stopInReimport"}
        BY <3>4 DEF MomentOf, ReimportRuns
      <4> QED
        BY <3>1, <4>1
    <3> QED
      BY <3>2, <3>3, <3>4
  <2>6. OpenIsReachable'
    BY <2>1, <2>2, <2>3, <2>5, AttemptsAssumption DEF OpenIsReachable
  <2> QED
    BY <2>4, <2>6
<1> QED
  BY <1>1, <1>2, <1>3 DEF WorldStep

LEMMA OpenInvInit ==
    ASSUME Init
    PROVE  OpenInv
<1>1. UsesLinked
  BY DEF Init, UsesLinked
<1>2. OpenIsReachable
  BY DEF Init, OpenIsReachable, NoRow, Open
<1> QED
  BY <1>1, <1>2, TypeInvInit DEF OpenInv

LEMMA OpenInvStep ==
    ASSUME OpenInv, [Next]_vars,
           {"stopBeforeManifest", "stopInReimport"} \intersect Admits = {}
    PROVE  OpenInv'
<1>1. TypeInv'
  BY TypeInvStep DEF OpenInv
<1>2. CASE UNCHANGED vars
  <2>1. NoneOpened /\ PipelinesStand
    BY <1>2, JournalStands DEF vars, taskVars, PipelinesStand
  <2> QED
    BY <1>1, <2>1, StandingStep DEF OpenInv
<1>3. CASE WorkerStep
  BY <1>1, <1>3, WorkerStands, StandingStep DEF OpenInv
<1> QED
  BY <1>1, <1>2, <1>3, PipelineOpenInv, WorldOpenInv DEF Next, OpenInv

\* A terminal task leaves no attempt that nothing will ever clean up, as long as the
\* process does not stop before a manifest is written or in the middle of a reimport.
THEOREM NoOrphanedAttemptHolds ==
    ASSUME {"stopBeforeManifest", "stopInReimport"} \intersect Admits = {}
    PROVE  Spec => []NoOrphanedAttempt
<1>1. OpenInv => NoOrphanedAttempt
  BY OpenRows
  DEF OpenInv, OpenIsReachable, NoOrphanedAttempt, TerminalStatuses
<1> QED
  BY <1>1, OpenInvInit, OpenInvStep, PTL DEF Spec

-----------------------------------------------------------------------------
(* Nothing in use is deleted: the cleanup lease and the pipelines exclude each other *)

\* A cancelled task is never worked on again.
Gone(t) == status[t] = "cancelled" /\ using[t] = NoAttempt

\* A row a worker has claimed is closed and no pipeline works on it; the worker keeps the
\* lease unless the task was cancelled in between.
LeaseHeld ==
    \A w \in Workers, a \in Attempts :
        claim[w][a] # NoRow =>
            /\ row[a].state \notin Open
            /\ using[TaskOf[a]] # a
            /\ row[a].owner = w \/ Gone(TaskOf[a])

\* What is worked on has an open row, or the row the reaper preserved under a reimport.
UsesOpen ==
    \A t \in Tasks :
        using[t] # NoAttempt =>
            /\ TaskOf[using[t]] = t
            /\ \/ row[using[t]].state \in Open
               \/ /\ "reaperMeetsReimport" \in Admits
                  /\ row[using[t]].state = "preserved" /\ status[t] = "failed"

\* What a resumed pipeline would take up has an open row.
ResumeOpen ==
    \A t \in Tasks :
        link[t] # NoAttempt =>
            /\ TaskOf[link[t]] = t
            /\ status[t] \in {"active", "reimporting"} => row[link[t]].state \in Open

LeaseInv == TypeInv /\ LeaseHeld /\ UsesOpen /\ ResumeOpen

\* The rows a cleanup worker may hold.
Indebted == Cleanable \union {"complete"}

\* What a step of worker w may do to the journal and to its own claims.
MovesItem(w) ==
    LET a == wk[w].item IN
    /\ \A b \in Attempts \ {a} : row'[b] = row[b]
    /\ row'[a].state = row[a].state \/ row'[a].state \in Indebted
    /\ row'[a].barriers = row[a].barriers
    /\ row'[a].owner = row[a].owner \/ (row'[a].owner = NoWorker /\ claim'[w][a] = NoRow)
    /\ \A v \in Workers \ {w} : claim'[v] = claim[v] /\ wk'[v] = wk[v]
    /\ \A b \in Attempts \ {a} : claim'[w][b] = claim[w][b]
    /\ \/ claim'[w][a] = NoRow
       \/ claim'[w][a].barriers \in {claim[w][a].barriers, row[a].barriers}

\* A row that differs from row a in what a worker may change.
Alike(r, a) ==
    /\ r.state = row[a].state \/ r.state \in Indebted
    /\ r.barriers = row[a].barriers

LEMMA FinishMoves ==
    ASSUME TypeInv, NEW w \in Workers, wk[w].pc # "idle", Finish(w)
    PROVE  /\ \A v \in Workers \ {w} : claim'[v] = claim[v] /\ wk'[v] = wk[v]
           /\ \A b \in Attempts \ {wk[w].item} : claim'[w][b] = claim[w][b]
           /\ claim'[w][wk[w].item] = NoRow
<1>1. wk[w].item \in Attempts /\ claim[w] \in [Attempts -> Rows \union {NoRow}]
  BY DEF TypeInv, WkOK, ClaimOK
<1>2. claim' = [claim EXCEPT ![w] = [claim[w] EXCEPT ![wk[w].item] = NoRow]]
  BY DEF Finish
<1>3. wk' = [wk EXCEPT ![w] = Idle]
  BY DEF Finish
<1> QED
  BY <1>1, <1>2, <1>3 DEF TypeInv, ClaimOK, WkOK

LEMMA StayMoves ==
    ASSUME TypeInv, NEW w \in Workers, UNCHANGED <<row, claim>>,
           \A v \in Workers \ {w} : wk'[v] = wk[v]
    PROVE  MovesItem(w)
<1>1. row' = row /\ claim' = claim
  OBVIOUS
<1> QED
  BY ONLY <1>1, \A v \in Workers \ {w} : wk'[v] = wk[v] DEF MovesItem

LEMMA RaiseMoves ==
    ASSUME TypeInv, NEW w \in Workers,
           (\E pc : Goto(w, pc)) \/ (\E pc, code : Raise(w, pc, code))
    PROVE  \A v \in Workers \ {w} : wk'[v] = wk[v]
  BY DEF Goto, Raise, TypeInv, WkOK

LEMMA CasMoves ==
    ASSUME TypeInv, NEW w \in Workers, wk[w].pc # "idle", NEW pc, NEW r,
           Alike(r, wk[w].item), r.owner = row[wk[w].item].owner,
           Cas(w, r, pc)
    PROVE  MovesItem(w)
<1> DEFINE a == wk[w].item
<1>1. a \in Attempts
  BY ItemIsRow
<1>2. CASE w \in current[a]
  <2>1. row' = [row EXCEPT ![a] = r] /\ claim' = [claim EXCEPT ![w][a] = r] /\ Goto(w, pc)
    BY <1>2 DEF Cas, Write
  <2>2. claim' = [claim EXCEPT ![w] = [claim[w] EXCEPT ![a] = r]]
    BY <2>1
  <2>3. \A v \in Workers \ {w} : wk'[v] = wk[v]
    BY <2>1, RaiseMoves
  <2>4. \A b \in Attempts \ {a} : row'[b] = row[b]
    BY <2>1 DEF TypeInv, JournalOK
  <2>5. row'[a] = r
    BY <1>1, <2>1 DEF TypeInv, JournalOK
  <2>6. claim'[w][a] = r /\ \A b \in Attempts \ {a} : claim'[w][b] = claim[w][b]
    BY <1>1, <2>2 DEF TypeInv, ClaimOK
  <2>7. \A v \in Workers \ {w} : claim'[v] = claim[v]
    BY <2>2 DEF TypeInv, ClaimOK
  <2> HIDE DEF a
  <2> QED
    BY <2>3, <2>4, <2>5, <2>6, <2>7 DEF MovesItem, Alike, a
<1>3. CASE w \notin current[a]
  BY <1>3, StayMoves, RaiseMoves DEF Cas, Retryable, journalVars
<1> QED
  BY <1>2, <1>3

\* The last write of an item, with the lease given back or kept.
LEMMA LastMoves ==
    ASSUME TypeInv, NEW w \in Workers, wk[w].pc # "idle", NEW r,
           Alike(r, wk[w].item), r.owner = NoWorker,
           CasFinish(w, r) \/ HandlerWrite(w, r)
    PROVE  MovesItem(w)
<1> DEFINE a == wk[w].item
<1>1. a \in Attempts
  BY ItemIsRow
<1>2. CASE Finish(w)
  <2>1. \/ row' = [row EXCEPT ![a] = r] \/ UNCHANGED row
    BY <1>2 DEF CasFinish, HandlerWrite, Write, Retryable, journalVars
  <2>2. /\ \A b \in Attempts \ {a} : row'[b] = row[b]
        /\ row'[a] \in {r, row[a]}
    BY <1>1, <2>1 DEF TypeInv, JournalOK
  <2> QED
    BY <1>2, <2>2, FinishMoves DEF MovesItem, Alike
<1>3. CASE UNCHANGED <<row, claim>> /\ Retryable(w)
  BY <1>3, StayMoves, RaiseMoves DEF Retryable
<1> QED
  BY <1>2, <1>3 DEF CasFinish, HandlerWrite, journalVars

LEMMA ReleasedFields ==
    ASSUME NEW r \in Rows
    PROVE  /\ Released(r) \in Rows /\ Released(r).owner = NoWorker
           /\ Released(r).state = r.state /\ Released(r).barriers = r.barriers
  BY ReleasedIsRow DEF Released, Rows

\* Every step of a worker on its item moves that item only.
LEMMA ItemMoves ==
    ASSUME TypeInv, NEW w \in Workers, ItemStep(w)
    PROVE  wk[w].pc # "idle" /\ MovesItem(w) /\ UNCHANGED taskVars
<1> DEFINE a == wk[w].item
           s == Released(row[a])
<1>1. wk[w].pc # "idle"
  BY DEF ItemStep, CheckBarriers, DeferForPublisher, Inspect, RecordEvidence, Abort,
         RemoveFile, RemoveWorkspace, MarkRemoved, Discard, MarkComplete,
         AttentionBarriers, AttentionInspect, AttentionDiscard, AttentionResume,
         AttentionDefer, UnsafeReread, UnsafeWrite, RetryReread, RetryWrite
<1>2. UNCHANGED taskVars
  BY DEF ItemStep, CheckBarriers, DeferForPublisher, Inspect, RecordEvidence, Abort,
         RemoveFile, RemoveWorkspace, MarkRemoved, Discard, MarkComplete,
         AttentionBarriers, AttentionInspect, AttentionDiscard, AttentionResume,
         AttentionDefer, UnsafeReread, UnsafeWrite, RetryReread, RetryWrite, Reread,
         HandlerWrite
<1>3. a \in Attempts /\ row[a] \in Rows /\ claim[w][a] \in Rows
  BY <1>1, ItemIsRow
<1>4. s \in Rows /\ s.owner = NoWorker /\ s.state = row[a].state /\ s.barriers = row[a].barriers
  BY <1>3, ReleasedFields
<1> HIDE DEF s
<1>5. CASE DeferForPublisher(w)
  <2>1. CasFinish(w, [s EXCEPT !.due = FALSE, !.error = "other"])
    BY <1>5 DEF DeferForPublisher, s
  <2>2. /\ Alike([s EXCEPT !.due = FALSE, !.error = "other"], a)
        /\ [s EXCEPT !.due = FALSE, !.error = "other"].owner = NoWorker
    BY <1>4 DEF Alike, Rows
  <2> QED
    BY <1>1, <1>2, <2>1, <2>2, LastMoves
<1>6. CASE RecordEvidence(w)
  <2> DEFINE r == [row[a] EXCEPT !.pin = claim[w][a].pin, !.known = claim[w][a].known]
  <2>1. PICK pc : Cas(w, r, pc)
    BY <1>6 DEF RecordEvidence
  <2>2. Alike(r, a) /\ r.owner = row[a].owner
    BY <1>3 DEF Alike, Rows
  <2> HIDE DEF r
  <2> QED
    BY <1>1, <1>2, <2>1, <2>2, CasMoves
<1>7. CASE MarkRemoved(w)
  <2> DEFINE r == [row[a] EXCEPT !.state = "workspace_removed", !.error = "none"]
  <2>1. Cas(w, r, "discard")
    BY <1>7 DEF MarkRemoved
  <2>2. Alike(r, a) /\ r.owner = row[a].owner
    BY <1>3 DEF Alike, Rows, Indebted, Cleanable
  <2> HIDE DEF r
  <2> QED
    BY <1>1, <1>2, <2>1, <2>2, CasMoves
<1>8. CASE MarkComplete(w)
  <2> DEFINE r == [s EXCEPT !.state = "complete", !.error = "none"]
  <2>1. CasFinish(w, r)
    BY <1>8 DEF MarkComplete, s
  <2>2. Alike(r, a) /\ r.owner = NoWorker
    BY <1>4 DEF Alike, Rows, Indebted
  <2> HIDE DEF r
  <2> QED
    BY <1>1, <1>2, <2>1, <2>2, LastMoves
<1>9. CASE AttentionResume(w)
  <2> DEFINE r == [s EXCEPT !.state = "cleanup_pending", !.disposition = "discard",
                            !.due = TRUE, !.error = "none"]
  <2>1. CasFinish(w, r)
    BY <1>9 DEF AttentionResume, s
  <2>2. Alike(r, a) /\ r.owner = NoWorker
    BY <1>4 DEF Alike, Rows, Indebted, Cleanable
  <2> HIDE DEF r
  <2> QED
    BY <1>1, <1>2, <2>1, <2>2, LastMoves
<1>10. CASE AttentionDefer(w)
  <2> DEFINE r == [s EXCEPT !.state = "needs_attention", !.due = FALSE]
  <2>1. CasFinish(w, r)
    BY <1>10 DEF AttentionDefer, s
  <2>2. Alike(r, a) /\ r.owner = NoWorker
    BY <1>4 DEF Alike, Rows, Indebted, Cleanable
  <2> HIDE DEF r
  <2> QED
    BY <1>1, <1>2, <2>1, <2>2, LastMoves
<1>11. CASE UnsafeWrite(w)
  <2> DEFINE r == [s EXCEPT !.state = "needs_attention", !.disposition = "preserve",
                            !.due = FALSE, !.error = wk[w].code]
  <2>1. HandlerWrite(w, r)
    BY <1>11 DEF UnsafeWrite, s
  <2>2. Alike(r, a) /\ r.owner = NoWorker
    BY <1>4 DEF Alike, Rows, Indebted, Cleanable
  <2> HIDE DEF r
  <2> QED
    BY <1>1, <1>2, <2>1, <2>2, LastMoves
<1>12. CASE RetryWrite(w)
  <2> DEFINE r == [s EXCEPT !.failures = IF @ < UnresolvedJobRetries THEN @ + 1 ELSE @,
                            !.due = FALSE, !.error = "other"]
  <2>1. HandlerWrite(w, r)
    BY <1>12 DEF RetryWrite, s
  <2>2. Alike(r, a) /\ r.owner = NoWorker
    BY <1>4 DEF Alike, Rows
  <2> HIDE DEF r
  <2> QED
    BY <1>1, <1>2, <2>1, <2>2, LastMoves
<1>13. CASE \/ CheckBarriers(w) \/ Abort(w) \/ RemoveFile(w) \/ RemoveWorkspace(w)
            \/ Discard(w) \/ AttentionBarriers(w) \/ AttentionInspect(w)
            \/ AttentionDiscard(w) \/ UnsafeReread(w) \/ RetryReread(w)
  <2>1. UNCHANGED <<row, claim>>
    BY <1>13 DEF CheckBarriers, Abort, RemoveFile, RemoveWorkspace, Discard,
       AttentionBarriers, AttentionInspect, AttentionDiscard, UnsafeReread, RetryReread,
       Reread, journalVars
  <2>2. (\E pc : Goto(w, pc)) \/ (\E pc, code : Raise(w, pc, code))
    <3>1. CASE CheckBarriers(w)
      BY <3>1 DEF CheckBarriers, Unsafe
    <3>2. CASE Abort(w)
      BY <3>2 DEF Abort, Retryable
    <3>3. CASE RemoveFile(w)
      BY <3>3 DEF RemoveFile, Retryable, Unsafe
    <3>4. CASE RemoveWorkspace(w)
      BY <3>4 DEF RemoveWorkspace, Retryable, Unsafe
    <3>5. CASE Discard(w)
      BY <3>5 DEF Discard, Retryable
    <3>6. CASE AttentionBarriers(w) \/ UnsafeReread(w) \/ RetryReread(w)
      BY <3>6 DEF AttentionBarriers, UnsafeReread, RetryReread, Reread
    <3>7. CASE AttentionInspect(w) \/ AttentionDiscard(w)
      BY <3>7 DEF AttentionInspect, AttentionDiscard, Reconsider
    <3> QED
      BY <1>13, <3>1, <3>2, <3>3, <3>4, <3>5, <3>6, <3>7
  <2> QED
    BY <1>1, <1>2, <2>1, <2>2, RaiseMoves, StayMoves
<1>14. CASE Inspect(w)
  <2>1. CASE UNCHANGED claim
    <3>1. UNCHANGED <<row, claim>>
      BY <1>14, <2>1 DEF Inspect, journalVars
    <3>2. \A v \in Workers \ {w} : wk'[v] = wk[v]
      BY <1>14 DEF Inspect, Retryable, Unsafe, Raise, TypeInv, WkOK
    <3> QED
      BY <1>1, <1>2, <3>1, <3>2, StayMoves
  <2>2. ASSUME NEW pin, NEW known,
               claim' = [claim EXCEPT ![w] = [claim[w] EXCEPT ![a] =
                           [claim[w][a] EXCEPT !.pin = pin, !.known = known]]]
        PROVE  MovesItem(w)
    <3>1. row' = row
      BY <1>14 DEF Inspect, journalVars
    <3>2. \A v \in Workers \ {w} : wk'[v] = wk[v]
      BY <1>14 DEF Inspect, Retryable, Unsafe, Raise, TypeInv, WkOK
    <3>3. \A v \in Workers \ {w} : claim'[v] = claim[v]
      BY <2>2 DEF TypeInv, ClaimOK
    <3>4. \A b \in Attempts \ {a} : claim'[w][b] = claim[w][b]
      BY <2>2 DEF TypeInv, ClaimOK
    <3>5. claim'[w][a] = [claim[w][a] EXCEPT !.pin = pin, !.known = known]
      BY <1>3, <2>2 DEF TypeInv, ClaimOK
    <3>6. claim'[w][a].barriers = claim[w][a].barriers
      BY <1>3, <3>5 DEF Rows
    <3> QED
      BY ONLY <3>1, <3>2, <3>3, <3>4, <3>6 DEF MovesItem
  <2>3. ~UNCHANGED claim =>
           \E pin, known : claim' = [claim EXCEPT ![w] = [claim[w] EXCEPT ![a] =
                                       [claim[w][a] EXCEPT !.pin = pin, !.known = known]]]
    <3>1. ASSUME NEW pin,
                 claim' = [claim EXCEPT ![w][a].pin = pin,
                                        ![w][a].known = @ \/ Materialization(a) # "missing"]
          PROVE  claim' = [claim EXCEPT ![w] = [claim[w] EXCEPT ![a] =
                             [claim[w][a] EXCEPT !.pin = pin,
                                !.known = @ \/ Materialization(a) # "missing"]]]
      BY <1>3, <3>1 DEF TypeInv, ClaimOK
    <3>2. ASSUME ~UNCHANGED claim
          PROVE  \E pin : claim' = [claim EXCEPT ![w][a].pin = pin,
                                      ![w][a].known = @ \/ Materialization(a) # "missing"]
      <4>1. a = wk[w].item
        OBVIOUS
      <4> QED
        BY ONLY <1>14, <3>2, <4>1 DEF Inspect
    <3> QED
      BY ONLY <3>1, <3>2
  <2> QED
    BY <1>1, <1>2, <2>1, <2>2, <2>3
<1> QED
  BY <1>5, <1>6, <1>7, <1>8, <1>9, <1>10, <1>11, <1>12, <1>13, <1>14 DEF ItemStep

LEMMA LeaseItem ==
    ASSUME LeaseInv, NEW w \in Workers, ItemStep(w)
    PROVE  LeaseHeld' /\ UsesOpen' /\ ResumeOpen'
<1> DEFINE a == wk[w].item
<1>1. /\ wk[w].pc # "idle" /\ MovesItem(w) /\ UNCHANGED <<status, using, link>>
      /\ TypeInv
  BY ItemMoves DEF LeaseInv, taskVars
<1>2. a \in Attempts /\ claim[w][a] \in Rows
  BY <1>1, ItemIsRow
<1>3. row[a].state \notin Open /\ using[TaskOf[a]] # a /\ (row[a].owner = w \/ Gone(TaskOf[a]))
  BY <1>2, NoRowIsNoRow DEF LeaseInv, LeaseHeld
<1>4. row'[a].state \notin Open
  BY <1>1, <1>3 DEF MovesItem, Indebted, Cleanable, Open
<1>5. LeaseHeld'
  <2> SUFFICES ASSUME NEW v \in Workers, NEW b \in Attempts, claim'[v][b] # NoRow
               PROVE  /\ row'[b].state \notin Open /\ using'[TaskOf[b]] # b
                      /\ row'[b].owner = v \/ Gone(TaskOf[b])'
    BY DEF LeaseHeld
  <2>1. Gone(TaskOf[b])' <=> Gone(TaskOf[b])
    BY <1>1 DEF Gone
  <2>2. CASE b # a
    <3>1. claim'[v][b] = claim[v][b] /\ row'[b] = row[b]
      BY <1>1, <2>2 DEF MovesItem
    <3> QED
      BY <1>1, <2>1, <3>1 DEF LeaseInv, LeaseHeld
  <2>3. CASE b = a /\ v = w
    <3>1. row'[a].owner = row[a].owner
      BY <1>1, <2>3 DEF MovesItem
    <3> QED
      BY <1>1, <1>3, <1>4, <2>1, <2>3, <3>1
  <2>4. CASE b = a /\ v # w
    <3>1. claim[v][a] # NoRow
      BY <1>1, <2>4 DEF MovesItem
    <3>2. row[a].owner = v \/ Gone(TaskOf[a])
      BY <1>2, <3>1 DEF LeaseInv, LeaseHeld
    <3>3. Gone(TaskOf[a])
      BY <1>3, <2>4, <3>2
    <3> QED
      BY <1>1, <1>3, <1>4, <2>1, <2>4, <3>3
  <2> QED
    BY <2>2, <2>3, <2>4
<1>6. \A b \in Attempts : b # a => row'[b] = row[b]
  BY <1>1 DEF MovesItem
<1>7. UsesOpen'
  <2> SUFFICES ASSUME NEW t \in Tasks, using[t] # NoAttempt
               PROVE  /\ TaskOf[using[t]] = t
                      /\ \/ row'[using[t]].state \in Open
                         \/ /\ "reaperMeetsReimport" \in Admits
                            /\ row'[using[t]].state = "preserved" /\ status[t] = "failed"
    BY <1>1 DEF UsesOpen
  <2>1. TaskOf[using[t]] = t /\ using[t] \in Attempts
    BY DEF LeaseInv, UsesOpen, TypeInv, TaskOK
  <2>2. using[t] # a
    BY <1>3, <2>1
  <2> QED
    BY <1>6, <2>1, <2>2 DEF LeaseInv, UsesOpen
<1>8. ResumeOpen'
  <2> SUFFICES ASSUME NEW t \in Tasks, link[t] # NoAttempt
               PROVE  /\ TaskOf[link[t]] = t
                      /\ status[t] \in {"active", "reimporting"} => row'[link[t]].state \in Open
    BY <1>1 DEF ResumeOpen
  <2>1. link[t] \in Attempts
    BY DEF LeaseInv, TypeInv, TaskOK
  <2>2. status[t] \in {"active", "reimporting"} => link[t] # a
    BY <1>3 DEF LeaseInv, ResumeOpen
  <2> QED
    BY <1>6, <2>1, <2>2 DEF LeaseInv, ResumeOpen
<1> QED
  BY <1>5, <1>7, <1>8

\* Rows come into a worker's hands: closed ones that nobody holds.
LEMMA LeaseClaim ==
    ASSUME LeaseInv, NEW w \in Workers, NEW as \in SUBSET Claimable, ClaimRows(w, as),
           UNCHANGED <<status, using, link>>
    PROVE  LeaseHeld' /\ UsesOpen' /\ ResumeOpen'
<1>1. \A a \in as : /\ a \in Attempts /\ row[a] \in Rows
                    /\ row[a].state \in Cleanable /\ row[a].owner = NoWorker
  BY ExistsIsRow DEF Claimable, InState, LeaseInv, TypeInv
<1>2. row' = [a \in Attempts |-> IF a \in as THEN [row[a] EXCEPT !.owner = w] ELSE row[a]]
  BY DEF ClaimRows
<1>3. claim' = [claim EXCEPT ![w] = [a \in Attempts |-> IF a \in as THEN row'[a] ELSE NoRow]]
  BY DEF ClaimRows
<1>4. \A a \in Attempts : row'[a].state = row[a].state
  <2>1. \A a \in as : [row[a] EXCEPT !.owner = w].state = row[a].state
    BY <1>1 DEF Rows
  <2> QED
    BY <1>2, <2>1
<1>5. \A a \in as : row'[a].owner = w
  BY <1>1, <1>2 DEF Rows
<1>6. \A a \in Attempts \ as : row'[a].owner = row[a].owner
  BY <1>2
<1>7. \A a \in as : using[TaskOf[a]] # a
  <2> SUFFICES ASSUME NEW a \in as, using[TaskOf[a]] = a
               PROVE  FALSE
    OBVIOUS
  <2>1. a \in Attempts /\ a # NoAttempt /\ TaskOf[a] \in Tasks /\ row[a].state \in Cleanable
    BY <1>1, AttemptsAssumption
  <2>2. row[a].state \in Open \/ row[a].state = "preserved"
    BY <2>1 DEF LeaseInv, UsesOpen
  <2> QED
    BY <2>1, <2>2 DEF Open, Cleanable
<1>8. LeaseHeld'
  <2> SUFFICES ASSUME NEW v \in Workers, NEW b \in Attempts, claim'[v][b] # NoRow
               PROVE  /\ row'[b].state \notin Open /\ using'[TaskOf[b]] # b
                      /\ row'[b].owner = v \/ Gone(TaskOf[b])'
    BY DEF LeaseHeld
  <2>1. Gone(TaskOf[b])' <=> Gone(TaskOf[b])
    BY DEF Gone
  <2>2. CASE v = w
    <3>1. b \in as
      BY <1>3, <2>2 DEF LeaseInv, TypeInv, ClaimOK
    <3> QED
      BY <1>1, <1>4, <1>5, <1>7, <2>2, <3>1 DEF Open, Cleanable
  <2>3. CASE v # w
    <3>1. claim[v][b] # NoRow
      BY <1>3, <2>3 DEF LeaseInv, TypeInv, ClaimOK
    <3>2. /\ row[b].state \notin Open /\ using[TaskOf[b]] # b
          /\ row[b].owner = v \/ Gone(TaskOf[b])
      BY <3>1 DEF LeaseInv, LeaseHeld
    <3>3. row'[b].owner = v \/ Gone(TaskOf[b])
      <4>1. CASE b \in as
        BY <1>1, <3>2, <4>1, WorkersAssumption
      <4>2. CASE b \notin as
        BY <1>6, <3>2, <4>2
      <4> QED
        BY <4>1, <4>2
    <3> QED
      BY <1>4, <2>1, <3>2, <3>3
  <2> QED
    BY <2>2, <2>3
<1>9. UsesOpen' /\ ResumeOpen'
  BY <1>4 DEF LeaseInv, UsesOpen, ResumeOpen, TypeInv, TaskOK
<1> QED
  BY <1>8, <1>9

\* Nothing is claimed, no row of the journal changes its state, and pipelines stand still.
LEMMA LeaseStands ==
    ASSUME LeaseInv, UNCHANGED <<status, using, link>>,
           \A a \in Attempts : row'[a].state = row[a].state,
           \A w \in Workers, a \in Attempts :
              claim'[w][a] # NoRow => /\ claim[w][a] # NoRow
                                      /\ row'[a].owner = row[a].owner
    PROVE  LeaseHeld' /\ UsesOpen' /\ ResumeOpen'
<1>1. \A t : Gone(t)' <=> Gone(t)
  BY DEF Gone
<1>2. LeaseHeld'
  BY <1>1 DEF LeaseInv, LeaseHeld
<1>3. UsesOpen' /\ ResumeOpen'
  BY DEF LeaseInv, UsesOpen, ResumeOpen, TypeInv, TaskOK
<1> QED
  BY <1>2, <1>3

LEMMA LeaseWorker ==
    ASSUME LeaseInv, WorkerStep
    PROVE  LeaseHeld' /\ UsesOpen' /\ ResumeOpen'
<1>1. ASSUME NEW w \in Workers, RunOnce(w)
      PROVE  LeaseHeld' /\ UsesOpen' /\ ResumeOpen'
  BY <1>1, LeaseClaim DEF RunOnce, taskVars
<1>2. ASSUME NEW w \in Workers, NEW a \in Attempts, CleanupNow(w, a)
      PROVE  LeaseHeld' /\ UsesOpen' /\ ResumeOpen'
  <2>1. CASE a \in Claimable
    <3>1. {a} \in SUBSET Claimable /\ ClaimRows(w, {a}) /\ UNCHANGED <<status, using, link>>
      BY <1>2, <2>1 DEF CleanupNow
    <3> QED
      BY <3>1, LeaseClaim
  <2>2. CASE a \notin Claimable
    BY <1>2, <2>2, LeaseStands DEF CleanupNow, journalVars
  <2> QED
    BY <2>1, <2>2
<1>3. ASSUME NEW w \in Workers, NEW a \in Attempts, Begin(w, a)
      PROVE  LeaseHeld' /\ UsesOpen' /\ ResumeOpen'
  BY <1>3, LeaseStands DEF Begin, journalVars, taskVars
<1>4. ASSUME NEW w \in Workers, KillWorker(w)
      PROVE  LeaseHeld' /\ UsesOpen' /\ ResumeOpen'
  <2>1. \A v \in Workers, b \in Attempts : claim'[v][b] # NoRow => claim[v][b] # NoRow
    BY <1>4 DEF KillWorker, LeaseInv, TypeInv, ClaimOK
  <2> QED
    BY <1>4, <2>1, LeaseStands DEF KillWorker, journalVars, taskVars
<1> QED
  BY <1>1, <1>2, <1>3, <1>4, LeaseItem DEF WorkerStep

LEMMA LeaseWorld ==
    ASSUME LeaseInv, WorldStep, {"batchOutlivesLease", "stopAtSwitch"} \intersect Admits = {}
    PROVE  LeaseHeld' /\ UsesOpen' /\ ResumeOpen'
<1>1. ASSUME NEW a \in Attempts, Elapse(a)
      PROVE  LeaseHeld' /\ UsesOpen' /\ ResumeOpen'
  <2>1. row[a] \in Rows
    BY <1>1, ExistsIsRow DEF Elapse, LeaseInv, TypeInv
  <2>2. row' = [row EXCEPT ![a] = [row[a] EXCEPT !.due = TRUE]]
    BY <1>1 DEF Elapse
  <2>3. \A b \in Attempts : row'[b].state = row[b].state /\ row'[b].owner = row[b].owner
    BY <2>1, <2>2 DEF Rows, LeaseInv, TypeInv, JournalOK
  <2> QED
    BY <1>1, <2>3, LeaseStands DEF Elapse, taskVars, workerVars
<1>2. ASSUME NEW a \in Attempts, LeaseExpires(a)
      PROVE  LeaseHeld' /\ UsesOpen' /\ ResumeOpen'
  <2>1. row[a] \in Rows
    BY <1>2, ExistsIsRow DEF LeaseExpires, LeaseInv, TypeInv
  <2>2. row' = [row EXCEPT ![a] = [row[a] EXCEPT !.owner = NoWorker]]
    BY <1>2 DEF LeaseExpires
  <2>3. \A b \in Attempts : /\ row'[b].state = row[b].state
                            /\ b # a => row'[b].owner = row[b].owner
    BY <2>1, <2>2 DEF Rows, LeaseInv, TypeInv, JournalOK
  <2>4. claim[row[a].owner][a] = NoRow /\ UNCHANGED <<status, using, link, claim>>
    BY <1>2 DEF LeaseExpires, taskVars, workerVars
  <2>5. \A t : Gone(t)' <=> Gone(t)
    BY <2>4 DEF Gone
  <2>6. \A w \in Workers : claim[w][a] # NoRow => Gone(TaskOf[a])
    BY <2>4 DEF LeaseInv, LeaseHeld
  <2>7. LeaseHeld'
    BY <2>3, <2>4, <2>5, <2>6 DEF LeaseInv, LeaseHeld
  <2>8. UsesOpen' /\ ResumeOpen'
    BY <2>3, <2>4 DEF LeaseInv, UsesOpen, ResumeOpen, TypeInv, TaskOK
  <2> QED
    BY <2>7, <2>8
<1>3. ASSUME \/ \E a \in Attempts : ClientEnqueue(a) \/ PublisherStep(a) \/ RemovedByHand(a)
             \/ \E p \in Paths : TransferMoves(p) \/ TransferEnds(p)
      PROVE  LeaseHeld' /\ UsesOpen' /\ ResumeOpen'
  BY <1>3, LeaseStands
  DEF ClientEnqueue, PublisherStep, RemovedByHand, TransferMoves, TransferEnds, taskVars,
      journalVars, workerVars
<1>4. CASE Restart
  <2>1. UNCHANGED <<row, link>> /\ using' = [t \in Tasks |-> NoAttempt]
        /\ status' = [t \in Tasks |-> IF status[t] \in {"switching", "reimporting"}
                                      THEN "active" ELSE status[t]]
    BY <1>4 DEF Restart, journalVars
  <2>2. LeaseHeld'
    BY <1>4 DEF Restart, LeaseHeld
  <2>3. UsesOpen'
    BY <2>1 DEF UsesOpen
  <2>4. ASSUME NEW t \in Tasks
        PROVE  status[t] # "switching"
    <3>1. status[t] = "switching" => MomentOf(t) = {"stopAtSwitch"}
      BY DEF MomentOf, ReimportRuns
    <3>2. MomentOf(t) \subseteq Admits
      BY <1>4 DEF Restart
    <3> QED
      BY <3>1, <3>2
  <2>5. ResumeOpen'
    BY <2>1, <2>4 DEF LeaseInv, ResumeOpen
  <2> QED
    BY <2>2, <2>3, <2>5
<1> QED
  BY <1>1, <1>2, <1>3, <1>4 DEF WorldStep

LEMMA DebtFields ==
    ASSUME NEW r \in Rows, NEW d \in {"discard", "preserve"}, NEW b \in SUBSET Attempts
    PROVE  /\ Debt(r, d, b).state = IF d = "discard" THEN "cleanup_pending" ELSE "preserved"
           /\ Debt(r, d, b).barriers = b
<1> DEFINE s == Released(r)
           target == IF d = "discard" THEN "cleanup_pending" ELSE "preserved"
<1>1. s \in Rows
  BY ReleasedIsRow
<1>2. Debt(r, d, b) = [s EXCEPT !.state = target, !.disposition = d, !.barriers = b,
                               !.due = TRUE, !.error = "none"]
  BY DEF Debt
<1> HIDE DEF s
<1> QED
  BY <1>1, <1>2 DEF Rows

\* Row a becomes a debt with at least the given barriers.
BecomesDebt(a, d, bs) ==
    /\ row'[a].state = IF d = "discard" THEN "cleanup_pending" ELSE "preserved"
    /\ \A x \in bs : x \in row'[a].barriers

\* What scheduling does to each row: nothing, or a debt with the given barriers.
LEMMA ScheduleAllRows ==
    ASSUME TypeInv, NEW those \in SUBSET Attempts, NEW d \in {"discard", "preserve"},
           NEW bs \in SUBSET Attempts, ScheduleAll(those, d, bs)
    PROVE  \A a \in Attempts : row'[a] = row[a] \/ (a \in those /\ BecomesDebt(a, d, bs))
<1> DEFINE open == {a \in those : Exists(a) /\ row[a].state \notin Settled}
<1>1. row' = [a \in Attempts |-> IF a \in open THEN Debt(row[a], d, bs) ELSE row[a]]
  BY DEF ScheduleAll
<1>2. \A a \in open : row[a] \in Rows
  BY ExistsIsRow DEF TypeInv
<1> SUFFICES ASSUME NEW a \in Attempts
             PROVE  row'[a] = row[a] \/ (a \in those /\ BecomesDebt(a, d, bs))
  OBVIOUS
<1>3. CASE a \in open
  <2>1. row'[a] = Debt(row[a], d, bs) /\ row[a] \in Rows
    BY <1>1, <1>2, <1>3
  <2>2. a \in those
    BY <1>3
  <2> HIDE DEF open
  <2>3. /\ Debt(row[a], d, bs).state = IF d = "discard" THEN "cleanup_pending" ELSE "preserved"
        /\ Debt(row[a], d, bs).barriers = bs
    BY <2>1, DebtFields
  <2> QED
    BY <2>1, <2>2, <2>3 DEF BecomesDebt
<1>4. CASE a \notin open
  BY <1>1, <1>4
<1> QED
  BY <1>3, <1>4

\* PreserveLatest closes open rows of its task and touches no other.
LEMMA PreserveLatestRows ==
    ASSUME TypeInv, NEW t \in Tasks, PreserveLatest(t)
    PROVE  \A b \in Attempts :
              \/ row'[b] = row[b]
              \/ TaskOf[b] = t /\ row[b].state \in Open /\ row'[b].state = "preserved"
<1> DEFINE open == {a \in AttemptsOf(t) : InState(a, Open)}
<1>1. PICK a : ScheduleAll({a} \intersect open, "preserve", {})
  BY DEF PreserveLatest
<1>2. {a} \intersect open \in SUBSET Attempts /\ {} \in SUBSET Attempts
  BY DEF AttemptsOf
<1>3. \A b \in {a} \intersect open : TaskOf[b] = t /\ row[b].state \in Open
  BY DEF AttemptsOf, InState
<1> DEFINE those == {a} \intersect open
<1> HIDE DEF open, those
<1>4. \A b \in Attempts : \/ row'[b] = row[b]
                          \/ b \in those /\ row'[b].state = "preserved"
  <2>1. those \in SUBSET Attempts /\ {} \in SUBSET Attempts /\ ScheduleAll(those, "preserve", {})
    BY <1>1, <1>2 DEF those
  <2> HIDE DEF ScheduleAll
  <2>2. \A b \in Attempts :
           row'[b] = row[b] \/ (b \in those /\ BecomesDebt(b, "preserve", {}))
    BY <2>1, ScheduleAllRows
  <2> QED
    BY <2>2 DEF BecomesDebt
<1> QED
  BY <1>3, <1>4 DEF those

Claimed(a) == \E w \in Workers : claim[w][a] # NoRow

\* A step of task t alone.
LEMMA LeaseTask ==
    ASSUME LeaseInv, NEW t \in Tasks, UNCHANGED claim,
           \A b \in Attempts : TaskOf[b] # t => row'[b] = row[b],
           \A u \in Tasks \ {t} : /\ status'[u] = status[u] /\ using'[u] = using[u]
                                  /\ link'[u] = link[u],
           Gone(t) => Gone(t)',
           \A b \in Attempts : TaskOf[b] = t /\ Claimed(b) =>
              /\ row'[b].state \notin Open /\ using'[t] # b
              /\ row'[b].owner = row[b].owner \/ Gone(t)',
           using'[t] # NoAttempt =>
              /\ TaskOf[using'[t]] = t
              /\ \/ row'[using'[t]].state \in Open
                 \/ /\ "reaperMeetsReimport" \in Admits
                    /\ row'[using'[t]].state = "preserved" /\ status'[t] = "failed",
           link'[t] # NoAttempt =>
              /\ TaskOf[link'[t]] = t
              /\ status'[t] \in {"active", "reimporting"} => row'[link'[t]].state \in Open
    PROVE  LeaseHeld' /\ UsesOpen' /\ ResumeOpen'
<1>1. \A u \in Tasks \ {t} : Gone(u)' <=> Gone(u)
  BY DEF Gone
<1>2. LeaseHeld'
  <2> SUFFICES ASSUME NEW v \in Workers, NEW b \in Attempts, claim[v][b] # NoRow
               PROVE  /\ row'[b].state \notin Open /\ using'[TaskOf[b]] # b
                      /\ row'[b].owner = v \/ Gone(TaskOf[b])'
    BY DEF LeaseHeld
  <2>1. /\ row[b].state \notin Open /\ using[TaskOf[b]] # b
        /\ row[b].owner = v \/ Gone(TaskOf[b])
    BY DEF LeaseInv, LeaseHeld
  <2>2. CASE TaskOf[b] = t
    BY <2>1, <2>2 DEF Claimed
  <2>3. CASE TaskOf[b] # t
    <3>1. TaskOf[b] \in Tasks \ {t}
      BY <2>3, AttemptsAssumption
    <3> QED
      BY <1>1, <2>1, <2>3, <3>1
  <2> QED
    BY <2>2, <2>3
<1>3. UsesOpen'
  <2> SUFFICES ASSUME NEW u \in Tasks, using'[u] # NoAttempt
               PROVE  /\ TaskOf[using'[u]] = u
                      /\ \/ row'[using'[u]].state \in Open
                         \/ /\ "reaperMeetsReimport" \in Admits
                            /\ row'[using'[u]].state = "preserved" /\ status'[u] = "failed"
    BY DEF UsesOpen
  <2>1. CASE u # t
    BY <2>1 DEF LeaseInv, UsesOpen, TypeInv, TaskOK
  <2> QED
    BY <2>1
<1>4. ResumeOpen'
  <2> SUFFICES ASSUME NEW u \in Tasks, link'[u] # NoAttempt
               PROVE  /\ TaskOf[link'[u]] = u
                      /\ status'[u] \in {"active", "reimporting"} => row'[link'[u]].state \in Open
    BY DEF ResumeOpen
  <2>1. CASE u # t
    BY <2>1 DEF LeaseInv, ResumeOpen, TypeInv, TaskOK
  <2> QED
    BY <2>1
<1> QED
  BY <1>2, <1>3, <1>4

LEMMA UsedIsUnclaimed ==
    ASSUME LeaseInv, NEW a \in Attempts, using[TaskOf[a]] = a \/ ~Exists(a)
    PROVE  ~Claimed(a)
<1>1. CASE using[TaskOf[a]] = a
  BY <1>1 DEF LeaseInv, LeaseHeld, Claimed
<1>2. CASE ~Exists(a)
  <2>1. row[a] = NoRow
    BY <1>2 DEF Exists
  <2> QED
    BY <2>1, NoRowIsNoRow DEF LeaseInv, TypeInv, ClaimOK, Claimed
<1> QED
  BY <1>1, <1>2

LEMMA LeasePipeline ==
    ASSUME LeaseInv, PipelineStep, ~({"retentionExpires", "reaperMeetsReimport"} \subseteq Admits)
    PROVE  LeaseHeld' /\ UsesOpen' /\ ResumeOpen'
<1> USE AttemptsAssumption
<1>0. TypeInv /\ JournalOK /\ TaskOK
  BY DEF LeaseInv, TypeInv
<1>a. UNCHANGED claim
  BY DEF PipelineStep, CreateAttempt, SendEnqueue, AcceptHandle, Publish, FailOver, Reimport,
     Resume, ExpirePreserved, Finalize, LinkCandidate, FailPreserving, ReapReimport, Cancel,
     workerVars
<1>1. ASSUME NEW a \in Attempts, CreateAttempt(a)
      PROVE  LeaseHeld' /\ UsesOpen' /\ ResumeOpen'
  <2>1. row' = [row EXCEPT ![a] = NewRow] /\ NewRow.state \in Open
    BY <1>1 DEF CreateAttempt, Write, NewRow, Open
  <2>2. /\ using' = [using EXCEPT ![TaskOf[a]] = a] /\ link' = [link EXCEPT ![TaskOf[a]] = a]
        /\ UNCHANGED status /\ status[TaskOf[a]] = "active" /\ ~Exists(a)
    BY <1>1 DEF CreateAttempt
  <2>3. \A b \in Attempts : b # a => row'[b] = row[b]
    BY <1>0, <2>1 DEF JournalOK
  <2>4. row'[a].state \in Open
    BY <1>0, <2>1 DEF JournalOK
  <2>5. ~Claimed(a)
    BY <2>2, UsedIsUnclaimed
  <2>6. \A b \in Attempts : Claimed(b) => row[b].state \notin Open
    BY DEF LeaseInv, LeaseHeld, Claimed
  <2>7. using'[TaskOf[a]] = a /\ link'[TaskOf[a]] = a /\ ~Gone(TaskOf[a])
    BY <1>0, <2>2 DEF TaskOK, Gone
  <2>8. \A u \in Tasks \ {TaskOf[a]} : /\ status'[u] = status[u] /\ using'[u] = using[u]
                                       /\ link'[u] = link[u]
    BY <1>0, <2>2 DEF TaskOK
  <2>9. TaskOf[a] \in Tasks
    OBVIOUS
  <2> QED
    BY <1>a, <2>3, <2>4, <2>5, <2>6, <2>7, <2>8, <2>9, LeaseTask
<1>2. ASSUME NEW a \in Attempts, SendEnqueue(a) \/ Publish(a)
      PROVE  LeaseHeld' /\ UsesOpen' /\ ResumeOpen'
  BY <1>2, LeaseStands DEF SendEnqueue, Publish, journalVars, taskVars, workerVars
<1>3. ASSUME NEW a \in Attempts, AcceptHandle(a)
      PROVE  LeaseHeld' /\ UsesOpen' /\ ResumeOpen'
  <2>1. row' = [row EXCEPT ![a] = [row[a] EXCEPT !.state = "in_use", !.known = TRUE]]
        /\ using[TaskOf[a]] = a /\ UNCHANGED <<status, using, link>>
    BY <1>3 DEF AcceptHandle, Write, taskVars
  <2>2. row[a] \in Rows /\ row[a].state \in Open
    BY <1>0, <1>3, ExistsIsRow DEF AcceptHandle, InState, Open
  <2>3. \A b \in Attempts : b # a => row'[b] = row[b]
    BY <1>0, <2>1 DEF JournalOK
  <2>4. row'[a].state = "in_use"
    BY <1>0, <2>1, <2>2 DEF JournalOK, Rows
  <2>5. ~Claimed(a)
    BY <2>1, UsedIsUnclaimed
  <2>6. LeaseHeld'
    BY <1>a, <2>1, <2>3, <2>5 DEF LeaseInv, LeaseHeld, Claimed, Gone
  <2>7. UsesOpen' /\ ResumeOpen'
    BY <1>0, <2>1, <2>2, <2>3, <2>4 DEF LeaseInv, UsesOpen, ResumeOpen, TaskOK, Open
  <2> QED
    BY <2>6, <2>7
<1>4. ASSUME NEW a \in Attempts, using[TaskOf[a]] = a,
             using' = [using EXCEPT ![TaskOf[a]] = NoAttempt], UNCHANGED link,
             \A u \in Tasks \ {TaskOf[a]} : status'[u] = status[u],
             status'[TaskOf[a]] \notin {"active", "reimporting"},
             \E o \in ImportOutcomes(a) : ScheduleAll({a}, o[1], o[2])
      PROVE  LeaseHeld' /\ UsesOpen' /\ ResumeOpen'
  <2>1. \A b \in Attempts : b # a => row'[b] = row[b]
    BY <1>4 DEF ScheduleAll
  <2>2. ~Claimed(a)
    BY <1>4, UsedIsUnclaimed
  <2>3. \A b \in Attempts : Claimed(b) => row[b].state \notin Open
    BY DEF LeaseInv, LeaseHeld, Claimed
  <2>4. using'[TaskOf[a]] = NoAttempt /\ ~Gone(TaskOf[a])
    BY <1>0, <1>4 DEF TaskOK, Gone
  <2>5. \A u \in Tasks \ {TaskOf[a]} : /\ status'[u] = status[u] /\ using'[u] = using[u]
                                       /\ link'[u] = link[u]
    BY <1>0, <1>4 DEF TaskOK
  <2>6. TaskOf[a] \in Tasks
    OBVIOUS
  <2>7. link'[TaskOf[a]] # NoAttempt => TaskOf[link'[TaskOf[a]]] = TaskOf[a]
    BY <1>4, <2>6 DEF LeaseInv, ResumeOpen
  <2> QED
    BY <1>a, <1>4, <2>1, <2>2, <2>3, <2>4, <2>5, <2>6, <2>7, LeaseTask
<1>5. ASSUME NEW a \in Attempts, FailOver(a)
      PROVE  LeaseHeld' /\ UsesOpen' /\ ResumeOpen'
  BY <1>0, <1>4, <1>5 DEF FailOver, TaskOK
<1>6. ASSUME NEW a \in Attempts, NEW final \in TerminalStatuses, Finalize(a, final)
      PROVE  LeaseHeld' /\ UsesOpen' /\ ResumeOpen'
  BY <1>0, <1>4, <1>6 DEF Finalize, TaskOK
<1>7. ASSUME NEW t \in Tasks, LinkCandidate(t)
      PROVE  LeaseHeld' /\ UsesOpen' /\ ResumeOpen'
  <2>1. UNCHANGED <<row, using>> /\ status[t] = "switching"
        /\ status' = [status EXCEPT ![t] = "active"]
        /\ link' = [link EXCEPT ![t] = NoAttempt]
    BY <1>7 DEF LinkCandidate, journalVars
  <2>2. \A u \in Tasks \ {t} : /\ status'[u] = status[u] /\ using'[u] = using[u]
                               /\ link'[u] = link[u]
    BY <1>0, <2>1 DEF TaskOK
  <2>3. link'[t] = NoAttempt /\ ~Gone(t)
    BY <1>0, <2>1 DEF TaskOK, Gone
  <2>4. \A b \in Attempts : TaskOf[b] = t /\ Claimed(b) =>
            row[b].state \notin Open /\ using[t] # b
    BY DEF LeaseInv, LeaseHeld, Claimed
  <2>5. using[t] # NoAttempt => TaskOf[using[t]] = t /\ row[using[t]].state \in Open
    BY <2>1 DEF LeaseInv, UsesOpen
  <2> QED
    BY <1>a, <2>1, <2>2, <2>3, <2>4, <2>5, LeaseTask
<1>8. ASSUME NEW t \in Tasks, FailPreserving(t)
      PROVE  LeaseHeld' /\ UsesOpen' /\ ResumeOpen'
  <2>1. \A b \in Attempts : \/ row'[b] = row[b]
                            \/ TaskOf[b] = t /\ row[b].state \in Open /\ row'[b].state = "preserved"
    BY <1>0, <1>8, PreserveLatestRows DEF FailPreserving
  <2>2. /\ status[t] \in {"active", "switching"} /\ status' = [status EXCEPT ![t] = "failed"]
        /\ using' = [using EXCEPT ![t] = NoAttempt] /\ UNCHANGED link
    BY <1>8 DEF FailPreserving
  <2>3. \A u \in Tasks \ {t} : /\ status'[u] = status[u] /\ using'[u] = using[u]
                               /\ link'[u] = link[u]
    BY <1>0, <2>2 DEF TaskOK
  <2>4. using'[t] = NoAttempt /\ status'[t] = "failed" /\ ~Gone(t)
    BY <1>0, <2>2 DEF TaskOK, Gone
  <2>5. \A b \in Attempts : Claimed(b) => row[b].state \notin Open
    BY DEF LeaseInv, LeaseHeld, Claimed
  <2>6. \A b \in Attempts : TaskOf[b] = t /\ Claimed(b) =>
            /\ row'[b].state \notin Open /\ using'[t] # b /\ row'[b].owner = row[b].owner
    BY <2>1, <2>4, <2>5
  <2>7. link'[t] # NoAttempt => TaskOf[link'[t]] = t
    BY <2>2 DEF LeaseInv, ResumeOpen
  <2> QED
    BY <1>a, <2>1, <2>3, <2>4, <2>6, <2>7, LeaseTask
<1>9. ASSUME NEW t \in Tasks, ReapReimport(t)
      PROVE  LeaseHeld' /\ UsesOpen' /\ ResumeOpen'
  <2>1. \A b \in Attempts : \/ row'[b] = row[b]
                            \/ TaskOf[b] = t /\ row[b].state \in Open /\ row'[b].state = "preserved"
    BY <1>0, <1>9, PreserveLatestRows DEF ReapReimport
  <2>2. /\ status[t] = "reimporting" /\ status' = [status EXCEPT ![t] = "failed"]
        /\ UNCHANGED <<using, link>> /\ "reaperMeetsReimport" \in Admits
    BY <1>9 DEF ReapReimport
  <2>3. \A u \in Tasks \ {t} : /\ status'[u] = status[u] /\ using'[u] = using[u]
                               /\ link'[u] = link[u]
    BY <1>0, <2>2 DEF TaskOK
  <2>4. status'[t] = "failed" /\ ~Gone(t)
    BY <1>0, <2>2 DEF TaskOK, Gone
  <2>5. \A b \in Attempts : Claimed(b) => row[b].state \notin Open /\ using[TaskOf[b]] # b
    BY DEF LeaseInv, LeaseHeld, Claimed
  <2>6. \A b \in Attempts : TaskOf[b] = t /\ Claimed(b) =>
            /\ row'[b].state \notin Open /\ using'[t] # b /\ row'[b].owner = row[b].owner
    BY <2>1, <2>2, <2>5
  <2>7. link'[t] # NoAttempt => TaskOf[link'[t]] = t
    BY <2>2 DEF LeaseInv, ResumeOpen
  <2>8. using[t] # NoAttempt =>
           TaskOf[using[t]] = t /\ using[t] \in Attempts /\ row[using[t]].state \in Open
    BY <1>0, <2>2 DEF LeaseInv, UsesOpen, TaskOK
  <2>9. using'[t] # NoAttempt =>
           /\ TaskOf[using'[t]] = t
           /\ row'[using'[t]].state \in Open \/ row'[using'[t]].state = "preserved"
    BY <2>1, <2>2, <2>8
  <2> QED
    BY <1>a, <2>1, <2>2, <2>3, <2>4, <2>6, <2>7, <2>9, LeaseTask
<1>10. ASSUME NEW t \in Tasks, Cancel(t)
       PROVE  LeaseHeld' /\ UsesOpen' /\ ResumeOpen'
  <2>1. PICK d \in {"discard", "preserve"} :
           ScheduleAll(AttemptsOf(t), d, IF d = "discard" THEN BundlesOf(t) ELSE {})
    BY <1>10 DEF Cancel
  <2>2. NoneOpened
    <3>1. /\ AttemptsOf(t) \in SUBSET Attempts
          /\ (IF d = "discard" THEN BundlesOf(t) ELSE {}) \in SUBSET Attempts
      BY BundlesTyped DEF AttemptsOf
    <3> QED
      BY <1>0, <2>1, <3>1, ScheduleAllCloses
  <2>3. \A b \in Attempts : TaskOf[b] # t => row'[b] = row[b]
    BY <2>1 DEF ScheduleAll, AttemptsOf
  <2>4. /\ status' = [status EXCEPT ![t] = "cancelled"] /\ UNCHANGED link
        /\ using' = [using EXCEPT ![t] = NoAttempt]
    BY <1>10 DEF Cancel
  <2>5. \A u \in Tasks \ {t} : /\ status'[u] = status[u] /\ using'[u] = using[u]
                               /\ link'[u] = link[u]
    BY <1>0, <2>4 DEF TaskOK
  <2>6. status'[t] = "cancelled" /\ using'[t] = NoAttempt
    BY <1>0, <2>4 DEF TaskOK
  <2>7. Gone(t)'
    BY <2>6 DEF Gone
  <2>8. \A b \in Attempts : Claimed(b) => row'[b].state \notin Open
    BY <2>2 DEF LeaseInv, LeaseHeld, Claimed, NoneOpened
  <2>9. link'[t] # NoAttempt => TaskOf[link'[t]] = t
    BY <2>4 DEF LeaseInv, ResumeOpen
  <2> QED
    BY <1>a, <2>3, <2>5, <2>6, <2>7, <2>8, <2>9, LeaseTask
<1>11. ASSUME NEW a \in Attempts, Reimport(a)
       PROVE  LeaseHeld' /\ UsesOpen' /\ ResumeOpen'
  <2>1. PICK r : row' = [row EXCEPT ![a] = r] /\ r.state \in Open
    <3>1. CASE InState(a, {"cleanup_pending", "preserved", "needs_attention"})
               /\ Write(a, [row[a] EXCEPT !.state = "in_use", !.disposition = "undecided",
                                          !.due = TRUE, !.error = "none"], {})
      <4>1. row[a] \in Rows
        BY <1>0, <3>1, ExistsIsRow DEF InState
      <4>2. [row[a] EXCEPT !.state = "in_use", !.disposition = "undecided",
                           !.due = TRUE, !.error = "none"].state \in Open
        BY <4>1 DEF Rows, Open
      <4> QED
        BY <3>1, <4>2 DEF Write
    <3>2. CASE Write(a, [NewRow EXCEPT !.state = "in_use"], {})
      <4>1. [NewRow EXCEPT !.state = "in_use"].state = "in_use"
        BY DEF NewRow
      <4> QED
        BY <3>2, <4>1 DEF Write, Open
    <3> QED
      BY <1>11, <3>1, <3>2 DEF Reimport
  <2>2. /\ using' = [using EXCEPT ![TaskOf[a]] = a] /\ link' = [link EXCEPT ![TaskOf[a]] = a]
        /\ status' = [status EXCEPT ![TaskOf[a]] = "reimporting"]
        /\ status[TaskOf[a]] \in {"failed", "partial"}
    BY <1>11 DEF Reimport
  <2>3. \A b \in Attempts : b # a => row'[b] = row[b]
    BY <1>0, <2>1 DEF JournalOK
  <2>4. row'[a].state \in Open
    BY <1>0, <2>1 DEF JournalOK
  <2>5. ~Claimed(a)
    <3>1. CASE ~Exists(a)
      BY <3>1, UsedIsUnclaimed
    <3>2. CASE row[a].owner = NoWorker
      BY <2>2, <3>2, WorkersAssumption DEF LeaseInv, LeaseHeld, Claimed, Gone
    <3> QED
      BY <1>11, <3>1, <3>2 DEF Reimport
  <2>6. \A b \in Attempts : Claimed(b) => row[b].state \notin Open
    BY DEF LeaseInv, LeaseHeld, Claimed
  <2>7. using'[TaskOf[a]] = a /\ link'[TaskOf[a]] = a /\ ~Gone(TaskOf[a])
    BY <1>0, <2>2 DEF TaskOK, Gone
  <2>8. \A u \in Tasks \ {TaskOf[a]} : /\ status'[u] = status[u] /\ using'[u] = using[u]
                                       /\ link'[u] = link[u]
    BY <1>0, <2>2 DEF TaskOK
  <2>9. TaskOf[a] \in Tasks
    OBVIOUS
  <2> QED
    BY <1>a, <2>3, <2>4, <2>5, <2>6, <2>7, <2>8, <2>9, LeaseTask
<1>12. ASSUME NEW a \in Attempts, Resume(a)
       PROVE  LeaseHeld' /\ UsesOpen' /\ ResumeOpen'
  <2>1. /\ UNCHANGED <<row, status, link>> /\ using' = [using EXCEPT ![TaskOf[a]] = a]
        /\ status[TaskOf[a]] = "active" /\ link[TaskOf[a]] = a
    BY <1>12 DEF Resume, journalVars
  <2>2. TaskOf[a] \in Tasks /\ row[a].state \in Open
    BY <2>1 DEF LeaseInv, ResumeOpen
  <2>3. \A b \in Attempts : Claimed(b) => row[b].state \notin Open
    BY DEF LeaseInv, LeaseHeld, Claimed
  <2>4. using'[TaskOf[a]] = a /\ ~Gone(TaskOf[a])
    BY <1>0, <2>1 DEF TaskOK, Gone
  <2>5. \A u \in Tasks \ {TaskOf[a]} : /\ status'[u] = status[u] /\ using'[u] = using[u]
                                       /\ link'[u] = link[u]
    BY <1>0, <2>1 DEF TaskOK
  <2> QED
    BY <1>a, <2>1, <2>2, <2>3, <2>4, <2>5, LeaseTask
<1>13. ASSUME NEW a \in Attempts, ExpirePreserved(a)
       PROVE  LeaseHeld' /\ UsesOpen' /\ ResumeOpen'
  <2> DEFINE r == [row[a] EXCEPT !.state = "cleanup_pending", !.disposition = "discard",
                                 !.due = TRUE, !.error = "none"]
  <2>1. row' = [row EXCEPT ![a] = r] /\ UNCHANGED <<status, using, link>>
        /\ "reaperMeetsReimport" \notin Admits
    BY <1>13 DEF ExpirePreserved, Write, taskVars
  <2>2. row[a] \in Rows /\ row[a].state = "preserved"
    BY <1>0, <1>13, ExistsIsRow DEF ExpirePreserved, InState
  <2>3. r.state = "cleanup_pending" /\ r.owner = row[a].owner
    BY <2>2 DEF Rows
  <2> HIDE DEF r
  <2>4. \A b \in Attempts : b # a => row'[b] = row[b]
    BY <1>0, <2>1 DEF JournalOK
  <2>5. row'[a] = r
    BY <1>0, <2>1 DEF JournalOK
  <2>6. LeaseHeld'
    BY <1>a, <2>1, <2>3, <2>4, <2>5 DEF LeaseInv, LeaseHeld, Gone, Open
  <2>7. UsesOpen'
    BY <1>0, <2>1, <2>2, <2>4 DEF LeaseInv, UsesOpen, TaskOK, Open
  <2>8. ResumeOpen'
    BY <1>0, <2>1, <2>2, <2>4 DEF LeaseInv, ResumeOpen, TaskOK, Open
  <2> QED
    BY <2>6, <2>7, <2>8
<1> QED
  BY <1>1, <1>2, <1>3, <1>5, <1>6, <1>7, <1>8, <1>9, <1>10, <1>11, <1>12, <1>13
  DEF PipelineStep

LEMMA LeaseInvInit ==
    ASSUME Init
    PROVE  LeaseInv
  BY TypeInvInit DEF Init, LeaseInv, LeaseHeld, UsesOpen, ResumeOpen

LEMMA LeaseInvStep ==
    ASSUME LeaseInv, [Next]_vars,
           {"batchOutlivesLease", "stopAtSwitch"} \intersect Admits = {},
           ~({"retentionExpires", "reaperMeetsReimport"} \subseteq Admits)
    PROVE  LeaseInv'
<1>1. TypeInv'
  BY TypeInvStep DEF LeaseInv
<1>2. CASE UNCHANGED vars
  BY <1>1, <1>2, LeaseStands DEF vars, journalVars, taskVars, workerVars, LeaseInv
<1> QED
  BY <1>1, <1>2, LeasePipeline, LeaseWorker, LeaseWorld DEF Next, LeaseInv

\* No cleanup worker removes the bytes of an attempt that a pipeline or a reimport works
\* on, as long as a batch of claims ends within its lease, the process does not stop
\* between an attempt's debt and the next candidate's link, and no row the reaper
\* preserved under a reimport outlives its retention there.
THEOREM DeletesNothingInUseHolds ==
    ASSUME {"batchOutlivesLease", "stopAtSwitch"} \intersect Admits = {},
           ~({"retentionExpires", "reaperMeetsReimport"} \subseteq Admits)
    PROVE  Spec => DeletesNothingInUse
<1>1. ASSUME LeaseInv, NEW w \in Workers, Deletes(w)
      PROVE  using[TaskOf[wk[w].item]] # wk[w].item
  <2>1. wk[w].pc # "idle"
    BY <1>1 DEF Deletes, LeaseInv, TypeInv, WkOK, Idle
  <2>2. wk[w].item \in Attempts /\ claim[w][wk[w].item] # NoRow
    BY <1>1, <2>1, ItemIsRow, NoRowIsNoRow DEF LeaseInv
  <2> QED
    BY <1>1, <2>2 DEF LeaseInv, LeaseHeld
<1>2. LeaseInv /\ [Next]_vars =>
         [\A w \in Workers : Deletes(w) => using[TaskOf[wk[w].item]] # wk[w].item]_vars
  BY <1>1
<1>3. Init => LeaseInv
  BY LeaseInvInit
<1>4. LeaseInv /\ [Next]_vars => LeaseInv'
  BY LeaseInvStep
<1> QED
  BY <1>2, <1>3, <1>4, PTL DEF Spec, DeletesNothingInUse

-----------------------------------------------------------------------------
(* Source cleanup starts only after the publication built from the bytes is over *)

Quiet(a) == bundle[BundleOf[a]] \in {"none", "completed"}

\* A publication that is not over is a barrier on its row as long as the row is a debt.
Covered ==
    \A a \in Attempts :
        row[a].state \in Indebted => Quiet(a) \/ BundleOf[a] \in row[a].barriers

\* The same of the row as a worker holds it.
ClaimCovered ==
    \A w \in Workers, a \in Attempts :
        claim[w][a] # NoRow =>
            /\ row[a].state \in Indebted
            /\ Quiet(a) \/ BundleOf[a] \in claim[w][a].barriers

\* Past the barriers a worker's item has no publication under way.
CheckedPcs == {"inspect", "evidence", "abort", "source", "removed", "discard",
               "attentionInspect", "attentionDiscard"}
Checked == \A w \in Workers : wk[w].pc \in CheckedPcs => Quiet(wk[w].item)

\* A task has one attempt at a path (MayStart).
OneAtPath ==
    \A a, b \in Attempts : Exists(a) /\ Exists(b) /\ BundleOf[a] = BundleOf[b] => a = b

SourceInv == LeaseInv /\ RowsAgree /\ OneAtPath /\ Covered /\ ClaimCovered /\ Checked

LEMMA OneAtPathStep ==
    ASSUME OneAtPath, RowStep, "pathAgain" \notin Admits
    PROVE  OneAtPath'
<1> SUFFICES ASSUME NEW a \in Attempts, NEW b \in Attempts, Exists(a)', Exists(b)',
                    BundleOf[a] = BundleOf[b]
             PROVE  a = b
  BY DEF OneAtPath
<1>1. \A c \in Attempts : Exists(c)' => Exists(c) \/ Created(c)
  BY DEF RowStep, Kept, Exists
<1>2. ASSUME NEW c \in Attempts, NEW d \in Attempts, Created(c), Exists(d)', c # d
      PROVE  BundleOf[c] # BundleOf[d]
  <2>1. Exists(d)
    BY <1>2 DEF Created, Exists
  <2> QED
    BY <1>2, <2>1 DEF Created, MayStart
<1> QED
  BY <1>1, <1>2 DEF OneAtPath

\* A step of a pipeline or of the world, which leaves the workers where they are.
LEMMA CoverRows ==
    ASSUME SourceInv, UNCHANGED <<claim, wk>>,
           \A b \in Attempts : Quiet(b) /\ (row'[b].state \in Indebted \/ Claimed(b)) => Quiet(b)',
           \A b \in Attempts :
              row'[b].state \in Indebted =>
                 \/ row[b].state \in Indebted /\ row'[b].barriers = row[b].barriers
                 \/ Quiet(b)' \/ BundleOf[b] \in row'[b].barriers,
           \A b \in Attempts : Claimed(b) => row'[b].state \in Indebted
    PROVE  Covered' /\ ClaimCovered' /\ Checked'
<1>1. Covered'
  BY DEF SourceInv, Covered
<1>2. ClaimCovered'
  <2> SUFFICES ASSUME NEW w \in Workers, NEW a \in Attempts, claim[w][a] # NoRow
               PROVE  /\ row'[a].state \in Indebted
                      /\ Quiet(a)' \/ BundleOf[a] \in claim[w][a].barriers
    BY DEF ClaimCovered
  <2>1. Claimed(a)
    BY DEF Claimed
  <2> QED
    BY <2>1 DEF SourceInv, ClaimCovered
<1>3. Checked'
  <2> SUFFICES ASSUME NEW w \in Workers, wk[w].pc \in CheckedPcs
               PROVE  Quiet(wk[w].item)'
    BY DEF Checked
  <2>1. wk[w].pc # "idle"
    BY DEF CheckedPcs
  <2>2. wk[w].item \in Attempts /\ Claimed(wk[w].item)
    BY <2>1, ItemIsRow, NoRowIsNoRow DEF Claimed, SourceInv, LeaseInv
  <2>3. Quiet(wk[w].item)
    BY DEF SourceInv, Checked
  <2> QED
    BY <2>2, <2>3
<1> QED
  BY <1>1, <1>2, <1>3

\* The bundles stay, or one publication ends.
LEMMA QuietStays ==
    ASSUME UNCHANGED bundle \/ \E a \in Attempts : PublisherStep(a)
    PROVE  \A b \in Attempts : Quiet(b) => Quiet(b)'
<1>1. CASE UNCHANGED bundle
  BY <1>1 DEF Quiet
<1>2. ASSUME NEW a \in Attempts, PublisherStep(a)
      PROVE  \A b \in Attempts : Quiet(b) => Quiet(b)'
  <2>1. bundle[a] = "publishing" /\ \A b : b # a => bundle'[b] = bundle[b]
    BY <1>2 DEF PublisherStep
  <2> QED
    BY <2>1 DEF Quiet
<1> QED
  BY <1>1, <1>2

LEMMA SourcePipeline ==
    ASSUME SourceInv, PipelineStep,
           {"retentionExpires", "barriersUnknown"} \intersect Admits = {}
    PROVE  Covered' /\ ClaimCovered' /\ Checked'
<1> USE AttemptsAssumption
<1>0. TypeInv /\ JournalOK /\ TaskOK /\ WorldOK /\ LeaseInv
  BY DEF SourceInv, LeaseInv, TypeInv
<1>a. UNCHANGED <<claim, wk>>
  BY DEF PipelineStep, CreateAttempt, SendEnqueue, AcceptHandle, Publish, FailOver, Reimport,
     Resume, ExpirePreserved, Finalize, LinkCandidate, FailPreserving, ReapReimport, Cancel,
     workerVars
<1>b. \A b \in Attempts : Claimed(b) => row[b].state \in Indebted
  BY DEF SourceInv, ClaimCovered, Claimed
<1>1. ASSUME NEW a \in Attempts, \A b \in Attempts : b # a => row'[b] = row[b],
             row'[a].state \in Open \union {"preserved"}, ~Claimed(a), UNCHANGED bundle
      PROVE  Covered' /\ ClaimCovered' /\ Checked'
  <2>1. row'[a].state \notin Indebted
    BY <1>1 DEF Open, Indebted, Cleanable
  <2> QED
    BY <1>1, <1>a, <1>b, <2>1, QuietStays, CoverRows
<1>2. ASSUME NEW a \in Attempts, CreateAttempt(a)
      PROVE  Covered' /\ ClaimCovered' /\ Checked'
  <2>1. row' = [row EXCEPT ![a] = NewRow] /\ NewRow.state \in Open
    BY <1>2 DEF CreateAttempt, Write, NewRow, Open
  <2>2. \A b \in Attempts : b # a => row'[b] = row[b]
    BY <1>0, <2>1 DEF JournalOK
  <2>3. row'[a].state \in Open
    BY <1>0, <2>1 DEF JournalOK
  <2>4. ~Claimed(a) /\ UNCHANGED bundle
    BY <1>0, <1>2, UsedIsUnclaimed DEF CreateAttempt, worldVars
  <2> QED
    BY <1>1, <2>2, <2>3, <2>4
<1>3. ASSUME NEW a \in Attempts, AcceptHandle(a)
      PROVE  Covered' /\ ClaimCovered' /\ Checked'
  <2>1. row' = [row EXCEPT ![a] = [row[a] EXCEPT !.state = "in_use", !.known = TRUE]]
        /\ using[TaskOf[a]] = a /\ UNCHANGED bundle
    BY <1>3 DEF AcceptHandle, Write, worldVars
  <2>2. row[a] \in Rows
    BY <1>0, <1>3, ExistsIsRow DEF AcceptHandle, InState
  <2>3. \A b \in Attempts : b # a => row'[b] = row[b]
    BY <1>0, <2>1 DEF JournalOK
  <2>4. row'[a].state = "in_use"
    BY <1>0, <2>1, <2>2 DEF JournalOK, Rows
  <2>5. ~Claimed(a)
    BY <1>0, <2>1, UsedIsUnclaimed
  <2> QED
    BY <1>1, <2>1, <2>3, <2>4, <2>5 DEF Open
<1>4. ASSUME NEW a \in Attempts, Reimport(a)
      PROVE  Covered' /\ ClaimCovered' /\ Checked'
  <2>1. PICK r : row' = [row EXCEPT ![a] = r] /\ r.state \in Open
    <3>1. CASE InState(a, {"cleanup_pending", "preserved", "needs_attention"})
               /\ Write(a, [row[a] EXCEPT !.state = "in_use", !.disposition = "undecided",
                                          !.due = TRUE, !.error = "none"], {})
      <4>1. row[a] \in Rows
        BY <1>0, <3>1, ExistsIsRow DEF InState
      <4>2. [row[a] EXCEPT !.state = "in_use", !.disposition = "undecided",
                           !.due = TRUE, !.error = "none"].state \in Open
        BY <4>1 DEF Rows, Open
      <4> QED
        BY <3>1, <4>2 DEF Write
    <3>2. CASE Write(a, [NewRow EXCEPT !.state = "in_use"], {})
      <4>1. [NewRow EXCEPT !.state = "in_use"].state = "in_use"
        BY DEF NewRow
      <4> QED
        BY <3>2, <4>1 DEF Write, Open
    <3> QED
      BY <1>4, <3>1, <3>2 DEF Reimport
  <2>2. \A b \in Attempts : b # a => row'[b] = row[b]
    BY <1>0, <2>1 DEF JournalOK
  <2>3. row'[a].state \in Open
    BY <1>0, <2>1 DEF JournalOK
  <2>4. ~Claimed(a)
    <3>1. CASE ~Exists(a)
      BY <1>0, <3>1, UsedIsUnclaimed
    <3>2. CASE row[a].owner = NoWorker
      BY <1>0, <1>4, <3>2, WorkersAssumption DEF Reimport, LeaseInv, LeaseHeld, Claimed, Gone
    <3> QED
      BY <1>4, <3>1, <3>2 DEF Reimport
  <2> QED
    BY <1>1, <1>4, <2>2, <2>3, <2>4 DEF Reimport, worldVars
<1>5. ASSUME UNCHANGED <<row, bundle>>
      PROVE  Covered' /\ ClaimCovered' /\ Checked'
  BY <1>5, <1>a, <1>b, QuietStays, CoverRows
<1>6. ASSUME NEW a \in Attempts, SendEnqueue(a) \/ Resume(a)
      PROVE  Covered' /\ ClaimCovered' /\ Checked'
  BY <1>5, <1>6 DEF SendEnqueue, Resume, journalVars, worldVars
<1>7. ASSUME NEW a \in Attempts, Publish(a)
      PROVE  Covered' /\ ClaimCovered' /\ Checked'
  <2>1. using[TaskOf[a]] = a /\ UNCHANGED row
        /\ bundle' = [bundle EXCEPT ![BundleOf[a]] = "publishing"]
    BY <1>7 DEF Publish, journalVars
  <2>2. ~Claimed(a)
    BY <1>0, <2>1, UsedIsUnclaimed
  <2>3. row[a].state \notin Indebted /\ Exists(a)
    <3>1. a # NoAttempt /\ TaskOf[a] \in Tasks
      OBVIOUS
    <3>2. row[a].state \in Open \/ row[a].state = "preserved"
      BY <1>0, <2>1, <3>1 DEF LeaseInv, UsesOpen
    <3> QED
      BY <3>2 DEF Open, Indebted, Cleanable, Exists, NoRow
  <2>4. \A b \in Attempts : row[b].state \in Indebted => Exists(b)
    BY DEF Indebted, Cleanable, Exists, NoRow
  <2>5. \A b \in Attempts : b # a /\ Exists(b) => (Quiet(b) => Quiet(b)')
    <3>1. \A b \in Attempts : b # a /\ Exists(b) => BundleOf[b] # BundleOf[a]
      BY <2>3 DEF SourceInv, OneAtPath
    <3> QED
      BY <2>1, <3>1 DEF Quiet
  <2>6. \A b \in Attempts : Quiet(b) /\ (row'[b].state \in Indebted \/ Claimed(b)) => Quiet(b)'
    BY <1>b, <2>1, <2>2, <2>3, <2>4, <2>5
  <2> QED
    BY <1>a, <1>b, <2>1, <2>6, CoverRows
<1>8. ASSUME NEW a \in Attempts, using[TaskOf[a]] = a, UNCHANGED bundle,
             NEW o \in ImportOutcomes(a), ScheduleAll({a}, o[1], o[2])
      PROVE  Covered' /\ ClaimCovered' /\ Checked'
  <2>1. {a} \in SUBSET Attempts /\ o[1] \in {"discard", "preserve"} /\ o[2] \in SUBSET Attempts
    BY <1>8, OutcomesTyped
  <2>2. \A b \in Attempts :
           \/ row'[b] = row[b]
           \/ /\ b \in {a}
              /\ row'[b].state = IF o[1] = "discard" THEN "cleanup_pending" ELSE "preserved"
              /\ \A x \in o[2] : x \in row'[b].barriers
    <3> DEFINE those == {a}
               d == o[1]
               bs == o[2]
    <3>1. those \in SUBSET Attempts /\ d \in {"discard", "preserve"} /\ bs \in SUBSET Attempts
          /\ ScheduleAll(those, d, bs) /\ TypeInv
      BY <1>0, <1>8, <2>1
    <3> HIDE DEF those, d, bs
    <3>2. \A b \in Attempts :
             row'[b] = row[b] \/ (b \in those /\ BecomesDebt(b, d, bs))
      BY ONLY <3>1, ScheduleAllRows
    <3> QED
      BY <3>2 DEF those, d, bs, BecomesDebt
  <2>3. o[1] = "discard" => Quiet(a) \/ BundleOf[a] \in o[2]
    <3>1. CASE o = <<"preserve", {}>>
      BY <3>1
    <3>2. CASE o = <<"discard", {b \in {BundleOf[a]} : bundle[b] # "none"}>>
      BY <3>2 DEF Quiet
    <3>3. CASE o = <<"discard", {}>> /\ bundle[BundleOf[a]] = "completed"
      BY <3>3 DEF Quiet
    <3> QED
      BY <1>8, <3>1, <3>2, <3>3 DEF ImportOutcomes
  <2>4. ~Claimed(a)
    BY <1>0, <1>8, UsedIsUnclaimed
  <2>5. \A b \in Attempts : Quiet(b) => Quiet(b)'
    BY <1>8, QuietStays
  <2>6. \A b \in Attempts : Claimed(b) => row'[b].state \in Indebted
    BY <1>b, <2>2, <2>4
  <2>7. \A b \in Attempts :
           row'[b].state \in Indebted =>
              \/ row[b].state \in Indebted /\ row'[b].barriers = row[b].barriers
              \/ Quiet(b)' \/ BundleOf[b] \in row'[b].barriers
    BY <2>1, <2>2, <2>3, <2>5 DEF Indebted, Cleanable
  <2> QED
    BY <1>a, <2>5, <2>6, <2>7, CoverRows
<1>9. ASSUME NEW a \in Attempts, FailOver(a) \/ \E final \in TerminalStatuses : Finalize(a, final)
      PROVE  Covered' /\ ClaimCovered' /\ Checked'
  <2>1. using[TaskOf[a]] = a /\ UNCHANGED bundle
    BY <1>9 DEF FailOver, Finalize, worldVars
  <2>2. PICK o \in ImportOutcomes(a) : ScheduleAll({a}, o[1], o[2])
    BY <1>9 DEF FailOver, Finalize
  <2> QED
    BY <1>8, <2>1, <2>2
<1>10. ASSUME NEW t \in Tasks, LinkCandidate(t)
       PROVE  Covered' /\ ClaimCovered' /\ Checked'
  BY <1>5, <1>10 DEF LinkCandidate, journalVars, worldVars
<1>11. ASSUME NEW t \in Tasks, FailPreserving(t) \/ ReapReimport(t)
       PROVE  Covered' /\ ClaimCovered' /\ Checked'
  <2>1. \A b \in Attempts : \/ row'[b] = row[b]
                            \/ row[b].state \in Open /\ row'[b].state = "preserved"
    BY <1>0, <1>11, PreserveLatestRows DEF FailPreserving, ReapReimport
  <2>2. UNCHANGED bundle
    BY <1>11 DEF FailPreserving, ReapReimport, worldVars
  <2>3. \A b \in Attempts : Claimed(b) => row'[b].state \in Indebted
    BY <1>b, <2>1 DEF Open, Indebted, Cleanable
  <2>4. \A b \in Attempts : row'[b].state \in Indebted => row'[b] = row[b]
    BY <2>1 DEF Indebted, Cleanable
  <2> QED
    BY <1>a, <2>2, <2>3, <2>4, QuietStays, CoverRows
<1>12. ASSUME NEW t \in Tasks, Cancel(t)
       PROVE  Covered' /\ ClaimCovered' /\ Checked'
  <2>1. ScheduleAll(AttemptsOf(t), "discard", BundlesOf(t)) /\ UNCHANGED bundle
    BY <1>12 DEF Cancel, worldVars
  <2>2. AttemptsOf(t) \in SUBSET Attempts /\ BundlesOf(t) \in SUBSET Attempts
    BY BundlesTyped DEF AttemptsOf
  <2>3. \A b \in Attempts :
           \/ row'[b] = row[b]
           \/ /\ b \in AttemptsOf(t) /\ row'[b].state = "cleanup_pending"
              /\ \A x \in BundlesOf(t) : x \in row'[b].barriers
    <3>1. PICK bs \in SUBSET Attempts :
             bs = BundlesOf(t) /\ ScheduleAll(AttemptsOf(t), "discard", bs)
      BY <2>1, <2>2 DEF ScheduleAll
    <3>2. \A b \in Attempts :
             row'[b] = row[b] \/ (b \in AttemptsOf(t) /\ BecomesDebt(b, "discard", bs))
      BY <1>0, <2>2, <3>1, ScheduleAllRows
    <3> QED
      BY <3>1, <3>2 DEF BecomesDebt
  <2>4. \A b \in AttemptsOf(t) : Quiet(b) \/ BundleOf[b] \in BundlesOf(t)
    BY DEF BundlesOf, Quiet
  <2>5. \A b \in Attempts : Quiet(b) => Quiet(b)'
    BY <2>1, QuietStays
  <2>6. \A b \in Attempts : Claimed(b) => row'[b].state \in Indebted
    BY <1>b, <2>3 DEF Indebted, Cleanable
  <2>7. \A b \in Attempts :
           row'[b].state \in Indebted =>
              \/ row[b].state \in Indebted /\ row'[b].barriers = row[b].barriers
              \/ Quiet(b)' \/ BundleOf[b] \in row'[b].barriers
    BY <2>3, <2>4, <2>5
  <2> QED
    BY <1>a, <2>5, <2>6, <2>7, CoverRows
<1>13. ASSUME NEW a \in Attempts, ExpirePreserved(a)
       PROVE  FALSE
  BY <1>13 DEF ExpirePreserved
<1> QED
  BY <1>2, <1>3, <1>4, <1>6, <1>7, <1>9, <1>10, <1>11, <1>12, <1>13 DEF PipelineStep

\* A worker keeps its item until it is done with it.
LEMMA ItemStays ==
    ASSUME TypeInv, NEW w \in Workers, ItemStep(w)
    PROVE  wk'[w].item = wk[w].item \/ wk'[w] = Idle
<1>1. ASSUME (\E pc : Goto(w, pc)) \/ (\E pc, code : Raise(w, pc, code))
      PROVE  wk'[w].item = wk[w].item
  BY <1>1 DEF Goto, Raise, TypeInv, WkOK, Wks
<1>2. ASSUME Finish(w)
      PROVE  wk'[w] = Idle
  BY <1>2 DEF Finish, TypeInv, WkOK
<1>3. CASE CheckBarriers(w) \/ AttentionBarriers(w) \/ UnsafeReread(w) \/ RetryReread(w)
  BY <1>1, <1>3 DEF CheckBarriers, Unsafe, AttentionBarriers, UnsafeReread, RetryReread, Reread
<1>4. CASE DeferForPublisher(w) \/ MarkComplete(w) \/ AttentionResume(w) \/ AttentionDefer(w)
  <2>1. \E r : CasFinish(w, r)
    BY <1>4 DEF DeferForPublisher, MarkComplete, AttentionResume, AttentionDefer
  <2> QED
    BY <1>1, <1>2, <2>1 DEF CasFinish, Retryable
<1>5. CASE UnsafeWrite(w) \/ RetryWrite(w)
  BY <1>2, <1>5 DEF UnsafeWrite, RetryWrite, HandlerWrite
<1>6. CASE RecordEvidence(w) \/ MarkRemoved(w)
  <2>1. \E r, pc : Cas(w, r, pc)
    BY <1>6 DEF RecordEvidence, MarkRemoved
  <2> QED
    BY <1>1, <2>1 DEF Cas, Retryable
<1>7. CASE Inspect(w)
  <2>1. CASE Retryable(w) \/ Unsafe(w, "other")
    BY <1>1, <2>1 DEF Retryable, Unsafe
  <2>2. ASSUME NEW m, wk' = [wk EXCEPT ![w].pc = "evidence", ![w].found = m]
        PROVE  wk'[w].item = wk[w].item
    BY <2>2 DEF TypeInv, WkOK, Wks
  <2> QED
    BY <1>7, <2>1, <2>2 DEF Inspect
<1>8. CASE Abort(w)
  BY <1>1, <1>8 DEF Abort, Retryable
<1>9. CASE RemoveFile(w)
  BY <1>1, <1>9 DEF RemoveFile, Retryable, Unsafe
<1>10. CASE RemoveWorkspace(w)
  BY <1>1, <1>10 DEF RemoveWorkspace, Retryable, Unsafe
<1>11. CASE Discard(w)
  BY <1>1, <1>11 DEF Discard, Retryable
<1>12. CASE AttentionInspect(w) \/ AttentionDiscard(w)
  BY <1>1, <1>12 DEF AttentionInspect, AttentionDiscard, Reconsider
<1> QED
  BY <1>3, <1>4, <1>5, <1>6, <1>7, <1>8, <1>9, <1>10, <1>11, <1>12 DEF ItemStep

\* No worker goes past the barriers but by checking them.
LEMMA BarriersFirst ==
    ASSUME TypeInv, NEW w \in Workers, ItemStep(w), wk[w].pc \notin CheckedPcs,
           wk'[w].pc \in CheckedPcs
    PROVE  /\ CheckBarriers(w) \/ AttentionBarriers(w)
           /\ {bundle[b] : b \in claim[w][wk[w].item].barriers} \subseteq {"completed"}
<1>1. ASSUME NEW pc, Goto(w, pc)
      PROVE  wk'[w].pc = pc
  BY <1>1 DEF Goto, TypeInv, WkOK, Wks
<1>2. ASSUME NEW pc, NEW code, Raise(w, pc, code)
      PROVE  wk'[w].pc = pc
  BY <1>2 DEF Raise, TypeInv, WkOK, Wks
<1>3. ~Finish(w)
  <2>1. Idle.pc \notin CheckedPcs
    BY DEF Idle, CheckedPcs
  <2>2. Finish(w) => wk'[w] = Idle
    BY DEF Finish, TypeInv, WkOK
  <2> QED
    BY <2>1, <2>2
<1>4. ~Retryable(w) /\ \A code : ~Unsafe(w, code)
  BY <1>2 DEF Retryable, Unsafe, CheckedPcs
<1>5. CASE CheckBarriers(w)
  <2>1. ~Goto(w, "defer")
    BY <1>1 DEF CheckedPcs
  <2> QED
    BY <1>4, <1>5, <2>1 DEF CheckBarriers
<1>6. CASE AttentionBarriers(w)
  <2>1. ~Goto(w, "attentionDefer")
    BY <1>1 DEF CheckedPcs
  <2> QED
    BY <1>6, <2>1 DEF AttentionBarriers
<1>7. CASE DeferForPublisher(w) \/ MarkComplete(w) \/ AttentionResume(w) \/ AttentionDefer(w)
  BY <1>3, <1>4, <1>7 DEF DeferForPublisher, MarkComplete, AttentionResume, AttentionDefer,
     CasFinish
<1>8. CASE UnsafeWrite(w) \/ RetryWrite(w)
  BY <1>3, <1>8 DEF UnsafeWrite, RetryWrite, HandlerWrite
<1>9. CASE UnsafeReread(w) \/ RetryReread(w)
  BY <1>1, <1>9 DEF UnsafeReread, RetryReread, Reread, CheckedPcs
<1>10. CASE \/ Inspect(w) \/ RecordEvidence(w) \/ Abort(w) \/ RemoveFile(w)
            \/ RemoveWorkspace(w) \/ MarkRemoved(w) \/ Discard(w) \/ AttentionInspect(w)
            \/ AttentionDiscard(w)
  BY <1>10 DEF Inspect, RecordEvidence, Abort, RemoveFile, RemoveWorkspace, MarkRemoved,
     Discard, AttentionInspect, AttentionDiscard, CheckedPcs
<1> QED
  BY <1>5, <1>6, <1>7, <1>8, <1>9, <1>10 DEF ItemStep

LEMMA SourceItem ==
    ASSUME SourceInv, NEW w \in Workers, ItemStep(w)
    PROVE  Covered' /\ ClaimCovered' /\ Checked'
<1> DEFINE a == wk[w].item
<1>0. TypeInv
  BY DEF SourceInv, LeaseInv
<1>1. wk[w].pc # "idle" /\ MovesItem(w)
  BY <1>0, ItemMoves
<1>2. a \in Attempts /\ claim[w][a] # NoRow
  BY <1>0, <1>1, ItemIsRow, NoRowIsNoRow
<1>3. row[a].state \in Indebted /\ (Quiet(a) \/ BundleOf[a] \in claim[w][a].barriers)
      /\ (Quiet(a) \/ BundleOf[a] \in row[a].barriers)
  BY <1>2 DEF SourceInv, ClaimCovered, Covered
<1>4. UNCHANGED bundle
  BY DEF ItemStep, CheckBarriers, DeferForPublisher, Inspect, RecordEvidence, Abort,
         RemoveFile, RemoveWorkspace, MarkRemoved, Discard, MarkComplete, Discarded,
         AttentionBarriers, AttentionInspect, AttentionDiscard, AttentionResume,
         AttentionDefer, UnsafeReread, UnsafeWrite, RetryReread, RetryWrite, Reread,
         HandlerWrite, worldVars
<1>5. \A b : Quiet(b)' <=> Quiet(b)
  BY <1>4 DEF Quiet
<1>6. /\ \A b \in Attempts : b # a => row'[b] = row[b]
      /\ row'[a].state \in Indebted /\ row'[a].barriers = row[a].barriers
  BY <1>1, <1>3 DEF MovesItem
<1>7. Covered'
  BY <1>3, <1>5, <1>6 DEF SourceInv, Covered
<1>8. ClaimCovered'
  <2> SUFFICES ASSUME NEW v \in Workers, NEW b \in Attempts, claim'[v][b] # NoRow
               PROVE  /\ row'[b].state \in Indebted
                      /\ Quiet(b) \/ BundleOf[b] \in claim'[v][b].barriers
    BY <1>5 DEF ClaimCovered
  <2>1. CASE v = w /\ b = a
    BY <1>1, <1>3, <1>6, <2>1 DEF MovesItem
  <2>2. CASE ~(v = w /\ b = a)
    <3>1. claim'[v][b] = claim[v][b]
      BY <1>1, <2>2 DEF MovesItem
    <3>2. row[b].state \in Indebted /\ (Quiet(b) \/ BundleOf[b] \in claim[v][b].barriers)
      BY <3>1 DEF SourceInv, ClaimCovered
    <3>3. row'[b].state \in Indebted
      BY <1>6, <3>2
    <3> QED
      BY <3>1, <3>2, <3>3
  <2> QED
    BY <2>1, <2>2
<1>9. Checked'
  <2> SUFFICES ASSUME NEW v \in Workers, wk'[v].pc \in CheckedPcs
               PROVE  Quiet(wk'[v].item)
    BY <1>4 DEF Checked, Quiet
  <2>1. CASE v # w
    <3>1. wk'[v] = wk[v]
      BY <1>1, <2>1 DEF MovesItem
    <3> QED
      BY <3>1 DEF SourceInv, Checked
  <2>2. CASE v = w
    <3>1. wk'[w].item = a
      <4>1. Idle.pc \notin CheckedPcs
        BY DEF Idle, CheckedPcs
      <4> QED
        BY <1>0, <2>2, <4>1, ItemStays
    <3>2. CASE wk[w].pc \in CheckedPcs
      BY <2>2, <3>1, <3>2 DEF SourceInv, Checked
    <3>3. CASE wk[w].pc \notin CheckedPcs
      <4>1. {bundle[b] : b \in claim[w][a].barriers} \subseteq {"completed"}
        BY <1>0, <2>2, <3>3, BarriersFirst
      <4>2. BundleOf[a] \in claim[w][a].barriers => bundle[BundleOf[a]] = "completed"
        BY <4>1
      <4>3. Quiet(a)
        BY <1>3, <4>2 DEF Quiet
      <4> QED
        BY <2>2, <3>1, <4>3
    <3> QED
      BY <3>2, <3>3
  <2> QED
    BY <2>1, <2>2
<1> QED
  BY <1>7, <1>8, <1>9

LEMMA SourceClaim ==
    ASSUME SourceInv, NEW w \in Workers, NEW those \in SUBSET Claimable, ClaimRows(w, those),
           UNCHANGED <<wk, bundle>>
    PROVE  Covered' /\ ClaimCovered' /\ Checked'
<1>0. TypeInv
  BY DEF SourceInv, LeaseInv
<1>1. \A a \in those : a \in Attempts /\ row[a] \in Rows /\ row[a].state \in Indebted
  BY <1>0, ExistsIsRow DEF Claimable, InState, TypeInv, Indebted
<1>2. row' = [a \in Attempts |-> IF a \in those THEN [row[a] EXCEPT !.owner = w] ELSE row[a]]
  BY DEF ClaimRows
<1>3. claim' = [claim EXCEPT ![w] = [a \in Attempts |-> IF a \in those THEN row'[a] ELSE NoRow]]
  BY DEF ClaimRows
<1>4. \A a \in Attempts : row'[a].state = row[a].state /\ row'[a].barriers = row[a].barriers
  <2>1. \A a \in those : /\ [row[a] EXCEPT !.owner = w].state = row[a].state
                         /\ [row[a] EXCEPT !.owner = w].barriers = row[a].barriers
    BY <1>1 DEF Rows
  <2> QED
    BY <1>2, <2>1
<1>5. \A b : Quiet(b)' <=> Quiet(b)
  BY DEF Quiet
<1>6. Covered'
  BY <1>4, <1>5 DEF SourceInv, Covered
<1>7. ClaimCovered'
  <2> SUFFICES ASSUME NEW v \in Workers, NEW b \in Attempts, claim'[v][b] # NoRow
               PROVE  /\ row'[b].state \in Indebted
                      /\ Quiet(b) \/ BundleOf[b] \in claim'[v][b].barriers
    BY <1>5 DEF ClaimCovered
  <2>1. CASE v = w
    <3>1. b \in those /\ claim'[w][b] = row'[b]
      BY <1>0, <1>3, <2>1 DEF TypeInv, ClaimOK
    <3>2. Quiet(b) \/ BundleOf[b] \in row[b].barriers
      BY <1>1, <3>1 DEF SourceInv, Covered
    <3> QED
      BY <1>1, <1>4, <2>1, <3>1, <3>2
  <2>2. CASE v # w
    <3>1. claim'[v][b] = claim[v][b]
      BY <1>0, <1>3, <2>2 DEF TypeInv, ClaimOK
    <3> QED
      BY <1>4, <3>1 DEF SourceInv, ClaimCovered
  <2> QED
    BY <2>1, <2>2
<1>8. Checked'
  BY DEF SourceInv, Checked, Quiet
<1> QED
  BY <1>6, <1>7, <1>8

\* Claims are only given up, and no worker goes on.
LEMMA SourceStands ==
    ASSUME SourceInv, UNCHANGED bundle,
           \A a \in Attempts : row'[a].state = row[a].state /\ row'[a].barriers = row[a].barriers,
           \A w \in Workers, a \in Attempts : claim'[w][a] \in {claim[w][a], NoRow},
           \A w \in Workers : wk'[w] = wk[w] \/ wk'[w].pc \notin CheckedPcs
    PROVE  Covered' /\ ClaimCovered' /\ Checked'
<1>1. Covered'
  BY DEF SourceInv, Covered, Quiet
<1>2. ClaimCovered'
  BY DEF SourceInv, ClaimCovered, Quiet
<1>3. Checked'
  BY DEF SourceInv, Checked, Quiet
<1> QED
  BY <1>1, <1>2, <1>3

LEMMA SourceWorker ==
    ASSUME SourceInv, WorkerStep
    PROVE  Covered' /\ ClaimCovered' /\ Checked'
<1>0. TypeInv
  BY DEF SourceInv, LeaseInv
<1>1. ASSUME NEW w \in Workers, RunOnce(w)
      PROVE  Covered' /\ ClaimCovered' /\ Checked'
  BY <1>1, SourceClaim DEF RunOnce, worldVars
<1>2. ASSUME NEW w \in Workers, NEW a \in Attempts, CleanupNow(w, a)
      PROVE  Covered' /\ ClaimCovered' /\ Checked'
  <2>1. UNCHANGED <<wk, bundle>>
    BY <1>2 DEF CleanupNow, worldVars
  <2>2. CASE a \in Claimable
    <3>1. {a} \in SUBSET Claimable /\ ClaimRows(w, {a})
      BY <1>2, <2>2 DEF CleanupNow
    <3> QED
      BY <2>1, <3>1, SourceClaim
  <2>3. CASE a \notin Claimable
    <3>1. UNCHANGED <<row, claim>>
      BY <1>2, <2>3 DEF CleanupNow, journalVars
    <3> QED
      BY <2>1, <3>1, SourceStands
  <2> QED
    BY <2>2, <2>3
<1>3. ASSUME NEW w \in Workers, NEW a \in Attempts, Begin(w, a)
      PROVE  Covered' /\ ClaimCovered' /\ Checked'
  <2>1. UNCHANGED <<row, claim, bundle>>
    BY <1>3 DEF Begin, journalVars, worldVars
  <2>2. PICK pc \in {"attention", "barriers"} :
           wk' = [wk EXCEPT ![w] = [wk[w] EXCEPT !.item = a, !.pc = pc]]
    BY <1>0, <1>3 DEF Begin, TypeInv, WkOK
  <2>3. wk'[w].pc = pc
    BY <1>0, <2>2 DEF TypeInv, WkOK, Wks
  <2>4. \A v \in Workers : wk'[v] = wk[v] \/ wk'[v].pc \notin CheckedPcs
    BY <1>0, <2>2, <2>3 DEF TypeInv, WkOK, CheckedPcs
  <2> QED
    BY <2>1, <2>4, SourceStands
<1>4. ASSUME NEW w \in Workers, KillWorker(w)
      PROVE  Covered' /\ ClaimCovered' /\ Checked'
  <2>1. UNCHANGED <<row, bundle>>
    BY <1>4 DEF KillWorker, journalVars, worldVars
  <2>2. \A v \in Workers, b \in Attempts : claim'[v][b] \in {claim[v][b], NoRow}
    BY <1>0, <1>4 DEF KillWorker, TypeInv, ClaimOK
  <2>3. \A v \in Workers : wk'[v] = wk[v] \/ wk'[v] = Idle
    BY <1>0, <1>4 DEF KillWorker, TypeInv, WkOK
  <2>4. Idle.pc \notin CheckedPcs
    BY DEF Idle, CheckedPcs
  <2> QED
    BY <2>1, <2>2, <2>3, <2>4, SourceStands
<1> QED
  BY <1>1, <1>2, <1>3, <1>4, SourceItem DEF WorkerStep

LEMMA SourceWorld ==
    ASSUME SourceInv, WorldStep
    PROVE  Covered' /\ ClaimCovered' /\ Checked'
<1>0. TypeInv
  BY DEF SourceInv, LeaseInv
<1>1. ASSUME NEW a \in Attempts, Elapse(a) \/ LeaseExpires(a)
      PROVE  Covered' /\ ClaimCovered' /\ Checked'
  <2>1. row[a] \in Rows
    BY <1>0, <1>1, ExistsIsRow DEF Elapse, LeaseExpires, TypeInv
  <2>2. PICK r \in {[row[a] EXCEPT !.due = TRUE], [row[a] EXCEPT !.owner = NoWorker]} :
           row' = [row EXCEPT ![a] = r]
    BY <1>1 DEF Elapse, LeaseExpires
  <2>3. r.state = row[a].state /\ r.barriers = row[a].barriers
    BY <2>1 DEF Rows
  <2>4. \A b \in Attempts : row'[b].state = row[b].state /\ row'[b].barriers = row[b].barriers
    BY <1>0, <2>2, <2>3 DEF TypeInv, JournalOK
  <2>5. UNCHANGED <<bundle, claim, wk>>
    BY <1>1 DEF Elapse, LeaseExpires, worldVars, workerVars
  <2> QED
    BY <2>4, <2>5, SourceStands
<1>2. ASSUME \/ \E a \in Attempts : ClientEnqueue(a) \/ RemovedByHand(a)
             \/ \E p \in Paths : TransferMoves(p) \/ TransferEnds(p)
      PROVE  Covered' /\ ClaimCovered' /\ Checked'
  <2>1. UNCHANGED <<row, bundle, claim, wk>>
    BY <1>2 DEF ClientEnqueue, RemovedByHand, TransferMoves, TransferEnds, journalVars, workerVars
  <2> QED
    BY <2>1, SourceStands
<1>3. ASSUME NEW a \in Attempts, PublisherStep(a)
      PROVE  Covered' /\ ClaimCovered' /\ Checked'
  <2>1. UNCHANGED <<row, claim, wk>>
    BY <1>3 DEF PublisherStep, journalVars, workerVars
  <2>2. \A b \in Attempts : Quiet(b) => Quiet(b)'
    BY <1>3, QuietStays
  <2>3. \A b \in Attempts : Claimed(b) => row[b].state \in Indebted
    BY DEF SourceInv, ClaimCovered, Claimed
  <2> QED
    BY <2>1, <2>2, <2>3, CoverRows
<1>4. CASE Restart
  <2>1. UNCHANGED <<row, bundle>>
    BY <1>4 DEF Restart, journalVars, worldVars
  <2>2. \A v \in Workers, b \in Attempts : claim'[v][b] = NoRow
    BY <1>4 DEF Restart
  <2>3. \A v \in Workers : wk'[v] = Idle
    BY <1>4 DEF Restart
  <2>4. Idle.pc \notin CheckedPcs
    BY DEF Idle, CheckedPcs
  <2> QED
    BY <2>1, <2>2, <2>3, <2>4, SourceStands
<1> QED
  BY <1>1, <1>2, <1>3, <1>4 DEF WorldStep

LEMMA SourceInvInit ==
    ASSUME Init
    PROVE  SourceInv
<1>1. LeaseInv
  BY LeaseInvInit
<1>2. Covered /\ ClaimCovered
  BY DEF Init, Covered, ClaimCovered, NoRow, Indebted, Cleanable
<1>3. Checked
  BY DEF Init, Checked, CheckedPcs, Idle
<1>4. RowsAgree /\ OneAtPath
  BY DEF Init, RowsAgree, OneAtPath, Exists
<1> QED
  BY <1>1, <1>2, <1>3, <1>4 DEF SourceInv

LEMMA SourceInvStep ==
    ASSUME SourceInv, [Next]_vars,
           {"batchOutlivesLease", "stopAtSwitch", "retentionExpires", "barriersUnknown",
            "pathAgain"} \intersect Admits = {}
    PROVE  SourceInv'
<1>1. LeaseInv' /\ RowsAgree' /\ OneAtPath'
  BY LeaseInvStep, RowsStep, OneAtPathStep DEF SourceInv, LeaseInv
<1>2. CASE UNCHANGED vars
  <2>1. UNCHANGED <<row, bundle, claim, wk>>
    BY <1>2 DEF vars, journalVars, worldVars, workerVars
  <2> QED
    BY <1>1, <2>1, SourceStands DEF SourceInv
<1>3. CASE PipelineStep
  BY <1>1, <1>3, SourcePipeline DEF SourceInv
<1>4. CASE WorkerStep
  BY <1>1, <1>4, SourceWorker DEF SourceInv
<1>5. CASE WorldStep
  BY <1>1, <1>5, SourceWorld DEF SourceInv
<1> QED
  BY <1>2, <1>3, <1>4, <1>5 DEF Next

\* What deletes is past the barriers.
LEMMA DeletesChecked ==
    ASSUME TypeInv, NEW w \in Workers, Deletes(w), Next
    PROVE  wk[w].pc \in CheckedPcs
<1>1. wk[w].pc # "idle" /\ wk[w].item \in Attempts
  <2>1. wk[w].pc # "idle"
    BY DEF Deletes, TypeInv, WkOK, Idle
  <2> QED
    BY <2>1, ItemIsRow
<1>2. PathOf[wk[w].item] \in Paths
  BY <1>1, AttemptsAssumption
<1>3. disk' # disk /\ wk' # wk
  BY DEF Deletes
<1>4. ~PipelineStep
  BY <1>3 DEF PipelineStep, CreateAttempt, SendEnqueue, AcceptHandle, Publish, FailOver, Reimport,
     Resume, ExpirePreserved, Finalize, LinkCandidate, FailPreserving, ReapReimport, Cancel,
     worldVars
<1>5. ~WorldStep
  BY <1>3 DEF WorldStep, ClientEnqueue, Elapse, LeaseExpires, PublisherStep, RemovedByHand,
     TransferMoves, TransferEnds, Restart, worldVars, workerVars
<1>6. PICK v \in Workers : ItemStep(v)
  BY <1>3, <1>4, <1>5 DEF Next, WorkerStep, RunOnce, KillWorker, CleanupNow, Begin, worldVars
<1>7. v = w
  BY <1>6, ItemMoves DEF MovesItem, Deletes
<1>8. CASE \/ Abort(w) \/ RemoveFile(w) \/ RemoveWorkspace(w) \/ Discard(w) \/ AttentionDiscard(w)
  BY <1>8 DEF Abort, RemoveFile, RemoveWorkspace, Discard, AttentionDiscard, CheckedPcs
<1>9. CASE ~(\/ Abort(w) \/ RemoveFile(w) \/ RemoveWorkspace(w) \/ Discard(w) \/ AttentionDiscard(w))
  BY <1>3, <1>6, <1>7, <1>9
  DEF ItemStep, CheckBarriers, DeferForPublisher, Inspect, RecordEvidence, MarkRemoved,
      MarkComplete, AttentionBarriers, AttentionInspect, AttentionResume, AttentionDefer,
      UnsafeReread, UnsafeWrite, RetryReread, RetryWrite, Reread, HandlerWrite, worldVars
<1> QED
  BY <1>8, <1>9

\* Source cleanup starts only after the publication of the attempt's files is over: failover
\* to any number of candidates, cancellation, restart and reimport lose no barrier.  Assumed,
\* besides what keeps cleanup and pipelines apart: a row preserved without barriers does not
\* expire, a cancellation can list the bundles, and a task does not come back to a path where
\* it has an attempt already.
THEOREM SourceOutlivesPublicationHolds ==
    ASSUME {"batchOutlivesLease", "stopAtSwitch", "retentionExpires", "barriersUnknown",
            "pathAgain"} \intersect Admits = {}
    PROVE  Spec => SourceOutlivesPublication
<1>1. ASSUME SourceInv, Next, NEW w \in Workers, Deletes(w)
      PROVE  bundle[BundleOf[wk[w].item]] \in {"none", "completed"}
  <2>1. wk[w].pc \in CheckedPcs
    BY <1>1, DeletesChecked DEF SourceInv, LeaseInv
  <2> QED
    BY <1>1, <2>1 DEF SourceInv, Checked, Quiet
<1>2. SourceInv /\ [Next]_vars =>
         [\A w \in Workers :
             Deletes(w) => bundle[BundleOf[wk[w].item]] \in {"none", "completed"}]_vars
  BY <1>1
<1>3. Init => SourceInv
  BY SourceInvInit
<1>4. SourceInv /\ [Next]_vars => SourceInv'
  BY SourceInvStep
<1> QED
  BY <1>2, <1>3, <1>4, PTL DEF Spec, SourceOutlivesPublication

-----------------------------------------------------------------------------
(* What a row that completes leaves behind *)

Record(a) == client[PathOf[a]].state
Bytes(a) == disk[PathOf[a]]

\* The enqueue of a has yet to reach the client, if it ever will.
MaySend(a) == using[TaskOf[a]] = a /\ status[TaskOf[a]] = "active" /\ ~manifest[TaskOf[a]]
Early(a) == ~Exists(a) \/ a \in sent \/ MaySend(a)

\* The client is asked once for each attempt, so that the bytes come once.
SentOnce ==
    /\ \A t \in Tasks :
          /\ status[t] = "switching" => using[t] = NoAttempt
          /\ \A a \in Attempts : a \in {using[t], link[t]} => Exists(a)
    /\ \A a \in Attempts :
          /\ a \in sent => Exists(a) /\ ~MaySend(a)
          /\ Early(a) => Record(a) = "none" /\ Bytes(a) = NoAttempt

\* What the client said of a job that is over stays true, until the record is dropped; the
\* bytes of a failed SABnzbd job go with the record.
Over == {"completed", "failed"}
StillOver(a, found) ==
    /\ ~Early(a)
    /\ Record(a) \in {"none", IF found = "completed" THEN "finished" ELSE "failed"}
    /\ Source[a] = "usenet" /\ found = "failed" /\ Record(a) = "none" => Bytes(a) = NoAttempt

\* A worker that has found a job over, and is past the removal of the bytes, has removed them;
\* where it has pinned nothing there was nothing.
RemovesBytes(w) ==
    LET a == wk[w].item IN
    wk[w].found \in Over =>
        /\ StillOver(a, wk[w].found)
        /\ wk[w].pc \in {"evidence", "source"} /\ Source[a] = "soulseek"
           /\ claim[w][a].pin = "unpinned" => Bytes(a) = NoAttempt
        /\ wk[w].pc \in {"removed", "discard"}
           /\ (Source[a] = "soulseek" \/ wk[w].found = "completed") => Bytes(a) = NoAttempt
        /\ wk[w].pc = "complete" => Bytes(a) = NoAttempt

Finding == {"idle", "barriers", "defer", "inspect", "attention", "attentionInspect",
            "attentionDiscard", "attentionResume", "attentionDefer"}
FindsFirst(w) ==
    /\ wk[w].pc \in Finding => wk[w].found \notin Over
    /\ wk[w].pc = "abort" => wk[w].found = "active"

CleanInv == SentOnce /\ \A w \in Workers : FindsFirst(w) /\ RemovesBytes(w)

\* No two attempts lie at one path.
OwnPaths == \A a, b \in Attempts : PathOf[a] = PathOf[b] => a = b

\* A record of a job and its bytes can only go, and those of a failed SABnzbd job together.
Shrinks(a) ==
    /\ Record(a)' \in {"none", Record(a)}
    /\ Bytes(a)' \in {NoAttempt, Bytes(a)}
    /\ Source[a] = "usenet" /\ Record(a) = "failed" /\ Record(a)' = "none" => Bytes(a)' = NoAttempt

\* So they do for an attempt that is not early, once its job is over.
Lasts(a) ==
    ~Early(a) => ~Early(a)' /\ (Record(a) \in {"none", "finished", "failed"} => Shrinks(a))

-----------------------------------------------------------------------------

LEMMA SameShrinks ==
    ASSUME UNCHANGED <<client, disk>>, NEW a \in Attempts
    PROVE  Shrinks(a)
BY DEF Shrinks, Record, Bytes

LEMMA DropShrinks ==
    ASSUME TypeInv, OwnPaths, NEW a \in Attempts, NEW b \in Attempts, NEW withBytes \in BOOLEAN,
           DropRecord(b, withBytes),
           Source[b] = "usenet" /\ Record(b) = "failed" => withBytes
    PROVE  Shrinks(a)
<1>1. PathOf[a] \in Paths /\ PathOf[b] \in Paths
  BY AttemptsAssumption
<1>2. client' = [client EXCEPT ![PathOf[b]] = NoRecord]
  BY DEF DropRecord
<1>3. disk' = IF withBytes THEN [disk EXCEPT ![PathOf[b]] = NoAttempt] ELSE disk
  BY DEF DropRecord
<1>4. client \in [Paths -> Records] /\ disk \in [Paths -> Attempts \union {NoAttempt}]
  BY DEF TypeInv, WorldOK
<1>5. CASE a = b
  BY <1>1, <1>2, <1>3, <1>4, <1>5 DEF Shrinks, Record, Bytes, NoRecord
<1>6. CASE a # b
  <2>1. PathOf[a] # PathOf[b]
    BY <1>6 DEF OwnPaths
  <2>2. client'[PathOf[a]] = client[PathOf[a]] /\ disk'[PathOf[a]] = disk[PathOf[a]]
    BY <1>1, <1>2, <1>3, <1>4, <2>1
  <2> QED BY <2>2 DEF Shrinks, Record, Bytes
<1> QED BY <1>5, <1>6

LEMMA UnlinkShrinks ==
    ASSUME TypeInv, NEW a \in Attempts, NEW b \in Attempts, UNCHANGED client,
           disk' = [disk EXCEPT ![PathOf[b]] = NoAttempt]
    PROVE  Shrinks(a)
BY AttemptsAssumption DEF Shrinks, Record, Bytes, TypeInv, WorldOK

LEMMA DiscardShrinks ==
    ASSUME TypeInv, OwnPaths, NEW a \in Attempts, NEW b \in Attempts, Discarded(b)
    PROVE  Shrinks(a)
<1>1. CASE UNCHANGED worldVars
  BY <1>1, SameShrinks DEF worldVars
<1>2. CASE DropRecord(b, Source[b] = "usenet" /\ Record(b) = "failed")
  BY <1>2, DropShrinks
<1> QED BY <1>1, <1>2 DEF Discarded, Record

LEMMA ItemShrinks ==
    ASSUME TypeInv, OwnPaths, NEW w \in Workers, ItemStep(w), NEW a \in Attempts
    PROVE  Shrinks(a) /\ UNCHANGED <<sent, taskVars>>
<1> DEFINE b == wk[w].item
<1>1. b \in Attempts /\ UNCHANGED taskVars
  BY ItemMoves, ItemIsRow
<1>2. CASE Abort(w)
  <2>1. CASE UNCHANGED worldVars
    BY <2>1, SameShrinks, <1>1 DEF worldVars
  <2>2. CASE \E withBytes \in BOOLEAN : /\ DropRecord(b, withBytes) /\ UNCHANGED <<bundle, sent>>
                                        /\ Source[b] = "usenet" => withBytes
    BY <1>1, <2>2, DropShrinks
  <2> QED BY <1>2, <2>1, <2>2 DEF Abort
<1>3. CASE RemoveFile(w) \/ RemoveWorkspace(w)
  <2>1. UNCHANGED <<client, sent>>
    BY <1>3 DEF RemoveFile, RemoveWorkspace
  <2>2. UNCHANGED disk \/ disk' = [disk EXCEPT ![PathOf[b]] = NoAttempt]
    BY <1>3 DEF RemoveFile, RemoveWorkspace
  <2> QED BY <1>1, <2>1, <2>2, SameShrinks, UnlinkShrinks
<1>4. CASE Discard(w) \/ AttentionDiscard(w)
  <2>1. UNCHANGED worldVars \/ Discarded(b)
    BY <1>4 DEF Discard, AttentionDiscard
  <2>2. UNCHANGED sent
    BY <2>1 DEF Discarded, worldVars
  <2> QED BY <1>1, <2>1, <2>2, SameShrinks, DiscardShrinks DEF worldVars
<1>5. CASE ~(Abort(w) \/ RemoveFile(w) \/ RemoveWorkspace(w) \/ Discard(w) \/ AttentionDiscard(w))
  <2>1. UNCHANGED worldVars
    BY <1>5 DEF ItemStep, CheckBarriers, DeferForPublisher, Inspect, RecordEvidence, MarkRemoved,
         MarkComplete, AttentionBarriers, AttentionInspect, AttentionResume, AttentionDefer,
         UnsafeReread, UnsafeWrite, RetryReread, RetryWrite, Reread, HandlerWrite
  <2> QED BY <1>1, <2>1, SameShrinks DEF worldVars
<1> QED BY <1>2, <1>3, <1>4, <1>5

LEMMA PipelineShrinks ==
    ASSUME TypeInv, OwnPaths, PipelineStep, NEW a \in Attempts
    PROVE  Shrinks(a)
<1>1. ASSUME NEW b \in Attempts, FailOver(b)
      PROVE  Shrinks(a)
  <2>1. disk' = disk
    BY <1>1 DEF FailOver
  <2>2. \/ client' = client
        \/ Source[b] # "usenet" /\ client' = [client EXCEPT ![PathOf[b]] = NoRecord]
    BY <1>1 DEF FailOver
  <2>3. CASE client' = client
    BY <2>1, <2>3, SameShrinks
  <2>4. CASE Source[b] # "usenet" /\ client' = [client EXCEPT ![PathOf[b]] = NoRecord]
    <3>1. DropRecord(b, FALSE)
      BY <2>1, <2>4 DEF DropRecord
    <3> QED BY <2>4, <3>1, DropShrinks
  <2> QED BY <2>2, <2>3, <2>4
<1>2. CASE ~\E b \in Attempts : FailOver(b)
  <2>1. UNCHANGED <<client, disk>>
    BY <1>2 DEF PipelineStep, CreateAttempt, SendEnqueue, AcceptHandle, Publish, Reimport, Resume,
         ExpirePreserved, Finalize, LinkCandidate, FailPreserving, ReapReimport, Cancel, worldVars
  <2> QED BY <2>1, SameShrinks
<1> QED BY <1>1, <1>2

-----------------------------------------------------------------------------

\* Only a new attempt may be sent that might not be sent before.
TaskSide ==
    /\ \A t \in Tasks :
          /\ status'[t] = "switching" => using'[t] = NoAttempt
          /\ \A a \in Attempts : a \in {using'[t], link'[t]} => Exists(a)'
    /\ \A a \in Attempts : MaySend(a)' => (MaySend(a) \/ ~Exists(a)) /\ a \notin sent'
    /\ \A a \in Attempts : a \in sent' => a \in sent \/ MaySend(a)
    /\ \A a \in Attempts : Exists(a) => Exists(a)'

LEMMA RowsStay ==
    ASSUME TypeInv, KeepsRows
    PROVE  \A a \in Attempts : Exists(a) => Exists(a)'
BY NoRowIsNoRow DEF KeepsRows, TypeInv, JournalOK, Exists

LEMMA TaskSame ==
    ASSUME TypeInv, TypeInv', KeepsRows, SentOnce, UNCHANGED <<status, using, link, manifest>>,
           sent' \subseteq sent
    PROVE  TaskSide
<1>1. \A a \in Attempts : Exists(a) => Exists(a)'
  BY RowsStay
<1>2. \A a \in Attempts : MaySend(a)' <=> MaySend(a)
  BY DEF MaySend
<1> QED BY <1>1, <1>2 DEF TaskSide, SentOnce

\* One task takes up an attempt, or lets go of it.
LEMMA TaskMoves ==
    ASSUME TypeInv, SentOnce, \A a \in Attempts : Exists(a) => Exists(a)', sent' = sent,
           NEW t \in Tasks,
           \A u \in Tasks \ {t} : /\ status'[u] = status[u] /\ using'[u] = using[u]
                                  /\ link'[u] = link[u] /\ manifest'[u] = manifest[u],
           status'[t] = "switching" => using'[t] = NoAttempt,
           \A a \in Attempts : a \in {using'[t], link'[t]} => Exists(a)',
           \A a \in Attempts : /\ TaskOf[a] = t /\ using'[t] = a
                               /\ status'[t] = "active" /\ ~manifest'[t]
                               => MaySend(a) \/ ~Exists(a)
    PROVE  TaskSide
<1>1. ASSUME NEW a \in Attempts, MaySend(a)'
      PROVE  MaySend(a) \/ ~Exists(a)
  <2>1. TaskOf[a] \in Tasks
    BY AttemptsAssumption
  <2>2. CASE TaskOf[a] = t
    BY <1>1, <2>2 DEF MaySend
  <2>3. CASE TaskOf[a] # t
    BY <1>1, <2>1, <2>3 DEF MaySend
  <2> QED BY <2>2, <2>3
<1>2. \A u \in Tasks : /\ status'[u] = "switching" => using'[u] = NoAttempt
                       /\ \A a \in Attempts : a \in {using'[u], link'[u]} => Exists(a)'
  BY DEF SentOnce
<1>3. \A a \in Attempts : MaySend(a)' => a \notin sent'
  BY <1>1 DEF SentOnce
<1> QED BY <1>1, <1>2, <1>3 DEF TaskSide

LEMMA PipelineSide ==
    ASSUME TypeInv, TypeInv', KeepsRows, SentOnce, PipelineStep
    PROVE  TaskSide
<1>0. \A a \in Attempts : Exists(a) => Exists(a)'
  BY RowsStay
<1>1. \A a \in Attempts : TaskOf[a] \in Tasks
  BY AttemptsAssumption
<1> USE AttemptsAssumption
<1>2. ASSUME NEW b \in Attempts, SendEnqueue(b)
      PROVE  TaskSide
  <2>1. /\ manifest' = [manifest EXCEPT ![TaskOf[b]] = TRUE] /\ sent' = sent \union {b}
        /\ UNCHANGED <<row, status, using, link>> /\ MaySend(b)
    BY <1>2 DEF SendEnqueue, MaySend, journalVars
  <2>2. \A a \in Attempts : MaySend(a)' => MaySend(a) /\ a # b
    BY <2>1, <1>1 DEF MaySend, TypeInv, TaskOK
  <2>3. \A a \in Attempts : Exists(a)' <=> Exists(a)
    BY <2>1 DEF Exists
  <2> QED BY <2>1, <2>2, <2>3 DEF TaskSide, SentOnce
<1>3. ASSUME NEW b \in Attempts, AcceptHandle(b) \/ Publish(b) \/ ExpirePreserved(b)
      PROVE  TaskSide
  BY <1>3, TaskSame DEF AcceptHandle, Publish, ExpirePreserved, taskVars, worldVars
<1>4. ASSUME NEW b \in Attempts, CreateAttempt(b)
      PROVE  TaskSide
  <2>1. /\ ~Exists(b) /\ sent' = sent /\ status' = status /\ manifest' = manifest
        /\ status[TaskOf[b]] = "active"
        /\ using' = [using EXCEPT ![TaskOf[b]] = b] /\ link' = [link EXCEPT ![TaskOf[b]] = b]
    BY <1>4 DEF CreateAttempt, worldVars
  <2>2. Exists(b)'
    BY <1>4, NewRowIsRow, NoRowIsNoRow DEF CreateAttempt, Write, Exists, TypeInv, JournalOK
  <2>3. using'[TaskOf[b]] = b /\ link'[TaskOf[b]] = b
    BY <2>1, <1>1 DEF TypeInv, TaskOK
  <2>4. \A u \in Tasks \ {TaskOf[b]} : using'[u] = using[u] /\ link'[u] = link[u]
    BY <2>1 DEF TypeInv, TaskOK
  <2> QED BY <1>0, <1>1, <2>1, <2>2, <2>3, <2>4, TaskMoves
<1>5. ASSUME NEW b \in Attempts, FailOver(b)
      PROVE  TaskSide
  <2>1. /\ sent' = sent /\ manifest' = manifest /\ link' = link
        /\ using' = [using EXCEPT ![TaskOf[b]] = NoAttempt]
        /\ status' = [status EXCEPT ![TaskOf[b]] = "switching"]
    BY <1>5 DEF FailOver
  <2>2. /\ using'[TaskOf[b]] = NoAttempt
        /\ \A u \in Tasks \ {TaskOf[b]} : using'[u] = using[u] /\ status'[u] = status[u]
    BY <2>1, <1>1 DEF TypeInv, TaskOK
  <2>3. \A a \in Attempts : a \in {using'[TaskOf[b]], link'[TaskOf[b]]} => Exists(a)'
    BY <2>1, <2>2, <1>0, <1>1 DEF SentOnce
  <2> QED BY <1>0, <1>1, <2>1, <2>2, <2>3, TaskMoves
<1>6. ASSUME NEW b \in Attempts, NEW final \in TerminalStatuses, Finalize(b, final)
      PROVE  TaskSide
  <2>1. /\ sent' = sent /\ link' = link
        /\ manifest' \in {manifest, [manifest EXCEPT ![TaskOf[b]] = FALSE]}
        /\ using' = [using EXCEPT ![TaskOf[b]] = NoAttempt]
        /\ status' = [status EXCEPT ![TaskOf[b]] = final]
    BY <1>6 DEF Finalize, worldVars
  <2>2. /\ using'[TaskOf[b]] = NoAttempt
        /\ \A u \in Tasks \ {TaskOf[b]} :
              using'[u] = using[u] /\ status'[u] = status[u] /\ manifest'[u] = manifest[u]
    BY <2>1, <1>1 DEF TypeInv, TaskOK
  <2>3. \A a \in Attempts : a \in {using'[TaskOf[b]], link'[TaskOf[b]]} => Exists(a)'
    BY <2>1, <2>2, <1>0, <1>1 DEF SentOnce
  <2> QED BY <1>0, <1>1, <2>1, <2>2, <2>3, TaskMoves
<1>7. ASSUME NEW b \in Attempts, Reimport(b)
      PROVE  TaskSide
  <2>1. /\ sent' = sent /\ manifest' = manifest
        /\ status' = [status EXCEPT ![TaskOf[b]] = "reimporting"]
        /\ using' = [using EXCEPT ![TaskOf[b]] = b] /\ link' = [link EXCEPT ![TaskOf[b]] = b]
    BY <1>7 DEF Reimport, worldVars
  <2>2. Exists(b)'
    <3>1. CASE Exists(b)
      BY <1>0, <3>1
    <3>2. CASE ~Exists(b)
      <4>1. Write(b, [NewRow EXCEPT !.state = "in_use"], {})
        BY <1>7, <3>2 DEF Reimport, InState
      <4> QED BY <4>1, NewRowIsRow, NoRowIsNoRow DEF Write, Exists, TypeInv, JournalOK
    <3> QED BY <3>1, <3>2
  <2>3. /\ status'[TaskOf[b]] = "reimporting"
        /\ using'[TaskOf[b]] = b /\ link'[TaskOf[b]] = b
    BY <2>1, <1>1 DEF TypeInv, TaskOK
  <2>4. \A u \in Tasks \ {TaskOf[b]} :
           using'[u] = using[u] /\ link'[u] = link[u] /\ status'[u] = status[u]
    BY <2>1 DEF TypeInv, TaskOK
  <2>5. status'[TaskOf[b]] \notin {"switching", "active"}
    BY <2>3
  <2>6. \A a \in {using'[TaskOf[b]], link'[TaskOf[b]]} : Exists(a)'
    BY <2>2, <2>3
  <2> QED BY <1>0, <1>1, <2>1, <2>4, <2>5, <2>6, TaskMoves
<1>8. ASSUME NEW b \in Attempts, Resume(b)
      PROVE  TaskSide
  <2>1. /\ sent' = sent /\ manifest' = manifest /\ status' = status /\ link' = link
        /\ using' = [using EXCEPT ![TaskOf[b]] = b]
        /\ status[TaskOf[b]] = "active" /\ manifest[TaskOf[b]] /\ link[TaskOf[b]] = b
    BY <1>8 DEF Resume, worldVars
  <2>2. Exists(b)'
    BY <1>0, <1>1, <2>1 DEF SentOnce
  <2>3. /\ using'[TaskOf[b]] = b
        /\ \A u \in Tasks \ {TaskOf[b]} : using'[u] = using[u]
    BY <2>1, <1>1 DEF TypeInv, TaskOK
  <2>4. \A a \in {using'[TaskOf[b]], link'[TaskOf[b]]} : Exists(a)'
    BY <2>1, <2>2, <2>3
  <2>5. status'[TaskOf[b]] # "switching" /\ manifest'[TaskOf[b]]
    BY <2>1
  <2> QED BY <1>0, <1>1, <2>1, <2>3, <2>4, <2>5, TaskMoves
<1>9. ASSUME NEW t \in Tasks, LinkCandidate(t)
      PROVE  TaskSide
  <2>1. /\ sent' = sent /\ using' = using /\ status[t] = "switching"
        /\ manifest' = [manifest EXCEPT ![t] = FALSE] /\ link' = [link EXCEPT ![t] = NoAttempt]
        /\ status' = [status EXCEPT ![t] = "active"]
    BY <1>9 DEF LinkCandidate, worldVars
  <2>2. using[t] = NoAttempt
    BY <2>1 DEF SentOnce
  <2>3. /\ link'[t] = NoAttempt
        /\ \A u \in Tasks \ {t} :
              link'[u] = link[u] /\ status'[u] = status[u] /\ manifest'[u] = manifest[u]
    BY <2>1 DEF TypeInv, TaskOK
  <2>4. \A a \in Attempts : a \notin {using'[t], link'[t]}
    BY <2>1, <2>2, <2>3
  <2>5. status'[t] # "switching"
    BY <2>1 DEF TypeInv, TaskOK
  <2> QED BY <1>0, <2>1, <2>3, <2>4, <2>5, TaskMoves
<1>10. ASSUME NEW t \in Tasks, FailPreserving(t) \/ ReapReimport(t) \/ Cancel(t)
       PROVE  TaskSide
  <2>1. /\ sent' = sent /\ link' = link
        /\ manifest' \in {manifest, [manifest EXCEPT ![t] = FALSE]}
        /\ using' \in {using, [using EXCEPT ![t] = NoAttempt]}
        /\ \E final \in {"failed", "cancelled"} : status' = [status EXCEPT ![t] = final]
    BY <1>10 DEF FailPreserving, ReapReimport, Cancel, worldVars
  <2>2. /\ using'[t] \in {using[t], NoAttempt} /\ status'[t] \in {"failed", "cancelled"}
        /\ \A u \in Tasks \ {t} :
              using'[u] = using[u] /\ status'[u] = status[u] /\ manifest'[u] = manifest[u]
    BY <2>1 DEF TypeInv, TaskOK
  <2>3. \A a \in Attempts : a \in {using'[t], link'[t]} => Exists(a)'
    BY <2>1, <2>2, <1>0 DEF SentOnce
  <2> QED BY <1>0, <2>1, <2>2, <2>3, TaskMoves
<1> QED BY <1>2, <1>3, <1>4, <1>5, <1>6, <1>7, <1>8, <1>9, <1>10 DEF PipelineStep

\* An enqueue that arrives, or a transfer that goes on, is of an early attempt or of a job that
\* is not over.
LEMMA ArrivalLasts ==
    ASSUME TypeInv, SentOnce, OwnPaths, NEW b \in Attempts, ClientEnqueue(b), NEW a \in Attempts
    PROVE  /\ Early(a)' => Early(a) /\ Shrinks(a)
           /\ Lasts(a)
<1>1. PathOf[a] \in Paths /\ PathOf[b] \in Paths
  BY AttemptsAssumption
<1>2. /\ b \in sent /\ sent' = sent \ {b} /\ disk' = disk
      /\ client' = [client EXCEPT ![PathOf[b]] = [state |-> "active", by |-> b]]
      /\ UNCHANGED <<row, status, using, link, manifest>>
  BY DEF ClientEnqueue, journalVars, taskVars
<1>3. (MaySend(a)' <=> MaySend(a)) /\ (Exists(a)' <=> Exists(a))
  BY <1>2 DEF MaySend, Exists
<1>4. Early(b) /\ ~Early(b)'
  <2>1. Exists(b) /\ ~MaySend(b)
    BY <1>2 DEF SentOnce
  <2> QED BY <1>2, <2>1 DEF Early, MaySend, Exists
<1>5. CASE a = b
  BY <1>4, <1>5 DEF Lasts
<1>6. CASE a # b
  <2>1. PathOf[a] # PathOf[b]
    BY <1>6 DEF OwnPaths
  <2>2. client'[PathOf[a]] = client[PathOf[a]]
    BY <1>1, <1>2, <2>1 DEF TypeInv, WorldOK
  <2>3. Shrinks(a)
    BY <1>2, <2>2 DEF Shrinks, Record, Bytes
  <2>4. Early(a)' <=> Early(a)
    BY <1>2, <1>3, <1>6 DEF Early
  <2> QED BY <2>3, <2>4 DEF Lasts
<1> QED BY <1>5, <1>6

LEMMA TransferLasts ==
    ASSUME TypeInv, SentOnce, NEW p \in Paths, TransferMoves(p) \/ TransferEnds(p),
           NEW a \in Attempts
    PROVE  /\ Early(a)' => Early(a) /\ Shrinks(a)
           /\ Lasts(a)
<1>1. PathOf[a] \in Paths
  BY AttemptsAssumption
<1>2. /\ client[p].state \in {"active", "moving"}
      /\ \E state : client' = [client EXCEPT ![p].state = state]
      /\ UNCHANGED <<row, status, using, link, manifest, sent>>
  BY DEF TransferMoves, TransferEnds, journalVars, taskVars
<1>3. disk' = disk \/ \E other : disk' = [disk EXCEPT ![p] = other]
  BY DEF TransferMoves, TransferEnds
<1>4. Early(a)' <=> Early(a)
  BY <1>2 DEF Early, MaySend, Exists
<1>5. CASE PathOf[a] = p
  <2>1. Record(a) \in {"active", "moving"}
    BY <1>2, <1>5 DEF Record
  <2>2. ~Early(a)
    BY <2>1 DEF SentOnce
  <2> QED BY <1>4, <2>1, <2>2 DEF Lasts
<1>6. CASE PathOf[a] # p
  <2>1. client'[PathOf[a]] = client[PathOf[a]] /\ disk'[PathOf[a]] = disk[PathOf[a]]
    BY <1>1, <1>2, <1>3, <1>6 DEF TypeInv, WorldOK
  <2>2. Shrinks(a)
    BY <2>1 DEF Shrinks, Record, Bytes
  <2> QED BY <1>4, <2>2 DEF Lasts
<1> QED BY <1>5, <1>6

\* Every other step only takes bytes away.
LEMMA ShrinkingLasts ==
    ASSUME TypeInv, SentOnce, TaskSide, NEW a \in Attempts, Shrinks(a)
    PROVE  /\ Early(a)' => Early(a) /\ Shrinks(a)
           /\ Lasts(a)
BY DEF TaskSide, Early, Lasts

LEMMA OnceStep ==
    ASSUME TypeInv, TypeInv', KeepsRows, SentOnce, OwnPaths, [Next]_vars
    PROVE  SentOnce' /\ \A a \in Attempts : Lasts(a)
<1> DEFINE Goal == /\ TaskSide
                   /\ \A a \in Attempts : (Early(a)' => Early(a) /\ Shrinks(a)) /\ Lasts(a)
<1>0. ASSUME UNCHANGED <<status, using, link, manifest>>, sent' = sent,
             \A a \in Attempts : Shrinks(a)
      PROVE  Goal
  <2>1. TaskSide
    BY <1>0, TaskSame
  <2> QED BY <1>0, <2>1, ShrinkingLasts
<1>1. Goal
  <2>1. CASE PipelineStep
    BY <2>1, PipelineSide, PipelineShrinks, ShrinkingLasts
  <2>2. ASSUME NEW w \in Workers, ItemStep(w)
        PROVE  Goal
    <3>1. UNCHANGED <<status, using, link, manifest>> /\ sent' = sent
      BY <2>2, ItemShrinks, ItemMoves, ItemIsRow DEF taskVars
    <3> QED BY <2>2, <3>1, <1>0, ItemShrinks
  <2>3. CASE UNCHANGED <<status, using, link, manifest, worldVars>>
    BY <2>3, <1>0, SameShrinks DEF worldVars
  <2>4. CASE WorkerStep
    <3>1. CASE \E w \in Workers : ItemStep(w)
      BY <2>2, <3>1
    <3>2. CASE ~\E w \in Workers : ItemStep(w)
      <4>1. UNCHANGED <<status, using, link, manifest, worldVars>>
        BY <2>4, <3>2 DEF WorkerStep, RunOnce, KillWorker, CleanupNow, Begin, taskVars
      <4> QED BY <2>3, <4>1
    <3> QED BY <3>1, <3>2
  <2>5. ASSUME NEW b \in Attempts, ClientEnqueue(b)
        PROVE  Goal
    <3>1. UNCHANGED <<status, using, link, manifest>> /\ sent' \subseteq sent
      BY <2>5 DEF ClientEnqueue, taskVars
    <3> QED BY <2>5, <3>1, TaskSame, ArrivalLasts
  <2>6. ASSUME NEW p \in Paths, TransferMoves(p) \/ TransferEnds(p)
        PROVE  Goal
    <3>1. UNCHANGED <<status, using, link, manifest>> /\ sent' \subseteq sent
      BY <2>6 DEF TransferMoves, TransferEnds, taskVars
    <3> QED BY <2>6, <3>1, TaskSame, TransferLasts
  <2>7. ASSUME NEW b \in Attempts, Elapse(b) \/ LeaseExpires(b)
        PROVE  Goal
    BY <2>3, <2>7 DEF Elapse, LeaseExpires, taskVars
  <2>8. ASSUME NEW b \in Attempts, PublisherStep(b)
        PROVE  Goal
    <3>1. UNCHANGED <<status, using, link, manifest, sent, client, disk>>
      BY <2>8 DEF PublisherStep, taskVars
    <3> QED BY <3>1, <1>0, SameShrinks
  <2>9. CASE Restart
    <3>1. /\ UNCHANGED <<link, manifest, sent, client, disk>>
          /\ \A t \in Tasks : using'[t] = NoAttempt /\ status'[t] # "switching"
      BY <2>9 DEF Restart, worldVars
    <3>2. \A a \in Attempts : ~MaySend(a)'
      BY <3>1, AttemptsAssumption DEF MaySend
    <3>3. TaskSide
      BY <3>1, <3>2, RowsStay, AttemptsAssumption DEF TaskSide, SentOnce
    <3> QED BY <3>1, <3>3, SameShrinks, ShrinkingLasts
  <2>10. CASE UNCHANGED vars
    BY <2>3, <2>10 DEF vars, taskVars
  <2>11. ASSUME NEW b \in Attempts, RemovedByHand(b)
         PROVE  Goal
    <3>1. UNCHANGED <<status, using, link, manifest, sent, client>>
      BY <2>11 DEF RemovedByHand, taskVars
    <3> QED BY <2>11, <3>1, <1>0, UnlinkShrinks DEF RemovedByHand
  <2> QED BY <2>1, <2>4, <2>5, <2>6, <2>7, <2>8, <2>9, <2>10, <2>11 DEF Next, WorldStep
<1>2. \A a \in Attempts : Early(a)' => Record(a)' = "none" /\ Bytes(a)' = NoAttempt
  BY <1>1 DEF SentOnce, Shrinks
<1>3. \A a \in Attempts : a \in sent' => Exists(a)' /\ ~MaySend(a)'
  <2> SUFFICES ASSUME NEW a \in Attempts, a \in sent'
               PROVE  Exists(a)' /\ ~MaySend(a)'
    OBVIOUS
  <2>1. ~MaySend(a)'
    BY <1>1 DEF TaskSide
  <2>2. Exists(a)
    <3>1. TaskOf[a] \in Tasks
      BY AttemptsAssumption
    <3> QED BY <1>1, <3>1 DEF TaskSide, SentOnce, MaySend
  <2> QED BY <1>1, <2>1, <2>2 DEF TaskSide
<1> QED BY <1>1, <1>2, <1>3 DEF TaskSide, SentOnce

-----------------------------------------------------------------------------
(* What the workers have found *)

LEMMA StillOverLasts ==
    ASSUME NEW a, NEW found, StillOver(a, found), Lasts(a)
    PROVE  StillOver(a, found)' /\ (Bytes(a) = NoAttempt => Bytes(a)' = NoAttempt)
BY DEF StillOver, Lasts, Shrinks

LEMMA OverItem ==
    ASSUME TypeInv, NEW w \in Workers, wk[w].found \in Over
    PROVE  wk[w].item \in Attempts /\ wk[w].pc # "idle"
BY DEF TypeInv, WkOK, Idle, Over

\* A worker whose job is over, at its next step.
LEMMA NextOver ==
    ASSUME NEW w, NEW a, NEW found \in Over, NEW pc,
           wk'[w].item = a, wk'[w].found = found, wk'[w].pc = pc,
           StillOver(a, found)', pc \notin Finding, pc # "abort",
           pc \in {"evidence", "source"} /\ Source[a] = "soulseek"
              /\ claim'[w][a].pin = "unpinned" => Bytes(a)' = NoAttempt,
           pc \in {"removed", "discard"} /\ (Source[a] = "soulseek" \/ found = "completed")
              => Bytes(a)' = NoAttempt,
           pc = "complete" => Bytes(a)' = NoAttempt
    PROVE  FindsFirst(w)' /\ RemovesBytes(w)'
<1>1. FindsFirst(w)'
  BY DEF FindsFirst, Over
<1>2. RemovesBytes(w)'
  BY DEF RemovesBytes
<1> QED BY <1>1, <1>2

LEMMA NextNotOver ==
    ASSUME NEW w, wk'[w].found \notin Over, wk'[w].pc # "abort"
    PROVE  FindsFirst(w)' /\ RemovesBytes(w)'
BY DEF FindsFirst, RemovesBytes

\* Who does not move keeps what it knows.
LEMMA OthersFind ==
    ASSUME TypeInv, NEW w \in Workers, FindsFirst(w), RemovesBytes(w), \A a \in Attempts : Lasts(a),
           wk'[w] = wk[w],
           wk[w].pc \in {"evidence", "source"} =>
              claim'[w][wk[w].item].pin = claim[w][wk[w].item].pin
    PROVE  FindsFirst(w)' /\ RemovesBytes(w)'
<1>1. CASE wk[w].found \in Over
  <2>1. PICK a, found, pc : a = wk[w].item /\ found = wk[w].found /\ pc = wk[w].pc
    OBVIOUS
  <2>2. a \in Attempts /\ Lasts(a)
    BY <1>1, <2>1, OverItem
  <2>3. /\ StillOver(a, found) /\ pc \notin Finding /\ pc # "abort" /\ found \in Over
        /\ pc \in {"evidence", "source"} /\ Source[a] = "soulseek"
              /\ claim[w][a].pin = "unpinned" => Bytes(a) = NoAttempt
        /\ pc \in {"removed", "discard"} /\ (Source[a] = "soulseek" \/ found = "completed")
              => Bytes(a) = NoAttempt
        /\ pc = "complete" => Bytes(a) = NoAttempt
    BY <1>1, <2>1 DEF RemovesBytes, FindsFirst, Over
  <2>4. StillOver(a, found)' /\ (Bytes(a) = NoAttempt => Bytes(a)' = NoAttempt)
    BY <2>2, <2>3, StillOverLasts
  <2>5. wk'[w].item = a /\ wk'[w].found = found /\ wk'[w].pc = pc
    BY <2>1
  <2>6. pc \in {"evidence", "source"} => claim'[w][a].pin = claim[w][a].pin
    BY <2>1
  <2> QED BY <2>3, <2>4, <2>5, <2>6, NextOver
<1>2. CASE wk[w].found \notin Over
  BY <1>2 DEF FindsFirst, RemovesBytes
<1> QED BY <1>1, <1>2

\* Where Goto and Raise leave a worker.
LEMMA WhereNext ==
    ASSUME TypeInv, NEW w \in Workers, NEW pc,
           Goto(w, pc) \/ \E code : Raise(w, pc, code)
    PROVE  wk'[w].pc = pc /\ wk'[w].item = wk[w].item /\ wk'[w].found = wk[w].found
<1>1. wk[w] \in Wks /\ wk \in [Workers -> Wks]
  BY DEF TypeInv, WkOK
<1>2. CASE Goto(w, pc)
  <2>1. wk'[w] = [wk[w] EXCEPT !.pc = pc]
    BY <1>1, <1>2 DEF Goto
  <2> QED BY <1>1, <2>1 DEF Wks
<1>3. ASSUME NEW code, Raise(w, pc, code)
      PROVE  wk'[w].pc = pc /\ wk'[w].item = wk[w].item /\ wk'[w].found = wk[w].found
  <2>1. wk'[w] = [wk[w] EXCEPT !.pc = pc, !.code = code]
    BY <1>1, <1>3 DEF Raise
  <2> QED BY <1>1, <2>1 DEF Wks
<1> QED BY <1>2, <1>3

\* An item set aside, retried or done asks nothing more than that its job is over.
Leaves(w) ==
    \/ wk'[w] = Idle
    \/ /\ wk'[w].pc \in {"unsafe", "unsafeWrite", "retry", "retryWrite"}
       /\ wk'[w].item = wk[w].item /\ wk'[w].found = wk[w].found

LEMMA LeavingFinds ==
    ASSUME TypeInv, NEW w \in Workers, RemovesBytes(w), \A a \in Attempts : Lasts(a), Leaves(w)
    PROVE  FindsFirst(w)' /\ RemovesBytes(w)'
<1>1. CASE wk'[w] = Idle
  <2>1. wk'[w].found \notin Over /\ wk'[w].pc # "abort"
    BY <1>1 DEF Idle, Over
  <2> QED BY <2>1, NextNotOver
<1>2. CASE wk'[w].found \notin Over /\ wk'[w] # Idle
  BY <1>2, NextNotOver DEF Leaves
<1>3. CASE wk'[w].found \in Over /\ wk'[w] # Idle
  <2>1. PICK a, found, pc : a = wk'[w].item /\ found = wk'[w].found /\ pc = wk'[w].pc
    OBVIOUS
  <2>2. a = wk[w].item /\ found = wk[w].found
        /\ pc \in {"unsafe", "unsafeWrite", "retry", "retryWrite"}
    BY <1>3, <2>1 DEF Leaves
  <2>3. a \in Attempts /\ Lasts(a) /\ found \in Over
    BY <1>3, <2>1, <2>2, OverItem
  <2>4. StillOver(a, found)
    BY <2>2, <2>3 DEF RemovesBytes
  <2>5. StillOver(a, found)'
    BY <2>3, <2>4, StillOverLasts
  <2>6. pc \notin Finding \union {"abort", "evidence", "source", "removed", "discard", "complete"}
    BY <2>2 DEF Finding
  <2> QED BY <2>1, <2>3, <2>5, <2>6, NextOver
<1> QED BY <1>1, <1>2, <1>3

\* A worker without a job that is over has nothing to remember.
LEMMA FindingFinds ==
    ASSUME TypeInv, NEW w \in Workers, wk[w].found \notin Over, NEW pc, pc # "abort",
           Goto(w, pc) \/ \E code : Raise(w, pc, code)
    PROVE  FindsFirst(w)' /\ RemovesBytes(w)'
BY WhereNext, NextNotOver

LEMMA RaisingLeaves ==
    ASSUME TypeInv, NEW w \in Workers, Retryable(w) \/ \E code : Unsafe(w, code)
    PROVE  Leaves(w)
<1>1. CASE Retryable(w)
  <2>1. \E code : Raise(w, "retry", code)
    BY <1>1 DEF Retryable
  <2> QED BY <2>1, WhereNext DEF Leaves
<1>2. CASE \E code : Unsafe(w, code)
  <2>1. \E code : Raise(w, "unsafe", code)
    BY <1>2 DEF Unsafe
  <2> QED BY <2>1, WhereNext DEF Leaves
<1> QED BY <1>1, <1>2

LEMMA FinishingLeaves ==
    ASSUME TypeInv, NEW w \in Workers, Finish(w) \/ \E r : CasFinish(w, r)
    PROVE  Leaves(w)
<1>1. CASE Finish(w)
  <2>1. wk'[w] = Idle
    BY <1>1 DEF Finish, TypeInv, WkOK
  <2> QED BY <2>1 DEF Leaves
<1>2. CASE Retryable(w)
  BY <1>2, RaisingLeaves
<1> QED BY <1>1, <1>2 DEF CasFinish

LEMMA CasWhere ==
    ASSUME TypeInv, NEW w \in Workers, wk[w].item \in Attempts, NEW r, NEW pc, Cas(w, r, pc)
    PROVE  \/ Leaves(w)
           \/ Goto(w, pc) /\ claim'[w][wk[w].item] = r
<1>1. CASE w \in current[wk[w].item]
  <2>1. Goto(w, pc) /\ claim' = [claim EXCEPT ![w] = [claim[w] EXCEPT ![wk[w].item] = r]]
    BY <1>1 DEF Cas
  <2> QED BY <2>1 DEF TypeInv, ClaimOK
<1>2. CASE w \notin current[wk[w].item]
  BY <1>2, RaisingLeaves DEF Cas
<1> QED BY <1>1, <1>2

\* A worker that goes on to the next step of a job that is over.
LEMMA GoingOn ==
    ASSUME TypeInv, NEW w \in Workers, FindsFirst(w), RemovesBytes(w),
           \A a \in Attempts : Lasts(a), NEW pc, Goto(w, pc), pc # "abort",
           wk[w].found \in Over =>
              /\ pc \notin Finding
              /\ pc \in {"evidence", "source"} /\ Source[wk[w].item] = "soulseek"
                    /\ claim'[w][wk[w].item].pin = "unpinned"
                    => disk'[PathOf[wk[w].item]] = NoAttempt
              /\ pc \in {"removed", "discard"}
                    /\ (Source[wk[w].item] = "soulseek" \/ wk[w].found = "completed")
                    => disk'[PathOf[wk[w].item]] = NoAttempt
              /\ pc = "complete" => disk'[PathOf[wk[w].item]] = NoAttempt
    PROVE  FindsFirst(w)' /\ RemovesBytes(w)'
<1>1. CASE wk[w].found \in Over
  <2>1. PICK a, found : a = wk[w].item /\ found = wk[w].found
    OBVIOUS
  <2>2. a \in Attempts /\ Lasts(a) /\ found \in Over
    BY <1>1, <2>1, OverItem
  <2>3. StillOver(a, found)
    BY <1>1, <2>1 DEF RemovesBytes
  <2>4. StillOver(a, found)'
    BY <2>2, <2>3, StillOverLasts
  <2>5. wk'[w].item = a /\ wk'[w].found = found /\ wk'[w].pc = pc
    BY <2>1, WhereNext
  <2>6. Bytes(a)' = disk'[PathOf[wk[w].item]]
    BY <2>1 DEF Bytes
  <2> QED BY <1>1, <2>1, <2>2, <2>4, <2>5, <2>6, NextOver
<1>2. CASE wk[w].found \notin Over
  BY <1>2, FindingFinds
<1> QED BY <1>1, <1>2

LEMMA InspectFinds ==
    ASSUME "unpinned" \notin Attempts, TypeInv, SentOnce, NEW w \in Workers,
           FindsFirst(w), RemovesBytes(w), \A a \in Attempts : Lasts(a), Inspect(w)
    PROVE  FindsFirst(w)' /\ RemovesBytes(w)'
<1>1. PICK a \in Attempts : a = wk[w].item
  BY ItemIsRow DEF Inspect
<1>2. claim[w][a] \in Rows
  BY <1>1, ItemIsRow DEF Inspect
<1>3. CASE Retryable(w) \/ \E code : Unsafe(w, code)
  BY <1>3, RaisingLeaves, LeavingFinds
<1>4. ASSUME NEW pin \in NewPins(a, claim[w][a], Materialization(a)),
             claim' = [claim EXCEPT ![w][a].pin = pin,
                                    ![w][a].known = @ \/ Materialization(a) # "missing"],
             wk' = [wk EXCEPT ![w].pc = "evidence", ![w].found = Materialization(a)],
             UNCHANGED worldVars
      PROVE  FindsFirst(w)' /\ RemovesBytes(w)'
  <2>1. wk'[w].pc = "evidence" /\ wk'[w].item = a /\ wk'[w].found = Materialization(a)
    <3>1. wk[w] \in Wks /\ wk \in [Workers -> Wks]
      BY DEF TypeInv, WkOK
    <3>2. wk'[w] = [wk[w] EXCEPT !.pc = "evidence", !.found = Materialization(a)]
      BY <1>4, <3>1
    <3> QED BY <1>1, <3>1, <3>2 DEF Wks
  <2>2. CASE Materialization(a) \notin Over
    BY <2>1, <2>2, NextNotOver
  <2>3. CASE Materialization(a) \in Over
    <3>1. PICK found \in Over : found = Materialization(a)
      BY <2>3
    <3>2. Record(a) = IF found = "completed" THEN "finished" ELSE "failed"
      <4>1. client[PathOf[a]] \in Records
        BY AttemptsAssumption DEF TypeInv, WorldOK
      <4>2. Record(a) \in {"none", "active", "moving", "finished", "failed"}
        BY <4>1 DEF Record, Records, NoRecord
      <4>3. /\ Record(a) \in {"none", "moving"} => found = "missing"
            /\ Record(a) = "active" => found = "active"
            /\ Record(a) = "finished" => found = "completed"
            /\ Record(a) = "failed" => found = "failed"
        BY <3>1 DEF Materialization, Record
      <4> QED BY <3>1, <4>2, <4>3 DEF Over
    <3>3. StillOver(a, found)
      <4>1. ~Early(a)
        BY <3>2 DEF SentOnce
      <4> QED BY <3>2, <4>1 DEF StillOver
    <3>4. StillOver(a, found)'
      BY <3>3, StillOverLasts
    <3>5. ASSUME Source[a] = "soulseek", claim'[w][a].pin = "unpinned"
          PROVE  Bytes(a)' = NoAttempt
      <4>1. claim'[w][a].pin = pin
        <5>1. claim'[w][a] = [claim[w][a] EXCEPT !.pin = pin,
                                     !.known = @ \/ Materialization(a) # "missing"]
          BY <1>4 DEF TypeInv, ClaimOK
        <5> QED BY <1>2, <5>1 DEF Rows
      <4>2. SUFFICES disk[PathOf[a]] = NoAttempt
        BY <1>4 DEF worldVars, Bytes
      <4>3. PublisherPrints(a, claim[w][a]) \subseteq Attempts
        BY <1>2, AttemptsAssumption DEF PublisherPrints, Rows
      <4>4. disk[PathOf[a]] # NoAttempt => BytesOf[disk[PathOf[a]]] \in Attempts
        BY AttemptsAssumption DEF TypeInv, WorldOK
      <4> QED BY <1>4, <3>5, <4>1, <4>3, <4>4 DEF NewPins
    <3>6. "evidence" \notin Finding \union {"abort", "removed", "discard", "complete"}
      BY DEF Finding
    <3> QED BY <2>1, <3>1, <3>4, <3>5, <3>6, NextOver
  <2> QED BY <2>2, <2>3
<1> QED BY <1>1, <1>3, <1>4 DEF Inspect

LEMMA EvidenceFinds ==
    ASSUME TypeInv, NEW w \in Workers, FindsFirst(w), RemovesBytes(w),
           \A a \in Attempts : Lasts(a), RecordEvidence(w)
    PROVE  FindsFirst(w)' /\ RemovesBytes(w)'
<1> DEFINE a == wk[w].item
           r == [row[a] EXCEPT !.pin = claim[w][a].pin, !.known = claim[w][a].known]
<1>1. a \in Attempts /\ row[a] \in Rows /\ wk[w].pc = "evidence" /\ disk' = disk
  BY ItemIsRow DEF RecordEvidence, worldVars
<1>2. r.pin = claim[w][a].pin
  BY <1>1 DEF Rows
<1>3. PICK pc : pc = IF wk[w].found = "active" THEN "abort" ELSE "source"
  OBVIOUS
<1>4. Cas(w, r, pc)
  BY <1>3 DEF RecordEvidence
<1> HIDE DEF r
<1>5. CASE Leaves(w)
  BY <1>5, LeavingFinds
<1>6. CASE Goto(w, pc) /\ claim'[w][a] = r /\ wk[w].found = "active"
  BY <1>3, <1>6, WhereNext DEF FindsFirst, RemovesBytes, Finding, Over
<1>7. CASE Goto(w, pc) /\ claim'[w][a] = r /\ wk[w].found # "active"
  <2>1. pc = "source"
    BY <1>3, <1>7
  <2>2. wk[w].found \in Over /\ Source[a] = "soulseek" /\ claim[w][a].pin = "unpinned"
        => disk[PathOf[a]] = NoAttempt
    BY <1>1 DEF RemovesBytes, Bytes
  <2>3. "source" \notin Finding \union {"abort", "removed", "discard", "complete"}
    BY DEF Finding
  <2> QED BY <1>1, <1>2, <1>7, <2>1, <2>2, <2>3, GoingOn
<1> QED BY <1>1, <1>4, <1>5, <1>6, <1>7, CasWhere

LEMMA RemovalFinds ==
    ASSUME TypeInv, NEW w \in Workers, FindsFirst(w), RemovesBytes(w),
           \A a \in Attempts : Lasts(a), RemoveFile(w) \/ RemoveWorkspace(w)
    PROVE  FindsFirst(w)' /\ RemovesBytes(w)'
<1> DEFINE a == wk[w].item
           p == PathOf[a]
<1>1. a \in Attempts /\ wk[w].pc = "source" /\ p \in Paths
  BY ItemIsRow, AttemptsAssumption DEF RemoveFile, RemoveWorkspace
<1>2. disk' = [disk EXCEPT ![p] = NoAttempt] => disk'[p] = NoAttempt
  BY <1>1 DEF TypeInv, WorldOK
<1>3. {"discard", "removed", "complete"}
         \intersect (Finding \union {"abort", "evidence", "source"}) = {}
  BY DEF Finding
<1>4. CASE Retryable(w) \/ \E code : Unsafe(w, code)
  BY <1>4, RaisingLeaves, LeavingFinds
<1>5. CASE RemoveFile(w) /\ Goto(w, "discard")
  <2>1. wk[w].found \in Over /\ claim[w][a].pin = "unpinned" => disk[p] = NoAttempt
    BY <1>1, <1>5 DEF RemovesBytes, Bytes, RemoveFile
  <2>2. \/ (claim[w][a].pin = "unpinned" \/ disk[p] = NoAttempt) /\ disk' = disk
        \/ disk' = [disk EXCEPT ![p] = NoAttempt]
        \/ (Retryable(w) \/ \E code : Unsafe(w, code))
    BY <1>5 DEF RemoveFile
  <2> QED BY <1>2, <1>3, <1>4, <1>5, <2>1, <2>2, GoingOn
<1>6. CASE RemoveWorkspace(w) /\ wk[w].found \notin Over
  <2>1. Goto(w, "discard") \/ Goto(w, "complete") \/ Retryable(w) \/ (\E code : Unsafe(w, code))
        \/ Goto(w, "removed")
    BY <1>6 DEF RemoveWorkspace
  <2> QED BY <1>4, <1>6, <2>1, FindingFinds
<1>7. CASE RemoveWorkspace(w) /\ wk[w].found \in Over
  <2>1. Source[a] = "usenet"
    BY <1>7 DEF RemoveWorkspace
  <2>2. \/ wk[w].found = "failed" /\ Goto(w, "discard")
        \/ disk' = [disk EXCEPT ![p] = NoAttempt] /\ Goto(w, "removed")
        \/ Retryable(w) \/ \E code : Unsafe(w, code)
    BY <1>7 DEF RemoveWorkspace, Over
  <2> QED BY <1>2, <1>3, <1>4, <1>7, <2>1, <2>2, GoingOn
<1>8. RemoveFile(w) => \/ Goto(w, "discard") \/ Retryable(w) \/ \E code : Unsafe(w, code)
  BY DEF RemoveFile
<1> QED BY <1>4, <1>5, <1>6, <1>7, <1>8

LEMMA RemovedFinds ==
    ASSUME TypeInv, NEW w \in Workers, FindsFirst(w), RemovesBytes(w),
           \A a \in Attempts : Lasts(a), MarkRemoved(w)
    PROVE  FindsFirst(w)' /\ RemovesBytes(w)'
<1> DEFINE a == wk[w].item
<1>1. a \in Attempts /\ wk[w].pc = "removed" /\ disk' = disk
  BY ItemIsRow DEF MarkRemoved, worldVars
<1>2. PICK r : Cas(w, r, "discard")
  BY DEF MarkRemoved
<1>3. CASE Leaves(w)
  BY <1>3, LeavingFinds
<1>4. CASE Goto(w, "discard")
  <2>1. wk[w].found \in Over /\ (Source[a] = "soulseek" \/ wk[w].found = "completed")
        => disk[PathOf[a]] = NoAttempt
    BY <1>1 DEF RemovesBytes, Bytes
  <2>2. "discard" \notin Finding \union {"abort", "evidence", "source", "complete"}
    BY DEF Finding
  <2> QED BY <1>1, <1>4, <2>1, <2>2, GoingOn
<1> QED BY <1>1, <1>2, <1>3, <1>4, CasWhere

LEMMA DiscardFinds ==
    ASSUME TypeInv, NEW w \in Workers, FindsFirst(w), RemovesBytes(w),
           \A a \in Attempts : Lasts(a), Discard(w)
    PROVE  FindsFirst(w)' /\ RemovesBytes(w)'
<1>1. PICK a \in Attempts : a = wk[w].item
  BY ItemIsRow DEF Discard
<1>2. CASE Retryable(w)
  BY <1>2, RaisingLeaves, LeavingFinds
<1>3. CASE Discarded(a) /\ Goto(w, "complete")
  <2>1. ASSUME wk[w].found \in Over
        PROVE  Bytes(a)' = NoAttempt
    <3>1. PICK found \in Over : found = wk[w].found
      BY <2>1
    <3>2. /\ StillOver(a, found)
          /\ Source[a] = "soulseek" \/ found = "completed" => Bytes(a) = NoAttempt
      BY <1>1, <3>1 DEF RemovesBytes, Discard
    <3>3. Bytes(a) = NoAttempt => Bytes(a)' = NoAttempt
      BY <3>2, StillOverLasts
    <3>4. CASE Source[a] = "soulseek" \/ found = "completed" \/ Record(a) = "none"
      BY <3>2, <3>3, <3>4, AttemptsAssumption DEF StillOver, Over
    <3>5. CASE Source[a] = "usenet" /\ Record(a) = "failed"
      <4>1. DropRecord(a, TRUE)
        BY <1>3, <3>5 DEF Discarded, Record
      <4> QED BY <4>1, AttemptsAssumption DEF DropRecord, TypeInv, WorldOK, Bytes
    <3>6. Source[a] \in {"soulseek", "usenet"}
      BY AttemptsAssumption
    <3> QED BY <3>2, <3>4, <3>5, <3>6 DEF StillOver, Over
  <2>2. "complete" \notin Finding \union {"abort", "evidence", "source", "removed", "discard"}
    BY DEF Finding
  <2>3. wk[w].found \in Over => disk'[PathOf[wk[w].item]] = NoAttempt
    BY <1>1, <2>1 DEF Bytes
  <2> QED BY <1>3, <2>2, <2>3, GoingOn
<1> QED BY <1>1, <1>2, <1>3 DEF Discard

LEMMA ItemClean ==
    ASSUME "unpinned" \notin Attempts, TypeInv, SentOnce, NEW w \in Workers,
           FindsFirst(w), RemovesBytes(w), \A a \in Attempts : Lasts(a), ItemStep(w)
    PROVE  FindsFirst(w)' /\ RemovesBytes(w)'
<1>1. CASE Inspect(w) \/ RecordEvidence(w) \/ RemoveFile(w) \/ RemoveWorkspace(w)
           \/ MarkRemoved(w) \/ Discard(w)
  BY <1>1, InspectFinds, EvidenceFinds, RemovalFinds, RemovedFinds, DiscardFinds
<1>2. CASE Retryable(w) \/ (\E code : Unsafe(w, code)) \/ Finish(w) \/ \E r : CasFinish(w, r)
  BY <1>2, RaisingLeaves, FinishingLeaves, LeavingFinds
<1>3. ASSUME NEW pc \in {"unsafeWrite", "retryWrite"}, Goto(w, pc)
      PROVE  FindsFirst(w)' /\ RemovesBytes(w)'
  <2>1. Leaves(w)
    BY <1>3, WhereNext DEF Leaves
  <2> QED BY <2>1, LeavingFinds
<1>4. ASSUME NEW pc, pc # "abort", Goto(w, pc), wk[w].pc \in Finding \/ wk[w].pc = "abort"
      PROVE  FindsFirst(w)' /\ RemovesBytes(w)'
  <2>1. wk[w].found \notin Over
    BY <1>4 DEF FindsFirst, Over
  <2> QED BY <1>4, <2>1, FindingFinds
<1>5. CASE CheckBarriers(w)
  <2>1. wk[w].pc \in Finding
    BY <1>5 DEF CheckBarriers, Finding
  <2>2. (\E code : Unsafe(w, code)) \/ Goto(w, "discard") \/ Goto(w, "inspect") \/ Goto(w, "defer")
    BY <1>5 DEF CheckBarriers
  <2> QED BY <1>2, <1>4, <2>1, <2>2
<1>6. CASE Abort(w)
  <2>1. wk[w].pc = "abort" /\ (Retryable(w) \/ Goto(w, "complete") \/ Goto(w, "source"))
    BY <1>6 DEF Abort
  <2> QED BY <1>2, <1>4, <2>1
<1>7. CASE AttentionBarriers(w) \/ AttentionInspect(w) \/ AttentionDiscard(w)
  <2>1. wk[w].pc \in Finding
    BY <1>7 DEF AttentionBarriers, AttentionInspect, AttentionDiscard, Finding
  <2>2. \/ Goto(w, "attentionInspect") \/ Goto(w, "attentionDefer") \/ Goto(w, "attentionDiscard")
        \/ Goto(w, "attentionResume") \/ Goto(w, "complete")
    BY <1>7 DEF AttentionBarriers, AttentionInspect, AttentionDiscard, Reconsider
  <2> QED BY <1>4, <2>1, <2>2
<1>8. CASE DeferForPublisher(w) \/ MarkComplete(w) \/ AttentionResume(w) \/ AttentionDefer(w)
  BY <1>2, <1>8 DEF DeferForPublisher, MarkComplete, AttentionResume, AttentionDefer
<1>9. CASE UnsafeReread(w) \/ RetryReread(w)
  BY <1>3, <1>9 DEF UnsafeReread, RetryReread, Reread
<1>10. CASE UnsafeWrite(w) \/ RetryWrite(w)
  BY <1>2, <1>10 DEF UnsafeWrite, RetryWrite, HandlerWrite
<1> QED BY <1>1, <1>5, <1>6, <1>7, <1>8, <1>9, <1>10 DEF ItemStep

LEMMA CleanWorkers ==
    ASSUME "unpinned" \notin Attempts, TypeInv, CleanInv, \A a \in Attempts : Lasts(a), [Next]_vars
    PROVE  \A w \in Workers : FindsFirst(w)' /\ RemovesBytes(w)'
<1> SUFFICES ASSUME NEW w \in Workers
             PROVE  FindsFirst(w)' /\ RemovesBytes(w)'
  OBVIOUS
<1>1. SentOnce /\ FindsFirst(w) /\ RemovesBytes(w)
  BY DEF CleanInv
<1>2. CASE wk'[w] = wk[w] /\ claim'[w] = claim[w]
  BY <1>1, <1>2, OthersFind
<1>3. CASE wk'[w] = Idle
  <2>1. wk'[w].found \notin Over /\ wk'[w].pc # "abort"
    BY <1>3 DEF Idle, Over
  <2> QED BY <2>1, NextNotOver
<1>4. CASE UNCHANGED workerVars
  BY <1>2, <1>4 DEF workerVars
<1>5. CASE PipelineStep
  BY <1>4, <1>5 DEF PipelineStep, CreateAttempt, SendEnqueue, AcceptHandle, Publish, FailOver,
       Reimport, Resume, ExpirePreserved, Finalize, LinkCandidate, FailPreserving, ReapReimport,
       Cancel
<1>6. CASE WorldStep
  <2>1. CASE Restart
    BY <1>3, <2>1 DEF Restart
  <2>2. CASE ~Restart
    BY <1>4, <1>6, <2>2 DEF WorldStep, ClientEnqueue, Elapse, LeaseExpires, PublisherStep,
         RemovedByHand, TransferMoves, TransferEnds
  <2> QED BY <2>1, <2>2
<1>7. ASSUME NEW v \in Workers, ItemStep(v)
      PROVE  FindsFirst(w)' /\ RemovesBytes(w)'
  <2>1. CASE v = w
    BY <1>1, <1>7, <2>1, ItemClean
  <2>2. CASE v # w
    BY <1>2, <1>7, <2>2, ItemMoves DEF MovesItem
  <2> QED BY <2>1, <2>2
<1>8. ASSUME NEW v \in Workers, NEW as, Free(v), ClaimRows(v, as), UNCHANGED wk
      PROVE  FindsFirst(w)' /\ RemovesBytes(w)'
  <2>1. CASE v = w
    <3>1. wk[w].pc \notin {"evidence", "source"}
      BY <1>8, <2>1 DEF Free, Idle
    <3> QED BY <1>1, <1>8, <3>1, OthersFind
  <2>2. CASE v # w
    <3>1. claim'[w] = claim[w]
      BY <1>8, <2>2 DEF ClaimRows, TypeInv, ClaimOK
    <3> QED BY <1>2, <1>8, <3>1
  <2> QED BY <2>1, <2>2
<1>9. ASSUME NEW v \in Workers, NEW a \in Attempts, CleanupNow(v, a)
      PROVE  FindsFirst(w)' /\ RemovesBytes(w)'
  <2>1. Free(v) /\ UNCHANGED wk /\ (ClaimRows(v, {a}) \/ UNCHANGED claim)
    BY <1>9 DEF CleanupNow
  <2> QED BY <1>2, <1>8, <2>1
<1>10. ASSUME NEW v \in Workers, NEW a \in Attempts, Begin(v, a)
       PROVE  FindsFirst(w)' /\ RemovesBytes(w)'
  <2>1. PICK pc \in {"attention", "barriers"} :
           wk' = [wk EXCEPT ![v] = [wk[v] EXCEPT !.item = a, !.pc = pc]]
    BY <1>10 DEF Begin, TypeInv, WkOK
  <2>2. wk[v] = Idle /\ wk[v] \in Wks /\ wk \in [Workers -> Wks] /\ UNCHANGED claim
    BY <1>10 DEF Begin, TypeInv, WkOK
  <2>3. CASE v = w
    <3>1. wk'[w].pc = pc /\ wk'[w].found = "none"
      BY <2>1, <2>2, <2>3 DEF Wks, Idle
    <3> QED BY <3>1, NextNotOver DEF Over
  <2>4. CASE v # w
    BY <1>2, <2>1, <2>2, <2>4
  <2> QED BY <2>3, <2>4
<1>11. ASSUME NEW v \in Workers, KillWorker(v)
       PROVE  FindsFirst(w)' /\ RemovesBytes(w)'
  BY <1>2, <1>3, <1>11 DEF KillWorker, TypeInv, WkOK, ClaimOK
<1>12. CASE WorkerStep
  BY <1>7, <1>8, <1>9, <1>10, <1>11, <1>12 DEF WorkerStep, RunOnce
<1> QED BY <1>4, <1>5, <1>6, <1>12 DEF Next, vars

LEMMA CleanInvInit == ASSUME Init PROVE CleanInv
<1>1. \A a \in Attempts : PathOf[a] \in Paths /\ TaskOf[a] \in Tasks
  BY AttemptsAssumption
<1>2. SentOnce
  BY <1>1, AttemptsAssumption DEF Init, SentOnce, Record, Bytes, NoRecord
<1>3. \A w \in Workers : wk[w].found = "none" /\ wk[w].pc = "idle"
  BY DEF Init, Idle
<1>4. \A w \in Workers : FindsFirst(w) /\ RemovesBytes(w)
  BY <1>3 DEF FindsFirst, RemovesBytes, Over
<1> QED BY <1>2, <1>4 DEF CleanInv

LEMMA CleanInvStep ==
    ASSUME OwnPaths, "unpinned" \notin Attempts, TypeInv, CleanInv, [Next]_vars
    PROVE  TypeInv' /\ CleanInv'
<1>1. TypeInv' /\ KeepsRows
  BY TypeInvStep
<1>2. SentOnce' /\ \A a \in Attempts : Lasts(a)
  BY <1>1, OnceStep DEF CleanInv
<1>3. \A w \in Workers : FindsFirst(w)' /\ RemovesBytes(w)'
  BY <1>2, CleanWorkers
<1> QED BY <1>1, <1>2, <1>3 DEF CleanInv

\* A row that completes after its client reported the job over leaves none of the job's bytes,
\* under every circumstance the model knows: whatever is killed, fails, expires or is taken back
\* between the inspection and the last compare-and-swap of _process_claimed.  Where two attempts
\* lie at one path the late enqueue of the one may bring bytes for the other, so that each must
\* have its own.
THEOREM CleanCompletionHolds ==
    ASSUME \A a, b \in Attempts : PathOf[a] = PathOf[b] => a = b,
           "unpinned" \notin Attempts
    PROVE  Spec => CleanCompletion
<1>0. OwnPaths
  BY DEF OwnPaths
<1>1. ASSUME TypeInv, CleanInv, Next, NEW w \in Workers, WritesRow(w), wk[w].pc = "complete",
             wk[w].found \in {"completed", "failed"}
      PROVE  disk[PathOf[wk[w].item]] # wk[w].item
  <2>1. wk[w].item \in Attempts
    BY <1>1, OverItem DEF Over
  <2>2. disk[PathOf[wk[w].item]] = NoAttempt
    BY <1>1 DEF CleanInv, RemovesBytes, Over, Bytes
  <2> QED BY <2>1, <2>2, AttemptsAssumption
<1>2. TypeInv /\ CleanInv /\ [Next]_vars =>
         [\A w \in Workers :
             /\ WritesRow(w) /\ wk[w].pc = "complete" /\ row'[wk[w].item].state = "complete"
             /\ wk[w].found \in {"completed", "failed"}
             => disk[PathOf[wk[w].item]] # wk[w].item]_vars
  BY <1>1
<1>3. Init => TypeInv /\ CleanInv
  BY TypeInvInit, CleanInvInit
<1>4. TypeInv /\ CleanInv /\ [Next]_vars => TypeInv' /\ CleanInv'
  BY <1>0, CleanInvStep
<1> QED
  BY <1>2, <1>3, <1>4, PTL DEF Spec, CleanCompletion

=============================================================================
