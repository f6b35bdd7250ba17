------------------------- MODULE AcquisitionJournal -------------------------
(***************************************************************************)
(* The acquisition attempt journal (table download_attempts) and the       *)
(* cleanup workers that discharge it.                                      *)
(*                                                                         *)
(* An attempt is one candidate a download task handed to a client.  Its    *)
(* row is moved by the task's pipeline (create, accept, schedule,          *)
(* finalize), by user commands (cancel, reimport) and by cleanup workers.  *)
(* A worker remembers the row it last read or wrote and changes it only by *)
(* compare-and-swap on row_revision; every store operation is one SQLite   *)
(* transaction, so one action, and everything between two awaits of a      *)
(* worker is one action.                                                   *)
(*                                                                         *)
(* Abstractions.  row_revision is the set current[a] of the workers that   *)
(* remember the present revision: a write keeps only its writer.  A lease  *)
(* is its owner until it expires (lease_expires_at <= now and NULL are the *)
(* same to every query).  next_retry_at <= now is the Boolean due.         *)
(* failures is the smaller of cleanup_failures, which has no bound, and of *)
(* the only number it is compared with.  An attempt's source files are one *)
(* file at PathOf[a]: soulseek attempts at the same peer and folder share  *)
(* the path, a SABnzbd job has its own.  A bundle is keyed by its task and *)
(* paths, so attempts of one task at one path ask for the same bundle.     *)
(***************************************************************************)
EXTENDS Naturals, FiniteSets

CONSTANTS
    Attempts, Tasks, Workers, Paths,
    NoAttempt, NoWorker,
    TaskOf,               \* [Attempts -> Tasks]
    Source,               \* [Attempts -> {"soulseek", "usenet"}]
    PathOf,               \* [Attempts -> Paths]
    BytesOf,              \* [Attempts -> Attempts]: equal iff the files are the same bytes
    BundleOf,             \* [Attempts -> Attempts]: equal iff they ask for the same bundle
    Sweeper,              \* the periodic worker; the others serve cleanup_now
    UnresolvedJobRetries, \* _UNRESOLVED_JOB_RETRIES
    Admits                \* the circumstances of this instance, see Circumstances

Circumstances ==
    {"batchOutlivesLease",  \* a claimed batch takes longer than its 300 s lease
     "retentionExpires",    \* the 24 h retention of a preserved row runs out
     "barriersUnknown",     \* a cancellation cannot list the task's bundles
     "reaperMeetsReimport", \* a stale-task sweep runs during a reimport
     "pathAgain",           \* a task starts on a path where it has an attempt already
     "removedByHand",       \* a person takes away the files of a row set aside
     "stopBeforeManifest",  \* the process stops before an attempt's manifest is written,
     "stopAtSwitch",        \* between an attempt's debt and the next candidate's link,
     "stopInReimport",      \* or in a reimport
     "stop",                \* the process stops at any other moment
     "callFails"}           \* a call to the client or the mount fails

ASSUME AttemptsAssumption ==
    /\ NoAttempt \notin Attempts
    /\ TaskOf \in [Attempts -> Tasks]
    /\ Source \in [Attempts -> {"soulseek", "usenet"}]
    /\ PathOf \in [Attempts -> Paths]
    /\ BytesOf \in [Attempts -> Attempts]
    /\ BundleOf \in [Attempts -> Attempts]
    /\ \A a, b \in Attempts :
          /\ a # b /\ Source[a] = "usenet" => PathOf[a] # PathOf[b]
          /\ BundleOf[a] = BundleOf[b] <=> TaskOf[a] = TaskOf[b] /\ PathOf[a] = PathOf[b]

ASSUME WorkersAssumption ==
    /\ NoWorker \notin Workers
    /\ Sweeper \in Workers
    /\ UnresolvedJobRetries \in Nat
    /\ Admits \subseteq Circumstances

VARIABLES
    row,      \* the journal: row[a], NoRow before the attempt is created
    current,  \* current[a]: the workers whose revision of row[a] is the present one
    status,   \* the task: active, switching, reimporting or terminal
    using,    \* using[t]: the attempt the task's pipeline or reimport works on
    link,     \* link[t]: the latest attempt at the task's linked candidate
    manifest, \* manifest[t]: is there a manifest, and is it link[t]'s?
    sent,     \* attempts whose enqueue request has yet to reach the client
    bundle,   \* bundle[BundleOf[a]]: the publisher bundle built from the attempt's files
    disk,     \* disk[p]: the attempt whose files are at p, or NoAttempt
    client,   \* client[p]: the download client's transfer or job record
    nudged,   \* attempts whose scheduler is about to call cleanup_now
    claim,    \* claim[w][a]: the row as worker w claimed it, NoRow otherwise
    wk        \* wk[w]: where the worker is in _process_claimed

journalVars == <<row, current>>
taskVars == <<status, using, link, manifest, nudged>>
workerVars == <<claim, wk>>
worldVars == <<bundle, disk, client, sent>>
vars == <<journalVars, taskVars, workerVars, worldVars>>

-----------------------------------------------------------------------------
(* Rows, clients and workers *)

RowStates == {"acquiring", "in_use", "cleanup_pending", "workspace_removed",
              "complete", "preserved", "needs_attention"}
Cleanable == {"cleanup_pending", "workspace_removed", "needs_attention"}
Settled == {"complete", "needs_attention"}
Open == {"acquiring", "in_use"}
TerminalStatuses == {"completed", "partial", "failed", "cancelled"}
Statuses == {"active", "switching", "reimporting"} \union TerminalStatuses
BundleStates == {"none", "publishing", "completed", "needs_attention", "rolled_back"}

\* The fingerprint (or, for usenet, the workspace) the row holds as evidence.
Pins == {"unpinned"} \union Attempts

Rows == [state : RowStates, disposition : {"undecided", "discard", "preserve"},
         barriers : SUBSET Attempts, due : BOOLEAN, owner : Workers \union {NoWorker},
         error : {"none", "barrier", "other"}, failures : Nat,
         pin : Pins, known : BOOLEAN]   \* known: the client's job id is in the handle

NoRow == [state |-> "none"]

NewRow == [state |-> "acquiring", disposition |-> "undecided", barriers |-> {},
           due |-> TRUE, owner |-> NoWorker, error |-> "none", failures |-> 0,
           pin |-> "unpinned", known |-> FALSE]

Exists(a) == row[a] # NoRow
InState(a, states) == Exists(a) /\ row[a].state \in states
AttemptsOf(t) == {a \in Attempts : TaskOf[a] = t}

\* A row's disposition and its lease are those its state calls for.
RowAgrees(r) ==
    /\ r.state \in Open => r.disposition = "undecided"
    /\ r.state = "cleanup_pending" => r.disposition = "discard"
    /\ r.state = "preserved" => r.disposition = "preserve"
    /\ r.owner # NoWorker => r.state \in Cleanable

\* The client's record of a transfer, and whose enqueue created it.
NoRecord == [state |-> "none", by |-> NoAttempt]
Records == [state : {"active", "moving", "finished", "failed"}, by : Attempts]
           \union {NoRecord}

Idle == [pc |-> "idle", item |-> NoAttempt, found |-> "none", code |-> "none"]
Pcs == {"idle", "barriers", "defer", "inspect", "evidence", "abort", "source", "removed",
        "discard", "complete", "attention", "attentionInspect", "attentionDiscard",
        "attentionResume", "attentionDefer", "unsafe", "unsafeWrite", "retry", "retryWrite"}
Findings == {"none", "active", "completed", "failed", "missing"}

\* Rows, tasks, clients and workers keep their types, and every write of a row sets its
\* disposition and its lease with its state (transition_download_attempt and the others).
TypeOK ==
    /\ row \in [Attempts -> Rows \union {NoRow}]
    /\ \A a \in Attempts : Exists(a) => RowAgrees(row[a])
    /\ current \in [Attempts -> SUBSET Workers]
    /\ status \in [Tasks -> Statuses]
    /\ using \in [Tasks -> Attempts \union {NoAttempt}]
    /\ link \in [Tasks -> Attempts \union {NoAttempt}]
    /\ manifest \in [Tasks -> BOOLEAN]
    /\ sent \subseteq Attempts
    /\ bundle \in [Attempts -> BundleStates]
    /\ disk \in [Paths -> Attempts \union {NoAttempt}]
    /\ client \in [Paths -> Records]
    /\ nudged \subseteq Attempts
    /\ claim \in [Workers -> [Attempts -> Rows \union {NoRow}]]
    /\ wk \in [Workers -> [pc : Pcs, item : Attempts \union {NoAttempt},
                           found : Findings, code : {"none", "barrier", "other"}]]

Init ==
    /\ row = [a \in Attempts |-> NoRow]
    /\ current = [a \in Attempts |-> {}]
    /\ status = [t \in Tasks |-> "active"]
    /\ using = [t \in Tasks |-> NoAttempt]
    /\ link = [t \in Tasks |-> NoAttempt]
    /\ manifest = [t \in Tasks |-> FALSE]
    /\ sent = {}
    /\ bundle = [a \in Attempts |-> "none"]
    /\ disk = [p \in Paths |-> NoAttempt]
    /\ client = [p \in Paths |-> NoRecord]
    /\ nudged = {}
    /\ claim = [w \in Workers |-> [a \in Attempts |-> NoRow]]
    /\ wk = [w \in Workers |-> Idle]

-----------------------------------------------------------------------------
(* Store operations: one SQLite transaction each *)

\* An UPDATE increments row_revision, so only the writers remember it afterwards.
Write(a, r, writers) ==
    /\ row' = [row EXCEPT ![a] = r]
    /\ current' = [current EXCEPT ![a] = writers]

Released(r) == [r EXCEPT !.owner = NoWorker]

\* The row that schedule, finalize and cancel leave: the cleanup debt.
Debt(r, disposition, barriers) ==
    [Released(r) EXCEPT !.state = IF disposition = "discard"
                                  THEN "cleanup_pending" ELSE "preserved",
                        !.disposition = disposition, !.barriers = barriers,
                        !.due = TRUE, !.error = "none"]

\* schedule_download_attempt_cleanup on a set of rows: settled rows are left alone.
ScheduleAll(as, disposition, barriers) ==
    LET open == {a \in as : Exists(a) /\ row[a].state \notin Settled} IN
    /\ row' = [a \in Attempts |-> IF a \in open THEN Debt(row[a], disposition, barriers)
                                               ELSE row[a]]
    /\ current' = [a \in Attempts |-> IF a \in open THEN {} ELSE current[a]]

-----------------------------------------------------------------------------
(* The pipeline of a task, and the commands *)

\* A reimport holds the operation lock; the reaper may have failed its task meanwhile.
ReimportRuns(t) == using[t] # NoAttempt /\ status[t] \notin {"active", "switching"}

\* The first attempt of its task at its path, or another one where the instance admits it.
MayStart(a) ==
    \/ "pathAgain" \in Admits
    \/ \A b \in Attempts : Exists(b) => BundleOf[b] # BundleOf[a]

\* cleanup_now is called next for these attempts, if the instance has a worker for it.
Nudge(as, disposition) ==
    nudged' = IF disposition = "discard" /\ Workers # {Sweeper} THEN nudged \union as ELSE nudged

\* create_download_attempt, before the client is asked for anything.
CreateAttempt(a) ==
    LET t == TaskOf[a] IN
    /\ status[t] = "active" /\ using[t] = NoAttempt /\ ~manifest[t] /\ ~Exists(a)
    /\ MayStart(a)
    /\ Write(a, NewRow, {})
    /\ using' = [using EXCEPT ![t] = a]
    /\ link' = [link EXCEPT ![t] = a]
    /\ UNCHANGED <<status, manifest, nudged, worldVars, workerVars>>

\* The manifest is written, then client.enqueue is called.
SendEnqueue(a) ==
    LET t == TaskOf[a] IN
    /\ using[t] = a /\ status[t] = "active" /\ ~manifest[t]
    /\ manifest' = [manifest EXCEPT ![t] = TRUE]
    /\ sent' = sent \union {a}
    /\ UNCHANGED <<journalVars, status, using, link, nudged, bundle, disk, client, workerVars>>

\* The request arrives, at once or after its task was cancelled.  slskd keys a transfer
\* by peer and file name, so it takes over the record of an earlier one at the path.
ClientEnqueue(a) ==
    /\ a \in sent
    /\ sent' = sent \ {a}
    /\ client' = [client EXCEPT ![PathOf[a]] = [state |-> "active", by |-> a]]
    /\ UNCHANGED <<journalVars, taskVars, bundle, disk, workerVars>>

\* update_download_attempt_handle.
AcceptHandle(a) ==
    /\ using[TaskOf[a]] = a /\ client[PathOf[a]].by = a /\ InState(a, {"acquiring"})
    /\ Write(a, [row[a] EXCEPT !.state = "in_use", !.known = TRUE], {})
    /\ UNCHANGED <<taskVars, worldVars, workerVars>>

\* The publisher starts on the attempt's files, in the import half of the pipeline; a
\* repeated request takes up the bundle that was rolled back.
\* A resumed pipeline does not look at the state of its row.
Publish(a) ==
    /\ manifest[TaskOf[a]] \/ ReimportRuns(TaskOf[a])
    /\ using[TaskOf[a]] = a /\ disk[PathOf[a]] = a
    /\ bundle[BundleOf[a]] \in {"none", "rolled_back"}
    /\ bundle' = [bundle EXCEPT ![BundleOf[a]] = "publishing"]
    /\ UNCHANGED <<journalVars, taskVars, disk, client, sent, workerVars>>

\* Mutant of ImportOutcomes: the bundle ids get lost on the way to the journal.
ImportOutcomesUnbarred(a) == {<<"preserve", {}>>, <<"discard", {}>>}

\* The disposition and the bundles an import hands to the journal.  A bundle id is known
\* only when its publication returned: a fault on the way preserves the files without
\* one, and files a completed bundle adopted before are reported without it.
ImportOutcomes(a) ==
    {<<"preserve", {}>>, <<"discard", {b \in {BundleOf[a]} : bundle[b] # "none"}>>}
    \union IF bundle[BundleOf[a]] = "completed" THEN {<<"discard", {}>>} ELSE {}

\* _schedule_attempt_cleanup on the way to the next candidate; the transfer of an
\* interrupted soulseek attempt is aborted first.
FailOver(a) ==
    LET t == TaskOf[a] IN
    /\ status[t] = "active" /\ using[t] = a
    /\ \E o \in ImportOutcomes(a) :
        /\ ScheduleAll({a}, o[1], o[2])
        /\ Nudge({a}, o[1])
    /\ client' \in {client} \union IF Source[a] = "usenet" THEN {}
                                   ELSE {[client EXCEPT ![PathOf[a]] = NoRecord]}
    /\ status' = [status EXCEPT ![t] = "switching"]
    /\ using' = [using EXCEPT ![t] = NoAttempt]
    /\ UNCHANGED <<link, manifest, bundle, disk, sent, workerVars>>

\* _link_candidate_entry, once the cleanup_now of the old attempt has returned or failed
\* before it began: from here on a restart does not take up the old manifest.
LinkCandidate(t) ==
    /\ status[t] = "switching"
    /\ \A a \in AttemptsOf(t), w \in Workers \ {Sweeper} : claim[w][a] = NoRow
    /\ status' = [status EXCEPT ![t] = "active"]
    /\ link' = [link EXCEPT ![t] = NoAttempt]
    /\ manifest' = [manifest EXCEPT ![t] = FALSE]
    /\ nudged' = nudged \ AttemptsOf(t)
    /\ UNCHANGED <<journalVars, using, worldVars, workerVars>>

\* _finalize: the task's result and the attempt's debt in one transaction; the staging
\* folder goes afterwards, if it can be removed.
Finalize(a, final) ==
    LET t == TaskOf[a] IN
    /\ using[t] = a /\ final \in {"completed", "partial", "failed"}
    /\ \E o \in ImportOutcomes(a) :
        /\ ScheduleAll({a}, o[1], o[2])
        /\ Nudge({a}, o[1])
    /\ status' = [status EXCEPT ![t] = final]
    /\ using' = [using EXCEPT ![t] = NoAttempt]
    /\ manifest' \in {manifest, [manifest EXCEPT ![t] = FALSE]}
    /\ UNCHANGED <<link, worldVars, workerVars>>

\* Mutant of PreserveLatest: the task alone is failed.
PreserveNothing(t) == t \in Tasks /\ UNCHANGED journalVars

\* _fail_task_preserving_attempt preserves the latest open attempt, without its bundles.
PreserveLatest(t) ==
    LET open == {a \in AttemptsOf(t) : InState(a, Open)} IN
    \E a \in IF link[t] \in open \/ open = {} THEN {link[t]} ELSE open :
        ScheduleAll({a} \intersect open, "preserve", {})

\* The safe runner, a failed resume, or the reaper on a task whose pipeline is gone.
FailPreserving(t) ==
    /\ status[t] \in {"active", "switching"}
    /\ PreserveLatest(t)
    /\ status' = [status EXCEPT ![t] = "failed"]
    /\ using' = [using EXCEPT ![t] = NoAttempt]
    /\ UNCHANGED <<link, manifest, nudged, worldVars, workerVars>>

\* reap_stale_tasks knows the pipelines in _active_tasks and the registry; a reimport is
\* in neither, and the task's last_polled_at is that of its failed download.
ReapReimport(t) ==
    /\ "reaperMeetsReimport" \in Admits
    /\ status[t] = "reimporting"
    /\ PreserveLatest(t)
    /\ status' = [status EXCEPT ![t] = "failed"]
    /\ UNCHANGED <<using, link, manifest, nudged, worldVars, workerVars>>

\* list_acquisition_import_bundles_for_download_task.
BundlesOf(t) == {b \in {BundleOf[a] : a \in AttemptsOf(t)} : bundle[b] # "none"}

\* cancel_task stops the live coroutine and waits for the operation lock; then all the
\* bundles of the task become barriers of all its attempts.  When the bundles cannot be
\* listed the bytes are preserved.
Cancel(t) ==
    /\ ~ReimportRuns(t)
    /\ \E d \in {"discard"} \union IF "barriersUnknown" \in Admits THEN {"preserve"} ELSE {} :
        /\ ScheduleAll(AttemptsOf(t), d, IF d = "discard" THEN BundlesOf(t) ELSE {})
        /\ Nudge({a \in AttemptsOf(t) : Exists(a) /\ row[a].state \notin Settled}, d)
    /\ status' = [status EXCEPT ![t] = "cancelled"]
    /\ using' = [using EXCEPT ![t] = NoAttempt]
    /\ manifest' = [manifest EXCEPT ![t] = FALSE]
    /\ UNCHANGED <<link, worldVars, workerVars>>

\* Mutants of Reimport: the disposition stays; the lease is not looked at.
ReimportUndisposed(a) ==
    LET t == TaskOf[a] IN
    /\ status[t] \in {"failed", "partial"} /\ using[t] = NoAttempt
    /\ link[t] = a /\ row[a].owner = NoWorker
    /\ InState(a, {"cleanup_pending", "preserved", "needs_attention"})
    /\ Write(a, [row[a] EXCEPT !.state = "in_use", !.due = TRUE, !.error = "none"], {})
    /\ status' = [status EXCEPT ![t] = "reimporting"]
    /\ using' = [using EXCEPT ![t] = a]
    /\ UNCHANGED <<link, manifest, nudged, worldVars, workerVars>>

ReimportDespiteLease(a) ==
    LET t == TaskOf[a] IN
    /\ status[t] \in {"failed", "partial"} /\ using[t] = NoAttempt
    /\ link[t] = a /\ InState(a, {"cleanup_pending", "preserved", "needs_attention"})
    /\ Write(a, [Released(row[a]) EXCEPT !.state = "in_use", !.disposition = "undecided",
                                         !.due = TRUE, !.error = "none"], {})
    /\ status' = [status EXCEPT ![t] = "reimporting"]
    /\ using' = [using EXCEPT ![t] = a]
    /\ UNCHANGED <<link, manifest, nudged, worldVars, workerVars>>

\* reimport_task on the latest attempt at the linked candidate, taken back from the
\* cleanup queue unless a cleanup lease is live; created when there never was one.
Reimport(a) ==
    LET t == TaskOf[a] IN
    /\ status[t] \in {"failed", "partial"} /\ using[t] = NoAttempt
    /\ \/ /\ link[t] = a
          /\ InState(a, {"cleanup_pending", "preserved", "needs_attention"})
          /\ row[a].owner = NoWorker
          /\ Write(a, [row[a] EXCEPT !.state = "in_use", !.disposition = "undecided",
                                     !.due = TRUE, !.error = "none"], {})
       \/ /\ link[t] = NoAttempt /\ ~Exists(a) /\ MayStart(a)
          /\ Write(a, [NewRow EXCEPT !.state = "in_use"], {})
    /\ link' = [link EXCEPT ![t] = a]
    /\ status' = [status EXCEPT ![t] = "reimporting"]
    /\ using' = [using EXCEPT ![t] = a]
    /\ UNCHANGED <<manifest, nudged, worldVars, workerVars>>

\* _resume_single_task: the manifest is there and its attempt is at the linked
\* candidate, so the pipeline polls the transfers the restart left behind.
Resume(a) ==
    LET t == TaskOf[a] IN
    /\ status[t] = "active" /\ using[t] = NoAttempt /\ manifest[t] /\ link[t] = a
    /\ using' = [using EXCEPT ![t] = a]
    /\ UNCHANGED <<journalVars, status, link, manifest, nudged, worldVars, workerVars>>

\* expire_preserved_download_attempts: the 24 h retention.
ExpirePreserved(a) ==
    /\ "retentionExpires" \in Admits
    /\ InState(a, {"preserved"}) /\ row[a].owner = NoWorker
    /\ Write(a, [row[a] EXCEPT !.state = "cleanup_pending", !.disposition = "discard",
                               !.due = TRUE, !.error = "none"], {})
    /\ UNCHANGED <<taskVars, worldVars, workerVars>>

-----------------------------------------------------------------------------
(* A cleanup worker: run_once or cleanup_now, then _process_claimed per item *)

\* Mutant of Claimable: a removed workspace is taken for a finished cleanup.
ClaimablePending ==
    {a \in Attempts : InState(a, {"cleanup_pending", "needs_attention"})
                      /\ row[a].due /\ row[a].owner = NoWorker}

Claimable == {a \in Attempts : InState(a, Cleanable) /\ row[a].due /\ row[a].owner = NoWorker}

Free(w) == wk[w] = Idle /\ \A a \in Attempts : claim[w][a] = NoRow

\* claim_download_cleanup_attempts (a batch) and claim_download_cleanup_attempt (one).
ClaimRows(w, as) ==
    /\ row' = [a \in Attempts |-> IF a \in as THEN [row[a] EXCEPT !.owner = w] ELSE row[a]]
    /\ current' = [a \in Attempts |-> IF a \in as THEN {w} ELSE current[a]]
    /\ claim' = [claim EXCEPT ![w] = [a \in Attempts |-> IF a \in as THEN row'[a] ELSE NoRow]]

RunOnce(w) ==
    /\ w = Sweeper /\ Free(w) /\ Claimable # {}
    /\ ClaimRows(w, Claimable)
    /\ UNCHANGED <<taskVars, worldVars, wk>>

CleanupNow(w, a) ==
    /\ w # Sweeper /\ Free(w) /\ a \in nudged
    /\ nudged' = nudged \ {a}
    /\ IF a \in Claimable THEN ClaimRows(w, {a}) ELSE UNCHANGED <<journalVars, claim>>
    /\ UNCHANGED <<status, using, link, manifest, worldVars, wk>>

Goto(w, pc) == wk' = [wk EXCEPT ![w].pc = pc]
Raise(w, pc, code) == wk' = [wk EXCEPT ![w].pc = pc, ![w].code = code]
Unsafe(w, code) == Raise(w, "unsafe", code)
Retryable(w) == Raise(w, "retry", "other")
CallFails == "callFails" \in Admits

Begin(w, a) ==
    /\ wk[w] = Idle /\ claim[w][a] # NoRow
    /\ wk' = [wk EXCEPT ![w].item = a,
                        ![w].pc = IF claim[w][a].state = "needs_attention"
                                  THEN "attention" ELSE "barriers"]
    /\ UNCHANGED <<journalVars, taskVars, worldVars, claim>>

\* The item is done: the snapshot is dropped.
Finish(w) ==
    /\ wk' = [wk EXCEPT ![w] = Idle]
    /\ claim' = [claim EXCEPT ![w][wk[w].item] = NoRow]

\* transition_download_attempt: the CAS, then the next step with the row it returned,
\* or _RetryableCleanup("attempt_revision_changed").  r is built from the row itself,
\* which a worker with the present revision remembers.
Cas(w, r, pc) ==
    LET a == wk[w].item IN
    IF w \in current[a]
    THEN Write(a, r, {w}) /\ claim' = [claim EXCEPT ![w][a] = r] /\ Goto(w, pc)
    ELSE Retryable(w) /\ UNCHANGED <<journalVars, claim>>

\* The same CAS as the last thing the worker does with the row.
CasFinish(w, r) ==
    IF w \in current[wk[w].item]
    THEN Write(wk[w].item, r, {w}) /\ Finish(w)
    ELSE Retryable(w) /\ UNCHANGED <<journalVars, claim>>

\* Mutant of CheckBarriers: a bundle set aside counts as resolved.
CheckBarriersPublishing(w) ==
    LET c == claim[w][wk[w].item] IN
    /\ wk[w].pc = "barriers"
    /\ Goto(w, IF "publishing" \in {bundle[b] : b \in c.barriers} THEN "defer"
               ELSE IF c.state = "workspace_removed" THEN "discard" ELSE "inspect")
    /\ UNCHANGED <<journalVars, taskVars, worldVars, claim>>

\* _check_publisher_barriers: every bundle read before the source is touched.
CheckBarriers(w) ==
    LET c == claim[w][wk[w].item]
        states == {bundle[b] : b \in c.barriers} IN
    /\ wk[w].pc = "barriers"
    /\ \/ /\ states \subseteq {"completed"}
          /\ Goto(w, IF c.state = "workspace_removed" THEN "discard" ELSE "inspect")
       \/ states \intersect {"needs_attention", "rolled_back"} # {} /\ Unsafe(w, "barrier")
       \/ "publishing" \in states /\ Goto(w, "defer")
    /\ UNCHANGED <<journalVars, taskVars, worldVars, claim>>

\* A bundle still publishing defers the row for 30 s and gives the lease back.
DeferForPublisher(w) ==
    /\ wk[w].pc = "defer"
    /\ CasFinish(w, [Released(row[wk[w].item]) EXCEPT !.due = FALSE, !.error = "other"])
    /\ UNCHANGED <<taskVars, worldVars>>

\* The state inspect_materialization answers.  A SABnzbd job that moves from queue to
\* history is in neither.
Materialization(a) ==
    LET r == client[PathOf[a]].state IN
    CASE r \in {"none", "moving"} -> "missing"
      [] r = "active" -> "active"
      [] r = "finished" -> "completed"
      [] r = "failed" -> "failed"

\* The publisher's fingerprints of the file at the attempt's path, for soulseek only.
PublisherPrints(a, c) ==
    {BytesOf[b] : b \in {b \in c.barriers : Source[a] = "soulseek" /\ PathOf[b] = PathOf[a]}}

PrintConflict(a, c) ==
    \/ Cardinality(PublisherPrints(a, c)) > 1
    \/ c.pin # "unpinned" /\ ~ PublisherPrints(a, c) \subseteq {c.pin}

\* The evidence the inspection adds.  soulseek: if a file is there, the publisher's
\* fingerprint of it, else its own.  usenet: the job's workspace, when the history names
\* one that maps into the mount.
NewPins(a, c, m) ==
    IF c.pin # "unpinned" THEN {c.pin}
    ELSE IF Source[a] = "usenet"
         THEN IF m \in {"completed", "failed"} THEN {"unpinned", BytesOf[a]} ELSE {"unpinned"}
    ELSE IF disk[PathOf[a]] = NoAttempt THEN {"unpinned"}
    ELSE IF PublisherPrints(a, c) # {} THEN PublisherPrints(a, c)
    ELSE {BytesOf[disk[PathOf[a]]]}

\* inspect_materialization, then the fingerprints.
Inspect(w) ==
    LET a == wk[w].item
        m == Materialization(a) IN
    /\ wk[w].pc = "inspect"
    /\ \/ CallFails /\ Retryable(w) /\ UNCHANGED claim
       \/ PrintConflict(a, claim[w][a]) /\ Unsafe(w, "other") /\ UNCHANGED claim
       \/ /\ ~PrintConflict(a, claim[w][a])
          /\ \E pin \in NewPins(a, claim[w][a], m) :
                claim' = [claim EXCEPT ![w][a].pin = pin, ![w][a].known = @ \/ m # "missing"]
          /\ wk' = [wk EXCEPT ![w].pc = "evidence", ![w].found = m]
    /\ UNCHANGED <<journalVars, taskVars, worldVars>>

\* _record_and_validate_evidence: the evidence is journalled before anything is removed.
RecordEvidence(w) ==
    LET a == wk[w].item IN
    /\ wk[w].pc = "evidence"
    /\ Cas(w, [row[a] EXCEPT !.pin = claim[w][a].pin, !.known = claim[w][a].known],
           IF wk[w].found = "active" THEN "abort" ELSE "source")
    /\ UNCHANGED <<taskVars, worldVars>>

\* Mutant of DropRecord: the record goes, its bytes stay (del_files=0).
DropRecordOnly(a, withBytes) ==
    /\ withBytes \in BOOLEAN
    /\ client' = [client EXCEPT ![PathOf[a]] = NoRecord]
    /\ UNCHANGED disk

\* The client drops its record of the job; a failed or queued SABnzbd job takes its
\* incomplete bytes along.
DropRecord(a, withBytes) ==
    /\ client' = [client EXCEPT ![PathOf[a]] = NoRecord]
    /\ disk' = IF withBytes THEN [disk EXCEPT ![PathOf[a]] = NoAttempt] ELSE disk

\* client.abort: SABnzbd answers False once the job has completed, and True without
\* doing anything when the job is in neither queue nor history.
Abort(w) ==
    LET a == wk[w].item IN
    /\ wk[w].pc = "abort"
    /\ \/ /\ CallFails \/ (Source[a] = "usenet" /\ client[PathOf[a]].state = "finished")
          /\ Retryable(w) /\ UNCHANGED worldVars
       \/ /\ Source[a] = "usenet" /\ client[PathOf[a]].state # "finished"
          /\ IF client[PathOf[a]].state = "moving" THEN UNCHANGED worldVars
             ELSE DropRecord(a, TRUE) /\ UNCHANGED <<bundle, sent>>
          /\ Goto(w, "complete")
       \/ /\ Source[a] = "soulseek"
          /\ DropRecord(a, FALSE) /\ Goto(w, "source") /\ UNCHANGED <<bundle, sent>>
    /\ UNCHANGED <<journalVars, taskVars, claim>>

\* _cleanup_slskd_files: unlink the file at the path if it is the pinned one.
RemoveFile(w) ==
    LET a == wk[w].item
        p == PathOf[a]
        pin == claim[w][a].pin IN
    /\ wk[w].pc = "source" /\ Source[a] = "soulseek"
    /\ \/ CallFails /\ Retryable(w) /\ UNCHANGED disk
       \/ (pin = "unpinned" \/ disk[p] = NoAttempt) /\ Goto(w, "discard") /\ UNCHANGED disk
       \/ /\ pin # "unpinned" /\ disk[p] # NoAttempt
          /\ IF BytesOf[disk[p]] = pin
             THEN disk' = [disk EXCEPT ![p] = NoAttempt] /\ Goto(w, "discard")
             ELSE Unsafe(w, "other") /\ UNCHANGED disk
    /\ UNCHANGED <<journalVars, taskVars, bundle, client, sent, claim>>

\* _cleanup_usenet_workspace: what follows from the job's state and the evidence.
RemoveWorkspace(w) ==
    LET a == wk[w].item
        p == PathOf[a]
        c == claim[w][a]
        m == wk[w].found IN
    /\ wk[w].pc = "source" /\ Source[a] = "usenet"
    /\ \/ m = "failed" /\ Goto(w, "discard") /\ UNCHANGED disk
       \/ CallFails /\ m # "failed" /\ Retryable(w) /\ UNCHANGED disk
       \/ /\ m = "missing" /\ c.pin = "unpinned" /\ UNCHANGED disk
          /\ ~c.known /\ c.failures < UnresolvedJobRetries
          /\ Retryable(w)
       \/ /\ CallFails /\ m = "completed" /\ c.pin # "unpinned" /\ Retryable(w)
          /\ disk' = [disk EXCEPT ![p] = NoAttempt]
       \/ /\ m = "missing" /\ c.pin = "unpinned" /\ UNCHANGED disk
          /\ c.known \/ c.failures >= UnresolvedJobRetries
          /\ Goto(w, "complete")
       \/ /\ m = "missing" /\ c.pin # "unpinned" /\ UNCHANGED disk
          /\ IF disk[p] = NoAttempt THEN Goto(w, "complete") ELSE Unsafe(w, "other")
       \/ m = "completed" /\ c.pin = "unpinned" /\ Unsafe(w, "other") /\ UNCHANGED disk
       \/ /\ m = "completed" /\ c.pin # "unpinned"
          /\ disk' = [disk EXCEPT ![p] = NoAttempt] /\ Goto(w, "removed")
    /\ UNCHANGED <<journalVars, taskVars, bundle, client, sent, claim>>

\* The checkpoint between the workspace and the client's history.
MarkRemoved(w) ==
    /\ wk[w].pc = "removed"
    /\ Cas(w, [row[wk[w].item] EXCEPT !.state = "workspace_removed", !.error = "none"],
           "discard")
    /\ UNCHANGED <<taskVars, worldVars>>

\* discard_client_artifacts: SABnzbd refuses while the job is still queued, finds nothing
\* to do between queue and history, and deletes the bytes of a failed job only.
Queued(a) == Source[a] = "usenet" /\ client[PathOf[a]].state = "active"

Discarded(a) ==
    LET r == client[PathOf[a]].state IN
    /\ ~Queued(a)
    /\ IF r = "moving" THEN UNCHANGED worldVars
       ELSE DropRecord(a, Source[a] = "usenet" /\ r = "failed") /\ UNCHANGED <<bundle, sent>>

Discard(w) ==
    /\ wk[w].pc = "discard"
    /\ \/ /\ CallFails \/ Queued(wk[w].item)
          /\ Retryable(w) /\ UNCHANGED worldVars
       \/ Discarded(wk[w].item) /\ Goto(w, "complete")
    /\ UNCHANGED <<journalVars, taskVars, claim>>

\* _mark_complete.
MarkComplete(w) ==
    /\ wk[w].pc = "complete"
    /\ CasFinish(w, [Released(row[wk[w].item]) EXCEPT !.state = "complete", !.error = "none"])
    /\ UNCHANGED <<taskVars, worldVars>>

-----------------------------------------------------------------------------
(* _recheck_attention: rows set aside as unsafe *)

AttentionBarriers(w) ==
    LET c == claim[w][wk[w].item] IN
    /\ wk[w].pc = "attention"
    /\ Goto(w, IF {bundle[b] : b \in c.barriers} \subseteq {"completed"}
               THEN "attentionInspect" ELSE "attentionDefer")
    /\ UNCHANGED <<journalVars, taskVars, worldVars, claim>>

\* _attention_source_absent.
SourceAbsent(a, c, m) ==
    /\ m # "active"
    /\ IF /\ c.pin = "unpinned"
          /\ IF Source[a] = "usenet" THEN m = "missing" ELSE disk[PathOf[a]] = NoAttempt
       THEN m = "missing"
       ELSE disk[PathOf[a]] = NoAttempt

\* A row set aside for its publisher goes back to the queue; any other waits.
Reconsider(w) == Goto(w, IF claim[w][wk[w].item].error = "barrier"
                         THEN "attentionResume" ELSE "attentionDefer")

AttentionInspect(w) ==
    LET a == wk[w].item
        c == claim[w][a]
        m == Materialization(a) IN
    /\ wk[w].pc = "attentionInspect"
    /\ \/ CallFails /\ Goto(w, "attentionDefer")
       \/ SourceAbsent(a, c, m) /\ Goto(w, "attentionDiscard")
       \/ ~SourceAbsent(a, c, m) /\ Reconsider(w)
       \/ /\ Source[a] = "usenet" /\ c.pin = "unpinned" /\ m \in {"completed", "failed"}
          /\ Reconsider(w)    \* the history names no workspace in the mount
    /\ UNCHANGED <<journalVars, taskVars, worldVars, claim>>

AttentionDiscard(w) ==
    LET a == wk[w].item IN
    /\ wk[w].pc = "attentionDiscard"
    /\ \/ CallFails /\ Goto(w, "attentionDefer") /\ UNCHANGED worldVars
       \/ /\ Queued(a)
          /\ Reconsider(w) /\ UNCHANGED worldVars
       \/ Discarded(a) /\ Goto(w, "complete")
    /\ UNCHANGED <<journalVars, taskVars, claim>>

AttentionResume(w) ==
    /\ wk[w].pc = "attentionResume"
    /\ CasFinish(w, [Released(row[wk[w].item]) EXCEPT
                        !.state = "cleanup_pending", !.disposition = "discard",
                        !.due = TRUE, !.error = "none"])
    /\ UNCHANGED <<taskVars, worldVars>>

\* _defer_attention.
AttentionDefer(w) ==
    /\ wk[w].pc = "attentionDefer"
    /\ CasFinish(w, [Released(row[wk[w].item]) EXCEPT !.state = "needs_attention",
                                                     !.due = FALSE])
    /\ UNCHANGED <<taskVars, worldVars>>

-----------------------------------------------------------------------------
(* The except clauses of _process_claimed: reread the row, then write with ITS revision *)

Reread(w, pc) ==
    /\ current' = [current EXCEPT ![wk[w].item] = @ \union {w}]
    /\ Goto(w, pc)
    /\ UNCHANGED <<row, taskVars, worldVars, claim>>

UnsafeReread(w) == wk[w].pc = "unsafe" /\ Reread(w, "unsafeWrite")
RetryReread(w) == wk[w].pc = "retry" /\ Reread(w, "retryWrite")

\* A write of a handler, dropped when the row changed once more.
HandlerWrite(w, r) ==
    /\ IF w \in current[wk[w].item] THEN Write(wk[w].item, r, {w}) ELSE UNCHANGED journalVars
    /\ Finish(w)
    /\ UNCHANGED <<taskVars, worldVars>>

\* except _UnsafeCleanup.
UnsafeWrite(w) ==
    /\ wk[w].pc = "unsafeWrite"
    /\ HandlerWrite(w, [Released(row[wk[w].item]) EXCEPT
                          !.state = "needs_attention", !.disposition = "preserve",
                          !.due = FALSE, !.error = wk[w].code])

\* except _RetryableCleanup and except Exception: record_download_cleanup_failure.
RetryWrite(w) ==
    LET r == row[wk[w].item] IN
    /\ wk[w].pc = "retryWrite"
    /\ HandlerWrite(w, [Released(r) EXCEPT
                          !.failures = IF @ < UnresolvedJobRetries THEN @ + 1 ELSE @,
                          !.due = FALSE, !.error = "other"])

-----------------------------------------------------------------------------
(* Time, the client, the publisher and failures *)

Elapse(a) ==
    /\ Exists(a) /\ ~row[a].due
    /\ row' = [row EXCEPT ![a].due = TRUE]
    /\ UNCHANGED <<current, taskVars, worldVars, workerVars>>

\* lease_expires_at passes: of an owner that is gone, or that has not begun the item.
LeaseExpires(a) ==
    /\ Exists(a) /\ row[a].owner # NoWorker
    /\ LET w == row[a].owner IN
       claim[w][a] = NoRow \/ ("batchOutlivesLease" \in Admits /\ wk[w].item # a)
    /\ row' = [row EXCEPT ![a].owner = NoWorker]
    /\ UNCHANGED <<current, taskVars, worldVars, workerVars>>

\* Only SABnzbd hands a job from its queue to its history.
TransferMoves(p) ==
    /\ client[p].state = "active" /\ Source[client[p].by] = "usenet"
    /\ client' = [client EXCEPT ![p].state = "moving"]
    /\ UNCHANGED <<journalVars, taskVars, bundle, disk, sent, workerVars>>

TransferEnds(p) ==
    /\ \/ client[p].state = "active" /\ Source[client[p].by] = "soulseek"
       \/ client[p].state = "moving"
    /\ \E final \in {"finished", "failed"} :
        /\ client' = [client EXCEPT ![p].state = final]
        /\ disk' \in IF final = "finished" THEN {[disk EXCEPT ![p] = client[p].by]}
                     ELSE {disk, [disk EXCEPT ![p] = client[p].by]}
    /\ UNCHANGED <<journalVars, taskVars, bundle, sent, workerVars>>

\* A person takes away the files of a row set aside.
RemovedByHand(a) ==
    /\ "removedByHand" \in Admits
    /\ InState(a, {"needs_attention"}) /\ using[TaskOf[a]] # a
    /\ disk' = [disk EXCEPT ![PathOf[a]] = NoAttempt]
    /\ UNCHANGED <<journalVars, taskVars, bundle, client, sent, workerVars>>

\* The publisher or its recovery ends the publication; preparing, publishing,
\* catalog_committed and cleanup_pending, which the barriers do not tell apart, are
\* "publishing".  Nothing leaves needs_attention.
PublisherStep(a) ==
    /\ bundle[a] = "publishing"
    /\ \E s \in {"completed", "rolled_back", "needs_attention"} :
          bundle' = [bundle EXCEPT ![a] = s]
    /\ UNCHANGED <<journalVars, taskVars, disk, client, sent, workerVars>>

\* cancel_task stops the coroutine a cleanup_now runs in.
KillWorker(w) ==
    /\ w # Sweeper /\ ~Free(w)
    /\ wk' = [wk EXCEPT ![w] = Idle]
    /\ claim' = [claim EXCEPT ![w] = [a \in Attempts |-> NoRow]]
    /\ UNCHANGED <<journalVars, taskVars, worldVars>>

\* The process stops and starts again: rows, files, manifests and client records
\* survive.  The circumstance under which it may stop at this moment of task t:
MomentOf(t) ==
    CASE status[t] = "switching" -> {"stopAtSwitch"}
      [] ReimportRuns(t) -> {"stopInReimport"}
      [] status[t] = "active" /\ using[t] # NoAttempt /\ ~manifest[t] -> {"stopBeforeManifest"}
      [] OTHER -> {"stop"}

Restart ==
    /\ \A t \in Tasks : MomentOf(t) \subseteq Admits
    /\ status' = [t \in Tasks |-> IF status[t] \in {"switching", "reimporting"}
                                  THEN "active" ELSE status[t]]
    /\ using' = [t \in Tasks |-> NoAttempt]
    /\ nudged' = {}
    /\ claim' = [w \in Workers |-> [a \in Attempts |-> NoRow]]
    /\ wk' = [w \in Workers |-> Idle]
    /\ UNCHANGED <<journalVars, link, manifest, worldVars>>

-----------------------------------------------------------------------------
PipelineStep ==
    \/ \E a \in Attempts :
         \/ CreateAttempt(a) \/ SendEnqueue(a) \/ AcceptHandle(a) \/ Publish(a)
         \/ FailOver(a) \/ Reimport(a) \/ Resume(a) \/ ExpirePreserved(a)
         \/ \E final \in TerminalStatuses : Finalize(a, final)
    \/ \E t \in Tasks :
         LinkCandidate(t) \/ FailPreserving(t) \/ ReapReimport(t) \/ Cancel(t)

ItemStep(w) ==
    \/ CheckBarriers(w) \/ DeferForPublisher(w) \/ Inspect(w) \/ RecordEvidence(w)
    \/ Abort(w) \/ RemoveFile(w) \/ RemoveWorkspace(w) \/ MarkRemoved(w) \/ Discard(w)
    \/ MarkComplete(w) \/ AttentionBarriers(w) \/ AttentionInspect(w)
    \/ AttentionDiscard(w) \/ AttentionResume(w) \/ AttentionDefer(w)
    \/ UnsafeReread(w) \/ UnsafeWrite(w) \/ RetryReread(w) \/ RetryWrite(w)

WorkerStep ==
    \E w \in Workers :
        \/ RunOnce(w) \/ ItemStep(w) \/ KillWorker(w)
        \/ \E a \in Attempts : CleanupNow(w, a) \/ Begin(w, a)

WorldStep ==
    \/ \E a \in Attempts :
         \/ ClientEnqueue(a) \/ Elapse(a) \/ LeaseExpires(a) \/ PublisherStep(a)
         \/ RemovedByHand(a)
    \/ \E p \in Paths : TransferMoves(p) \/ TransferEnds(p)
    \/ Restart

Next == PipelineStep \/ WorkerStep \/ WorldStep

Spec == Init /\ [][Next]_vars

\* The sweep loop of core/tasks.py keeps its worker running, and time passes.  The
\* client and the mount work again and again (SF), though any one call of theirs may
\* fail, and a publication ends.  Nothing is assumed of the pipelines and of cleanup_now;
\* but a user who cancels or an operator who restarts for ever, each time under a sweep,
\* could starve it.  A pipeline publishes once per request, which Publish does not count.
Answered(w, pc) == wk[w].pc = pc /\ ItemStep(w) /\ wk'[w].pc # "retry"
Interrupt == Restart \/ (\E t \in Tasks : Cancel(t)) \/ (\E a \in Attempts : Publish(a))

FairSpec ==
    /\ Spec
    /\ WF_vars(RunOnce(Sweeper)) /\ WF_vars(ItemStep(Sweeper))
    /\ WF_vars(\E a \in Attempts : Begin(Sweeper, a))
    /\ \A a \in Attempts :
          /\ WF_vars(Elapse(a)) /\ WF_vars(LeaseExpires(a))
          /\ WF_vars(PublisherStep(a))
    /\ \A p \in Paths : WF_vars(TransferMoves(p) \/ TransferEnds(p))
    /\ \A pc \in {"inspect", "abort", "source", "discard"} : SF_vars(Answered(Sweeper, pc))
    /\ <>[][~Interrupt]_vars

-----------------------------------------------------------------------------
(* Properties *)

\* Worker w removes, in this step, the bytes at its attempt's path.
Deletes(w) ==
    /\ wk[w].item # NoAttempt /\ wk'[w] # wk[w]
    /\ disk[PathOf[wk[w].item]] # NoAttempt
    /\ disk'[PathOf[wk[w].item]] = NoAttempt

\* Worker w writes, in this step, the row it is processing.
WritesRow(w) ==
    /\ wk[w].item # NoAttempt /\ wk'[w] # wk[w]
    /\ row'[wk[w].item] # row[wk[w].item]

\* No cleanup worker removes the bytes of an attempt that a pipeline or a reimport is
\* working on: acquire_download_attempt_for_reimport, the cleanup leases and the CAS
\* on row_revision exclude each other.
DeletesNothingInUse ==
    [][\A w \in Workers : Deletes(w) => using[TaskOf[wk[w].item]] # wk[w].item]_vars

\* Source cleanup starts only after the publication of the attempt's files is over: the
\* barriers on the row survive failover, cancellation, restart and reimport.  Not where a
\* task publishes files at a path that an earlier attempt of its own has yet to clean up
\* (pathAgain): the barriers of that row are those of its last import.
SourceOutlivesPublication ==
    [][\A w \in Workers : Deletes(w) => bundle[BundleOf[wk[w].item]] \in {"none", "completed"}]_vars

\* A row that completes after the client reported the job over leaves none of its
\* bytes behind, whatever happened between the inspection and the last CAS.
CleanCompletion ==
    [][\A w \in Workers :
        /\ WritesRow(w) /\ wk[w].pc = "complete" /\ row'[wk[w].item].state = "complete"
        /\ wk[w].found \in {"completed", "failed"}
        => disk[PathOf[wk[w].item]] # wk[w].item]_vars

\* A terminal task leaves no attempt in "acquiring" or "in_use": no query of the cleanup
\* worker, the retention or the reimport selects such a row once its pipeline is gone,
\* so its bytes would stay with the client for ever.
NoOrphanedAttempt ==
    \A a \in Attempts :
        status[TaskOf[a]] \in TerminalStatuses /\ using[TaskOf[a]] = NoAttempt
        => ~InState(a, Open)

\* A cleanup debt is discharged or set aside for a person, unless the row is taken back:
\* no fault, cancellation, kill or restart between two steps makes it stay for ever.
DebtIsDischarged ==
    \A a \in Attempts :
        InState(a, {"cleanup_pending", "workspace_removed"})
        ~> InState(a, Open \union Settled \union {"preserved"})
=============================================================================
