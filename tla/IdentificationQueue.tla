------------------------- MODULE IdentificationQueue -------------------------
(***************************************************************************)
(* The durable queue that identifies albums (library_identification_jobs)  *)
(* and what meets in it: scans that enqueue changed albums and apply the   *)
(* library policy, one worker (run_target_identification_worker), the      *)
(* circuit breaker of the provider, and the people who decide the reviews. *)
(*                                                                         *)
(* An album is one track.  Its input, the digest that album_input_revision *)
(* makes of tags, files and policy, is the pair of two revisions.  A job   *)
(* and a review carry an input_revision, their key: the digest, or, when   *)
(* reconciliation made the job, the revision of the policy alone.          *)
(* Priorities are left out: any due job may be claimed.  Wakeups only      *)
(* shorten the wait of 31 s, and a scan only holds claims back for a time. *)
(***************************************************************************)
EXTENDS Naturals, Sequences

CONSTANTS
    Albums,
    Files,         \* bound: revisions of the files (tags, stat) of an album
    Effective,     \* Effective[p]: what revision p of the library policy says
    MaxDeferrals,  \* MAX_DEFERRAL_ATTEMPTS
    MaxEvents,     \* bound: changes, decisions, controls, faults and stops
    Admits         \* the circumstances of this instance

Circumstances ==
    {"decisionMeetsWork",  \* an album is kept as tagged while a job of it is running, or one
                           \* of kind post_processing is queued
     "otherReview",        \* a decision on a review whose key is not the album's digest now
     "policyWithdrawn",    \* a policy is followed by another before scans have applied it,
                           \* be it because an album's files are missing
     "reviewOfMissing",    \* the files of an album whose review is open are found missing
     "graceRunsOut",       \* the job of a missing album is not touched for 24 h
     "flakyProvider"}      \* a provider fails again and again, and its breaker stays closed

Policies == DOMAIN Effective

ASSUME IdentificationAssumption ==
    /\ Files \in Nat \ {0} /\ MaxDeferrals \in Nat \ {0} /\ MaxEvents \in Nat
    /\ Effective \in Seq({"automatic", "local_metadata"})
    /\ Effective # <<>> /\ Effective[1] = "automatic"
    /\ Admits \subseteq Circumstances

VARIABLES
    album,     \* local_albums with their tracks, pending grouping context and identity
    jobs,      \* jobs[a][kind][key]: the newest row of a dedupe_key
    reviews,   \* reviews[a][key]: the review that is not resolved
    policy,    \* library_policy_state.desired_policy_revision
    paused,    \* library_work_control.state = 'paused'
    breaker,   \* CircuitState of the provider
    worker,    \* the loop: where it is, its job, and what run_claimed_job has read
    left,      \* what the bound leaves
    word       \* history: the last decision on an album, and the input it was about

vars == <<album, jobs, reviews, policy, paused, breaker, worker, left, word>>

Kinds == {"automatic", "post_processing"}
Inputs == (1 .. Files) \X Policies
Keys == (0 .. Files) \X Policies          \* <<0, p>>: the key is a policy revision
PolicyKey(p) == <<0, p>>

Sources == {"none", "automatic", "embedded", "manual"}

\* The last_failure_code of an active row, as far as something reads it, and its state.  Of
\* the terminal ones, "failed" is the one an enqueue may take up again (its attention_cause
\* is PROVIDER_TEMPORARILY_UNAVAILABLE); "ended" is any other.
Codes == {"none", "SUBJECT_NOT_AVAILABLE", "PROVIDER_TEMPORARILY_UNAVAILABLE"}
JobStates == {"absent", "queued", "running", "failed", "ended"}

Absent == [state |-> "absent", attempts |-> 0, due |-> TRUE, failure |-> "none"]
Ended(state) == [Absent EXCEPT !.state = state]
NewJob == [Absent EXCEPT !.state = "queued"]
Nothing == PolicyKey(1)
NoIdentity == [source |-> "none", of |-> Nothing]
Resolved == [state |-> "resolved", about |-> Nothing, seen |-> NoIdentity, attempted |-> FALSE]
NoWord == [said |-> "none", about |-> Nothing]
SomeAlbum == CHOOSE a \in Albums : TRUE
Idle == [pc |-> "idle", album |-> SomeAlbum, kind |-> "automatic", key |-> Nothing,
         input |-> Nothing, seen |-> NoIdentity, source |-> "none", result |-> "none"]

Identities == [source : Sources, of : Keys]

TypeOK ==
    /\ album \in [Albums -> [files : 1 .. Files, policy : Policies, barred : BOOLEAN,
                             where : {"indexed", "missing", "retired"}, owed : BOOLEAN,
                             identity : Identities]]
    /\ \A a \in Albums : \A key \in Keys :
          /\ \A kind \in Kinds :
                jobs[a][kind][key] \in [state : JobStates, attempts : Nat,
                                        due : BOOLEAN, failure : Codes]
          /\ reviews[a][key] \in [state : {"needs_review", "keep_tagged", "excluded", "resolved"},
                                  about : Keys, seen : Identities, attempted : BOOLEAN]
    /\ policy \in Policies /\ paused \in BOOLEAN /\ breaker \in {"closed", "open", "half_open"}
    /\ worker.pc \in {"idle", "claimed", "evaluating", "halting", "finishing", "deferring", "failing"}
    /\ left \in 0 .. MaxEvents
    /\ word \in [Albums -> [said : {"none", "keep", "accept", "other"}, about : Keys]]
    \* What the worker has in hand is running: nothing takes a running job from it.
    /\ worker.pc # "idle" => jobs[worker.album][worker.kind][worker.key].state = "running"

Init ==
    /\ album = [a \in Albums |-> [files |-> 1, policy |-> 1, barred |-> FALSE, where |-> "indexed",
                                  owed |-> TRUE, identity |-> NoIdentity]]
    /\ jobs = [a \in Albums |-> [kind \in Kinds |-> [key \in Keys |-> Absent]]]
    /\ reviews = [a \in Albums |-> [key \in Keys |-> Resolved]]
    /\ policy = 1 /\ paused = FALSE /\ breaker = "closed"
    /\ worker = Idle
    /\ left = MaxEvents
    /\ word = [a \in Albums |-> NoWord]

-----------------------------------------------------------------------------
(* Helpers *)

\* One more event of those the bound counts.
Happens == left > 0 /\ left' = left - 1

\* album_input_revisions of the rows of an album.
Input(a) == <<album[a].files, album[a].policy>>

Indexed(a) == album[a].where = "indexed" /\ ~album[a].barred
Automatic(a) == Effective[album[a].policy] = "automatic"

Active == {"queued", "running"}
Rows == Kinds \X Keys
Row(a, r) == jobs[a][r[1]][r[2]]
HasActive(a) == \E r \in Rows : Row(a, r).state \in Active

Unresolved(a) == {key \in Keys : reviews[a][key].state # "resolved"}
Decided(a) == {key \in Keys : reviews[a][key].state \in {"keep_tagged", "excluded"}}

\* Mutant of Cancelled: running jobs are cancelled as well.
CancelledRunning(a) ==
    [jobs[a] EXCEPT !["automatic"] = [key \in Keys |->
        IF @[key].state \in {"queued", "running"} THEN Ended("ended") ELSE @[key]]]

\* Jobs of album a with its queued automatic ones cancelled.
Cancelled(a) ==
    [jobs[a] EXCEPT !["automatic"] = [key \in Keys |->
        IF @[key].state = "queued" THEN Ended("ended") ELSE @[key]]]

\* Reviews of album a without those that need a review.
Settled(a) ==
    [key \in Keys |-> IF reviews[a][key].state = "needs_review" THEN Resolved ELSE reviews[a][key]]

-----------------------------------------------------------------------------
(* Scans: what is indexed, grouped and reconciled *)

scanVars == <<paused, worker, word>>

\* commit_scan_index_batch: changed files are indexed under the policy of the scan, and
\* their directory has to be grouped.
Indexing(a, files) ==
    album' = [album EXCEPT ![a] = [@ EXCEPT !.files = files, !.policy = policy,
                                            !.where = "indexed", !.owed = TRUE]]

Change(a) ==
    /\ album[a].where # "retired" /\ album[a].files < Files
    /\ Happens
    /\ Indexing(a, album[a].files + 1)
    /\ UNCHANGED <<jobs, reviews, policy, breaker, scanVars>>

\* Another file of the same directory has changed: all its albums are grouped again.
Regroup(a) ==
    /\ album[a].where = "indexed" /\ ~album[a].owed
    /\ Happens
    /\ album' = [album EXCEPT ![a].owed = TRUE]
    /\ UNCHANGED <<jobs, reviews, policy, breaker, scanVars>>

\* Grouping finds that the tracks belong to another album.
Retire(a) ==
    /\ album[a].where = "indexed" /\ album[a].owed
    /\ Happens
    /\ album' = [album EXCEPT ![a].where = "retired", ![a].owed = FALSE]
    /\ UNCHANGED <<jobs, reviews, policy, breaker, scanVars>>

\* provider_available: to ask may move an open breaker to half open (is_open).
Asked(available) ==
    \/ breaker # "open" /\ available /\ UNCHANGED breaker
    \/ breaker = "open" /\ ~available /\ UNCHANGED breaker
    \/ breaker = "open" /\ available /\ breaker' = "half_open"

\* What an enqueue may make of the jobs of one kind: a row of the same key stays what it
\* is, or comes back; a queued one of another key is taken over; else there is a new one.
Enqueued(rows, key, available) ==
    LET queued == {k \in Keys : rows[k].state = "queued"} IN
    IF rows[key].state # "absent"
    THEN {IF available /\ rows[key].state = "failed" THEN [rows EXCEPT ![key] = NewJob] ELSE rows}
    ELSE IF queued # {} THEN {[rows EXCEPT ![k] = Absent, ![key] = rows[k]] : k \in queued}
    ELSE {[rows EXCEPT ![key] = NewJob]}

\* Mutant of Refuses: the input of the decision is not compared.
RefusesExcluded(decision, key, newKey) == decision.state = "excluded"

\* A decision, on the review of input_revision key, refuses a job for newKey: an exclusion
\* always, keep_tagged one for the same input_revision.
Refuses(decision, key, newKey) == decision.state = "excluded" \/ key = newKey

\* _enqueue_identification_job_result, for the digest of the album.  A decision that does
\* not refuse it is resolved by it.
EnqueueJob(a, kind) ==
    \E available \in BOOLEAN :
        /\ Asked(available)
        /\ LET Queues == \E rows \in Enqueued(jobs[a][kind], Input(a), available) :
                            jobs' = [jobs EXCEPT ![a][kind] = rows]
           IN  IF Decided(a) = {} THEN Queues /\ UNCHANGED reviews
               ELSE \E key \in Decided(a) :
                       IF Refuses(reviews[a][key], key, Input(a)) THEN UNCHANGED <<jobs, reviews>>
                       ELSE Queues /\ reviews' = [reviews EXCEPT ![a][key] = Resolved]

\* Grouping enqueues the albums of a directory, then completes its context; a stop in
\* between leaves it pending.  Under local_metadata only embedded identities are looked up.
Enqueue(a) ==
    /\ album[a].owed /\ album[a].where # "retired"
    /\ \/ Automatic(a) /\ EnqueueJob(a, "automatic")
       \/ ~Automatic(a) /\ EnqueueJob(a, "post_processing")
       \/ ~Automatic(a) /\ UNCHANGED <<jobs, reviews, breaker>>
    /\ \/ album' = [album EXCEPT ![a].owed = FALSE] /\ UNCHANGED left
       \/ Happens /\ UNCHANGED album
    /\ UNCHANGED <<policy, scanVars>>

\* Whoever looks at the coverage of an album whose identity was found for another input.
Reconsider(a) ==
    /\ Indexed(a) /\ Automatic(a)
    /\ album[a].identity.source \in {"automatic", "embedded"} /\ album[a].identity.of # Input(a)
    /\ EnqueueJob(a, "automatic")
    /\ UNCHANGED <<album, policy, left, scanVars>>

\* The hygiene repair has changed the catalogue entry of an album.
Repair(a) ==
    /\ album[a].where # "retired"
    /\ Happens
    /\ EnqueueJob(a, "post_processing")
    /\ UNCHANGED <<album, policy, scanVars>>

\* Where a new policy may follow the one before: scans have applied that to every album.
PolicyApplied == \A a \in Albums : album[a].where # "retired" => album[a].policy = policy

\* apply_desired_policy: the jobs a new policy prohibits are cancelled at once.
SetPolicy(p) ==
    /\ p # policy
    /\ (p > policy /\ PolicyApplied) \/ "policyWithdrawn" \in Admits
    /\ Happens
    /\ policy' = p
    /\ jobs' = IF Effective[p] = "automatic" THEN jobs
               ELSE [a \in Albums |-> IF album[a].where = "retired" THEN jobs[a] ELSE Cancelled(a)]
    /\ UNCHANGED <<album, reviews, breaker, scanVars>>

Protected(a) ==
    album[a].identity.source # "none" \/ \E key \in Keys : reviews[a][key].state = "keep_tagged"

\* reconcile_scan_scope_batch for a file that was found: a job of its own, with the policy
\* revision for its key, where the policy has become automatic.
Reconciles(a) ==
    LET rows == jobs[a]["automatic"]
        key == PolicyKey(policy)
        queues == /\ Effective[policy] = "automatic" /\ ~Automatic(a) /\ ~album[a].barred
                  /\ ~Protected(a) /\ rows[key].state \notin Active
    IN
    /\ album' = [album EXCEPT ![a].policy = policy, ![a].where = "indexed"]
    /\ jobs' = IF queues THEN [jobs EXCEPT ![a]["automatic"][key] = NewJob] ELSE jobs
    /\ UNCHANGED <<reviews, policy, breaker, left, scanVars>>

ApplyPolicy(a) == album[a].where = "indexed" /\ album[a].policy # policy /\ Reconciles(a)

\* The files of an album are gone; every scan says so again.
Vanish(a) ==
    /\ album[a].where \in {"indexed", "missing"}
    /\ Settled(a) = reviews[a] \/ "reviewOfMissing" \in Admits
    /\ IF album[a].where = "indexed" THEN Happens ELSE UNCHANGED left
    /\ album' = [album EXCEPT ![a].where = "missing"]
    /\ reviews' = [reviews EXCEPT ![a] = Settled(a)]
    /\ UNCHANGED <<jobs, policy, breaker, scanVars>>

\* They are back as they were (if they have changed, that is Change).
Return(a) == album[a].where = "missing" /\ Reconciles(a)

-----------------------------------------------------------------------------
(* People *)

decisionVars == <<policy, paused, breaker, worker>>

\* apply_review_decision, accept_review_candidate: whatever is said, the queued automatic
\* jobs of the album are cancelled.  The revisions of the catalogue and of the review make
\* sure that it is said of what is there.
Decides(a, key, said, review) ==
    /\ key = Input(a) \/ "otherReview" \in Admits
    /\ Happens
    /\ reviews' = [reviews EXCEPT ![a][key] = review]
    /\ word' = [word EXCEPT ![a] = [said |-> said, about |-> reviews[a][key].about]]
    /\ UNCHANGED decisionVars

Open(a, key) == reviews[a][key].state \in {"needs_review", "keep_tagged"}

\* The jobs of an album that a decision does not cancel.
Spared(a) ==
    {r \in Rows : \/ Row(a, r).state = "running"
                  \/ r[1] = "post_processing" /\ Row(a, r).state = "queued"}

\* keep_tagged, or detach_keep_tagged where there is an identity.
Keep(a, key) ==
    /\ Open(a, key)
    /\ Spared(a) = {} \/ "decisionMeetsWork" \in Admits
    /\ album' = [album EXCEPT ![a].identity = NoIdentity]
    /\ jobs' = [jobs EXCEPT ![a] = Cancelled(a)]
    /\ Decides(a, key, "keep", [reviews[a][key] EXCEPT !.state = "keep_tagged"])

Exclude(a, key) ==
    /\ Open(a, key)
    /\ album' = [album EXCEPT ![a].barred = TRUE]
    /\ jobs' = [jobs EXCEPT ![a] = Cancelled(a)]
    /\ Decides(a, key, "other", [reviews[a][key] EXCEPT !.state = "excluded"])

\* The tracks are indexed again, also those whose files are missing.
Restore(a, key) ==
    /\ reviews[a][key].state = "excluded" /\ album[a].barred
    /\ album' = [album EXCEPT ![a].barred = FALSE,
                              ![a].where = IF @ = "missing" THEN "indexed" ELSE @]
    /\ jobs' = [jobs EXCEPT ![a] = Cancelled(a)]
    /\ Decides(a, key, "other", Resolved)

\* Failed jobs of the same input_revision no longer ask for attention.
Dismiss(a, key) ==
    /\ key \in Unresolved(a)
    /\ jobs' = [jobs EXCEPT ![a] = [kind \in Kinds |-> [Cancelled(a)[kind] EXCEPT ![key] =
                   IF @.state = "failed" THEN Ended("ended") ELSE @]]]
    /\ Decides(a, key, "other", Resolved)
    /\ UNCHANGED album

\* The evidence of the review is that of the files and of the identity as they are.
EvidenceHolds(a, review) ==
    review.attempted /\ Indexed(a) /\ review.about = Input(a) /\ review.seen = album[a].identity

Accept(a, key) ==
    /\ Open(a, key) /\ EvidenceHolds(a, reviews[a][key])
    /\ album' = [album EXCEPT ![a].identity = [source |-> "manual", of |-> Input(a)]]
    /\ jobs' = [jobs EXCEPT ![a] = Cancelled(a)]
    /\ Decides(a, key, "accept", Resolved)

PauseQueue ==
    /\ ~paused /\ Happens
    /\ paused' = TRUE
    /\ UNCHANGED <<album, jobs, reviews, policy, breaker, worker, word>>

ResumeQueue ==
    /\ paused
    /\ paused' = FALSE
    /\ UNCHANGED <<album, jobs, reviews, policy, breaker, worker, left, word>>

-----------------------------------------------------------------------------
(* The worker: run_target_identification_worker and run_claimed_job *)

At(pc) == worker.pc = pc
Goes(pc) == worker' = IF pc = "idle" THEN Idle ELSE [worker EXCEPT !.pc = pc]
Ends(pc, result) == worker' = [worker EXCEPT !.pc = pc, !.result = result]
Defers(code) == Ends("deferring", code)

A == worker.album
R == <<worker.kind, worker.key>>
Mine == Row(A, R)
SetRow(a, r, row) == jobs' = [jobs EXCEPT ![a][r[1]][r[2]] = row]

workVars == <<policy, paused, word>>

\* claim_identification_job
Claim(a, r) ==
    /\ At("idle") /\ ~paused
    /\ Row(a, r).state = "queued" /\ Row(a, r).due
    /\ SetRow(a, r, [Row(a, r) EXCEPT !.state = "running", !.attempts = @ + 1])
    /\ worker' = [Idle EXCEPT !.pc = "claimed", !.album = a, !.kind = r[1], !.key = r[2]]
    /\ UNCHANGED <<album, reviews, breaker, left, workVars>>

Outcomes == {"identified", "contradictory", "unclear"}

\* get_album_identification_context and what follows from it alone: the album is gone, it
\* has no indexed track, its tags tell (or nothing else may be asked), the provider is
\* down, or it is asked.
ReadContext ==
    LET read == [worker EXCEPT !.input = Input(A), !.seen = album[A].identity] IN
    /\ At("claimed")
    /\ \/ /\ album[A].where = "retired"
          /\ Ends("failing", "SUBJECT_NOT_AVAILABLE") /\ UNCHANGED breaker
       \/ /\ album[A].where # "retired" /\ ~Indexed(A)
          /\ Defers("SUBJECT_NOT_AVAILABLE") /\ UNCHANGED breaker
       \/ /\ Indexed(A)
          /\ \E outcome \in Outcomes : worker' = [read EXCEPT !.pc = "finishing", !.result = outcome,
                                                            !.source = "embedded"]
          /\ UNCHANGED breaker
       \/ /\ Indexed(A) /\ Automatic(A)
          /\ \E available \in BOOLEAN :
                /\ Asked(available)
                /\ IF available THEN worker' = [read EXCEPT !.pc = "evaluating"]
                   ELSE Defers("PROVIDER_TEMPORARILY_UNAVAILABLE")
    /\ UNCHANGED <<album, jobs, reviews, left, workVars>>

\* The calls to the provider and their checkpoints: the queue was paused, the provider or
\* the fingerprinter failed, or there is an outcome.
Evaluate ==
    /\ At("evaluating")
    /\ \/ paused /\ Goes("halting") /\ UNCHANGED left
       \/ /\ Defers("PROVIDER_TEMPORARILY_UNAVAILABLE")
          /\ IF "flakyProvider" \in Admits THEN UNCHANGED left ELSE Happens
       \/ /\ \E outcome \in Outcomes : worker' = [worker EXCEPT !.pc = "finishing", !.result = outcome,
                                                              !.source = "automatic"]
          /\ UNCHANGED left
    /\ UNCHANGED <<album, jobs, reviews, breaker, workVars>>

\* checkpoint_identification_pause.  If the queue was resumed since, it is stale, and the
\* loop defers the job.
Halt ==
    /\ At("halting")
    /\ IF paused
       THEN SetRow(A, R, [Mine EXCEPT !.state = "queued", !.attempts = @ - 1]) /\ Goes("idle")
       ELSE Defers("UNEXPECTED_ERROR") /\ UNCHANGED jobs
    /\ UNCHANGED <<album, reviews, breaker, left, workVars>>

\* The files or the identity are not those that were evaluated.  (Where only the row of the
\* album was touched, the StaleRevisionError is a Fault.)
Stale == ~Indexed(A) \/ Input(A) # worker.input \/ album[A].identity # worker.seen

\* A review of a job that did not identify its album: the one that is open, or a new one.
Reviewed(review, about, seen, attempted) ==
    [state |-> IF review.state = "resolved" THEN "needs_review" ELSE review.state,
     about |-> about, seen |-> seen, attempted |-> attempted]

\* finish_identification_job: an identity a user chose stays; an automatic one that is
\* contradicted goes.
Finish ==
    LET identity == album[A].identity
        found == [source |-> worker.source, of |-> worker.input]
        identified == worker.result = "identified"
        kept == identity.source = "manual"
        dropped == worker.result = "contradictory" /\ identity.source = "automatic"
    IN
    /\ At("finishing") /\ ~Stale
    /\ album' = IF identified /\ ~kept THEN [album EXCEPT ![A].identity = found]
                ELSE IF dropped THEN [album EXCEPT ![A].identity = NoIdentity] ELSE album
    /\ reviews' = IF identified THEN [reviews EXCEPT ![A] = Settled(A)]
                  ELSE [reviews EXCEPT ![A][worker.key] =
                           Reviewed(@, worker.input, worker.seen, TRUE)]
    /\ SetRow(A, R, Ended("ended"))
    /\ Goes("idle")
    /\ UNCHANGED <<breaker, left, workVars>>

FinishStale ==
    /\ At("finishing") /\ Stale
    /\ Defers("UNEXPECTED_ERROR")
    /\ UNCHANGED <<album, jobs, reviews, breaker, left, workVars>>

Failed(cause) == Ended(IF cause = "PROVIDER_TEMPORARILY_UNAVAILABLE" THEN "failed" ELSE "ended")

\* Mutant of FailJob: no review is left behind.
FailJobSilently(cause) == SetRow(A, R, Failed(cause)) /\ UNCHANGED reviews

\* terminal_fail_identification_job: the failure is left to people as a review.
FailJob(cause) ==
    LET about == IF worker.key[1] = 0 THEN Input(A) ELSE worker.key IN
    /\ SetRow(A, R, Failed(cause))
    /\ reviews' = IF worker.key \in Unresolved(A) THEN reviews
                  ELSE [reviews EXCEPT ![A][worker.key] =
                           Reviewed(@, about, NoIdentity, FALSE)]

Fail ==
    /\ At("failing")
    /\ FailJob(worker.result)
    /\ Goes("idle")
    /\ UNCHANGED <<album, breaker, left, workVars>>

Exhausted(row) == row.attempts >= MaxDeferrals

Code(result) == IF result \in Codes THEN result ELSE "none"

\* IdentificationQueueService.defer: with backoff, and not for ever.
Defer ==
    /\ At("deferring")
    /\ IF Exhausted(Mine) THEN FailJob(worker.result)
       ELSE /\ SetRow(A, R, [Mine EXCEPT !.state = "queued", !.due = FALSE, !.failure = Code(worker.result)])
            /\ UNCHANGED reviews
    /\ Goes("idle")
    /\ UNCHANGED <<album, breaker, left, workVars>>

\* An exception defers the job; one while it is deferred leaves it running.
Fault ==
    /\ ~At("idle") /\ Happens
    /\ IF worker.pc \in {"deferring", "failing"} THEN Goes("idle") ELSE Defers("UNEXPECTED_ERROR")
    /\ UNCHANGED <<album, jobs, reviews, breaker, workVars>>

\* recover_expired_identification_leases, for a job that nobody has in hand.
Recover(a, r) ==
    /\ At("idle") /\ Row(a, r).state = "running"
    /\ SetRow(a, r, [Row(a, r) EXCEPT !.state = "queued"])
    /\ UNCHANGED <<album, reviews, breaker, worker, left, workVars>>

\* gc_stale_identification_jobs
CollectStale(a, r) ==
    /\ album[a].where = "retired" \/ album[a].barred \/ "graceRunsOut" \in Admits
    /\ At("idle") /\ Row(a, r).state = "queued" /\ Row(a, r).failure = "SUBJECT_NOT_AVAILABLE"
    /\ SetRow(a, r, Ended("ended"))
    /\ UNCHANGED <<album, reviews, breaker, worker, left, workVars>>

Deferred(row) == row.state = "queued" /\ row.failure = "PROVIDER_TEMPORARILY_UNAVAILABLE"

\* Mutant of ProviderBack: the sweep does not look at the breaker.
ProviderHoped == TRUE

ProviderBack == breaker = "closed"

\* The sweep every 60 s: jobs that wait for a provider that is back start afresh.
Sweep ==
    /\ At("idle") /\ ProviderBack
    /\ \E a \in Albums, r \in Rows : Deferred(Row(a, r))
    /\ jobs' = [a \in Albums |-> [kind \in Kinds |-> [key \in Keys |->
                  LET row == jobs[a][kind][key] IN IF Deferred(row) THEN NewJob ELSE row]]]
    /\ UNCHANGED <<album, reviews, breaker, worker, left, workVars>>

-----------------------------------------------------------------------------
(* The surroundings *)

\* not_before is past.
Elapse(a, r) ==
    /\ Row(a, r).state = "queued" /\ ~Row(a, r).due
    /\ SetRow(a, r, [Row(a, r) EXCEPT !.due = TRUE])
    /\ UNCHANGED <<album, reviews, breaker, worker, left, workVars>>

\* Calls of anybody, the probe of the sweep among them, close or open the breaker.
Trip ==
    /\ breaker # "open" /\ Happens
    /\ breaker' = "open"
    /\ UNCHANGED <<album, jobs, reviews, worker, workVars>>

Close ==
    /\ breaker = "half_open"
    /\ breaker' = "closed"
    /\ UNCHANGED <<album, jobs, reviews, worker, left, workVars>>

\* The process stops and starts again, with a new breaker.
Restart ==
    /\ Happens
    /\ worker' = Idle /\ breaker' = "closed"
    /\ UNCHANGED <<album, jobs, reviews, workVars>>

-----------------------------------------------------------------------------
ScanStep(a) ==
    \/ Change(a) \/ Regroup(a) \/ Retire(a) \/ Enqueue(a) \/ Reconsider(a) \/ Repair(a)
    \/ ApplyPolicy(a) \/ Vanish(a) \/ Return(a)

UserStep(a, key) ==
    Keep(a, key) \/ Exclude(a, key) \/ Restore(a, key) \/ Dismiss(a, key) \/ Accept(a, key)

JobStep(a, r) == Claim(a, r) \/ Recover(a, r)

RunStep == ReadContext \/ Evaluate \/ Halt \/ Finish \/ FinishStale \/ Fail \/ Defer

WorkerStep == RunStep \/ \E a \in Albums, r \in Rows : JobStep(a, r)

Next ==
    \/ \E a \in Albums : ScanStep(a) \/ \E key \in Keys : UserStep(a, key)
    \/ \E p \in Policies : SetPolicy(p)
    \/ PauseQueue \/ ResumeQueue
    \/ WorkerStep \/ Fault \/ Sweep
    \/ \E a \in Albums, r \in Rows : CollectStale(a, r) \/ Elapse(a, r)
    \/ Trip \/ Close \/ Restart

Spec == Init /\ [][Next]_vars

\* The loop runs whenever it can, and times pass.
FairSpec ==
    /\ Spec
    /\ WF_vars(WorkerStep)
    /\ \A a \in Albums, r \in Rows : WF_vars(Elapse(a, r))

-----------------------------------------------------------------------------
(* Properties *)

\* What a user has said of an album stands while its input is what it was about: one that
\* is kept as tagged gets no external identity, by a job that was there before the decision
\* (finish_identification_job) or by one enqueued after it.  A candidate that was accepted
\* stays, whatever jobs find, until the user decides again.
DecisionStands ==
    \A a \in Albums :
        /\ word[a].said = "keep" /\ word[a].about = Input(a) => album[a].identity.source = "none"
        /\ word[a].said = "accept" => album[a].identity.source = "manual"

\* No album is lost between scans, the queue and the reviews: one whose directory is grouped
\* and whose policy is automatic has a job at work, a review of its files that people see,
\* an identity for its files, or a decision about them; whatever was changed, taken over,
\* found stale, cancelled, deferred, given up or interrupted in between.
NothingForgotten ==
    \A a \in Albums :
        Indexed(a) /\ Automatic(a) /\ ~album[a].owed /\ album[a].policy = policy =>
            \/ HasActive(a)
            \/ \E key \in Unresolved(a) :
                  \/ reviews[a][key].about[1] = album[a].files
                  \/ reviews[a][key].state = "keep_tagged" /\ reviews[a][key].about[2] # policy
            \/ album[a].identity.source = "manual"
            \/ /\ album[a].identity.source # "none"
               /\ album[a].identity.of[1] = album[a].files \/ album[a].identity.of[2] # policy
            \/ word[a].said # "none" /\ word[a].about[1] = album[a].files

\* The jobs of an album come to an end, or the queue is paused: deferrals are capped, and
\* the sweep does not start them afresh for ever.
WorkEnds == \A a \in Albums : HasActive(a) ~> ~HasActive(a) \/ paused
=============================================================================
