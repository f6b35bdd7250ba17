----------------------------- MODULE LibraryScan -----------------------------
(***************************************************************************)
(* Library scans: durable runs (library_scan_runs) that requests create,   *)
(* join or extend, that users pause, resume and stop, and that one worker, *)
(* the scan supervisor, takes through discovery, indexing and              *)
(* reconciliation; and the fence between them and the publisher, which     *)
(* moves and adds files under the write leases of their roots.             *)
(*                                                                         *)
(* Abstractions.  A file is a path, numbered in path order; a scope is the *)
(* set of paths below it.  row_revision is kept as wk.fresh: whether the   *)
(* worker knows the run's present revision.  A lease revision is kept as   *)
(* what it is compared with: wk.clean (since the walk began) and           *)
(* fence[r][root] (since the run recorded it).  Steps under a read lease   *)
(* are one action, so only the publisher is seen holding a lease.  A       *)
(* reconciliation batch is one track, an index batch one file.  The        *)
(* inventory of a run is dropped when the run ends, not pages later.  All  *)
(* requests are of one kind, and no file is excluded by the policy.        *)
(***************************************************************************)
EXTENDS Naturals, Sequences

CONSTANTS
    RunCount,    \* bounds the runs ever created
    FileCount,
    Roots, Scopes,
    RootOf,      \* [Files -> Roots]
    FilesIn,     \* [Scopes -> SUBSET Files], each within one root
    ScopeRoot,   \* [Scopes -> Roots]
    Requests,    \* the sequences of scopes that may be asked for
    Policies,    \* the policy revisions
    NoScope,
    Admits       \* the circumstances of this instance

Runs == 1 .. RunCount
Files == 1 .. FileCount
NoFile == 0

Circumstances ==
    {"resumeBeforeUnwind",  \* a paused run is resumed before its worker has let go of it
     "controlBetweenTicks", \* a run is paused or stopped while no worker holds it
     "restartAfterWalk",    \* the process restarts when a run has completed a scope,
     "restartAfterSupersededPause"} \* or when a pausing run was superseded

ASSUME ScanAssumption ==
    /\ RunCount \in Nat /\ FileCount \in Nat
    /\ RootOf \in [Files -> Roots]
    /\ ScopeRoot \in [Scopes -> Roots]
    /\ FilesIn \in [Scopes -> SUBSET Files]
    /\ \A s \in Scopes : \A f \in FilesIn[s] : RootOf[f] = ScopeRoot[s]
    /\ Requests \subseteq Seq(Scopes) \ {<<>>}
    /\ NoScope \notin Scopes
    /\ Admits \subseteq Circumstances

VARIABLES
    runs,   \* the runs and their scopes, inventory and cursors
    fence,  \* fence[r][root]: the root's revision in _scan_revisions: none, current, passed
    policy, \* the policy revision of the settings
    disk,   \* the files there are
    track,  \* track[f]: the catalogue row at path f: none, indexed, missing
    pub,    \* the publication that holds write leases
    wk,     \* the scan worker
    since   \* history: files on disk ever since the active run was claimed

vars == <<runs, fence, policy, disk, track, pub, wk, since>>
runVars == <<runs, fence, since>>
worldVars == <<policy, disk, track, pub>>

-----------------------------------------------------------------------------
(* Runs *)

Phases == {"discovering", "indexing", "reconciling"}
Active == Phases \union {"pausing", "paused", "stopping"}
Terminal == {"completed", "cancelled", "superseded_policy_changed", "failed"}
RunStates == {"queued"} \union Active \union Terminal

NoRun == [state |-> "unused"]

\* found[f]: the scope whose current generation lists f; todo[f]: what indexing does to f.
Progress == [walked : SUBSET Scopes,
             found : [Files -> Scopes \union {NoScope}],
             todo : [Files -> {"no", "new", "changed"}],
             cursor : [Scopes -> 0 .. FileCount]]

NoProgress == [walked |-> {}, found |-> [f \in Files |-> NoScope],
               todo |-> [f \in Files |-> "no"], cursor |-> [s \in Scopes |-> 0]]

RunRecords == [state : RunStates, control : {"none", "pause", "stop"},
               resume : Phases \union {"none"}, policy : Policies,
               scopes : Seq(Scopes), at : Progress]

Idle == [pc |-> "idle", run |-> 0, phase |-> "none", scope |-> 0, left |-> {}, batch |-> {},
         clean |-> FALSE, fresh |-> FALSE, file |-> NoFile]
Pcs == {"idle", "scope", "walk", "persisted", "walked", "unwind", "reread", "advance",
        "indexStart", "index", "commit", "leave", "reconcile"}
NoPublication == [pc |-> "idle", from |-> NoFile, to |-> NoFile]

TypeOK ==
    /\ runs \in [Runs -> RunRecords \union {NoRun}]
    /\ fence \in [Runs -> [Roots -> {"none", "current", "passed"}]]
    /\ policy \in Policies
    /\ disk \subseteq Files /\ since \subseteq disk
    /\ track \in [Files -> {"none", "indexed", "missing"}]
    /\ pub \in [pc : {"idle", "placed"}, from : 0 .. FileCount, to : 0 .. FileCount]
    /\ wk \in [pc : Pcs, run : 0 .. RunCount, phase : Phases \union {"none"},
               scope : Nat, left : SUBSET Files, batch : SUBSET Files,
               clean : BOOLEAN, fresh : BOOLEAN, file : 0 .. FileCount]

Init ==
    /\ runs = [r \in Runs |-> NoRun]
    /\ fence = [r \in Runs |-> [root \in Roots |-> "none"]]
    /\ policy \in Policies
    /\ disk = Files /\ since = {}
    /\ track \in [Files -> {"none", "indexed", "missing"}]
    /\ pub = NoPublication
    /\ wk = Idle

InState(r, states) == runs[r] # NoRun /\ runs[r].state \in states
ActiveRuns == {r \in Runs : InState(r, Active)}
Queued == {r \in Runs : InState(r, {"queued"})}
First(R) == CHOOSE r \in R : \A q \in R : r <= q

\* A run that ends loses its inventory, and the coordinator forgets its fences.
Becomes(r, rec) ==
    LET over == rec.state \in Terminal IN
    /\ runs' = [runs EXCEPT ![r] = IF over THEN [rec EXCEPT !.at = NoProgress] ELSE rec]
    /\ fence' = IF over THEN [fence EXCEPT ![r] = [root \in Roots |-> "none"]] ELSE fence
    /\ since' = IF over /\ r \in ActiveRuns THEN {} ELSE since

Updates(r, at) ==
    /\ runs' = [runs EXCEPT ![r].at = at]
    /\ UNCHANGED <<fence, since>>

\* _settle_pending_control
Settled(rec) ==
    CASE rec.state = "pausing" -> [rec EXCEPT !.state = "paused", !.control = "none"]
      [] rec.state = "stopping" -> [rec EXCEPT !.state = "cancelled", !.control = "none"]
      [] OTHER -> rec

\* Another transaction writes the run: the worker's revision is no longer the present one.
Stales(r) == wk' = IF wk.run = r THEN [wk EXCEPT !.fresh = FALSE] ELSE wk

-----------------------------------------------------------------------------
(* Requests and controls *)

ScopeCovers(s, t) == ScopeRoot[s] = ScopeRoot[t] /\ FilesIn[t] \subseteq FilesIn[s]

Members(q) == {q[i] : i \in DOMAIN q}

Covers(r, request) ==
    /\ runs[r].policy = policy
    /\ \A t \in Members(request) : \E s \in Members(runs[r].scopes) : ScopeCovers(s, t)

\* request_scan_run: join a run that covers the request, extend the queued follow-up of an
\* active run, refuse, or queue a new run.
Coalesce(r) ==
    /\ Stales(r)
    /\ UNCHANGED runs

\* Of the request, in its order, the scopes that none of the run's covers.
Additions(old, request) ==
    LET isNew(t) == \A s \in Members(old) : ~ScopeCovers(s, t)
        added[n \in 0 .. Len(request)] ==
            IF n = 0 THEN <<>>
            ELSE IF isNew(request[n]) THEN Append(added[n - 1], request[n]) ELSE added[n - 1]
    IN added[Len(request)]

Expand(r, request) ==
    /\ runs' = IF runs[r].policy = policy
               THEN [runs EXCEPT ![r].scopes = @ \o Additions(@, request)] ELSE runs
    /\ UNCHANGED wk

Enqueue(request) ==
    /\ \E r \in Runs : runs[r] = NoRun
    /\ runs' = [runs EXCEPT ![First({r \in Runs : runs[r] = NoRun})] =
                   [state |-> "queued", control |-> "none", resume |-> "none",
                    policy |-> policy, scopes |-> request, at |-> NoProgress]]
    /\ UNCHANGED wk

Request(request) ==
    /\ LET covering == {r \in ActiveRuns \union Queued : Covers(r, request)} IN
       IF covering # {} THEN Coalesce(First(IF covering \intersect ActiveRuns # {}
                                            THEN covering \intersect ActiveRuns ELSE covering))
       ELSE IF ActiveRuns # {} /\ Queued # {} THEN Expand(First(Queued), request)
       ELSE Enqueue(request)
    /\ UNCHANGED <<fence, since, worldVars>>

\* request_scan_control
Controllable(r) == wk.run = r \/ "controlBetweenTicks" \in Admits

PauseForgetsPhase(r) ==
    /\ InState(r, Phases) /\ Controllable(r)
    /\ Becomes(r, [runs[r] EXCEPT !.state = "pausing", !.control = "pause"])
    /\ Stales(r)
    /\ UNCHANGED worldVars

Pause(r) ==
    /\ InState(r, Phases) /\ Controllable(r)
    /\ Becomes(r, [runs[r] EXCEPT !.state = "pausing", !.control = "pause", !.resume = runs[r].state])
    /\ Stales(r)
    /\ UNCHANGED worldVars

ResumeRun(r) ==
    /\ InState(r, {"paused"})
    /\ wk.run # r \/ "resumeBeforeUnwind" \in Admits
    /\ Becomes(r, [runs[r] EXCEPT !.state = runs[r].resume, !.control = "none", !.resume = "none"])
    /\ Stales(r)
    /\ UNCHANGED worldVars

Stop(r) ==
    /\ \/ InState(r, {"paused"})
          /\ Becomes(r, [runs[r] EXCEPT !.state = "cancelled", !.control = "none"])
       \/ InState(r, {"queued"})
          /\ Becomes(r, [runs[r] EXCEPT !.state = "cancelled", !.control = "stop"])
       \/ InState(r, Phases \union {"pausing"}) /\ Controllable(r)
          /\ Becomes(r, [runs[r] EXCEPT !.state = "stopping", !.control = "stop"])
    /\ Stales(r)
    /\ UNCHANGED worldVars

-----------------------------------------------------------------------------
(* The scan worker: run_once and _continue_run *)

At(pc) == wk.pc = pc
Run == runs[wk.run]
Goes(pc) == wk' = [wk EXCEPT !.pc = pc]
Fresh(pc) == wk' = [wk EXCEPT !.pc = pc, !.fresh = TRUE]
\* The walk, or a pass over the scopes, is behind.
GoesOn(pc) == wk' = [Idle EXCEPT !.pc = pc, !.run = wk.run, !.phase = wk.phase, !.scope = 1]
Scope == Run.scopes[wk.scope]
LeaseFree(root) ==
    pub.pc = "placed" => root \notin {RootOf[f] : f \in {pub.from, pub.to} \ {NoFile}}

\* checkpoint: the policy is still the run's, and no control is pending.
Passes == Run.policy = policy /\ Run.state \notin {"pausing", "stopping"}

\* A new discovery generation: the inventory of the scopes in dropped is no longer current.
NewGeneration(at, dropped) ==
    [at EXCEPT !.found = [f \in Files |-> IF @[f] \in dropped THEN NoScope ELSE @[f]],
               !.todo = [f \in Files |-> IF at.found[f] \in dropped THEN "no" ELSE @[f]]]

\* get_resumable_scan_run or claim_next_scan_run, then prepare_scan_discovery_resume.
Resumable == {r \in ActiveRuns : runs[r].state \in Phases /\ runs[r].control = "none"}

Take(r, state) ==
    LET unfinished == Members(runs[r].scopes) \ runs[r].at.walked IN
    /\ runs' = [runs EXCEPT ![r].state = state,
                            ![r].at = IF state = "discovering" THEN NewGeneration(@, unfinished) ELSE @]
    /\ wk' = [Idle EXCEPT !.run = r, !.fresh = (state = "discovering"), !.phase = state,
                          !.scope = 1,
                          !.pc = CASE state = "discovering" -> "scope"
                                   [] state = "indexing" -> "indexStart"
                                   [] OTHER -> "reconcile"]

RunOncePastPaused ==
    /\ At("idle")
    /\ IF Resumable # {}
       THEN Take(First(Resumable), runs[First(Resumable)].state) /\ UNCHANGED since
       ELSE /\ Queued # {}
            /\ Take(First(Queued), "discovering")
            /\ since' = disk
    /\ UNCHANGED <<fence, worldVars>>

RunOnce ==
    /\ At("idle")
    /\ IF Resumable # {}
       THEN Take(First(Resumable), runs[First(Resumable)].state) /\ UNCHANGED since
       ELSE /\ ActiveRuns = {} /\ Queued # {}
            /\ Take(First(Queued), "discovering")
            /\ since' = disk
    /\ UNCHANGED <<fence, worldVars>>

\* discover: the next scope whose discovery is not completed.
NextScope ==
    /\ At("scope")
    /\ LET left == {i \in DOMAIN Run.scopes : Run.scopes[i] \notin Run.at.walked} IN
       IF left = {} THEN GoesOn("reread")
       ELSE /\ Passes
            /\ wk' = [wk EXCEPT !.pc = "walk", !.scope = First(left), !.clean = TRUE,
                                !.left = FilesIn[Run.scopes[First(left)]], !.batch = {}]
    /\ UNCHANGED <<runVars, worldVars>>

\* The walk looks at a path, under the read lease.
LookAt(f) ==
    /\ At("walk") /\ f \in wk.left /\ LeaseFree(RootOf[f])
    /\ wk' = [wk EXCEPT !.left = @ \ {f}, !.batch = @ \union ({f} \intersect disk)]
    /\ UNCHANGED <<runVars, worldVars>>

FailsUnsettled ==
    /\ Becomes(wk.run, IF Run.state \in Phases THEN [Run EXCEPT !.state = "failed"] ELSE Run)
    /\ wk' = Idle

\* An exception in run_once: a pending control is settled, otherwise the run has failed.
Fails ==
    /\ Becomes(wk.run, IF Run.state \in Phases THEN [Run EXCEPT !.state = "failed"] ELSE Settled(Run))
    /\ wk' = Idle

\* _persist_batch: what is already in the catalogue is new, changed or unchanged, and the
\* CAS on the run's revision loses to any other write of it.
Classified(at, changed) ==
    [at EXCEPT !.found = [f \in Files |-> IF f \in wk.batch THEN Scope ELSE @[f]],
               !.todo = [f \in Files |->
                            IF f \notin wk.batch THEN @[f]
                            ELSE IF track[f] = "none" THEN "new"
                            ELSE IF f \in changed THEN "changed" ELSE "no"]]

Persist ==
    /\ At("walk") /\ wk.batch # {}
    /\ IF wk.fresh
       THEN /\ \E changed \in SUBSET wk.batch : Updates(wk.run, Classified(Run.at, changed))
            /\ wk' = [wk EXCEPT !.pc = "persisted", !.batch = {}]
       ELSE Fails
    /\ UNCHANGED worldVars

WalkOn ==
    /\ At("persisted") /\ Passes
    /\ Goes("walk")
    /\ UNCHANGED <<runVars, worldVars>>

WalkFails ==
    /\ At("walk")
    /\ GoesOn("unwind")
    /\ UNCHANGED <<runVars, worldVars>>

\* The walk is over: under the read lease its fence is recorded, or the scope is walked
\* again because a publication passed in the meantime.
Rewalk ==
    /\ Updates(wk.run, NewGeneration(Run.at, {Scope}))
    /\ wk' = [wk EXCEPT !.left = FilesIn[Scope], !.clean = TRUE, !.fresh = TRUE]

RecordFence ==
    /\ fence' = [fence EXCEPT ![wk.run][ScopeRoot[Scope]] = "current"]
    /\ Goes("walked")
    /\ UNCHANGED <<runs, since>>

EndWalk ==
    /\ At("walk") /\ wk.left = {} /\ wk.batch = {} /\ LeaseFree(ScopeRoot[Scope])
    /\ IF wk.clean THEN RecordFence ELSE Rewalk
    /\ UNCHANGED worldVars

CompleteScope ==
    /\ At("walked")
    /\ Updates(wk.run, [Run.at EXCEPT !.walked = @ \union {Scope}])
    /\ wk' = [wk EXCEPT !.pc = "scope", !.scope = 1]
    /\ UNCHANGED worldVars

UnwindOn ==
    /\ At("unwind")
    /\ GoesOn("reread")
    /\ UNCHANGED <<runVars, worldVars>>

UnwindFailed ==
    /\ At("unwind")
    /\ Becomes(wk.run, [Run EXCEPT !.state = "failed"])
    /\ wk' = Idle
    /\ UNCHANGED worldVars

\* A walk that was given up: the run has failed unless its state says why.
Unwind ==
    /\ At("unwind")
    /\ Becomes(wk.run, IF Run.state = "discovering" THEN [Run EXCEPT !.state = "failed"]
                       ELSE Settled(Run))
    /\ wk' = Idle
    /\ UNCHANGED worldVars

\* The end of a phase: the run is read again, and left if it is no longer in the phase.
\* After discovery finalize_scan_discovery follows, otherwise a checkpoint.
Reread ==
    /\ At("reread")
    /\ IF Run.state = wk.phase
       THEN /\ Fresh(IF wk.phase = "discovering" THEN "advance" ELSE "leave")
            /\ UNCHANGED runVars
       ELSE Becomes(wk.run, Settled(Run)) /\ wk' = Idle
    /\ UNCHANGED worldVars

Leave ==
    /\ At("leave") /\ Passes
    /\ Goes("advance")
    /\ UNCHANGED <<runVars, worldVars>>

\* transition_scan_run to the next phase: a CAS on the revision that was read.
Advance ==
    /\ At("advance")
    /\ CASE ~wk.fresh -> Fails
         [] wk.fresh /\ wk.phase = "discovering" ->
              /\ Becomes(wk.run, [Run EXCEPT !.state = "indexing"])
              /\ wk' = [wk EXCEPT !.pc = "indexStart", !.phase = "indexing", !.fresh = FALSE]
         [] wk.fresh /\ wk.phase = "indexing" ->
              /\ Becomes(wk.run, [Run EXCEPT !.state = "reconciling"])
              /\ wk' = [wk EXCEPT !.pc = "reconcile", !.phase = "reconciling", !.fresh = FALSE]
         [] OTHER ->
              /\ Becomes(wk.run, [Run EXCEPT !.state = "completed"])
              /\ wk' = Idle
    /\ UNCHANGED worldVars

StartIndex ==
    /\ At("indexStart") /\ Passes
    /\ Goes("index")
    /\ UNCHANGED <<runVars, worldVars>>

Done(f) == Updates(wk.run, [Run.at EXCEPT !.todo[f] = "no"])

\* The tags of a pending file are read under the lease; if that fails the item has failed.
ReadTags(f) ==
    /\ At("index") /\ Run.at.todo[f] # "no" /\ LeaseFree(RootOf[f])
    /\ \/ f \in disk /\ wk' = [wk EXCEPT !.pc = "commit", !.file = f] /\ UNCHANGED runVars
       \/ Passes /\ Done(f) /\ UNCHANGED wk
    /\ UNCHANGED worldVars

\* commit_scan_index_batch: no CAS.  The row is sought by its path: a row that was moved
\* away since the walk is inserted again with its own id, and the transaction fails.
CommitIndex ==
    /\ At("commit") /\ Passes
    /\ IF Run.at.todo[wk.file] = "changed" /\ track[wk.file] = "none"
       THEN Fails /\ UNCHANGED track
       ELSE /\ track' = [track EXCEPT ![wk.file] = "indexed"]
            /\ Done(wk.file)
            /\ wk' = [wk EXCEPT !.pc = "index", !.file = NoFile]
    /\ UNCHANGED <<policy, disk, pub>>

EndIndex ==
    /\ At("index") /\ \A f \in Files : Run.at.todo[f] = "no"
    /\ Goes("reread")
    /\ UNCHANGED <<runVars, worldVars>>

\* reconcile_scan_scope_batch on the next row of the scope: what the scope's inventory does
\* not list is missing, if the root's revision is the one the walk recorded; a revision
\* that was never recorded counts as the present one.
AllowMissing(root) == fence[wk.run][root] # "passed"
AlwaysAllow(root) == TRUE
MayMiss(root) == AllowMissing(root)

Listed(f) == Run.at.found[f] = Scope

Candidates ==
    IF Scope \notin Run.at.walked THEN {}
    ELSE {f \in FilesIn[Scope] : track[f] # "none" /\ f > Run.at.cursor[Scope]}

ReconcileRow ==
    /\ At("reconcile") /\ Passes /\ LeaseFree(ScopeRoot[Scope])
    /\ Candidates # {}
    /\ LET f == First(Candidates) IN
       /\ track' = [track EXCEPT ![f] = IF Listed(f) THEN "indexed"
                                        ELSE IF MayMiss(RootOf[f]) THEN "missing" ELSE @]
       /\ Updates(wk.run, [Run.at EXCEPT !.cursor[Scope] = f])
    /\ UNCHANGED <<policy, disk, pub, wk>>

ReconcileNext ==
    /\ At("reconcile") /\ Passes
    /\ Candidates = {}
    /\ wk' = IF wk.scope < Len(Run.scopes) THEN [wk EXCEPT !.scope = @ + 1]
             ELSE [wk EXCEPT !.pc = "reread", !.scope = 1]
    /\ UNCHANGED <<runVars, worldVars>>

\* A checkpoint that says no: a changed policy supersedes the run, a control is settled.
\* Then the phase is unwound, or, at its two ends, left at once.
Superseded(rec) ==
    IF rec.state \in Phases \union {"pausing", "paused"}
    THEN [rec EXCEPT !.state = "superseded_policy_changed"] ELSE rec

Refuse ==
    /\ \/ wk.pc \in {"walk", "persisted", "indexStart", "index", "commit", "leave", "reconcile"}
       \/ At("scope") /\ ~(Members(Run.scopes) \subseteq Run.at.walked)
    /\ ~Passes
    /\ Becomes(wk.run, IF Run.policy # policy THEN Superseded(Run) ELSE Settled(Run))
    /\ CASE wk.pc \in {"walk", "persisted"} -> GoesOn("unwind")
         [] wk.pc \in {"indexStart", "leave"} -> wk' = Idle
         [] OTHER -> GoesOn("reread")
    /\ UNCHANGED worldVars

-----------------------------------------------------------------------------
(* The publisher, other processes, and restarts *)

\* write_many on the roots of both paths, and the files put in place.  An import adds a
\* file, a management job moves one.
Place(f, g) ==
    /\ pub.pc = "idle" /\ g \notin disk /\ f # g
    /\ \/ f = NoFile /\ track[g] # "indexed"
       \/ f \in disk /\ track[f] = "indexed" /\ track[g] = "none"
    /\ pub' = [pc |-> "placed", from |-> f, to |-> g]
    /\ disk' = (disk \ {f}) \union {g}
    /\ since' = since \ {f}
    /\ UNCHANGED <<runs, fence, policy, track, wk>>

PubRoots == {RootOf[f] : f \in {pub.from, pub.to} \ {NoFile}}

\* Every revision remembered for the roots falls behind when the leases are released.
Release ==
    /\ pub' = NoPublication
    /\ fence' = [r \in Runs |-> [root \in Roots |->
                    IF root \in PubRoots /\ fence[r][root] = "current" THEN "passed"
                    ELSE fence[r][root]]]
    /\ wk' = IF wk.pc \in {"walk", "persisted"} /\ ScopeRoot[Scope] \in PubRoots
             THEN [wk EXCEPT !.clean = FALSE] ELSE wk

\* commit_library_management_bundle
Commit ==
    /\ pub.pc = "placed"
    /\ track' = [f \in Files |-> CASE f = pub.to -> "indexed" [] f = pub.from -> "none"
                                   [] OTHER -> track[f]]
    /\ Release
    /\ UNCHANGED <<runs, policy, disk, since>>

Restored == (disk \ {pub.to}) \union ({pub.from} \ {NoFile})

\* _publish_critical_section rolls the files back while it still holds the leases.
Rollback ==
    /\ pub.pc = "placed"
    /\ disk' = Restored /\ since' = since \ {pub.to}
    /\ Release
    /\ UNCHANGED <<runs, policy, track>>

\* Another program removes a file, or adds one the catalogue does not count as present.
RemoveFile(f) ==
    /\ f \in disk \ {pub.to}
    /\ disk' = disk \ {f} /\ since' = since \ {f}
    /\ UNCHANGED <<runs, fence, policy, track, pub, wk>>

AddFile(f) ==
    /\ f \notin disk \union {pub.from} /\ track[f] # "indexed"
    /\ disk' = disk \union {f}
    /\ UNCHANGED <<runs, fence, policy, track, pub, wk, since>>

ChangePolicy ==
    /\ policy' \in Policies \ {policy}
    /\ UNCHANGED <<runs, fence, disk, track, pub, wk, since>>

\* recover_scan_runs
Recovered(rec) ==
    CASE rec = NoRun -> rec
      [] rec # NoRun /\ (rec.state = "stopping" \/ rec.control = "stop") ->
           [rec EXCEPT !.state = "cancelled", !.control = "none", !.at = NoProgress]
      [] rec # NoRun /\ (rec.state = "pausing" \/ rec.control = "pause") ->
           [rec EXCEPT !.state = "paused", !.control = "none"]
      [] OTHER -> rec

\* The process restarts: the leases, their revisions and the worker are gone, and a
\* publication that has not committed is rolled back by its recovery.
Restart ==
    /\ (\E r \in ActiveRuns : runs[r].at.walked # {}) => "restartAfterWalk" \in Admits
    /\ (\E r \in Runs : InState(r, Terminal) /\ runs[r].control = "pause")
          => "restartAfterSupersededPause" \in Admits
    /\ runs' = [r \in Runs |-> Recovered(runs[r])]
    /\ fence' = [r \in Runs |-> [root \in Roots |-> "none"]]
    /\ wk' = Idle
    /\ pub' = NoPublication
    /\ IF pub.pc = "placed" THEN disk' = Restored /\ since' = since \ {pub.to}
       ELSE UNCHANGED <<disk, since>>
    /\ UNCHANGED <<policy, track>>

-----------------------------------------------------------------------------
UserStep ==
    \/ \E request \in Requests : Request(request)
    \/ \E r \in Runs : Pause(r) \/ ResumeRun(r) \/ Stop(r)

WorkerStep ==
    \/ RunOnce \/ NextScope \/ Persist \/ WalkOn \/ WalkFails \/ EndWalk \/ CompleteScope
    \/ Unwind \/ Reread \/ Leave \/ Advance \/ StartIndex \/ CommitIndex \/ EndIndex
    \/ ReconcileRow \/ ReconcileNext \/ Refuse
    \/ \E f \in Files : LookAt(f) \/ ReadTags(f)

WorldStep ==
    \/ \E f \in Files \union {NoFile}, g \in Files : Place(f, g)
    \/ Commit \/ Rollback \/ ChangePolicy \/ Restart
    \/ \E f \in Files : RemoveFile(f) \/ AddFile(f)

Next == UserStep \/ WorkerStep \/ WorldStep

Spec == Init /\ [][Next]_vars

-----------------------------------------------------------------------------
(* Properties *)

\* A scan marks a track missing only when its file is not there: whatever publications,
\* pauses, requests and restarts happened between the walk and the reconciliation.
OnlyAbsentMarked ==
    \A f \in Files : track'[f] = "missing" /\ track[f] # "missing" => f \notin disk
MarksOnlyAbsent == [][OnlyAbsentMarked]_vars

\* A pause or a stop that is pending has a worker that will settle it: nothing else does
\* until the process restarts, and no other run is claimed meanwhile.  It is lost when it
\* meets no worker (controlBetweenTicks), and when a stop meets a policy change at a
\* checkpoint outside the phases, which only an instance with two policies shows.
PendingControlIsHeld ==
    \A r \in Runs : InState(r, {"pausing", "stopping"}) => wk.run = r

\* At most one run has been claimed and is not over.
OneActiveRun == \A r, q \in ActiveRuns : r = q

\* A run that is over stays over, and keeps its outcome.
TerminalIsFinal ==
    [][\A r \in Runs : InState(r, Terminal) => runs'[r].state = runs[r].state]_vars

\* When a run completes, every file of its scopes that was on disk ever since the run was
\* claimed, and is in the catalogue, is available.
PresentRestored ==
    \A r \in Runs :
        InState(r, {"reconciling"}) /\ runs'[r].state = "completed" =>
            \A s \in Members(runs[r].scopes) : \A f \in FilesIn[s] \intersect since :
                track[f] # "missing"
CompletedScanRestores == [][PresentRestored]_vars
=============================================================================
