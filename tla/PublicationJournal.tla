------------------------- MODULE PublicationJournal -------------------------
(***************************************************************************)
(* One bundle of a Library Management operation: the publisher renames its *)
(* files into place under a journal row per mutation, has the catalogue    *)
(* adopt them in one transaction, and cleans up; it rolls the bundle back  *)
(* when it cannot; and after a stop the recovery service finds out, from   *)
(* the rows and from the bytes on disk, which of these to go on with.      *)
(*                                                                         *)
(* Abstractions.  A path holds one of the byte strings that matter: the    *)
(* original of a mutation, its staged output, what another program wrote,  *)
(* or nothing; a fingerprint is the bytes.  The publisher and recovery run *)
(* one after the other in the worker's loop, so a row's revision is its    *)
(* state.  A rename, an unlink and a row transition are one step each, and *)
(* the process may stop between any two; checks made under the write       *)
(* leases are one step.  The operation has this one work row; a failure    *)
(* of another bundle of its is an action.  fsync is taken to work.         *)
(***************************************************************************)
EXTENDS Naturals, Sequences

CONSTANTS
    Plan,           \* the kinds of the mutations, in the order they are prepared
    RemovesSource,  \* the profile removes sources after a confirmed move
    MaxStops, MaxFaults, \* bound the stops of the process and the calls that fail
    Admits          \* the circumstances of this instance

Kinds == {"retag", "move", "addArt", "replaceArt", "sidecar", "delete", "recycle"}
Circumstances ==
    {"stopBetweenMutations"} \* a stop when every row there is is validated, and one is missing

ASSUME PlanAssumption ==
    /\ Plan \in Seq(Kinds) /\ \E m \in DOMAIN Plan : Plan[m] \in {"retag", "move"}
    /\ RemovesSource \in BOOLEAN
    /\ MaxStops \in Nat /\ MaxFaults \in Nat
    /\ Admits \subseteq Circumstances

Mutations == DOMAIN Plan

VARIABLES
    disk,    \* what each path holds
    row,     \* the journal rows
    adopted, \* the catalogue describes the outputs
    op,      \* the operation: job, work row, lease owner, phase
    conf,    \* the settings since the preview
    mem,     \* what the process knows
    touched, \* history: mutations whose files another program has written
    spent    \* stops and faults so far

vars == <<disk, row, adopted, op, conf, mem, touched, spent>>

-----------------------------------------------------------------------------
(* Mutations, paths and bytes *)

Is(m, kinds) == Plan[m] \in kinds
Audio(m) == Is(m, {"retag", "move"})
InPlace(m) == Is(m, {"retag", "replaceArt", "delete"})
BacksUp(m) == InPlace(m) \/ Is(m, {"recycle"})
HasSource(m) == ~Is(m, {"addArt"})

Source(m) == <<m, "source">>
Temp(m) == <<m, "temp">>
Backup(m) == <<m, "backup">>
\* What is recycled lies where a move of the same item goes.
Collider(m) == {r \in Mutations : Is(m, {"move"}) /\ Is(r, {"recycle"})}
Destination(m) ==
    IF InPlace(m) THEN Source(m)
    ELSE IF Collider(m) # {} THEN Source(CHOOSE r \in Collider(m) : TRUE)
    ELSE <<m, "destination">>

Paths == Mutations \X {"source", "temp", "backup", "destination"}

Missing == <<0, "missing">>
Old(m) == <<m, "old">>
Staged(m) == IF Is(m, {"sidecar", "delete", "recycle"}) THEN Old(m) ELSE <<m, "new">>
\* What another program makes of an original, and what else it writes.
Edited(m) == <<m, "edited">>
Foreign(m) == <<m, "foreign">>
Bytes == {Missing} \cup (Mutations \X {"old", "new", "edited", "foreign"})

Holds(p, bytes) == disk[p] = bytes
Renames(p, q) == disk' = [disk EXCEPT ![q] = disk[p], ![p] = Missing]
Unlinks(p) == disk' = [disk EXCEPT ![p] = Missing]

-----------------------------------------------------------------------------
(* Rows, the operation and the process *)

Early == {"planned", "snapshot_saved", "staged", "validated"}
Undoable == Early \cup {"source_backed_up", "published"}
Committed == {"catalog_committed", "cleanup_pending", "completed"}
Undone == {"rollback_pending", "rolled_back"}
Closed == {"completed", "rolled_back", "needs_attention"}

NoRow == [state |-> "none", kept |-> TRUE]
Rows == {m \in Mutations : row[m] # NoRow}
States == {row[m].state : m \in Rows}
Open == {m \in Rows : row[m].state \notin Closed}

\* transition_file_mutation_journal; the evidence of a row is lost when another is written.
Becomes(m, state) == row' = [row EXCEPT ![m].state = state]
BecomesFor(m, state) == row' = [row EXCEPT ![m] = [state |-> state, kept |-> FALSE]]

\* _is_recycle_mutation, _is_delete_mutation
KnownRecycle(m) == Is(m, {"recycle"}) /\ row[m].kept
KnownDelete(m) == Is(m, {"delete"}) /\ row[m].kept

Pcs == {"begin", "ensure", "stage", "advance", "recheck", "publish", "commit", "cleanup", "undo",
        "refused", "resumeFailed", "idle", "down", "starting", "preflight", "remaining",
        "recommit", "tidyCheck", "tidy", "settle", "compensate", "mark", "restore", "close",
        "fail", "attention"}

Forgotten == [pc |-> "down", by |-> "none", todo |-> {}, ready |-> {},
              backedUp |-> {}, published |-> {}]

At(pc) == mem.pc = pc
Goes(pc) == mem' = [mem EXCEPT !.pc = pc]
Starts(pc, todo) == mem' = [mem EXCEPT !.pc = pc, !.todo = todo]
Passes(m) == mem' = [mem EXCEPT !.todo = @ \ {m}]

\* The recycled file comes first, the rest in the order of preparation.
Before(m, n) == \/ Is(m, {"recycle"}) /\ ~Is(n, {"recycle"})
                \/ (Is(m, {"recycle"}) <=> Is(n, {"recycle"})) /\ m <= n
Next1(m) == m \in mem.todo /\ \A n \in mem.todo : Before(m, n)
Last1(m) == m \in mem.todo /\ \A n \in mem.todo : Before(n, m)

TypeOK ==
    /\ disk \in [Paths -> Bytes]
    /\ row \in [Mutations -> [state : Undoable \cup Committed \cup Undone
                                        \cup {"none", "needs_attention"}, kept : BOOLEAN]]
    /\ adopted \in BOOLEAN
    /\ op \in [job : {"queued", "running", "succeeded", "failed"},
               work : {"running", "succeeded", "failed"},
               by : {"none", "worker", "recovery"}, phase : {"applying", "undoing"}]
    /\ conf \in {"current", "settingsChanged", "rootsChanged"}
    /\ mem \in [pc : Pcs, by : {"none", "worker", "recovery"}, todo : SUBSET Mutations,
                ready : SUBSET Mutations, backedUp : SUBSET Mutations,
                published : SUBSET Mutations]
    /\ touched \subseteq Mutations
    /\ spent \in [stops : 0 .. MaxStops, faults : 0 .. MaxFaults]

\* The worker has claimed the work row; the files are those of the preview.
Init ==
    /\ disk = [p \in Paths |-> IF p[2] = "source" /\ HasSource(p[1]) THEN Old(p[1]) ELSE Missing]
    /\ row = [m \in Mutations |-> NoRow]
    /\ adopted = FALSE
    /\ op \in [job : {"running"}, work : {"running"}, by : {"worker"},
               phase : {"applying", "undoing"}]
    /\ conf = "current"
    /\ mem = [Forgotten EXCEPT !.pc = "begin", !.by = "worker"]
    /\ touched = {}
    /\ spent = [stops |-> 0, faults |-> 0]

world == <<conf, touched, spent>>

\* publish_bundle raises: the worker completes the work row, recovery compensates.
Raises == mem' = [mem EXCEPT !.pc = "undo", !.todo = mem.ready]

-----------------------------------------------------------------------------
(* publish_bundle: preparation *)

BeginWithRows ==
    /\ At("begin")
    /\ IF conf = "current" THEN Starts("ensure", IF Rows = {} THEN Mutations ELSE Rows)
       ELSE Starts("undo", {})
    /\ UNCHANGED <<disk, row, adopted, op, world>>

Begin ==
    /\ At("begin")
    /\ IF conf = "current" THEN Starts("ensure", Mutations) ELSE Starts("undo", {})
    /\ UNCHANGED <<disk, row, adopted, op, world>>

InOrder(m) == m \in mem.todo /\ \A n \in mem.todo : m <= n

SourceIntact(m) == HasSource(m) => Holds(Source(m), Old(m))

\* ensure_file_mutation_journal; an untracked recycle is not in the list before it is validated.
EnsureJournal(m) ==
    /\ At("ensure") /\ InOrder(m)
    /\ IF SourceIntact(m)
       THEN /\ row' = IF m \in Rows THEN row
                      ELSE [row EXCEPT ![m] = [state |-> "planned", kept |-> TRUE]]
            /\ mem' = [mem EXCEPT !.pc = "stage",
                                  !.ready = IF Is(m, {"recycle"}) THEN @ ELSE @ \cup {m}]
       ELSE Raises /\ UNCHANGED row
    /\ UNCHANGED <<disk, adopted, op, world>>

\* _stage_audio, _copy_temp, _write_temp_bytes; audio that was staged is only looked at.
Stage(m) ==
    /\ At("stage") /\ InOrder(m)
    /\ IF Audio(m) /\ row[m].state \in {"staged", "validated"}
       THEN /\ IF Holds(Temp(m), Staged(m)) THEN Goes("advance") ELSE Raises
            /\ UNCHANGED disk
       ELSE /\ disk' = [disk EXCEPT ![Temp(m)] =
                           IF Staged(m) = Old(m) THEN disk[Source(m)] ELSE Staged(m)]
            /\ Goes("advance")
    /\ UNCHANGED <<row, adopted, op, world>>

\* _advance_to_validated
Advance(m) ==
    /\ At("advance") /\ InOrder(m)
    /\ \/ /\ row[m].state \in Early \ {"validated"}
          /\ Becomes(m, CASE row[m].state = "planned" -> "snapshot_saved"
                          [] row[m].state = "snapshot_saved" -> "staged"
                          [] OTHER -> "validated")
          /\ UNCHANGED mem
       \/ /\ row[m].state = "validated"
          /\ mem' = [mem EXCEPT !.ready = @ \cup {m}, !.todo = @ \ {m},
                                !.pc = IF mem.todo = {m} THEN "recheck" ELSE "ensure"]
          /\ UNCHANGED row
       \/ /\ row[m].state \notin Early
          /\ Raises /\ UNCHANGED row
    /\ UNCHANGED <<disk, adopted, op, world>>

StillStaged(m) == Holds(Temp(m), Staged(m))

\* _recheck_prepared, under the write leases.  Audio that stays in place is not hashed again.
StillPublishable(m) ==
    /\ BacksUp(m) => Holds(Backup(m), Missing)
    /\ StillStaged(m)
    /\ ~Is(m, {"retag"}) => SourceIntact(m)
    /\ ~InPlace(m) => Holds(Destination(m), Missing) \/ Collider(m) # {}

Recheck ==
    /\ At("recheck")
    /\ IF conf = "current" /\ \A m \in mem.ready : StillPublishable(m)
       THEN Starts("publish", mem.ready) ELSE Raises
    /\ UNCHANGED <<disk, row, adopted, op, world>>

-----------------------------------------------------------------------------
(* _publish_critical_section: renames, commit, cleanup *)

BackUp(m) ==
    /\ At("publish") /\ Next1(m)
    /\ BacksUp(m) /\ m \notin mem.backedUp
    /\ Renames(Source(m), Backup(m))
    /\ mem' = [mem EXCEPT !.backedUp = @ \cup {m}]
    /\ UNCHANGED <<row, adopted, op, world>>

MarkBackedUp(m) ==
    /\ At("publish") /\ Next1(m)
    /\ m \in mem.backedUp /\ row[m].state = "validated"
    /\ Becomes(m, "source_backed_up")
    /\ UNCHANGED <<disk, adopted, op, mem, world>>

Placed(m) == m \in mem.published \/ Is(m, {"delete"})
ReadyToPlace(m) == row[m].state = IF BacksUp(m) THEN "source_backed_up" ELSE "validated"

Place(m) ==
    /\ At("publish") /\ Next1(m)
    /\ ReadyToPlace(m) /\ ~Placed(m)
    /\ Renames(Temp(m), Destination(m))
    /\ mem' = [mem EXCEPT !.published = @ \cup {m}]
    /\ UNCHANGED <<row, adopted, op, world>>

MarkPublishedAndClean(m) ==
    /\ At("publish") /\ Next1(m)
    /\ ReadyToPlace(m) /\ Placed(m)
    /\ Becomes(m, "published")
    /\ Unlinks(Backup(m))
    /\ mem' = [mem EXCEPT !.todo = @ \ {m}, !.published = @ \cup {m},
                          !.pc = IF mem.todo = {m} THEN "commit" ELSE "publish"]
    /\ UNCHANGED <<adopted, op, world>>

MarkPublished(m) ==
    /\ At("publish") /\ Next1(m)
    /\ ReadyToPlace(m) /\ Placed(m)
    /\ Becomes(m, "published")
    /\ mem' = [mem EXCEPT !.todo = @ \ {m}, !.published = @ \cup {m},
                          !.pc = IF mem.todo = {m} THEN "commit" ELSE "publish"]
    /\ UNCHANGED <<disk, adopted, op, world>>

\* commit_library_management_bundle, one transaction.
Committable ==
    /\ \A m \in Rows : row[m].state = "published"
    /\ op.job = "running" /\ op.by = mem.by /\ op.work = "running"

Adopts ==
    /\ adopted' = TRUE
    /\ row' = [m \in Mutations |-> IF m \in Rows THEN [row[m] EXCEPT !.state = "catalog_committed"]
                                   ELSE row[m]]
    /\ op' = [op EXCEPT !.work = "succeeded"]

Commit ==
    /\ At("commit")
    /\ conf = "current" /\ Committable
    /\ Adopts
    /\ Starts("cleanup", Rows)
    /\ UNCHANGED <<disk, world>>

\* The catalogue or a managed track has changed since the preview, or the settings.
CommitRejected ==
    /\ At("commit")
    /\ Raises
    /\ UNCHANGED <<disk, row, adopted, op, world>>

\* _cleanup_committed: the original, then the temporary, then the row.
Disposable(m) ==
    IF m \in mem.backedUp THEN Backup(m) ELSE Source(m)

MustDispose(m) ==
    \/ m \in mem.backedUp
    \/ RemovesSource /\ HasSource(m) /\ ~InPlace(m) /\ ~Holds(Source(m), Missing)

Cleanup(m) ==
    /\ At("cleanup") /\ Next1(m)
    /\ \/ /\ MustDispose(m) /\ Holds(Disposable(m), Old(m))
          /\ Unlinks(Disposable(m))
          /\ mem' = [mem EXCEPT !.backedUp = @ \ {m}]
          /\ UNCHANGED row
       \/ /\ MustDispose(m) /\ ~Holds(Disposable(m), Old(m))
          /\ Becomes(m, "cleanup_pending") /\ Passes(m) /\ UNCHANGED disk
       \/ /\ ~MustDispose(m) /\ ~Holds(Temp(m), Missing)
          /\ Unlinks(Temp(m)) /\ UNCHANGED <<row, mem>>
       \/ /\ ~MustDispose(m) /\ Holds(Temp(m), Missing)
          /\ Becomes(m, "completed") /\ Passes(m) /\ UNCHANGED disk
    /\ UNCHANGED <<adopted, op, world>>

CleanedUp ==
    /\ mem.todo = {}
    /\ \/ At("cleanup") /\ mem.by = "worker" /\ Goes("idle")
       \/ At("cleanup") /\ mem.by = "recovery" /\ Goes("settle")
    /\ UNCHANGED <<disk, row, adopted, op, world>>

-----------------------------------------------------------------------------
(* _rollback: each row of the list, from the last *)

UndoMarkOnly(m) ==
    /\ At("undo") /\ Last1(m)
    /\ IF row[m].state \in Undoable THEN Becomes(m, "rolled_back") ELSE UNCHANGED row
    /\ Passes(m)
    /\ UNCHANGED <<disk, adopted, op, world>>

UndoMark(m) ==
    /\ At("undo") /\ Last1(m)
    /\ \/ row[m].state \in Undoable /\ Becomes(m, "rollback_pending") /\ UNCHANGED mem
       \/ row[m].state \notin Undoable \cup {"rollback_pending"} /\ Passes(m) /\ UNCHANGED row
    /\ UNCHANGED <<disk, adopted, op, world>>

MustWithdraw(m) == m \in mem.published /\ ~Holds(Destination(m), Missing)
GivesUp(m) == Becomes(m, "needs_attention") /\ Passes(m)

\* _restore_prepared_filesystem, then the row.
UndoRestore(m) ==
    /\ At("undo") /\ Last1(m) /\ row[m].state = "rollback_pending"
    /\ \/ /\ MustWithdraw(m) /\ Holds(Destination(m), Staged(m))
          /\ Unlinks(Destination(m)) /\ UNCHANGED <<row, mem>>
       \/ /\ MustWithdraw(m) /\ ~Holds(Destination(m), Staged(m))
          /\ GivesUp(m) /\ UNCHANGED disk
       \/ /\ ~MustWithdraw(m) /\ m \in mem.backedUp
          /\ Renames(Backup(m), Source(m))
          /\ mem' = [mem EXCEPT !.backedUp = @ \ {m}, !.published = @ \ {m}]
          /\ UNCHANGED row
       \/ /\ ~MustWithdraw(m) /\ m \notin mem.backedUp /\ ~Holds(Temp(m), Missing)
          /\ Unlinks(Temp(m)) /\ UNCHANGED <<row, mem>>
       \/ /\ ~MustWithdraw(m) /\ m \notin mem.backedUp /\ Holds(Temp(m), Missing)
          /\ Becomes(m, "rolled_back") /\ Passes(m) /\ UNCHANGED disk
    /\ UNCHANGED <<adopted, op, world>>

\* _remove_unpublished_temporaries, and the exception leaves publish_bundle.
UndoDone ==
    /\ At("undo") /\ mem.todo = {}
    /\ disk' = [p \in Paths |-> IF p[2] = "temp" /\ p[1] \in mem.ready \ mem.published
                                THEN Missing ELSE disk[p]]
    /\ Goes(IF mem.by = "worker" THEN "refused" ELSE "resumeFailed")
    /\ UNCHANGED <<row, adopted, op, world>>

RefuseForNow ==
    /\ At("refused")
    /\ op' = [op EXCEPT !.work = "pending"]
    /\ Goes("idle")
    /\ UNCHANGED <<disk, row, adopted, world>>

\* _run_apply: the work row is skipped or failed, and the loop goes on.
Refuse ==
    /\ At("refused")
    /\ op' = [op EXCEPT !.work = "failed"]
    /\ Goes("idle")
    /\ UNCHANGED <<disk, row, adopted, world>>

\* claim_operation_job where no worker holds the job, finish_library_management_apply
Finish ==
    /\ At("idle")
    /\ op.job \in {"queued", "running"} /\ op.work # "running"
    /\ op' = [op EXCEPT !.job = "succeeded", !.by = "none"]
    /\ UNCHANGED <<disk, row, adopted, mem, world>>

\* recover_expired_operation_leases, claim_operation_job, claim_operation_work
Reclaim ==
    /\ At("idle")
    /\ Open = {}
    /\ op.job \in {"queued", "running"} /\ op.work = "running"
    /\ op' = [op EXCEPT !.job = "running", !.by = "worker"]
    /\ mem' = [Forgotten EXCEPT !.pc = "begin", !.by = "worker"]
    /\ UNCHANGED <<disk, row, adopted, world>>

-----------------------------------------------------------------------------
(* LibraryManagementRecoveryService: what to do with the bundle *)

\* recovery_filesystem_configuration
Compensation == IF conf = "rootsChanged" THEN "attention" ELSE "compensate"

Claimable == op.phase = "applying" /\ op.work = "running"

\* _recover_bundle
Disposition ==
    CASE States \cap Committed # {} ->
             IF States \subseteq Committed /\ conf # "rootsChanged" THEN "tidyCheck" ELSE "attention"
      [] States \cap Committed = {} /\ ~(States \subseteq Undoable \cup Undone) -> "attention"
      [] States \subseteq Undoable \cup Undone /\ States \cap Undone # {} -> Compensation
      [] OTHER ->
             IF op.job \notin {"queued", "running"} THEN Compensation
             ELSE IF ~Claimable THEN "attention"
             ELSE IF States \subseteq Early /\ States # {"validated"} THEN "begin"
             ELSE IF conf = "current" /\ {m \in Mutations : Audio(m)} \subseteq Rows
             THEN "preflight" ELSE Compensation

Claims == /\ States \subseteq Undoable
          /\ op.job \in {"queued", "running"} /\ Claimable

\* At startup, and in the worker's loop between operations.
Recover ==
    /\ At("starting") \/ (At("idle") /\ op.job \notin {"queued", "running"})
    /\ Open # {}
    /\ op' = IF Claims THEN [op EXCEPT !.job = "running", !.by = "recovery"] ELSE op
    /\ mem' = [Forgotten EXCEPT !.pc = Disposition, !.by = "recovery", !.todo = Rows]
    /\ UNCHANGED <<disk, row, adopted, world>>

Started ==
    /\ At("starting") /\ Open = {}
    /\ Goes("idle")
    /\ UNCHANGED <<disk, row, adopted, op, world>>

\* _resume_prepared_bundle: publish_bundle has raised.
ResumeFailed ==
    /\ At("resumeFailed")
    /\ Starts(IF Open = {} THEN "fail" ELSE Compensation, Rows)
    /\ UNCHANGED <<disk, row, adopted, op, world>>

-----------------------------------------------------------------------------
(* _finish_published_bundle *)

NotBackedUp(m) == Holds(Source(m), Old(m)) /\ Holds(Backup(m), Missing)
SafelyBackedUp(m) == Holds(Source(m), Missing) /\ Holds(Backup(m), Old(m))
NotPlaced(m) == Holds(Temp(m), Staged(m)) /\ Holds(Destination(m), Missing)
SafelyPlaced(m) == Holds(Temp(m), Missing) /\ Holds(Destination(m), Staged(m))

\* _preflight_publish
BackupExplained(m) == SafelyBackedUp(m) \/ (row[m].state = "validated" /\ NotBackedUp(m))
PlaceExplained(m) == NotPlaced(m) \/ SafelyPlaced(m)

Explained(m) ==
    LET s == row[m].state IN
    CASE KnownDelete(m) -> Holds(Temp(m), Staged(m)) /\ BackupExplained(m)
      [] KnownRecycle(m) -> BackupExplained(m) /\ PlaceExplained(m)
      [] InPlace(m) /\ ~KnownDelete(m) ->
             \/ s = "validated" /\ Holds(Temp(m), Staged(m)) /\ BackupExplained(m)
             \/ /\ s = "source_backed_up" /\ Holds(Backup(m), Old(m))
                /\ NotPlaced(m) \/ Holds(Destination(m), Staged(m))
             \/ /\ s = "published"
                /\ Holds(Destination(m), Staged(m)) /\ Holds(Backup(m), Old(m))
      [] OTHER ->
             /\ SourceIntact(m) /\ Holds(Backup(m), Missing)
             /\ \/ s = "validated" /\ PlaceExplained(m)
                \/ s = "published" /\ Holds(Destination(m), Staged(m))

Preflight ==
    /\ At("preflight")
    /\ Goes(IF \A m \in Rows : Explained(m) THEN "remaining" ELSE "attention")
    /\ UNCHANGED <<disk, row, adopted, op, world>>

\* _publish_remaining
RemainingBackUp(m) ==
    /\ At("remaining") /\ Next1(m)
    /\ row[m].state = "validated" /\ BacksUp(m)
    /\ \/ Holds(Source(m), Old(m)) /\ Renames(Source(m), Backup(m)) /\ UNCHANGED row
       \/ SafelyBackedUp(m) /\ Becomes(m, "source_backed_up") /\ UNCHANGED disk
    /\ UNCHANGED <<adopted, op, mem, world>>

RemainingPlace(m) ==
    /\ At("remaining") /\ Next1(m)
    /\ ReadyToPlace(m) /\ ~Is(m, {"delete"}) /\ ~Holds(Destination(m), Staged(m))
    /\ Renames(Temp(m), Destination(m))
    /\ UNCHANGED <<row, adopted, op, mem, world>>

RemainingMark(m) ==
    /\ At("remaining") /\ Next1(m)
    /\ \/ /\ ReadyToPlace(m) /\ (Is(m, {"delete"}) \/ Holds(Destination(m), Staged(m)))
          /\ Becomes(m, "published") /\ UNCHANGED mem
       \/ row[m].state = "published" /\ Passes(m) /\ UNCHANGED row
    /\ UNCHANGED <<disk, adopted, op, world>>

RemainingDone ==
    /\ At("remaining") /\ mem.todo = {}
    /\ Goes("recommit")
    /\ UNCHANGED <<disk, row, adopted, op, world>>

Recommit ==
    /\ At("recommit")
    /\ Committable
    /\ Adopts
    /\ Starts("tidyCheck", Rows)
    /\ UNCHANGED <<disk, world>>

RecommitRejected ==
    /\ At("recommit")
    /\ Starts(Compensation, Rows)
    /\ UNCHANGED <<disk, row, adopted, op, world>>

-----------------------------------------------------------------------------
(* _cleanup_committed_locked *)

\* The first loop.  A destination that another program removed is not modelled.
CommittedAsFound(m) ==
    IF KnownDelete(m)
    THEN /\ Holds(Source(m), Missing)
         /\ \/ Holds(Backup(m), Old(m)) /\ Holds(Temp(m), Staged(m))
            \/ Holds(Backup(m), Missing) /\ disk[Temp(m)] \in {Staged(m), Missing}
    ELSE Holds(Destination(m), Staged(m))

TidyCheck ==
    /\ At("tidyCheck")
    /\ Goes(IF \A m \in Rows : CommittedAsFound(m) THEN "tidy" ELSE "attention")
    /\ UNCHANGED <<disk, row, adopted, op, world>>

TidyBackup(m) == ~Holds(Backup(m), Missing)
TidySource(m) == /\ RemovesSource /\ HasSource(m) /\ ~InPlace(m)
                 /\ ~Holds(Source(m), Missing) /\ ~TidyBackup(m)

Tidy(m) ==
    /\ At("tidy") /\ Next1(m)
    /\ \/ /\ TidyBackup(m) /\ Holds(Backup(m), Old(m))
          /\ Unlinks(Backup(m)) /\ UNCHANGED <<row, mem>>
       \/ /\ TidySource(m) /\ Holds(Source(m), Old(m))
          /\ Unlinks(Source(m)) /\ UNCHANGED <<row, mem>>
       \/ /\ \/ TidyBackup(m) /\ ~Holds(Backup(m), Old(m))
             \/ TidySource(m) /\ ~Holds(Source(m), Old(m))
          /\ Starts("attention", Rows) /\ UNCHANGED <<disk, row>>
       \/ /\ ~TidyBackup(m) /\ ~TidySource(m) /\ ~Holds(Temp(m), Missing)
          /\ Unlinks(Temp(m)) /\ UNCHANGED <<row, mem>>
       \/ /\ ~TidyBackup(m) /\ ~TidySource(m) /\ Holds(Temp(m), Missing)
          /\ Becomes(m, "completed") /\ Passes(m) /\ UNCHANGED disk
    /\ UNCHANGED <<adopted, op, world>>

\* release_management_recovery_lease, settle_management_recovery_job
Settle ==
    /\ mem.todo = {} /\ mem.pc \in {"tidy", "settle"}
    /\ op' = IF op.job \in {"queued", "running"} /\ op.work # "running"
             THEN [op EXCEPT !.by = "none",
                             !.job = IF op.work = "failed" THEN "failed" ELSE "succeeded"]
             ELSE op
    /\ Goes("idle")
    /\ UNCHANGED <<disk, row, adopted, world>>

-----------------------------------------------------------------------------
(* _compensate_bundle and _attention_bundle *)

\* _preflight_compensation
Restorable(m) ==
    LET original == Holds(Backup(m), Old(m))
        output == disk[Destination(m)] \in {Missing, Staged(m)}
    IN CASE KnownRecycle(m) -> (original \/ NotBackedUp(m)) /\ output
         [] InPlace(m) -> (original \/ NotBackedUp(m)) /\ (output \/ Holds(Destination(m), Old(m)))
         [] OTHER -> SourceIntact(m) /\ output /\ Holds(Backup(m), Missing)

Compensate ==
    /\ At("compensate")
    /\ Starts(IF \A m \in Open : Restorable(m) THEN "mark" ELSE "attention", Rows)
    /\ UNCHANGED <<disk, row, adopted, op, world>>

\* _transition_rollback_pending writes its reason over the evidence of the row.
Mark(m) ==
    /\ At("mark") /\ Next1(m)
    /\ \/ row[m].state \in Undoable /\ BecomesFor(m, "rollback_pending") /\ UNCHANGED mem
       \/ row[m].state \notin Undoable /\ Passes(m) /\ UNCHANGED row
    /\ UNCHANGED <<disk, adopted, op, world>>

\* _restore_originals
Withdraws(m) ==
    /\ Holds(Destination(m), Staged(m))
    /\ InPlace(m) => Holds(Backup(m), Old(m))
PutsBack(m) == (InPlace(m) \/ KnownRecycle(m)) /\ Holds(Backup(m), Old(m)) /\ ~Withdraws(m)

Restore(m) ==
    /\ At("restore") /\ Last1(m)
    /\ \/ /\ row[m].state # "rollback_pending"
          /\ Passes(m) /\ UNCHANGED disk
       \/ /\ row[m].state = "rollback_pending"
          /\ \/ Withdraws(m) /\ Unlinks(Destination(m)) /\ UNCHANGED mem
             \/ PutsBack(m) /\ Renames(Backup(m), Source(m)) /\ UNCHANGED mem
             \/ /\ ~Withdraws(m) /\ ~PutsBack(m) /\ ~Holds(Temp(m), Missing)
                /\ Unlinks(Temp(m)) /\ UNCHANGED mem
             \/ /\ ~Withdraws(m) /\ ~PutsBack(m) /\ Holds(Temp(m), Missing)
                /\ Passes(m) /\ UNCHANGED disk
    /\ UNCHANGED <<row, adopted, op, world>>

Close(m) ==
    /\ At("close") /\ Next1(m)
    /\ IF row[m].state = "rollback_pending" THEN BecomesFor(m, "rolled_back") ELSE UNCHANGED row
    /\ Passes(m)
    /\ UNCHANGED <<disk, adopted, op, world>>

AttendQuietly(m) ==
    /\ At("attention") /\ Next1(m)
    /\ Passes(m)
    /\ UNCHANGED <<disk, row, adopted, op, world>>

\* _attention_bundle
Attend(m) ==
    /\ At("attention") /\ Next1(m)
    /\ IF m \in Open THEN BecomesFor(m, "needs_attention") ELSE UNCHANGED row
    /\ Passes(m)
    /\ UNCHANGED <<disk, adopted, op, world>>

NextPhase ==
    /\ mem.todo = {}
    /\ \/ At("mark") /\ Starts("restore", Rows)
       \/ At("restore") /\ Starts("close", Rows)
       \/ mem.pc \in {"close", "attention"} /\ Goes("fail")
    /\ UNCHANGED <<disk, row, adopted, op, world>>

\* fail_management_bundle_recovery
Fail ==
    /\ At("fail")
    /\ op' = [op EXCEPT !.job = "failed", !.by = "none",
                        !.work = IF @ = "running" THEN "failed" ELSE @]
    /\ Goes("idle")
    /\ UNCHANGED <<disk, row, adopted, world>>

-----------------------------------------------------------------------------
(* What goes wrong *)

\* A file system call raises OSError.
Fault ==
    /\ spent.faults < MaxFaults
    /\ spent' = [spent EXCEPT !.faults = @ + 1]
    /\ \/ mem.pc \in {"ensure", "stage", "recheck", "publish"} /\ Raises /\ UNCHANGED row
       \/ \E m \in mem.todo :
             \/ At("cleanup") /\ Next1(m) /\ Becomes(m, "cleanup_pending") /\ Passes(m)
             \/ At("undo") /\ Last1(m) /\ row[m].state = "rollback_pending" /\ GivesUp(m)
       \/ At("remaining") /\ Starts(Compensation, Rows) /\ UNCHANGED row
       \/ mem.pc \in {"tidy", "restore"} /\ Starts("attention", Rows) /\ UNCHANGED row
    /\ UNCHANGED <<disk, adopted, op, conf, touched>>

\* Every audio row is there and every row is validated, but not every mutation has one.
Incomplete == /\ States = {"validated"} /\ Rows # Mutations
              /\ {m \in Mutations : Audio(m)} \subseteq Rows

Stop ==
    /\ ~At("down")
    /\ spent.stops < MaxStops
    /\ Incomplete => "stopBetweenMutations" \in Admits
    /\ spent' = [spent EXCEPT !.stops = @ + 1]
    /\ mem' = Forgotten
    /\ UNCHANGED <<disk, row, adopted, op, conf, touched>>

Restart ==
    /\ At("down")
    /\ Goes("starting")
    /\ UNCHANGED <<disk, row, adopted, op, world>>

\* Startup recovery has found another bundle of the operation in need of attention.
OtherBundleFails ==
    /\ At("starting")
    /\ op.job \in {"queued", "running"}
    /\ op' = [op EXCEPT !.job = "failed", !.by = "none"]
    /\ UNCHANGED <<disk, row, adopted, mem, world>>

\* An administrator saves the management settings or the library roots.
Reconfigure(c) ==
    /\ conf = "current" /\ c # conf
    /\ conf' = c
    /\ UNCHANGED <<disk, row, adopted, op, mem, touched, spent>>

\* Another program writes a file, while the publisher does not hold the roots.
OtherWrites(p) ==
    /\ mem.pc \in {"down", "begin", "ensure", "stage", "advance"}
    /\ touched = {}
    /\ LET owners == {m \in Mutations : p \in {Source(m), Destination(m)}} IN
       /\ owners # {}
       /\ touched' = owners
       /\ disk' = [disk EXCEPT ![p] = IF Holds(p, Old(p[1])) THEN Edited(p[1]) ELSE Foreign(p[1])]
    /\ UNCHANGED <<row, adopted, op, conf, mem, spent>>

-----------------------------------------------------------------------------

Work ==
    \/ Begin \/ Recheck \/ Commit \/ CommitRejected \/ CleanedUp \/ UndoDone \/ Refuse \/ Finish
    \/ Reclaim \/ Recover \/ Started \/ ResumeFailed \/ Preflight \/ RemainingDone \/ Recommit
    \/ RecommitRejected \/ TidyCheck \/ Settle \/ Compensate \/ NextPhase \/ Fail \/ Restart
    \/ \E m \in Mutations :
          \/ EnsureJournal(m) \/ Stage(m) \/ Advance(m) \/ BackUp(m) \/ MarkBackedUp(m)
          \/ Place(m) \/ MarkPublished(m) \/ Cleanup(m) \/ UndoMark(m) \/ UndoRestore(m)
          \/ RemainingBackUp(m) \/ RemainingPlace(m) \/ RemainingMark(m) \/ Tidy(m)
          \/ Mark(m) \/ Restore(m) \/ Close(m) \/ Attend(m)

Next ==
    \/ Work \/ Fault \/ Stop \/ OtherBundleFails
    \/ \E c \in {"settingsChanged", "rootsChanged"} : Reconfigure(c)
    \/ \E p \in Paths : OtherWrites(p)

Spec == Init /\ [][Next]_vars /\ WF_vars(Work)

-----------------------------------------------------------------------------
(* Properties *)

\* A row says rolled back only of a mutation whose original is where it was, whose output is
\* gone and whose backup is gone, whichever of the two rollbacks did it and over however many
\* restarts (unless another program wrote to its files).
RolledBackIsRestored ==
    \A m \in Mutations \ touched :
        row[m].state = "rolled_back" =>
            /\ SourceIntact(m)
            /\ ~InPlace(m) => ~Holds(Destination(m), Staged(m))
            /\ Holds(Backup(m), Missing)

\* Whatever recovery adopts was prepared as a whole: no mutation of the plan is left out.
AdoptedIsWhole == adopted => Rows = Mutations

\* No step of the publisher or of recovery destroys what another program wrote: the bytes
\* remain on the disk, if under another name.
OthersBytesSurvive ==
    [][\A p \in Paths : disk[p][2] \in {"edited", "foreign"} => \E q \in Paths : disk'[q] = disk[p]]_disk

\* The bundle is all or nothing, as AtomicPublication describes it.
Promise == INSTANCE AtomicPublication WITH
    held <- {m \in Mutations : \/ ~HasSource(m)
                               \/ \E p \in {Source(m), Backup(m)} : disk[p] \in {Old(m), Edited(m)}},
    shown <- {m \in Mutations : IF Is(m, {"delete"}) THEN Holds(Source(m), Missing)
                                ELSE Holds(Destination(m), Staged(m))}
RefinesAtomicPublication == Promise!Spec

Settled == At("idle") /\ Open = {} /\ op.job \in {"succeeded", "failed"}

\* Whatever fails and whenever the process stops, the bundle ends: every row is closed and the
\* operation is over.
Settles == <>[]Settled
=============================================================================
