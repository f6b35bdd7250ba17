-------------------------- MODULE ImportPublication --------------------------
(***************************************************************************)
(* The publication of a download: publish_import_bundle stages the files   *)
(* of a verified unit beside their destinations, renames them into place   *)
(* under the write leases, has the catalogue adopt them in one transaction *)
(* and removes what they were made from.  The caller may be cancelled, may *)
(* fail, and may call again with the same bundle; recover_once, in the     *)
(* loop of the operation worker, takes care of bundles nobody publishes,   *)
(* and at startup of those a stop left behind.                             *)
(*                                                                         *)
(* Abstractions.  A place holds one of the byte strings that matter, and a *)
(* fingerprint is the bytes.  A rename, an unlink and a transaction are    *)
(* one step each; staging a file is one, and so are checks made under the  *)
(* leases.  A file has at most one sidecar.  The files are managed: the    *)
(* settings are checked with the policy, and policy stands for both.  A    *)
(* copy of a journal row is fresh while no other has written the row.      *)
(***************************************************************************)
EXTENDS Naturals, Sequences

CONSTANTS
    Plan,      \* the files: [sidecar, replaces], where a file may replace one of the library
               \* at its destination (same) or at another path (other)
    MaxCalls, MaxStops, MaxFaults, \* bound the calls, the stops and what fails or is cancelled
    Admits     \* the circumstances of this instance

Circumstances ==
    {"callOverRollback",    \* the bundle is published again while recovery waits to undo a row
                            \* that it read in the middle of its rollback
     "stopWhenOverruled",   \* a stop after recovery closed a bundle under its publisher
     "stopInRestore",       \* a stop after a rollback removed the audio and before the sidecar
     "writesWhereBackedUp"} \* another program writes where a file was that is in its backup

ImportAssumption ==
    /\ Plan \in Seq([sidecar : BOOLEAN, replaces : {"nothing", "same", "other"}]) /\ Plan # <<>>
    /\ {MaxCalls, MaxStops, MaxFaults} \subseteq Nat
    /\ Admits \subseteq Circumstances

VARIABLES
    bundle,   \* the state of the bundle's row
    row,      \* the states of the journal rows
    disk,     \* what each place of a file holds
    adopted,  \* the catalogue describes the destinations
    lease,    \* who has the write leases
    policy,   \* since the bundle was made
    process,  \* down, starting (recover_startup) or running
    w,        \* what the publisher and recovery are at
    touched,  \* history: files another program has written to
    spent     \* what the bounds count

vars == <<bundle, row, disk, adopted, lease, policy, process, w, touched, spent>>

Files == DOMAIN Plan
Workers == {"publisher", "recovery"}

HasSidecar(f) == Plan[f].sidecar
Same(f) == Plan[f].replaces = "same"

Places == {"source", "temp", "destination", "backup", "old",
           "sidecar", "sidecarTemp", "sidecarPlace"}
Bytes == {"missing", "input", "staged", "replaced", "art", "foreign"}

Holds(f, place, bytes) == disk[f][place] = bytes
Empty(f, place) == Holds(f, place, "missing")
Moves(f, from, to) == disk' = [disk EXCEPT ![f][to] = disk[f][from], ![f][from] = "missing"]
Unlinks(f, place) == disk' = [disk EXCEPT ![f][place] = "missing"]

Committed == {"catalog_committed", "cleanup_pending", "completed"}
Ready == {"validated", "replacement_backed_up"}
Undoable == {"planned", "staged", "published", "rollback_pending"} \cup Ready
Closed == {"completed", "rolled_back", "needs_attention"}

Pcs == {"idle", "mark", "list", "prepare", "stage", "staged", "unprepare", "enter", "boundary",
        "recheck", "publish", "commit", "undoWait", "undo", "restore", "close", "cleanWait",
        "clean", "listed", "journals", "finish", "attention"}

Nobody == [pc |-> "idle", seen |-> "none", copy |-> [f \in Files |-> "none"], fresh |-> {},
           prepared |-> {}, todo |-> {}, was |-> {}, failed |-> {}]

TypeOK ==
    /\ bundle \in {"none", "preparing", "publishing", "rolled_back", "needs_attention"} \cup Committed
    /\ row \in [Files -> {"none"} \cup Undoable \cup Committed \cup Closed]
    /\ disk \in [Files -> [Places -> Bytes]]
    /\ adopted \in BOOLEAN /\ policy \in {"current", "changed"}
    /\ lease \in {"none"} \cup Workers /\ process \in {"down", "starting", "running"}
    /\ \A p \in Workers :
          /\ w[p].pc \in Pcs
          /\ w[p].fresh \cup w[p].prepared \cup w[p].todo \cup w[p].was \cup w[p].failed \subseteq Files
          \* Whoever does file work of the critical sections has the leases.
          /\ w[p].pc \in {"boundary", "recheck", "publish", "commit", "undo", "restore", "clean"}
                => lease = p
    /\ touched \subseteq Files
    /\ spent \in [calls : 0 .. MaxCalls, stops : 0 .. MaxStops, faults : 0 .. MaxFaults]

Init ==
    /\ bundle = "none"
    /\ row = [f \in Files |-> "none"]
    /\ disk = [f \in Files |-> [place \in Places |->
                  CASE place = "source" -> "input"
                    [] place = "sidecar" /\ HasSidecar(f) -> "art"
                    [] place = "destination" /\ Same(f) -> "replaced"
                    [] place = "old" /\ Plan[f].replaces = "other" -> "replaced"
                    [] OTHER -> "missing"]]
    /\ adopted = FALSE /\ policy = "current"
    /\ lease = "none" /\ process = "running"
    /\ w = [p \in Workers |-> Nobody]
    /\ touched = {}
    /\ spent = [calls |-> 0, stops |-> 0, faults |-> 0]

-----------------------------------------------------------------------------
(* Helpers *)

world == <<policy, process, touched, spent>>

At(p, pc) == w[p].pc = pc
Goes(p, pc) == w' = [w EXCEPT ![p] = IF pc = "idle" THEN Nobody ELSE [@ EXCEPT !.pc = pc]]
Leaves(p) == lease' = IF lease = p THEN "none" ELSE lease

First(p, f) == f \in w[p].todo /\ \A g \in w[p].todo : f <= g
Last(p, f) == f \in w[p].todo /\ \A g \in w[p].todo : g <= f

\* Mutant of CanWrite: the revision is not compared.
CanWriteAnyway(p, f) == p \in Workers /\ f \in Files

\* transition_library_management_import_journal by p, which has the row's revision: the
\* copies of the other are stale.
CanWrite(p, f) == f \in w[p].fresh
Writes(p, f, state) == row' = [row EXCEPT ![f] = state]
Written(p, f, state) ==
    [q \in Workers |-> IF q = p THEN [w[q] EXCEPT !.copy[f] = state, !.fresh = @ \cup {f}]
                       ELSE [w[q] EXCEPT !.fresh = @ \ {f}]]

\* A file is done with: the next one, or the next phase.
Passed(mem, f, phase) ==
    [mem EXCEPT !.todo = @ \ {f}, !.pc = IF mem.todo = {f} THEN phase ELSE @]

\* The rows as p reads them.
Listed(mem, files) ==
    [mem EXCEPT !.copy = [f \in Files |-> IF f \in files THEN row[f] ELSE @[f]],
                !.fresh = @ \cup files, !.prepared = @ \cup files]
Journalled == {f \in Files : row[f] # "none"}

AudioPlaced(f) == Empty(f, "temp") /\ Holds(f, "destination", "staged")

-----------------------------------------------------------------------------
(* publish_import_bundle: the bundle and its preparation *)

P == w["publisher"]
PAt(pc) == At("publisher", pc)
PGoes(pc) == Goes("publisher", pc)

\* Recovery waits for the leases with a row it has read in the middle of its rollback.
HalfUndoneRead ==
    /\ At("recovery", "undoWait")
    /\ \E f \in Files : w["recovery"].copy[f] = "rollback_pending"

\* ensure_library_management_import_bundle.  A caller whose policy is another makes another
\* request of the same bundle, which is refused.
Call ==
    /\ process = "running" /\ PAt("idle")
    /\ spent.calls < MaxCalls
    /\ HalfUndoneRead => "callOverRollback" \in Admits
    /\ spent' = [spent EXCEPT !.calls = @ + 1]
    /\ bundle' = IF bundle = "none" THEN "preparing" ELSE bundle
    /\ w' = [w EXCEPT !["publisher"] =
                IF policy = "changed" \/ bundle' \in {"completed", "needs_attention"} THEN Nobody
                ELSE [@ EXCEPT !.seen = bundle',
                               !.pc = CASE bundle' \in {"preparing", "rolled_back"} -> "mark"
                                        [] bundle' = "publishing" -> "list"
                                        [] OTHER -> "cleanWait"]]
    /\ UNCHANGED <<row, disk, adopted, lease, policy, process, touched>>

\* mark_library_management_import_publishing
Mark ==
    /\ PAt("mark")
    /\ IF bundle = P.seen THEN bundle' = "publishing" /\ PGoes("list")
       ELSE PGoes("idle") /\ UNCHANGED bundle
    /\ UNCHANGED <<row, disk, adopted, lease, world>>

\* _root_paths raises before the try: the bundle stays as it is.
List ==
    /\ PAt("list")
    /\ w' = [w EXCEPT !["publisher"] =
                IF policy = "changed" THEN Nobody
                ELSE [Listed(@, Journalled) EXCEPT !.pc = "prepare", !.todo = Files,
                                                   !.prepared = {}]]
    /\ UNCHANGED <<bundle, row, disk, adopted, lease, world>>

\* One transition of a row by the publisher, or else what a stale revision leads to.
Transition(f, state, mem(_), otherwise) ==
    IF CanWrite("publisher", f)
    THEN /\ Writes("publisher", f, state)
         /\ w' = [Written("publisher", f, state) EXCEPT !["publisher"] = mem(@)]
    ELSE otherwise /\ UNCHANGED row

ToStage(mem) == [mem EXCEPT !.pc = "stage"]
ToPrepare(mem) == [mem EXCEPT !.pc = "prepare"]
Unprepares == PGoes("unprepare")

\* _prepare_import_file, with the row as listed.
PrepareFile(f) ==
    /\ PAt("prepare") /\ First("publisher", f)
    /\ LET state == P.copy[f] IN
       \/ /\ state = "none"
          /\ Writes("publisher", f, "planned")
          /\ w' = [Written("publisher", f, "planned") EXCEPT !["publisher"] = ToStage(@)]
       \/ /\ state = "rolled_back"
          /\ Transition(f, "planned", ToStage, Unprepares)
       \/ /\ state = "planned"
          /\ PGoes("stage") /\ UNCHANGED row
       \/ /\ state = "staged"
          /\ IF Holds(f, "temp", "staged") THEN Transition(f, "validated", ToPrepare, Unprepares)
             ELSE Unprepares /\ UNCHANGED row
       \/ /\ state \in Ready \cup {"published"}
          /\ w' = [w EXCEPT !["publisher"] = [Passed(P, f, "enter") EXCEPT !.prepared = P.prepared \cup {f}]]
          /\ UNCHANGED row
       \/ /\ state \in (Committed \cup Closed \cup {"rollback_pending"}) \ {"rolled_back"}
          /\ Unprepares /\ UNCHANGED row
    /\ UNCHANGED <<bundle, disk, adopted, lease, world>>

ReplacedIntact(f) == CASE Same(f) -> Holds(f, "destination", "replaced")
                       [] Plan[f].replaces = "other" -> Holds(f, "old", "replaced")
                       [] OTHER -> TRUE

\* _prepare_import_artifacts, _stage_audio
Stage(f) ==
    /\ PAt("stage") /\ First("publisher", f)
    /\ IF Holds(f, "source", "input") /\ ReplacedIntact(f) /\ (HasSidecar(f) => Holds(f, "sidecar", "art"))
       THEN /\ disk' = [disk EXCEPT ![f].temp = "staged",
                                    ![f].sidecarTemp = IF HasSidecar(f) THEN "art" ELSE @]
            /\ PGoes("staged")
       ELSE Unprepares /\ UNCHANGED disk
    /\ UNCHANGED <<bundle, row, adopted, lease, world>>

MarkStaged(f) ==
    /\ PAt("staged") /\ First("publisher", f)
    /\ Transition(f, "staged", ToPrepare, Unprepares)
    /\ UNCHANGED <<bundle, disk, adopted, lease, world>>

\* Mutant of Unprepare: the row of the file that failed is forgotten.
UnprepareKnown ==
    /\ PAt("unprepare")
    /\ PGoes(IF P.prepared = {} THEN "close" ELSE "undoWait")
    /\ UNCHANGED <<bundle, row, disk, adopted, lease, world>>

\* _rollback_import_preparation: the row of the file that failed is listed, too.
Unprepare ==
    /\ PAt("unprepare")
    /\ w' = [w EXCEPT !["publisher"] =
                [Listed(@, Journalled \ P.prepared) EXCEPT
                    !.pc = IF Journalled \cup P.prepared = {} THEN "close" ELSE "undoWait"]]
    /\ UNCHANGED <<bundle, row, disk, adopted, lease, world>>

-----------------------------------------------------------------------------
(* publish_import_bundle: the critical section *)

\* The exception leaves the leases; what was committed meanwhile is cleaned up, the rest undone.
Raises ==
    /\ Leaves("publisher")
    /\ PGoes(IF bundle \in Committed THEN "cleanWait" ELSE "undoWait")

Enter ==
    /\ PAt("enter") /\ lease = "none"
    /\ IF policy = "changed" THEN Raises
       ELSE /\ lease' = "publisher"
            /\ w' = [w EXCEPT !["publisher"] = [P EXCEPT !.pc = "boundary", !.todo = P.todo \cup P.prepared]]
    /\ UNCHANGED <<bundle, row, disk, adopted, world>>

InHand(f) == First("publisher", f) /\ (PAt("boundary") \/ PAt("publish"))
AfterIt == IF PAt("boundary") THEN "recheck" ELSE "commit"

\* A transition in the critical section.
Turns(f, state, mem(_)) ==
    \/ Transition(f, state, mem, FALSE) /\ UNCHANGED lease
    \/ ~CanWrite("publisher", f) /\ Raises /\ UNCHANGED row

\* _recover_import_publish_boundary of a row that is as the files are.
SkipBoundary(f) ==
    /\ PAt("boundary") /\ First("publisher", f)
    /\ ~(P.copy[f] \in Ready /\ AudioPlaced(f))
    /\ ~(P.copy[f] = "validated" /\ Same(f) /\ Empty(f, "destination") /\ Holds(f, "backup", "replaced"))
    /\ w' = [w EXCEPT !["publisher"] = Passed(@, f, "recheck")]
    /\ UNCHANGED <<bundle, row, disk, adopted, lease, world>>

SidecarPublishable(f) ==
    IF Empty(f, "sidecarTemp") THEN Holds(f, "sidecarPlace", "art")
    ELSE Holds(f, "sidecarTemp", "art") /\ Empty(f, "sidecarPlace")

\* Mutant of Publishable: the places a file goes to are not looked at.
PublishableAnywhere(f) ==
    IF P.copy[f] = "published"
    THEN Holds(f, "destination", "staged")
    ELSE Holds(f, "source", "input") /\ Holds(f, "temp", "staged")

\* _recheck_import_bundle
Publishable(f) ==
    IF P.copy[f] = "published"
    THEN Holds(f, "destination", "staged") /\ (HasSidecar(f) => Holds(f, "sidecarPlace", "art"))
    ELSE /\ Holds(f, "source", "input") /\ Holds(f, "temp", "staged")
         /\ IF P.copy[f] = "replacement_backed_up" THEN Same(f) /\ Holds(f, "backup", "replaced")
            ELSE Empty(f, "destination") \/ (Same(f) /\ Holds(f, "destination", "replaced"))
         /\ Plan[f].replaces = "other" => Holds(f, "old", "replaced")
         /\ HasSidecar(f) => SidecarPublishable(f)

Recheck ==
    /\ PAt("recheck")
    /\ LET left == {f \in P.prepared : P.copy[f] # "published"} IN
       IF policy = "current" /\ \A f \in P.prepared : Publishable(f)
       THEN /\ w' = [w EXCEPT !["publisher"] = [@ EXCEPT !.pc = IF left = {} THEN "commit" ELSE "publish",
                                                         !.todo = left]]
            /\ disk' = [f \in Files |-> IF f \in P.prepared \ left
                                        THEN [disk[f] EXCEPT !.sidecarTemp = "missing"] ELSE disk[f]]
            /\ UNCHANGED lease
       ELSE Raises /\ UNCHANGED disk
    /\ UNCHANGED <<bundle, row, adopted, world>>

\* _publish_import_file
BackUp(f) ==
    /\ PAt("publish") /\ InHand(f)
    /\ Same(f) /\ P.copy[f] = "validated" /\ ~Empty(f, "destination")
    /\ Moves(f, "destination", "backup")
    /\ UNCHANGED <<bundle, row, adopted, lease, w, world>>

\* Here, or at the boundary when a stop came before it.
MarkBackedUp(f) ==
    /\ InHand(f)
    /\ Same(f) /\ P.copy[f] = "validated" /\ Empty(f, "destination") /\ Holds(f, "backup", "replaced")
    /\ LET mem(m) == IF PAt("boundary") THEN Passed(m, f, "recheck") ELSE m
       IN  Turns(f, "replacement_backed_up", mem)
    /\ UNCHANGED <<bundle, disk, adopted, world>>

Place(f) ==
    /\ PAt("publish") /\ InHand(f)
    /\ P.copy[f] = IF Same(f) THEN "replacement_backed_up" ELSE "validated"
    /\ ~AudioPlaced(f)
    /\ Moves(f, "temp", "destination")
    /\ UNCHANGED <<bundle, row, adopted, lease, w, world>>

\* _publish_import_artifacts
PlaceSidecar(f) ==
    /\ InHand(f)
    /\ P.copy[f] \in Ready /\ AudioPlaced(f) /\ ~Empty(f, "sidecarTemp")
    /\ IF Empty(f, "sidecarPlace") THEN Moves(f, "sidecarTemp", "sidecarPlace") /\ UNCHANGED <<lease, w>>
       ELSE Raises /\ UNCHANGED disk
    /\ UNCHANGED <<bundle, row, adopted, world>>

MarkPublished(f) ==
    /\ InHand(f)
    /\ P.copy[f] \in Ready /\ AudioPlaced(f) /\ Empty(f, "sidecarTemp")
    /\ LET mem(m) == Passed(m, f, AfterIt) IN
       IF HasSidecar(f) => Holds(f, "sidecarPlace", "art") THEN Turns(f, "published", mem)
       ELSE Raises /\ UNCHANGED row
    /\ UNCHANGED <<bundle, disk, adopted, world>>

Committable == bundle = "publishing" /\ \A f \in Files : row[f] = "published"

\* commit_library_management_import_bundle; then the leases are given back.
Commit ==
    /\ PAt("commit")
    /\ IF policy = "current" /\ Committable
       THEN /\ adopted' = TRUE
            /\ bundle' = "catalog_committed"
            /\ row' = [f \in Files |-> "catalog_committed"]
            /\ w' = [q \in Workers |-> IF q = "publisher" THEN [w[q] EXCEPT !.pc = "cleanWait"]
                                       ELSE [w[q] EXCEPT !.fresh = {}]]
            /\ Leaves("publisher")
       ELSE Raises /\ UNCHANGED <<adopted, bundle, row>>
    /\ UNCHANGED <<disk, world>>

-----------------------------------------------------------------------------
(* _resume_import_cleanup, by the publisher or by recovery *)

\* The record that was read is completed, the roots have changed, or the leases are taken.
BeginCleanup(p) ==
    /\ At(p, "cleanWait")
    /\ \/ /\ bundle = "completed" \/ policy = "changed"
          /\ Goes(p, IF p = "recovery" /\ bundle # "completed" THEN "attention" ELSE "idle")
          /\ UNCHANGED lease
       \/ /\ bundle # "completed" /\ policy = "current" /\ lease = "none"
          /\ lease' = p
          /\ w' = [w EXCEPT ![p] = [Nobody EXCEPT !.pc = "clean", !.seen = w[p].seen,
                                       !.todo = {f \in Journalled : row[f] # "completed"}]]
    /\ UNCHANGED <<bundle, row, disk, adopted, world>>

\* What a committed file was made from and replaces, with what is expected there.
Waste(f) ==
    << <<"source", "input">>, <<IF Same(f) THEN "backup" ELSE "old", "replaced">>, <<"sidecar", "art">> >>

Fails(p, f) == w' = [w EXCEPT ![p].todo = @ \ {f}, ![p].failed = @ \cup {f}]

CleanUp(p, f) ==
    /\ At(p, "clean") /\ First(p, f)
    /\ LET wasted == {i \in DOMAIN Waste(f) : ~Empty(f, Waste(f)[i][1])} IN
       \/ /\ wasted = {}
          /\ w' = [w EXCEPT ![p].todo = @ \ {f}] /\ UNCHANGED disk
       \/ \E i \in wasted :
             /\ \A j \in wasted : i <= j
             /\ IF Holds(f, Waste(f)[i][1], Waste(f)[i][2])
                THEN Unlinks(f, Waste(f)[i][1]) /\ UNCHANGED w
                ELSE Fails(p, f) /\ UNCHANGED disk
    /\ UNCHANGED <<bundle, row, adopted, lease, world>>

\* finish_library_management_import_cleanup
FinishCleanup(p) ==
    /\ At(p, "clean") /\ w[p].todo = {}
    /\ \/ /\ bundle \in {"catalog_committed", "cleanup_pending"}
          /\ bundle' = IF w[p].failed = {} THEN "completed" ELSE "cleanup_pending"
          /\ row' = [f \in Files |->
                        CASE f \in w[p].failed /\ row[f] = "catalog_committed" -> "cleanup_pending"
                          [] f \notin w[p].failed /\ row[f] \in {"catalog_committed", "cleanup_pending"}
                               -> "completed"
                          [] OTHER -> row[f]]
          /\ Goes(p, "idle")
       \/ /\ bundle \notin {"catalog_committed", "cleanup_pending"}
          /\ Goes(p, IF p = "recovery" THEN "attention" ELSE "idle")
          /\ UNCHANGED <<bundle, row>>
    /\ Leaves(p)
    /\ UNCHANGED <<disk, adopted, world>>

-----------------------------------------------------------------------------
(* _rollback_import_bundle, by the publisher or by recovery *)

BeginUndo(p) ==
    /\ At(p, "undoWait") /\ lease = "none"
    /\ lease' = p
    /\ w' = [w EXCEPT ![p] = [w[p] EXCEPT !.pc = "undo", !.failed = {},
                                        !.todo = w[p].todo \cup w[p].prepared]]
    /\ UNCHANGED <<bundle, row, disk, adopted, world>>

\* Mutant of WasPublished: only the row is asked.
WasMarked(p, f) == w[p].copy[f] = "published"

WasPublished(p, f) == w[p].copy[f] = "published" \/ AudioPlaced(f)

\* A row that is rollback_pending already is taken as it is, whatever its revision.
Undo(p, f) ==
    /\ At(p, "undo") /\ Last(p, f)
    /\ LET state == w[p].copy[f]
           restoring(mem) == [mem EXCEPT !.pc = "restore",
                                         !.was = IF WasPublished(p, f) THEN @ \cup {f} ELSE @]
       IN
       \/ /\ state \notin Undoable
          /\ w' = [w EXCEPT ![p].todo = @ \ {f}] /\ UNCHANGED row
       \/ /\ state = "rollback_pending"
          /\ w' = [w EXCEPT ![p] = restoring(@)] /\ UNCHANGED row
       \/ /\ state \in Undoable \ {"rollback_pending"} /\ CanWrite(p, f)
          /\ Writes(p, f, "rollback_pending")
          /\ w' = [Written(p, f, "rollback_pending") EXCEPT ![p] = restoring(@)]
       \/ /\ state \in Undoable \ {"rollback_pending"} /\ ~CanWrite(p, f)
          /\ Fails(p, f) /\ UNCHANGED row
    /\ UNCHANGED <<bundle, disk, adopted, lease, world>>

\* A file that cannot be restored: its row is set aside, if the revision is still that of p.
GivesUp(p, f) ==
    LET mem(m) == [m EXCEPT !.pc = "undo", !.todo = @ \ {f}, !.failed = @ \cup {f}] IN
    IF CanWrite(p, f)
    THEN /\ Writes(p, f, "needs_attention")
         /\ w' = [Written(p, f, "needs_attention") EXCEPT ![p] = mem(@)]
    ELSE w' = [w EXCEPT ![p] = mem(@)] /\ UNCHANGED row

\* _restore_import_filesystem, from its top, and then the row.
Withdraw(p, f, place, bytes) ==
    IF Holds(f, place, bytes) THEN Unlinks(f, place) /\ UNCHANGED <<row, w>>
    ELSE GivesUp(p, f) /\ UNCHANGED disk

Out(p, f, place) == f \in w[p].was /\ ~Empty(f, place)

Restore(p, f) ==
    /\ At(p, "restore") /\ Last(p, f)
    /\ \/ /\ Out(p, f, "destination")
          /\ Withdraw(p, f, "destination", "staged")
       \/ /\ ~Out(p, f, "destination") /\ Out(p, f, "sidecarPlace")
          /\ Withdraw(p, f, "sidecarPlace", "art")
       \/ /\ ~Out(p, f, "destination") /\ ~Out(p, f, "sidecarPlace")
          /\ \/ /\ ~Empty(f, "sidecarTemp")
                /\ Unlinks(f, "sidecarTemp") /\ UNCHANGED <<row, w>>
             \/ /\ Empty(f, "sidecarTemp") /\ ~Empty(f, "backup")
                /\ Moves(f, "backup", "destination")
                /\ w' = [w EXCEPT ![p].was = @ \ {f}] /\ UNCHANGED row
             \/ /\ Empty(f, "sidecarTemp") /\ Empty(f, "backup") /\ ~Empty(f, "temp")
                /\ Unlinks(f, "temp") /\ UNCHANGED <<row, w>>
             \/ /\ Empty(f, "sidecarTemp") /\ Empty(f, "backup") /\ Empty(f, "temp")
                /\ LET mem(m) == [m EXCEPT !.pc = "undo", !.todo = @ \ {f}] IN
                   IF CanWrite(p, f)
                   THEN /\ Writes(p, f, "rolled_back")
                        /\ w' = [Written(p, f, "rolled_back") EXCEPT ![p] = mem(@)]
                   ELSE GivesUp(p, f)
                /\ UNCHANGED disk
    /\ UNCHANGED <<bundle, adopted, lease, world>>

\* finish_library_management_import_rollback of a bundle that is still publishing; recovery
\* looks at it again.
CloseUndo(p) ==
    /\ \/ At(p, "undo") /\ w[p].todo = {}
       \/ At(p, "close")
    /\ bundle' = IF bundle # "publishing" THEN bundle
                 ELSE IF w[p].failed = {} THEN "rolled_back" ELSE "needs_attention"
    /\ Leaves(p)
    /\ Goes(p, IF p = "recovery" /\ bundle' \notin {"rolled_back", "needs_attention"}
               THEN "attention" ELSE "idle")
    /\ UNCHANGED <<row, disk, adopted, world>>

-----------------------------------------------------------------------------
(* recover_once, recover_startup and recover_import_bundle *)

R == w["recovery"]
RAt(pc) == At("recovery", pc)
RGoes(pc) == Goes("recovery", pc)

Unfinished == {"preparing", "publishing"}
Recoverable == Unfinished \cup {"catalog_committed", "cleanup_pending"}

\* list_recoverable_library_management_import_bundles
ListBundle ==
    /\ RAt("idle")
    /\ \/ process = "starting" /\ bundle \in Unfinished
       \/ process = "running" /\ bundle \in Recoverable
    /\ w' = [w EXCEPT !["recovery"] = [@ EXCEPT !.pc = "listed", !.seen = bundle]]
    /\ UNCHANGED <<bundle, row, disk, adopted, lease, world>>

\* A bundle that is being published is passed over.
RecoverBundle ==
    /\ RAt("listed")
    /\ RGoes(IF ~PAt("idle") THEN "idle" ELSE IF R.seen \in Unfinished THEN "journals" ELSE "cleanWait")
    /\ UNCHANGED <<bundle, row, disk, adopted, lease, world>>

ReadJournals ==
    /\ RAt("journals")
    /\ \/ /\ R.seen = "preparing"
          /\ RGoes(IF Journalled = {} THEN "finish" ELSE "attention")
       \/ /\ R.seen = "publishing"
          /\ IF policy = "changed" THEN RGoes("attention")
             ELSE w' = [w EXCEPT !["recovery"] = [Listed(@, Journalled) EXCEPT
                            !.pc = IF Journalled = {} THEN "close" ELSE "undoWait"]]
    /\ UNCHANGED <<bundle, row, disk, adopted, lease, world>>

\* A bundle that had not begun is closed, also if it is publishing by now.
FinishPreparing ==
    /\ RAt("finish")
    /\ bundle' = IF bundle \in Unfinished THEN "rolled_back" ELSE bundle
    /\ RGoes(IF bundle \in Unfinished THEN "idle" ELSE "attention")
    /\ UNCHANGED <<row, disk, adopted, lease, world>>

\* mark_library_management_import_needs_attention
SetAside ==
    /\ RAt("attention")
    /\ LET open == {f \in Journalled : row[f] \notin Closed} IN
       /\ row' = [f \in Files |-> IF f \in open THEN "needs_attention" ELSE row[f]]
       /\ w' = [w EXCEPT !["recovery"] = Nobody, !["publisher"].fresh = @ \ open]
    /\ bundle' = IF bundle \in Closed THEN bundle ELSE "needs_attention"
    /\ UNCHANGED <<disk, adopted, lease, world>>

Started ==
    /\ process = "starting" /\ RAt("idle") /\ bundle \notin Unfinished
    /\ process' = "running"
    /\ UNCHANGED <<bundle, row, disk, adopted, lease, policy, w, touched, spent>>

-----------------------------------------------------------------------------
(* What goes wrong *)

\* A file system call raises OSError, or the call is cancelled where nothing shields it.
Fault ==
    /\ spent.faults < MaxFaults
    /\ spent' = [spent EXCEPT !.faults = @ + 1]
    /\ \/ P.pc \in {"mark", "list"} /\ PGoes("idle") /\ UNCHANGED <<row, lease>>
       \/ P.pc \in {"prepare", "stage", "staged"} /\ Unprepares /\ UNCHANGED <<row, lease>>
       \/ P.pc \in {"enter", "boundary", "recheck", "publish", "commit"} /\ Raises /\ UNCHANGED row
       \/ P.pc \in {"cleanWait", "clean"} /\ Leaves("publisher") /\ PGoes("idle") /\ UNCHANGED row
       \/ \E p \in Workers, f \in Files :
             \/ At(p, "clean") /\ First(p, f) /\ Fails(p, f) /\ UNCHANGED <<row, lease>>
             \/ At(p, "restore") /\ Last(p, f) /\ GivesUp(p, f) /\ UNCHANGED lease
    /\ UNCHANGED <<bundle, disk, adopted, policy, process, touched>>

HalfRestored ==
    \E p \in Workers, f \in Files :
        At(p, "restore") /\ Last(p, f) /\ ~Out(p, f, "destination") /\ Out(p, f, "sidecarPlace")

Overruled == ~PAt("idle") /\ bundle \in {"rolled_back", "needs_attention"}

Stop ==
    /\ process # "down" /\ spent.stops < MaxStops
    /\ Overruled => "stopWhenOverruled" \in Admits
    /\ HalfRestored => "stopInRestore" \in Admits
    /\ spent' = [spent EXCEPT !.stops = @ + 1]
    /\ process' = "down"
    /\ lease' = "none"
    /\ w' = [p \in Workers |-> Nobody]
    /\ UNCHANGED <<bundle, row, disk, adopted, policy, touched>>

Restart ==
    /\ process = "down"
    /\ process' = "starting"
    /\ UNCHANGED <<bundle, row, disk, adopted, lease, policy, w, touched, spent>>

\* An administrator saves other roots or management settings.
ChangePolicy ==
    /\ policy = "current" /\ bundle # "none"
    /\ policy' = "changed"
    /\ UNCHANGED <<bundle, row, disk, adopted, lease, process, w, touched, spent>>

\* Another program edits a file, or makes one where a destination is to be, while nobody
\* holds the roots.  What it does before the row exists is what the row describes.
OtherWrites(f, place) ==
    /\ lease = "none" /\ touched = {} /\ row[f] # "none"
    /\ \/ place \in {"source", "old", "sidecar"} /\ ~Empty(f, place)
       \/ place = "destination"
       \/ place = "sidecarPlace" /\ HasSidecar(f)
    /\ place = "destination" /\ ~Empty(f, "backup") => "writesWhereBackedUp" \in Admits
    /\ touched' = {f}
    /\ disk' = [disk EXCEPT ![f][place] = "foreign"]
    /\ UNCHANGED <<bundle, row, adopted, lease, policy, process, w, spent>>

-----------------------------------------------------------------------------

PublisherStep ==
    \/ Mark \/ List \/ Unprepare \/ Enter \/ Recheck \/ Commit
    \/ \E f \in Files :
          \/ PrepareFile(f) \/ Stage(f) \/ MarkStaged(f) \/ SkipBoundary(f) \/ BackUp(f)
          \/ MarkBackedUp(f) \/ Place(f) \/ PlaceSidecar(f) \/ MarkPublished(f)

SharedStep(p) ==
    \/ BeginCleanup(p) \/ FinishCleanup(p) \/ BeginUndo(p) \/ CloseUndo(p)
    \/ \E f \in Files : CleanUp(p, f) \/ Undo(p, f) \/ Restore(p, f)

RecoveryStep == ListBundle \/ RecoverBundle \/ ReadJournals \/ FinishPreparing \/ SetAside

RecoveryLoop == RecoveryStep \/ SharedStep("recovery") \/ Started \/ Restart

Next ==
    \/ Call \/ PublisherStep \/ RecoveryStep \/ Started
    \/ \E p \in Workers : SharedStep(p)
    \/ Fault \/ Stop \/ Restart \/ ChangePolicy
    \/ \E f \in Files, place \in Places : OtherWrites(f, place)

Spec == Init /\ [][Next]_vars

\* A publisher that was called goes on, the operation worker's loop runs recovery again and
\* again, and a process that stopped is started again.
FairSpec ==
    /\ Spec
    /\ WF_vars(PublisherStep \/ SharedStep("publisher"))
    /\ WF_vars(RecoveryLoop)

-----------------------------------------------------------------------------
(* Properties *)

AtRest == \A p \in Workers : At(p, "idle")

\* A row says rolled back only of a file whose download and sidecar are where they were,
\* whose replaced file is back and of which nothing shows in the library, whichever call,
\* cancellation, stop or recovery undid it (_restore_import_filesystem).  Hidden temporary
\* files may stay: recovery undoes a row under the publisher that stages it.
RolledBackIsRestored ==
    \A f \in Files \ touched :
        row[f] = "rolled_back" =>
            /\ Holds(f, "source", "input") /\ ReplacedIntact(f)
            /\ ~Same(f) => Empty(f, "destination")
            /\ \A place \in {"backup", "sidecarPlace"} : Empty(f, place)

\* What nobody works at and recovery does not list any more is not half done: of a bundle that
\* is rolled back or completed every row is that or set aside for a person, and of one that
\* is set aside no row is open (_rollback_import_bundle_locked, _resume_import_cleanup,
\* recover_import_bundle).
ClosedIsWhole ==
    AtRest /\ bundle \in Closed =>
        \A f \in Journalled :
            row[f] \in IF bundle = "needs_attention" THEN Closed ELSE {bundle, "needs_attention"}

\* No step of the publisher, of its rollback or of recovery destroys what another program
\* wrote (_recheck_import_bundle, _restore_import_filesystem, _resume_import_cleanup).
OthersBytesSurvive ==
    [][\A f \in Files, place \in Places :
          Holds(f, place, "foreign") => \E other \in Places : disk'[f][other] = "foreign"]_disk

\* The unit is published entirely or not at all, as AtomicPublication describes it.
Promise == INSTANCE AtomicPublication WITH
    Mutations <- Files,
    held <- {f \in Files : /\ ~Empty(f, "source")
                           /\ Same(f) => ~Empty(f, "backup") \/ disk[f].destination \in {"replaced", "foreign"}
                           /\ Plan[f].replaces = "other" => ~Empty(f, "old")},
    shown <- {f \in Files : Holds(f, "destination", "staged")
                            /\ (HasSidecar(f) => Holds(f, "sidecarPlace", "art"))}
RefinesAtomicPublication == Promise!Spec

Settled == PAt("idle") /\ bundle \notin Unfinished \cup {"catalog_committed"}

\* Every call and every bundle it leaves behind comes to an end, over stops and faults: what
\* was prepared is adopted or undone, and what was adopted is at least tried to be cleaned up.
Settles == <>[]Settled
=============================================================================
