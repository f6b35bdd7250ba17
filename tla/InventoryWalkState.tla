------------------------- MODULE InventoryWalkState -------------------------
(***************************************************************************)
(* The state of one directory walk of a library scan (_walk_scope), and    *)
(* what a walk promises.  InventoryWalk says how it changes.               *)
(*                                                                         *)
(* The audio files are numbered in walk order: folder i ends with file     *)
(* FolderEnds[i].                                                          *)
(***************************************************************************)
EXTENDS Naturals, Sequences

CONSTANTS
    FolderEnds, \* the last file of each folder, in walk order
    QueueSize,  \* INVENTORY_QUEUE_SIZE
    BatchSize   \* INVENTORY_BATCH_SIZE

ASSUME WalkAssumption ==
    /\ FolderEnds \in Seq(Nat)
    /\ \A i, j \in DOMAIN FolderEnds : i <= j => FolderEnds[i] <= FolderEnds[j]
    /\ QueueSize \in Nat \ {0} /\ BatchSize \in Nat \ {0}

VARIABLES
    producer,  \* the thread: where it is, the folder it is in, the files it has yet to put
    queue,     \* files, or Failure, or Sentinel (the code's None)
    stopped,   \* the event that asks the producer to stop
    stale,     \* the producer last touched its heartbeat longer ago than the deadline
    consumer,  \* the coroutine: where it is, and how the walk ended
    batch,     \* files taken off the queue and not yet persisted
    persisted, \* files in the inventory
    completed, discarding, detached  \* the consumer's flags

Folders == Len(FolderEnds)
Last == IF Folders = 0 THEN 0 ELSE FolderEnds[Folders]
Files == 1 .. Last

-----------------------------------------------------------------------------
(* Properties *)

\* A walk that reports completion has every file of the scope in the inventory: whatever
\* is missing from it is marked missing by the reconciliation that follows (_walk_scope).
CompletedWalkIsComplete ==
    consumer.pc = "over" /\ consumer.outcome = "completed" => persisted = Files
=============================================================================
