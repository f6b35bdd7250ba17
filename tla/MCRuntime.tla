------------------------------ MODULE MCRuntime ------------------------------
(***************************************************************************)
(* Small instances of what orders threads and coroutines inside one        *)
(* process: the write lock of the stores, the walk of a scan, the leases   *)
(* of the library roots and the request deduplicator.  They share no       *)
(* state, so their sum is checked and not their product: which is chosen   *)
(* at the start, and the others stay as they are.                          *)
(***************************************************************************)
EXTENDS PriorityWriteLock, InventoryWalkState, RootLeaseState, RequestDeduplicatorState, TLC

CONSTANTS Admits,                                \* of InventoryWalk
          mover, tagger, reader, walker, Workers \* of RootLeases, with those of its state

VARIABLE which

\* A folder larger than the queue, one without audio files, and a small one.
ThreeFolders == <<4, 4, 5>>

\* A publisher that moves from root 1 to root 2, one that retags in root 2, a reader of both
\* roots and a walk of root 2.
Modes == (mover :> "write") @@ (tagger :> "write") @@ (reader :> "read") @@ (walker :> "sync")
Wanted == (mover :> {1, 2}) @@ (tagger :> {2}) @@ (reader :> {1, 2}) @@ (walker :> {2})

Walk == INSTANCE InventoryWalk
Leases == INSTANCE RootLeases
Dedup == INSTANCE RequestDeduplicator WITH Admits <- {}

ASSUME RuntimeAssumption == Admits \subseteq Walk!Circumstances /\ Leases!WorkersAssumption

walkVars == <<producer, queue, stopped, stale, consumer, batch, persisted, completed, discarding, detached>>
leaseVars == <<readers, writerActive, waitingWriters, revision, held, request, job, cancelled>>
dedupVars == <<pending, future, call, current>>

RuntimeInit ==
    /\ which \in {"lock", "walk", "leases", "dedup"}
    /\ Init /\ Walk!Init /\ Leases!Init /\ Dedup!Init

Only(system, step) == which = system /\ step /\ UNCHANGED which

RuntimeNext ==
    \/ Only("lock", Next) /\ UNCHANGED <<walkVars, leaseVars, dedupVars>>
    \/ Only("walk", Walk!Next) /\ UNCHANGED <<vars, leaseVars, dedupVars>>
    \/ Only("leases", Leases!Next) /\ UNCHANGED <<vars, walkVars, dedupVars>>
    \/ Only("dedup", Dedup!Next) /\ UNCHANGED <<vars, walkVars, leaseVars>>

\* The fairness each of them states, of the one that was chosen.
Fairness ==
    /\ \A t \in Threads : WF_vars(which = "lock" /\ (Recheck(t) \/ RecheckBackground(t) \/ Release(t)))
    /\ WF_walkVars(which = "walk" /\ Walk!ConsumerStep) /\ WF_walkVars(which = "walk" /\ Walk!Age)
    /\ WF_walkVars(which = "walk" /\ Walk!NextFolder) /\ WF_walkVars(which = "walk" /\ Walk!PutFile)
    /\ WF_walkVars(which = "walk" /\ Walk!PutError) /\ WF_walkVars(which = "walk" /\ Walk!PutEnd)
    /\ \A t \in Requests : WF_leaseVars(which = "leases" /\ Leases!Advance(t))
    /\ \A c \in Callers : WF_dedupVars(which = "dedup" /\ Dedup!CallerStep(c))

RuntimeSpec ==
    /\ RuntimeInit /\ [][RuntimeNext]_<<which, vars, walkVars, leaseVars, dedupVars>>
    /\ Fairness

-----------------------------------------------------------------------------
(* The properties of the four.  Those of the lock are PriorityWriteLock's; *)
(* CompletedWalkIsComplete, LeaseExclusion and OneFlight come with the     *)
(* states of the others.                                                   *)

\* The states of all four keep to their types, and the lock's counter of grants within the
\* burst whenever background work waits.
TypesOK == TypeOK /\ Walk!TypeOK /\ Leases!TypeOK /\ Dedup!TypeOK

\* Whoever asks for the write lock gets it, user request or background work (acquire).
LockProgress == ForegroundProgress /\ BackgroundProgress

\* A walk ends, whatever the file system does to its thread (_walk_scope).
WalkEnds == which = "walk" => Walk!WalkEnds

\* A detached thread ends when the file system lets it go (_detach_walker).
ThreadEnds == Walk!DetachedThreadEnds

\* Every request for leases ends, and its leases with it (read_many, write_many), and every
\* call for a key is answered (dedupe).
RequestsEnd == Leases!LeasesEnd /\ Dedup!CallsAnswered
=============================================================================
