--------------------------- MODULE RootLeaseState ---------------------------
(***************************************************************************)
(* The state of the leases of the library roots, and what it promises: a   *)
(* _RootLeaseState for each root, and the requests that hold leases or ask *)
(* for them.  RootLeases says how it changes.                              *)
(***************************************************************************)
EXTENDS Naturals, FiniteSets

CONSTANTS
    Requests,
    Mode,      \* Mode[t]: read (read_many), write (write_many) or sync (read_sync)
    Wants      \* Wants[t]: the roots it asks for, as numbers in the order of their ids

ASSUME LeaseAssumption ==
    /\ IsFiniteSet(Requests)
    /\ Mode \in [Requests -> {"read", "write", "sync"}]
    /\ Wants \in [Requests -> SUBSET Nat]
    /\ \A t \in Requests : Mode[t] = "sync" => Cardinality(Wants[t]) = 1

VARIABLES
    readers, writerActive, waitingWriters, revision, \* the _RootLeaseState of each root
    held,      \* held[t]: the roots t has; while it acquires, its list acquired
    request,   \* request[t]: where the coroutine is
    job,       \* job[t]: its acquire in a thread: queued, waiting (in Condition.wait),
               \* notified, or done and not yet seen by the coroutine
    cancelled  \* the requests that were cancelled while they were waiting for a lease

Roots == UNION {Wants[t] : t \in Requests}
Writer(t) == Mode[t] = "write"

\* _ordered_states: the roots are taken in the order of their ids and given back in reverse.
TakesNext(t, r) == r \in Wants[t] \ held[t] /\ \A s \in Wants[t] \ held[t] : r <= s
GivesNext(t, r) == r \in held[t] /\ \A s \in held[t] : s <= r

-----------------------------------------------------------------------------
(* Properties *)

ReadersOf(r) == {t \in Requests : ~Writer(t) /\ r \in held[t]}
WritersOf(r) == {t \in Requests : Writer(t) /\ r \in held[t]}
WritersAsking(r) ==
    {t \in Requests : Writer(t) /\ job[t] \in {"queued", "waiting", "notified"} /\ TakesNext(t, r)}

\* One writer or readers hold a root, never both and never two writers, whatever was
\* cancelled; and the counters of its state are those of the requests that hold it or ask
\* for it, so none of them outlives its request.
LeaseExclusion ==
    \A r \in Roots :
        /\ \A t, u \in Requests : r \in held[t] /\ r \in held[u] /\ Writer(t) => t = u
        /\ readers[r] = Cardinality(ReadersOf(r))
        /\ writerActive[r] <=> WritersOf(r) # {}
        /\ waitingWriters[r] = Cardinality(WritersAsking(r))
=============================================================================
