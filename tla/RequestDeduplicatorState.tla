---------------------- MODULE RequestDeduplicatorState ----------------------
(***************************************************************************)
(* The state of a RequestDeduplicator for one key, and of the calls that   *)
(* use it, and what it promises.  RequestDeduplicator says how it changes. *)
(***************************************************************************)
EXTENDS Naturals

CONSTANTS
    Callers,
    Retries,   \* _MAX_DEDUP_RETRIES
    NoCaller

ASSUME DedupAssumption == Retries \in Nat /\ NoCaller \notin Callers

VARIABLES
    pending,   \* the leader whose future is in _pending, or NoCaller
    future,    \* future[c]: the future c made
    call,      \* call[c]: where c is, whom it follows, its retries and its answer
    current    \* history: the leaders that began since the last clear

-----------------------------------------------------------------------------
(* Properties *)

\* Duplicate concurrent requests are coalesced: of the calls since the last clear at most
\* one runs the request, also while followers of a cancelled leader take over (dedupe).
OneFlight ==
    \A c, d \in current : call[c].at = "leading" /\ call[d].at = "leading" => c = d
=============================================================================
