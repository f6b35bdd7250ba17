----------------------------- MODULE RootLeases -----------------------------
(***************************************************************************)
(* The leases of the library roots (LibraryFilesystemCoordinator): many    *)
(* readers or one writer per root, writers first.  A request is a          *)
(* coroutine that takes its roots one after the other, each in a thread of *)
(* the default executor, holds them while its body works in the same       *)
(* executor, and gives them back in reverse.  It may be cancelled at any   *)
(* await: the lease its thread is waiting for is then taken first and      *)
(* given back at once.  read_sync takes one root in a thread that runs     *)
(* already.                                                                *)
(*                                                                         *)
(* Each _RootLeaseState is a monitor, so what a thread does between two    *)
(* waits on its condition is one action.  The requests are all those that  *)
(* are ever made: each is made once, in any order.                         *)
(***************************************************************************)
EXTENDS RootLeaseState

CONSTANT Workers    \* the threads of the default executor

WorkersAssumption == Workers \in Nat

vars == <<readers, writerActive, waitingWriters, revision, held, request, job, cancelled>>

TypeOK ==
    /\ readers \in [Roots -> Nat] /\ waitingWriters \in [Roots -> Nat]
    /\ writerActive \in [Roots -> BOOLEAN] /\ revision \in [Roots -> Nat]
    /\ held \in [Requests -> SUBSET Roots]
    /\ \A t \in Requests : held[t] \subseteq Wants[t]
    /\ request \in [Requests -> {"new", "acquiring", "holding", "releasing", "over"}]
    /\ job \in [Requests -> {"none", "queued", "waiting", "notified", "done"}]
    /\ cancelled \in SUBSET Requests

Init ==
    /\ readers = [r \in Roots |-> 0] /\ waitingWriters = [r \in Roots |-> 0]
    /\ writerActive = [r \in Roots |-> FALSE] /\ revision = [r \in Roots |-> 0]
    /\ held = [t \in Requests |-> {}]
    /\ request = [t \in Requests |-> "new"]
    /\ job = [t \in Requests |-> "none"]
    /\ cancelled = {}

-----------------------------------------------------------------------------
\* The threads of the executor that are taken: a reader that waits has one, too.
Busy == {t \in Requests : job[t] \in {"waiting", "notified"}}
Room == Cardinality(Busy) < Workers

\* The loop conditions of acquire_read and acquire_registered_write.
ReadBlocked(r) == writerActive[r] \/ waitingWriters[r] > 0

\* Mutant of WriteBlocked: the readers are not looked at.
WriteBlockedByWriter(r) == writerActive[r]

WriteBlocked(r) == writerActive[r] \/ readers[r] > 0

leaseVars == <<readers, writerActive, waitingWriters, revision, held>>

\* The lease of r is asked for: a writer registers in the coroutine, the rest is the thread's.
Ask(t, r) ==
    /\ waitingWriters' = IF Writer(t) THEN [waitingWriters EXCEPT ![r] = @ + 1] ELSE waitingWriters
    /\ job' = [job EXCEPT ![t] = IF Mode[t] = "sync" THEN "notified" ELSE "queued"]
    /\ UNCHANGED <<readers, writerActive, revision, held>>

Begin(t) ==
    /\ request[t] = "new"
    /\ request' = [request EXCEPT ![t] = "acquiring"]
    /\ \E r \in Roots : TakesNext(t, r) /\ Ask(t, r)
    /\ UNCHANGED cancelled

Take(t, r) ==
    /\ IF Writer(t)
       THEN /\ ~WriteBlocked(r)
            /\ writerActive' = [writerActive EXCEPT ![r] = TRUE]
            /\ waitingWriters' = [waitingWriters EXCEPT ![r] = @ - 1]
            /\ UNCHANGED readers
       ELSE /\ ~ReadBlocked(r)
            /\ readers' = [readers EXCEPT ![r] = @ + 1]
            /\ UNCHANGED <<writerActive, waitingWriters>>
    /\ held' = [held EXCEPT ![t] = @ \union {r}]
    /\ job' = [job EXCEPT ![t] = "done"]
    /\ UNCHANGED revision

Wait(t, r) ==
    /\ IF Writer(t) THEN WriteBlocked(r) ELSE ReadBlocked(r)
    /\ job' = [job EXCEPT ![t] = "waiting"]
    /\ UNCHANGED leaseVars

\* The thread enters the monitor, for the first time or again, and evaluates its condition.
Run(t) ==
    /\ \/ job[t] = "queued" /\ Room
       \/ job[t] = "notified"
    /\ \E r \in Roots : TakesNext(t, r) /\ (Take(t, r) \/ Wait(t, r))
    /\ UNCHANGED <<request, cancelled>>

\* Mutant of Unwinding: a cancelled request forgets the lease its thread has taken.
UnwindingAtOnce == "over"

\* The lease is given back at once, and then those acquired before it.
Unwinding == "releasing"

\* The coroutine sees that the lease is taken: it unwinds if it was cancelled meanwhile,
\* asks for its next root, or enters its body.
Proceed(t) ==
    /\ request[t] = "acquiring" /\ job[t] = "done"
    /\ \/ /\ t \in cancelled \/ held[t] = Wants[t]
          /\ request' = [request EXCEPT ![t] = IF t \in cancelled THEN Unwinding ELSE "holding"]
          /\ job' = [job EXCEPT ![t] = "none"]
          /\ UNCHANGED leaseVars
       \/ /\ t \notin cancelled /\ held[t] # Wants[t]
          /\ \E r \in Roots : TakesNext(t, r) /\ Ask(t, r)
          /\ UNCHANGED request
    /\ UNCHANGED cancelled

\* A request that waits for a lease remembers the cancellation; a body is left at once.
Cancel(t) ==
    /\ Mode[t] # "sync"
    /\ \/ /\ request[t] = "acquiring"
          /\ cancelled' = cancelled \union {t}
          /\ UNCHANGED request
       \/ /\ request[t] = "holding"
          /\ request' = [request EXCEPT ![t] = "releasing"]
          /\ UNCHANGED cancelled
    /\ UNCHANGED <<leaseVars, job>>

\* The body does its file work in the executor, and ends.
EndBody(t) ==
    /\ request[t] = "holding"
    /\ Mode[t] = "sync" \/ Room
    /\ request' = [request EXCEPT ![t] = "releasing"]
    /\ UNCHANGED <<leaseVars, job, cancelled>>

\* notify_all on the condition of root r.
Notified(r) ==
    [t \in Requests |-> IF job[t] = "waiting" /\ TakesNext(t, r) THEN "notified" ELSE job[t]]

\* release_read, release_write, in the finally clause.
Release(t) ==
    /\ request[t] = "releasing"
    /\ \E r \in Roots :
          /\ GivesNext(t, r)
          /\ held' = [held EXCEPT ![t] = @ \ {r}]
          /\ request' = IF held[t] = {r} THEN [request EXCEPT ![t] = "over"] ELSE request
          /\ IF Writer(t)
             THEN /\ writerActive' = [writerActive EXCEPT ![r] = FALSE]
                  /\ revision' = [revision EXCEPT ![r] = @ + 1]
                  /\ job' = Notified(r)
                  /\ UNCHANGED readers
             ELSE /\ readers' = [readers EXCEPT ![r] = @ - 1]
                  /\ job' = IF readers[r] = 1 THEN Notified(r) ELSE job
                  /\ UNCHANGED <<writerActive, revision>>
    /\ UNCHANGED <<waitingWriters, cancelled>>

Advance(t) == Run(t) \/ Proceed(t) \/ EndBody(t) \/ Release(t)

Next == \E t \in Requests : Begin(t) \/ Cancel(t) \/ Advance(t)

Spec == Init /\ [][Next]_vars

\* The event loop and the operating system run what can run, and bodies end.
FairSpec == Spec /\ \A t \in Requests : WF_vars(Advance(t))

-----------------------------------------------------------------------------
(* Properties *)

\* Every request ends and its leases with it: no two wait for each other's roots, no
\* notification is missed, and no cancellation leaves a lease or a waiting writer behind.
LeasesEnd == \A t \in Requests : request[t] = "acquiring" ~> request[t] = "over"
=============================================================================
