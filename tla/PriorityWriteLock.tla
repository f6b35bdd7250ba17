------------------------- MODULE PriorityWriteLock -------------------------
(***************************************************************************)
(* The process lock of the SQLite stores (_database.py): threads that      *)
(* serve a user come before background work, but no more than Burst of     *)
(* them while background work waits.                                       *)
(*                                                                         *)
(* The lock is a monitor, so what a thread does between two waits on the   *)
(* condition is one action.  The waiter counters are the sizes of the sets *)
(* ForegroundWaiters and BackgroundWaiters.  _foreground_grants has no     *)
(* bound in the code; every value above Burst, the only number it is       *)
(* compared with, is represented by Burst + 1.  overtaken is a history     *)
(* variable: the foreground grants since background work began to wait or  *)
(* was last served (it stops past the bound that is claimed for it).       *)
(***************************************************************************)
EXTENDS Naturals

CONSTANTS Foreground, Background,   \* the threads
          Burst                     \* foreground_burst

ASSUME LockAssumption ==
    /\ Foreground \intersect Background = {}
    /\ Burst \in Nat \ {0}

Threads == Foreground \union Background

VARIABLES
    pc,        \* pc[t]: idle, waiting (in Condition.wait), notified or holding
    active,    \* _active
    grants,    \* _foreground_grants
    overtaken  \* history

vars == <<pc, active, grants, overtaken>>

ForegroundWaiters == {t \in Foreground : pc[t] \in {"waiting", "notified"}}
BackgroundWaiters == {t \in Background : pc[t] \in {"waiting", "notified"}}

\* Types; and the count is past the burst only while no background work waits: a
\* background thread that starts to wait starts it anew, and from then on a full
\* burst keeps foreground threads out.
TypeOK ==
    /\ pc \in [Threads -> {"idle", "waiting", "notified", "holding"}]
    /\ active \in BOOLEAN
    /\ grants \in 0 .. IF BackgroundWaiters = {} THEN Burst + 1 ELSE Burst
    /\ overtaken \in 0 .. Burst + 1

Init ==
    /\ pc = [t \in Threads |-> "idle"]
    /\ active = FALSE
    /\ grants = 0
    /\ overtaken = 0

-----------------------------------------------------------------------------
\* The loop conditions of acquire and acquire_background, n foreground grants so far.
ForegroundBlocked(n) == active \/ (BackgroundWaiters # {} /\ n >= Burst)
BackgroundBlocked(n) == active \/ (ForegroundWaiters # {} /\ n < Burst)

\* Mutant of Counted: a grant is not counted.
CountedNever(n) == n

\* One more grant (Burst + 1 stands for every larger number).
Counted(n) == IF n <= Burst THEN n + 1 ELSE n

\* The loop is left: the lock is taken and the counter follows.
Take(t, g) ==
    /\ pc' = [pc EXCEPT ![t] = "holding"]
    /\ active' = TRUE
    /\ grants' = g

Wait(t, g) ==
    /\ pc' = [pc EXCEPT ![t] = "waiting"]
    /\ grants' = g
    /\ UNCHANGED <<active, overtaken>>

TakeForeground(t) ==
    /\ Take(t, Counted(grants))
    /\ overtaken' = IF BackgroundWaiters = {} THEN 0
                    ELSE IF overtaken <= Burst THEN overtaken + 1 ELSE overtaken

TakeBackground(t) == Take(t, 0) /\ overtaken' = 0

\* acquire, up to the grant or the first wait.
Acquire(t) ==
    /\ t \in Foreground /\ pc[t] = "idle"
    /\ \/ ForegroundBlocked(grants) /\ Wait(t, grants)
       \/ ~ForegroundBlocked(grants) /\ TakeForeground(t)

\* Mutant of AcquireBackground: the first waiter goes on with the old count.
AcquireBackgroundCountsOn(t) ==
    /\ t \in Background /\ pc[t] = "idle"
    /\ \/ BackgroundBlocked(grants) /\ Wait(t, grants)
       \/ ~BackgroundBlocked(grants) /\ TakeBackground(t)

\* acquire_background: the first waiter starts a new count.
AcquireBackground(t) ==
    LET n == IF BackgroundWaiters = {} THEN 0 ELSE grants IN
    /\ t \in Background /\ pc[t] = "idle"
    /\ \/ BackgroundBlocked(n) /\ Wait(t, n)
       \/ ~BackgroundBlocked(n) /\ TakeBackground(t)

\* Mutant of Recheck: only the flag is looked at again.
RecheckFlag(t) ==
    /\ t \in Foreground /\ pc[t] = "notified"
    /\ \/ active /\ Wait(t, grants)
       \/ ~active /\ TakeForeground(t)

\* A notified thread has the monitor again and evaluates its loop condition.
Recheck(t) ==
    /\ t \in Foreground /\ pc[t] = "notified"
    /\ \/ ForegroundBlocked(grants) /\ Wait(t, grants)
       \/ ~ForegroundBlocked(grants) /\ TakeForeground(t)

RecheckBackground(t) ==
    /\ t \in Background /\ pc[t] = "notified"
    /\ \/ BackgroundBlocked(grants) /\ Wait(t, grants)
       \/ ~BackgroundBlocked(grants) /\ TakeBackground(t)

\* Mutant of Release: notify() instead of notify_all().
ReleaseOne(t) ==
    /\ pc[t] = "holding"
    /\ active' = FALSE
    /\ \E n \in Threads :
          /\ pc[n] = "waiting" \/ \A u \in Threads : pc[u] # "waiting"
          /\ pc' = [u \in Threads |-> IF u = t THEN "idle"
                                      ELSE IF u = n /\ pc[u] = "waiting" THEN "notified"
                                      ELSE pc[u]]
    /\ UNCHANGED <<grants, overtaken>>

\* release, by the thread that holds the lock: notify_all.
Release(t) ==
    /\ pc[t] = "holding"
    /\ active' = FALSE
    /\ pc' = [u \in Threads |-> IF u = t THEN "idle"
                                ELSE IF pc[u] = "waiting" THEN "notified" ELSE pc[u]]
    /\ UNCHANGED <<grants, overtaken>>

Step(t) == Acquire(t) \/ AcquireBackground(t) \/ Recheck(t) \/ RecheckBackground(t) \/ Release(t)

Next == \E t \in Threads : Step(t)

Spec == Init /\ [][Next]_vars

\* The operating system runs every thread that can run, and every write ends.
FairSpec ==
    Spec /\ \A t \in Threads : WF_vars(Recheck(t) \/ RecheckBackground(t) \/ Release(t))

-----------------------------------------------------------------------------
(* Properties *)

\* One thread at a time is inside: the flag and the threads agree, also when a notified
\* thread and a new one meet at the monitor.
MutualExclusion ==
    /\ \A t, u \in Threads : pc[t] = "holding" /\ pc[u] = "holding" => t = u
    /\ active <=> \E t \in Threads : pc[t] = "holding"

\* While background work waits, at most Burst foreground writes go before it, whoever
\* else comes and whenever the burst was counted from.
BoundedOvertaking == BackgroundWaiters # {} => overtaken <= Burst

\* A free lock never leaves everybody asleep: if a thread is in Condition.wait, a notified
\* thread will find its loop condition false and take the lock.
NoLostWakeup ==
    ~active /\ (\E t \in Threads : pc[t] = "waiting") =>
        \/ \E t \in ForegroundWaiters : pc[t] = "notified" /\ ~ForegroundBlocked(grants)
        \/ \E t \in BackgroundWaiters : pc[t] = "notified" /\ ~BackgroundBlocked(grants)

\* Neither class starves the other: while threads of a class wait, one of them gets the
\* lock in the end.
BackgroundProgress ==
    BackgroundWaiters # {} ~> \E t \in Background : pc[t] = "holding"
ForegroundProgress ==
    ForegroundWaiters # {} ~> \E t \in Foreground : pc[t] = "holding"
=============================================================================
