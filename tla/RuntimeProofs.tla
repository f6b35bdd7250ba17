---------------------------- MODULE RuntimeProofs ----------------------------
(***************************************************************************)
(* Proofs about what orders threads and coroutines inside one process, as  *)
(* MCRuntime puts it together: the write lock of the stores, the walk of a *)
(* scan, the leases of the library roots and the request deduplicator.     *)
(* Each has its inductive invariant (LockInv, WalkInv, LeaseInv,           *)
(* FlightInv), for any instance; they share no state, so their conjunction *)
(* is one of MCRuntime.                                                    *)
(***************************************************************************)
EXTENDS MCRuntime, FiniteSetTheorems, SequenceTheorems, TLAPS

-----------------------------------------------------------------------------
(* PriorityWriteLock, for any threads and any burst.  Two facts            *)
(* strengthen the invariants: the history never runs ahead of the counter  *)
(* (CountInv), and while the lock is free every sleeping thread has a      *)
(* reason to sleep (SleepInv).                                             *)

CountInv ==
    /\ BackgroundWaiters # {} => overtaken <= grants
    /\ BackgroundWaiters = {} => overtaken = 0

SleepInv ==
    ~active =>
        /\ \A t \in Foreground : pc[t] = "waiting" => ForegroundBlocked(grants)
        /\ \A t \in Background : pc[t] = "waiting" => BackgroundBlocked(grants)

LockInv == TypeOK /\ MutualExclusion /\ CountInv /\ SleepInv

-----------------------------------------------------------------------------
\* The range of the count, with and without background work that waits.
LEMMA CountRange ==
    ASSUME TypeOK
    PROVE  /\ Burst \in Nat \ {0} /\ grants \in Nat /\ grants <= Burst + 1
           /\ BackgroundWaiters # {} => grants <= Burst
BY LockAssumption DEF TypeOK

\* What a thread does to pc shows in the two waiter sets.
LEMMA TakeWaiters ==
    ASSUME TypeOK, NEW t \in Threads, NEW g, Take(t, g)
    PROVE  /\ ForegroundWaiters' = ForegroundWaiters \ {t}
           /\ BackgroundWaiters' = BackgroundWaiters \ {t}
BY LockAssumption DEF TypeOK, Threads, Take, ForegroundWaiters, BackgroundWaiters

LEMMA WaitWaiters ==
    ASSUME TypeOK, NEW t \in Threads, NEW g, Wait(t, g)
    PROVE  /\ t \in Foreground => /\ ForegroundWaiters' = ForegroundWaiters \union {t}
                                  /\ BackgroundWaiters' = BackgroundWaiters
           /\ t \in Background => /\ ForegroundWaiters' = ForegroundWaiters
                                  /\ BackgroundWaiters' = BackgroundWaiters \union {t}
BY LockAssumption DEF TypeOK, Threads, Wait, ForegroundWaiters, BackgroundWaiters

\* A foreground thread takes a free lock, whether it was waiting or not.
LEMMA ForegroundTakes ==
    ASSUME LockInv, NEW t \in Foreground, ~ForegroundBlocked(grants), TakeForeground(t)
    PROVE  LockInv'
<1> USE DEF LockInv
<1>0. t \in Threads /\ t \notin Background /\ Take(t, Counted(grants)) /\ ~active
  BY LockAssumption DEF Threads, TakeForeground, ForegroundBlocked
<1>1. BackgroundWaiters' = BackgroundWaiters
  BY <1>0, TakeWaiters DEF BackgroundWaiters
<1>2. BackgroundWaiters # {} => grants < Burst
  BY CountRange DEF ForegroundBlocked
<1>3. /\ Counted(grants) \in 0 .. Burst + 1
      /\ grants < Burst => Counted(grants) = grants + 1
  BY CountRange DEF Counted
<1>4. TypeOK'
  <2>1. overtaken' \in 0 .. Burst + 1
    BY LockAssumption DEF TypeOK, TakeForeground
  <2>2. grants' = Counted(grants)
    BY <1>0 DEF Take
  <2>3. grants' \in 0 .. IF BackgroundWaiters' = {} THEN Burst + 1 ELSE Burst
    BY <1>1, <1>2, <1>3, <2>2, CountRange
  <2> QED
    BY <1>0, <2>1, <2>3 DEF TypeOK, Take
<1>5. MutualExclusion'
  BY <1>0 DEF MutualExclusion, TypeOK, Take
<1>6. CountInv'
  <2>1. grants' = Counted(grants) /\ grants \in Nat /\ overtaken \in Nat /\ Burst \in Nat
    BY <1>0, CountRange, LockAssumption DEF Take, TypeOK
  <2>2. overtaken' = IF BackgroundWaiters = {} THEN 0
                     ELSE IF overtaken <= Burst THEN overtaken + 1 ELSE overtaken
    BY DEF TakeForeground
  <2> QED
    BY <1>1, <1>2, <1>3, <2>1, <2>2 DEF CountInv
<1>7. SleepInv'
  BY <1>0 DEF SleepInv, Take
<1> QED
  BY <1>4, <1>5, <1>6, <1>7

LEMMA BackgroundTakes ==
    ASSUME LockInv, NEW t \in Background, ~active, TakeBackground(t)
    PROVE  LockInv'
<1> USE DEF LockInv
<1>0. t \in Threads /\ Take(t, 0)
  BY DEF Threads, TakeBackground
<1>1. TypeOK'
  <2>1. grants' = 0 /\ overtaken' = 0 /\ Burst \in Nat
    BY <1>0, LockAssumption DEF Take, TakeBackground
  <2>2. /\ grants' \in 0 .. IF BackgroundWaiters' = {} THEN Burst + 1 ELSE Burst
        /\ overtaken' \in 0 .. Burst + 1
    BY <2>1
  <2> QED
    BY <1>0, <2>2 DEF TypeOK, Take
<1>2. MutualExclusion'
  BY <1>0 DEF MutualExclusion, TypeOK, Take
<1>3. CountInv'
  BY <1>0 DEF CountInv, Take, TakeBackground
<1>4. SleepInv'
  BY <1>0 DEF SleepInv, Take
<1> QED
  BY <1>1, <1>2, <1>3, <1>4

\* A foreground thread that has to wait lies down for a reason that stays.
LEMMA ForegroundWaits ==
    ASSUME LockInv, NEW t \in Foreground, pc[t] \in {"idle", "notified"},
           ForegroundBlocked(grants), Wait(t, grants)
    PROVE  LockInv'
<1> USE DEF LockInv
<1>0. t \in Threads /\ t \notin Background
  BY LockAssumption DEF Threads
<1>1. /\ ForegroundWaiters' = ForegroundWaiters \union {t}
      /\ BackgroundWaiters' = BackgroundWaiters
  BY <1>0, WaitWaiters
<1>2. TypeOK'
  BY <1>0, <1>1 DEF TypeOK, Wait
<1>3. MutualExclusion'
  BY <1>0 DEF MutualExclusion, TypeOK, Wait
<1>4. CountInv'
  BY <1>1 DEF CountInv, Wait
<1>5. SleepInv'
  BY <1>0, <1>1 DEF SleepInv, Wait, ForegroundBlocked, BackgroundBlocked, TypeOK
<1> QED
  BY <1>2, <1>3, <1>4, <1>5

LEMMA BackgroundWaits ==
    ASSUME LockInv, NEW t \in Background, NEW n \in 0 .. Burst,
           pc[t] \in {"idle", "notified"}, BackgroundBlocked(n), Wait(t, n),
           \/ n = grants /\ BackgroundWaiters # {}
           \/ n = 0 /\ BackgroundWaiters = {}
    PROVE  LockInv'
<1> USE DEF LockInv
<1>0. t \in Threads /\ t \notin Foreground
  BY LockAssumption DEF Threads
<1>1. /\ ForegroundWaiters' = ForegroundWaiters
      /\ BackgroundWaiters' = BackgroundWaiters \union {t}
  BY <1>0, WaitWaiters
<1>2. TypeOK'
  <2>1. grants' \in 0 .. IF BackgroundWaiters' = {} THEN Burst + 1 ELSE Burst
    BY <1>1 DEF Wait
  <2> QED
    BY <1>0, <2>1 DEF TypeOK, Wait
<1>3. MutualExclusion'
  BY <1>0 DEF MutualExclusion, TypeOK, Wait
<1>4. CountInv'
  BY <1>1 DEF CountInv, Wait
<1>5. SleepInv'
  <2>1. CASE n = grants
    BY <1>0, <1>1, <2>1 DEF SleepInv, Wait, ForegroundBlocked, BackgroundBlocked, TypeOK
  <2>2. CASE n = 0 /\ BackgroundWaiters = {}
    <3>1. ~active => \A u \in Foreground : pc[u] # "waiting"
      BY <2>2 DEF SleepInv, ForegroundBlocked
    <3>2. ~active => \A u \in Background : pc[u] # "waiting"
      BY <2>2 DEF BackgroundWaiters
    <3>3. \A u \in Threads : u # t => pc'[u] = pc[u]
      BY <1>0 DEF Wait, TypeOK
    <3>4. active' = active /\ grants' = n
      BY DEF Wait
    <3>5. BackgroundBlocked(n)' <=> BackgroundBlocked(n)
      BY <1>1, <3>4 DEF BackgroundBlocked
    <3> QED
      BY <1>0, <3>1, <3>2, <3>3, <3>4, <3>5 DEF SleepInv, Threads
  <2> QED
    BY <2>1, <2>2
<1> QED
  BY <1>2, <1>3, <1>4, <1>5

\* A release wakes everybody, so nobody sleeps without a reason.
LEMMA ReleaseKeeps ==
    ASSUME LockInv, NEW t \in Threads, Release(t)
    PROVE  LockInv'
<1> USE DEF LockInv
<1>1. \A u \in Threads : pc'[u] = IF u = t THEN "idle"
                                  ELSE IF pc[u] = "waiting" THEN "notified" ELSE pc[u]
  BY DEF Release
<1>2. ForegroundWaiters' = ForegroundWaiters /\ BackgroundWaiters' = BackgroundWaiters
  BY <1>1 DEF ForegroundWaiters, BackgroundWaiters, Threads, Release
<1>3. TypeOK'
  BY <1>2 DEF TypeOK, Release
<1>4. MutualExclusion'
  <2>1. \A u \in Threads : u # t => pc[u] # "holding"
    BY DEF MutualExclusion, Release
  <2>2. \A u \in Threads : pc'[u] # "holding"
    BY <1>1, <2>1
  <2> QED
    BY <2>2 DEF MutualExclusion, Release
<1>5. CountInv'
  BY <1>2 DEF CountInv, Release
<1>6. SleepInv'
  BY <1>1 DEF SleepInv, Threads
<1> QED
  BY <1>3, <1>4, <1>5, <1>6

-----------------------------------------------------------------------------
LEMMA InitInv == Init => LockInv
<1> SUFFICES ASSUME Init PROVE LockInv
  OBVIOUS
<1>1. \A t \in Threads : pc[t] = "idle"
  BY DEF Init
<1>2. TypeOK
  <2>1. pc \in [Threads -> {"idle", "waiting", "notified", "holding"}]
    BY DEF Init
  <2>2. /\ 0 \in 0 .. IF BackgroundWaiters = {} THEN Burst + 1 ELSE Burst
        /\ 0 \in 0 .. Burst + 1
    BY LockAssumption
  <2> QED
    BY <2>1, <2>2 DEF Init, TypeOK
<1>3. MutualExclusion
  BY <1>1 DEF Init, MutualExclusion
<1>4. CountInv
  BY DEF Init, CountInv
<1>5. SleepInv
  BY <1>1 DEF SleepInv, Threads
<1> QED
  BY <1>2, <1>3, <1>4, <1>5 DEF LockInv

LEMMA StepInv == LockInv /\ [Next]_vars => LockInv'
<1> SUFFICES ASSUME LockInv, [Next]_vars PROVE LockInv'
  OBVIOUS
<1>1. ASSUME NEW t \in Threads, Acquire(t) PROVE LockInv'
  BY <1>1, ForegroundTakes, ForegroundWaits DEF Acquire
<1>2. ASSUME NEW t \in Threads, Recheck(t) PROVE LockInv'
  BY <1>2, ForegroundTakes, ForegroundWaits DEF Recheck
<1>3. ASSUME NEW t \in Threads, AcquireBackground(t) PROVE LockInv'
  <2> DEFINE n == IF BackgroundWaiters = {} THEN 0 ELSE grants
  <2>1. /\ n \in 0 .. Burst
        /\ \/ n = grants /\ BackgroundWaiters # {}
           \/ n = 0 /\ BackgroundWaiters = {}
    BY CountRange DEF LockInv
  <2>2. t \in Background /\ pc[t] = "idle"
    BY <1>3 DEF AcquireBackground
  <2>3. \/ BackgroundBlocked(n) /\ Wait(t, n)
        \/ ~BackgroundBlocked(n) /\ TakeBackground(t)
    BY <1>3 DEF AcquireBackground
  <2> HIDE DEF n
  <2>4. ~BackgroundBlocked(n) => ~active
    BY DEF BackgroundBlocked
  <2> QED
    BY <2>1, <2>2, <2>3, <2>4, BackgroundTakes, BackgroundWaits
<1>4. ASSUME NEW t \in Threads, RecheckBackground(t) PROVE LockInv'
  <2>1. t \in Background /\ pc[t] = "notified" /\ BackgroundWaiters # {}
    BY <1>4 DEF RecheckBackground, BackgroundWaiters
  <2>2. grants \in 0 .. Burst
    BY <2>1, CountRange DEF LockInv
  <2>3. ~BackgroundBlocked(grants) => ~active
    BY DEF BackgroundBlocked
  <2> QED
    BY <1>4, <2>1, <2>2, <2>3, BackgroundTakes, BackgroundWaits DEF RecheckBackground
<1>5. ASSUME NEW t \in Threads, Release(t) PROVE LockInv'
  BY <1>5, ReleaseKeeps
<1>6. CASE UNCHANGED vars
  BY <1>6 DEF vars, LockInv, TypeOK, MutualExclusion, CountInv, SleepInv,
              ForegroundBlocked, BackgroundBlocked, ForegroundWaiters, BackgroundWaiters
<1> QED
  BY <1>1, <1>2, <1>3, <1>4, <1>5, <1>6 DEF Next, Step

\* Every behaviour of the lock keeps the strengthened invariant.
THEOREM LockInvariant == Spec => []LockInv
BY InitInv, StepInv, PTL DEF Spec

\* The count of foreground grants, which nothing bounds while only foreground threads write,
\* never passes the burst while background work waits; flag and threads keep their types.
THEOREM LockTypeCorrect == Spec => []TypeOK
BY LockInvariant, PTL DEF LockInv

\* However many threads write, at most one is inside the lock.
THEOREM MutualExclusionHolds == Spec => []MutualExclusion
BY LockInvariant, PTL DEF LockInv

\* However many foreground threads come, no more than Burst of them go before
\* background work that waits.
THEOREM BoundedOvertakingHolds == Spec => []BoundedOvertaking
<1>1. LockInv => BoundedOvertaking
  <2> SUFFICES ASSUME LockInv, BackgroundWaiters # {} PROVE overtaken <= Burst
    BY DEF BoundedOvertaking
  <2>1. overtaken <= grants /\ grants <= Burst
    BY CountRange DEF LockInv, CountInv
  <2>2. overtaken \in Nat /\ grants \in Nat /\ Burst \in Nat
    BY CountRange, LockAssumption DEF LockInv, TypeOK
  <2> QED
    BY <2>1, <2>2
<1> QED
  BY <1>1, LockInvariant, PTL

\* A free lock with sleeping threads always has a notified one that will take it.
THEOREM NoLostWakeupHolds == Spec => []NoLostWakeup
<1>1. LockInv => NoLostWakeup
  <2> SUFFICES ASSUME LockInv, ~active, NEW t \in Threads, pc[t] = "waiting"
               PROVE  \/ \E u \in ForegroundWaiters : pc[u] = "notified" /\
                           ~ForegroundBlocked(grants)
                      \/ \E u \in BackgroundWaiters : pc[u] = "notified" /\
                           ~BackgroundBlocked(grants)
    BY DEF NoLostWakeup
  <2>1. grants \in Nat /\ Burst \in Nat
    BY CountRange DEF LockInv
  <2>2. CASE t \in Foreground
    <3>1. PICK u \in BackgroundWaiters : grants >= Burst
      BY <2>2 DEF LockInv, SleepInv, ForegroundBlocked
    <3>2. ~BackgroundBlocked(grants)
      BY <2>1, <3>1 DEF BackgroundBlocked
    <3>3. pc[u] = "notified"
      BY <3>1, <3>2 DEF LockInv, SleepInv, BackgroundWaiters
    <3> QED
      BY <3>2, <3>3
  <2>3. CASE t \in Background
    <3>1. PICK u \in ForegroundWaiters : grants < Burst
      BY <2>3 DEF LockInv, SleepInv, BackgroundBlocked
    <3>2. ~ForegroundBlocked(grants)
      BY <2>1, <3>1 DEF ForegroundBlocked
    <3>3. pc[u] = "notified"
      BY <3>1, <3>2 DEF LockInv, SleepInv, ForegroundWaiters
    <3> QED
      BY <3>2, <3>3
  <2> QED
    BY <2>2, <2>3 DEF Threads
<1> QED
  BY <1>1, LockInvariant, PTL

-----------------------------------------------------------------------------
(* InventoryWalk, for any folders, queue and batch: a walk that reports    *)
(* completion has every file in the inventory.                             *)
(*                                                                         *)
(* CompletedWalkIsComplete is not inductive: Accounted follows each file   *)
(* from the thread over the queue and the batch into the inventory for as  *)
(* long as the consumer still believes in the walk, and InOrder says that  *)
(* the sentinel is behind everything the thread has put.                   *)

Items(s) == {s[i] : i \in 1 .. Len(s)}

\* Between two folders the thread has put everything it listed.
ThreadOK ==
    /\ producer.upto = IF producer.folder = 0 THEN 0 ELSE FolderEnds[producer.folder]
    /\ producer.pc = "put" => producer.next <= producer.upto
    /\ producer.pc \in {"loop", "lease", "walk"} => producer.next = producer.upto + 1

InOrder ==
    \A i \in 1 .. Len(queue) : queue[i] = Walk!Sentinel => i = Len(queue) /\ producer.pc = "done"

RoomInBatch ==
    consumer.pc \in {"get", "record", "timeout", "checkpoint"} => Len(batch) < BatchSize

\* The consumer still believes that the walk will be complete.
Believes == consumer.pc \in Walk!Working /\ completed

Failing == producer.pc = "error" \/ Walk!Failure \in Items(queue)
Ahead == {n \in Walk!Files : n >= producer.next}

\* Every file is in the inventory, in the batch, on the queue or ahead of the thread.
Whole ==
    /\ Walk!Files \subseteq persisted \union Items(batch) \union Items(queue) \union Ahead
    /\ producer.pc \in {"end", "done"} => producer.next = Walk!Last + 1

Accounted ==
    /\ Believes => ~stopped /\ ~discarding
    /\ Believes /\ consumer.pc # "flush" => Failing \/ Whole
    /\ consumer.pc = "flush" => Walk!Files \subseteq persisted \union Items(batch)
    /\ consumer.pc \in {"await", "over"} /\ consumer.outcome = "completed" => persisted = Walk!Files

WalkInv == Walk!TypeOK /\ ThreadOK /\ InOrder /\ RoomInBatch /\ Accounted

-----------------------------------------------------------------------------
(* Lemmas about the constants and about sequences *)

LEMMA FolderFacts ==
    /\ Walk!Folders \in Nat /\ Walk!Last \in Nat
    /\ \A i \in 1 .. Walk!Folders : FolderEnds[i] \in 0 .. Walk!Last
    /\ \A i, j \in 1 .. Walk!Folders : i <= j => FolderEnds[i] <= FolderEnds[j]
<1>1. Walk!Folders \in Nat /\ FolderEnds \in [1 .. Walk!Folders -> Nat] /\
        DOMAIN FolderEnds = 1 .. Walk!Folders
  BY WalkAssumption, LenProperties DEF Walk!Folders
<1>2. \A i, j \in 1 .. Walk!Folders : i <= j => FolderEnds[i] <= FolderEnds[j]
  BY <1>1, WalkAssumption
<1>3. Walk!Last \in Nat
  BY <1>1 DEF Walk!Last
<1>4. ASSUME NEW i \in 1 .. Walk!Folders PROVE FolderEnds[i] \in 0 .. Walk!Last
  <2>1. Walk!Folders \in 1 .. Walk!Folders /\ i <= Walk!Folders /\ FolderEnds[i] \in Nat
    BY <1>1
  <2>2. FolderEnds[i] <= FolderEnds[Walk!Folders]
    BY <1>2, <2>1
  <2>3. Walk!Last = FolderEnds[Walk!Folders]
    BY <1>1, <2>1 DEF Walk!Last
  <2> QED BY <1>3, <2>1, <2>2, <2>3
<1> QED BY <1>1, <1>2, <1>3, <1>4

LEMMA AppendItems ==
    ASSUME NEW S, NEW s \in Seq(S), NEW x \in S
    PROVE  /\ Append(s, x) \in Seq(S)
           /\ Len(Append(s, x)) = Len(s) + 1
           /\ \A i \in 1 .. Len(s) : Append(s, x)[i] = s[i]
           /\ Append(s, x)[Len(s) + 1] = x
           /\ Items(Append(s, x)) = Items(s) \union {x}
<1>1. /\ Append(s, x) \in Seq(S) /\ Len(Append(s, x)) = Len(s) + 1 /\ Len(s) \in Nat
      /\ \A i \in 1 .. Len(s) : Append(s, x)[i] = s[i]
      /\ Append(s, x)[Len(s) + 1] = x
  OBVIOUS
<1>2. 1 .. Len(s) + 1 = 1 .. Len(s) \union {Len(s) + 1}
  BY <1>1
<1>3. Items(Append(s, x)) = Items(s) \union {x}
  BY <1>1, <1>2 DEF Items
<1> QED BY <1>1, <1>3

LEMMA TailItems ==
    ASSUME NEW S, NEW s \in Seq(S), s # <<>>
    PROVE  /\ Tail(s) \in Seq(S) /\ Head(s) \in S
           /\ Len(s) \in Nat \ {0} /\ Len(Tail(s)) = Len(s) - 1
           /\ Head(s) = s[1]
           /\ \A i \in 1 .. Len(Tail(s)) : Tail(s)[i] = s[i + 1]
           /\ Items(s) = {Head(s)} \union Items(Tail(s))
<1>1. /\ Tail(s) \in Seq(S) /\ Head(s) \in S /\ Len(Tail(s)) = Len(s) - 1
      /\ \A i \in 1 .. Len(Tail(s)) : Tail(s)[i] = s[i + 1]
  BY HeadTailProperties
<1>2. Len(s) \in Nat \ {0} /\ Head(s) = s[1]
  BY EmptySeq
<1>3. ASSUME NEW i \in 1 .. Len(s) PROVE s[i] \in {Head(s)} \union Items(Tail(s))
  <2>1. CASE i = 1
    BY <1>2, <2>1
  <2>2. CASE i # 1
    <3>1. i - 1 \in 1 .. Len(Tail(s)) /\ Tail(s)[i - 1] = s[i]
      BY <1>1, <1>2, <2>2
    <3> QED BY <3>1 DEF Items
  <2> QED BY <2>1, <2>2
<1>4. ASSUME NEW i \in 1 .. Len(Tail(s)) PROVE Tail(s)[i] \in Items(s)
  BY <1>1, <1>2 DEF Items
<1>5. Head(s) \in Items(s)
  BY <1>2 DEF Items
<1>6. Items(s) \subseteq {Head(s)} \union Items(Tail(s))
  BY <1>3 DEF Items
<1>7. Items(Tail(s)) \subseteq Items(s)
  BY <1>4 DEF Items
<1> QED BY <1>1, <1>2, <1>5, <1>6, <1>7

-----------------------------------------------------------------------------
(* Steps of the thread *)

LEMMA WalkStarts == ASSUME Walk!Init PROVE WalkInv
<1>1. Walk!Folders \in Nat /\ Walk!Last \in Nat /\ QueueSize \in Nat \ {0} /\
        BatchSize \in Nat \ {0}
  BY FolderFacts, WalkAssumption
<1>b. <<>> \in Seq(Walk!Files) /\ <<>> \in Seq(0 .. Walk!Last + 1) /\ Len(<<>>) = 0
  OBVIOUS
<1>2. Walk!TypeOK
  <2>1. producer \in [pc : Walk!ProducerPcs, folder : 0 .. Walk!Folders,
          next : 1 .. Walk!Last + 1, upto : 0 .. Walk!Last]
    BY <1>1 DEF Walk!Init, Walk!ProducerPcs
  <2>2. consumer \in [pc : Walk!ConsumerPcs, outcome : Walk!Outcomes \union {"none"}]
    BY DEF Walk!Init, Walk!ConsumerPcs, Walk!Working
  <2>3. /\ queue \in Seq(0 .. Walk!Last + 1) /\ Len(queue) <= QueueSize
        /\ batch \in Seq(Walk!Files) /\ Len(batch) <= BatchSize
    BY <1>1, <1>b DEF Walk!Init
  <2> QED BY <2>1, <2>2, <2>3 DEF Walk!Init, Walk!TypeOK
<1>3. Walk!Files \subseteq Ahead
  BY <1>1 DEF Walk!Init, Ahead, Walk!Files
<1>4. Accounted
  BY <1>3 DEF Walk!Init, Accounted, Whole, Believes, Walk!Working
<1> QED BY <1>1, <1>2, <1>4 DEF Walk!Init, WalkInv, ThreadOK, InOrder, RoomInBatch

\* The thread goes on without the queue: every file stays where it is.
LEMMA ThreadGoes ==
    ASSUME WalkInv, queue' = queue, stopped' = stopped, UNCHANGED Walk!consumerVars,
           producer.pc # "done", producer'.pc # "done", producer'.next = producer.next,
           producer.pc # "error",
           producer'.pc = "end" => stopped \/ producer.next = Walk!Last + 1
    PROVE  InOrder' /\ RoomInBatch' /\ Accounted'
<1> USE DEF WalkInv, Walk!consumerVars
<1>1. InOrder' /\ RoomInBatch'
  BY DEF InOrder, RoomInBatch
<1>2. Items(queue)' = Items(queue) /\ Items(batch)' = Items(batch) /\ Ahead' = Ahead
  BY DEF Items, Ahead
<1>3. Believes' <=> Believes
  BY DEF Believes
<1>4. Accounted'
  BY <1>2, <1>3 DEF Accounted, Whole, Failing
<1> QED BY <1>1, <1>4

\* The thread puts an item: a file from ahead of it, a failure, or the sentinel at its end.
LEMMA ThreadPuts ==
    ASSUME WalkInv, NEW item \in 0 .. Walk!Last + 1, Walk!Put(item),
           UNCHANGED <<stopped, Walk!consumerVars>>,
           producer.pc # "done", producer \in [pc : Walk!ProducerPcs, folder : 0 .. Walk!Folders,
             next : 1 .. Walk!Last + 1, upto : 0 .. Walk!Last],
           item = Walk!Sentinel <=> producer'.pc = "done",
           \/ item = Walk!Failure
           \/ /\ producer.pc # "error"
              /\ item \in Walk!Files \union {Walk!Sentinel}
              /\ \A n \in Walk!Files : n >= producer.next => n = item \/ n >= producer'.next
              /\ producer'.pc \in {"end", "done"} =>
                     producer.pc \in {"end", "done"} /\ producer'.next = producer.next
    PROVE  InOrder' /\ RoomInBatch' /\ Accounted'
<1> USE DEF WalkInv, Walk!consumerVars
<1>0. Walk!Last \in Nat
  BY FolderFacts
<1> DEFINE Slots == 0 .. Walk!Last + 1
<1>1. queue \in Seq(Slots) /\ item \in Slots /\ queue' = Append(queue, item)
  BY DEF Walk!TypeOK, Walk!Put, Walk!PutRoom
<1> HIDE DEF Slots
<1>a. /\ Len(Append(queue, item)) = Len(queue) + 1
      /\ \A i \in 1 .. Len(queue) : Append(queue, item)[i] = queue[i]
      /\ Append(queue, item)[Len(queue) + 1] = item
      /\ Items(Append(queue, item)) = Items(queue) \union {item}
  BY <1>1, AppendItems
<1>2. /\ Len(queue') = Len(queue) + 1 /\ Len(queue) \in Nat
      /\ \A i \in 1 .. Len(queue) : queue'[i] = queue[i]
      /\ queue'[Len(queue) + 1] = item
      /\ Items(queue') = Items(queue) \union {item}
  BY <1>1, <1>a
<1>3. \A i \in 1 .. Len(queue) : queue[i] # Walk!Sentinel
  BY DEF InOrder
<1>4. InOrder'
  <2>1. \A i \in 1 .. Len(queue') : i \in 1 .. Len(queue) \/ i = Len(queue')
    BY <1>2
  <2>2. \A i \in 1 .. Len(queue') : queue'[i] = Walk!Sentinel => i = Len(queue')
    BY <1>2, <1>3, <2>1
  <2>3. queue'[Len(queue')] = item
    BY <1>2
  <2> QED BY <2>2, <2>3 DEF InOrder
<1>5. RoomInBatch'
  BY DEF RoomInBatch
<1>6. Items(queue)' = Items(queue) \union {item} /\ Items(batch)' = Items(batch)
  BY <1>2 DEF Items
<1>7. Believes' <=> Believes
  BY DEF Believes
<1>8. Accounted'
  <2>1. CASE item = Walk!Failure
    BY <1>6, <1>7, <2>1 DEF Accounted, Failing
  <2>2. CASE item # Walk!Failure
    <3>1. Failing => Failing'
      BY <1>6, <2>2 DEF Failing
    <3>2. Ahead \subseteq Ahead' \union {item}
      BY <2>2 DEF Ahead
    <3>3. Whole => Whole'
      BY <1>6, <2>2, <3>2 DEF Whole
    <3> QED BY <1>6, <1>7, <3>1, <3>3 DEF Accounted
  <2> QED BY <2>1, <2>2
<1> QED BY <1>4, <1>5, <1>8

WalkThreads == [pc : Walk!ProducerPcs, folder : 0 .. Walk!Folders, next : 1 .. Walk!Last + 1,
  upto : 0 .. Walk!Last]

LEMMA NextFolderStep == ASSUME WalkInv, Walk!NextFolder PROVE WalkInv'
<1> USE DEF Walk!NextFolder, Walk!ProducerGoes
<1>1. producer \in WalkThreads
  BY DEF WalkInv, Walk!TypeOK, WalkThreads
<1>2. /\ producer'.pc \in {"end", "lease"} /\ producer'.next = producer.next
      /\ producer'.pc = "end" => stopped
      /\ producer'.folder = producer.folder /\ producer'.upto = producer.upto
      /\ producer' \in WalkThreads
  BY <1>1 DEF WalkThreads, Walk!ProducerPcs
<1>3. Walk!TypeOK' /\ ThreadOK'
  BY <1>2 DEF WalkInv, Walk!TypeOK, ThreadOK, Walk!consumerVars, WalkThreads
<1> QED BY <1>2, <1>3, ThreadGoes DEF WalkInv

LEMMA TakeLeaseStep == ASSUME WalkInv, Walk!TakeLease PROVE WalkInv'
<1> USE DEF Walk!TakeLease, Walk!ProducerGoes
<1>1. producer \in WalkThreads
  BY DEF WalkInv, Walk!TypeOK, WalkThreads
<1>2. /\ producer'.pc = "walk" /\ producer'.next = producer.next
      /\ producer'.folder = producer.folder /\ producer'.upto = producer.upto
      /\ producer' \in WalkThreads
  BY <1>1 DEF WalkThreads, Walk!ProducerPcs
<1>3. Walk!TypeOK' /\ ThreadOK'
  BY <1>2 DEF WalkInv, Walk!TypeOK, ThreadOK, Walk!consumerVars, WalkThreads
<1> QED BY <1>2, <1>3, ThreadGoes DEF WalkInv

LEMMA ReadFolderStep == ASSUME WalkInv, Walk!ReadFolder PROVE WalkInv'
<1> USE DEF Walk!ReadFolder, Walk!ProducerGoes
<1>0. /\ Walk!Folders \in Nat /\ Walk!Last \in Nat
      /\ \A i \in 1 .. Walk!Folders : FolderEnds[i] \in 0 .. Walk!Last
      /\ \A i, j \in 1 .. Walk!Folders : i <= j => FolderEnds[i] <= FolderEnds[j]
  BY FolderFacts
<1>1. /\ producer \in WalkThreads /\ producer.pc = "walk" /\ producer.next = producer.upto + 1
      /\ producer.upto = IF producer.folder = 0 THEN 0 ELSE FolderEnds[producer.folder]
  BY DEF WalkInv, Walk!TypeOK, ThreadOK, WalkThreads
<1>2. CASE producer.folder < Walk!Folders /\ producer'.folder = producer.folder + 1
  <2> DEFINE upto == FolderEnds[producer.folder + 1]
  <2>1. producer.folder \in Nat /\ producer.folder + 1 \in 1 .. Walk!Folders /\
          upto \in 0 .. Walk!Last
    BY <1>0, <1>1, <1>2 DEF WalkThreads
  <2>2. producer.upto <= upto
    BY <1>0, <1>1, <2>1 DEF WalkThreads
  <2>3. /\ producer' = [producer EXCEPT !.folder = producer.folder + 1, !.upto = upto,
                                        !.pc = IF producer.next <= upto THEN "put" ELSE "loop"]
        /\ stale' = FALSE
    BY <1>1, <1>2 DEF WalkThreads
  <2> HIDE DEF upto
  <2>a. producer.folder + 1 \in 0 .. Walk!Folders /\ producer.folder + 1 # 0
    BY <1>0, <2>1
  <2>4. /\ producer' \in WalkThreads /\ producer'.next = producer.next
        /\ producer'.upto = upto /\ producer'.folder = producer.folder + 1 /\ producer'.folder # 0
        /\ producer'.pc = IF producer.next <= upto THEN "put" ELSE "loop"
    BY <1>1, <2>a, <2>1, <2>3 DEF WalkThreads, Walk!ProducerPcs
  <2>5. producer.next > upto => producer.next = upto + 1
    BY <1>1, <2>1, <2>2 DEF WalkThreads
  <2>6. ThreadOK'
    BY <1>1, <2>1, <2>4, <2>5 DEF ThreadOK, WalkThreads, upto
  <2>7. Walk!TypeOK'
    BY <2>3, <2>4 DEF WalkInv, Walk!TypeOK, Walk!consumerVars, WalkThreads
  <2> QED BY <1>1, <2>4, <2>6, <2>7, ThreadGoes DEF WalkInv
<1>3. CASE producer.folder = Walk!Folders /\ producer' = [producer EXCEPT !.pc = "end"] /\
             UNCHANGED stale
  <2>1. /\ producer' \in WalkThreads /\ producer'.next = producer.next /\ producer'.pc = "end"
        /\ producer'.upto = producer.upto /\ producer'.folder = producer.folder
    BY <1>1, <1>3 DEF WalkThreads, Walk!ProducerPcs
  <2>2. Walk!TypeOK' /\ ThreadOK'
    BY <1>3, <2>1 DEF WalkInv, Walk!TypeOK, ThreadOK, Walk!consumerVars, WalkThreads
  <2>3. producer.upto = Walk!Last
    BY <1>0, <1>1, <1>3 DEF Walk!Last
  <2> QED BY <1>1, <2>1, <2>2, <2>3, ThreadGoes DEF WalkInv
<1>4. CASE producer' = [producer EXCEPT !.pc = "error"] /\ UNCHANGED stale
  <2>1. /\ producer' \in WalkThreads /\ producer'.next = producer.next /\ producer'.pc = "error"
        /\ producer'.upto = producer.upto /\ producer'.folder = producer.folder
    BY <1>1, <1>4 DEF WalkThreads, Walk!ProducerPcs
  <2>2. Walk!TypeOK' /\ ThreadOK'
    BY <1>4, <2>1 DEF WalkInv, Walk!TypeOK, ThreadOK, Walk!consumerVars, WalkThreads
  <2> QED BY <1>1, <2>1, <2>2, ThreadGoes DEF WalkInv
<1> QED BY <1>1, <1>2, <1>3, <1>4 DEF WalkThreads

\* The queue keeps its type when an item is put on it.
LEMMA PutType ==
    ASSUME Walk!TypeOK, NEW item \in 0 .. Walk!Last + 1, Walk!Put(item)
    PROVE  queue' \in Seq(0 .. Walk!Last + 1) /\ Len(queue') <= QueueSize
<1> DEFINE Slots == 0 .. Walk!Last + 1
<1>1. queue \in Seq(Slots) /\ item \in Slots /\
        Len(queue) < QueueSize /\ queue' = Append(queue, item)
  BY DEF Walk!TypeOK, Walk!Put, Walk!PutRoom
<1> HIDE DEF Slots
<1>2. Append(queue, item) \in Seq(Slots) /\ Len(Append(queue, item)) = Len(queue) + 1 /\
        Len(queue) \in Nat
  BY <1>1, AppendItems
<1>3. QueueSize \in Nat
  BY WalkAssumption
<1> QED BY <1>1, <1>2, <1>3 DEF Slots

LEMMA PutFileStep == ASSUME WalkInv, Walk!PutFile PROVE WalkInv'
<1> USE DEF Walk!PutFile
<1>0. Walk!Last \in Nat
  BY FolderFacts
<1>1. producer \in WalkThreads /\ producer.next <= producer.upto /\ producer.pc = "put"
  BY DEF WalkInv, Walk!TypeOK, ThreadOK, WalkThreads
<1>2. producer' = [producer EXCEPT !.next = producer.next + 1,
                                   !.pc = IF producer.next = producer.upto THEN "loop" ELSE "put"]
  BY <1>1 DEF WalkThreads
<1>a. producer.next + 1 \in 1 .. Walk!Last + 1
  BY <1>0, <1>1 DEF WalkThreads
<1>3. /\ producer' \in WalkThreads /\ producer'.next = producer.next + 1
      /\ producer'.upto = producer.upto /\ producer'.folder = producer.folder
      /\ producer'.pc = IF producer.next = producer.upto THEN "loop" ELSE "put"
  BY <1>1, <1>2, <1>a DEF WalkThreads, Walk!ProducerPcs
<1>4. ThreadOK'
  BY <1>1, <1>3 DEF WalkInv, ThreadOK, WalkThreads
<1>5. PICK item \in {producer.next, Walk!Failure} : Walk!Put(item)
  OBVIOUS
<1>6. item \in 0 .. Walk!Last + 1 /\ item # Walk!Sentinel /\
        (item = Walk!Failure \/ (item \in Walk!Files /\ item = producer.next))
  BY <1>0, <1>1, <1>5 DEF Walk!Failure, Walk!Sentinel, Walk!Files, WalkThreads
<1>7. Walk!TypeOK'
  BY <1>3, <1>5, <1>6, PutType DEF WalkInv, Walk!TypeOK, Walk!consumerVars, WalkThreads
<1>8. \A n \in Walk!Files : n >= producer.next => n = producer.next \/ n >= producer'.next
  BY <1>0, <1>1, <1>3 DEF Walk!Files, WalkThreads
<1>9. producer'.pc \notin {"end", "done"}
  BY <1>3
<1> QED BY <1>1, <1>4, <1>5, <1>6, <1>7, <1>8, <1>9, ThreadPuts DEF WalkInv, WalkThreads

LEMMA PutErrorStep == ASSUME WalkInv, Walk!PutError PROVE WalkInv'
<1> USE DEF Walk!PutError, Walk!ProducerGoes
<1>0. Walk!Last \in Nat /\ Walk!Failure \in 0 .. Walk!Last + 1 /\ Walk!Failure # Walk!Sentinel
  BY FolderFacts DEF Walk!Failure, Walk!Sentinel
<1>1. producer \in WalkThreads /\ producer.pc = "error"
  BY DEF WalkInv, Walk!TypeOK, WalkThreads
<1>2. /\ producer' \in WalkThreads /\ producer'.next = producer.next /\ producer'.pc = "end"
      /\ producer'.upto = producer.upto /\ producer'.folder = producer.folder
  BY <1>1 DEF WalkThreads, Walk!ProducerPcs
<1>3. Walk!TypeOK'
  BY <1>0, <1>2, PutType DEF WalkInv, Walk!TypeOK, Walk!consumerVars, WalkThreads
<1>4. ThreadOK'
  BY <1>2 DEF WalkInv, ThreadOK
<1> QED BY <1>0, <1>1, <1>2, <1>3, <1>4, ThreadPuts DEF WalkInv, WalkThreads

LEMMA PutEndStep == ASSUME WalkInv, Walk!PutEnd PROVE WalkInv'
<1> USE DEF Walk!PutEnd, Walk!ProducerGoes
<1>0. Walk!Last \in Nat /\ Walk!Sentinel \in 0 .. Walk!Last + 1 /\ Walk!Failure # Walk!Sentinel
  BY FolderFacts DEF Walk!Failure, Walk!Sentinel
<1>1. producer \in WalkThreads /\ producer.pc = "end"
  BY DEF WalkInv, Walk!TypeOK, WalkThreads
<1>2. /\ producer' \in WalkThreads /\ producer'.next = producer.next /\ producer'.pc = "done"
      /\ producer'.upto = producer.upto /\ producer'.folder = producer.folder
  BY <1>1 DEF WalkThreads, Walk!ProducerPcs
<1>3. Walk!TypeOK'
  BY <1>0, <1>2, PutType DEF WalkInv, Walk!TypeOK, Walk!consumerVars, WalkThreads
<1>4. ThreadOK'
  BY <1>2 DEF WalkInv, ThreadOK
<1>5. \A n \in Walk!Files : n >= producer.next => n >= producer'.next
  BY <1>2
<1> QED BY <1>0, <1>1, <1>2, <1>3, <1>4, <1>5, ThreadPuts DEF WalkInv, WalkThreads

LEMMA AgeStep == ASSUME WalkInv, Walk!Age PROVE WalkInv'
<1> USE DEF Walk!Age, Walk!consumerVars
<1>1. Walk!TypeOK' /\ ThreadOK' /\ InOrder' /\ RoomInBatch'
  BY DEF WalkInv, Walk!TypeOK, ThreadOK, InOrder, RoomInBatch
<1>2. /\ Believes' <=> Believes
      /\ Failing' <=> Failing
      /\ Whole' <=> Whole
      /\ Items(batch)' = Items(batch)
  BY DEF Believes, Failing, Whole, Items, Ahead
<1>3. Accounted'
  BY <1>2 DEF WalkInv, Accounted
<1> QED BY <1>1, <1>3 DEF WalkInv

-----------------------------------------------------------------------------
(* Steps of the coroutine *)

\* The coroutine takes an item: nothing but the item leaves the queue.
LEMMA Taken ==
    ASSUME Walk!TypeOK, InOrder, queue # <<>>, queue' = Tail(queue), producer' = producer
    PROVE  /\ queue' \in Seq(0 .. Walk!Last + 1) /\ Len(queue') <= QueueSize
           /\ Head(queue) \in 0 .. Walk!Last + 1
           /\ Items(queue) = {Head(queue)} \union Items(queue)'
           /\ InOrder'
           /\ Head(queue) = Walk!Sentinel => producer.pc = "done" /\ Items(queue)' = {}
<1> DEFINE Slots == 0 .. Walk!Last + 1
<1>1. queue \in Seq(Slots) /\ Len(queue) <= QueueSize
  BY DEF Walk!TypeOK
<1> HIDE DEF Slots
<1>2. /\ Tail(queue) \in Seq(Slots) /\ Head(queue) \in Slots
      /\ Len(queue) \in Nat \ {0} /\ Len(Tail(queue)) = Len(queue) - 1
      /\ Head(queue) = queue[1]
      /\ \A i \in 1 .. Len(Tail(queue)) : Tail(queue)[i] = queue[i + 1]
      /\ Items(queue) = {Head(queue)} \union Items(Tail(queue))
  BY <1>1, TailItems
<1>3. Items(queue)' = Items(Tail(queue))
  BY DEF Items
<1>4. Len(queue') <= QueueSize
  BY <1>1, <1>2, WalkAssumption
<1>5. ASSUME NEW i \in 1 .. Len(queue'), queue'[i] = Walk!Sentinel
      PROVE  i = Len(queue') /\ producer'.pc = "done"
  <2>1. i + 1 \in 1 .. Len(queue) /\ queue[i + 1] = Walk!Sentinel
    BY <1>2, <1>5
  <2>2. i + 1 = Len(queue) /\ producer.pc = "done"
    BY <2>1 DEF InOrder
  <2>3. i \in Nat /\ Len(queue) \in Nat /\ Len(queue') = Len(queue) - 1
    BY <1>2
  <2> QED BY <2>2, <2>3
<1>6. ASSUME Head(queue) = Walk!Sentinel PROVE producer.pc = "done" /\ Items(queue)' = {}
  <2>1. 1 \in 1 .. Len(queue) /\ queue[1] = Walk!Sentinel
    BY <1>2, <1>6
  <2>2. Len(queue) = 1 /\ producer.pc = "done"
    BY <2>1 DEF InOrder
  <2>3. 1 .. Len(Tail(queue)) = {}
    BY <1>2, <2>2
  <2>4. Items(Tail(queue)) = {}
    BY <2>3 DEF Items
  <2> QED BY <1>3, <2>2, <2>4
<1>7. InOrder'
  BY <1>5 DEF InOrder
<1> QED BY <1>1, <1>2, <1>3, <1>4, <1>6, <1>7 DEF Slots

\* The coroutine leaves the queue alone.
LEMMA NotTaken ==
    ASSUME InOrder, ThreadOK, UNCHANGED <<Walk!producerVars, queue>>
    PROVE  /\ InOrder' /\ ThreadOK' /\ Items(queue)' = Items(queue)
           /\ Ahead' = Ahead /\ (Failing' <=> Failing)
BY DEF InOrder, ThreadOK, Items, Ahead, Failing, Walk!producerVars

\* The coroutine only gives up, or goes on after it has: nothing is promised any more.
LEMMA GivesUp ==
    ASSUME ~Believes', consumer'.pc \notin {"flush", "over"},
           consumer'.pc = "await" => consumer'.outcome # "completed"
    PROVE  Accounted'
BY DEF Accounted

Coroutines == [pc : Walk!ConsumerPcs, outcome : Walk!Outcomes \union {"none"}]

LEMMA GetEndStep == ASSUME WalkInv, Walk!GetEnd PROVE WalkInv'
<1> USE DEF Walk!GetEnd, Walk!Goes, Walk!At, Walk!Leave, Walk!producerVars
<1>1. consumer \in Coroutines
  BY DEF WalkInv, Walk!TypeOK, Coroutines
<1>2. \/ /\ consumer' \in Coroutines /\ consumer'.pc = "flush" /\ stopped' = stopped
         /\ completed
      \/ /\ consumer' \in Coroutines /\ consumer'.pc = "await" /\ stopped' = TRUE
         /\ consumer'.outcome = IF completed THEN "completed" ELSE "partial"
         /\ completed => batch = <<>>
  BY <1>1 DEF Coroutines, Walk!ConsumerPcs, Walk!Working, Walk!Outcomes
<1>3. /\ queue' \in Seq(0 .. Walk!Last + 1) /\ Len(queue') <= QueueSize /\ InOrder'
      /\ Items(queue) = {Walk!Sentinel} /\ producer.pc = "done"
  BY Taken DEF WalkInv
<1>4. Walk!TypeOK' /\ ThreadOK' /\ RoomInBatch'
  BY <1>2, <1>3 DEF WalkInv, Walk!TypeOK, ThreadOK, RoomInBatch, Coroutines
<1>5. completed => Walk!Files \subseteq persisted \union Items(batch)
  <2> SUFFICES ASSUME completed PROVE Walk!Files \subseteq persisted \union Items(batch)
    OBVIOUS
  <2>0. Walk!Last \in Nat /\ Walk!Failure # Walk!Sentinel
    BY FolderFacts DEF Walk!Failure, Walk!Sentinel
  <2>1. ~Failing
    BY <1>3, <2>0 DEF Failing
  <2>2. Believes /\ consumer.pc # "flush"
    BY DEF Believes, Walk!Working
  <2>3. Whole
    BY <2>1, <2>2 DEF WalkInv, Accounted
  <2>4. Ahead = {} /\ Walk!Sentinel \notin Walk!Files
    BY <1>3, <2>0, <2>3 DEF Whole, Ahead, Walk!Files, Walk!Sentinel
  <2> QED BY <1>3, <2>3, <2>4 DEF Whole
<1>6. batch = <<>> => Items(batch) = {}
  BY DEF Items
<1>7. persisted \subseteq Walk!Files /\ Items(batch)' = Items(batch)
  BY DEF WalkInv, Walk!TypeOK, Items
<1>8. completed => ~stopped /\ ~discarding
  BY DEF WalkInv, Accounted, Believes, Walk!Working
<1>9. Accounted'
  <2>1. CASE consumer'.pc = "flush"
    BY <1>2, <1>5, <1>7, <1>8, <2>1 DEF Accounted
  <2>2. CASE consumer'.pc = "await" /\ completed
    <3>1. persisted' = Walk!Files
      BY <1>2, <1>5, <1>6, <1>7, <2>2
    <3> QED BY <2>2, <3>1 DEF Accounted, Believes, Walk!Working
  <2>3. CASE consumer'.pc = "await" /\ ~completed
    <3>1. consumer'.outcome # "completed"
      BY <1>2, <2>3
    <3> QED BY <2>3, <3>1 DEF Accounted, Believes, Walk!Working
  <2> QED BY <1>2, <2>1, <2>2, <2>3
<1> QED BY <1>3, <1>4, <1>9 DEF WalkInv

LEMMA GetDiscardedStep == ASSUME WalkInv, Walk!GetDiscarded PROVE WalkInv'
<1> USE DEF Walk!GetDiscarded, Walk!At, Walk!producerVars
<1>1. /\ queue' \in Seq(0 .. Walk!Last + 1) /\ Len(queue') <= QueueSize /\ InOrder'
  BY Taken DEF WalkInv
<1>2. Walk!TypeOK' /\ ThreadOK' /\ RoomInBatch'
  BY <1>1 DEF WalkInv, Walk!TypeOK, ThreadOK, RoomInBatch
<1>3. ~Believes'
  BY DEF WalkInv, Accounted, Believes, Walk!Working
<1> QED BY <1>1, <1>2, <1>3, GivesUp DEF WalkInv

LEMMA GetFailureStep == ASSUME WalkInv, Walk!GetFailure PROVE WalkInv'
<1> USE DEF Walk!GetFailure, Walk!At, Walk!Goes, Walk!GiveUp, Walk!producerVars
<1>1. /\ queue' \in Seq(0 .. Walk!Last + 1) /\ Len(queue') <= QueueSize /\ InOrder'
  BY Taken DEF WalkInv
<1>2. consumer' \in Coroutines /\ consumer'.pc = "record"
  BY DEF WalkInv, Walk!TypeOK, Coroutines, Walk!ConsumerPcs, Walk!Working
<1>3. Walk!TypeOK' /\ ThreadOK' /\ RoomInBatch'
  BY <1>1, <1>2 DEF WalkInv, Walk!TypeOK, ThreadOK, RoomInBatch, Coroutines
<1>4. ~Believes'
  BY DEF Believes
<1> QED BY <1>1, <1>2, <1>3, <1>4, GivesUp DEF WalkInv

\* The coroutine goes on and leaves the queue, the batch and the flags alone.
LEMMA GoesOn ==
    ASSUME Accounted,
           UNCHANGED <<producer, queue, batch, persisted, completed, discarding, stopped>>,
           consumer.pc \in Walk!Working \ {"flush"}, consumer'.pc \in Walk!Working \ {"flush"}
    PROVE  Accounted'
<1>1. Items(queue)' = Items(queue) /\ Items(batch)' = Items(batch) /\ Ahead' = Ahead
  BY DEF Items, Ahead
<1>2. Believes' <=> Believes
  BY DEF Believes
<1> QED BY <1>1, <1>2 DEF Accounted, Whole, Failing, Walk!Working

LEMMA RecordFailureStep == ASSUME WalkInv, Walk!RecordFailure PROVE WalkInv'
<1> USE DEF Walk!RecordFailure, Walk!At, Walk!Goes, Walk!producerVars
<1>1. consumer' \in Coroutines /\ consumer'.pc = "get"
  BY DEF WalkInv, Walk!TypeOK, Coroutines, Walk!ConsumerPcs, Walk!Working
<1>2. Walk!TypeOK' /\ RoomInBatch'
  BY <1>1 DEF WalkInv, Walk!TypeOK, RoomInBatch, Coroutines
<1> QED BY <1>1, <1>2, NotTaken, GoesOn DEF WalkInv, Walk!Working

LEMMA GetFileStep == ASSUME WalkInv, Walk!GetFile PROVE WalkInv'
<1> USE DEF Walk!GetFile, Walk!At, Walk!Goes, Walk!producerVars
<1>0. Walk!Last \in Nat /\ Walk!Files \subseteq 0 .. Walk!Last + 1 /\
        Walk!Failure \notin Walk!Files /\ BatchSize \in Nat
  BY FolderFacts, WalkAssumption DEF Walk!Failure, Walk!Files
<1>1. /\ queue' \in Seq(0 .. Walk!Last + 1) /\ Len(queue') <= QueueSize /\ InOrder'
      /\ Items(queue) = {Head(queue)} \union Items(queue)'
  BY Taken DEF WalkInv
<1>2. /\ batch \in Seq(Walk!Files) /\ Len(batch) \in Nat /\ Len(batch) < BatchSize
      /\ Head(queue) \in Walk!Files /\ batch' = Append(batch, Head(queue))
  BY DEF WalkInv, Walk!TypeOK, RoomInBatch
<1> HIDE DEF Walk!GetFile
<1>a. /\ Append(batch, Head(queue)) \in Seq(Walk!Files)
      /\ Len(Append(batch, Head(queue))) = Len(batch) + 1
      /\ Items(Append(batch, Head(queue))) = Items(batch) \union {Head(queue)}
  BY <1>2, AppendItems
<1>3. /\ batch' \in Seq(Walk!Files) /\ Len(batch') <= BatchSize
      /\ Items(batch)' = Items(batch) \union {Head(queue)}
  <2>1. Items(batch)' = Items(Append(batch, Head(queue)))
    BY <1>2 DEF Items
  <2> QED BY <1>0, <1>2, <1>a, <2>1
<1>4. /\ consumer' \in Coroutines
      /\ \/ consumer'.pc = "persist"
         \/ consumer'.pc \in {"get", "checkpoint"} /\ Len(batch') < BatchSize
      /\ consumer.pc = "get"
      /\ UNCHANGED <<producer, stale, stopped, persisted, completed, discarding, detached>>
  <2>1. consumer \in Coroutines /\ consumer.pc = "get"
        /\ UNCHANGED <<producer, stale, stopped, persisted, completed, discarding, detached>>
    BY DEF Walk!GetFile, WalkInv, Walk!TypeOK, Coroutines
  <2>2. CASE Len(batch') >= BatchSize
    <3>1. consumer' = [consumer EXCEPT !.pc = "persist"]
      BY <2>2 DEF Walk!GetFile
    <3> QED BY <2>1, <3>1 DEF Coroutines, Walk!ConsumerPcs, Walk!Working
  <2>3. CASE ~(Len(batch') >= BatchSize)
    <3>1. PICK next \in {"get", "checkpoint"} : consumer' = [consumer EXCEPT !.pc = next]
      BY <2>3 DEF Walk!GetFile
    <3>2. consumer' \in Coroutines /\ consumer'.pc = next
      BY <2>1, <3>1 DEF Coroutines, Walk!ConsumerPcs, Walk!Working
    <3>3. Len(batch') < BatchSize
      BY <1>0, <1>2, <1>a, <2>3
    <3> QED BY <2>1, <3>2, <3>3
  <2> QED BY <2>2, <2>3
<1>5. Walk!TypeOK' /\ ThreadOK' /\ RoomInBatch'
  BY <1>1, <1>3, <1>4 DEF WalkInv, Walk!TypeOK, ThreadOK, RoomInBatch, Coroutines
<1>6. Believes' <=> Believes
  BY <1>4 DEF Believes, Walk!Working
<1>7. Failing => Failing'
  BY <1>0, <1>1, <1>2, <1>4 DEF Failing
<1>8. Ahead' = Ahead
  BY <1>4 DEF Ahead
<1>9. Whole => Whole'
  BY <1>1, <1>3, <1>4, <1>8 DEF Whole
<1>10. Accounted'
  BY <1>4, <1>6, <1>7, <1>9 DEF WalkInv, Accounted
<1> QED BY <1>1, <1>5, <1>10 DEF WalkInv

LEMMA GetTimeoutStep == ASSUME WalkInv, Walk!GetTimeout PROVE WalkInv'
<1> USE DEF Walk!GetTimeout, Walk!At, Walk!Goes, Walk!producerVars
<1>1. consumer' \in Coroutines /\ consumer'.pc = IF stale THEN "timeout" ELSE "checkpoint"
  BY DEF WalkInv, Walk!TypeOK, Coroutines, Walk!ConsumerPcs, Walk!Working
<1>2. Walk!TypeOK' /\ RoomInBatch'
  BY <1>1 DEF WalkInv, Walk!TypeOK, RoomInBatch, Coroutines
<1>3. Accounted'
  <2>1. CASE stale
    <3>1. ~Believes'
      BY <2>1 DEF Believes
    <3> QED BY <1>1, <2>1, <3>1, GivesUp DEF WalkInv
  <2>2. CASE ~stale
    BY <1>1, <2>2, GoesOn DEF WalkInv, Walk!Working
  <2> QED BY <2>1, <2>2
<1> QED BY <1>2, <1>3, NotTaken DEF WalkInv

LEMMA DetachStep == ASSUME WalkInv, Walk!Detach PROVE WalkInv'
<1> USE DEF Walk!Detach, Walk!At, Walk!Leave, Walk!producerVars
<1>1. consumer' \in Coroutines /\ consumer'.pc = "await" /\ consumer'.outcome = "partial"
  BY DEF WalkInv, Walk!TypeOK, Coroutines, Walk!ConsumerPcs, Walk!Outcomes
<1>2. Walk!TypeOK' /\ RoomInBatch'
  BY <1>1 DEF WalkInv, Walk!TypeOK, RoomInBatch, Coroutines
<1>3. ~Believes'
  BY <1>1 DEF Believes, Walk!Working
<1> QED BY <1>1, <1>2, <1>3, NotTaken, GivesUp DEF WalkInv

LEMMA CheckpointStep == ASSUME WalkInv, Walk!Checkpoint PROVE WalkInv'
<1> USE DEF Walk!Checkpoint, Walk!At, Walk!Goes, Walk!Refused, Walk!GiveUp, Walk!producerVars
<1>1. consumer' \in Coroutines /\ consumer'.pc = "get"
  BY DEF WalkInv, Walk!TypeOK, Coroutines, Walk!ConsumerPcs, Walk!Working
<1>2. Walk!TypeOK' /\ RoomInBatch'
  BY <1>1 DEF WalkInv, Walk!TypeOK, RoomInBatch, Coroutines
<1>3. Accounted'
  <2>1. CASE UNCHANGED <<completed, stopped, discarding>>
    BY <1>1, <2>1, GoesOn DEF WalkInv, Walk!Working
  <2>2. CASE Walk!Refused
    <3>1. ~Believes'
      BY <2>2 DEF Believes
    <3> QED BY <1>1, <3>1, GivesUp DEF WalkInv
  <2> QED BY <2>1, <2>2
<1> QED BY <1>2, <1>3, NotTaken DEF WalkInv

\* BatchFiles is the files of the batch.
LEMMA BatchItems ==
    ASSUME Walk!TypeOK
    PROVE  Walk!BatchFiles = Items(batch) /\ Walk!BatchFiles \subseteq Walk!Files
<1>1. batch \in Seq(Walk!Files) /\ DOMAIN batch = 1 .. Len(batch)
  BY DEF Walk!TypeOK
<1> QED BY <1>1, ElementOfSeq DEF Walk!BatchFiles, Items

LEMMA PersistStep == ASSUME WalkInv, Walk!Persist PROVE WalkInv'
<1> USE DEF Walk!Persist, Walk!At, Walk!Goes, Walk!producerVars
<1>1. consumer' \in Coroutines /\ consumer'.pc = "checkpoint"
  BY DEF WalkInv, Walk!TypeOK, Coroutines, Walk!ConsumerPcs, Walk!Working
<1>2. persisted' = persisted \union Items(batch) /\ persisted' \subseteq Walk!Files
  BY BatchItems DEF WalkInv, Walk!TypeOK
<1>3. batch' \in Seq(Walk!Files) /\ Len(batch') = 0 /\ BatchSize \in Nat \ {0}
  BY WalkAssumption
<1>4. Walk!TypeOK' /\ RoomInBatch'
  BY <1>1, <1>2, <1>3 DEF WalkInv, Walk!TypeOK, RoomInBatch, Coroutines
<1>5. (Believes' <=> Believes) /\ (Whole => Whole')
  BY <1>1, <1>2, NotTaken DEF WalkInv, Believes, Whole, Walk!Working
<1>6. Accounted'
  BY <1>1, <1>5, NotTaken DEF WalkInv, Accounted
<1> QED BY <1>4, <1>6, NotTaken DEF WalkInv

LEMMA FlushStep == ASSUME WalkInv, Walk!Flush PROVE WalkInv'
<1> USE DEF Walk!Flush, Walk!At, Walk!Leave, Walk!producerVars
<1>1. consumer' \in Coroutines /\ consumer'.pc = "await"
  BY DEF WalkInv, Walk!TypeOK, Coroutines, Walk!ConsumerPcs, Walk!Outcomes
<1>2. persisted' = Walk!Files
  BY BatchItems DEF WalkInv, Walk!TypeOK, Accounted
<1>3. Walk!TypeOK' /\ RoomInBatch'
  BY <1>1, <1>2 DEF WalkInv, Walk!TypeOK, RoomInBatch, Coroutines
<1>4. Accounted'
  BY <1>1, <1>2 DEF Accounted, Believes, Walk!Working
<1> QED BY <1>3, <1>4, NotTaken DEF WalkInv

LEMMA StoreFailsStep == ASSUME WalkInv, Walk!StoreFails PROVE WalkInv'
<1> USE DEF Walk!StoreFails, Walk!Leave, Walk!producerVars
<1>1. consumer' \in Coroutines /\ consumer'.pc = "await" /\ consumer'.outcome = "raised"
  BY DEF WalkInv, Walk!TypeOK, Coroutines, Walk!ConsumerPcs, Walk!Outcomes
<1>2. Walk!TypeOK' /\ RoomInBatch'
  BY <1>1 DEF WalkInv, Walk!TypeOK, RoomInBatch, Coroutines
<1>3. ~Believes'
  BY <1>1 DEF Believes, Walk!Working
<1> QED BY <1>1, <1>2, <1>3, NotTaken, GivesUp DEF WalkInv

LEMMA CancelStep == ASSUME WalkInv, Walk!Cancel PROVE WalkInv'
<1> USE DEF Walk!Cancel, Walk!At, Walk!producerVars
<1>1. consumer' \in Coroutines /\ consumer'.pc \in {"drain", "over"} /\
        consumer'.outcome = "cancelled"
  BY DEF WalkInv, Walk!TypeOK, Coroutines, Walk!ConsumerPcs, Walk!Outcomes
<1>2. Walk!TypeOK' /\ RoomInBatch'
  BY <1>1 DEF WalkInv, Walk!TypeOK, RoomInBatch, Coroutines
<1>3. Accounted'
  BY <1>1 DEF Accounted, Believes, Walk!Working
<1> QED BY <1>2, <1>3, NotTaken DEF WalkInv

LEMMA DrainItemStep == ASSUME WalkInv, Walk!DrainItem PROVE WalkInv'
<1> USE DEF Walk!DrainItem, Walk!At, Walk!producerVars
<1>1. /\ queue' \in Seq(0 .. Walk!Last + 1) /\ Len(queue') <= QueueSize /\ InOrder'
  BY Taken DEF WalkInv
<1>2. Walk!TypeOK' /\ ThreadOK' /\ RoomInBatch'
  BY <1>1 DEF WalkInv, Walk!TypeOK, ThreadOK, RoomInBatch
<1>3. ~Believes'
  BY DEF Believes, Walk!Working
<1> QED BY <1>1, <1>2, <1>3, GivesUp DEF WalkInv

LEMMA DrainEndStep == ASSUME WalkInv, Walk!DrainTimeout \/ Walk!DrainDone PROVE WalkInv'
<1> USE DEF Walk!DrainTimeout, Walk!DrainDone, Walk!At, Walk!Leave, Walk!producerVars
<1>1. consumer' \in Coroutines /\ consumer'.pc = "await" /\ consumer'.outcome = "cancelled"
  BY DEF WalkInv, Walk!TypeOK, Coroutines, Walk!ConsumerPcs, Walk!Outcomes
<1>2. Walk!TypeOK' /\ RoomInBatch'
  BY <1>1 DEF WalkInv, Walk!TypeOK, RoomInBatch, Coroutines
<1>3. ~Believes'
  BY <1>1 DEF Believes, Walk!Working
<1> QED BY <1>1, <1>2, <1>3, NotTaken, GivesUp DEF WalkInv

LEMMA AwaitProducerStep == ASSUME WalkInv, Walk!AwaitProducer PROVE WalkInv'
<1> USE DEF Walk!AwaitProducer, Walk!Return, Walk!At, Walk!Goes, Walk!producerVars
<1>1. /\ consumer' \in Coroutines /\ consumer'.pc = "over" /\ consumer'.outcome = consumer.outcome
      /\ consumer.pc = "await" /\ (detached \/ producer.pc = "done")
  BY DEF WalkInv, Walk!TypeOK, Coroutines, Walk!ConsumerPcs
<1>2. Walk!TypeOK' /\ RoomInBatch'
  BY <1>1 DEF WalkInv, Walk!TypeOK, RoomInBatch, Coroutines
<1>3. Accounted'
  BY <1>1 DEF WalkInv, Accounted, Believes, Walk!Working
<1> QED BY <1>2, <1>3, NotTaken DEF WalkInv

LEMMA WalkStutters == ASSUME WalkInv, UNCHANGED Walk!vars PROVE WalkInv'
<1>1. producer' = producer /\ queue' = queue /\ stopped' = stopped /\ stale' = stale
      /\ consumer' = consumer /\ batch' = batch /\ persisted' = persisted
      /\ completed' = completed /\ discarding' = discarding /\ detached' = detached
  BY DEF Walk!vars
<1> QED BY <1>1 DEF WalkInv, Walk!TypeOK, ThreadOK, InOrder, RoomInBatch, Accounted,
                    Believes, Failing, Whole, Ahead, Items

LEMMA WalkStep == ASSUME WalkInv, [Walk!Next]_Walk!vars PROVE WalkInv'
<1>1. CASE Walk!ProducerStep
  BY <1>1, NextFolderStep, TakeLeaseStep, ReadFolderStep, PutFileStep, PutErrorStep,
     PutEndStep DEF Walk!ProducerStep
<1>2. CASE Walk!ConsumerStep
  BY <1>2, GetEndStep, GetDiscardedStep, GetFailureStep, RecordFailureStep, GetFileStep,
     GetTimeoutStep,
     DetachStep, CheckpointStep, PersistStep, FlushStep, DrainItemStep, DrainEndStep,
     AwaitProducerStep
     DEF Walk!ConsumerStep
<1> QED BY <1>1, <1>2, AgeStep, StoreFailsStep, CancelStep, WalkStutters DEF Walk!Next

-----------------------------------------------------------------------------
(* Theorems *)

\* The thread's position, the queue within its size, the batch within its size and the flags
\* keep to their types in every walk (_walk_scope).
THEOREM WalkTypeCorrect == Walk!Spec => []Walk!TypeOK
<1>1. Walk!Init => WalkInv
  BY WalkStarts
<1>2. WalkInv /\ [Walk!Next]_Walk!vars => WalkInv'
  BY WalkStep
<1>3. WalkInv => Walk!TypeOK
  BY DEF WalkInv
<1> QED BY <1>1, <1>2, <1>3, PTL DEF Walk!Spec

\* A walk of any folders that reports completion has every file in the inventory, whatever
\* the order in which thread, coroutine, checkpoints, failures and cancellations meet.
THEOREM CompletedWalkIsCompleteHolds == Walk!Spec => []CompletedWalkIsComplete
<1>1. Walk!Init => WalkInv
  BY WalkStarts
<1>2. WalkInv /\ [Walk!Next]_Walk!vars => WalkInv'
  BY WalkStep
<1>3. WalkInv => CompletedWalkIsComplete
  BY DEF WalkInv, Accounted, Walk!CompletedWalkIsComplete, CompletedWalkIsComplete, Walk!Files,
     Files, Walk!Last, Last, Walk!Folders, Folders
<1> QED BY <1>1, <1>2, <1>3, PTL DEF Walk!Spec

-----------------------------------------------------------------------------
(* RootLeases, for any requests, roots and threads: a writer               *)
(* is alone in its root, and the counters of each root are those of the    *)
(* requests that hold it or ask for it.                                    *)
(*                                                                         *)
(* LeaseExclusion is not inductive: that a cancelled request gives back    *)
(* exactly what it has, and that a request is counted as a waiting writer  *)
(* once, rests on where its coroutine is while its thread waits (InStep).  *)

Asking == {"queued", "waiting", "notified"}

\* The coroutine and its thread are in step: only a request that acquires has a job, and
\* it has nothing before it begins and after it is over.
InStep ==
    \A t \in Requests :
        /\ job[t] = "none" <=> request[t] # "acquiring"
        /\ request[t] = "new" => held[t] = {}

LeaseInv == Leases!TypeOK /\ InStep /\ Leases!LeaseExclusion

-----------------------------------------------------------------------------
(* Lemmas about the roots and the counted sets *)

\* Both count.
LEMMA SameCount == \A S : Leases!Cardinality(S) = Cardinality(S)
BY DEF Leases!Cardinality, Cardinality, Leases!IsFiniteSet, IsFiniteSet

LEMMA RootsAreNumbers ==
    Leases!Roots \subseteq Nat
BY LeaseAssumption DEF Leases!Roots

\* A request asks for one root at a time.
LEMMA OneRootNext ==
    ASSUME NEW t \in Requests, NEW r \in Leases!Roots, NEW s \in Leases!Roots,
           Leases!TakesNext(t, r), Leases!TakesNext(t, s)
    PROVE  r = s
<1>1. r \in Nat /\ s \in Nat
  BY RootsAreNumbers
<1>2. r <= s /\ s <= r
  BY DEF Leases!TakesNext
<1> QED BY <1>1, <1>2

LEMMA SetsAreFinite ==
    ASSUME NEW r \in Leases!Roots
    PROVE  /\ IsFiniteSet(Leases!ReadersOf(r)) /\ IsFiniteSet(Leases!WritersOf(r)) /\
                IsFiniteSet(Leases!WritersAsking(r))
<1>1. Leases!ReadersOf(r) \in SUBSET Requests /\ Leases!WritersOf(r) \in SUBSET Requests /\
        Leases!WritersAsking(r) \in SUBSET Requests
  BY DEF Leases!ReadersOf, Leases!WritersOf, Leases!WritersAsking
<1> QED BY <1>1, FS_Subset, LeaseAssumption

\* One more element, one fewer: the two steps of every counter.
LEMMA OneMore ==
    ASSUME NEW S, NEW T, NEW x, IsFiniteSet(S), x \notin S, T = S \union {x}
    PROVE  Cardinality(T) = Cardinality(S) + 1
BY FS_AddElement

LEMMA OneFewer ==
    ASSUME NEW S, NEW T, NEW x, IsFiniteSet(S), x \in S, T = S \ {x}
    PROVE  /\ Cardinality(T) = Cardinality(S) - 1
           /\ Cardinality(T) \in Nat
BY FS_RemoveElement, FS_CardinalityType

-----------------------------------------------------------------------------
(* Each action preserves the invariant *)

LEMMA LeaseStarts == ASSUME Leases!Init PROVE LeaseInv
<1>1. Leases!TypeOK
  BY DEF Leases!Init, Leases!TypeOK
<1>2. InStep
  BY DEF Leases!Init, InStep
<1>3. \A r \in Leases!Roots : Leases!ReadersOf(r) = {} /\ Leases!WritersOf(r) = {} /\
        Leases!WritersAsking(r) = {}
  BY DEF Leases!Init, Leases!ReadersOf, Leases!WritersOf, Leases!WritersAsking
<1>4. Leases!LeaseExclusion
  BY <1>3, FS_EmptySet, SameCount DEF Leases!Init, Leases!LeaseExclusion
<1> QED BY <1>1, <1>2, <1>4 DEF LeaseInv

\* Steps that take and give no lease and move no job in or out of the queue.
LEMMA SameLeases ==
    ASSUME Leases!LeaseExclusion,
           readers' = readers, writerActive' = writerActive,
           waitingWriters' = waitingWriters, held' = held,
           \A t \in Requests : job'[t] \in Asking <=> job[t] \in Asking
    PROVE  Leases!LeaseExclusion'
<1>1. \A t \in Requests, r \in Leases!Roots : Leases!TakesNext(t, r)' <=> Leases!TakesNext(t, r)
  BY DEF Leases!TakesNext
<1>2. \A r \in Leases!Roots : /\ Leases!ReadersOf(r)' = Leases!ReadersOf(r)
                              /\ Leases!WritersOf(r)' = Leases!WritersOf(r)
                              /\ Leases!WritersAsking(r)' = Leases!WritersAsking(r)
  BY <1>1 DEF Leases!ReadersOf, Leases!WritersOf, Leases!WritersAsking, Leases!Writer, Asking
<1> QED BY <1>2, SameCount DEF Leases!LeaseExclusion, Leases!Writer

\* What Begin and Proceed have in common: t asks for its next root.
LEMMA AskStep ==
    ASSUME LeaseInv, NEW t \in Requests, NEW r \in Leases!Roots, Leases!TakesNext(t, r),
           job[t] \notin Asking, Leases!Ask(t, r)
    PROVE  Leases!LeaseExclusion' /\ waitingWriters' \in [Leases!Roots -> Nat]
<1> USE DEF LeaseInv
<1>1. /\ readers' = readers /\ writerActive' = writerActive /\ held' = held
      /\ job \in [Requests -> {"none", "queued", "waiting", "notified", "done"}]
      /\ waitingWriters \in [Leases!Roots -> Nat]
  BY DEF Leases!Ask, Leases!TypeOK
<1>2. \A s \in Leases!Roots : Leases!ReadersOf(s)' = Leases!ReadersOf(s) /\
        Leases!WritersOf(s)' = Leases!WritersOf(s)
  BY <1>1 DEF Leases!ReadersOf, Leases!WritersOf, Leases!Writer
<1>3. \A u \in Requests, s \in Leases!Roots : Leases!TakesNext(u, s)' <=> Leases!TakesNext(u, s)
  BY <1>1 DEF Leases!TakesNext
<1>4. job'[t] \in Asking /\ \A u \in Requests : u # t => job'[u] = job[u]
  BY <1>1 DEF Leases!Ask, Asking
<1>5. \A s \in Leases!Roots : waitingWriters'[s] = Cardinality(Leases!WritersAsking(s)')
  <2> SUFFICES ASSUME NEW s \in Leases!Roots
               PROVE  waitingWriters'[s] = Cardinality(Leases!WritersAsking(s)')
    OBVIOUS
  <2>0. waitingWriters[s] = Cardinality(Leases!WritersAsking(s))
    BY SameCount DEF Leases!LeaseExclusion
  <2>1. CASE Leases!Writer(t) /\ s = r
    <3>1. t \notin Leases!WritersAsking(s)
      BY DEF Leases!WritersAsking, Asking
    <3>2. Leases!WritersAsking(s)' = Leases!WritersAsking(s) \union {t}
      BY <1>3, <1>4, <2>1 DEF Leases!WritersAsking, Asking, Leases!Writer
    <3>3. waitingWriters'[s] = waitingWriters[s] + 1
      BY <1>1, <2>1 DEF Leases!Ask
    <3> QED BY <2>0, <3>1, <3>2, <3>3, OneMore, SetsAreFinite
  <2>2. CASE ~(Leases!Writer(t) /\ s = r)
    <3>1. ~(Leases!Writer(t) /\ Leases!TakesNext(t, s))
      BY <2>2, OneRootNext
    <3>2. Leases!WritersAsking(s)' = Leases!WritersAsking(s)
      BY <1>3, <1>4, <3>1 DEF Leases!WritersAsking, Leases!Writer
    <3>3. waitingWriters'[s] = waitingWriters[s]
      BY <1>1, <2>2 DEF Leases!Ask
    <3> QED BY <2>0, <3>2, <3>3
  <2> QED BY <2>1, <2>2
<1>6. waitingWriters' \in [Leases!Roots -> Nat]
  BY <1>1 DEF Leases!Ask
<1> QED BY <1>1, <1>2, <1>5, <1>6, SameCount DEF Leases!LeaseExclusion, Leases!Writer

LEMMA BeginStep == ASSUME LeaseInv, NEW t \in Requests, Leases!Begin(t) PROVE LeaseInv'
<1> USE DEF LeaseInv
<1>1. PICK r \in Leases!Roots : Leases!TakesNext(t, r) /\ Leases!Ask(t, r)
  BY DEF Leases!Begin
<1>2. request[t] = "new" /\ job[t] = "none"
  BY DEF Leases!Begin, InStep
<1>3. Leases!LeaseExclusion' /\ waitingWriters' \in [Leases!Roots -> Nat]
  BY <1>1, <1>2, AskStep DEF Asking
<1>4. Leases!TypeOK'
  BY <1>1, <1>3 DEF Leases!TypeOK, Leases!Begin, Leases!Ask
<1>5. InStep'
  BY <1>1, <1>2 DEF Leases!TypeOK, InStep, Leases!Begin, Leases!Ask
<1> QED BY <1>3, <1>4, <1>5

LEMMA ProceedStep == ASSUME LeaseInv, NEW t \in Requests, Leases!Proceed(t) PROVE LeaseInv'
<1> USE DEF LeaseInv
<1>1. request[t] = "acquiring" /\ job[t] = "done"
  BY DEF Leases!Proceed
<1>2. CASE t \in cancelled \/ held[t] = Wants[t]
  <2>1. /\ UNCHANGED <<Leases!leaseVars, cancelled>>
        /\ request' = [request EXCEPT ![t] =
             IF t \in cancelled THEN Leases!Unwinding ELSE "holding"]
        /\ job' = [job EXCEPT ![t] = "none"]
    BY <1>2, <1>1 DEF Leases!Proceed
  <2>2. Leases!LeaseExclusion'
    BY <1>1, <2>1, SameLeases DEF Leases!leaseVars, Asking, Leases!TypeOK
  <2>3. Leases!TypeOK' /\ InStep'
    BY <1>1, <2>1 DEF Leases!leaseVars, Leases!TypeOK, InStep, Leases!Unwinding
  <2> QED BY <2>2, <2>3
<1>3. CASE t \notin cancelled /\ held[t] # Wants[t]
  <2>1. PICK r \in Leases!Roots : Leases!TakesNext(t, r) /\ Leases!Ask(t, r)
    BY <1>3 DEF Leases!Proceed
  <2>2. Leases!LeaseExclusion' /\ waitingWriters' \in [Leases!Roots -> Nat]
    BY <1>1, <2>1, AskStep DEF Asking
  <2>3. Leases!TypeOK'
    BY <1>3, <2>1, <2>2 DEF Leases!TypeOK, Leases!Proceed, Leases!Ask
  <2>4. InStep'
    BY <1>1, <1>3, <2>1 DEF Leases!TypeOK, InStep, Leases!Proceed, Leases!Ask
  <2> QED BY <2>2, <2>3, <2>4
<1> QED BY <1>2, <1>3

\* A thread takes the lease of r for t: the only place where somebody begins to hold it.
LEMMA TakeStep ==
    ASSUME LeaseInv, NEW t \in Requests, NEW r \in Leases!Roots, Leases!TakesNext(t, r),
           job[t] \in Asking, Leases!Take(t, r)
    PROVE  Leases!LeaseExclusion' /\
             readers' \in [Leases!Roots -> Nat] /\ waitingWriters' \in [Leases!Roots -> Nat]
<1> USE DEF LeaseInv
<1>1. /\ held \in [Requests -> SUBSET Leases!Roots] /\ held' = [held EXCEPT ![t] = @ \union {r}]
      /\ job \in [Requests -> {"none", "queued", "waiting", "notified", "done"}]
      /\ job' = [job EXCEPT ![t] = "done"]
      /\ readers \in [Leases!Roots -> Nat] /\ waitingWriters \in [Leases!Roots -> Nat]
      /\ writerActive \in [Leases!Roots -> BOOLEAN]
  BY DEF Leases!Take, Leases!TypeOK
<1>2. r \notin held[t]
  BY DEF Leases!TakesNext
<1>3. \A u \in Requests, s \in Leases!Roots : u # t =>
        (Leases!TakesNext(u, s)' <=> Leases!TakesNext(u, s))
  BY <1>1 DEF Leases!TakesNext
<1>4. \A u \in Requests : u # t => held'[u] = held[u] /\ job'[u] = job[u]
  BY <1>1
<1>5. \A s \in Leases!Roots : s # r =>
        Leases!ReadersOf(s)' = Leases!ReadersOf(s) /\ Leases!WritersOf(s)' = Leases!WritersOf(s)
  BY <1>1, <1>4 DEF Leases!ReadersOf, Leases!WritersOf, Leases!Writer
<1>6. \A s \in Leases!Roots : s # r => Leases!WritersAsking(s)' = Leases!WritersAsking(s)
  <2>1. \A s \in Leases!Roots : s # r => ~Leases!TakesNext(t, s)
    BY OneRootNext
  <2>2. job'[t] \notin Asking
    BY <1>1 DEF Asking
  <2> QED BY <1>3, <1>4, <2>1, <2>2 DEF Leases!WritersAsking, Leases!Writer, Asking
<1>7. Leases!WritersAsking(r)' = Leases!WritersAsking(r) \ {t}
  BY <1>1, <1>3, <1>4 DEF Leases!WritersAsking, Leases!Writer, Asking
<1>8. Leases!LeaseExclusion
  OBVIOUS
<1>9. CASE Leases!Writer(t)
  <2>1. /\ ~writerActive[r] /\ readers[r] = 0 /\ readers' = readers
        /\ writerActive' = [writerActive EXCEPT ![r] = TRUE]
        /\ waitingWriters' = [waitingWriters EXCEPT ![r] = @ - 1]
    BY <1>1, <1>9 DEF Leases!Take, Leases!WriteBlocked
  <2>2. Leases!ReadersOf(r) = {} /\ Leases!WritersOf(r) = {}
    BY <1>8, <2>1, SetsAreFinite, FS_EmptySet, SameCount DEF Leases!LeaseExclusion
  <2>3. \A u \in Requests : r \notin held[u]
    BY <2>2 DEF Leases!ReadersOf, Leases!WritersOf
  <2>4. \A u \in Requests : r \in held'[u] <=> u = t
    BY <1>1, <2>3
  <2>5. Leases!ReadersOf(r)' = {} /\ Leases!WritersOf(r)' = {t}
    BY <1>9, <2>4 DEF Leases!ReadersOf, Leases!WritersOf, Leases!Writer
  <2>6. t \in Leases!WritersAsking(r)
    BY <1>9 DEF Leases!WritersAsking, Asking
  <2>7. waitingWriters'[r] = Cardinality(Leases!WritersAsking(r)') /\ waitingWriters'[r] \in Nat
    <3>1. /\ Cardinality(Leases!WritersAsking(r)') = Cardinality(Leases!WritersAsking(r)) - 1
          /\ Cardinality(Leases!WritersAsking(r)') \in Nat
      BY <1>7, <2>6, OneFewer, SetsAreFinite
    <3>2. waitingWriters'[r] = waitingWriters[r] - 1
      BY <1>1, <2>1
    <3> QED BY <1>8, <3>1, <3>2, SameCount DEF Leases!LeaseExclusion
  <2>8. waitingWriters' \in [Leases!Roots -> Nat] /\ readers' \in [Leases!Roots -> Nat]
    BY <1>1, <2>1, <2>7
  <2>9. \A s \in Leases!Roots : /\ readers'[s] = Cardinality(Leases!ReadersOf(s)')
                                /\ writerActive'[s] <=> Leases!WritersOf(s)' # {}
                                /\ waitingWriters'[s] = Cardinality(Leases!WritersAsking(s)')
    BY <1>1, <1>5, <1>6, <1>8, <2>1, <2>5, <2>7, FS_EmptySet, SameCount DEF Leases!LeaseExclusion
  <2>10. \A s \in Leases!Roots : \A u, v \in Requests :
            s \in held'[u] /\ s \in held'[v] /\ Leases!Writer(u)' => u = v
    BY <1>1, <1>8, <2>4, SameCount DEF Leases!LeaseExclusion, Leases!Writer
  <2> QED BY <2>8, <2>9, <2>10, SameCount DEF Leases!LeaseExclusion
<1>10. CASE ~Leases!Writer(t)
  <2>1. /\ ~writerActive[r] /\ readers' = [readers EXCEPT ![r] = @ + 1]
        /\ writerActive' = writerActive /\ waitingWriters' = waitingWriters
    BY <1>10 DEF Leases!Take, Leases!ReadBlocked
  <2>2. Leases!WritersOf(r) = {}
    BY <1>8, <2>1, SameCount DEF Leases!LeaseExclusion
  <2>3. Leases!ReadersOf(r)' = Leases!ReadersOf(r) \union {t} /\ t \notin Leases!ReadersOf(r)
    BY <1>1, <1>2, <1>10 DEF Leases!ReadersOf, Leases!Writer
  <2>4. Leases!WritersOf(r)' = {}
    BY <1>1, <1>4, <1>10, <2>2 DEF Leases!WritersOf, Leases!Writer
  <2>5. readers'[r] = Cardinality(Leases!ReadersOf(r)')
    BY <1>1, <1>8, <2>1, <2>3, OneMore, SetsAreFinite, SameCount DEF Leases!LeaseExclusion
  <2>6. Leases!WritersAsking(r)' = Leases!WritersAsking(r)
    BY <1>7, <1>10 DEF Leases!WritersAsking
  <2>7. \A s \in Leases!Roots : /\ readers'[s] = Cardinality(Leases!ReadersOf(s)')
                                /\ writerActive'[s] <=> Leases!WritersOf(s)' # {}
                                /\ waitingWriters'[s] = Cardinality(Leases!WritersAsking(s)')
    BY <1>1, <1>5, <1>6, <1>8, <2>1, <2>2, <2>4, <2>5, <2>6, SameCount DEF Leases!LeaseExclusion
  <2>8. \A u \in Requests : Leases!Writer(u) => r \notin held[u]
    BY <2>2 DEF Leases!WritersOf
  <2>9. \A s \in Leases!Roots : \A u, v \in Requests :
            s \in held'[u] /\ s \in held'[v] /\ Leases!Writer(u)' => u = v
    BY <1>1, <1>8, <1>10, <2>8, SameCount DEF Leases!LeaseExclusion, Leases!Writer
  <2>10. readers' \in [Leases!Roots -> Nat] /\ waitingWriters' \in [Leases!Roots -> Nat]
    BY <1>1, <2>1
  <2> QED BY <2>7, <2>9, <2>10, SameCount DEF Leases!LeaseExclusion
<1> QED BY <1>9, <1>10

LEMMA RunStep == ASSUME LeaseInv, NEW t \in Requests, Leases!Run(t) PROVE LeaseInv'
<1> USE DEF LeaseInv
<1>1. job[t] \in Asking /\ UNCHANGED <<request, cancelled>>
  BY DEF Leases!Run, Asking
<1>2. PICK r \in Leases!Roots : Leases!TakesNext(t, r) /\ (Leases!Take(t, r) \/ Leases!Wait(t, r))
  BY DEF Leases!Run
<1>3. request[t] = "acquiring"
  BY <1>1 DEF InStep, Asking
<1>4. CASE Leases!Take(t, r)
  <2>1. Leases!LeaseExclusion' /\
          readers' \in [Leases!Roots -> Nat] /\ waitingWriters' \in [Leases!Roots -> Nat]
    BY <1>1, <1>2, <1>4, TakeStep
  <2>2. Leases!TypeOK'
    BY <1>1, <1>2, <1>4, <2>1 DEF Leases!TypeOK, Leases!Take, Leases!TakesNext
  <2>3. InStep'
    BY <1>1, <1>3, <1>4 DEF Leases!TypeOK, InStep, Leases!Take
  <2> QED BY <2>1, <2>2, <2>3
<1>5. CASE Leases!Wait(t, r)
  <2>1. Leases!LeaseExclusion'
    BY <1>1, <1>5, SameLeases DEF Leases!Wait, Leases!leaseVars, Asking, Leases!TypeOK
  <2>2. Leases!TypeOK' /\ InStep'
    BY <1>1, <1>3, <1>5 DEF Leases!Wait, Leases!leaseVars, Leases!TypeOK, InStep
  <2> QED BY <2>1, <2>2
<1> QED BY <1>2, <1>4, <1>5

\* A cancellation and the end of a body: no lease moves.
LEMMA LeaseCancelStep == ASSUME LeaseInv, NEW t \in Requests, Leases!Cancel(t) PROVE LeaseInv'
<1> USE DEF LeaseInv
<1>1. UNCHANGED <<Leases!leaseVars, job>>
  BY DEF Leases!Cancel
<1>2. Leases!LeaseExclusion'
  BY <1>1, SameLeases DEF Leases!leaseVars
<1>3. Leases!TypeOK' /\ InStep'
  BY <1>1 DEF Leases!Cancel, Leases!leaseVars, Leases!TypeOK, InStep
<1> QED BY <1>2, <1>3

LEMMA EndBodyStep == ASSUME LeaseInv, NEW t \in Requests, Leases!EndBody(t) PROVE LeaseInv'
<1> USE DEF LeaseInv
<1>1. UNCHANGED <<Leases!leaseVars, job, cancelled>>
  BY DEF Leases!EndBody
<1>2. Leases!LeaseExclusion'
  BY <1>1, SameLeases DEF Leases!leaseVars
<1>3. Leases!TypeOK' /\ InStep'
  BY <1>1 DEF Leases!EndBody, Leases!leaseVars, Leases!TypeOK, InStep
<1> QED BY <1>2, <1>3

\* t gives back r: its own counter goes down by one, and a notification wakes threads
\* without taking them out of those that ask.
LEMMA ReleaseStep == ASSUME LeaseInv, NEW t \in Requests, Leases!Release(t) PROVE LeaseInv'
<1> USE DEF LeaseInv
<1>1. PICK r \in Leases!Roots :
          /\ Leases!GivesNext(t, r)
          /\ held' = [held EXCEPT ![t] = @ \ {r}]
          /\ request' = IF held[t] = {r} THEN [request EXCEPT ![t] = "over"] ELSE request
          /\ IF Leases!Writer(t)
             THEN /\ writerActive' = [writerActive EXCEPT ![r] = FALSE]
                  /\ revision' = [revision EXCEPT ![r] = @ + 1]
                  /\ job' = Leases!Notified(r)
                  /\ UNCHANGED readers
             ELSE /\ readers' = [readers EXCEPT ![r] = @ - 1]
                  /\ job' = IF readers[r] = 1 THEN Leases!Notified(r) ELSE job
                  /\ UNCHANGED <<writerActive, revision>>
  BY DEF Leases!Release
<1>2. /\ held \in [Requests -> SUBSET Leases!Roots]
      /\ job \in [Requests -> {"none", "queued", "waiting", "notified", "done"}]
      /\ readers \in [Leases!Roots -> Nat] /\ waitingWriters \in [Leases!Roots -> Nat]
      /\ writerActive \in [Leases!Roots -> BOOLEAN] /\ revision \in [Leases!Roots -> Nat]
      /\ UNCHANGED <<waitingWriters, cancelled>>
  BY DEF Leases!TypeOK, Leases!Release
<1>3. request[t] = "releasing" /\ job[t] = "none"
  BY DEF Leases!Release, InStep
<1>4. r \in held[t]
  BY <1>1 DEF Leases!GivesNext
<1>5. /\ job' \in [Requests -> {"none", "queued", "waiting", "notified", "done"}]
      /\ \A u \in Requests : job'[u] = job[u] \/ (job[u] = "waiting" /\ job'[u] = "notified")
  <2>1. CASE job' = job
    BY <1>2, <2>1
  <2>2. CASE job' = Leases!Notified(r)
    BY <1>2, <2>2 DEF Leases!Notified
  <2> QED BY <1>1, <2>1, <2>2
<1>6. \A u \in Requests : u # t => held'[u] = held[u]
  BY <1>1, <1>2
<1>7. held'[t] = held[t] \ {r}
  BY <1>1, <1>2
<1>8. \A s \in Leases!Roots : Leases!WritersAsking(s)' = Leases!WritersAsking(s)
  <2>1. \A u \in Requests, s \in Leases!Roots : u # t =>
          (Leases!TakesNext(u, s)' <=> Leases!TakesNext(u, s))
    BY <1>6 DEF Leases!TakesNext
  <2>2. \A u \in Requests : job'[u] \in Asking <=> job[u] \in Asking
    BY <1>5 DEF Asking
  <2>3. job[t] \notin Asking
    BY <1>3 DEF Asking
  <2> QED BY <2>1, <2>2, <2>3 DEF Leases!WritersAsking, Leases!Writer, Asking
<1>9. \A s \in Leases!Roots : s # r =>
        Leases!ReadersOf(s)' = Leases!ReadersOf(s) /\ Leases!WritersOf(s)' = Leases!WritersOf(s)
  BY <1>6, <1>7 DEF Leases!ReadersOf, Leases!WritersOf, Leases!Writer
<1>10. Leases!LeaseExclusion
  OBVIOUS
<1>11. readers' \in [Leases!Roots -> Nat] /\ writerActive' \in [Leases!Roots -> BOOLEAN]
       /\ (\A s \in Leases!Roots : /\ readers'[s] = Cardinality(Leases!ReadersOf(s)')
                                   /\ writerActive'[s] <=> Leases!WritersOf(s)' # {})
  <2>1. CASE Leases!Writer(t)
    <3>1. \A u \in Requests : r \in held[u] => u = t
      BY <1>4, <1>10, <2>1, SameCount DEF Leases!LeaseExclusion
    <3>2. \A u \in Requests : r \notin held'[u]
      BY <1>6, <1>7, <3>1
    <3>3. Leases!WritersOf(r)' = {}
      BY <3>2 DEF Leases!WritersOf
    <3>4. Leases!ReadersOf(r)' = Leases!ReadersOf(r)
      BY <2>1, <3>1, <3>2 DEF Leases!ReadersOf, Leases!Writer
    <3>5. readers' = readers /\ writerActive' = [writerActive EXCEPT ![r] = FALSE]
      BY <1>1, <2>1
    <3> QED BY <1>2, <1>9, <1>10, <3>3, <3>4, <3>5, SameCount DEF Leases!LeaseExclusion
  <2>2. CASE ~Leases!Writer(t)
    <3>1. Leases!ReadersOf(r)' = Leases!ReadersOf(r) \ {t} /\ t \in Leases!ReadersOf(r)
      BY <1>4, <1>6, <1>7, <2>2 DEF Leases!ReadersOf, Leases!Writer
    <3>2. Leases!WritersOf(r)' = Leases!WritersOf(r)
      BY <1>6, <2>2 DEF Leases!WritersOf, Leases!Writer
    <3>3. readers' = [readers EXCEPT ![r] = @ - 1] /\ writerActive' = writerActive
      BY <1>1, <2>2
    <3>4. readers'[r] = Cardinality(Leases!ReadersOf(r)') /\ readers'[r] \in Nat
      <4>1. IsFiniteSet(Leases!ReadersOf(r))
        BY SetsAreFinite
      <4>2. /\ Cardinality(Leases!ReadersOf(r)') = Cardinality(Leases!ReadersOf(r)) - 1
            /\ Cardinality(Leases!ReadersOf(r)') \in Nat
        BY <3>1, <4>1, OneFewer
      <4>3. readers'[r] = readers[r] - 1
        BY <1>2, <3>3
      <4> QED BY <1>10, <4>2, <4>3, SameCount DEF Leases!LeaseExclusion
    <3> QED BY <1>2, <1>9, <1>10, <3>2, <3>3, <3>4, SameCount DEF Leases!LeaseExclusion
  <2> QED BY <2>1, <2>2
<1>12. \A s \in Leases!Roots : \A u, v \in Requests :
          s \in held'[u] /\ s \in held'[v] /\ Leases!Writer(u)' => u = v
  <2>1. \A u \in Requests : held'[u] \subseteq held[u]
    BY <1>6, <1>7
  <2> QED BY <1>10, <2>1, SameCount DEF Leases!LeaseExclusion, Leases!Writer
<1>13. Leases!LeaseExclusion'
  BY <1>2, <1>8, <1>10, <1>11, <1>12, SameCount DEF Leases!LeaseExclusion
<1>14. revision' \in [Leases!Roots -> Nat]
  BY <1>1, <1>2
<1>15. held' \in [Requests -> SUBSET Leases!Roots] /\
         \A u \in Requests : held'[u] \subseteq Wants[u]
  BY <1>1, <1>2, <1>6, <1>7 DEF Leases!TypeOK
<1>16. request' \in [Requests -> {"new", "acquiring", "holding", "releasing", "over"}]
  BY <1>1 DEF Leases!TypeOK
<1>17. Leases!TypeOK'
  BY <1>2, <1>5, <1>11, <1>14, <1>15, <1>16 DEF Leases!TypeOK
<1>18. \A u \in Requests : /\ request'[u] = "acquiring" <=> request[u] = "acquiring"
                           /\ request'[u] = "new" <=> request[u] = "new"
  BY <1>1, <1>3 DEF Leases!TypeOK
<1>19. InStep'
  BY <1>3, <1>5, <1>6, <1>18 DEF InStep
<1> QED BY <1>13, <1>17, <1>19

-----------------------------------------------------------------------------
(* The theorems *)

LEMMA LeaseStep == ASSUME LeaseInv, [Leases!Next]_Leases!vars PROVE LeaseInv'
<1>1. CASE Leases!Next
  <2>1. PICK t \in Requests : Leases!Begin(t) \/ Leases!Cancel(t) \/ Leases!Advance(t)
    BY <1>1 DEF Leases!Next
  <2>2. CASE Leases!Begin(t)
    BY <2>2, BeginStep
  <2>3. CASE Leases!Cancel(t)
    BY <2>3, LeaseCancelStep
  <2>4. CASE Leases!Run(t)
    BY <2>4, RunStep
  <2>5. CASE Leases!Proceed(t)
    BY <2>5, ProceedStep
  <2>6. CASE Leases!EndBody(t)
    BY <2>6, EndBodyStep
  <2>7. CASE Leases!Release(t)
    BY <2>7, ReleaseStep
  <2> QED BY <2>1, <2>2, <2>3, <2>4, <2>5, <2>6, <2>7 DEF Leases!Advance
<1>2. CASE UNCHANGED Leases!vars
  <2>1. Leases!LeaseExclusion'
    BY <1>2, SameLeases DEF Leases!vars, LeaseInv
  <2>2. Leases!TypeOK' /\ InStep'
    BY <1>2 DEF Leases!vars, LeaseInv, Leases!TypeOK, InStep
  <2> QED BY <2>1, <2>2 DEF LeaseInv
<1> QED BY <1>1, <1>2

\* Whatever the requests, their roots and the threads are, every state satisfies the
\* inductive invariant.
THEOREM LeaseInvariant == Leases!Spec => []LeaseInv
<1>1. Leases!Init => LeaseInv
  BY LeaseStarts
<1>2. LeaseInv /\ [Leases!Next]_Leases!vars => LeaseInv'
  BY LeaseStep
<1> QED BY <1>1, <1>2, PTL DEF Leases!Spec

\* The state of the roots has its type, whatever the requests do: no counter of readers or
\* of waiting writers goes below zero, and nobody holds a root it did not ask for.
THEOREM LeaseTypeCorrect == Leases!Spec => []Leases!TypeOK
<1>1. LeaseInv => Leases!TypeOK
  BY DEF LeaseInv
<1> QED BY <1>1, LeaseInvariant, PTL

\* A writer of a root (a publication, an operation) is alone in it, readers (scans, reads
\* of the batches) share it, and its counters are exactly the requests that hold it or ask
\* for it, through every cancellation: the leases of LibraryFilesystemCoordinator exclude.
THEOREM LeaseExclusionHolds == Leases!Spec => []LeaseExclusion
<1>1. LeaseInv => LeaseExclusion
  BY SameCount DEF LeaseInv, Leases!LeaseExclusion, LeaseExclusion, Leases!ReadersOf, ReadersOf,
     Leases!WritersOf, WritersOf, Leases!WritersAsking, WritersAsking, Leases!Writer, Writer,
        Leases!TakesNext, TakesNext, Leases!Roots, Roots
<1> QED BY <1>1, LeaseInvariant, PTL

-----------------------------------------------------------------------------
(* RequestDeduplicator, for any callers and retries, as long               *)
(* as the entry is not cleared while its leader runs: at most one call     *)
(* runs the request.  OneFlight follows from LeaderIsPending, that whoever *)
(* runs the request is the one whose entry new calls find; Following is    *)
(* needed for the types, because a follower answers with the state of a    *)
(* future.                                                                 *)

LeaderIsPending == \A c \in Callers : call[c].at = "leading" => pending = c

\* A follower has a leader, and a leader has made its future.
Following ==
    /\ pending # NoCaller => future[pending] # "none"
    /\ \A c \in Callers : call[c].at = "following" =>
           call[c].leader \in Callers /\ future[call[c].leader] # "none"

FlightInv == Dedup!TypeOK /\ LeaderIsPending /\ Following

Calls == [at : {"new", "leading", "following", "over"}, leader : Callers \union {NoCaller},
          retries : 0 .. Retries + 1, answer : {"none", "result", "exception", "cancelled"}]

-----------------------------------------------------------------------------
LEMMA FlightStarts == ASSUME Dedup!Init PROVE FlightInv
<1>1. 0 \in 0 .. Retries + 1
  BY DedupAssumption
<1> QED BY <1>1 DEF Dedup!Init, FlightInv, Dedup!TypeOK, LeaderIsPending, Following,
   Dedup!FutureStates

\* The head of the loop, reached by a call or by a follower whose leader was cancelled.
LEMMA EnterStep ==
    ASSUME FlightInv, NEW c \in Callers, call[c].at \in {"new", "following"},
           NEW n \in 0 .. Retries + 1, Dedup!Enter(c, n)
    PROVE  FlightInv'
<1> USE DEF FlightInv
<1>1. call \in [Callers -> Calls] /\ call[c] \in Calls /\ NoCaller \notin Callers
  BY DedupAssumption DEF Dedup!TypeOK, Calls
<1>2. CASE pending # NoCaller
  <2>1. /\ call' = [call EXCEPT ![c] =
             [call[c] EXCEPT !.at = "following", !.leader = pending, !.retries = n]]
        /\ UNCHANGED <<pending, future, current>>
    BY <1>2 DEF Dedup!Enter
  <2>2. /\ call'[c] \in Calls /\ call'[c].at = "following" /\ call'[c].leader = pending
        /\ \A d \in Callers : d # c => call'[d] = call[d]
        /\ call' \in [Callers -> Calls] /\ pending \in Callers
    BY <1>1, <1>2, <2>1 DEF Calls, Dedup!TypeOK
  <2>3. Dedup!TypeOK' /\ LeaderIsPending' /\ Following'
    BY <1>2, <2>1, <2>2 DEF Dedup!TypeOK, Calls, LeaderIsPending, Following
  <2> QED BY <2>3
<1>3. CASE pending = NoCaller
  <2>1. /\ call' = [call EXCEPT ![c] =
             [call[c] EXCEPT !.at = "leading", !.leader = NoCaller, !.retries = n]]
        /\ pending' = c /\ future' = [future EXCEPT ![c] = "pending"]
        /\ current' = current \union {c}
    BY <1>3 DEF Dedup!Enter
  <2>2. /\ call'[c] \in Calls /\ call'[c].at = "leading"
        /\ \A d \in Callers : d # c => call'[d] = call[d]
        /\ call' \in [Callers -> Calls]
    BY <1>1, <2>1 DEF Calls
  <2>3. /\ future' \in [Callers -> Dedup!FutureStates] /\ future'[c] = "pending"
        /\ \A d \in Callers : future[d] # "none" => future'[d] # "none"
    BY <2>1 DEF Dedup!TypeOK, Dedup!FutureStates
  <2>4. \A d \in Callers : call[d].at # "leading"
    BY <1>1, <1>3 DEF LeaderIsPending
  <2>5. Dedup!TypeOK'
    BY <2>1, <2>2, <2>3 DEF Dedup!TypeOK, Calls
  <2>6. LeaderIsPending' /\ Following'
    BY <2>1, <2>2, <2>3, <2>4 DEF LeaderIsPending, Following
  <2> QED BY <2>5, <2>6
<1> QED BY <1>2, <1>3

\* A call that is answered leads and follows nobody any more.
LEMMA AnsweredStep ==
    ASSUME FlightInv, NEW c \in Callers, NEW answer \in {"result", "exception", "cancelled"},
           Dedup!Answered(c, answer)
    PROVE  /\ call' \in [Callers -> Calls] /\ call'[c].at = "over"
           /\ \A d \in Callers : d # c => call'[d] = call[d]
<1>1. call \in [Callers -> Calls]
  BY DEF FlightInv, Dedup!TypeOK, Calls
<1> QED BY <1>1 DEF Dedup!Answered, Calls

LEMMA LeaderEndsStep ==
    ASSUME FlightInv, NEW c \in Callers, NEW outcome \in {"result", "exception", "cancelled"},
           Dedup!LeaderEnds(c, outcome)
    PROVE  FlightInv'
<1>1. /\ call' \in [Callers -> Calls] /\ call'[c].at = "over"
      /\ \A d \in Callers : d # c => call'[d] = call[d]
  BY AnsweredStep DEF Dedup!LeaderEnds
<1>2. pending = c
  BY DEF FlightInv, LeaderIsPending, Dedup!LeaderEnds
<1>3. /\ future' \in [Callers -> Dedup!FutureStates]
      /\ \A d \in Callers : future[d] # "none" => future'[d] # "none"
      /\ pending' = NoCaller /\ current' = current
  BY DEF FlightInv, Dedup!TypeOK, Dedup!FutureStates, Dedup!LeaderEnds, Dedup!Settled
<1>4. Dedup!TypeOK'
  BY <1>1, <1>3 DEF FlightInv, Dedup!TypeOK, Calls
<1>5. LeaderIsPending' /\ Following'
  BY <1>1, <1>2, <1>3, DedupAssumption DEF FlightInv, Dedup!TypeOK, LeaderIsPending, Following
<1> QED BY <1>4, <1>5 DEF FlightInv

LEMMA FollowerEndsStep ==
    ASSUME FlightInv, NEW c \in Callers, NEW answer \in {"result", "exception", "cancelled"},
           Dedup!Answered(c, answer),
           UNCHANGED <<pending, future, current>>
    PROVE  FlightInv'
<1>1. /\ call' \in [Callers -> Calls] /\ call'[c].at = "over"
      /\ \A d \in Callers : d # c => call'[d] = call[d]
  BY AnsweredStep
<1>2. Dedup!TypeOK' /\ LeaderIsPending' /\ Following'
  BY <1>1 DEF FlightInv, Dedup!TypeOK, Calls, LeaderIsPending, Following
<1> QED BY <1>2 DEF FlightInv

LEMMA FollowerWakesStep ==
    ASSUME FlightInv, NEW c \in Callers, Dedup!FollowerWakes(c)
    PROVE  FlightInv'
<1> DEFINE outcome == future[call[c].leader]
<1>1. /\ call[c].at = "following" /\ call[c].leader \in Callers
      /\ outcome \in {"result", "exception", "cancelled"}
      /\ call[c].retries \in 0 .. Retries + 1
  BY DEF FlightInv, Dedup!TypeOK, Following, Dedup!FollowerWakes, Dedup!FutureStates
<1>2. CASE outcome = "cancelled" /\ call[c].retries < Retries
  <2>1. Dedup!Enter(c, call[c].retries + 1) /\ call[c].retries + 1 \in 0 .. Retries + 1
    BY <1>1, <1>2, DedupAssumption DEF Dedup!FollowerWakes, Dedup!Retry
  <2> QED BY <1>1, <2>1, EnterStep
<1>3. CASE ~(outcome = "cancelled" /\ call[c].retries < Retries)
  <2>1. Dedup!Answered(c, outcome) /\ UNCHANGED <<pending, future, current>>
    BY <1>3 DEF Dedup!FollowerWakes
  <2> QED BY <1>1, <2>1, FollowerEndsStep
<1> QED BY <1>2, <1>3

LEMMA FlightStep == ASSUME FlightInv, [Dedup!Next]_Dedup!vars PROVE FlightInv'
<1>1. ASSUME NEW c \in Callers, Dedup!Call(c) PROVE FlightInv'
  BY <1>1, EnterStep, DedupAssumption DEF Dedup!Call
<1>2. ASSUME NEW c \in Callers, Dedup!CallerStep(c) PROVE FlightInv'
  BY <1>2, LeaderEndsStep, FollowerWakesStep DEF Dedup!CallerStep
<1>3. ASSUME NEW c \in Callers, Dedup!FollowerCancelled(c) PROVE FlightInv'
  BY <1>3, FollowerEndsStep DEF Dedup!FollowerCancelled
<1>4. CASE Dedup!Clear
  BY <1>4 DEF Dedup!Clear, FlightInv, Dedup!TypeOK, LeaderIsPending, Following
<1>5. CASE UNCHANGED Dedup!vars
  BY <1>5 DEF Dedup!vars, FlightInv, Dedup!TypeOK, LeaderIsPending, Following
<1> QED BY <1>1, <1>2, <1>3, <1>4, <1>5 DEF Dedup!Next

-----------------------------------------------------------------------------
(* Theorems *)

\* Of any number of concurrent calls for one key at most one runs the request, through
\* failures, disconnects and takeovers of its leaders, if the entry is not cleared under one
\* of them (dedupe).
THEOREM OneFlightHolds == Dedup!Spec => []OneFlight
<1>1. Dedup!Init => FlightInv
  BY FlightStarts
<1>2. FlightInv /\ [Dedup!Next]_Dedup!vars => FlightInv'
  BY FlightStep
<1>3. FlightInv => OneFlight
  BY DEF FlightInv, Dedup!TypeOK, LeaderIsPending, Dedup!OneFlight, OneFlight
<1> QED BY <1>1, <1>2, <1>3, PTL DEF Dedup!Spec

-----------------------------------------------------------------------------
(* All four *)

RuntimeInv == LockInv /\ WalkInv /\ LeaseInv /\ FlightInv

\* Whichever of the four takes a step, the others stay.
LEMMA RuntimeStep ==
    ASSUME RuntimeInv, [RuntimeNext]_<<which, vars, walkVars, leaseVars, dedupVars>>
    PROVE  RuntimeInv'
<1>1. /\ [Next]_vars /\ [Walk!Next]_Walk!vars
      /\ [Leases!Next]_Leases!vars /\ [Dedup!Next]_Dedup!vars
  BY DEF RuntimeNext, Only, vars, walkVars, Walk!vars, leaseVars, Leases!vars, dedupVars, Dedup!vars
<1>2. LockInv' /\ WalkInv' /\ LeaseInv' /\ FlightInv'
  BY <1>1, StepInv, WalkStep, LeaseStep, FlightStep DEF RuntimeInv
<1> QED BY <1>2 DEF RuntimeInv

\* In the four together, every counter of waiters, readers and writers, every queue and batch and
\* every coroutine keeps to its type, and the lock's count of grants within the burst whenever
\* background work waits, for any threads, folders, requests and callers.
THEOREM RuntimeTypesHold == RuntimeSpec => []TypesOK
<1>1. RuntimeInit => RuntimeInv
  BY InitInv, WalkStarts, LeaseStarts, FlightStarts DEF RuntimeInit, RuntimeInv
<1>2. RuntimeInv /\ [RuntimeNext]_<<which, vars, walkVars, leaseVars, dedupVars>> => RuntimeInv'
  BY RuntimeStep
<1>3. RuntimeInv => TypesOK
  BY DEF RuntimeInv, LockInv, WalkInv, LeaseInv, FlightInv, TypesOK
<1> QED BY <1>1, <1>2, <1>3, PTL DEF RuntimeSpec
=============================================================================
