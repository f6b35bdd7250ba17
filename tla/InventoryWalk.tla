---------------------------- MODULE InventoryWalk ----------------------------
(***************************************************************************)
(* One directory walk of a library scan (_walk_scope): a producer thread   *)
(* lists folders under the root's read lease and puts the files it found   *)
(* on a bounded queue; a consumer coroutine takes them off, persists them  *)
(* in batches and asks the coordinator, through checkpoint, whether to go  *)
(* on.  The consumer can be cancelled, refused by a checkpoint, fail in    *)
(* the store, or give up on a producer that is stuck in the file system.   *)
(*                                                                         *)
(* Nothing changes on disk during the walk (LibraryScan models what        *)
(* happens when something does).  heartbeat.age() > deadline is the        *)
(* Boolean stale.                                                          *)
(***************************************************************************)
EXTENDS InventoryWalkState

CONSTANT Admits \* the circumstances of this instance

Circumstances ==
    {"storeFails",        \* a store call of the consumer raises
     "storeFailsMidWalk"} \* it raises while the producer still needs the file system or
                          \* more room than the queue has

vars == <<producer, queue, stopped, stale, consumer, batch, persisted,
          completed, discarding, detached>>

Sentinel == 0
Failure == Last + 1

ProducerPcs == {"loop", "lease", "walk", "put", "error", "end", "done"}
Outcomes == {"completed", "partial", "raised", "cancelled"}
Working == {"get", "record", "timeout", "persist", "checkpoint", "flush"}
ConsumerPcs == Working \union {"drain", "await", "over"}

TypeOK ==
    /\ producer \in [pc : ProducerPcs, folder : 0 .. Folders, next : 1 .. Last + 1, upto : 0 .. Last]
    /\ queue \in Seq(0 .. Last + 1) /\ Len(queue) <= QueueSize
    /\ stopped \in BOOLEAN /\ stale \in BOOLEAN
    /\ consumer \in [pc : ConsumerPcs, outcome : Outcomes \union {"none"}]
    /\ batch \in Seq(Files) /\ Len(batch) <= BatchSize
    /\ persisted \subseteq Files
    /\ completed \in BOOLEAN /\ discarding \in BOOLEAN /\ detached \in BOOLEAN

Init ==
    /\ producer = [pc |-> "loop", folder |-> 0, next |-> 1, upto |-> 0]
    /\ queue = <<>> /\ batch = <<>> /\ persisted = {}
    /\ stopped = FALSE /\ stale = FALSE /\ completed = TRUE
    /\ discarding = FALSE /\ detached = FALSE
    /\ consumer = [pc |-> "get", outcome |-> "none"]

-----------------------------------------------------------------------------
(* The producer thread *)

consumerVars == <<consumer, batch, persisted, completed, discarding, detached>>
ProducerGoes(pc) == producer' = [producer EXCEPT !.pc = pc]

\* Mutant of NextFolder: the event is not looked at.
NextFolderUnasked ==
    /\ producer.pc = "loop"
    /\ ProducerGoes("lease")
    /\ UNCHANGED <<queue, stopped, stale, consumerVars>>

\* if stopped.is_set(): break
NextFolder ==
    /\ producer.pc = "loop"
    /\ ProducerGoes(IF stopped THEN "end" ELSE "lease")
    /\ UNCHANGED <<queue, stopped, stale, consumerVars>>

\* read_sync: a publication may hold the root's lease for as long as it likes.
TakeLease ==
    /\ producer.pc = "lease"
    /\ ProducerGoes("walk")
    /\ UNCHANGED <<queue, stopped, stale, consumerVars>>

\* next(walker) and the files of the folder, all under the lease.
ReadFolder ==
    /\ producer.pc = "walk"
    /\ \/ /\ producer.folder < Folders
          /\ LET upto == FolderEnds[producer.folder + 1] IN
             producer' = [producer EXCEPT !.folder = @ + 1, !.upto = upto,
                                          !.pc = IF producer.next <= upto THEN "put" ELSE "loop"]
          /\ stale' = FALSE
       \/ /\ producer.folder = Folders
          /\ ProducerGoes("end")
          /\ UNCHANGED stale
       \/ /\ ProducerGoes("error")
          /\ UNCHANGED stale
    /\ UNCHANGED <<queue, stopped, consumerVars>>

PutRoom(item) == Len(queue) < QueueSize /\ queue' = Append(queue, item)
PutAnyway(item) == queue' = Append(queue, item)
Put(item) == PutRoom(item)

\* A file whose stat raised is put as the error it raised.
PutFile ==
    /\ producer.pc = "put"
    /\ Put(producer.next) \/ Put(Failure)
    /\ producer' = [producer EXCEPT !.next = @ + 1,
                                    !.pc = IF producer.next = producer.upto
                                           THEN "loop" ELSE "put"]
    /\ UNCHANGED <<stopped, stale, consumerVars>>

\* except (OSError, RuntimeError)
PutError ==
    /\ producer.pc = "error"
    /\ Put(Failure)
    /\ ProducerGoes("end")
    /\ UNCHANGED <<stopped, stale, consumerVars>>

PutEnd ==
    /\ producer.pc = "end"
    /\ Put(Sentinel)
    /\ ProducerGoes("done")
    /\ UNCHANGED <<stopped, stale, consumerVars>>

\* The deadline passes since the last touch: the producer waits for the lease, for the
\* file system, or for room on the queue.
Age ==
    /\ ~stale
    /\ \/ producer.pc \in {"lease", "walk"}
       \/ producer.pc \in {"put", "error", "end"} /\ Len(queue) = QueueSize
    /\ stale' = TRUE
    /\ UNCHANGED <<producer, queue, stopped, consumerVars>>

-----------------------------------------------------------------------------
(* The consumer coroutine *)

producerVars == <<producer, stale>>
Goes(pc) == consumer' = [consumer EXCEPT !.pc = pc]
At(pc) == consumer.pc = pc

\* The finally clause: the event is set, then the producer is awaited unless it is detached.
Leave(outcome) ==
    /\ stopped' = TRUE
    /\ consumer' = [pc |-> "await", outcome |-> outcome]

\* completed = False; stopped.set(); discard_remaining = True
GiveUp ==
    /\ completed' = FALSE /\ stopped' = TRUE /\ discarding' = TRUE

GiveUpSilently ==
    /\ stopped' = TRUE /\ discarding' = TRUE
    /\ UNCHANGED completed

Refused == GiveUp

\* item is None: break, and persist what is left of a completed walk.
GetEnd ==
    /\ At("get") /\ queue # <<>> /\ Head(queue) = Sentinel
    /\ queue' = Tail(queue)
    /\ IF batch # <<>> /\ completed
       THEN Goes("flush") /\ UNCHANGED stopped
       ELSE Leave(IF completed THEN "completed" ELSE "partial")
    /\ UNCHANGED <<producerVars, batch, persisted, completed, discarding, detached>>

\* discard_remaining: the item is dropped.
GetDiscarded ==
    /\ At("get") /\ queue # <<>> /\ Head(queue) # Sentinel /\ discarding
    /\ queue' = Tail(queue)
    /\ UNCHANGED <<producerVars, consumer, stopped, batch, persisted, completed, discarding, detached>>

\* An exception: the rest is discarded and the failure recorded.
GetFailure ==
    /\ At("get") /\ queue # <<>> /\ Head(queue) = Failure /\ ~discarding
    /\ queue' = Tail(queue)
    /\ GiveUp
    /\ Goes("record")
    /\ UNCHANGED <<producerVars, batch, persisted, detached>>

RecordFailure ==
    /\ At("record")
    /\ Goes("get")
    /\ UNCHANGED <<producerVars, queue, stopped, batch, persisted, completed, discarding, detached>>

\* A full batch is persisted; a batch that is not full may meet the 0.25 s checkpoint.
GetFile ==
    /\ At("get") /\ queue # <<>> /\ Head(queue) \in Files /\ ~discarding
    /\ queue' = Tail(queue)
    /\ batch' = Append(batch, Head(queue))
    /\ IF Len(batch') >= BatchSize THEN Goes("persist")
       ELSE Goes("get") \/ Goes("checkpoint")
    /\ UNCHANGED <<producerVars, stopped, persisted, completed, discarding, detached>>

\* wait_for(queue.get(), 0.25) times out: checkpoint, or record WALK_TIMEOUT.
GetTimeout ==
    /\ At("get") /\ queue = <<>>
    /\ IF stale
       THEN /\ Goes("timeout")
            /\ completed' = FALSE /\ stopped' = TRUE
       ELSE /\ Goes("checkpoint")
            /\ UNCHANGED <<completed, stopped>>
    /\ UNCHANGED <<producerVars, queue, batch, persisted, discarding, detached>>

\* The failure is recorded and the producer is left to itself.
Detach ==
    /\ At("timeout")
    /\ detached' = TRUE
    /\ Leave("partial")
    /\ UNCHANGED <<producerVars, queue, batch, persisted, completed, discarding>>

Checkpoint ==
    /\ At("checkpoint")
    /\ Goes("get")
    /\ \/ UNCHANGED <<completed, stopped, discarding>>
       \/ Refused
    /\ UNCHANGED <<producerVars, queue, batch, persisted, detached>>

BatchFiles == {batch[i] : i \in DOMAIN batch}

\* _persist_batch of a full batch, and of the last one.
Persist ==
    /\ At("persist")
    /\ persisted' = persisted \union BatchFiles
    /\ batch' = <<>>
    /\ Goes("checkpoint")
    /\ UNCHANGED <<producerVars, queue, stopped, completed, discarding, detached>>

Flush ==
    /\ At("flush")
    /\ persisted' = persisted \union BatchFiles
    /\ Leave("completed")
    /\ UNCHANGED <<producerVars, queue, batch, completed, discarding, detached>>

\* What the producer still puts when it is told to stop now, and whether it may yet wait
\* for the lease or the file system.
ToPut ==
    CASE producer.pc = "put" -> producer.upto - producer.next + 2
      [] producer.pc = "error" -> 2
      [] producer.pc = "done" -> 0
      [] OTHER -> 1
MidWalk == producer.pc \in {"lease", "walk"} \/ Len(queue) + ToPut > QueueSize

\* A store call raises: a lost row_revision (another request or command changed the run)
\* or a database error.  No except clause takes it, so nobody takes items off the queue.
StoreFails ==
    /\ consumer.pc \in Working \ {"get"}
    /\ (IF MidWalk THEN "storeFailsMidWalk" ELSE "storeFails") \in Admits
    /\ Leave("raised")
    /\ UNCHANGED <<producerVars, queue, batch, persisted, completed, discarding, detached>>

CancelWithoutDrain ==
    /\ consumer.pc \in Working /\ stopped' = TRUE
    /\ consumer' = [pc |-> "await", outcome |-> "cancelled"]
    /\ UNCHANGED <<producerVars, queue, batch, persisted, completed, discarding, detached>>

\* The scan worker is cancelled once, at shutdown.  A cancellation that meets the
\* finally clause ends the wait.
Cancel ==
    /\ consumer.outcome # "cancelled" /\ stopped' = TRUE
    /\ \/ consumer.pc \in Working /\ consumer' = [pc |-> "drain", outcome |-> "cancelled"]
       \/ At("await") /\ consumer' = [pc |-> "over", outcome |-> "cancelled"]
    /\ UNCHANGED <<producerVars, queue, batch, persisted, completed, discarding, detached>>

\* except asyncio.CancelledError: take items off the queue until the producer is done, or
\* detach it.
DrainItem ==
    /\ At("drain") /\ producer.pc # "done" /\ queue # <<>>
    /\ queue' = Tail(queue)
    /\ UNCHANGED <<producerVars, stopped, consumer, batch, persisted, completed, discarding, detached>>

DrainTimeout ==
    /\ At("drain") /\ producer.pc # "done" /\ queue = <<>> /\ stale
    /\ detached' = TRUE
    /\ Leave("cancelled")
    /\ UNCHANGED <<producerVars, queue, batch, persisted, completed, discarding>>

DrainDone ==
    /\ At("drain") /\ producer.pc = "done"
    /\ Leave("cancelled")
    /\ UNCHANGED <<producerVars, queue, batch, persisted, completed, discarding, detached>>

Return == UNCHANGED <<producerVars, queue, stopped, batch, persisted, completed, discarding, detached>>

\* A detached producer is not awaited.
AwaitProducer ==
    /\ At("await") /\ (detached \/ producer.pc = "done")
    /\ Goes("over")
    /\ Return

-----------------------------------------------------------------------------
ProducerStep == NextFolder \/ TakeLease \/ ReadFolder \/ PutFile \/ PutError \/ PutEnd

ConsumerStep ==
    \/ GetEnd \/ GetDiscarded \/ GetFailure \/ RecordFailure \/ GetFile \/ GetTimeout \/ Detach \/ Checkpoint \/ Persist \/ Flush
    \/ DrainItem \/ DrainTimeout \/ DrainDone \/ AwaitProducer

Next == ProducerStep \/ Age \/ ConsumerStep \/ StoreFails \/ Cancel

Spec == Init /\ [][Next]_vars

\* The coroutine and the thread run when they can, and time passes.  Nothing is assumed
\* of the file system and of the publications that hold the lease (TakeLease and
\* ReadFolder): they may stall the producer for ever.
FairSpec ==
    /\ Spec
    /\ WF_vars(ConsumerStep) /\ WF_vars(Age)
    /\ WF_vars(NextFolder) /\ WF_vars(PutFile) /\ WF_vars(PutError) /\ WF_vars(PutEnd)

-----------------------------------------------------------------------------
(* The properties of its state are in InventoryWalkState. *)

\* Every walk ends, however long the file system, a publication or a full queue holds the
\* producer up: awaiting it would wedge the scan worker.
WalkEnds == <>(consumer.pc = "over")

\* What the thread puts before it is done does not fit on the queue.
Outgrown == producer.pc = "put" /\ Len(queue) + ToPut > QueueSize

\* The thread of a walk that ran into its deadline is detached, and ends when the file system
\* lets it go: it takes no lease any more and is not left on a queue that nobody reads, unless
\* the folder it was in outgrows the queue (_detach_walker, and stopped of the producer).
DetachedThreadEnds ==
    detached /\ consumer.outcome = "partial" /\ producer.pc = "walk" ~>
        producer.pc = "done" \/ Outgrown \/ [](producer.pc = "walk")
=============================================================================
