-------------------------- MODULE PublicationProofs --------------------------
(***************************************************************************)
(* Proofs about PublicationJournal, for bundles of any mutations in any    *)
(* order and any bounds on stops and faults: every variable keeps its      *)
(* type; whatever the catalogue adopts is the whole plan; the bundle is    *)
(* all or nothing as AtomicPublication describes it; a row that says       *)
(* rolled back is true of the files; and what another program wrote is not *)
(* destroyed.  All but the first assume that the process does not stop     *)
(* between two mutations of which the first are validated and the next has *)
(* no row (stopBetweenMutations), the circumstance in which recovery       *)
(* adopts a part of a bundle; those about files assume too that nothing is *)
(* recycled.                                                               *)
(*                                                                         *)
(* There are two roads to adoption: the publisher's, along what it         *)
(* remembers, and recovery's, along the rows and the bytes.  JournalInv    *)
(* says what the rows are at each point of both (PublisherInv, WholeInv),  *)
(* and that an adopted bundle is past every step that could undo it        *)
(* (AdoptionInv).  FilesInv says where the bytes are: that the originals   *)
(* are somewhere until the adoption (DiskInv), which needs that what the   *)
(* publisher remembers to have moved is where it moved it (CarriedInv);    *)
(* and that either road ends with every output in place (PlacedInv for     *)
(* the publisher, ResumedInv for recovery, which needs that the evidence   *)
(* of an open row is still there: KeptInv).  RestInv says where the files  *)
(* of a row that is being undone are, and BytesInv where another program's *)
(* bytes can be while the steps go on.                                     *)
(*                                                                         *)
(* The last section states these, and what ImportPublicationProofs shows   *)
(* of the bundle of a download, of LanesSpec, which the runs check.        *)
(***************************************************************************)
EXTENDS MCPublication, TLAPS

-----------------------------------------------------------------------------
(* The invariant *)

Preparing == {"ensure", "stage", "advance", "recheck"}
Resuming == {"preflight", "remaining", "recommit"}
CleaningUp == {"cleanup", "tidyCheck", "tidy"}
AtAnyTime == {"idle", "down", "starting", "settle", "fail", "attention"}

\* A bundle that the catalogue has adopted is whole, and is only cleaned up or set aside.
AdoptionInv ==
    /\ adopted => /\ mem.pc \in CleaningUp \cup AtAnyTime
                  /\ op.work = "succeeded"
                  /\ Rows = Mutations
                  /\ \A m \in Mutations : row[m].state \in Committed \cup {"needs_attention"}
    /\ ~adopted => /\ mem.pc \notin CleaningUp
                   /\ \A m \in Mutations : row[m].state \notin Committed

\* Nothing is published of a bundle of which a row is missing.
WholeInv ==
    /\ \A m \in Mutations : row[m].state \in {"source_backed_up", "published"} => Rows = Mutations
    /\ mem.pc \in {"down", "starting"} => ~Incomplete
    /\ mem.pc \in Resuming => Rows = Mutations

\* How far the publisher has come.
PublisherInv ==
    /\ mem.pc \in Preparing =>
           \A m \in Mutations \ mem.todo : m \in mem.ready /\ row[m].state = "validated"
    /\ mem.pc = "recheck" => mem.todo = {}
    /\ mem.pc = "publish" =>
           \A m \in Mutations : row[m].state \in IF m \in mem.todo THEN {"validated", "source_backed_up"}
                                                 ELSE {"published"}
    /\ mem.pc = "commit" => \A m \in Mutations : row[m].state = "published"

JournalInv == AdoptionInv /\ WholeInv /\ PublisherInv

-----------------------------------------------------------------------------
(* Types *)

RowStates == Undoable \cup Committed \cup Undone \cup {"none", "needs_attention"}
RowType == [state : RowStates, kept : BOOLEAN]
OpType == [job : {"queued", "running", "succeeded", "failed"},
           work : {"running", "succeeded", "failed"},
           by : {"none", "worker", "recovery"}, phase : {"applying", "undoing"}]
MemType == [pc : Pcs, by : {"none", "worker", "recovery"}, todo : SUBSET Mutations,
            ready : SUBSET Mutations, backedUp : SUBSET Mutations, published : SUBSET Mutations]

LEMMA TypeParts ==
    TypeOK <=> /\ disk \in [Paths -> Bytes]
               /\ row \in [Mutations -> RowType]
               /\ adopted \in BOOLEAN
               /\ op \in OpType
               /\ conf \in {"current", "settingsChanged", "rootsChanged"}
               /\ mem \in MemType
               /\ touched \in SUBSET Mutations
               /\ spent \in [stops : 0 .. MaxStops, faults : 0 .. MaxFaults]
BY DEF TypeOK, RowType, RowStates, OpType, MemType

LEMMA PathsOf ==
    ASSUME NEW m \in Mutations
    PROVE  /\ Source(m) \in Paths /\ Temp(m) \in Paths /\ Backup(m) \in Paths
           /\ Destination(m) \in Paths
           /\ Staged(m) \in Bytes /\ Missing \in Bytes
<1>1. Collider(m) # {} => (CHOOSE r \in Collider(m) : TRUE) \in Mutations
  BY DEF Collider
<1>2. \A n \in Mutations : Source(n) \in Paths /\ Temp(n) \in Paths /\ Backup(n) \in Paths
  BY DEF Source, Temp, Backup, Paths
<1>3. <<m, "destination">> \in Paths
  BY DEF Paths
<1>4. Destination(m) \in Paths
  BY <1>1, <1>2, <1>3 DEF Destination
<1>5. Staged(m) \in Bytes /\ Missing \in Bytes
  BY DEF Staged, Old, Missing, Bytes
<1> QED BY <1>2, <1>4, <1>5

LEMMA DiskTypes ==
    ASSUME disk \in [Paths -> Bytes], NEW p \in Paths, NEW q \in Paths, Renames(p, q) \/ Unlinks(p)
    PROVE  disk' \in [Paths -> Bytes]
<1>1. Missing \in Bytes
  BY DEF Missing, Bytes
<1> QED BY <1>1 DEF Renames, Unlinks

LEMMA RowTypes ==
    ASSUME row \in [Mutations -> RowType], NEW m \in Mutations, NEW s \in RowStates,
           Becomes(m, s) \/ BecomesFor(m, s)
    PROVE  /\ row' \in [Mutations -> RowType]
           /\ row'[m].state = s
           /\ \A n \in Mutations : n # m => row'[n] = row[n]
<1>1. CASE Becomes(m, s)
  BY <1>1 DEF Becomes, RowType
<1>2. CASE BecomesFor(m, s)
  BY <1>2 DEF BecomesFor, RowType
<1> QED BY <1>1, <1>2

LEMMA Recalled == Forgotten \in MemType
BY DEF Forgotten, MemType, Pcs

LEMMA Going ==
    ASSUME mem \in MemType, NEW pc \in Pcs, Goes(pc)
    PROVE  /\ mem' \in MemType /\ mem'.pc = pc /\ mem'.todo = mem.todo /\ mem'.ready = mem.ready
           /\ mem'.by = mem.by /\ mem'.backedUp = mem.backedUp /\ mem'.published = mem.published
BY DEF Goes, MemType

LEMMA Starting ==
    ASSUME mem \in MemType, NEW pc \in Pcs, NEW S \in SUBSET Mutations, Starts(pc, S)
    PROVE  /\ mem' \in MemType /\ mem'.pc = pc /\ mem'.todo = S /\ mem'.ready = mem.ready
           /\ mem'.by = mem.by /\ mem'.backedUp = mem.backedUp /\ mem'.published = mem.published
BY DEF Starts, MemType

LEMMA Passing ==
    ASSUME mem \in MemType, NEW m, Passes(m)
    PROVE  /\ mem' \in MemType /\ mem'.pc = mem.pc /\ mem'.todo = mem.todo \ {m}
           /\ mem'.ready = mem.ready
           /\ mem'.by = mem.by /\ mem'.backedUp = mem.backedUp /\ mem'.published = mem.published
BY DEF Passes, MemType

LEMMA Raising ==
    ASSUME mem \in MemType, Raises
    PROVE  /\ mem' \in MemType /\ mem'.pc = "undo" /\ mem'.todo = mem.ready /\ mem'.ready = mem.ready
           /\ mem'.by = mem.by /\ mem'.backedUp = mem.backedUp /\ mem'.published = mem.published
BY DEF Raises, MemType, Pcs

LEMMA Disposed == Disposition \in Pcs /\ Compensation \in Pcs
BY DEF Disposition, Compensation, Pcs

\* Every step of the work keeps the types.
LEMMA MutationTypes ==
    ASSUME TypeOK, NEW m \in Mutations,
           \/ EnsureJournal(m) \/ Stage(m) \/ Advance(m) \/ BackUp(m) \/ MarkBackedUp(m)
           \/ Place(m) \/ MarkPublished(m) \/ Cleanup(m) \/ UndoMark(m) \/ UndoRestore(m)
           \/ RemainingBackUp(m) \/ RemainingPlace(m) \/ RemainingMark(m) \/ Tidy(m)
           \/ Mark(m) \/ Restore(m) \/ Close(m) \/ Attend(m)
    PROVE  /\ disk' \in [Paths -> Bytes] /\ row' \in [Mutations -> RowType] /\ mem' \in MemType
           /\ UNCHANGED <<op, world>> /\ adopted' = adopted
<1>0. disk \in [Paths -> Bytes] /\ row \in [Mutations -> RowType] /\ mem \in MemType /\ row[m] \in RowType
  BY TypeParts
<1>m. mem \in MemType
  BY <1>0
<1>1. CASE EnsureJournal(m)
  <2>1. row' \in [Mutations -> RowType]
    <3>1. [state |-> "planned", kept |-> TRUE] \in RowType
      BY DEF RowType, RowStates, Early, Undoable
    <3> QED BY <1>0, <1>1, <3>1 DEF EnsureJournal
  <2>2. mem' \in MemType
    <3>1. ASSUME NEW R \in SUBSET Mutations, mem' = [mem EXCEPT !.pc = "stage", !.ready = R]
          PROVE  mem' \in MemType
      BY <1>m, <3>1 DEF MemType, Pcs
    <3>2. CASE SourceIntact(m)
      <4>1. mem' = [mem EXCEPT !.pc = "stage",
                               !.ready = IF Is(m, {"recycle"}) THEN mem.ready ELSE mem.ready \cup {m}]
        BY <1>1, <3>2 DEF EnsureJournal
      <4>2. mem.ready \in SUBSET Mutations /\ mem.ready \cup {m} \in SUBSET Mutations
        BY <1>m DEF MemType
      <4> QED BY <3>1, <4>1, <4>2
    <3>3. CASE ~SourceIntact(m)
      BY <1>0, <1>1, <3>3, Raising DEF EnsureJournal
    <3> QED BY <3>1, <3>2, <3>3
  <2> QED BY <1>0, <1>1, <2>1, <2>2 DEF EnsureJournal
<1>2. CASE Stage(m)
  <2>1. disk' \in [Paths -> Bytes]
    BY <1>0, <1>2, PathsOf DEF Stage
  <2>2. mem' \in MemType
    BY <1>0, <1>2, Raising, Going DEF Stage, Pcs
  <2> QED BY <1>0, <1>2, <2>1, <2>2 DEF Stage
<1>3. CASE Advance(m)
  <2>1. row' \in [Mutations -> RowType]
    BY <1>0, <1>3, RowTypes DEF Advance, RowStates, Early, Undoable
  <2>2. mem' \in MemType
    <3>1. ASSUME NEW pc \in Pcs,
                 mem' = [mem EXCEPT !.ready = mem.ready \cup {m}, !.todo = mem.todo \ {m}, !.pc = pc]
          PROVE  mem' \in MemType
      BY <1>m, <3>1 DEF MemType
    <3>2. "recheck" \in Pcs /\ "ensure" \in Pcs
      BY DEF Pcs
    <3> QED BY <1>m, <1>3, <3>1, <3>2, Raising DEF Advance
  <2> QED BY <1>0, <1>3, <2>1, <2>2 DEF Advance
<1>4. CASE BackUp(m) \/ Place(m)
  <2>1. mem' \in MemType
    BY <1>0, <1>4 DEF BackUp, Place, MemType
  <2> QED BY <1>0, <1>4, <2>1, DiskTypes, PathsOf DEF BackUp, Place
<1>5. CASE MarkBackedUp(m) \/ MarkPublished(m)
  <2>1. mem' \in MemType
    <3>1. ASSUME NEW pc \in Pcs,
                 mem' = [mem EXCEPT !.todo = mem.todo \ {m}, !.published = mem.published \cup {m},
                                    !.pc = pc]
          PROVE  mem' \in MemType
      BY <1>m, <3>1 DEF MemType
    <3>2. "commit" \in Pcs /\ "publish" \in Pcs
      BY DEF Pcs
    <3> QED BY <1>m, <1>5, <3>1, <3>2 DEF MarkBackedUp, MarkPublished
  <2> QED BY <1>0, <1>5, <2>1, RowTypes DEF MarkBackedUp, MarkPublished, RowStates, Undoable
<1>6. CASE Cleanup(m)
  <2>1. Disposable(m) \in Paths
    BY PathsOf DEF Disposable
  <2>2. mem' \in MemType
    BY <1>0, <1>6, Passing DEF Cleanup, MemType
  <2>3. disk' \in [Paths -> Bytes]
    BY <1>0, <1>6, <2>1, DiskTypes, PathsOf DEF Cleanup
  <2>4. row' \in [Mutations -> RowType]
    BY <1>0, <1>6, RowTypes DEF Cleanup, RowStates, Committed
  <2> QED BY <1>6, <2>2, <2>3, <2>4 DEF Cleanup
<1>7. CASE UndoMark(m)
  BY <1>0, <1>7, RowTypes, Passing DEF UndoMark, RowStates, Undone
<1>8. CASE UndoRestore(m)
  <2>1. disk' \in [Paths -> Bytes]
    BY <1>0, <1>8, DiskTypes, PathsOf DEF UndoRestore
  <2>2. mem' \in MemType
    BY <1>0, <1>8, Passing DEF UndoRestore, GivesUp, MemType
  <2>3. row' \in [Mutations -> RowType]
    BY <1>0, <1>8, RowTypes DEF UndoRestore, GivesUp, RowStates, Undone
  <2> QED BY <1>8, <2>1, <2>2, <2>3 DEF UndoRestore
<1>9. CASE RemainingBackUp(m) \/ RemainingPlace(m)
  <2>1. disk' \in [Paths -> Bytes]
    BY <1>0, <1>9, DiskTypes, PathsOf DEF RemainingBackUp, RemainingPlace
  <2>2. row' \in [Mutations -> RowType]
    BY <1>0, <1>9, RowTypes DEF RemainingBackUp, RemainingPlace, RowStates, Undoable
  <2> QED BY <1>0, <1>9, <2>1, <2>2 DEF RemainingBackUp, RemainingPlace
<1>10. CASE RemainingMark(m)
  <2>2. row' \in [Mutations -> RowType] /\ mem' \in MemType
    BY <1>0, <1>10, RowTypes, Passing DEF RemainingMark, RowStates, Undoable
  <2> QED BY <1>0, <1>10, <2>2 DEF RemainingMark
<1>11. CASE Tidy(m)
  <2>1. disk' \in [Paths -> Bytes]
    BY <1>0, <1>11, DiskTypes, PathsOf DEF Tidy
  <2>2. mem' \in MemType
    BY <1>0, <1>11, Passing, Starting DEF Tidy, Pcs, Rows
  <2>3. row' \in [Mutations -> RowType]
    BY <1>0, <1>11, RowTypes DEF Tidy, RowStates, Committed
  <2> QED BY <1>11, <2>1, <2>2, <2>3 DEF Tidy
<1>12. CASE Mark(m) \/ Close(m) \/ Attend(m)
  BY <1>0, <1>12, RowTypes, Passing DEF Mark, Close, Attend, RowStates, Undone
<1>13. CASE Restore(m)
  <2>1. disk' \in [Paths -> Bytes]
    BY <1>0, <1>13, DiskTypes, PathsOf DEF Restore
  <2> QED BY <1>0, <1>13, <2>1, Passing DEF Restore
<1> QED BY <1>1, <1>2, <1>3, <1>4, <1>5, <1>6, <1>7, <1>8, <1>9, <1>10, <1>11, <1>12, <1>13

LEMMA WorkTypes ==
    ASSUME TypeOK, Work
    PROVE  TypeOK'
<1>0. /\ disk \in [Paths -> Bytes] /\ row \in [Mutations -> RowType] /\ mem \in MemType
      /\ op \in OpType /\ Rows \in SUBSET Mutations /\ adopted \in BOOLEAN
  BY TypeParts DEF Rows
<1>1. ASSUME NEW m \in Mutations,
             \/ EnsureJournal(m) \/ Stage(m) \/ Advance(m) \/ BackUp(m) \/ MarkBackedUp(m)
             \/ Place(m) \/ MarkPublished(m) \/ Cleanup(m) \/ UndoMark(m) \/ UndoRestore(m)
             \/ RemainingBackUp(m) \/ RemainingPlace(m) \/ RemainingMark(m) \/ Tidy(m)
             \/ Mark(m) \/ Restore(m) \/ Close(m) \/ Attend(m)
      PROVE  TypeOK'
  BY <1>1, MutationTypes DEF TypeOK, RowType, RowStates, MemType, world
<1>2. CASE Begin
  BY <1>0, <1>2, Starting DEF TypeOK, Begin, Pcs, MemType, world
<1>3. CASE Recheck \/ CommitRejected
  BY <1>0, <1>3, Starting, Raising DEF TypeOK, Recheck, CommitRejected, Pcs, MemType, world
<1>4. CASE CleanedUp \/ Started \/ Preflight \/ RemainingDone \/ TidyCheck \/ Restart
  BY <1>0, <1>4, Going DEF TypeOK, CleanedUp, Started, Preflight, RemainingDone, TidyCheck, Restart,
     Pcs, MemType, world
<1>5. CASE Commit \/ Recommit
  <2>1. row' \in [Mutations -> RowType]
    BY <1>0, <1>5 DEF Commit, Recommit, Adopts, RowType, RowStates, Committed
  <2>2. mem' \in MemType
    BY <1>0, <1>5, Starting DEF Commit, Recommit, Pcs
  <2>3. op' \in OpType /\ adopted' \in BOOLEAN
    BY <1>0, <1>5 DEF Commit, Recommit, Adopts, OpType
  <2> QED BY <1>5, <2>1, <2>2, <2>3 DEF TypeOK, Commit, Recommit, RowType, RowStates, MemType,
             OpType, world
<1>6. CASE UndoDone
  <2>1. disk' \in [Paths -> Bytes]
    BY <1>0, <1>6 DEF UndoDone, Missing, Bytes
  <2> QED BY <1>0, <1>6, <2>1, Going DEF TypeOK, UndoDone, Pcs, MemType, world
<1>7. CASE Refuse \/ Finish \/ Settle \/ Fail
  <2>1. op' \in OpType
    BY <1>0, <1>7 DEF Refuse, Finish, Settle, Fail, OpType
  <2>2. mem' \in MemType
    BY <1>0, <1>7, Going DEF Refuse, Finish, Settle, Fail, Pcs
  <2> QED BY <1>0, <1>7, <2>1, <2>2 DEF TypeOK, Refuse, Finish, Settle, Fail, MemType, OpType, world
<1>8. CASE Reclaim \/ Recover
  <2>1. op' \in OpType
    BY <1>0, <1>8 DEF Reclaim, Recover, OpType
  <2>2. ASSUME Reclaim PROVE mem' \in MemType
    BY <2>2, Recalled DEF Reclaim, MemType, Pcs
  <2>3. ASSUME Recover PROVE mem' \in MemType
    <3>1. mem' = [Forgotten EXCEPT !.pc = Disposition, !.by = "recovery", !.todo = Rows]
      BY <2>3 DEF Recover
    <3>2. Rows \in SUBSET Mutations
      BY DEF Rows
    <3> QED BY <3>1, <3>2, Recalled, Disposed DEF MemType
  <2>4. mem' \in MemType
    BY <1>8, <2>2, <2>3
  <2> QED BY <1>0, <1>8, <2>1, <2>4 DEF TypeOK, Reclaim, Recover, MemType, OpType, world
<1>9. CASE ResumeFailed \/ RecommitRejected \/ Compensate \/ NextPhase
  <2>1. mem' \in MemType
    BY <1>0, <1>9, Starting, Going, Disposed DEF ResumeFailed, RecommitRejected, Compensate,
       NextPhase, Pcs
  <2> QED BY <1>0, <1>9, <2>1 DEF TypeOK, ResumeFailed, RecommitRejected, Compensate, NextPhase,
             MemType, world
<1> QED BY <1>1, <1>2, <1>3, <1>4, <1>5, <1>6, <1>7, <1>8, <1>9 DEF Work

LEMMA NextTypes ==
    ASSUME PlanAssumption, TypeOK, [Next]_vars
    PROVE  TypeOK'
<1>0. /\ disk \in [Paths -> Bytes] /\ row \in [Mutations -> RowType] /\ mem \in MemType
      /\ op \in OpType /\ Rows \in SUBSET Mutations /\ MaxStops \in Nat /\ MaxFaults \in Nat
      /\ spent \in [stops : 0 .. MaxStops, faults : 0 .. MaxFaults]
  BY TypeParts DEF Rows, PlanAssumption
<1>1. CASE Work
  BY <1>1, WorkTypes
<1>2. CASE Fault
  <2>1. spent' \in [stops : 0 .. MaxStops, faults : 0 .. MaxFaults]
    BY <1>0, <1>2 DEF Fault
  <2>2. mem' \in MemType
    BY <1>0, <1>2, Raising, Starting, Passing, Disposed DEF Fault, GivesUp, Pcs
  <2>3. row' \in [Mutations -> RowType]
    BY <1>0, <1>2, RowTypes DEF Fault, GivesUp, RowStates, Committed, MemType
  <2> QED BY <1>0, <1>2, <2>1, <2>2, <2>3 DEF TypeOK, Fault, RowType, RowStates, MemType
<1>3. CASE Stop
  <2>1. spent' \in [stops : 0 .. MaxStops, faults : 0 .. MaxFaults]
    BY <1>0, <1>3 DEF Stop
  <2> QED BY <1>0, <1>3, <2>1, Recalled DEF TypeOK, Stop, MemType
<1>4. CASE OtherBundleFails
  BY <1>0, <1>4 DEF TypeOK, OtherBundleFails, OpType, world
<1>5. ASSUME NEW c \in {"settingsChanged", "rootsChanged"}, Reconfigure(c)
      PROVE  TypeOK'
  BY <1>0, <1>5 DEF TypeOK, Reconfigure
<1>6. ASSUME NEW p \in Paths, OtherWrites(p)
      PROVE  TypeOK'
  <2>1. p[1] \in Mutations
    BY DEF Paths
  <2>2. Edited(p[1]) \in Bytes /\ Foreign(p[1]) \in Bytes
    BY <2>1 DEF Edited, Foreign, Bytes
  <2> QED BY <1>0, <1>6, <2>2 DEF TypeOK, OtherWrites
<1>7. CASE UNCHANGED vars
  BY <1>7 DEF TypeOK, vars
<1> QED BY <1>1, <1>2, <1>3, <1>4, <1>5, <1>6, <1>7 DEF Next

LEMMA InitTypes ==
    ASSUME PlanAssumption, Init
    PROVE  TypeOK
<1>1. \A p \in Paths : p[1] \in Mutations
  BY DEF Paths
<1>2. disk \in [Paths -> Bytes]
  BY <1>1 DEF Init, Old, Missing, Bytes
<1>3. mem \in MemType
  BY Recalled DEF Init, MemType, Pcs
<1>4. row \in [Mutations -> RowType]
  BY DEF Init, NoRow, RowType, RowStates
<1>5. spent \in [stops : 0 .. MaxStops, faults : 0 .. MaxFaults]
  BY DEF Init, PlanAssumption
<1> QED BY <1>2, <1>3, <1>4, <1>5, TypeParts DEF Init, OpType

-----------------------------------------------------------------------------
(* The rows and the catalogue *)

LEMMA RowsGrow ==
    ASSUME TypeOK, NEW m \in Mutations, NEW s \in RowStates \ {"none"},
           Becomes(m, s) \/ BecomesFor(m, s)
    PROVE  /\ row'[m].state = s
           /\ \A n \in Mutations : n # m => row'[n] = row[n]
           /\ Rows' = Rows \cup {m}
<1>1. row'[m].state = s /\ \A n \in Mutations : n # m => row'[n] = row[n]
  BY RowTypes, TypeParts
<1>2. row'[m] # NoRow
  BY <1>1 DEF NoRow
<1>3. NoRow' = NoRow
  BY DEF NoRow
<1> QED BY <1>1, <1>2, <1>3 DEF Rows

\* Where no step of preparation or publication is under way, and the process is up.
Elsewhere(pc) == pc \notin Preparing \cup {"publish", "commit", "down", "starting"}
Permitted(pc) ==
    /\ adopted => pc \in CleaningUp \cup AtAnyTime
    /\ ~adopted => pc \notin CleaningUp
    /\ pc \in Resuming => Rows = Mutations

LEMMA QuietStep ==
    ASSUME JournalInv, row' = row, adopted' = adopted, adopted => op'.work = "succeeded",
           Elsewhere(mem'.pc), Permitted(mem'.pc)
    PROVE  JournalInv'
<1>1. Rows' = Rows
  BY DEF Rows, NoRow
<1>2. AdoptionInv'
  BY <1>1 DEF JournalInv, AdoptionInv, Permitted
<1>3. WholeInv'
  BY <1>1 DEF JournalInv, WholeInv, Permitted, Elsewhere
<1>4. PublisherInv'
  BY DEF PublisherInv, Elsewhere, Preparing
<1> QED BY <1>2, <1>3, <1>4 DEF JournalInv

LEMMA RowStep ==
    ASSUME TypeOK, JournalInv, NEW m \in Mutations, NEW s \in RowStates \ {"none"},
           Becomes(m, s) \/ BecomesFor(m, s), adopted' = adopted, op' = op,
           adopted => s \in Committed \cup {"needs_attention"}, ~adopted => s \notin Committed,
           s \in {"source_backed_up", "published"} => Rows = Mutations,
           Elsewhere(mem'.pc), Permitted(mem'.pc)
    PROVE  JournalInv'
<1>1. /\ row'[m].state = s /\ \A n \in Mutations : n # m => row'[n] = row[n]
      /\ Rows' = Rows \cup {m} /\ Rows \in SUBSET Mutations
  BY RowsGrow DEF Rows
<1>2. Rows = Mutations => Rows' = Mutations
  BY <1>1
<1>3. AdoptionInv'
  BY <1>1, <1>2 DEF JournalInv, AdoptionInv, Permitted
<1>4. WholeInv'
  BY <1>1, <1>2 DEF JournalInv, WholeInv, Permitted, Elsewhere
<1>5. PublisherInv'
  BY DEF PublisherInv, Elsewhere, Preparing
<1> QED BY <1>3, <1>4, <1>5 DEF JournalInv

\* The publisher goes on, or gives up.
LEMMA PublisherStep ==
    ASSUME JournalInv, ~adopted, UNCHANGED <<row, adopted, op>>,
           mem'.pc \in Preparing \cup {"publish", "commit", "undo"}, PublisherInv'
    PROVE  JournalInv'
<1>1. Rows' = Rows
  BY DEF Rows, NoRow
<1>2. AdoptionInv' /\ WholeInv'
  BY <1>1 DEF JournalInv, AdoptionInv, WholeInv, Preparing, Resuming, CleaningUp
<1> QED BY <1>2 DEF JournalInv

LEMMA RaisesStep ==
    ASSUME TypeOK, JournalInv, ~adopted, UNCHANGED <<row, adopted, op>>, Raises
    PROVE  JournalInv'
<1>1. mem'.pc = "undo"
  BY Raising, TypeParts
<1> QED BY <1>1, PublisherStep DEF PublisherInv, Preparing

LEMMA BeginJournal ==
    ASSUME TypeOK, JournalInv, Begin
    PROVE  JournalInv'
<1>1. ~adopted /\ UNCHANGED <<row, adopted, op>> /\ mem \in MemType
  BY TypeParts DEF Begin, At, JournalInv, AdoptionInv, CleaningUp, AtAnyTime
<1>2. CASE conf = "current"
  <2>1. mem'.pc = "ensure" /\ mem'.todo = Mutations
    BY <1>1, <1>2, Starting DEF Begin, Pcs
  <2> QED BY <1>1, <2>1, PublisherStep DEF PublisherInv, Preparing
<1>3. CASE conf # "current"
  <2>1. mem'.pc = "undo"
    BY <1>1, <1>3, Starting DEF Begin, Pcs
  <2> QED BY <1>1, <2>1, PublisherStep DEF PublisherInv, Preparing
<1> QED BY <1>2, <1>3

\* A row is written on the way to validated.
LEMMA PreparingStep ==
    ASSUME TypeOK, JournalInv, mem.pc \in Preparing, mem'.pc \in Preparing \ {"recheck"},
           NEW m \in mem.todo, NEW s \in Early, UNCHANGED <<adopted, op>>,
           \/ row' = row
           \/ Becomes(m, s) \/ BecomesFor(m, s)
           \/ row' = [row EXCEPT ![m] = [state |-> s, kept |-> TRUE]],
           mem'.todo = mem.todo, mem.ready \in SUBSET mem'.ready
    PROVE  JournalInv'
<1>1. ~adopted /\ m \in Mutations /\ row \in [Mutations -> RowType]
  BY TypeParts DEF JournalInv, AdoptionInv, CleaningUp, AtAnyTime, Preparing, MemType
<1>2. s \in RowStates \ {"none"} /\ s \notin Committed \cup {"source_backed_up", "published"}
  BY DEF Early, RowStates, Undoable, Committed
<1>3. /\ \A n \in Mutations : row'[n] = row[n] \/ row'[n].state = s
      /\ \A n \in Mutations \ mem.todo : row'[n] = row[n]
      /\ \A n \in Rows : n \in Rows'
      /\ Rows \in SUBSET Mutations /\ Rows' \in SUBSET Mutations
  <2>1. CASE row' = row
    BY <2>1 DEF Rows, NoRow
  <2>2. CASE Becomes(m, s) \/ BecomesFor(m, s)
    BY <1>1, <1>2, <2>2, RowsGrow DEF Rows
  <2>3. CASE row' = [row EXCEPT ![m] = [state |-> s, kept |-> TRUE]]
    <3>1. row'[m].state = s /\ \A n \in Mutations : n # m => row'[n] = row[n]
      BY <1>1, <2>3
    <3>2. row'[m] # NoRow
      BY <1>2, <3>1 DEF NoRow
    <3> QED BY <3>1, <3>2 DEF Rows, NoRow
  <2> QED BY <2>1, <2>2, <2>3
<1>4. AdoptionInv'
  BY <1>1, <1>2, <1>3 DEF JournalInv, AdoptionInv, CleaningUp, Preparing
<1>5. WholeInv'
  BY <1>1, <1>2, <1>3 DEF JournalInv, WholeInv, Preparing, Resuming
<1>6. PublisherInv'
  BY <1>3 DEF JournalInv, PublisherInv, Preparing
<1> QED BY <1>4, <1>5, <1>6 DEF JournalInv

LEMMA PrepareJournal ==
    ASSUME TypeOK, JournalInv, NEW m \in Mutations, EnsureJournal(m) \/ Stage(m) \/ Advance(m)
    PROVE  JournalInv'
<1>1. ~adopted /\ UNCHANGED <<adopted, op>> /\ mem.pc \in Preparing /\ m \in mem.todo
  BY DEF EnsureJournal, Stage, Advance, At, InOrder, JournalInv, AdoptionInv, CleaningUp, AtAnyTime,
     Preparing
<1>2. mem \in MemType
  BY TypeParts
<1>3. CASE EnsureJournal(m)
  <2>1. CASE SourceIntact(m)
    <3>1. /\ row' = row \/ row' = [row EXCEPT ![m] = [state |-> "planned", kept |-> TRUE]]
          /\ mem' = [mem EXCEPT !.pc = "stage",
                                !.ready = IF Is(m, {"recycle"}) THEN mem.ready ELSE mem.ready \cup {m}]
      BY <1>3, <2>1 DEF EnsureJournal
    <3>2. mem'.pc = "stage" /\ mem'.todo = mem.todo /\ mem.ready \in SUBSET mem'.ready
      BY <1>2, <3>1 DEF MemType
    <3>3. "planned" \in Early
      BY DEF Early
    <3> QED BY <1>1, <3>1, <3>2, <3>3, PreparingStep DEF Preparing
  <2>2. CASE ~SourceIntact(m)
    BY <1>1, <1>3, <2>2, RaisesStep DEF EnsureJournal
  <2> QED BY <2>1, <2>2
<1>4. CASE Stage(m)
  <2>1. CASE Raises
    BY <1>1, <1>4, <2>1, RaisesStep DEF Stage
  <2>2. CASE Goes("advance")
    <3>1. mem'.pc = "advance" /\ mem'.todo = mem.todo /\ mem'.ready = mem.ready
      BY <1>2, <2>2, Going DEF Pcs
    <3>2. "validated" \in Early
      BY DEF Early
    <3> QED BY <1>1, <1>4, <3>1, <3>2, PreparingStep DEF Stage, Preparing
  <2> QED BY <1>4, <2>1, <2>2 DEF Stage
<1>5. CASE Advance(m)
  <2>1. ASSUME NEW s \in Early, Becomes(m, s), UNCHANGED mem
        PROVE  JournalInv'
    BY <1>1, <1>5, <2>1, PreparingStep DEF Advance, Preparing, At
  <2>2. CASE /\ row[m].state = "validated" /\ UNCHANGED row
             /\ mem' = [mem EXCEPT !.ready = mem.ready \cup {m}, !.todo = mem.todo \ {m},
                                   !.pc = IF mem.todo = {m} THEN "recheck" ELSE "ensure"]
    <3>1. /\ mem'.pc = IF mem.todo = {m} THEN "recheck" ELSE "ensure"
          /\ mem'.todo = mem.todo \ {m} /\ mem'.ready = mem.ready \cup {m}
      BY <1>2, <2>2 DEF MemType
    <3>2. mem'.pc \in Preparing /\ (mem'.pc = "recheck" => mem.todo = {m})
      BY <3>1 DEF Preparing
    <3>3. \A n \in Mutations \ mem'.todo : n \in mem'.ready /\ row'[n].state = "validated"
      BY <1>1, <2>2, <3>1 DEF JournalInv, PublisherInv
    <3>4. PublisherInv'
      BY <3>1, <3>2, <3>3 DEF PublisherInv, Preparing
    <3> QED BY <1>1, <2>2, <3>2, <3>4, PublisherStep
  <2>3. CASE Raises /\ UNCHANGED row
    BY <1>1, <2>3, RaisesStep
  <2>4. "snapshot_saved" \in Early /\ "staged" \in Early /\ "validated" \in Early
    BY DEF Early
  <2> QED BY <1>5, <2>1, <2>2, <2>3, <2>4 DEF Advance
<1> QED BY <1>3, <1>4, <1>5

LEMMA RecheckJournal ==
    ASSUME TypeOK, JournalInv, Recheck
    PROVE  JournalInv'
<1>1. /\ ~adopted /\ UNCHANGED <<row, adopted, op>> /\ mem \in MemType
      /\ mem.ready = Mutations /\ \A m \in Mutations : row[m].state = "validated"
  <2>1. mem \in MemType /\ mem.pc = "recheck" /\ mem.todo = {}
    BY TypeParts DEF Recheck, At, JournalInv, PublisherInv
  <2>2. mem.ready \in SUBSET Mutations
    BY <2>1 DEF MemType
  <2>3. \A m \in Mutations : m \in mem.ready /\ row[m].state = "validated"
    BY <2>1 DEF JournalInv, PublisherInv, Preparing
  <2> QED BY <2>1, <2>2, <2>3 DEF Recheck, JournalInv, AdoptionInv, CleaningUp, AtAnyTime
<1>2. CASE Raises
  BY <1>1, <1>2, RaisesStep
<1>3. CASE Starts("publish", mem.ready)
  <2>1. mem'.pc = "publish" /\ mem'.todo = Mutations
    BY <1>1, <1>3, Starting DEF Pcs
  <2>2. PublisherInv'
    BY <1>1, <2>1 DEF PublisherInv, Preparing
  <2> QED BY <1>1, <2>1, <2>2, PublisherStep
<1> QED BY <1>2, <1>3 DEF Recheck

LEMMA PublishingRows ==
    ASSUME JournalInv, mem.pc = "publish"
    PROVE  ~adopted /\ Rows = Mutations
<1>1. \A m \in Mutations : row[m].state # "none"
  BY DEF JournalInv, PublisherInv
<1> QED BY <1>1 DEF Rows, NoRow, JournalInv, AdoptionInv, CleaningUp, AtAnyTime

LEMMA PublishingStep ==
    ASSUME TypeOK, JournalInv, mem.pc = "publish", NEW m \in mem.todo, UNCHANGED <<adopted, op>>,
           \/ Becomes(m, "source_backed_up") /\ UNCHANGED mem
           \/ /\ Becomes(m, "published")
              /\ mem'.todo = mem.todo \ {m}
              /\ mem'.pc = IF mem.todo = {m} THEN "commit" ELSE "publish"
    PROVE  JournalInv'
<1>1. ~adopted /\ m \in Mutations /\ Rows = Mutations
  BY PublishingRows, TypeParts DEF MemType
<1>2. PICK s \in {"source_backed_up", "published"} :
          /\ Becomes(m, s)
          /\ s = "source_backed_up" => UNCHANGED mem
          /\ s = "published" => /\ mem'.todo = mem.todo \ {m}
                                /\ mem'.pc = IF mem.todo = {m} THEN "commit" ELSE "publish"
  OBVIOUS
<1>3. s \in RowStates \ {"none"} /\ s \notin Committed
  BY DEF RowStates, Undoable, Committed
<1>4. row'[m].state = s /\ (\A n \in Mutations : n # m => row'[n] = row[n]) /\ Rows' = Mutations
  BY <1>1, <1>2, <1>3, RowsGrow
<1>5. mem'.pc \in {"publish", "commit"} /\ (mem'.pc = "commit" => mem.todo = {m} /\ mem'.todo = {})
  BY <1>2
<1>6. AdoptionInv' /\ WholeInv'
  BY <1>1, <1>3, <1>4, <1>5 DEF JournalInv, AdoptionInv, WholeInv, CleaningUp
<1>7. \A n \in Mutations : row'[n].state \in IF n \in mem'.todo THEN {"validated", "source_backed_up"}
                                             ELSE {"published"}
  BY <1>2, <1>4 DEF JournalInv, PublisherInv
<1>8. PublisherInv'
  BY <1>5, <1>7 DEF PublisherInv, Preparing
<1> QED BY <1>6, <1>8 DEF JournalInv

LEMMA PublishJournal ==
    ASSUME TypeOK, JournalInv, NEW m \in Mutations,
           BackUp(m) \/ MarkBackedUp(m) \/ Place(m) \/ MarkPublished(m)
    PROVE  JournalInv'
<1>1. mem.pc = "publish" /\ m \in mem.todo /\ UNCHANGED <<adopted, op>> /\ ~adopted /\ mem \in MemType
  BY PublishingRows, TypeParts DEF BackUp, MarkBackedUp, Place, MarkPublished, At, Next1
<1>2. CASE BackUp(m) \/ Place(m)
  <2>1. mem'.pc = mem.pc /\ mem'.todo = mem.todo /\ UNCHANGED row
    BY <1>1, <1>2 DEF BackUp, Place, MemType
  <2>2. PublisherInv'
    BY <1>1, <2>1 DEF JournalInv, PublisherInv, Preparing
  <2> QED BY <1>1, <2>1, <2>2, PublisherStep
<1>3. CASE MarkBackedUp(m)
  BY <1>1, <1>3, PublishingStep DEF MarkBackedUp
<1>4. CASE MarkPublished(m)
  <2>1. mem'.todo = mem.todo \ {m} /\ mem'.pc = IF mem.todo = {m} THEN "commit" ELSE "publish"
    BY <1>1, <1>4 DEF MarkPublished, MemType
  <2> QED BY <1>1, <1>4, <2>1, PublishingStep DEF MarkPublished
<1> QED BY <1>2, <1>3, <1>4

LEMMA CommitJournal ==
    ASSUME TypeOK, JournalInv, Commit \/ Recommit
    PROVE  JournalInv'
<1>1. Rows = Mutations
  <2>1. CASE Commit
    <3>1. \A m \in Mutations : row[m].state # "none"
      BY <2>1 DEF Commit, At, JournalInv, PublisherInv
    <3> QED BY <3>1 DEF Rows, NoRow
  <2>2. CASE Recommit
    BY <2>2 DEF Recommit, At, JournalInv, WholeInv, Resuming
  <2> QED BY <2>1, <2>2
<1>2. /\ adopted' = TRUE /\ op'.work = "succeeded"
      /\ \A m \in Mutations : row'[m].state = "catalog_committed"
  <2>1. row \in [Mutations -> RowType] /\ op \in OpType
    BY TypeParts
  <2>2. row' = [m \in Mutations |-> [row[m] EXCEPT !.state = "catalog_committed"]]
    BY <1>1 DEF Commit, Recommit, Adopts
  <2> QED BY <2>1, <2>2 DEF Commit, Recommit, Adopts, RowType, OpType
<1>3. mem'.pc \in {"cleanup", "tidyCheck"}
  BY Starting, TypeParts DEF Commit, Recommit, Pcs, Rows
<1>4. Rows' = Mutations
  BY <1>2 DEF Rows, NoRow
<1> QED BY <1>2, <1>3, <1>4 DEF JournalInv, AdoptionInv, WholeInv, PublisherInv, CleaningUp,
           AtAnyTime, Committed,
                                  Preparing, Resuming

LEMMA CleanupJournal ==
    ASSUME TypeOK, JournalInv, NEW m \in Mutations, Cleanup(m) \/ Tidy(m)
    PROVE  JournalInv'
<1>1. /\ adopted /\ UNCHANGED <<adopted, op>> /\ mem \in MemType /\ mem.pc \in {"cleanup", "tidy"}
      /\ op.work = "succeeded"
  BY TypeParts DEF Cleanup, Tidy, At, JournalInv, AdoptionInv, CleaningUp
<1>2. mem'.pc \in {"cleanup", "tidy", "attention"}
  BY <1>1, Passing, Starting DEF Cleanup, Tidy, MemType, Pcs, Rows
<1>3. Elsewhere(mem'.pc) /\ Permitted(mem'.pc)
  BY <1>1, <1>2 DEF Elsewhere, Permitted, Preparing, CleaningUp, AtAnyTime, Resuming
<1>4. ASSUME NEW s \in {"cleanup_pending", "completed"}, Becomes(m, s)
      PROVE  JournalInv'
  BY <1>1, <1>3, <1>4, RowStep DEF RowStates, Committed
<1> QED BY <1>1, <1>3, <1>4, QuietStep DEF Cleanup, Tidy

\* Of a bundle that is not adopted.
LEMMA UndoJournal ==
    ASSUME TypeOK, JournalInv, NEW m \in Mutations,
           UndoMark(m) \/ UndoRestore(m) \/ Mark(m) \/ Restore(m) \/ Close(m) \/ Attend(m)
    PROVE  JournalInv'
<1>1. UNCHANGED <<adopted, op>> /\ mem \in MemType
  BY TypeParts DEF UndoMark, UndoRestore, Mark, Restore, Close, Attend
<1>2. mem'.pc = mem.pc /\ mem.pc \in {"undo", "mark", "restore", "close", "attention"}
  BY <1>1, Passing DEF UndoMark, UndoRestore, GivesUp, Mark, Restore, Close, Attend, At, MemType
<1>3. Elsewhere(mem'.pc) /\ Permitted(mem'.pc)
  BY <1>2 DEF Elsewhere, Permitted, Preparing, CleaningUp, AtAnyTime, Resuming, JournalInv,
     AdoptionInv
<1>4. adopted => op'.work = "succeeded" /\ Attend(m)
  BY <1>1, <1>2 DEF JournalInv, AdoptionInv, CleaningUp, AtAnyTime, UndoMark, UndoRestore, Mark,
     Restore,
                    Close, At
<1>5. ASSUME NEW s \in Undone \cup {"needs_attention"}, Becomes(m, s) \/ BecomesFor(m, s),
             adopted => s = "needs_attention"
      PROVE  JournalInv'
  BY <1>1, <1>3, <1>5, RowStep DEF RowStates, Undone, Committed
<1>6. CASE row' = row
  BY <1>1, <1>3, <1>4, <1>6, QuietStep
<1>7. CASE Attend(m)
  BY <1>5, <1>6, <1>7 DEF Attend
<1>8. CASE ~adopted
  BY <1>5, <1>6, <1>8 DEF UndoMark, UndoRestore, GivesUp, Mark, Restore, Close, Attend, Undone
<1> QED BY <1>4, <1>7, <1>8

LEMMA ResumeJournal ==
    ASSUME TypeOK, JournalInv, NEW m \in Mutations,
           RemainingBackUp(m) \/ RemainingPlace(m) \/ RemainingMark(m)
    PROVE  JournalInv'
<1>1. UNCHANGED <<adopted, op>> /\ mem \in MemType /\ mem.pc = "remaining"
  BY TypeParts DEF RemainingBackUp, RemainingPlace, RemainingMark, At
<1>2. mem'.pc = "remaining"
  BY <1>1, Passing DEF RemainingBackUp, RemainingPlace, RemainingMark
<1>3. ~adopted /\ Rows = Mutations
  BY <1>1 DEF JournalInv, AdoptionInv, WholeInv, CleaningUp, AtAnyTime, Resuming
<1>4. Elsewhere(mem'.pc) /\ Permitted(mem'.pc)
  BY <1>2, <1>3 DEF Elsewhere, Permitted, Preparing, CleaningUp, Resuming
<1>5. ASSUME NEW s \in {"source_backed_up", "published"}, Becomes(m, s)
      PROVE  JournalInv'
  BY <1>1, <1>3, <1>4, <1>5, RowStep DEF RowStates, Undoable, Committed
<1> QED BY <1>1, <1>3, <1>4, <1>5, QuietStep DEF RemainingBackUp, RemainingPlace, RemainingMark

\* What recovery decides to do with the bundle is open to it.
LEMMA RecoverJournal ==
    ASSUME TypeOK, JournalInv, Recover
    PROVE  JournalInv'
<1>1. UNCHANGED <<row, adopted>> /\ op \in OpType /\ Open # {} /\ Disposition \in Pcs
  BY TypeParts, Disposed DEF Recover
<1>2. mem'.pc = Disposition
  BY <1>1, Recalled DEF Recover, MemType
<1>3. PICK m \in Rows : row[m].state \notin Closed
  BY <1>1 DEF Open
<1>4. m \in Mutations /\ row[m].state \in States
  BY <1>3 DEF Rows, States
<1>5. adopted => op'.work = "succeeded"
  BY <1>1 DEF Recover, JournalInv, AdoptionInv, OpType
<1>6. CASE adopted
  <2>1. States \cap Committed # {}
    BY <1>3, <1>4, <1>6 DEF JournalInv, AdoptionInv, Closed, Committed
  <2>0. ~(States \subseteq Undoable \cup Undone)
    BY <2>1 DEF Committed, Undoable, Undone, Early
  <2>2. Disposition \in {"tidyCheck", "attention"}
    BY <2>0, <2>1 DEF Disposition
  <2>3. Elsewhere(mem'.pc) /\ Permitted(mem'.pc)
    BY <1>2, <1>6, <2>2 DEF Elsewhere, Permitted, Preparing, CleaningUp, AtAnyTime, Resuming
  <2> QED BY <1>1, <1>5, <2>3, QuietStep
<1>7. CASE ~adopted
  <2>1. States \cap Committed = {}
    BY <1>7 DEF JournalInv, AdoptionInv, States, Rows
  <2>2. Disposition \in {"attention", "compensate", "begin", "preflight"}
    BY <2>1 DEF Disposition, Compensation
  <2>3. Disposition = "preflight" => Rows = Mutations
    <3> SUFFICES ASSUME Disposition = "preflight" PROVE Rows = Mutations
      OBVIOUS
    <3>1. /\ States \subseteq Undoable \cup Undone /\ ~(States \cap Undone # {})
          /\ op.job \in {"queued", "running"} /\ ~(States \subseteq Early /\ States # {"validated"})
          /\ {n \in Mutations : Audio(n)} \subseteq Rows
      BY <2>1 DEF Disposition, Compensation
    <3>2. mem.pc = "starting" /\ ~Incomplete
      BY <3>1 DEF Recover, At, JournalInv, WholeInv
    <3>3. CASE States = {"validated"}
      BY <3>1, <3>2, <3>3 DEF Incomplete
    <3>4. CASE States # {"validated"}
      <4>1. PICK s \in States : s \notin Early
        BY <3>1, <3>4
      <4>2. s \in {"source_backed_up", "published"}
        BY <3>1, <4>1 DEF Undoable, Undone
      <4> QED BY <4>1, <4>2 DEF States, Rows, JournalInv, WholeInv
    <3> QED BY <3>3, <3>4
  <2>4. Elsewhere(mem'.pc) /\ Permitted(mem'.pc)
    BY <1>2, <1>7, <2>2, <2>3 DEF Elsewhere, Permitted, Preparing, CleaningUp, Resuming
  <2> QED BY <1>1, <1>5, <2>4, QuietStep
<1> QED BY <1>6, <1>7

LEMMA QuietJournal ==
    ASSUME TypeOK, JournalInv,
           \/ CommitRejected \/ CleanedUp \/ UndoDone \/ Refuse \/ Finish \/ Reclaim \/ Started
           \/ ResumeFailed \/ Preflight \/ RemainingDone \/ RecommitRejected \/ TidyCheck \/ Settle
           \/ Compensate \/ NextPhase \/ Fail
    PROVE  JournalInv'
<1>1. UNCHANGED <<row, adopted>> /\ mem \in MemType /\ op \in OpType /\ Rows \in SUBSET Mutations
  BY TypeParts DEF CommitRejected, CleanedUp, UndoDone, Refuse, Finish, Reclaim, Started,
     ResumeFailed,
                   Preflight, RemainingDone, RecommitRejected, TidyCheck, Settle, Compensate,
                   NextPhase,
                   Fail, Rows
<1>2. adopted => /\ mem.pc \in CleaningUp \cup AtAnyTime /\ op.work = "succeeded"
  BY DEF JournalInv, AdoptionInv
<1>3. ~adopted => mem.pc \notin CleaningUp
  BY DEF JournalInv, AdoptionInv
<1>4. mem.pc \in Resuming => Rows = Mutations
  BY DEF JournalInv, WholeInv
<1>5. adopted => op'.work = "succeeded"
  BY <1>1, <1>2 DEF CommitRejected, CleanedUp, UndoDone, Refuse, Finish, Reclaim, Started,
     ResumeFailed,
                   Preflight, RemainingDone, RecommitRejected, TidyCheck, Settle, Compensate,
                   NextPhase,
                   Fail, At, CleaningUp, AtAnyTime, OpType
<1> DEFINE Fine == {pc \in Pcs : Elsewhere(pc) /\ Permitted(pc)}
<1>6. "idle" \in Fine /\ "settle" \in Fine /\ "fail" \in Fine /\ "attention" \in Fine
  BY DEF Elsewhere, Permitted, Preparing, CleaningUp, AtAnyTime, Resuming, Pcs
<1>7. ~adopted => /\ "undo" \in Fine /\ "refused" \in Fine /\ "resumeFailed" \in Fine /\ "begin" \in Fine
                  /\ "compensate" \in Fine /\ "mark" \in Fine /\ "restore" \in Fine /\ "close" \in Fine
  BY DEF Elsewhere, Permitted, Preparing, CleaningUp, AtAnyTime, Resuming, Pcs
<1>8. ~adopted /\ Rows = Mutations => "remaining" \in Fine /\ "recommit" \in Fine
  BY DEF Elsewhere, Permitted, Preparing, CleaningUp, AtAnyTime, Resuming, Pcs
<1>9. adopted => "tidy" \in Fine
  BY DEF Elsewhere, Permitted, Preparing, CleaningUp, AtAnyTime, Resuming, Pcs
<1>10. Compensation \in {"attention", "compensate"}
  BY DEF Compensation
<1> SUFFICES mem'.pc \in Fine
  BY <1>1, <1>5, QuietStep
<1> HIDE DEF Fine
<1>11. CASE CommitRejected \/ UndoDone \/ Refuse \/ ResumeFailed
  <2>1. ~adopted
    BY <1>2, <1>11 DEF CommitRejected, UndoDone, Refuse, ResumeFailed, At, CleaningUp, AtAnyTime
  <2>2. mem'.pc \in {"undo", "refused", "resumeFailed", "idle", "fail", Compensation}
    BY <1>1, <1>10, <1>11, Raising, Going, Starting DEF CommitRejected, UndoDone, Refuse,
       ResumeFailed, Pcs
  <2> QED BY <1>6, <1>7, <1>10, <2>1, <2>2
<1>12. CASE CleanedUp \/ Finish \/ Started \/ Settle \/ Fail
  <2>1. mem'.pc \in {"idle", "settle"}
    BY <1>1, <1>12, Going DEF CleanedUp, Finish, Started, Settle, Fail, Pcs, At
  <2> QED BY <1>6, <2>1
<1>13. CASE Reclaim
  <2>1. ~adopted
    BY <1>2, <1>13 DEF Reclaim
  <2>2. mem'.pc = "begin"
    BY <1>13, Recalled DEF Reclaim, MemType
  <2> QED BY <1>7, <2>1, <2>2
<1>14. CASE Preflight \/ RemainingDone \/ RecommitRejected
  <2>1. ~adopted /\ Rows = Mutations
    BY <1>2, <1>4, <1>14 DEF Preflight, RemainingDone, RecommitRejected, At, CleaningUp, AtAnyTime,
       Resuming
  <2>2. mem'.pc \in {"remaining", "recommit", "attention", Compensation}
    BY <1>1, <1>10, <1>14, Going, Starting DEF Preflight, RemainingDone, RecommitRejected, Pcs
  <2> QED BY <1>6, <1>7, <1>8, <1>10, <2>1, <2>2
<1>15. CASE TidyCheck
  <2>1. adopted
    BY <1>3, <1>15 DEF TidyCheck, At, CleaningUp
  <2>2. mem'.pc \in {"tidy", "attention"}
    BY <1>1, <1>15, Going DEF TidyCheck, Pcs
  <2> QED BY <1>6, <1>9, <2>1, <2>2
<1>16. CASE Compensate
  <2>1. ~adopted
    BY <1>2, <1>16 DEF Compensate, At, CleaningUp, AtAnyTime
  <2>2. mem'.pc \in {"mark", "attention"}
    BY <1>1, <1>16, Starting DEF Compensate, Pcs
  <2> QED BY <1>6, <1>7, <2>1, <2>2
<1>17. CASE NextPhase
  <2>1. \/ mem.pc \in {"mark", "restore"} /\ mem'.pc \in {"restore", "close"}
        \/ mem'.pc = "fail"
    BY <1>1, <1>17, Starting, Going DEF NextPhase, At, Pcs
  <2>2. mem.pc \in {"mark", "restore"} => ~adopted
    BY <1>2 DEF CleaningUp, AtAnyTime
  <2> QED BY <1>6, <1>7, <2>1, <2>2
<1> QED BY <1>11, <1>12, <1>13, <1>14, <1>15, <1>16, <1>17

LEMMA FaultJournal ==
    ASSUME TypeOK, JournalInv, Fault
    PROVE  JournalInv'
<1>1. UNCHANGED <<adopted, op>> /\ mem \in MemType /\ Rows \in SUBSET Mutations
  BY TypeParts DEF Fault, Rows
<1>2. CASE mem.pc \in {"ensure", "stage", "recheck", "publish"} /\ Raises /\ UNCHANGED row
  <2>1. ~adopted
    BY <1>2 DEF JournalInv, AdoptionInv, CleaningUp, AtAnyTime
  <2> QED BY <1>1, <1>2, <2>1, RaisesStep
<1>3. ASSUME NEW m \in mem.todo, At("cleanup"), Becomes(m, "cleanup_pending"), Passes(m)
      PROVE  JournalInv'
  <2>1. adopted /\ mem'.pc = "cleanup" /\ m \in Mutations
    BY <1>1, <1>3, Passing DEF At, JournalInv, AdoptionInv, CleaningUp, MemType
  <2>2. Elsewhere(mem'.pc) /\ Permitted(mem'.pc)
    BY <2>1 DEF Elsewhere, Permitted, Preparing, CleaningUp, Resuming
  <2> QED BY <1>1, <1>3, <2>1, <2>2, RowStep DEF RowStates, Committed
<1>4. ASSUME NEW m \in mem.todo, At("undo"), GivesUp(m)
      PROVE  JournalInv'
  <2>1. ~adopted /\ mem'.pc = "undo" /\ m \in Mutations
    BY <1>1, <1>4, Passing DEF At, GivesUp, JournalInv, AdoptionInv, CleaningUp, AtAnyTime, MemType
  <2>2. Elsewhere(mem'.pc) /\ Permitted(mem'.pc)
    BY <2>1 DEF Elsewhere, Permitted, Preparing, CleaningUp, Resuming
  <2> QED BY <1>1, <1>4, <2>1, <2>2, RowStep DEF GivesUp, RowStates, Committed
<1>5. CASE At("remaining") /\ Starts(Compensation, Rows) /\ UNCHANGED row
  <2>1. ~adopted /\ mem'.pc \in {"attention", "compensate"}
    BY <1>1, <1>5, Starting DEF At, Compensation, Pcs, JournalInv, AdoptionInv, CleaningUp,
       AtAnyTime
  <2>2. Elsewhere(mem'.pc) /\ Permitted(mem'.pc)
    BY <2>1 DEF Elsewhere, Permitted, Preparing, CleaningUp, Resuming
  <2> QED BY <1>1, <1>5, <2>1, <2>2, QuietStep
<1>6. CASE Starts("attention", Rows) /\ UNCHANGED row
  <2>1. mem'.pc = "attention" /\ (adopted => op'.work = "succeeded")
    BY <1>1, <1>6, Starting DEF Pcs, JournalInv, AdoptionInv
  <2>2. Elsewhere(mem'.pc) /\ Permitted(mem'.pc)
    BY <2>1 DEF Elsewhere, Permitted, Preparing, CleaningUp, AtAnyTime, Resuming
  <2> QED BY <1>1, <1>6, <2>1, <2>2, QuietStep
<1> QED BY <1>2, <1>3, <1>4, <1>5, <1>6 DEF Fault

\* The process goes down with every row written, or before there is much to lose.
LEMMA StopJournal ==
    ASSUME TypeOK, JournalInv, "stopBetweenMutations" \notin Admits, Stop \/ Restart
    PROVE  JournalInv'
<1>1. UNCHANGED <<row, adopted, op>> /\ mem \in MemType
  BY TypeParts DEF Stop, Restart
<1>2. mem'.pc \in {"down", "starting"} /\ ~Incomplete
  BY <1>1, Going DEF Stop, Restart, Forgotten, At, Pcs, JournalInv, WholeInv
<1>3. Rows' = Rows /\ (Incomplete' <=> Incomplete)
  BY <1>1 DEF Rows, NoRow, Incomplete, States
<1>4. AdoptionInv' /\ WholeInv' /\ PublisherInv'
  BY <1>1, <1>2, <1>3 DEF JournalInv, AdoptionInv, WholeInv, PublisherInv, CleaningUp, AtAnyTime,
     Resuming,
                          Preparing
<1> QED BY <1>4 DEF JournalInv

LEMMA ElsewhereJournal ==
    ASSUME TypeOK, JournalInv, UNCHANGED <<row, adopted, mem>>, op'.work = op.work
    PROVE  JournalInv'
<1>1. Rows' = Rows /\ (Incomplete' <=> Incomplete)
  BY DEF Rows, NoRow, Incomplete, States
<1> QED BY <1>1 DEF JournalInv, AdoptionInv, WholeInv, PublisherInv

LEMMA NextJournal ==
    ASSUME TypeOK, JournalInv, "stopBetweenMutations" \notin Admits, [Next]_vars
    PROVE  JournalInv'
<1>1. ASSUME NEW m \in Mutations,
             \/ EnsureJournal(m) \/ Stage(m) \/ Advance(m) \/ BackUp(m) \/ MarkBackedUp(m)
             \/ Place(m) \/ MarkPublished(m) \/ Cleanup(m) \/ UndoMark(m) \/ UndoRestore(m)
             \/ RemainingBackUp(m) \/ RemainingPlace(m) \/ RemainingMark(m) \/ Tidy(m)
             \/ Mark(m) \/ Restore(m) \/ Close(m) \/ Attend(m)
      PROVE  JournalInv'
  BY <1>1, PrepareJournal, PublishJournal, CleanupJournal, UndoJournal, ResumeJournal
<1>2. CASE Work
  BY <1>1, <1>2, BeginJournal, RecheckJournal, CommitJournal, RecoverJournal, QuietJournal,
     StopJournal DEF Work
<1>3. CASE Fault
  BY <1>3, FaultJournal
<1>4. CASE Stop
  BY <1>4, StopJournal
<1>5. CASE OtherBundleFails
  BY <1>5, ElsewhereJournal, TypeParts DEF OtherBundleFails, OpType
<1>6. CASE \/ \E c \in {"settingsChanged", "rootsChanged"} : Reconfigure(c)
           \/ \E p \in Paths : OtherWrites(p)
           \/ UNCHANGED vars
  BY <1>6, ElsewhereJournal DEF Reconfigure, OtherWrites, vars
<1> QED BY <1>2, <1>3, <1>4, <1>5, <1>6 DEF Next

LEMMA InitJournal ==
    ASSUME Init
    PROVE  JournalInv
<1>1. /\ ~adopted /\ mem.pc = "begin" /\ \A m \in Mutations : row[m].state = "none"
  BY DEF Init, NoRow, Forgotten
<1> QED BY <1>1 DEF JournalInv, AdoptionInv, WholeInv, PublisherInv, CleaningUp, Committed,
           Resuming,
                    Preparing

\* The specification without its fairness, which no safety property needs.
SafeSpec == Init /\ [][Next]_vars

\* The rows, the paths, the operation and the memory of the process keep to their types,
\* whatever recovery makes of them.
THEOREM TypesHold == SafeSpec => []TypeOK
<1>1. Init => TypeOK
  BY InitTypes, PlanAssumption
<1>2. TypeOK /\ [Next]_vars => TypeOK'
  BY NextTypes, PlanAssumption
<1> QED BY <1>1, <1>2, PTL DEF SafeSpec

LEMMA JournalHolds ==
    ASSUME "stopBetweenMutations" \notin Admits
    PROVE  SafeSpec => []JournalInv
<1>1. Init => JournalInv
  BY InitJournal
<1>2. TypeOK /\ JournalInv /\ [Next]_vars => JournalInv'
  BY NextJournal
<1> QED BY <1>1, <1>2, TypesHold, PTL DEF SafeSpec

\* Whatever publish_bundle or _finish_published_bundle has the catalogue adopt
\* (commit_library_management_bundle) has a row for each mutation of the plan, over any
\* number of stops and restarts.
THEOREM AdoptedIsWholeHolds ==
    ASSUME "stopBetweenMutations" \notin Admits
    PROVE  SafeSpec => []AdoptedIsWhole
<1>1. JournalInv => AdoptedIsWhole
  BY DEF JournalInv, AdoptionInv, AdoptedIsWhole
<1> QED BY <1>1, JournalHolds, PTL

-----------------------------------------------------------------------------
(* The invariant of the files *)

\* A recycled file lies where another mutation puts its output: DiskInv and PlacedInv, which
\* look at the paths of one mutation, say nothing of such a pair.
NoRecycle == \A m \in Mutations : ~Is(m, {"recycle"})

HeldOf(m) == \/ ~HasSource(m)
             \/ \E p \in {Source(m), Backup(m)} : disk[p] \in {Old(m), Edited(m)}
ShownOf(m) == IF Is(m, {"delete"}) THEN Holds(Source(m), Missing) ELSE Holds(Destination(m), Staged(m))

\* Until the catalogue has adopted the outputs, every original is somewhere on the disk.
DiskInv ==
    /\ ~adopted => \A m \in Mutations : HeldOf(m)
    /\ touched = {} => \A p \in Paths : disk[p][2] # "edited"

\* What the publisher remembers to have moved is where it moved it.
CarriedOf(m) ==
    /\ m \in mem.backedUp => InPlace(m) /\ disk[Backup(m)] \in {Old(m), Edited(m)}
    /\ m \in mem.published /\ Is(m, {"delete"}) => Holds(Source(m), Missing)

CarriedInv ==
    /\ mem.pc \in {"begin"} \cup Preparing => mem.backedUp = {} /\ mem.published = {}
    /\ mem.pc \in {"publish", "commit", "undo"} => \A m \in Mutations : CarriedOf(m)

\* The publisher comes to its commit with every output in place.
PlacedOf(m) ==
    /\ m \notin mem.todo \/ m \in mem.published => ShownOf(m)
    /\ m \in mem.todo \ mem.published => Holds(Temp(m), Staged(m))
    /\ m \in mem.todo \ mem.backedUp /\ InPlace(m) =>
           Holds(Backup(m), Missing) /\ row[m].state = "validated" /\ m \notin mem.published
    /\ m \in mem.backedUp /\ Is(m, {"delete"}) => Holds(Source(m), Missing)

PlacedInv ==
    /\ mem.pc = "publish" => \A m \in Mutations : PlacedOf(m)
    /\ mem.pc = "commit" => \A m \in Mutations : ShownOf(m)

\* The evidence of a row is there until the row is given up or undone.
KeptInv == \A m \in Mutations : row[m].state \in Undoable => row[m].kept

\* Recovery, which has only the rows and the bytes to go by, comes to its commit likewise.
ResumedOf(m) ==
    /\ row[m].state = "published" => ShownOf(m)
    /\ InPlace(m) /\ row[m].state = "source_backed_up" =>
           Holds(Backup(m), Old(m)) /\ (Is(m, {"delete"}) => Holds(Source(m), Missing))

ResumedInv ==
    /\ mem.pc = "preflight" => \A m \in Mutations : m \in mem.todo /\ row[m].state \in Undoable
    /\ mem.pc = "remaining" => \A m \in Mutations \ mem.todo : row[m].state = "published"
    /\ mem.pc \in {"remaining", "recommit"} => \A m \in Mutations : ResumedOf(m)

-----------------------------------------------------------------------------
(* Paths and bytes *)

LEMMA PathsApart ==
    ASSUME NoRecycle, NEW m \in Mutations
    PROVE  /\ Source(m) \in Paths /\ Temp(m) \in Paths /\ Backup(m) \in Paths /\ Destination(m) \in Paths
           /\ Source(m)[1] = m /\ Temp(m)[1] = m /\ Backup(m)[1] = m /\ Destination(m)[1] = m
           /\ Source(m) # Temp(m) /\ Source(m) # Backup(m) /\ Temp(m) # Backup(m)
           /\ Destination(m) # Temp(m) /\ Destination(m) # Backup(m)
           /\ InPlace(m) => Destination(m) = Source(m)
           /\ ~InPlace(m) => Destination(m) # Source(m)
<1>1. Collider(m) = {}
  BY DEF NoRecycle, Collider
<1>2. Destination(m) = IF InPlace(m) THEN Source(m) ELSE <<m, "destination">>
  BY <1>1 DEF Destination
<1> QED BY <1>2, PathsOf DEF Source, Temp, Backup

LEMMA BytesApart ==
    ASSUME NoRecycle, NEW m \in Mutations
    PROVE  /\ Old(m) # Missing /\ Staged(m) # Missing /\ Edited(m) # Missing
           /\ InPlace(m) /\ ~Is(m, {"delete"}) => Staged(m) \notin {Old(m), Edited(m)}
           /\ Missing[2] # "edited" /\ Staged(m)[2] # "edited" /\ Edited(m)[2] = "edited"
           /\ Is(m, {"delete"}) => InPlace(m)
           /\ InPlace(m) => HasSource(m) /\ BacksUp(m)
           /\ BacksUp(m) => InPlace(m)
           /\ Is(m, {"delete"}) => Staged(m) = Old(m)
BY DEF NoRecycle, Old, Staged, Edited, Missing, InPlace, BacksUp, HasSource, Is

\* Only files of m change, and nobody else writes any.
Local(m) ==
    /\ \A p \in Paths : p[1] # m => disk'[p] = disk[p]
    /\ \A p \in Paths : disk'[p][2] = "edited" => \E q \in Paths : disk[q][2] = "edited"

LEMMA RenameIsLocal ==
    ASSUME TypeOK, NoRecycle, NEW m \in Mutations, NEW p \in Paths, NEW q \in Paths, p # q, p[1] = m, q[1] = m,
           Renames(p, q)
    PROVE  /\ Local(m) /\ disk'[q] = disk[p] /\ disk'[p] = Missing
           /\ \A x \in Paths : x \notin {p, q} => disk'[x] = disk[x]
<1>1. disk \in [Paths -> Bytes]
  BY TypeParts
<1>2. /\ disk'[q] = disk[p] /\ disk'[p] = Missing
      /\ \A x \in Paths : x \notin {p, q} => disk'[x] = disk[x]
  BY <1>1 DEF Renames
<1> QED BY <1>2, BytesApart DEF Local

LEMMA UnlinkIsLocal ==
    ASSUME TypeOK, NoRecycle, NEW m \in Mutations, NEW p \in Paths, p[1] = m, Unlinks(p)
    PROVE  /\ Local(m) /\ disk'[p] = Missing
           /\ \A x \in Paths : x # p => disk'[x] = disk[x]
<1>1. disk \in [Paths -> Bytes]
  BY TypeParts
<1>2. /\ disk'[p] = Missing
      /\ \A x \in Paths : x # p => disk'[x] = disk[x]
  BY <1>1 DEF Unlinks
<1> QED BY <1>2, BytesApart DEF Local

LEMMA OthersStay ==
    ASSUME NoRecycle, NEW m \in Mutations, Local(m), NEW n \in Mutations, n # m
    PROVE  /\ disk'[Source(n)] = disk[Source(n)] /\ disk'[Temp(n)] = disk[Temp(n)]
           /\ disk'[Backup(n)] = disk[Backup(n)] /\ disk'[Destination(n)] = disk[Destination(n)]
           /\ HeldOf(n)' <=> HeldOf(n)
           /\ ShownOf(n)' <=> ShownOf(n)
<1>1. /\ disk'[Source(n)] = disk[Source(n)] /\ disk'[Temp(n)] = disk[Temp(n)]
      /\ disk'[Backup(n)] = disk[Backup(n)] /\ disk'[Destination(n)] = disk[Destination(n)]
  BY PathsApart DEF Local
<1>2. HeldOf(n)' <=> HeldOf(n)
  BY <1>1 DEF HeldOf
<1>3. ShownOf(n)' <=> ShownOf(n)
  BY <1>1 DEF ShownOf, Holds
<1> QED BY <1>1, <1>2, <1>3

LEMMA SameFiles ==
    ASSUME disk' = disk, NEW n \in Mutations
    PROVE  (HeldOf(n)' <=> HeldOf(n)) /\ (ShownOf(n)' <=> ShownOf(n))
BY DEF HeldOf, ShownOf, Holds

LEMMA DiskHolds ==
    ASSUME NoRecycle, DiskInv, NEW m \in Mutations, Local(m), touched' = touched, adopted' = adopted,
           ~adopted => HeldOf(m)'
    PROVE  DiskInv'
<1>1. ~adopted' => \A n \in Mutations : HeldOf(n)'
  BY OthersStay DEF DiskInv
<1>2. touched' = {} => \A p \in Paths : disk'[p][2] # "edited"
  BY DEF DiskInv, Local
<1> QED BY <1>1, <1>2 DEF DiskInv

LEMMA DiskSame ==
    ASSUME DiskInv, disk' = disk, touched' = touched, adopted => adopted'
    PROVE  DiskInv'
BY SameFiles DEF DiskInv

-----------------------------------------------------------------------------
(* The evidence of the rows *)

LEMMA KeptStep ==
    ASSUME TypeOK, KeptInv, NEW m \in Mutations, NEW s \in RowStates,
           \/ Becomes(m, s) /\ (s \in Undoable => row[m].state \in Undoable)
           \/ BecomesFor(m, s) /\ s \notin Undoable
    PROVE  KeptInv'
<1>1. row \in [Mutations -> RowType]
  BY TypeParts
<1>2. row'[m].state = s /\ \A n \in Mutations : n # m => row'[n] = row[n]
  BY <1>1, RowTypes
<1>3. s \in Undoable => row'[m].kept = row[m].kept
  BY <1>1 DEF Becomes, RowType
<1> QED BY <1>2, <1>3 DEF KeptInv

LEMMA MutationKept ==
    ASSUME TypeOK, KeptInv, NEW m \in Mutations,
           \/ EnsureJournal(m) \/ Stage(m) \/ Advance(m) \/ BackUp(m) \/ MarkBackedUp(m)
           \/ Place(m) \/ MarkPublished(m) \/ Cleanup(m) \/ UndoMark(m) \/ UndoRestore(m)
           \/ RemainingBackUp(m) \/ RemainingPlace(m) \/ RemainingMark(m) \/ Tidy(m)
           \/ Mark(m) \/ Restore(m) \/ Close(m) \/ Attend(m)
    PROVE  KeptInv'
<1>1. ASSUME NEW s \in Undoable, row[m].state \in Undoable, Becomes(m, s)
      PROVE  KeptInv'
  BY <1>1, KeptStep DEF RowStates
<1>2. ASSUME NEW s \in Committed \cup Undone \cup {"needs_attention"}, Becomes(m, s) \/ BecomesFor(m, s)
      PROVE  KeptInv'
  BY <1>2, KeptStep DEF RowStates, Undoable, Early, Committed, Undone
<1>3. CASE row' = row
  BY <1>3 DEF KeptInv
<1>4. CASE row' = [row EXCEPT ![m] = [state |-> "planned", kept |-> TRUE]]
  BY <1>4, TypeParts DEF KeptInv
<1>5. CASE EnsureJournal(m) \/ Stage(m) \/ BackUp(m) \/ Place(m)
  BY <1>3, <1>4, <1>5 DEF EnsureJournal, Stage, BackUp, Place
<1>6. CASE Advance(m)
  BY <1>1, <1>3, <1>6 DEF Advance, Early, Undoable
<1>7. CASE MarkBackedUp(m) \/ MarkPublished(m) \/ RemainingBackUp(m) \/ RemainingPlace(m) \/ RemainingMark(m)
  BY <1>1, <1>3, <1>7 DEF MarkBackedUp, MarkPublished, RemainingBackUp, RemainingPlace,
     RemainingMark,
                          ReadyToPlace, Early, Undoable
<1>8. CASE Cleanup(m) \/ Tidy(m)
  BY <1>2, <1>3, <1>8 DEF Cleanup, Tidy, Committed
<1>9. CASE UndoMark(m) \/ UndoRestore(m) \/ Mark(m) \/ Restore(m) \/ Close(m) \/ Attend(m)
  BY <1>2, <1>3, <1>9 DEF UndoMark, UndoRestore, GivesUp, Mark, Restore, Close, Attend, Undone
<1> QED BY <1>5, <1>6, <1>7, <1>8, <1>9

LEMMA NextKept ==
    ASSUME TypeOK, KeptInv, [Next]_vars
    PROVE  KeptInv'
<1>1. CASE row' = row
  BY <1>1 DEF KeptInv
<1>2. CASE Commit \/ Recommit
  <2>1. \A m \in Mutations : row'[m] = row[m] \/ row'[m].state = "catalog_committed"
    BY <1>2, TypeParts DEF Commit, Recommit, Adopts, RowType
  <2> QED BY <2>1 DEF KeptInv, Undoable, Early
<1>3. CASE Fault
  <2>1. ASSUME NEW m \in mem.todo, Becomes(m, "cleanup_pending") \/ GivesUp(m)
        PROVE  KeptInv'
    BY <2>1, KeptStep, TypeParts DEF GivesUp, MemType, RowStates, Committed, Undoable, Early
  <2> QED BY <1>1, <1>3, <2>1 DEF Fault
<1>4. CASE Work
  <2>1. CASE Begin \/ Recheck \/ CommitRejected \/ CleanedUp \/ UndoDone \/ Refuse \/ Finish
    BY <1>1, <2>1 DEF Begin, Recheck, CommitRejected, CleanedUp, UndoDone, Refuse, Finish
  <2>2. CASE \/ Reclaim \/ Recover \/ Started \/ ResumeFailed \/ Preflight \/ RemainingDone
             \/ RecommitRejected \/ TidyCheck \/ Settle \/ Compensate \/ NextPhase \/ Fail \/ Restart
    BY <1>1, <2>2 DEF Reclaim, Recover, Started, ResumeFailed, Preflight, RemainingDone,
       RecommitRejected,
                      TidyCheck, Settle, Compensate, NextPhase, Fail, Restart
  <2> QED BY <1>2, <1>4, <2>1, <2>2, MutationKept DEF Work
<1>5. CASE \/ Stop \/ OtherBundleFails
           \/ \E c \in {"settingsChanged", "rootsChanged"} : Reconfigure(c)
           \/ \E p \in Paths : OtherWrites(p)
           \/ UNCHANGED vars
  BY <1>1, <1>5 DEF Stop, OtherBundleFails, Reconfigure, OtherWrites, vars, world
<1> QED BY <1>3, <1>4, <1>5 DEF Next

-----------------------------------------------------------------------------
(* The publisher's renames *)

FilesInv == DiskInv /\ CarriedInv /\ PlacedInv /\ ResumedInv

\* Where nothing is remembered of what was moved.
Free(pc) == pc \notin {"begin", "publish", "commit", "undo", "preflight", "remaining", "recommit"} \cup Preparing

LEMMA FreeStep ==
    ASSUME DiskInv', Free(mem'.pc)
    PROVE  FilesInv'
BY DEF FilesInv, CarriedInv, PlacedInv, ResumedInv, Free, Preparing

\* Nothing has been moved yet.
LEMMA EarlyStep ==
    ASSUME DiskInv', mem'.pc \in {"begin", "undo"} \cup Preparing,
           mem'.backedUp = {}, mem'.published = {}
    PROVE  FilesInv'
BY DEF FilesInv, CarriedInv, CarriedOf, PlacedInv, ResumedInv, Preparing

LEMMA RaisesFiles ==
    ASSUME TypeOK, FilesInv, Raises, UNCHANGED <<disk, adopted, touched>>,
           mem.pc \in {"publish", "commit"} \cup Preparing
    PROVE  FilesInv'
<1>1. mem'.pc = "undo" /\ mem'.backedUp = mem.backedUp /\ mem'.published = mem.published
  BY Raising, TypeParts
<1>2. DiskInv'
  BY DiskSame DEF FilesInv
<1>3. CASE mem.pc \in Preparing
  BY <1>1, <1>2, <1>3, EarlyStep DEF FilesInv, CarriedInv
<1>4. CASE mem.pc \in {"publish", "commit"}
  <2>1. CarriedInv'
    BY <1>1, <1>4 DEF FilesInv, CarriedInv, CarriedOf, Preparing, Holds
  <2> QED BY <1>1, <1>2, <2>1 DEF FilesInv, PlacedInv, ResumedInv
<1> QED BY <1>3, <1>4

LEMMA BeginFiles ==
    ASSUME TypeOK, FilesInv, Begin
    PROVE  FilesInv'
<1>1. mem \in MemType /\ mem.backedUp = {} /\ mem.published = {} /\ UNCHANGED <<disk, adopted, touched>>
  BY TypeParts DEF Begin, At, FilesInv, CarriedInv, world
<1>2. mem'.pc \in {"ensure", "undo"} /\ mem'.backedUp = {} /\ mem'.published = {}
  BY <1>1, Starting DEF Begin, Pcs
<1>3. DiskInv'
  BY <1>1, DiskSame DEF FilesInv
<1> QED BY <1>2, <1>3, EarlyStep DEF Preparing

LEMMA PrepareFiles ==
    ASSUME NoRecycle, TypeOK, FilesInv, NEW m \in Mutations, EnsureJournal(m) \/ Stage(m) \/ Advance(m)
    PROVE  FilesInv'
<1>1. /\ mem \in MemType /\ disk \in [Paths -> Bytes] /\ mem.backedUp = {} /\ mem.published = {}
      /\ UNCHANGED <<adopted, touched>> /\ mem.pc \in Preparing
  BY TypeParts DEF EnsureJournal, Stage, Advance, At, FilesInv, CarriedInv, Preparing, world
<1>2. DiskInv'
  <2>1. CASE disk' = disk
    BY <1>1, <2>1, DiskSame DEF FilesInv
  <2>2. CASE disk' # disk
    <3>1. disk' = [disk EXCEPT ![Temp(m)] = IF Staged(m) = Old(m) THEN disk[Source(m)] ELSE Staged(m)]
      BY <2>2 DEF EnsureJournal, Stage, Advance
    <3>2. /\ \A p \in Paths : p # Temp(m) => disk'[p] = disk[p]
          /\ disk'[Temp(m)] \in {disk[Source(m)], Staged(m)}
      BY <1>1, <3>1, PathsApart
    <3>3. Local(m)
      BY <3>2, PathsApart, BytesApart DEF Local
    <3>4. ~adopted => HeldOf(m)'
      BY <3>2, PathsApart DEF FilesInv, DiskInv, HeldOf
    <3> QED BY <1>1, <3>3, <3>4, DiskHolds DEF FilesInv
  <2> QED BY <2>1, <2>2
<1>3. mem'.backedUp = {} /\ mem'.published = {}
  BY <1>1, Raising, Going DEF EnsureJournal, Stage, Advance, MemType, Pcs
<1>4. mem'.pc \in {"undo"} \cup Preparing
  BY <1>1, Raising, Going DEF EnsureJournal, Stage, Advance, MemType, Pcs, Preparing
<1> QED BY <1>2, <1>3, <1>4, EarlyStep

LEMMA RecheckFiles ==
    ASSUME NoRecycle, TypeOK, JournalInv, FilesInv, Recheck
    PROVE  FilesInv'
<1>1. /\ mem \in MemType /\ mem.backedUp = {} /\ mem.published = {} /\ mem.pc = "recheck"
      /\ UNCHANGED <<disk, row, adopted, touched>>
  BY TypeParts DEF Recheck, At, FilesInv, CarriedInv, Preparing, world
<1>2. CASE Raises
  BY <1>1, <1>2, RaisesFiles DEF Preparing
<1>3. CASE Starts("publish", mem.ready) /\ \A m \in mem.ready : StillPublishable(m)
  <2>1. mem'.pc = "publish" /\ mem'.todo = mem.ready /\ mem'.backedUp = {} /\ mem'.published = {}
    BY <1>1, <1>3, Starting DEF Pcs, MemType
  <2>2. \A m \in Mutations : m \in mem.ready /\ row[m].state = "validated"
    BY <1>1 DEF JournalInv, PublisherInv, Preparing
  <2>3. \A m \in Mutations : PlacedOf(m)'
    BY <1>1, <1>3, <2>1, <2>2, BytesApart DEF PlacedOf, StillPublishable, StillStaged, Holds
  <2>4. \A m \in Mutations : CarriedOf(m)'
    BY <2>1 DEF CarriedOf
  <2>5. DiskInv'
    BY <1>1, DiskSame DEF FilesInv
  <2> QED BY <2>1, <2>3, <2>4, <2>5 DEF FilesInv, CarriedInv, PlacedInv, ResumedInv, Preparing
<1> QED BY <1>2, <1>3 DEF Recheck

\* The publisher works on one mutation.
LEMMA PublishOne ==
    ASSUME NoRecycle, TypeOK, FilesInv, mem.pc = "publish", NEW m \in Mutations,
           Local(m) \/ disk' = disk,
           DiskInv', mem'.pc = "publish",
           \A n \in Mutations : n # m => /\ row'[n] = row[n]
                                         /\ n \in mem'.todo <=> n \in mem.todo
                                         /\ n \in mem'.backedUp <=> n \in mem.backedUp
                                         /\ n \in mem'.published <=> n \in mem.published,
           PlacedOf(m)', CarriedOf(m)'
    PROVE  FilesInv'
<1>1. ASSUME NEW n \in Mutations, n # m
      PROVE  PlacedOf(n)' /\ CarriedOf(n)'
  <2>1. /\ disk'[Source(n)] = disk[Source(n)] /\ disk'[Temp(n)] = disk[Temp(n)]
        /\ disk'[Backup(n)] = disk[Backup(n)] /\ (ShownOf(n)' <=> ShownOf(n))
    BY <1>1, OthersStay, SameFiles
  <2>2. PlacedOf(n) /\ CarriedOf(n)
    BY DEF FilesInv, PlacedInv, CarriedInv
  <2> QED BY <1>1, <2>1, <2>2 DEF PlacedOf, CarriedOf, Holds
<1> QED BY <1>1 DEF FilesInv, CarriedInv, PlacedInv, ResumedInv, Preparing

LEMMA BackUpMoves ==
    ASSUME NoRecycle, TypeOK, JournalInv, FilesInv, NEW m \in Mutations, BackUp(m)
    PROVE  /\ ~adopted /\ InPlace(m) /\ Local(m) /\ HeldOf(m)'
           /\ disk'[Backup(m)] \in {Old(m), Edited(m)}
           /\ disk'[Source(m)] = Missing /\ disk'[Temp(m)] = disk[Temp(m)]
<1>1. /\ Local(m) /\ disk'[Backup(m)] = disk[Source(m)] /\ disk'[Source(m)] = Missing
      /\ disk'[Temp(m)] = disk[Temp(m)]
  BY PathsApart, RenameIsLocal DEF BackUp
<1>2. /\ ~adopted /\ InPlace(m) /\ HasSource(m) /\ m \in mem.todo \ mem.backedUp /\ PlacedOf(m)
  BY PublishingRows, BytesApart DEF BackUp, At, Next1, FilesInv, PlacedInv
<1>3. disk[Source(m)] \in {Old(m), Edited(m)}
  BY <1>2, BytesApart DEF PlacedOf, Holds, FilesInv, DiskInv, HeldOf
<1> QED BY <1>1, <1>2, <1>3 DEF HeldOf

LEMMA BackUpFiles ==
    ASSUME NoRecycle, TypeOK, JournalInv, FilesInv, NEW m \in Mutations, BackUp(m)
    PROVE  FilesInv'
<1>1. /\ ~adopted /\ InPlace(m) /\ Local(m) /\ HeldOf(m)'
      /\ disk'[Backup(m)] \in {Old(m), Edited(m)}
      /\ disk'[Source(m)] = Missing /\ disk'[Temp(m)] = disk[Temp(m)]
  BY BackUpMoves
<1>2. mem.pc = "publish" /\ m \in mem.todo \ mem.backedUp /\ UNCHANGED <<row, adopted, touched>>
  BY DEF BackUp, At, Next1, world
<1>3. /\ mem'.pc = mem.pc /\ mem'.todo = mem.todo /\ mem'.backedUp = mem.backedUp \cup {m}
      /\ mem'.published = mem.published
  BY TypeParts DEF BackUp, MemType
<1>4. DiskInv'
  BY <1>1, <1>2, DiskHolds DEF FilesInv
<1>5. PlacedOf(m) /\ m \notin mem.published
  BY <1>1, <1>2 DEF FilesInv, PlacedInv, PlacedOf
<1>6. PlacedOf(m)' /\ CarriedOf(m)'
  BY <1>1, <1>2, <1>3, <1>5 DEF PlacedOf, CarriedOf, Holds
<1> QED BY <1>1, <1>2, <1>3, <1>4, <1>6, PublishOne

LEMMA MarkBackedUpFiles ==
    ASSUME NoRecycle, TypeOK, FilesInv, NEW m \in Mutations, MarkBackedUp(m)
    PROVE  FilesInv'
<1>1. /\ mem.pc = "publish" /\ m \in mem.todo /\ m \in mem.backedUp
      /\ UNCHANGED <<disk, adopted, mem, touched>>
  BY DEF MarkBackedUp, At, Next1, world
<1>2. \A n \in Mutations : n # m => row'[n] = row[n]
  BY TypeParts DEF MarkBackedUp, Becomes
<1>3. DiskInv'
  BY <1>1, DiskSame DEF FilesInv
<1>4. PlacedOf(m)' /\ CarriedOf(m)'
  BY <1>1, SameFiles DEF FilesInv, PlacedInv, CarriedInv, PlacedOf, CarriedOf, Holds
<1> QED BY <1>1, <1>2, <1>3, <1>4, PublishOne

LEMMA PlaceMoves ==
    ASSUME NoRecycle, TypeOK, JournalInv, FilesInv, NEW m \in Mutations, Place(m)
    PROVE  /\ ~adopted /\ ~Is(m, {"delete"}) /\ Local(m) /\ HeldOf(m)' /\ ShownOf(m)'
           /\ disk'[Backup(m)] = disk[Backup(m)]
           /\ InPlace(m) => m \in mem.backedUp
<1>1. /\ Local(m) /\ disk'[Destination(m)] = disk[Temp(m)] /\ disk'[Backup(m)] = disk[Backup(m)]
      /\ ~InPlace(m) => disk'[Source(m)] = disk[Source(m)]
  BY PathsApart, RenameIsLocal DEF Place
<1>2. /\ ~adopted /\ ~Is(m, {"delete"}) /\ m \in mem.todo \ mem.published /\ PlacedOf(m) /\ CarriedOf(m)
      /\ ReadyToPlace(m)
  BY PublishingRows DEF Place, Placed, At, Next1, FilesInv, PlacedInv, CarriedInv
<1>3. ShownOf(m)'
  BY <1>1, <1>2 DEF PlacedOf, ShownOf, Holds
<1>4. InPlace(m) => m \in mem.backedUp
  BY <1>2, BytesApart DEF PlacedOf, ReadyToPlace
<1>5. CASE InPlace(m)
  BY <1>1, <1>2, <1>3, <1>4, <1>5 DEF CarriedOf, HeldOf
<1>6. CASE ~InPlace(m)
  <2>1. HeldOf(m)
    BY <1>2 DEF FilesInv, DiskInv
  <2>2. HeldOf(m)'
    BY <1>1, <1>6, <2>1 DEF HeldOf
  <2> QED BY <1>1, <1>2, <1>3, <1>6, <2>2
<1> QED BY <1>5, <1>6

LEMMA PlaceFiles ==
    ASSUME NoRecycle, TypeOK, JournalInv, FilesInv, NEW m \in Mutations, Place(m)
    PROVE  FilesInv'
<1>1. /\ ~adopted /\ ~Is(m, {"delete"}) /\ Local(m) /\ HeldOf(m)' /\ ShownOf(m)'
      /\ disk'[Backup(m)] = disk[Backup(m)]
      /\ InPlace(m) => m \in mem.backedUp
  BY PlaceMoves
<1>2. mem.pc = "publish" /\ m \in mem.todo /\ UNCHANGED <<row, adopted, touched>>
  BY DEF Place, At, Next1, world
<1>3. /\ mem'.pc = mem.pc /\ mem'.todo = mem.todo /\ mem'.backedUp = mem.backedUp
      /\ mem'.published = mem.published \cup {m}
  BY TypeParts DEF Place, MemType
<1>4. DiskInv'
  BY <1>1, <1>2, DiskHolds DEF FilesInv
<1>5. PlacedOf(m)' /\ CarriedOf(m)'
  BY <1>1, <1>2, <1>3 DEF FilesInv, PlacedInv, CarriedInv, PlacedOf, CarriedOf
<1> QED BY <1>1, <1>2, <1>3, <1>4, <1>5, PublishOne

LEMMA MarkPublishedFiles ==
    ASSUME NoRecycle, TypeOK, JournalInv, FilesInv, NEW m \in Mutations, MarkPublished(m)
    PROVE  FilesInv'
<1>1. /\ mem.pc = "publish" /\ m \in mem.todo /\ ReadyToPlace(m) /\ Placed(m)
      /\ UNCHANGED <<disk, adopted, touched>>
  BY DEF MarkPublished, At, Next1, world
<1>2. \A n \in Mutations : n # m => row'[n] = row[n]
  BY TypeParts DEF MarkPublished, Becomes
<1>3. /\ mem'.pc = (IF mem.todo = {m} THEN "commit" ELSE "publish") /\ mem'.todo = mem.todo \ {m}
      /\ mem'.published = mem.published \cup {m} /\ mem'.backedUp = mem.backedUp
  BY TypeParts DEF MarkPublished, MemType
<1>4. DiskInv'
  BY <1>1, DiskSame DEF FilesInv
<1>5. PlacedOf(m) /\ CarriedOf(m)
  BY <1>1 DEF FilesInv, PlacedInv, CarriedInv
<1>6. ShownOf(m) /\ (Is(m, {"delete"}) => Holds(Source(m), Missing))
  <2>1. CASE Is(m, {"delete"})
    BY <1>1, <1>5, <2>1, BytesApart DEF ReadyToPlace, PlacedOf, ShownOf
  <2>2. CASE ~Is(m, {"delete"})
    BY <1>1, <1>5, <2>2 DEF Placed, PlacedOf
  <2> QED BY <2>1, <2>2
<1>7. PlacedOf(m)' /\ CarriedOf(m)'
  BY <1>1, <1>3, <1>5, <1>6, SameFiles DEF PlacedOf, CarriedOf, Holds
<1>8. CASE mem'.pc = "publish"
  BY <1>1, <1>2, <1>3, <1>4, <1>7, <1>8, PublishOne
<1>9. CASE mem'.pc = "commit"
  <2>1. \A n \in Mutations : ShownOf(n)'
    BY <1>1, <1>3, <1>6, <1>9, SameFiles DEF FilesInv, PlacedInv, PlacedOf
  <2>2. \A n \in Mutations : CarriedOf(n)'
    BY <1>1, <1>3, <1>7 DEF FilesInv, CarriedInv, CarriedOf, Holds
  <2> QED BY <1>4, <1>9, <2>1, <2>2 DEF FilesInv, CarriedInv, PlacedInv, ResumedInv, Preparing
<1> QED BY <1>3, <1>8, <1>9

-----------------------------------------------------------------------------
(* Cleanup and the two rollbacks *)

LEMMA CleanupFiles ==
    ASSUME NoRecycle, TypeOK, JournalInv, FilesInv, NEW m \in Mutations, Cleanup(m) \/ Tidy(m)
    PROVE  FilesInv' /\ adopted /\ (disk' = disk \/ Local(m)) /\ UNCHANGED <<adopted, touched>>
<1>1. adopted /\ mem \in MemType /\ mem.pc \in {"cleanup", "tidy"} /\ UNCHANGED <<adopted, touched>>
  BY TypeParts DEF Cleanup, Tidy, At, JournalInv, AdoptionInv, CleaningUp, world
<1>2. mem'.pc \in {"cleanup", "tidy", "attention"}
  BY <1>1, Passing, Starting DEF Cleanup, Tidy, MemType, Pcs, Rows
<1>3. disk' = disk \/ Local(m)
  <2>1. Disposable(m) \in Paths /\ Disposable(m)[1] = m
    BY PathsApart DEF Disposable
  <2> QED BY <2>1, PathsApart, UnlinkIsLocal DEF Cleanup, Tidy
<1>4. DiskInv'
  BY <1>1, <1>3, DiskSame, DiskHolds DEF FilesInv
<1> QED BY <1>1, <1>2, <1>3, <1>4, FreeStep DEF Free, Preparing

\* Of one mutation that is undone.
LEMMA UndoOne ==
    ASSUME NoRecycle, FilesInv, mem.pc = "undo", mem'.pc = "undo", NEW m \in Mutations,
           Local(m) \/ disk' = disk, DiskInv', CarriedOf(m)',
           \A n \in Mutations : n # m => /\ n \in mem'.backedUp <=> n \in mem.backedUp
                                         /\ n \in mem'.published <=> n \in mem.published
    PROVE  FilesInv'
<1>1. ASSUME NEW n \in Mutations, n # m
      PROVE  CarriedOf(n)'
  <2>1. disk'[Source(n)] = disk[Source(n)] /\ disk'[Backup(n)] = disk[Backup(n)]
    BY <1>1, OthersStay
  <2> QED BY <1>1, <2>1 DEF FilesInv, CarriedInv, CarriedOf, Holds
<1> QED BY <1>1 DEF FilesInv, CarriedInv, PlacedInv, ResumedInv, Preparing

LEMMA UndoMarkFiles ==
    ASSUME NoRecycle, TypeOK, FilesInv, NEW m \in Mutations,
           At("undo"), UNCHANGED <<disk, adopted, touched>>, Passes(m) \/ UNCHANGED mem
    PROVE  FilesInv'
<1>1. /\ mem.pc = "undo" /\ mem'.pc = "undo" /\ mem'.backedUp = mem.backedUp
      /\ mem'.published = mem.published
  BY Passing, TypeParts DEF At
<1>2. DiskInv'
  BY DiskSame DEF FilesInv
<1>3. CarriedOf(m)'
  BY <1>1 DEF FilesInv, CarriedInv, CarriedOf, Holds
<1> QED BY <1>1, <1>2, <1>3, UndoOne

LEMMA UndoRestoreMoves ==
    ASSUME NoRecycle, TypeOK, JournalInv, FilesInv, NEW m \in Mutations, UndoRestore(m)
    PROVE  /\ ~adopted /\ mem.pc = "undo" /\ mem'.pc = "undo" /\ (Local(m) \/ disk' = disk) /\ HeldOf(m)'
           /\ CarriedOf(m)'
           /\ \A n \in Mutations : n # m => /\ n \in mem'.backedUp <=> n \in mem.backedUp
                                            /\ n \in mem'.published <=> n \in mem.published
<1>1. ~adopted /\ mem.pc = "undo" /\ mem \in MemType /\ CarriedOf(m) /\ HeldOf(m)
  BY TypeParts DEF UndoRestore, At, JournalInv, AdoptionInv, CleaningUp, AtAnyTime, FilesInv,
     CarriedInv, DiskInv
<1>2. CASE Unlinks(Destination(m)) /\ MustWithdraw(m) /\ Holds(Destination(m), Staged(m)) /\ UNCHANGED mem
  <2>1. Local(m) /\ disk'[Backup(m)] = disk[Backup(m)] /\ (~InPlace(m) => disk'[Source(m)] = disk[Source(m)])
    BY <1>2, PathsApart, UnlinkIsLocal
  <2>2. ~Is(m, {"delete"})
    BY <1>1, <1>2, PathsApart, BytesApart DEF CarriedOf, MustWithdraw
  <2>3. HeldOf(m)'
    <3>1. CASE InPlace(m)
      BY <1>1, <1>2, <2>1, <2>2, <3>1, PathsApart, BytesApart DEF HeldOf, Holds
    <3>2. CASE ~InPlace(m)
      BY <1>1, <2>1, <3>2 DEF HeldOf
    <3> QED BY <3>1, <3>2
  <2>4. CarriedOf(m)'
    BY <1>1, <1>2, <2>1, <2>2 DEF CarriedOf
  <2> QED BY <1>1, <1>2, <2>1, <2>3, <2>4
<1>3. CASE /\ m \in mem.backedUp /\ Renames(Backup(m), Source(m))
           /\ mem' = [mem EXCEPT !.backedUp = mem.backedUp \ {m}, !.published = mem.published \ {m}]
  <2>1. Local(m) /\ disk'[Source(m)] = disk[Backup(m)]
    BY <1>3, PathsApart, RenameIsLocal
  <2>2. /\ mem'.pc = mem.pc /\ mem'.backedUp = mem.backedUp \ {m} /\ mem'.published = mem.published \ {m}
    BY <1>1, <1>3 DEF MemType
  <2>3. HeldOf(m)' /\ CarriedOf(m)'
    BY <1>1, <1>3, <2>1, <2>2 DEF CarriedOf, HeldOf
  <2> QED BY <1>1, <2>1, <2>2, <2>3
<1>4. CASE Unlinks(Temp(m)) /\ UNCHANGED mem
  <2>1. Local(m) /\ disk'[Backup(m)] = disk[Backup(m)] /\ disk'[Source(m)] = disk[Source(m)]
    BY <1>4, PathsApart, UnlinkIsLocal
  <2> QED BY <1>1, <1>4, <2>1 DEF CarriedOf, HeldOf, Holds
<1>5. CASE Passes(m) /\ UNCHANGED disk
  <2>1. mem'.pc = mem.pc /\ mem'.backedUp = mem.backedUp /\ mem'.published = mem.published
    BY <1>1, <1>5, Passing
  <2> QED BY <1>1, <1>5, <2>1, SameFiles DEF CarriedOf, Holds
<1> QED BY <1>2, <1>3, <1>4, <1>5 DEF UndoRestore, GivesUp

LEMMA UndoDoneMoves ==
    ASSUME NoRecycle, TypeOK, UndoDone
    PROVE  /\ \A p \in Paths : p[2] # "temp" => disk'[p] = disk[p]
           /\ \A m \in Mutations : (HeldOf(m)' <=> HeldOf(m)) /\ (ShownOf(m)' <=> ShownOf(m))
           /\ \A p \in Paths : disk'[p] \in {disk[p], Missing}
<1>1. /\ \A p \in Paths : p[2] # "temp" => disk'[p] = disk[p]
      /\ \A p \in Paths : disk'[p] \in {disk[p], Missing}
  BY DEF UndoDone
<1>2. ASSUME NEW m \in Mutations
      PROVE  /\ disk'[Source(m)] = disk[Source(m)] /\ disk'[Backup(m)] = disk[Backup(m)]
             /\ disk'[Destination(m)] = disk[Destination(m)]
  <2>1. Source(m)[2] # "temp" /\ Backup(m)[2] # "temp" /\ Destination(m)[2] # "temp"
    BY DEF Source, Backup, Destination, Collider, NoRecycle
  <2> QED BY <1>1, <2>1, PathsApart
<1> QED BY <1>1, <1>2 DEF HeldOf, ShownOf, Holds

LEMMA RestoreMoves ==
    ASSUME NoRecycle, TypeOK, JournalInv, FilesInv, NEW m \in Mutations, Restore(m)
    PROVE  ~adopted /\ (Local(m) \/ disk' = disk) /\ HeldOf(m)'
<1>1. ~adopted /\ HeldOf(m)
  BY DEF Restore, At, JournalInv, AdoptionInv, CleaningUp, AtAnyTime, FilesInv, DiskInv
<1>2. CASE Withdraws(m) /\ Unlinks(Destination(m))
  <2>1. Local(m) /\ disk'[Backup(m)] = disk[Backup(m)] /\ (~InPlace(m) => disk'[Source(m)] = disk[Source(m)])
    BY <1>2, PathsApart, UnlinkIsLocal
  <2> QED BY <1>1, <1>2, <2>1 DEF Withdraws, HeldOf, Holds
<1>3. CASE PutsBack(m) /\ Renames(Backup(m), Source(m))
  <2>1. Local(m) /\ disk'[Source(m)] = disk[Backup(m)]
    BY <1>3, PathsApart, RenameIsLocal
  <2> QED BY <1>1, <1>3, <2>1 DEF PutsBack, HeldOf, Holds
<1>4. CASE Unlinks(Temp(m))
  <2>1. Local(m) /\ disk'[Backup(m)] = disk[Backup(m)] /\ disk'[Source(m)] = disk[Source(m)]
    BY <1>4, PathsApart, UnlinkIsLocal
  <2> QED BY <1>1, <2>1 DEF HeldOf
<1>5. CASE disk' = disk
  BY <1>1, <1>5, SameFiles
<1> QED BY <1>2, <1>3, <1>4, <1>5 DEF Restore

LEMMA UndoFiles ==
    ASSUME NoRecycle, TypeOK, JournalInv, FilesInv, NEW m \in Mutations,
           UndoMark(m) \/ UndoRestore(m) \/ Mark(m) \/ Restore(m) \/ Close(m) \/ Attend(m)
    PROVE  FilesInv'
<1>1. UNCHANGED <<adopted, touched>> /\ mem \in MemType
  BY TypeParts DEF UndoMark, UndoRestore, Mark, Restore, Close, Attend, world
<1>2. CASE UndoMark(m)
  BY <1>1, <1>2, UndoMarkFiles DEF UndoMark
<1>3. CASE UndoRestore(m)
  <2>1. DiskInv'
    BY <1>1, <1>3, UndoRestoreMoves, DiskHolds, DiskSame DEF FilesInv
  <2> QED BY <1>3, <2>1, UndoRestoreMoves, UndoOne
<1>4. CASE Restore(m)
  <2>1. DiskInv'
    BY <1>1, <1>4, RestoreMoves, DiskHolds, DiskSame DEF FilesInv
  <2>2. mem'.pc = "restore"
    BY <1>1, <1>4, Passing DEF Restore, At
  <2> QED BY <2>1, <2>2, FreeStep DEF Free, Preparing
<1>5. CASE Mark(m) \/ Close(m) \/ Attend(m)
  <2>1. mem'.pc \in {"mark", "close", "attention"} /\ disk' = disk
    BY <1>1, <1>5, Passing DEF Mark, Close, Attend, At
  <2>2. DiskInv'
    BY <1>1, <2>1, DiskSame DEF FilesInv
  <2> QED BY <2>1, <2>2, FreeStep DEF Free, Preparing
<1> QED BY <1>2, <1>3, <1>4, <1>5

-----------------------------------------------------------------------------
(* Recovery publishes what is left *)

LEMMA PreflightFiles ==
    ASSUME NoRecycle, TypeOK, JournalInv, KeptInv, FilesInv, Preflight
    PROVE  FilesInv'
<1>1. /\ mem \in MemType /\ mem.pc = "preflight" /\ Rows = Mutations /\ UNCHANGED <<disk, row, adopted, touched>>
      /\ \A m \in Mutations : m \in mem.todo /\ row[m].state \in Undoable /\ row[m].kept
  BY TypeParts DEF Preflight, At, JournalInv, WholeInv, Resuming, FilesInv, ResumedInv, KeptInv,
     world
<1>2. DiskInv'
  BY <1>1, DiskSame DEF FilesInv
<1>3. CASE mem'.pc = "attention"
  BY <1>2, <1>3, FreeStep DEF Free, Preparing
<1>4. CASE mem'.pc # "attention"
  <2>1. /\ mem'.pc = "remaining" /\ mem'.todo = mem.todo
        /\ \A m \in Mutations : Explained(m)
    BY <1>1, <1>4, Going DEF Preflight, Pcs
  <2>2. ASSUME NEW m \in Mutations
        PROVE  ResumedOf(m)
    <3>1. CASE Is(m, {"delete"})
      <4>1. BackupExplained(m)
        BY <1>1, <2>1, <3>1 DEF Explained, KnownDelete
      <4> QED BY <3>1, <4>1 DEF BackupExplained, SafelyBackedUp, ResumedOf, ShownOf
    <3>2. CASE InPlace(m) /\ ~Is(m, {"delete"})
      <4>1. ~KnownDelete(m) /\ ~KnownRecycle(m)
        BY <3>2 DEF KnownDelete, KnownRecycle, NoRecycle
      <4>2. \/ row[m].state = "validated"
            \/ row[m].state = "source_backed_up" /\ Holds(Backup(m), Old(m))
            \/ row[m].state = "published" /\ Holds(Destination(m), Staged(m))
        BY <2>1, <3>2, <4>1 DEF Explained
      <4> QED BY <3>2, <4>2 DEF ResumedOf, ShownOf
    <3>3. CASE ~InPlace(m)
      <4>1. ~KnownDelete(m) /\ ~KnownRecycle(m) /\ ~Is(m, {"delete"})
        BY <3>3, BytesApart DEF KnownDelete, KnownRecycle, NoRecycle
      <4>2. \/ row[m].state = "validated"
            \/ row[m].state = "published" /\ Holds(Destination(m), Staged(m))
        BY <2>1, <3>3, <4>1 DEF Explained
      <4> QED BY <3>3, <4>1, <4>2 DEF ResumedOf, ShownOf
    <3> QED BY <3>1, <3>2, <3>3
  <2>3. \A m \in Mutations : ResumedOf(m)'
    BY <1>1, <2>2, SameFiles DEF ResumedOf, Holds
  <2> QED BY <1>1, <1>2, <2>1, <2>3 DEF FilesInv, CarriedInv, PlacedInv, ResumedInv, Preparing
<1> QED BY <1>3, <1>4

LEMMA ResumeOne ==
    ASSUME NoRecycle, FilesInv, mem.pc = "remaining", mem'.pc = "remaining", NEW m \in Mutations,
           Local(m) \/ disk' = disk, DiskInv', ResumedOf(m)',
           m \notin mem'.todo => row'[m].state = "published",
           \A n \in Mutations : n # m => row'[n] = row[n] /\ (n \in mem'.todo <=> n \in mem.todo)
    PROVE  FilesInv'
<1>1. ASSUME NEW n \in Mutations, n # m
      PROVE  ResumedOf(n)' /\ (n \notin mem'.todo => row'[n].state = "published")
  <2>1. /\ disk'[Source(n)] = disk[Source(n)] /\ disk'[Backup(n)] = disk[Backup(n)]
        /\ ShownOf(n)' <=> ShownOf(n)
    BY <1>1, OthersStay, SameFiles
  <2>2. ResumedOf(n) /\ (n \notin mem.todo => row[n].state = "published")
    BY DEF FilesInv, ResumedInv
  <2> QED BY <1>1, <2>1, <2>2 DEF ResumedOf, Holds
<1> QED BY <1>1 DEF FilesInv, CarriedInv, PlacedInv, ResumedInv, Preparing

LEMMA ResumeMoves ==
    ASSUME NoRecycle, TypeOK, JournalInv, FilesInv, NEW m \in Mutations,
           RemainingBackUp(m) \/ RemainingPlace(m) \/ RemainingMark(m)
    PROVE  ~adopted /\ (Local(m) \/ disk' = disk) /\ HeldOf(m)' /\ ResumedOf(m)'
<1>1. ~adopted /\ HeldOf(m) /\ ResumedOf(m) /\ m \in Mutations /\ row \in [Mutations -> RowType]
  BY TypeParts DEF RemainingBackUp, RemainingPlace, RemainingMark, At, JournalInv, AdoptionInv,
     CleaningUp,
         AtAnyTime, FilesInv, DiskInv, ResumedInv
<1>2. CASE RemainingBackUp(m) /\ Renames(Source(m), Backup(m)) /\ Holds(Source(m), Old(m)) /\ UNCHANGED row
  <2>1. Local(m) /\ disk'[Backup(m)] = disk[Source(m)]
    BY <1>2, PathsApart, RenameIsLocal
  <2> QED BY <1>1, <1>2, <2>1 DEF RemainingBackUp, HeldOf, ResumedOf, Holds
<1>3. CASE RemainingBackUp(m) /\ SafelyBackedUp(m) /\ Becomes(m, "source_backed_up") /\ UNCHANGED disk
  <2>1. row'[m].state = "source_backed_up"
    BY <1>1, <1>3 DEF Becomes, RowType
  <2> QED BY <1>1, <1>3, <2>1, SameFiles DEF SafelyBackedUp, ResumedOf, Holds
<1>4. CASE RemainingPlace(m)
  <2>1. /\ Local(m) /\ disk'[Backup(m)] = disk[Backup(m)]
        /\ (~InPlace(m) => disk'[Source(m)] = disk[Source(m)])
    BY <1>4, PathsApart, RenameIsLocal DEF RemainingPlace
  <2>2. InPlace(m) => Holds(Backup(m), Old(m)) /\ ~Is(m, {"delete"}) /\ row[m].state = "source_backed_up"
    BY <1>1, <1>4, BytesApart DEF RemainingPlace, ReadyToPlace, ResumedOf
  <2>3. ~InPlace(m) => row[m].state = "validated"
    BY <1>4, BytesApart DEF RemainingPlace, ReadyToPlace
  <2>4. HeldOf(m)'
    BY <1>1, <2>1, <2>2 DEF HeldOf, Holds
  <2>5. ResumedOf(m)'
    BY <1>4, <2>1, <2>2, <2>3 DEF RemainingPlace, ResumedOf, Holds
  <2> QED BY <1>1, <2>1, <2>4, <2>5
<1>5. CASE RemainingMark(m) /\ Becomes(m, "published")
  <2>1. row'[m].state = "published" /\ disk' = disk
    BY <1>1, <1>5 DEF RemainingMark, Becomes, RowType
  <2>2. ShownOf(m)
    <3>1. CASE row[m].state = "published"
      BY <1>1, <3>1 DEF ResumedOf
    <3>2. CASE row[m].state # "published"
      BY <1>1, <1>5, <3>2, BytesApart DEF RemainingMark, ReadyToPlace, ResumedOf, ShownOf
    <3> QED BY <3>1, <3>2
  <2> QED BY <1>1, <2>1, <2>2, SameFiles DEF ResumedOf
<1>6. CASE RemainingMark(m) /\ UNCHANGED row
  BY <1>1, <1>6, SameFiles DEF RemainingMark, ResumedOf, Holds
<1> QED BY <1>2, <1>3, <1>4, <1>5, <1>6 DEF RemainingBackUp, RemainingMark

LEMMA ResumeFiles ==
    ASSUME NoRecycle, TypeOK, JournalInv, FilesInv, NEW m \in Mutations,
           RemainingBackUp(m) \/ RemainingPlace(m) \/ RemainingMark(m)
    PROVE  FilesInv'
<1>1. ~adopted /\ (Local(m) \/ disk' = disk) /\ HeldOf(m)' /\ ResumedOf(m)'
  BY ResumeMoves
<1>2. /\ mem \in MemType /\ mem.pc = "remaining" /\ m \in mem.todo /\ UNCHANGED <<adopted, touched>>
      /\ row \in [Mutations -> RowType]
  BY TypeParts DEF RemainingBackUp, RemainingPlace, RemainingMark, At, Next1, world
<1>3. DiskInv'
  BY <1>1, <1>2, DiskHolds, DiskSame DEF FilesInv
<1>4. /\ \/ UNCHANGED mem
         \/ /\ mem'.pc = mem.pc /\ mem'.todo = mem.todo \ {m} /\ row' = row /\ row[m].state = "published"
      /\ \A n \in Mutations : n # m => row'[n] = row[n]
  BY <1>2, Passing DEF RemainingBackUp, RemainingPlace, RemainingMark, Becomes
<1>5. /\ mem'.pc = "remaining" /\ (m \notin mem'.todo => row'[m].state = "published")
      /\ \A n \in Mutations : n # m => row'[n] = row[n] /\ (n \in mem'.todo <=> n \in mem.todo)
  BY <1>2, <1>4
<1> QED BY <1>1, <1>2, <1>3, <1>5, ResumeOne

LEMMA RecoverFiles ==
    ASSUME NoRecycle, TypeOK, JournalInv, JournalInv', FilesInv, Recover
    PROVE  FilesInv'
<1>1. UNCHANGED <<disk, row, adopted, touched>> /\ Disposition \in Pcs /\ Rows' = Rows
  BY Disposed DEF Recover, Rows, NoRow, world
<1>2. mem'.pc = Disposition /\ mem'.backedUp = {} /\ mem'.published = {} /\ mem'.todo = Rows
  BY <1>1 DEF Recover, Forgotten
<1>3. DiskInv'
  BY <1>1, DiskSame DEF FilesInv
<1>4. Disposition \in {"tidyCheck", "attention", "compensate", "begin", "preflight"}
  BY DEF Disposition, Compensation
<1>5. CASE Disposition \in {"tidyCheck", "attention", "compensate"}
  BY <1>2, <1>3, <1>5, FreeStep DEF Free, Preparing
<1>6. CASE Disposition = "begin"
  BY <1>2, <1>3, <1>6, EarlyStep
<1>7. CASE Disposition = "preflight"
  <2>1. Rows = Mutations
    BY <1>1, <1>2, <1>7 DEF JournalInv, WholeInv, Resuming
  <2>2. States \subseteq Undoable
    <3>1. CASE States \cap Committed # {}
      BY <1>7, <3>1 DEF Disposition, Committed, Undoable, Undone, Early
    <3>2. CASE States \cap Committed = {}
      <4>1. States \subseteq Undoable \cup Undone /\ ~(States \cap Undone # {})
        BY <1>7, <3>2 DEF Disposition, Compensation
      <4> QED BY <4>1
    <3> QED BY <3>1, <3>2
  <2>3. \A m \in Mutations : row[m].state \in Undoable
    BY <2>1, <2>2 DEF States
  <2> QED BY <1>1, <1>2, <1>3, <1>7, <2>1, <2>3 DEF FilesInv, CarriedInv, PlacedInv, ResumedInv,
             Preparing
<1> QED BY <1>4, <1>5, <1>6, <1>7

-----------------------------------------------------------------------------
(* The other steps, and the invariant *)

LEMMA QuietFiles ==
    ASSUME NoRecycle, TypeOK, JournalInv, FilesInv,
           \/ Commit \/ CommitRejected \/ CleanedUp \/ UndoDone \/ Refuse \/ Finish \/ Reclaim \/ Started
           \/ ResumeFailed \/ RemainingDone \/ Recommit \/ RecommitRejected \/ TidyCheck \/ Settle
           \/ Compensate \/ NextPhase \/ Fail \/ Restart
    PROVE  FilesInv'
<1>1. /\ touched' = touched /\ (adopted => adopted') /\ mem \in MemType /\ Rows \in SUBSET Mutations
      /\ disk' = disk \/ (UndoDone /\ adopted' = adopted)
  BY TypeParts DEF Commit, Recommit, Adopts, CommitRejected, CleanedUp, UndoDone, Refuse, Finish,
     Reclaim,
                   Started, ResumeFailed, RemainingDone, RecommitRejected, TidyCheck, Settle,
                   Compensate,
                   NextPhase, Fail, Restart, Rows, world
<1>2. DiskInv'
  <2>1. CASE disk' = disk
    BY <1>1, <2>1, DiskSame DEF FilesInv
  <2>2. CASE UndoDone /\ adopted' = adopted
    BY <1>1, <2>2, UndoDoneMoves, BytesApart DEF FilesInv, DiskInv, Missing
  <2> QED BY <1>1, <2>1, <2>2
<1>3. CASE CommitRejected
  BY <1>3, RaisesFiles DEF CommitRejected, At, world
<1>4. CASE Reclaim
  <2>1. mem'.pc = "begin" /\ mem'.backedUp = {} /\ mem'.published = {}
    BY <1>4 DEF Reclaim, Forgotten
  <2> QED BY <1>2, <2>1, EarlyStep
<1>5. CASE RemainingDone
  <2>1. mem'.pc = "recommit" /\ UNCHANGED <<disk, row>>
    BY <1>1, <1>5, Going DEF RemainingDone, Pcs
  <2>2. \A m \in Mutations : ResumedOf(m)'
    BY <1>5, <2>1, SameFiles DEF RemainingDone, At, FilesInv, ResumedInv, ResumedOf, Holds
  <2> QED BY <1>2, <2>1, <2>2 DEF FilesInv, CarriedInv, PlacedInv, ResumedInv, Preparing
<1>6. CASE Commit \/ Recommit \/ RecommitRejected \/ ResumeFailed \/ Compensate
  <2>1. mem'.pc \in {"cleanup", "tidyCheck", "fail", "mark", "attention", "compensate"}
    BY <1>1, <1>6, Starting DEF Commit, Recommit, RecommitRejected, ResumeFailed, Compensate,
       Compensation, Pcs
  <2> QED BY <1>2, <2>1, FreeStep DEF Free, Preparing
<1>7. CASE \/ CleanedUp \/ UndoDone \/ Refuse \/ Finish \/ Started \/ TidyCheck \/ Settle \/ NextPhase
           \/ Fail \/ Restart
  <2>1. mem'.pc \in {"idle", "settle", "refused", "resumeFailed", "tidy", "attention", "restore", "close",
                     "fail", "starting"}
    BY <1>1, <1>7, Going, Starting DEF CleanedUp, UndoDone, Refuse, Finish, Started, TidyCheck,
       Settle,
                                       NextPhase, Fail, Restart, At, Pcs
  <2> QED BY <1>2, <2>1, FreeStep DEF Free, Preparing
<1> QED BY <1>3, <1>4, <1>5, <1>6, <1>7

LEMMA FaultFiles ==
    ASSUME NoRecycle, TypeOK, JournalInv, FilesInv, Fault
    PROVE  FilesInv'
<1>1. UNCHANGED <<disk, adopted, touched>> /\ mem \in MemType /\ Rows \in SUBSET Mutations
  BY TypeParts DEF Fault, Rows
<1>2. DiskInv'
  BY <1>1, DiskSame DEF FilesInv
<1>3. CASE mem.pc \in {"ensure", "stage", "recheck", "publish"} /\ Raises
  BY <1>1, <1>3, RaisesFiles DEF Preparing
<1>4. ASSUME NEW m \in mem.todo, At("cleanup"), Passes(m)
      PROVE  FilesInv'
  <2>1. mem'.pc = "cleanup"
    BY <1>1, <1>4, Passing DEF At
  <2> QED BY <1>2, <2>1, FreeStep DEF Free, Preparing
<1>5. ASSUME NEW m \in mem.todo, At("undo"), GivesUp(m)
      PROVE  FilesInv'
  BY <1>1, <1>5, UndoMarkFiles DEF GivesUp, MemType
<1>6. CASE Starts(Compensation, Rows) \/ Starts("attention", Rows)
  <2>1. mem'.pc \in {"attention", "compensate"}
    BY <1>1, <1>6, Starting DEF Compensation, Pcs
  <2> QED BY <1>2, <2>1, FreeStep DEF Free, Preparing
<1> QED BY <1>3, <1>4, <1>5, <1>6 DEF Fault

\* What another program writes over is an original that it has edited, or not an original.
LEMMA OtherWritesMoves ==
    ASSUME NoRecycle, TypeOK, FilesInv, NEW p \in Paths, OtherWrites(p)
    PROVE  /\ p[1] \in Mutations
           /\ \A x \in Paths : x # p => disk'[x] = disk[x]
           /\ touched = {} /\ touched' = {p[1]}
           /\ \A n \in Mutations : HeldOf(n)' <=> HeldOf(n)
           /\ \A n \in Mutations : ShownOf(n)' => ShownOf(n)
           /\ \A n \in Mutations : n # p[1] => (ShownOf(n)' <=> ShownOf(n))
<1> DEFINE m == p[1]
<1>1. m \in Mutations /\ disk \in [Paths -> Bytes]
  BY TypeParts DEF Paths
<1>2. /\ touched = {} /\ touched' = {n \in Mutations : p \in {Source(n), Destination(n)}} /\ touched' # {}
      /\ \A x \in Paths : x # p => disk'[x] = disk[x]
      /\ disk'[p] = IF disk[p] = Old(m) THEN Edited(m) ELSE Foreign(m)
  BY <1>1 DEF OtherWrites, Holds
<1>3. \A n \in Mutations : p \in {Source(n), Destination(n)} => n = m
  BY PathsApart
<1>4. touched' = {m} /\ p \in {Source(m), Destination(m)}
  BY <1>1, <1>2, <1>3
<1>5. ASSUME NEW n \in Mutations, n # m
      PROVE  (HeldOf(n)' <=> HeldOf(n)) /\ (ShownOf(n)' <=> ShownOf(n))
  <2>1. /\ disk'[Source(n)] = disk[Source(n)] /\ disk'[Backup(n)] = disk[Backup(n)]
        /\ disk'[Destination(n)] = disk[Destination(n)]
    BY <1>2, <1>5, PathsApart
  <2> QED BY <2>1 DEF HeldOf, ShownOf, Holds
<1>6. Foreign(m) # Missing /\ Edited(m) # Missing /\ Foreign(m) \notin {Old(m), Edited(m), Staged(m)}
      /\ Edited(m) # Staged(m) /\ disk[p] # Edited(m)
  BY <1>2, BytesApart DEF Foreign, Edited, Old, Staged, Missing, FilesInv, DiskInv
<1>7. HeldOf(m)' <=> HeldOf(m)
  <2>1. disk'[Backup(m)] = disk[Backup(m)]
    BY <1>2, <1>4, PathsApart
  <2>2. CASE p = Source(m)
    BY <1>2, <1>6, <2>1, <2>2 DEF HeldOf
  <2>3. CASE p # Source(m)
    <3>1. disk'[Source(m)] = disk[Source(m)]
      BY <1>1, <1>2, <2>3, PathsApart
    <3> QED BY <2>1, <3>1 DEF HeldOf
  <2> QED BY <2>2, <2>3
<1>8. ShownOf(m)' => ShownOf(m)
  <2>1. Source(m) # p => disk'[Source(m)] = disk[Source(m)]
    BY <1>1, <1>2, PathsApart
  <2>2. Destination(m) # p => disk'[Destination(m)] = disk[Destination(m)]
    BY <1>1, <1>2, PathsApart
  <2> QED BY <1>2, <1>6, <2>1, <2>2 DEF ShownOf, Holds
<1> QED BY <1>1, <1>2, <1>4, <1>5, <1>7, <1>8

LEMMA OtherWritesFiles ==
    ASSUME NoRecycle, TypeOK, FilesInv, NEW p \in Paths, OtherWrites(p)
    PROVE  FilesInv'
<1>1. UNCHANGED <<adopted, mem>> /\ mem.pc \in {"down", "begin", "ensure", "stage", "advance"}
  BY DEF OtherWrites
<1>2. DiskInv'
  BY <1>1, OtherWritesMoves DEF FilesInv, DiskInv
<1>3. CASE mem.pc = "down"
  BY <1>1, <1>2, <1>3, FreeStep DEF Free, Preparing
<1>4. CASE mem.pc # "down"
  BY <1>1, <1>2, <1>4, EarlyStep DEF FilesInv, CarriedInv, Preparing
<1> QED BY <1>3, <1>4

LEMMA NextFiles ==
    ASSUME NoRecycle, TypeOK, JournalInv, JournalInv', KeptInv, FilesInv, [Next]_vars
    PROVE  FilesInv'
<1>1. ASSUME NEW m \in Mutations,
             \/ EnsureJournal(m) \/ Stage(m) \/ Advance(m) \/ BackUp(m) \/ MarkBackedUp(m)
             \/ Place(m) \/ MarkPublished(m) \/ Cleanup(m) \/ UndoMark(m) \/ UndoRestore(m)
             \/ RemainingBackUp(m) \/ RemainingPlace(m) \/ RemainingMark(m) \/ Tidy(m)
             \/ Mark(m) \/ Restore(m) \/ Close(m) \/ Attend(m)
      PROVE  FilesInv'
  BY <1>1, PrepareFiles, BackUpFiles, MarkBackedUpFiles, PlaceFiles, MarkPublishedFiles,
     CleanupFiles,
     UndoFiles, ResumeFiles
<1>2. CASE Work
  BY <1>1, <1>2, BeginFiles, RecheckFiles, RecoverFiles, PreflightFiles, QuietFiles DEF Work
<1>3. CASE Fault
  BY <1>3, FaultFiles
<1>4. CASE Stop
  <2>1. mem'.pc = "down" /\ UNCHANGED <<disk, adopted, touched>>
    BY <1>4 DEF Stop, Forgotten
  <2>2. DiskInv'
    BY <2>1, DiskSame DEF FilesInv
  <2> QED BY <2>1, <2>2, FreeStep DEF Free, Preparing
<1>5. CASE \/ OtherBundleFails \/ UNCHANGED vars
           \/ \E c \in {"settingsChanged", "rootsChanged"} : Reconfigure(c)
  <2>1. UNCHANGED <<disk, row, adopted, mem, touched>>
    BY <1>5 DEF OtherBundleFails, Reconfigure, vars, world
  <2>2. DiskInv'
    BY <2>1, DiskSame DEF FilesInv
  <2>3. \A m \in Mutations : /\ CarriedOf(m) => CarriedOf(m)'
                             /\ PlacedOf(m) => PlacedOf(m)'
                             /\ ResumedOf(m) => ResumedOf(m)'
    BY <2>1, SameFiles DEF CarriedOf, PlacedOf, ResumedOf, Holds
  <2> QED BY <2>1, <2>2, <2>3, SameFiles DEF FilesInv, CarriedInv, PlacedInv, ResumedInv
<1>6. ASSUME NEW p \in Paths, OtherWrites(p)
      PROVE  FilesInv'
  BY <1>6, OtherWritesFiles
<1> QED BY <1>2, <1>3, <1>4, <1>5, <1>6 DEF Next

LEMMA InitFiles ==
    ASSUME NoRecycle, Init
    PROVE  KeptInv /\ FilesInv
<1>1. /\ \A p \in Paths : disk[p] = IF p[2] = "source" /\ HasSource(p[1]) THEN Old(p[1]) ELSE Missing
      /\ mem.pc = "begin" /\ mem.backedUp = {} /\ mem.published = {}
      /\ \A m \in Mutations : row[m].kept
  BY DEF Init, Forgotten, NoRow
<1>2. \A m \in Mutations : HeldOf(m)
  <2>1. \A m \in Mutations : Source(m) \in Paths /\ Source(m)[1] = m /\ Source(m)[2] = "source"
    BY PathsApart DEF Source
  <2> QED BY <1>1, <2>1 DEF HeldOf
<1>3. ASSUME NEW p \in Paths
      PROVE  disk[p][2] # "edited"
  <2>1. disk[p] = Old(p[1]) \/ disk[p] = Missing
    BY <1>1
  <2>2. Old(p[1])[2] = "old" /\ Missing[2] = "missing"
    BY DEF Old, Missing
  <2> QED BY <2>1, <2>2
<1> QED BY <1>1, <1>2, <1>3 DEF KeptInv, FilesInv, DiskInv, CarriedInv, PlacedInv, ResumedInv,
           Preparing

LEMMA FilesHold ==
    ASSUME NoRecycle, "stopBetweenMutations" \notin Admits
    PROVE  SafeSpec => [](KeptInv /\ FilesInv)
<1>1. Init => KeptInv /\ FilesInv
  BY InitFiles
<1>2. /\ TypeOK /\ JournalInv /\ JournalInv' /\ KeptInv /\ FilesInv /\ [Next]_vars
      => (KeptInv /\ FilesInv)'
  BY NextKept, NextFiles
<1> QED BY <1>1, <1>2, TypesHold, JournalHolds, PTL DEF SafeSpec

-----------------------------------------------------------------------------
(* The refinement of AtomicPublication *)

\* The originals that are somewhere, and the outputs that are in place: the variables of
\* AtomicPublication.
held == {m \in Mutations : HeldOf(m)}
shown == {m \in Mutations : ShownOf(m)}

LEMMA Mapping ==
    /\ Promise!Init <=> held = Mutations /\ shown = {} /\ adopted = FALSE /\ touched = {}
    /\ Promise!abstractVars = <<held, shown, adopted, touched>>
    /\ \A m : Promise!Publish(m) <=>
                 ~adopted /\ shown' = shown \cup {m} /\ UNCHANGED <<held, adopted, touched>>
    /\ \A m : Promise!Withdraw(m) <=>
                 ~adopted /\ m \in held /\ shown' = shown \ {m} /\ UNCHANGED <<held, adopted, touched>>
    /\ Promise!Adopt <=> shown = Mutations /\ adopted' = TRUE /\ UNCHANGED <<held, shown, touched>>
    /\ \A m : Promise!Discard(m) <=>
                 adopted /\ held' = held \ {m} /\ UNCHANGED <<shown, adopted, touched>>
    /\ \A S : Promise!Disturb(S) <=>
                 /\ touched' = touched \cup S
                 /\ \E T \in SUBSET S : shown' = shown \ T
                 /\ UNCHANGED <<held, adopted>>
BY DEF Promise!Init, Promise!abstractVars, Promise!Publish, Promise!Withdraw, Promise!Adopt,
       Promise!Discard, Promise!Disturb, held, shown, HeldOf, ShownOf

\* What a step has to be.
Steps == [Promise!Next]_(Promise!abstractVars)

LEMMA Unseen ==
    ASSUME UNCHANGED <<adopted, touched>>,
           \A m \in Mutations : (HeldOf(m)' <=> HeldOf(m)) /\ (ShownOf(m)' <=> ShownOf(m))
    PROVE  Steps
<1>1. UNCHANGED <<held, shown>>
  BY DEF held, shown
<1>2. UNCHANGED Promise!abstractVars
  BY <1>1 DEF Promise!abstractVars, held, shown, HeldOf, ShownOf
<1> QED BY <1>2 DEF Steps

LEMMA SameDisk ==
    ASSUME UNCHANGED <<disk, adopted, touched>>
    PROVE  Steps
BY SameFiles, Unseen

\* Before the adoption outputs come and go, one by one, and every original stays.
LEMMA FileStep ==
    ASSUME NoRecycle, DiskInv, DiskInv', ~adopted, UNCHANGED <<adopted, touched>>,
           NEW m \in Mutations, Local(m) \/ disk' = disk
    PROVE  Steps
<1>1. held = Mutations /\ held' = Mutations
  BY DEF DiskInv, held
<1>2. \A n \in Mutations : n # m => (ShownOf(n)' <=> ShownOf(n))
  BY OthersStay, SameFiles
<1>3. shown' = shown \cup {m} \/ shown' = shown \ {m}
  BY <1>2 DEF shown
<1>4. Promise!Publish(m) \/ Promise!Withdraw(m)
  BY <1>1, <1>3, Mapping
<1> QED BY <1>4 DEF Steps, Promise!Next

\* After it originals are given up, one by one, and every output stays.
LEMMA CleanupSeen ==
    ASSUME NoRecycle, TypeOK, JournalInv, FilesInv, NEW m \in Mutations, Cleanup(m) \/ Tidy(m)
    PROVE  Steps
<1>1. adopted /\ (disk' = disk \/ Local(m)) /\ UNCHANGED <<adopted, touched>>
  BY CleanupFiles
<1>2. CASE disk' = disk
  BY <1>1, <1>2, SameDisk
<1>3. CASE disk' # disk
  <2>1. \/ Unlinks(Backup(m)) \/ Unlinks(Temp(m))
        \/ Unlinks(Source(m)) /\ ~InPlace(m)
    <3>1. m \in mem.backedUp \/ (RemovesSource /\ HasSource(m) /\ ~InPlace(m) /\ ~Holds(Source(m), Missing))
          => Disposable(m) = Backup(m) \/ (~InPlace(m) /\ Disposable(m) = Source(m))
      BY DEF Disposable
    <3> QED BY <1>3, <3>1 DEF Cleanup, Tidy, MustDispose, TidySource
  <2>2. /\ \A n \in Mutations : n # m => (HeldOf(n)' <=> HeldOf(n)) /\ (ShownOf(n)' <=> ShownOf(n))
    BY <1>1, <1>3, OthersStay
  <2>3. (ShownOf(m)' <=> ShownOf(m)) /\ (HeldOf(m)' => HeldOf(m))
    <3>1. CASE Unlinks(Backup(m)) \/ Unlinks(Temp(m))
      <4>1. /\ disk'[Source(m)] = disk[Source(m)] /\ disk'[Destination(m)] = disk[Destination(m)]
            /\ disk'[Backup(m)] \in {disk[Backup(m)], Missing}
        BY <3>1, PathsApart, UnlinkIsLocal
      <4> QED BY <4>1, BytesApart DEF HeldOf, ShownOf, Holds
    <3>2. CASE Unlinks(Source(m)) /\ ~InPlace(m)
      <4>1. /\ disk'[Backup(m)] = disk[Backup(m)] /\ disk'[Destination(m)] = disk[Destination(m)]
            /\ disk'[Source(m)] = Missing
        BY <3>2, PathsApart, UnlinkIsLocal
      <4> QED BY <3>2, <4>1, BytesApart DEF HeldOf, ShownOf, Holds
    <3> QED BY <2>1, <3>1, <3>2
  <2>4. shown' = shown /\ (held' = held \/ held' = held \ {m})
    <3>1. shown' = shown
      BY <2>2, <2>3 DEF shown
    <3>2. CASE HeldOf(m)' <=> HeldOf(m)
      BY <2>2, <3>1, <3>2 DEF held
    <3>3. CASE ~(HeldOf(m)' <=> HeldOf(m))
      BY <2>2, <2>3, <3>1, <3>3 DEF held
    <3> QED BY <3>2, <3>3
  <2>5. CASE held' = held
    <3>1. \A n \in Mutations : (HeldOf(n)' <=> HeldOf(n)) /\ (ShownOf(n)' <=> ShownOf(n))
      BY <2>4, <2>5 DEF held, shown
    <3> QED BY <1>1, <3>1, Unseen
  <2>6. CASE held' = held \ {m}
    <3>1. Promise!Discard(m)
      BY <1>1, <2>4, <2>6, Mapping
    <3> QED BY <3>1 DEF Steps, Promise!Next
  <2> QED BY <2>4, <2>5, <2>6
<1> QED BY <1>2, <1>3

LEMMA AdoptSeen ==
    ASSUME NoRecycle, TypeOK, JournalInv, FilesInv, Commit \/ Recommit
    PROVE  Steps
<1>1. UNCHANGED <<disk, touched>> /\ adopted' = TRUE
  BY DEF Commit, Recommit, Adopts, world
<1>2. \A m \in Mutations : ShownOf(m)
  <2>1. CASE Commit
    BY <2>1 DEF Commit, At, FilesInv, PlacedInv
  <2>2. CASE Recommit
    <3>1. Rows = Mutations /\ \A m \in Rows : row[m].state = "published"
      BY <2>2 DEF Recommit, At, Committable, JournalInv, WholeInv, Resuming
    <3> QED BY <2>2, <3>1 DEF Recommit, At, FilesInv, ResumedInv, ResumedOf
  <2> QED BY <2>1, <2>2
<1>3. shown = Mutations /\ UNCHANGED <<held, shown>>
  BY <1>1, <1>2, SameFiles DEF shown, held
<1>4. Promise!Adopt
  BY <1>1, <1>3, Mapping
<1> QED BY <1>4 DEF Steps, Promise!Next

LEMMA OtherWritesSeen ==
    ASSUME NoRecycle, TypeOK, FilesInv, NEW p \in Paths, OtherWrites(p)
    PROVE  Steps
<1> DEFINE m == p[1]
<1>1. /\ m \in Mutations /\ touched = {} /\ touched' = {m}
      /\ \A n \in Mutations : HeldOf(n)' <=> HeldOf(n)
      /\ \A n \in Mutations : ShownOf(n)' => ShownOf(n)
      /\ \A n \in Mutations : n # m => (ShownOf(n)' <=> ShownOf(n))
  BY OtherWritesMoves
<1>2. adopted' = adopted /\ held' = held
  BY <1>1 DEF OtherWrites, held
<1>3. \E T \in SUBSET {m} : shown' = shown \ T
  <2>1. CASE ShownOf(m)' <=> ShownOf(m)
    <3>1. shown' = shown \ {}
      BY <1>1, <2>1 DEF shown
    <3> QED BY <3>1
  <2>2. CASE ~(ShownOf(m)' <=> ShownOf(m))
    <3>1. shown' = shown \ {m}
      BY <1>1, <2>2 DEF shown
    <3> QED BY <3>1
  <2> QED BY <2>1, <2>2
<1>4. Promise!Disturb({m})
  BY <1>1, <1>2, <1>3, Mapping
<1>5. \E S \in SUBSET Mutations : Promise!Disturb(S)
  BY <1>1, <1>4
<1> QED BY <1>5 DEF Steps, Promise!Next

LEMMA MutationSeen ==
    ASSUME NoRecycle, TypeOK, JournalInv, FilesInv, FilesInv', NEW m \in Mutations,
           \/ EnsureJournal(m) \/ Stage(m) \/ Advance(m) \/ BackUp(m) \/ MarkBackedUp(m)
           \/ Place(m) \/ MarkPublished(m) \/ Cleanup(m) \/ UndoMark(m) \/ UndoRestore(m)
           \/ RemainingBackUp(m) \/ RemainingPlace(m) \/ RemainingMark(m) \/ Tidy(m)
           \/ Mark(m) \/ Restore(m) \/ Close(m) \/ Attend(m)
    PROVE  Steps
<1>1. DiskInv /\ DiskInv'
  BY DEF FilesInv
<1>2. CASE EnsureJournal(m) \/ Advance(m) \/ MarkBackedUp(m) \/ MarkPublished(m) \/ UndoMark(m) \/ Mark(m)
           \/ Close(m) \/ Attend(m)
  BY <1>2, SameDisk DEF EnsureJournal, Advance, MarkBackedUp, MarkPublished, UndoMark, Mark, Close,
     Attend, world
<1>3. CASE Stage(m)
  <2>1. UNCHANGED <<adopted, touched>> /\ disk \in [Paths -> Bytes]
    BY <1>3, TypeParts DEF Stage, world
  <2>2. \A p \in Paths : p # Temp(m) => disk'[p] = disk[p]
    BY <1>3, <2>1 DEF Stage
  <2>3. \A n \in Mutations : /\ disk'[Source(n)] = disk[Source(n)] /\ disk'[Backup(n)] = disk[Backup(n)]
                             /\ disk'[Destination(n)] = disk[Destination(n)]
    BY <2>2, PathsApart
  <2>4. \A n \in Mutations : (HeldOf(n)' <=> HeldOf(n)) /\ (ShownOf(n)' <=> ShownOf(n))
    BY <2>3 DEF HeldOf, ShownOf, Holds
  <2> QED BY <2>1, <2>4, Unseen
<1>4. CASE BackUp(m)
  BY <1>1, <1>4, BackUpMoves, FileStep DEF BackUp, world
<1>5. CASE Place(m)
  BY <1>1, <1>5, PlaceMoves, FileStep DEF Place, world
<1>6. CASE UndoRestore(m)
  BY <1>1, <1>6, UndoRestoreMoves, FileStep DEF UndoRestore, world
<1>7. CASE Restore(m)
  BY <1>1, <1>7, RestoreMoves, FileStep DEF Restore, world
<1>8. CASE RemainingBackUp(m) \/ RemainingPlace(m) \/ RemainingMark(m)
  BY <1>1, <1>8, ResumeMoves, FileStep DEF RemainingBackUp, RemainingPlace, RemainingMark, world
<1> QED BY <1>2, <1>3, <1>4, <1>5, <1>6, <1>7, <1>8, CleanupSeen

LEMMA NextSeen ==
    ASSUME NoRecycle, TypeOK, JournalInv, FilesInv, FilesInv', [Next]_vars
    PROVE  Steps
<1>1. CASE Work
  <2>1. CASE UndoDone
    BY <2>1, UndoDoneMoves, Unseen DEF UndoDone, world
  <2>2. CASE Begin \/ Recheck \/ CommitRejected \/ CleanedUp \/ Refuse \/ Finish \/ Reclaim \/ Recover
    BY <2>2, SameDisk DEF Begin, Recheck, CommitRejected, CleanedUp, Refuse, Finish, Reclaim,
       Recover, world
  <2>3. CASE \/ Started \/ ResumeFailed \/ Preflight \/ RemainingDone \/ RecommitRejected \/ TidyCheck
             \/ Settle \/ Compensate \/ NextPhase \/ Fail \/ Restart
    BY <2>3, SameDisk DEF Started, ResumeFailed, Preflight, RemainingDone, RecommitRejected,
       TidyCheck, Settle,
                          Compensate, NextPhase, Fail, Restart, world
  <2> QED BY <1>1, <2>1, <2>2, <2>3, AdoptSeen, MutationSeen DEF Work
<1>2. CASE \/ Fault \/ Stop \/ OtherBundleFails \/ UNCHANGED vars
           \/ \E c \in {"settingsChanged", "rootsChanged"} : Reconfigure(c)
  BY <1>2, SameDisk DEF Fault, Stop, OtherBundleFails, Reconfigure, vars, world
<1>3. ASSUME NEW p \in Paths, OtherWrites(p)
      PROVE  Steps
  BY <1>3, OtherWritesSeen
<1> QED BY <1>1, <1>2, <1>3 DEF Next

LEMMA InitSeen ==
    ASSUME NoRecycle, Init
    PROVE  Promise!Init
<1>1. held = Mutations
  BY InitFiles DEF FilesInv, DiskInv, held, Init
<1>2. ASSUME NEW m \in Mutations
      PROVE  ~ShownOf(m)
  <2>1. \A p \in Paths : disk[p] = IF p[2] = "source" /\ HasSource(p[1]) THEN Old(p[1]) ELSE Missing
    BY DEF Init
  <2>2. disk[Source(m)] = IF HasSource(m) THEN Old(m) ELSE Missing
    <3>1. Source(m)[2] = "source"
      BY DEF Source
    <3> QED BY <2>1, <3>1, PathsApart
  <2>3. ~InPlace(m) => disk[Destination(m)] = Missing
    <3>1. ~InPlace(m) => Destination(m) = <<m, "destination">>
      BY DEF Destination, Collider, NoRecycle
    <3> QED BY <2>1, <3>1, PathsApart
  <2>4. CASE InPlace(m)
    BY <2>2, <2>4, PathsApart, BytesApart DEF ShownOf, Holds
  <2>5. CASE ~InPlace(m)
    BY <2>3, <2>5, BytesApart DEF ShownOf, Holds
  <2> QED BY <2>4, <2>5
<1>3. shown = {}
  BY <1>2 DEF shown
<1> QED BY <1>1, <1>3, Mapping DEF Init

\* The publisher and the recovery service, which rename one file at a time and may be stopped
\* between any two renames, implement AtomicPublication: the catalogue adopts the bundle
\* only with all of its outputs in place, and the originals are given up only after that.
THEOREM PublicationRefines ==
    ASSUME NoRecycle, "stopBetweenMutations" \notin Admits
    PROVE  SafeSpec => RefinesAtomicPublication
<1>1. Init => Promise!Init
  BY InitSeen
<1>2. TypeOK /\ JournalInv /\ FilesInv /\ FilesInv' /\ [Next]_vars
      => [Promise!Next]_(Promise!abstractVars)
  BY NextSeen DEF Steps
<1> QED BY <1>1, <1>2, TypesHold, JournalHolds, FilesHold, PTL
        DEF SafeSpec, RefinesAtomicPublication, Promise!Spec

-----------------------------------------------------------------------------
(* What is rolled back: the invariant *)

\* A row before the last of its preparation.
Fresh == {"none", "planned", "snapshot_saved", "staged"}
BeforePublishing == {"begin"} \cup Preparing

\* A row whose files have moved has no row beside it that is still being prepared.
RowsInv ==
    /\ (\E m \in Mutations : row[m].state \in {"source_backed_up", "published"}) \/ mem.pc \in Resuming
       => \A m \in Mutations : row[m].state \notin Fresh
    /\ mem.pc \in BeforePublishing =>
           \A m \in Mutations : row[m].state \in {"none"} \cup Early \cup Closed

-----------------------------------------------------------------------------

LEMMA RowsStep ==
    ASSUME RowsInv, NEW m \in Mutations, \A n \in Mutations : n # m => row'[n] = row[n],
           row'[m].state = row[m].state \/ row'[m].state \notin Fresh \cup {"source_backed_up", "published"},
           mem'.pc \in Resuming => mem.pc \in Resuming,
           mem'.pc \notin BeforePublishing
    PROVE  RowsInv'
BY DEF RowsInv

LEMMA RowsSame ==
    ASSUME RowsInv, row' = row,
           mem'.pc \in Resuming => mem.pc \in Resuming,
           mem'.pc \in BeforePublishing => mem.pc \in BeforePublishing
    PROVE  RowsInv'
BY DEF RowsInv

LEMMA PrepareRows ==
    ASSUME TypeOK, RowsInv, NEW m \in Mutations, EnsureJournal(m) \/ Stage(m) \/ Advance(m)
    PROVE  RowsInv'
<1>1. mem \in MemType /\ row \in [Mutations -> RowType] /\ mem.pc \in Preparing
  BY TypeParts DEF EnsureJournal, Stage, Advance, At, Preparing
<1>2. mem'.pc \in {"undo"} \cup Preparing
  BY <1>1, Raising, Going DEF EnsureJournal, Stage, Advance, MemType, Pcs, Preparing
<1>3. /\ \A n \in Mutations : row[n].state \in {"none"} \cup Early \cup Closed
      /\ mem'.pc \notin Resuming
  BY <1>1, <1>2 DEF RowsInv, Resuming, Preparing, BeforePublishing
<1>4. \A n \in Mutations : row'[n].state \in {"none"} \cup Early \cup Closed
  <2>1. CASE row' = row
    BY <1>3, <2>1
  <2>2. CASE row' = [row EXCEPT ![m] = [state |-> "planned", kept |-> TRUE]]
    BY <1>1, <1>3, <2>2 DEF Early
  <2>3. ASSUME NEW s \in Early, Becomes(m, s)
        PROVE  \A n \in Mutations : row'[n].state \in {"none"} \cup Early \cup Closed
    BY <1>3, <2>3, RowTypes, TypeParts DEF RowStates, Undoable
  <2>4. "snapshot_saved" \in Early /\ "staged" \in Early /\ "validated" \in Early
    BY DEF Early
  <2> QED BY <2>1, <2>2, <2>3, <2>4 DEF EnsureJournal, Stage, Advance
<1> QED BY <1>3, <1>4 DEF RowsInv, Early, Closed

LEMMA PublishRows ==
    ASSUME TypeOK, JournalInv, RowsInv, NEW m \in Mutations,
           BackUp(m) \/ MarkBackedUp(m) \/ Place(m) \/ MarkPublished(m)
    PROVE  RowsInv'
<1>1. /\ mem \in MemType /\ mem.pc = "publish" /\ row \in [Mutations -> RowType]
  BY TypeParts DEF BackUp, MarkBackedUp, Place, MarkPublished, At
<1>2. mem'.pc \in {"publish", "commit"}
  BY <1>1 DEF BackUp, MarkBackedUp, Place, MarkPublished, MemType
<1>3. \A n \in Mutations : row[n].state \notin Fresh
  BY <1>1 DEF JournalInv, PublisherInv, Fresh
<1>4. row' = row \/ \E s \in {"source_backed_up", "published"} : Becomes(m, s)
  BY DEF BackUp, MarkBackedUp, Place, MarkPublished
<1>5. \A n \in Mutations : row'[n].state \notin Fresh
  BY <1>3, <1>4, RowTypes, TypeParts DEF RowStates, Undoable, Fresh
<1> QED BY <1>2, <1>5 DEF RowsInv, BeforePublishing, Preparing

LEMMA ResumeRows ==
    ASSUME TypeOK, RowsInv, NEW m \in Mutations,
           RemainingBackUp(m) \/ RemainingPlace(m) \/ RemainingMark(m)
    PROVE  RowsInv'
<1>1. mem \in MemType /\ mem.pc = "remaining" /\ mem'.pc = "remaining"
  BY Passing, TypeParts DEF RemainingBackUp, RemainingPlace, RemainingMark, At
<1>2. \A n \in Mutations : row[n].state \notin Fresh
  BY <1>1 DEF RowsInv, Resuming
<1>3. row' = row \/ \E s \in {"source_backed_up", "published"} : Becomes(m, s)
  BY DEF RemainingBackUp, RemainingPlace, RemainingMark
<1>4. \A n \in Mutations : row'[n].state \notin Fresh
  BY <1>2, <1>3, RowTypes, TypeParts DEF RowStates, Undoable, Fresh
<1> QED BY <1>1, <1>4 DEF RowsInv, BeforePublishing, Preparing

LEMMA UndoRows ==
    ASSUME TypeOK, RowsInv, NEW m \in Mutations,
           \/ UndoMark(m) \/ UndoRestore(m) \/ Mark(m) \/ Restore(m) \/ Close(m) \/ Attend(m)
           \/ Cleanup(m) \/ Tidy(m)
    PROVE  RowsInv'
<1>1. mem \in MemType /\ mem.pc \in {"undo", "mark", "restore", "close", "attention", "cleanup", "tidy"}
  BY TypeParts DEF UndoMark, UndoRestore, Mark, Restore, Close, Attend, Cleanup, Tidy, At
<1>2. mem'.pc \in {mem.pc, "attention"}
  BY <1>1, Passing, Starting DEF UndoMark, UndoRestore, GivesUp, Mark, Restore, Close, Attend,
     Cleanup, Tidy, MemType, Pcs, Rows
<1>3. mem'.pc \notin Resuming \cup BeforePublishing
  BY <1>1, <1>2 DEF Resuming, BeforePublishing, Preparing
<1>4. \/ row' = row
      \/ \E s \in Undone \cup {"needs_attention"} \cup Committed : Becomes(m, s) \/ BecomesFor(m, s)
  BY DEF UndoMark, UndoRestore, GivesUp, Mark, Restore, Close, Attend, Cleanup, Tidy, Undone,
     Committed
<1>5. CASE row' = row
  BY <1>3, <1>5, RowsSame
<1>6. ASSUME NEW s \in Undone \cup {"needs_attention"} \cup Committed, Becomes(m, s) \/ BecomesFor(m, s)
      PROVE  RowsInv'
  <2>1. row'[m].state = s /\ \A n \in Mutations : n # m => row'[n] = row[n]
    BY <1>6, RowTypes, TypeParts DEF RowStates, Undoable
  <2>2. s \notin Fresh \cup {"source_backed_up", "published"}
    BY DEF Fresh, Undone, Committed
  <2> QED BY <1>3, <2>1, <2>2, RowsStep
<1> QED BY <1>4, <1>5, <1>6

\* The rows of a bundle that recovery goes on with are all validated, or one is past that.
LEMMA RecoverRows ==
    ASSUME TypeOK, JournalInv, JournalInv', RowsInv, Recover
    PROVE  RowsInv'
<1>1. row' = row /\ Disposition \in Pcs /\ Rows' = Rows /\ Open # {} /\ mem'.pc = Disposition
  BY Disposed DEF Recover, Rows, NoRow, Forgotten
<1>2. Disposition \in {"tidyCheck", "attention", "compensate", "begin", "preflight"}
  BY DEF Disposition, Compensation
<1>3. CASE Disposition \in {"tidyCheck", "attention", "compensate"}
  BY <1>1, <1>3, RowsSame DEF Resuming, BeforePublishing, Preparing
<1>4. CASE Disposition = "begin"
  <2>1. \A m \in Mutations : row[m].state \in {"none"} \cup Early
    <3>1. States \subseteq Early
      BY <1>4 DEF Disposition, Compensation
    <3> QED BY <3>1 DEF States, Rows, NoRow
  <2> QED BY <1>1, <1>4, <2>1 DEF RowsInv, Resuming, Early
<1>5. CASE Disposition = "preflight"
  <2>1. Rows = Mutations
    BY <1>1, <1>5 DEF JournalInv, WholeInv, Resuming
  <2>2. /\ States \subseteq Undoable
        /\ ~(States \subseteq Early /\ States # {"validated"})
    <3>1. CASE States \cap Committed # {}
      BY <1>5, <3>1 DEF Disposition, Committed, Undoable, Undone, Early
    <3>2. CASE States \cap Committed = {}
      <4>1. /\ States \subseteq Undoable \cup Undone /\ ~(States \cap Undone # {})
            /\ ~(States \subseteq Early /\ States # {"validated"})
        BY <1>5, <3>2 DEF Disposition, Compensation
      <4> QED BY <4>1
    <3> QED BY <3>1, <3>2
  <2>3. \A m \in Mutations : row[m].state \in States
    BY <2>1 DEF States
  <2>4. \A m \in Mutations : row[m].state \notin Fresh
    <3>1. CASE States = {"validated"}
      BY <2>3, <3>1 DEF Fresh
    <3>2. CASE States # {"validated"}
      <4>1. PICK s \in States : s \in {"source_backed_up", "published"}
        BY <2>2, <3>2 DEF Undoable
      <4> QED BY <4>1 DEF States, Rows, RowsInv
    <3> QED BY <3>1, <3>2
  <2> QED BY <1>1, <1>5, <2>4 DEF RowsInv, BeforePublishing, Preparing
<1> QED BY <1>2, <1>3, <1>4, <1>5

LEMMA QuietRows ==
    ASSUME TypeOK, JournalInv, RowsInv,
           \/ Begin \/ Recheck \/ Commit \/ CommitRejected \/ CleanedUp \/ UndoDone \/ Refuse \/ Finish
           \/ Reclaim \/ Started \/ ResumeFailed \/ Preflight \/ RemainingDone \/ Recommit
           \/ RecommitRejected \/ TidyCheck \/ Settle \/ Compensate \/ NextPhase \/ Fail \/ Restart
    PROVE  RowsInv'
<1>1. mem \in MemType /\ Rows \in SUBSET Mutations /\ row \in [Mutations -> RowType]
  BY TypeParts DEF Rows
<1>2. CASE Begin
  <2>1. mem'.pc \in {"ensure", "undo"} /\ mem.pc = "begin" /\ row' = row
    BY <1>1, <1>2, Starting DEF Begin, At, Pcs
  <2> QED BY <2>1, RowsSame DEF Resuming, BeforePublishing, Preparing
<1>3. CASE Recheck \/ CommitRejected
  <2>1. mem'.pc \in {"publish", "undo"} /\ row' = row
    <3>1. mem.ready \in SUBSET Mutations
      BY <1>1 DEF MemType
    <3> QED BY <1>1, <1>3, <3>1, Starting, Raising DEF Recheck, CommitRejected, Pcs
  <2> QED BY <2>1, RowsSame DEF Resuming, BeforePublishing, Preparing
<1>4. CASE Commit \/ Recommit
  <2>1. mem'.pc \in {"cleanup", "tidyCheck"}
    BY <1>1, <1>4, Starting DEF Commit, Recommit, Pcs
  <2>2. \A m \in Mutations : row'[m].state = "catalog_committed" \/ row'[m] = NoRow
    BY <1>1, <1>4 DEF Commit, Recommit, Adopts, RowType, Rows
  <2> QED BY <2>1, <2>2 DEF RowsInv, Resuming, BeforePublishing, Preparing, NoRow
<1>5. CASE Reclaim
  <2>1. mem'.pc = "begin" /\ row' = row /\ Open = {}
    BY <1>5 DEF Reclaim, Forgotten
  <2>2. \A m \in Mutations : row[m].state \in {"none"} \cup Closed
    BY <2>1 DEF Open, Rows, NoRow
  <2> QED BY <2>1, <2>2 DEF RowsInv, Resuming, Closed
<1>6. CASE \/ CleanedUp \/ UndoDone \/ Refuse \/ Finish \/ Started \/ Preflight \/ RemainingDone
           \/ TidyCheck \/ Settle \/ Fail \/ Restart
  <2>1. /\ mem'.pc \in {"idle", "settle", "refused", "resumeFailed", "remaining", "recommit", "tidy",
                        "attention", "starting"}
        /\ mem'.pc \in {"remaining", "recommit"} => mem.pc \in {"preflight", "remaining"}
        /\ row' = row
    BY <1>1, <1>6, Going DEF CleanedUp, UndoDone, Refuse, Finish, Started, Preflight, RemainingDone,
       TidyCheck, Settle, Fail, Restart, At, Pcs
  <2> QED BY <2>1, RowsSame DEF Resuming, BeforePublishing, Preparing
<1>7. CASE ResumeFailed \/ RecommitRejected \/ Compensate \/ NextPhase
  <2>1. mem'.pc \in {"fail", "compensate", "attention", "mark", "restore", "close"} /\ row' = row
    BY <1>1, <1>7, Starting, Going DEF ResumeFailed, RecommitRejected, Compensate, NextPhase,
       Compensation, Pcs
  <2> QED BY <2>1, RowsSame DEF Resuming, BeforePublishing, Preparing
<1> QED BY <1>2, <1>3, <1>4, <1>5, <1>6, <1>7

LEMMA FaultRows ==
    ASSUME TypeOK, RowsInv, Fault
    PROVE  RowsInv'
<1>1. mem \in MemType /\ Rows \in SUBSET Mutations
  BY TypeParts DEF Rows
<1>2. CASE row' = row
  <2>1. mem'.pc \in {"undo", "attention", "compensate"} \/ mem'.pc = mem.pc
    BY <1>1, <1>2, Raising, Starting, Passing DEF Fault, GivesUp, Compensation, Pcs
  <2> QED BY <1>2, <2>1, RowsSame DEF Resuming, BeforePublishing, Preparing
<1>3. ASSUME NEW m \in mem.todo, NEW s \in {"cleanup_pending", "needs_attention"}, Becomes(m, s), Passes(m),
             mem.pc \in {"cleanup", "undo"}
      PROVE  RowsInv'
  <2>1. m \in Mutations /\ mem'.pc = mem.pc
    BY <1>1, <1>3, Passing DEF MemType
  <2>2. row'[m].state = s /\ \A n \in Mutations : n # m => row'[n] = row[n]
    BY <1>3, <2>1, RowTypes, TypeParts DEF RowStates, Committed
  <2> QED BY <1>3, <2>1, <2>2, RowsStep DEF Resuming, BeforePublishing, Preparing, Fresh
<1> QED BY <1>2, <1>3 DEF Fault, GivesUp, At

LEMMA NextRows ==
    ASSUME TypeOK, JournalInv, JournalInv', RowsInv, [Next]_vars
    PROVE  RowsInv'
<1>1. ASSUME NEW m \in Mutations,
             \/ EnsureJournal(m) \/ Stage(m) \/ Advance(m) \/ BackUp(m) \/ MarkBackedUp(m)
             \/ Place(m) \/ MarkPublished(m) \/ Cleanup(m) \/ UndoMark(m) \/ UndoRestore(m)
             \/ RemainingBackUp(m) \/ RemainingPlace(m) \/ RemainingMark(m) \/ Tidy(m)
             \/ Mark(m) \/ Restore(m) \/ Close(m) \/ Attend(m)
      PROVE  RowsInv'
  BY <1>1, PrepareRows, PublishRows, ResumeRows, UndoRows
<1>2. CASE Work
  BY <1>1, <1>2, RecoverRows, QuietRows DEF Work
<1>3. CASE Fault
  BY <1>3, FaultRows
<1>4. CASE Stop
  <2>1. mem'.pc = "down" /\ row' = row
    BY <1>4 DEF Stop, Forgotten
  <2> QED BY <2>1, RowsSame DEF Resuming, BeforePublishing, Preparing
<1>5. CASE \/ OtherBundleFails \/ UNCHANGED vars
           \/ \E c \in {"settingsChanged", "rootsChanged"} : Reconfigure(c)
           \/ \E p \in Paths : OtherWrites(p)
  BY <1>5, RowsSame DEF OtherBundleFails, Reconfigure, OtherWrites, vars
<1> QED BY <1>2, <1>3, <1>4, <1>5 DEF Next

-----------------------------------------------------------------------------
(* Where the files of a mutation are that nobody else has written to *)

\* The original is where it was, or under its backup name.
Original(m) == SourceIntact(m) /\ Holds(Backup(m), Missing)
Moved(m) ==
    /\ InPlace(m) /\ Holds(Backup(m), Old(m))
    /\ Holds(Source(m), Missing) \/ (~Is(m, {"delete"}) /\ Holds(Source(m), Staged(m)))
Unmoved(m) == Original(m) /\ (~InPlace(m) => ~Holds(Destination(m), Staged(m)))

\* The publisher remembers what it has moved.
Tracked(m) ==
    /\ m \notin mem.backedUp => Original(m)
    /\ ~InPlace(m) /\ m \notin mem.published => ~Holds(Destination(m), Staged(m))

FilesOf(m) ==
    /\ Original(m) \/ Moved(m)
    /\ disk[Temp(m)] \in {Missing, Staged(m)}
    /\ row[m].state \in Fresh \cup {"rolled_back"} => Unmoved(m)

\* What the row of m says of its files, at each point of the two roads back.
PointOf(m) ==
    /\ mem.pc \in BeforePublishing /\ row[m].state \in Early => Unmoved(m)
    /\ mem.pc \in {"publish", "commit", "undo"} /\ row[m].state \in Undoable \cup {"rollback_pending"}
       => Tracked(m)
    /\ mem.pc = "restore" /\ m \notin mem.todo /\ row[m].state = "rollback_pending" => Unmoved(m)
    /\ mem.pc = "close" /\ row[m].state = "rollback_pending" => Unmoved(m)

\* Recovery takes up the preparation of a bundle of which no file has moved.
EarlyInv ==
    (\E n \in Mutations : row[n].state \in Fresh)
    => \A m \in Mutations \ touched : row[m].state \in Early => Unmoved(m)

RestInv == ~adopted => EarlyInv /\ \A m \in Mutations \ touched : FilesOf(m) /\ PointOf(m)

-----------------------------------------------------------------------------

SameAt(m) ==
    /\ disk'[Source(m)] = disk[Source(m)] /\ disk'[Temp(m)] = disk[Temp(m)]
    /\ disk'[Backup(m)] = disk[Backup(m)] /\ disk'[Destination(m)] = disk[Destination(m)]

LEMMA SameRest ==
    ASSUME NEW m \in Mutations,
           disk'[Source(m)] = disk[Source(m)], disk'[Backup(m)] = disk[Backup(m)],
           disk'[Destination(m)] = disk[Destination(m)]
    PROVE  /\ Original(m)' <=> Original(m)
           /\ Moved(m)' <=> Moved(m)
           /\ Unmoved(m)' <=> Unmoved(m)
           /\ (m \notin mem'.backedUp => m \notin mem.backedUp)
              /\ (m \notin mem'.published => m \notin mem.published) => (Tracked(m) => Tracked(m)')
BY DEF Original, Moved, Unmoved, Tracked, SourceIntact, Holds

\* The original cannot be in both places.
LEMMA RestApart ==
    ASSUME NoRecycle, NEW m \in Mutations
    PROVE  /\ ~(Original(m) /\ Moved(m))
           /\ Original(m) \/ Moved(m) => (Holds(Backup(m), Missing) <=> Original(m))
           /\ Unmoved(m) => Tracked(m)
BY BytesApart DEF Original, Moved, Unmoved, Tracked, Holds

LEMMA EarlyKept ==
    ASSUME EarlyInv, touched' = touched,
           \A n \in Mutations : row'[n].state = row[n].state \/ row'[n].state \notin Fresh \cup Early,
           \A n \in Mutations : row[n].state \in Early => Unmoved(n)' \/ ~Unmoved(n)
    PROVE  EarlyInv'
BY DEF EarlyInv

LEMMA NoneFresh ==
    ASSUME \A n \in Mutations : row'[n].state \notin Fresh
    PROVE  EarlyInv'
BY DEF EarlyInv, Fresh

\* One mutation is worked on.
LEMMA RestOne ==
    ASSUME NoRecycle, RestInv, ~adopted, UNCHANGED <<adopted, touched>>,
           NEW m \in Mutations, Local(m) \/ disk' = disk, mem'.pc = mem.pc,
           \A n \in Mutations : n # m => /\ row'[n] = row[n]
                                         /\ n \in mem'.todo <=> n \in mem.todo
                                         /\ n \in mem'.backedUp <=> n \in mem.backedUp
                                         /\ n \in mem'.published <=> n \in mem.published,
           m \notin touched => FilesOf(m)' /\ PointOf(m)',
           EarlyInv'
    PROVE  RestInv'
<1>1. ASSUME NEW n \in Mutations \ touched, n # m
      PROVE  FilesOf(n)' /\ PointOf(n)'
  <2>1. SameAt(n)
    BY <1>1, OthersStay DEF SameAt
  <2>2. /\ Original(n)' <=> Original(n)
        /\ Moved(n)' <=> Moved(n)
        /\ Unmoved(n)' <=> Unmoved(n)
        /\ Tracked(n) => Tracked(n)'
        /\ disk'[Temp(n)] = disk[Temp(n)]
        /\ row'[n] = row[n] /\ (n \in mem'.todo <=> n \in mem.todo)
    BY <1>1, <2>1, SameRest DEF SameAt
  <2>3. FilesOf(n) /\ PointOf(n)
    BY DEF RestInv
  <2>4. FilesOf(n)'
    BY <2>2, <2>3 DEF FilesOf
  <2>5. PointOf(n)'
    BY <2>2, <2>3 DEF PointOf
  <2> QED BY <2>4, <2>5
<1> QED BY <1>1 DEF RestInv

\* The files stay where they are, at a point where the rows say no more of them.
RestPoints == BeforePublishing \cup {"publish", "commit", "undo", "restore", "close"}

LEMMA FilesSame ==
    ASSUME RestInv, ~adopted, UNCHANGED <<disk, row, touched>>
    PROVE  EarlyInv' /\ \A m \in Mutations \ touched : FilesOf(m)'
<1>1. \A m \in Mutations : Unmoved(m)' <=> Unmoved(m)
  BY SameRest
<1>2. \A m \in Mutations \ touched : FilesOf(m)'
  BY SameRest DEF RestInv, FilesOf
<1> QED BY <1>1, <1>2 DEF RestInv, EarlyInv

LEMMA QuietRest ==
    ASSUME RestInv, UNCHANGED <<disk, row, touched>>, adopted => adopted', mem'.pc \notin RestPoints
    PROVE  RestInv'
<1>1. \A m \in Mutations : PointOf(m)'
  BY DEF PointOf, RestPoints
<1> QED BY <1>1, FilesSame DEF RestInv

-----------------------------------------------------------------------------
(* The publisher keeps and moves the originals *)

\* Nothing has been moved yet.
LEMMA BeforeRest ==
    ASSUME RowsInv, RestInv, ~adopted, UNCHANGED <<disk, row, adopted, touched>>,
           mem.pc \in BeforePublishing, mem'.pc \in BeforePublishing \cup {"publish", "undo"}
    PROVE  RestInv'
<1>1. EarlyInv' /\ \A m \in Mutations \ touched : FilesOf(m)'
  BY FilesSame
<1>2. ASSUME NEW m \in Mutations \ touched
      PROVE  PointOf(m)'
  <2>1. row[m].state \in Undoable \cup {"rollback_pending"} => row[m].state \in Early
    BY <1>2 DEF RowsInv, Undoable, Closed
  <2>2. row[m].state \in Early => Unmoved(m)'
    BY <1>2, SameRest DEF RestInv, PointOf
  <2>3. Unmoved(m)' => Tracked(m)'
    BY DEF Unmoved, Tracked
  <2> QED BY <2>1, <2>2, <2>3 DEF PointOf, BeforePublishing, Preparing
<1> QED BY <1>1, <1>2 DEF RestInv

\* The publisher gives up after it has begun to rename.
LEMMA RaisesRest ==
    ASSUME TypeOK, RestInv, ~adopted, UNCHANGED <<disk, row, adopted, touched>>,
           mem.pc \in {"publish", "commit"}, Raises
    PROVE  RestInv'
<1>1. mem'.pc = "undo" /\ mem'.backedUp = mem.backedUp /\ mem'.published = mem.published
  BY Raising, TypeParts
<1>2. EarlyInv' /\ \A m \in Mutations \ touched : FilesOf(m)'
  BY FilesSame
<1>3. ASSUME NEW m \in Mutations \ touched
      PROVE  PointOf(m)'
  <2>1. Tracked(m) => Tracked(m)'
    BY <1>1, SameRest
  <2> QED BY <1>1, <1>3, <2>1 DEF RestInv, PointOf, BeforePublishing, Preparing
<1> QED BY <1>2, <1>3 DEF RestInv

\* The row of a mutation goes on with its preparation, where nothing has been moved.
LEMMA PreparingRest ==
    ASSUME TypeOK, NoRecycle, RestInv, ~adopted, UNCHANGED <<adopted, touched>>,
           mem.pc \in Preparing, mem'.pc \in Preparing, NEW m \in Mutations,
           \A n \in Mutations : n # m => row'[n] = row[n],
           row'[m].state \in Early \/ row'[m] = row[m],
           row[m].state \in {"none"} \cup Early \/ row'[m] = row[m],
           \A p \in Paths : p # Temp(m) => disk'[p] = disk[p],
           disk'[Temp(m)] = disk[Temp(m)] \/ disk'[Temp(m)] = Staged(m)
               \/ (Staged(m) = Old(m) /\ disk'[Temp(m)] = disk[Source(m)])
    PROVE  RestInv'
<1>1. ASSUME NEW n \in Mutations
      PROVE  /\ disk'[Source(n)] = disk[Source(n)] /\ disk'[Backup(n)] = disk[Backup(n)]
             /\ disk'[Destination(n)] = disk[Destination(n)]
             /\ n # m => disk'[Temp(n)] = disk[Temp(n)]
  BY PathsApart
<1>2. \A n \in Mutations : /\ Original(n)' <=> Original(n)
                           /\ Moved(n)' <=> Moved(n)
                           /\ Unmoved(n)' <=> Unmoved(n)
  BY <1>1, SameRest
<1>3. mem.pc \in BeforePublishing /\ mem'.pc \in BeforePublishing
  BY DEF BeforePublishing
<1>4. ASSUME NEW n \in Mutations \ touched
      PROVE  FilesOf(n)' /\ (row'[n].state \in Early => Unmoved(n)')
  <2>1. FilesOf(n) /\ (row[n].state \in Early => Unmoved(n))
    BY <1>3 DEF RestInv, PointOf
  <2>2. row[n].state \in Fresh => Unmoved(n)
    BY <2>1 DEF FilesOf
  <2>3. row'[n].state \in Early \cup Fresh \cup {"rolled_back"} => Unmoved(n)
    BY <2>1, <2>2 DEF FilesOf, Fresh, Early
  <2>4. disk'[Temp(n)] \in {Missing, Staged(n)}
    <3>1. disk[Temp(n)] \in {Missing, Staged(n)} /\ (Original(n) \/ Moved(n))
      BY <2>1 DEF FilesOf
    <3>2. CASE n = m /\ Staged(m) = Old(m)
      <4>1. disk[Source(m)] \in {Missing, Old(m)}
        <5>1. HasSource(m)
          BY <3>2 DEF Staged, Old, HasSource, Is
        <5>2. CASE Original(m)
          BY <5>1, <5>2 DEF Original, SourceIntact, Holds
        <5>3. CASE Moved(m)
          BY <3>2, <5>3 DEF Moved, Holds
        <5> QED BY <3>1, <3>2, <5>2, <5>3
      <4> QED BY <3>1, <3>2, <4>1
    <3>3. CASE ~(n = m /\ Staged(m) = Old(m))
      BY <1>1, <3>1, <3>3
    <3> QED BY <3>2, <3>3
  <2> QED BY <1>2, <2>1, <2>3, <2>4 DEF FilesOf
<1>5. \A n \in Mutations \ touched : PointOf(n)'
  BY <1>3, <1>4 DEF PointOf, BeforePublishing, Preparing
<1>6. EarlyInv'
  BY <1>4 DEF EarlyInv
<1> QED BY <1>4, <1>5, <1>6 DEF RestInv

LEMMA PrepareRest ==
    ASSUME NoRecycle, TypeOK, JournalInv, RowsInv, RestInv, NEW m \in Mutations,
           EnsureJournal(m) \/ Stage(m) \/ Advance(m)
    PROVE  RestInv'
<1>1. /\ ~adopted /\ UNCHANGED <<adopted, touched>> /\ mem.pc \in Preparing
      /\ mem \in MemType /\ row \in [Mutations -> RowType] /\ disk \in [Paths -> Bytes]
  BY TypeParts DEF EnsureJournal, Stage, Advance, At, JournalInv, AdoptionInv, CleaningUp,
     AtAnyTime, Preparing, world
<1>2. CASE Raises /\ UNCHANGED <<disk, row>>
  <2>1. mem'.pc = "undo"
    BY <1>1, <1>2, Raising
  <2> QED BY <1>1, <1>2, <2>1, BeforeRest DEF BeforePublishing
<1>3. CASE ~(Raises /\ UNCHANGED <<disk, row>>)
  <2>1. mem'.pc \in Preparing
    BY <1>1, <1>3, Going DEF EnsureJournal, Stage, Advance, MemType, Pcs, Preparing
  <2>2. /\ \A p \in Paths : p # Temp(m) => disk'[p] = disk[p]
        /\ \/ disk'[Temp(m)] = disk[Temp(m)] \/ disk'[Temp(m)] = Staged(m)
           \/ (Staged(m) = Old(m) /\ disk'[Temp(m)] = disk[Source(m)])
    BY <1>1, PathsApart DEF EnsureJournal, Stage, Advance
  <2>3. /\ \A n \in Mutations : n # m => row'[n] = row[n]
        /\ row'[m].state \in Early \/ row'[m] = row[m]
        /\ row[m].state \in {"none"} \cup Early \/ row'[m] = row[m]
    <3>1. CASE row' = row
      BY <3>1
    <3>2. CASE EnsureJournal(m) /\ row' # row
      <4>1. row' = [row EXCEPT ![m] = [state |-> "planned", kept |-> TRUE]] /\ row[m].state = "none"
        BY <3>2 DEF EnsureJournal, Rows, NoRow
      <4> QED BY <1>1, <4>1 DEF Early
    <3>3. CASE Advance(m) /\ row' # row
      <4>1. row[m].state \in Early /\ \E s \in Early : Becomes(m, s)
        BY <3>3 DEF Advance, Early
      <4> QED BY <4>1, RowTypes, TypeParts DEF RowStates, Undoable
    <3> QED BY <3>1, <3>2, <3>3 DEF Stage
  <2> QED BY <1>1, <2>1, <2>2, <2>3, PreparingRest
<1> QED BY <1>2, <1>3

LEMMA PublishRest ==
    ASSUME NoRecycle, TypeOK, JournalInv, FilesInv, RestInv, NEW m \in Mutations,
           BackUp(m) \/ MarkBackedUp(m) \/ Place(m) \/ MarkPublished(m)
    PROVE  RestInv'
<1>1. /\ ~adopted /\ UNCHANGED <<adopted, touched>> /\ mem.pc = "publish" /\ mem \in MemType
      /\ row \in [Mutations -> RowType]
  BY PublishingRows, TypeParts DEF BackUp, MarkBackedUp, Place, MarkPublished, At, world
<1>2. \A n \in Mutations : row[n].state \in {"validated", "source_backed_up", "published"}
  BY <1>1 DEF JournalInv, PublisherInv
<1>3. /\ \A n \in Mutations : n # m => row'[n] = row[n]
      /\ row'[m].state \in {"validated", "source_backed_up", "published"}
  BY <1>1, <1>2, RowTypes DEF BackUp, MarkBackedUp, Place, MarkPublished, RowStates, Undoable
<1>4. EarlyInv'
  BY <1>2, <1>3, NoneFresh DEF Fresh
<1>5. \A n \in Mutations \ touched : FilesOf(n) /\ Tracked(n)
  BY <1>1, <1>2 DEF RestInv, PointOf, Undoable, Early
<1>6. CASE BackUp(m)
  <2>1. /\ InPlace(m) /\ Local(m) /\ disk'[Backup(m)] = disk[Source(m)] /\ disk'[Source(m)] = Missing
        /\ disk'[Temp(m)] = disk[Temp(m)]
    BY <1>6, BackUpMoves, PathsApart, RenameIsLocal DEF BackUp
  <2>2. /\ mem'.pc = mem.pc /\ mem'.todo = mem.todo /\ mem'.backedUp = mem.backedUp \cup {m}
        /\ mem'.published = mem.published /\ m \notin mem.backedUp
    BY <1>1, <1>6 DEF BackUp, MemType
  <2>3. ASSUME m \notin touched
        PROVE  FilesOf(m)' /\ PointOf(m)'
    <3>1. disk[Source(m)] = Old(m)
      BY <1>5, <2>1, <2>2, <2>3, BytesApart DEF Tracked, Original, SourceIntact, Holds
    <3>2. Moved(m)' /\ Tracked(m)'
      BY <2>1, <2>2, <3>1 DEF Moved, Tracked, Holds
    <3>3. FilesOf(m)'
      BY <1>3, <1>5, <2>1, <2>3, <3>2 DEF FilesOf, Fresh
    <3> QED BY <1>1, <2>2, <3>2, <3>3 DEF PointOf, BeforePublishing, Preparing
  <2> QED BY <1>1, <1>3, <1>4, <2>1, <2>2, <2>3, RestOne
<1>7. CASE Place(m)
  <2>1. /\ ~Is(m, {"delete"}) /\ Local(m) /\ disk'[Destination(m)] = disk[Temp(m)]
        /\ disk'[Backup(m)] = disk[Backup(m)] /\ disk'[Temp(m)] = Missing
        /\ ~InPlace(m) => disk'[Source(m)] = disk[Source(m)]
        /\ InPlace(m) => Destination(m) = Source(m) /\ m \in mem.backedUp
    BY <1>7, PlaceMoves, PathsApart, RenameIsLocal DEF Place
  <2>2. /\ mem'.pc = mem.pc /\ mem'.todo = mem.todo /\ mem'.backedUp = mem.backedUp
        /\ mem'.published = mem.published \cup {m}
    BY <1>1, <1>7 DEF Place, MemType
  <2>3. disk[Temp(m)] = Staged(m) /\ (m \in mem.backedUp => disk[Backup(m)] # Missing)
    BY <1>1, <1>7, BytesApart DEF Place, Placed, Next1, FilesInv, PlacedInv, PlacedOf, CarriedInv,
       CarriedOf, Holds
  <2>4. ASSUME m \notin touched
        PROVE  FilesOf(m)' /\ PointOf(m)'
    <3>1. CASE InPlace(m)
      <4>1. Moved(m)
        BY <1>5, <2>1, <2>3, <2>4, <3>1 DEF FilesOf, Original, Holds
      <4>2. Moved(m)' /\ Tracked(m)'
        BY <2>1, <2>2, <2>3, <3>1, <4>1 DEF Moved, Tracked, Holds
      <4>3. FilesOf(m)'
        BY <1>3, <2>1, <4>2 DEF FilesOf, Fresh
      <4> QED BY <1>1, <2>2, <4>2, <4>3 DEF PointOf, BeforePublishing, Preparing
    <3>2. CASE ~InPlace(m)
      <4>1. Original(m)
        BY <1>5, <2>4, <3>2 DEF FilesOf, Moved
      <4>2. Original(m)' /\ Tracked(m)'
        BY <2>1, <2>2, <3>2, <4>1 DEF Original, SourceIntact, Tracked, Holds
      <4>3. FilesOf(m)'
        BY <1>3, <2>1, <4>2 DEF FilesOf, Fresh
      <4> QED BY <1>1, <2>2, <4>2, <4>3 DEF PointOf, BeforePublishing, Preparing
    <3> QED BY <3>1, <3>2
  <2> QED BY <1>1, <1>3, <1>4, <2>1, <2>2, <2>4, RestOne
<1>8. CASE MarkBackedUp(m) \/ MarkPublished(m)
  <2>1. /\ disk' = disk /\ mem'.pc \in {"publish", "commit"} /\ mem'.backedUp = mem.backedUp
        /\ mem'.published \in {mem.published, mem.published \cup {m}}
    BY <1>1, <1>8 DEF MarkBackedUp, MarkPublished, MemType
  <2>2. ASSUME NEW n \in Mutations \ touched
        PROVE  FilesOf(n)' /\ PointOf(n)'
    <3>1. Tracked(n)' /\ (Original(n)' <=> Original(n)) /\ (Moved(n)' <=> Moved(n))
      BY <1>5, <2>1, <2>2, SameRest
    <3>2. row'[n].state \in {"validated", "source_backed_up", "published"}
      BY <1>2, <1>3
    <3>3. FilesOf(n)'
      BY <1>5, <2>1, <2>2, <3>1, <3>2 DEF FilesOf, Fresh
    <3> QED BY <2>1, <3>1, <3>3 DEF PointOf, BeforePublishing, Preparing
  <2> QED BY <1>1, <1>4, <2>2 DEF RestInv
<1> QED BY <1>6, <1>7, <1>8

-----------------------------------------------------------------------------
(* The two rollbacks bring them back *)

\* Of a bundle that is being undone only one row changes, and not to a fresh one.
LEMMA UndoRest ==
    ASSUME NoRecycle, TypeOK, JournalInv, FilesInv, RestInv, NEW m \in Mutations, UndoRestore(m)
    PROVE  RestInv'
<1>1. /\ ~adopted /\ UNCHANGED <<adopted, touched>> /\ mem.pc = "undo" /\ mem'.pc = "undo"
      /\ mem \in MemType /\ row \in [Mutations -> RowType] /\ CarriedOf(m)
      /\ (Local(m) \/ disk' = disk) /\ row[m].state = "rollback_pending"
  BY UndoRestoreMoves, TypeParts DEF UndoRestore, At, world, FilesInv, CarriedInv
<1>2. \A n \in Mutations : n # m => /\ row'[n] = row[n]
                                    /\ n \in mem'.todo <=> n \in mem.todo
                                    /\ n \in mem'.backedUp <=> n \in mem.backedUp
                                    /\ n \in mem'.published <=> n \in mem.published
  <2>1. \A n \in Mutations : n # m => row'[n] = row[n]
    BY <1>1 DEF UndoRestore, GivesUp, Becomes
  <2>2. mem'.todo \in {mem.todo, mem.todo \ {m}}
    <3>1. ASSUME mem' = [mem EXCEPT !.backedUp = mem.backedUp \ {m}, !.published = mem.published \ {m}]
          PROVE  mem'.todo = mem.todo
      BY <1>1, <3>1 DEF MemType
    <3> QED BY <1>1, <3>1, Passing DEF UndoRestore, GivesUp
  <2> QED BY <2>1, <2>2, UndoRestoreMoves
<1>3. row'[m].state \in {"rollback_pending", "rolled_back", "needs_attention"}
  BY <1>1, RowTypes DEF UndoRestore, GivesUp, RowStates, Undone
<1>4. EarlyInv'
  <2>1. \A n \in Mutations : row[n].state \in Early => (Unmoved(n)' <=> Unmoved(n))
    <3>1. \A n \in Mutations : n # m => (Unmoved(n)' <=> Unmoved(n))
      BY <1>1, OthersStay, SameRest
    <3> QED BY <1>1, <3>1 DEF Early
  <2>2. \A n \in Mutations : row'[n].state = row[n].state \/ row'[n].state \notin Fresh \cup Early
    BY <1>2, <1>3 DEF Fresh, Early
  <2> QED BY <1>1, <2>1, <2>2, EarlyKept DEF RestInv
<1>5. ASSUME m \notin touched
      PROVE  FilesOf(m)' /\ PointOf(m)'
  <2>1. FilesOf(m) /\ Tracked(m)
    BY <1>1, <1>5 DEF RestInv, PointOf
  <2>2. CASE /\ Unlinks(Destination(m)) /\ UNCHANGED <<row, mem>>
             /\ MustWithdraw(m) /\ Holds(Destination(m), Staged(m))
    <3>1. /\ disk'[Backup(m)] = disk[Backup(m)] /\ disk'[Temp(m)] = disk[Temp(m)]
          /\ disk'[Destination(m)] = Missing /\ (~InPlace(m) => disk'[Source(m)] = disk[Source(m)])
          /\ InPlace(m) => Destination(m) = Source(m)
      BY <2>2, PathsApart, UnlinkIsLocal
    <3>2. CASE InPlace(m)
      <4>1. ~Is(m, {"delete"})
        BY <1>1, <2>2, PathsApart, BytesApart DEF CarriedOf, MustWithdraw
      <4>2. ~Original(m)
        BY <2>2, <3>1, <3>2, <4>1, BytesApart DEF Original, SourceIntact, Holds
      <4>3. Moved(m)' /\ Tracked(m)'
        BY <2>1, <2>2, <3>1, <3>2, <4>2 DEF FilesOf, Moved, Tracked, Holds
      <4> QED BY <1>1, <2>1, <2>2, <3>1, <4>3 DEF FilesOf, PointOf, Fresh, BeforePublishing,
                 Preparing
    <3>3. CASE ~InPlace(m)
      <4>1. Original(m)' /\ Tracked(m)'
        BY <2>1, <3>1, <3>3, BytesApart DEF FilesOf, Moved, Original, SourceIntact, Tracked, Holds
      <4> QED BY <1>1, <2>1, <2>2, <3>1, <4>1 DEF FilesOf, PointOf, Fresh, BeforePublishing,
                 Preparing
    <3> QED BY <3>2, <3>3
  <2>3. CASE GivesUp(m) /\ UNCHANGED disk
    <3>1. row'[m].state = "needs_attention"
      BY <1>1, <2>3, RowTypes DEF GivesUp, RowStates
    <3>2. FilesOf(m)'
      BY <2>1, <2>3, <3>1, SameRest DEF FilesOf, Fresh
    <3> QED BY <1>1, <3>1, <3>2 DEF PointOf, BeforePublishing, Preparing, Undoable, Early
  <2>4. CASE /\ m \in mem.backedUp /\ Renames(Backup(m), Source(m)) /\ UNCHANGED row
             /\ mem' = [mem EXCEPT !.backedUp = mem.backedUp \ {m}, !.published = mem.published \ {m}]
    <3>1. /\ disk'[Source(m)] = disk[Backup(m)] /\ disk'[Backup(m)] = Missing
          /\ disk'[Temp(m)] = disk[Temp(m)]
      BY <2>4, PathsApart, RenameIsLocal
    <3>2. InPlace(m) /\ disk[Backup(m)] = Old(m)
      BY <1>1, <2>1, <2>4, BytesApart DEF CarriedOf, FilesOf, Original, Moved, Holds
    <3>3. Original(m)' /\ Tracked(m)'
      BY <3>1, <3>2 DEF Original, SourceIntact, Tracked, Holds
    <3> QED BY <1>1, <2>1, <2>4, <3>1, <3>3 DEF FilesOf, PointOf, Fresh, BeforePublishing, Preparing
  <2>5. CASE Unlinks(Temp(m)) /\ UNCHANGED <<row, mem>>
    <3>1. /\ disk'[Source(m)] = disk[Source(m)] /\ disk'[Backup(m)] = disk[Backup(m)]
          /\ disk'[Destination(m)] = disk[Destination(m)] /\ disk'[Temp(m)] = Missing
      BY <2>5, PathsApart, UnlinkIsLocal
    <3>2. Tracked(m)' /\ (Original(m)' \/ Moved(m)')
      BY <2>1, <2>5, <3>1, SameRest DEF FilesOf
    <3> QED BY <1>1, <2>5, <3>1, <3>2 DEF FilesOf, PointOf, Fresh, BeforePublishing, Preparing
  <2>6. CASE /\ ~MustWithdraw(m) /\ m \notin mem.backedUp
             /\ Becomes(m, "rolled_back") /\ Passes(m) /\ UNCHANGED disk
    <3>1. row'[m].state = "rolled_back"
      BY <1>1, <2>6, RowTypes DEF RowStates, Undone
    <3>2. Unmoved(m)
      BY <2>1, <2>6, BytesApart DEF Tracked, Unmoved, MustWithdraw, Holds
    <3>3. Unmoved(m)' /\ Original(m)'
      BY <2>6, <3>2, SameRest DEF Unmoved
    <3>4. FilesOf(m)'
      BY <2>1, <2>6, <3>3 DEF FilesOf
    <3> QED BY <1>1, <3>1, <3>4 DEF PointOf, BeforePublishing, Preparing, Undoable, Early
  <2> QED BY <2>2, <2>3, <2>4, <2>5, <2>6 DEF UndoRestore
<1> QED BY <1>1, <1>2, <1>4, <1>5, RestOne

\* A row is set aside, marked or passed by, and no file is moved.
LEMMA RowRest ==
    ASSUME NoRecycle, RestInv, ~adopted, UNCHANGED <<disk, adopted, touched>>, NEW m \in Mutations,
           mem'.pc = mem.pc,
           mem'.backedUp = mem.backedUp, mem'.published = mem.published,
           \A n \in Mutations : n # m => row'[n] = row[n] /\ (n \in mem'.todo <=> n \in mem.todo),
           \/ row'[m] = row[m] /\ (mem'.pc # "restore" \/ row[m].state # "rollback_pending")
           \/ row'[m].state = "needs_attention"
           \/ row'[m].state = "rollback_pending" /\ mem'.pc = "mark"
           \/ /\ row'[m].state = "rollback_pending" /\ row[m].state \in Undoable /\ mem'.pc = "undo"
    PROVE  RestInv'
<1>1. ASSUME NEW n \in Mutations
      PROVE  /\ Original(n)' <=> Original(n)
             /\ Moved(n)' <=> Moved(n)
             /\ Unmoved(n)' <=> Unmoved(n)
             /\ Tracked(n) => Tracked(n)'
  BY SameRest
<1>2. row'[m] = row[m] \/ row'[m].state \notin Fresh \cup Early \cup {"rolled_back"}
  BY DEF Fresh, Early
<1>3. EarlyInv'
  BY <1>1, <1>2, EarlyKept DEF RestInv
<1>4. ASSUME m \notin touched
      PROVE  FilesOf(m)' /\ PointOf(m)'
  <2>1. FilesOf(m) /\ PointOf(m)
    BY <1>4 DEF RestInv
  <2>2. FilesOf(m)'
    BY <1>1, <1>2, <2>1 DEF FilesOf
  <2> SUFFICES PointOf(m)'
    BY <2>2
  <2>3. CASE row'[m] = row[m] /\ (mem'.pc # "restore" \/ row[m].state # "rollback_pending")
    BY <1>1, <2>1, <2>3 DEF PointOf
  <2>4. CASE row'[m].state = "needs_attention"
    BY <2>4 DEF PointOf, Undoable, Early
  <2>5. CASE row'[m].state = "rollback_pending" /\ mem'.pc = "mark"
    BY <2>5 DEF PointOf, BeforePublishing, Preparing
  <2>6. CASE row'[m].state = "rollback_pending" /\ row[m].state \in Undoable /\ mem'.pc = "undo"
    BY <1>1, <2>1, <2>6 DEF PointOf, BeforePublishing, Preparing
  <2> QED BY <2>3, <2>4, <2>5, <2>6
<1> QED BY <1>3, <1>4, RestOne

LEMMA MarkRest ==
    ASSUME NoRecycle, TypeOK, RestInv, ~adopted, NEW m \in Mutations, UndoMark(m) \/ Mark(m) \/ Attend(m)
    PROVE  RestInv'
<1>1. /\ UNCHANGED <<disk, adopted, touched>> /\ mem \in MemType
      /\ mem.pc \in {"undo", "mark", "attention"}
  BY TypeParts DEF UndoMark, Mark, Attend, At, world
<1>2. /\ mem'.pc = mem.pc /\ mem'.backedUp = mem.backedUp /\ mem'.published = mem.published
      /\ \A n \in Mutations : n # m => (n \in mem'.todo <=> n \in mem.todo)
  BY <1>1, Passing DEF UndoMark, Mark, Attend
<1>3. /\ \A n \in Mutations : n # m => row'[n] = row[n]
      /\ \/ row'[m] = row[m]
         \/ row'[m].state = "needs_attention"
         \/ row'[m].state = "rollback_pending" /\ mem.pc = "mark"
         \/ row'[m].state = "rollback_pending" /\ row[m].state \in Undoable /\ mem.pc = "undo"
  <2>1. CASE UndoMark(m)
    BY <1>1, <2>1, RowTypes, TypeParts DEF UndoMark, At, RowStates, Undone
  <2>2. CASE Mark(m)
    BY <1>1, <2>2, RowTypes, TypeParts DEF Mark, At, RowStates, Undone
  <2>3. CASE Attend(m)
    BY <1>1, <2>3, RowTypes, TypeParts DEF Attend, At, RowStates, Undone
  <2> QED BY <2>1, <2>2, <2>3
<1> QED BY <1>1, <1>2, <1>3, RowRest

\* _restore_originals, of one row.
LEMMA RestoreRest ==
    ASSUME NoRecycle, TypeOK, RestInv, ~adopted, NEW m \in Mutations, Restore(m)
    PROVE  RestInv'
<1>1. /\ UNCHANGED <<row, adopted, touched>> /\ mem \in MemType /\ mem.pc = "restore" /\ m \in mem.todo
  BY TypeParts DEF Restore, At, Last1, world
<1>2. /\ mem'.pc = mem.pc /\ mem'.backedUp = mem.backedUp /\ mem'.published = mem.published
      /\ \A n \in Mutations : n # m => (n \in mem'.todo <=> n \in mem.todo)
  BY <1>1, Passing DEF Restore
<1>3. CASE row[m].state # "rollback_pending"
  BY <1>1, <1>2, <1>3, RowRest DEF Restore
<1>4. CASE row[m].state = "rollback_pending"
  <2>1. Local(m) \/ disk' = disk
    BY <1>4, PathsApart, UnlinkIsLocal, RenameIsLocal DEF Restore
  <2>2. EarlyInv'
    <3>1. \A n \in Mutations : n # m => (Unmoved(n)' <=> Unmoved(n))
      BY <2>1, OthersStay, SameRest
    <3>2. \A n \in Mutations : row[n].state \in Early => (Unmoved(n)' <=> Unmoved(n))
      BY <1>4, <3>1 DEF Early
    <3> QED BY <1>1, <3>2, EarlyKept DEF RestInv
  <2>3. ASSUME m \notin touched
        PROVE  FilesOf(m)' /\ PointOf(m)'
    <3>1. Original(m) \/ Moved(m)
      BY <2>3 DEF RestInv, FilesOf
    <3>2. disk[Temp(m)] \in {Missing, Staged(m)}
      BY <2>3 DEF RestInv, FilesOf
    <3>3. SUFFICES /\ Original(m)' \/ Moved(m)'
                   /\ disk'[Temp(m)] \in {Missing, Staged(m)}
                   /\ m \notin mem'.todo => Unmoved(m)'
      BY <1>1, <1>2, <1>4 DEF FilesOf, PointOf, Fresh, BeforePublishing, Preparing
    <3>4. CASE Withdraws(m) /\ Unlinks(Destination(m)) /\ UNCHANGED mem
      <4>1. /\ disk'[Backup(m)] = disk[Backup(m)] /\ disk'[Temp(m)] = disk[Temp(m)]
            /\ disk'[Destination(m)] = Missing /\ (~InPlace(m) => disk'[Source(m)] = disk[Source(m)])
            /\ InPlace(m) => Destination(m) = Source(m)
        BY <3>4, PathsApart, UnlinkIsLocal
      <4>2. CASE InPlace(m)
        <5>1. Moved(m)'
          BY <3>4, <4>1, <4>2 DEF Withdraws, Moved, Holds
        <5> QED BY <1>1, <3>2, <3>4, <4>1, <5>1
      <4>3. CASE ~InPlace(m)
        <5>1. Original(m)'
          BY <3>1, <4>1, <4>3 DEF Moved, Original, SourceIntact, Holds
        <5> QED BY <1>1, <3>2, <3>4, <4>1, <5>1
      <4> QED BY <4>2, <4>3
    <3>5. CASE PutsBack(m) /\ Renames(Backup(m), Source(m)) /\ UNCHANGED mem
      <4>1. /\ disk'[Source(m)] = disk[Backup(m)] /\ disk'[Backup(m)] = Missing
            /\ disk'[Temp(m)] = disk[Temp(m)]
        BY <3>5, PathsApart, RenameIsLocal
      <4>2. Original(m)'
        BY <3>5, <4>1 DEF PutsBack, Original, SourceIntact, Holds
      <4> QED BY <1>1, <3>2, <3>5, <4>1, <4>2
    <3>6. CASE Unlinks(Temp(m)) /\ UNCHANGED mem
      <4>1. /\ disk'[Source(m)] = disk[Source(m)] /\ disk'[Backup(m)] = disk[Backup(m)]
            /\ disk'[Destination(m)] = disk[Destination(m)] /\ disk'[Temp(m)] = Missing
        BY <3>6, PathsApart, UnlinkIsLocal
      <4>2. Original(m)' \/ Moved(m)'
        BY <3>1, <4>1, SameRest
      <4> QED BY <1>1, <3>6, <4>1, <4>2
    <3>7. CASE ~Withdraws(m) /\ ~PutsBack(m) /\ UNCHANGED disk
      <4>1. Original(m)
        BY <3>1, <3>7 DEF Moved, PutsBack
      <4>2. ~InPlace(m) => ~Holds(Destination(m), Staged(m))
        BY <3>7 DEF Withdraws
      <4>3. Unmoved(m)
        BY <4>1, <4>2 DEF Unmoved
      <4>4. Unmoved(m)' /\ Original(m)'
        BY <3>7, <4>1, <4>3, SameRest
      <4> QED BY <3>2, <3>7, <4>4
    <3> QED BY <1>4, <3>4, <3>5, <3>6, <3>7 DEF Restore
  <2> QED BY <1>1, <1>2, <2>1, <2>2, <2>3, RestOne
<1> QED BY <1>3, <1>4

LEMMA CloseRest ==
    ASSUME NoRecycle, TypeOK, RestInv, ~adopted, NEW m \in Mutations, Close(m)
    PROVE  RestInv'
<1>1. /\ UNCHANGED <<disk, adopted, touched>> /\ mem \in MemType /\ mem.pc = "close"
  BY TypeParts DEF Close, At, world
<1>2. /\ mem'.pc = mem.pc /\ mem'.backedUp = mem.backedUp /\ mem'.published = mem.published
      /\ \A n \in Mutations : n # m => (n \in mem'.todo <=> n \in mem.todo)
  BY <1>1, Passing DEF Close
<1>3. CASE row' = row
  BY <1>1, <1>2, <1>3, RowRest
<1>4. CASE row[m].state = "rollback_pending" /\ BecomesFor(m, "rolled_back")
  <2>1. row'[m].state = "rolled_back" /\ \A n \in Mutations : n # m => row'[n] = row[n]
    BY <1>4, RowTypes, TypeParts DEF RowStates, Undone
  <2>2. EarlyInv'
    <3>1. \A n \in Mutations : Unmoved(n)' <=> Unmoved(n)
      BY <1>1, SameRest
    <3> QED BY <1>1, <2>1, <3>1, EarlyKept DEF RestInv, Fresh, Early
  <2>3. ASSUME m \notin touched
        PROVE  FilesOf(m)' /\ PointOf(m)'
    <3>1. FilesOf(m) /\ Unmoved(m)
      BY <1>1, <1>4, <2>3 DEF RestInv, PointOf
    <3>2. Unmoved(m)' /\ Original(m)'
      BY <1>1, <3>1, SameRest DEF Unmoved
    <3>3. FilesOf(m)'
      BY <1>1, <3>1, <3>2 DEF FilesOf
    <3> QED BY <1>1, <1>2, <2>1, <3>3 DEF PointOf, BeforePublishing, Preparing
  <2> QED BY <1>1, <1>2, <2>1, <2>2, <2>3, RestOne
<1> QED BY <1>3, <1>4 DEF Close

-----------------------------------------------------------------------------
(* Recovery goes on with a bundle *)

LEMMA ResumeRest ==
    ASSUME NoRecycle, TypeOK, JournalInv, FilesInv, RowsInv, RestInv, NEW m \in Mutations,
           RemainingBackUp(m) \/ RemainingPlace(m) \/ RemainingMark(m)
    PROVE  RestInv'
<1>1. /\ ~adopted /\ UNCHANGED <<adopted, touched>> /\ mem \in MemType /\ mem.pc = "remaining"
      /\ row \in [Mutations -> RowType] /\ (Local(m) \/ disk' = disk) /\ ResumedOf(m)
  BY ResumeMoves, TypeParts DEF RemainingBackUp, RemainingPlace, RemainingMark, At, FilesInv,
     ResumedInv, world
<1>2. \A n \in Mutations : row[n].state \notin Fresh
  BY <1>1 DEF RowsInv, Resuming
<1>3. /\ mem'.pc = mem.pc /\ mem'.backedUp = mem.backedUp /\ mem'.published = mem.published
      /\ \A n \in Mutations : n # m => (n \in mem'.todo <=> n \in mem.todo)
  BY <1>1, Passing DEF RemainingBackUp, RemainingPlace, RemainingMark
<1>4. /\ \A n \in Mutations : n # m => row'[n] = row[n]
      /\ row'[m] = row[m] \/ row'[m].state \in {"source_backed_up", "published"}
  BY <1>1, RowTypes DEF RemainingBackUp, RemainingPlace, RemainingMark, RowStates, Undoable
<1>5. EarlyInv'
  BY <1>2, <1>4, NoneFresh DEF Fresh
<1>6. ASSUME m \notin touched
      PROVE  FilesOf(m)' /\ PointOf(m)'
  <2>1. PointOf(m)'
    BY <1>1, <1>3 DEF PointOf, BeforePublishing, Preparing
  <2>2. FilesOf(m) /\ (Original(m) \/ Moved(m)) /\ disk[Temp(m)] \in {Missing, Staged(m)}
    BY <1>6, <1>1 DEF RestInv, FilesOf
  <2>3. CASE disk' = disk
    <3>1. (Original(m)' <=> Original(m)) /\ (Moved(m)' <=> Moved(m)) /\ (Unmoved(m)' <=> Unmoved(m))
      BY <2>3, SameRest
    <3> QED BY <1>4, <2>1, <2>2, <2>3, <3>1 DEF FilesOf, Fresh
  <2>4. CASE /\ Renames(Source(m), Backup(m)) /\ Holds(Source(m), Old(m)) /\ UNCHANGED row
             /\ row[m].state = "validated" /\ BacksUp(m)
    <3>1. /\ disk'[Backup(m)] = disk[Source(m)] /\ disk'[Source(m)] = Missing
          /\ disk'[Temp(m)] = disk[Temp(m)]
      BY <2>4, PathsApart, RenameIsLocal
    <3>2. Moved(m)'
      BY <2>4, <3>1, BytesApart DEF Moved, Holds
    <3> QED BY <2>1, <2>2, <2>4, <3>1, <3>2 DEF FilesOf, Fresh
  <2>5. CASE RemainingPlace(m)
    <3>1. /\ disk'[Destination(m)] = disk[Temp(m)] /\ disk'[Temp(m)] = Missing
          /\ disk'[Backup(m)] = disk[Backup(m)]
          /\ ~InPlace(m) => disk'[Source(m)] = disk[Source(m)]
          /\ InPlace(m) => Destination(m) = Source(m)
      BY <2>5, PathsApart, RenameIsLocal DEF RemainingPlace
    <3>2. UNCHANGED row /\ row[m].state \in {"source_backed_up", "validated"} /\ ~Is(m, {"delete"})
      BY <2>5 DEF RemainingPlace, ReadyToPlace
    <3>3. Original(m)' \/ Moved(m)'
      <4>1. CASE InPlace(m)
        <5>1. Holds(Backup(m), Old(m))
          BY <1>1, <2>5, <4>1, BytesApart DEF RemainingPlace, ReadyToPlace, ResumedOf
        <5> QED BY <2>2, <3>1, <3>2, <4>1, <5>1 DEF Moved, Holds
      <4>2. CASE ~InPlace(m)
        BY <2>2, <3>1, <4>2 DEF Moved, Original, SourceIntact, Holds
      <4> QED BY <4>1, <4>2
    <3> QED BY <2>1, <3>1, <3>2, <3>3 DEF FilesOf, Fresh
  <2> QED BY <2>3, <2>4, <2>5 DEF RemainingBackUp, RemainingMark
<1> QED BY <1>1, <1>3, <1>4, <1>5, <1>6, RestOne

\* Recovery takes up a bundle at its beginning only if a row of it is not yet validated, and
\* then no file of it has moved.
LEMMA RecoverRest ==
    ASSUME TypeOK, RowsInv, RestInv, Recover
    PROVE  RestInv'
<1>1. UNCHANGED <<disk, row, adopted, touched>> /\ Open # {} /\ mem'.pc = Disposition
  BY DEF Recover, Forgotten, world
<1>2. Disposition \in {"tidyCheck", "attention", "compensate", "begin", "preflight"}
  BY DEF Disposition, Compensation
<1>3. CASE Disposition \in {"tidyCheck", "attention", "compensate", "preflight"}
  BY <1>1, <1>3, QuietRest DEF RestPoints, BeforePublishing, Preparing
<1>4. CASE Disposition = "begin" /\ ~adopted
  <2>1. States \subseteq Early /\ States # {"validated"}
    BY <1>4 DEF Disposition, Compensation
  <2>2. States # {}
    BY <1>1 DEF Open, States
  <2>3. PICK s \in States : s \in Fresh
    BY <2>1, <2>2 DEF Early, Fresh
  <2>4. \E n \in Mutations : row[n].state \in Fresh
    BY <2>3 DEF States, Rows
  <2>5. \A m \in Mutations \ touched : row[m].state \in Early => Unmoved(m)
    BY <1>4, <2>4 DEF RestInv, EarlyInv
  <2>6. \A m \in Mutations \ touched : PointOf(m)'
    BY <1>1, <1>4, <2>5, SameRest DEF PointOf, BeforePublishing, Preparing
  <2> QED BY <1>1, <1>4, <2>6, FilesSame DEF RestInv
<1> QED BY <1>1, <1>2, <1>3, <1>4 DEF RestInv

LEMMA PhaseRest ==
    ASSUME TypeOK, RestInv, NextPhase
    PROVE  RestInv'
<1>1. UNCHANGED <<disk, row, adopted, touched>> /\ mem \in MemType /\ mem.todo = {} /\ Rows \in SUBSET Mutations
  BY TypeParts DEF NextPhase, Rows, world
<1>2. CASE adopted
  BY <1>1, <1>2 DEF RestInv
<1>3. CASE At("mark") /\ ~adopted
  <2>1. mem'.pc = "restore" /\ mem'.todo = Rows
    BY <1>1, <1>3, Starting DEF NextPhase, At, Pcs
  <2>2. \A m \in Mutations \ Rows : row[m].state = "none"
    BY DEF Rows, NoRow
  <2>3. \A m \in Mutations \ touched : PointOf(m)'
    BY <1>1, <2>1, <2>2 DEF PointOf, BeforePublishing, Preparing
  <2> QED BY <1>1, <1>3, <2>3, FilesSame DEF RestInv
<1>4. CASE At("restore") /\ ~adopted
  <2>1. mem'.pc = "close"
    BY <1>1, <1>4, Starting DEF NextPhase, At, Pcs
  <2>2. ASSUME NEW m \in Mutations \ touched
        PROVE  PointOf(m)'
    <3>1. row[m].state = "rollback_pending" => Unmoved(m)'
      BY <1>1, <1>4, <2>2, SameRest DEF RestInv, PointOf, At
    <3> QED BY <1>1, <2>1, <3>1 DEF PointOf, BeforePublishing, Preparing
  <2> QED BY <1>1, <1>4, <2>2, FilesSame DEF RestInv
<1>5. CASE mem.pc \in {"close", "attention"}
  <2>1. mem'.pc = "fail"
    BY <1>1, <1>5, Going DEF NextPhase, At, Pcs
  <2> QED BY <1>1, <2>1, QuietRest DEF RestPoints, BeforePublishing, Preparing
<1> QED BY <1>2, <1>3, <1>4, <1>5 DEF NextPhase

LEMMA QuietStepsRest ==
    ASSUME NoRecycle, TypeOK, JournalInv, RowsInv, RestInv,
           \/ Begin \/ Recheck \/ Commit \/ CommitRejected \/ CleanedUp \/ UndoDone \/ Refuse \/ Finish
           \/ Reclaim \/ Started \/ ResumeFailed \/ Preflight \/ RemainingDone \/ Recommit
           \/ RecommitRejected \/ TidyCheck \/ Settle \/ Compensate \/ Fail \/ Restart
    PROVE  RestInv'
<1>1. mem \in MemType /\ Rows \in SUBSET Mutations
  BY TypeParts DEF Rows
<1>2. CASE Begin \/ Recheck
  <2>1. /\ ~adopted /\ UNCHANGED <<disk, row, adopted, touched>> /\ mem.pc \in BeforePublishing
        /\ mem.ready \in SUBSET Mutations
    BY <1>1, <1>2 DEF Begin, Recheck, At, JournalInv, AdoptionInv, CleaningUp, AtAnyTime,
       BeforePublishing, Preparing, MemType, world
  <2>2. mem'.pc \in BeforePublishing \cup {"publish", "undo"}
    BY <1>1, <1>2, <2>1, Starting, Raising DEF Begin, Recheck, Pcs, BeforePublishing, Preparing
  <2> QED BY <2>1, <2>2, BeforeRest
<1>3. CASE Commit \/ Recommit
  BY <1>3 DEF Commit, Recommit, Adopts, RestInv
<1>4. CASE CommitRejected
  <2>1. ~adopted /\ UNCHANGED <<disk, row, adopted, touched>> /\ mem.pc = "commit" /\ Raises
    BY <1>4 DEF CommitRejected, At, JournalInv, AdoptionInv, CleaningUp, AtAnyTime, world
  <2> QED BY <2>1, RaisesRest
<1>5. CASE UndoDone
  <2>1. /\ UNCHANGED <<row, adopted, touched>> /\ mem'.pc \in {"refused", "resumeFailed"}
    BY <1>1, <1>5, Going DEF UndoDone, Pcs, world
  <2>2. \A n \in Mutations : /\ disk'[Source(n)] = disk[Source(n)] /\ disk'[Backup(n)] = disk[Backup(n)]
                             /\ disk'[Destination(n)] = disk[Destination(n)]
                             /\ disk'[Temp(n)] \in {disk[Temp(n)], Missing}
    <3>1. \A n \in Mutations : Source(n)[2] # "temp" /\ Backup(n)[2] # "temp" /\ Destination(n)[2] # "temp"
      BY DEF Source, Backup, Destination, Collider, NoRecycle
    <3> QED BY <1>5, <3>1, UndoDoneMoves, PathsApart
  <2>3. \A n \in Mutations : /\ Original(n)' <=> Original(n)
                             /\ Moved(n)' <=> Moved(n)
                             /\ Unmoved(n)' <=> Unmoved(n)
    BY <2>2, SameRest
  <2>4. ~adopted => EarlyInv'
    BY <2>1, <2>3 DEF RestInv, EarlyInv
  <2>5. \A n \in Mutations : PointOf(n)'
    BY <2>1 DEF PointOf, BeforePublishing, Preparing
  <2>6. ~adopted => \A n \in Mutations \ touched : FilesOf(n)'
    BY <2>1, <2>2, <2>3 DEF RestInv, FilesOf
  <2> QED BY <2>1, <2>4, <2>5, <2>6 DEF RestInv
<1>6. CASE Reclaim
  <2>1. UNCHANGED <<disk, row, adopted, touched>> /\ mem'.pc = "begin" /\ Open = {}
    BY <1>6 DEF Reclaim, Forgotten, world
  <2>2. \A m \in Mutations : row[m].state \in {"none"} \cup Closed
    BY <2>1 DEF Open, Rows, NoRow
  <2>3. \A m \in Mutations \ touched : PointOf(m)'
    BY <2>1, <2>2 DEF PointOf, BeforePublishing, Preparing, Early, Closed
  <2> QED BY <2>1, <2>3, FilesSame DEF RestInv
<1>7. CASE \/ CleanedUp \/ Refuse \/ Finish \/ Started \/ Preflight \/ RemainingDone
           \/ TidyCheck \/ Settle \/ Fail \/ Restart
  <2>1. /\ UNCHANGED <<disk, row, adopted, touched>>
        /\ mem'.pc \in {"idle", "settle", "remaining", "recommit", "tidy", "attention", "starting"}
    BY <1>1, <1>7, Going DEF CleanedUp, Refuse, Finish, Started, Preflight, RemainingDone,
       TidyCheck, Settle, Fail, Restart, At, Pcs, world
  <2> QED BY <2>1, QuietRest DEF RestPoints, BeforePublishing, Preparing
<1>8. CASE ResumeFailed \/ RecommitRejected \/ Compensate
  <2>1. /\ UNCHANGED <<disk, row, adopted, touched>>
        /\ mem'.pc \in {"fail", "compensate", "attention", "mark"}
    BY <1>1, <1>8, Starting DEF ResumeFailed, RecommitRejected, Compensate, Compensation, Pcs, world
  <2> QED BY <2>1, QuietRest DEF RestPoints, BeforePublishing, Preparing
<1> QED BY <1>2, <1>3, <1>4, <1>5, <1>6, <1>7, <1>8

-----------------------------------------------------------------------------
(* What goes wrong, and the invariant *)

LEMMA FaultRest ==
    ASSUME NoRecycle, TypeOK, JournalInv, RowsInv, RestInv, Fault
    PROVE  RestInv'
<1>1. UNCHANGED <<disk, adopted, touched>> /\ mem \in MemType /\ Rows \in SUBSET Mutations
  BY TypeParts DEF Fault, Rows
<1>2. CASE adopted
  BY <1>1, <1>2 DEF RestInv
<1>3. CASE ~adopted /\ mem.pc \in {"ensure", "stage", "recheck"} /\ Raises /\ UNCHANGED row
  <2>1. mem'.pc = "undo"
    BY <1>1, <1>3, Raising
  <2> QED BY <1>1, <1>3, <2>1, BeforeRest DEF BeforePublishing, Preparing
<1>4. CASE ~adopted /\ mem.pc = "publish" /\ Raises /\ UNCHANGED row
  BY <1>1, <1>4, RaisesRest
<1>5. ASSUME ~adopted, NEW m \in mem.todo, At("undo"), GivesUp(m)
      PROVE  RestInv'
  <2>1. m \in Mutations
    BY <1>1 DEF MemType
  <2>2. /\ mem'.pc = mem.pc /\ mem'.backedUp = mem.backedUp /\ mem'.published = mem.published
        /\ \A n \in Mutations : n # m => (n \in mem'.todo <=> n \in mem.todo)
    BY <1>1, <1>5, Passing DEF GivesUp
  <2>3. row'[m].state = "needs_attention" /\ \A n \in Mutations : n # m => row'[n] = row[n]
    BY <1>5, <2>1, RowTypes, TypeParts DEF GivesUp, RowStates
  <2> QED BY <1>1, <1>5, <2>1, <2>2, <2>3, RowRest
<1>6. CASE (Starts(Compensation, Rows) \/ Starts("attention", Rows)) /\ UNCHANGED row
  <2>1. mem'.pc \in {"attention", "compensate"}
    BY <1>1, <1>6, Starting DEF Compensation, Pcs
  <2> QED BY <1>1, <1>6, <2>1, QuietRest DEF RestPoints, BeforePublishing, Preparing
<1>7. At("cleanup") => adopted
  BY DEF At, JournalInv, AdoptionInv, CleaningUp
<1> QED BY <1>2, <1>3, <1>4, <1>5, <1>6, <1>7 DEF Fault

\* The mutation whose file another program writes is not spoken of any more.
LEMMA OtherWritesRest ==
    ASSUME NoRecycle, TypeOK, FilesInv, RestInv, NEW p \in Paths, OtherWrites(p)
    PROVE  RestInv'
<1>1. /\ p[1] \in Mutations /\ touched = {} /\ touched' = {p[1]} /\ UNCHANGED <<row, adopted, mem>>
      /\ \A x \in Paths : x # p => disk'[x] = disk[x]
  BY OtherWritesMoves DEF OtherWrites
<1>2. ASSUME NEW n \in Mutations \ touched'
      PROVE  /\ Original(n)' <=> Original(n)
             /\ Moved(n)' <=> Moved(n)
             /\ Unmoved(n)' <=> Unmoved(n)
             /\ Tracked(n) => Tracked(n)'
             /\ disk'[Temp(n)] = disk[Temp(n)]
  <2>1. SameAt(n)
    BY <1>1, <1>2, PathsApart DEF SameAt
  <2> QED BY <1>1, <2>1, SameRest DEF SameAt
<1>3. ~adopted => EarlyInv'
  BY <1>1, <1>2 DEF RestInv, EarlyInv
<1>4. ASSUME ~adopted, NEW n \in Mutations \ touched'
      PROVE  FilesOf(n)' /\ PointOf(n)'
  <2>1. FilesOf(n) /\ PointOf(n)
    BY <1>1, <1>4 DEF RestInv
  <2>2. FilesOf(n)'
    BY <1>1, <1>2, <1>4, <2>1 DEF FilesOf
  <2>3. PointOf(n)'
    BY <1>1, <1>2, <1>4, <2>1 DEF PointOf
  <2> QED BY <2>2, <2>3
<1> QED BY <1>1, <1>3, <1>4 DEF RestInv

LEMMA NextRest ==
    ASSUME NoRecycle, TypeOK, JournalInv, RowsInv, FilesInv, RestInv, [Next]_vars
    PROVE  RestInv'
<1>1. ASSUME NEW m \in Mutations,
             \/ EnsureJournal(m) \/ Stage(m) \/ Advance(m) \/ BackUp(m) \/ MarkBackedUp(m)
             \/ Place(m) \/ MarkPublished(m) \/ Cleanup(m) \/ UndoMark(m) \/ UndoRestore(m)
             \/ RemainingBackUp(m) \/ RemainingPlace(m) \/ RemainingMark(m) \/ Tidy(m)
             \/ Mark(m) \/ Restore(m) \/ Close(m) \/ Attend(m)
      PROVE  RestInv'
  <2>1. CASE adopted
    BY <1>1, <2>1, MutationTypes DEF RestInv
  <2>2. CASE ~adopted
    <3>1. ~Cleanup(m) /\ ~Tidy(m)
      BY <2>2, CleanupFiles
    <3> QED BY <1>1, <2>2, <3>1, PrepareRest, PublishRest, UndoRest, MarkRest, RestoreRest,
               CloseRest,
               ResumeRest
  <2> QED BY <2>1, <2>2
<1>2. CASE Work
  BY <1>1, <1>2, RecoverRest, PhaseRest, QuietStepsRest DEF Work
<1>3. CASE Fault
  BY <1>3, FaultRest
<1>4. CASE Stop
  <2>1. mem'.pc = "down" /\ UNCHANGED <<disk, row, adopted, touched>>
    BY <1>4 DEF Stop, Forgotten
  <2> QED BY <2>1, QuietRest DEF RestPoints, BeforePublishing, Preparing
<1>5. CASE \/ OtherBundleFails \/ UNCHANGED vars
           \/ \E c \in {"settingsChanged", "rootsChanged"} : Reconfigure(c)
  <2>1. UNCHANGED <<disk, row, adopted, mem, touched>>
    BY <1>5 DEF OtherBundleFails, Reconfigure, vars, world
  <2>2. \A m \in Mutations : PointOf(m) => PointOf(m)'
    BY <2>1, SameRest DEF PointOf
  <2> QED BY <2>1, <2>2, FilesSame DEF RestInv
<1>6. ASSUME NEW p \in Paths, OtherWrites(p)
      PROVE  RestInv'
  BY <1>6, OtherWritesRest
<1> QED BY <1>2, <1>3, <1>4, <1>5, <1>6 DEF Next

LEMMA InitRest ==
    ASSUME NoRecycle, Init
    PROVE  RowsInv /\ RestInv
<1>1. /\ \A p \in Paths : disk[p] = IF p[2] = "source" /\ HasSource(p[1]) THEN Old(p[1]) ELSE Missing
      /\ mem.pc = "begin" /\ \A m \in Mutations : row[m].state = "none"
  BY DEF Init, Forgotten, NoRow
<1>2. RowsInv
  BY <1>1 DEF RowsInv, Resuming
<1>3. ASSUME NEW m \in Mutations
      PROVE  Unmoved(m) /\ disk[Temp(m)] = Missing
  <2>1. /\ Source(m)[2] = "source" /\ Temp(m)[2] = "temp" /\ Backup(m)[2] = "backup"
        /\ ~InPlace(m) => Destination(m)[2] = "destination"
    BY DEF Source, Temp, Backup, Destination, Collider, NoRecycle
  <2>2. /\ HasSource(m) => disk[Source(m)] = Old(m)
        /\ disk[Temp(m)] = Missing /\ disk[Backup(m)] = Missing
        /\ ~InPlace(m) => disk[Destination(m)] = Missing
    BY <1>1, <2>1, PathsApart
  <2> QED BY <2>2, BytesApart DEF Unmoved, Original, SourceIntact, Holds
<1>4. \A m \in Mutations : FilesOf(m) /\ PointOf(m)
  BY <1>1, <1>3 DEF FilesOf, PointOf, Unmoved
<1>5. EarlyInv
  BY <1>3 DEF EarlyInv
<1> QED BY <1>2, <1>4, <1>5 DEF RestInv

LEMMA RestHolds ==
    ASSUME NoRecycle, "stopBetweenMutations" \notin Admits
    PROVE  SafeSpec => [](RowsInv /\ RestInv)
<1>1. Init => RowsInv /\ RestInv
  BY InitRest
<1>2. /\ TypeOK /\ JournalInv /\ JournalInv' /\ KeptInv /\ FilesInv /\ RowsInv /\ RestInv /\ [Next]_vars
      => (RowsInv /\ RestInv)'
  BY NextRows, NextRest
<1> QED BY <1>1, <1>2, TypesHold, JournalHolds, FilesHold, PTL DEF SafeSpec

\* A row that says rolled back (_rollback, _restore_originals) is true of the files, unless
\* another program has written to them: the original is where it was, and neither its backup
\* nor the output is there.
THEOREM RolledBackIsRestoredHolds ==
    ASSUME NoRecycle, "stopBetweenMutations" \notin Admits
    PROVE  SafeSpec => []RolledBackIsRestored
<1>1. JournalInv /\ RestInv => RolledBackIsRestored
  <2> SUFFICES ASSUME JournalInv, RestInv, NEW m \in Mutations \ touched, row[m].state = "rolled_back"
               PROVE  Unmoved(m)
    BY DEF RolledBackIsRestored, Unmoved, Original
  <2>1. ~adopted
    BY DEF JournalInv, AdoptionInv, Committed
  <2> QED BY <2>1 DEF RestInv, FilesOf
<1> QED BY <1>1, JournalHolds, RestHolds, PTL

-----------------------------------------------------------------------------
(* What other programs wrote: the invariant *)

Alien(p) == disk[p][2] \in {"edited", "foreign"}

\* A temporary that holds another program's bytes is a copy of the source.
CopyOf(m) == Alien(Temp(m)) => Staged(m) = Old(m) /\ disk[Source(m)] = disk[Temp(m)]

\* Wherever a file is renamed to, there is nothing of another program.
WayOf(m) ==
    /\ mem.pc \in {"publish", "commit", "undo"} /\ m \in mem.backedUp \ mem.published
       => Holds(Source(m), Missing)
    /\ mem.pc = "publish" /\ m \in mem.todo \ mem.published /\ ~InPlace(m)
       => Holds(Destination(m), Missing)
    /\ mem.pc = "remaining" => ~Alien(Temp(m)) /\ ~Alien(Backup(m)) /\ ~Alien(Destination(m))
    /\ mem.pc \in {"mark", "restore"} /\ m \in Open /\ InPlace(m) => ~Alien(Source(m))

BytesInv ==
    /\ touched = {} => \A p \in Paths : ~Alien(p)
    /\ \A m \in Mutations : CopyOf(m) /\ WayOf(m)

\* A step keeps what others wrote, and makes nothing that looks so.
Survives == \A p \in Paths : Alien(p) => \E q \in Paths : disk'[q] = disk[p]
Keeps == Survives /\ \A p \in Paths : Alien(p)' => \E q \in Paths : Alien(q)

BytesPoints == {"publish", "commit", "undo", "remaining", "mark", "restore"}

-----------------------------------------------------------------------------

LEMMA OwnBytes ==
    ASSUME NEW m \in Mutations
    PROVE  \A p \in Paths : disk[p] \in {Missing, Old(m), Staged(m)} => ~Alien(p)
BY DEF Alien, Missing, Old, Staged

LEMMA StayKeeps ==
    ASSUME disk' = disk
    PROVE  Keeps
BY DEF Keeps, Survives, Alien

LEMMA RenameKeeps ==
    ASSUME TypeOK, NEW p \in Paths, NEW q \in Paths, p # q, Renames(p, q), ~Alien(q)
    PROVE  Keeps
<1>1. disk \in [Paths -> Bytes]
  BY TypeParts
<1>2. /\ disk'[q] = disk[p] /\ disk'[p] = Missing
      /\ \A x \in Paths : x \notin {p, q} => disk'[x] = disk[x]
  BY <1>1 DEF Renames
<1>3. \A x \in Paths : Alien(x) => \E y \in Paths : disk'[y] = disk[x]
  BY <1>2
<1>4. \A x \in Paths : Alien(x)' => \E y \in Paths : Alien(y)
  BY <1>2 DEF Alien, Missing
<1> QED BY <1>3, <1>4 DEF Keeps, Survives

LEMMA UnlinkKeeps ==
    ASSUME TypeOK, NEW p \in Paths, Unlinks(p),
           Alien(p) => \E q \in Paths : q # p /\ disk[q] = disk[p]
    PROVE  Keeps
<1>1. disk \in [Paths -> Bytes]
  BY TypeParts
<1>2. /\ disk'[p] = Missing
      /\ \A x \in Paths : x # p => disk'[x] = disk[x]
  BY <1>1 DEF Unlinks
<1>3. \A x \in Paths : Alien(x) => \E y \in Paths : disk'[y] = disk[x]
  BY <1>2
<1>4. \A x \in Paths : Alien(x)' => \E y \in Paths : Alien(y)
  BY <1>2 DEF Alien, Missing
<1> QED BY <1>3, <1>4 DEF Keeps, Survives

LEMMA TempKeeps ==
    ASSUME NoRecycle, TypeOK, BytesInv, NEW m \in Mutations, Unlinks(Temp(m))
    PROVE  Keeps /\ CopyOf(m)'
<1>1. CopyOf(m)
  BY DEF BytesInv
<1>2. Alien(Temp(m)) => \E q \in Paths : q # Temp(m) /\ disk[q] = disk[Temp(m)]
  BY <1>1, PathsApart DEF CopyOf
<1>3. disk'[Temp(m)] = Missing
  BY PathsApart, UnlinkIsLocal
<1> QED BY <1>2, <1>3, UnlinkKeeps, PathsApart DEF CopyOf, Alien, Missing

LEMMA CopySame ==
    ASSUME NEW m \in Mutations, CopyOf(m),
           disk'[Temp(m)] = disk[Temp(m)], disk'[Source(m)] = disk[Source(m)] \/ ~Alien(Source(m))
    PROVE  CopyOf(m)'
BY DEF CopyOf, Alien

\* One mutation is worked on.
LEMMA BytesOne ==
    ASSUME NoRecycle, BytesInv, touched' = touched, NEW m \in Mutations, Keeps,
           Local(m) \/ disk' = disk, mem'.pc = mem.pc,
           \A n \in Mutations : n # m => /\ row'[n] = row[n]
                                         /\ n \in mem'.todo <=> n \in mem.todo
                                         /\ n \in mem'.backedUp <=> n \in mem.backedUp
                                         /\ n \in mem'.published <=> n \in mem.published,
           CopyOf(m)', WayOf(m)'
    PROVE  BytesInv'
<1>1. ASSUME NEW n \in Mutations, n # m
      PROVE  CopyOf(n)' /\ WayOf(n)'
  <2>1. SameAt(n)
    BY <1>1, OthersStay DEF SameAt
  <2>2. CopyOf(n) /\ WayOf(n)
    BY DEF BytesInv
  <2>3. CopyOf(n)'
    BY <2>1, <2>2, CopySame DEF SameAt
  <2>4. n \in Open' <=> n \in Open
    BY <1>1 DEF Open, Rows
  <2>5. WayOf(n)'
    BY <1>1, <2>1, <2>2, <2>4 DEF WayOf, SameAt, Holds, Alien
  <2> QED BY <2>3, <2>5
<1>2. touched' = {} => \A p \in Paths : ~Alien(p)'
  BY DEF BytesInv, Keeps
<1> QED BY <1>1, <1>2 DEF BytesInv

\* Where nothing is renamed.
LEMMA BytesPoint ==
    ASSUME BytesInv, touched' = touched, Keeps, mem'.pc \notin BytesPoints,
           \A m \in Mutations : CopyOf(m)'
    PROVE  BytesInv'
<1>1. \A m \in Mutations : WayOf(m)'
  BY DEF WayOf, BytesPoints
<1>2. touched' = {} => \A p \in Paths : ~Alien(p)'
  BY DEF BytesInv, Keeps
<1> QED BY <1>1, <1>2 DEF BytesInv

\* No file is moved.
LEMMA BytesStay ==
    ASSUME BytesInv, UNCHANGED <<disk, touched>>, \A m \in Mutations : WayOf(m)'
    PROVE  BytesInv'
<1>1. \A m \in Mutations : CopyOf(m)'
  BY CopySame DEF BytesInv
<1>2. touched' = {} => \A p \in Paths : ~Alien(p)'
  BY DEF BytesInv, Alien
<1> QED BY <1>1, <1>2 DEF BytesInv

LEMMA BytesQuiet ==
    ASSUME BytesInv, UNCHANGED <<disk, touched>>, mem'.pc \notin BytesPoints
    PROVE  BytesInv'
BY BytesStay DEF WayOf, BytesPoints

\* The publisher gives up.
LEMMA RaisesBytes ==
    ASSUME TypeOK, FilesInv, BytesInv, UNCHANGED <<disk, touched>>, Raises,
           mem.pc \in {"publish", "commit"} \cup Preparing
    PROVE  BytesInv'
<1>1. mem'.pc = "undo" /\ mem'.backedUp = mem.backedUp /\ mem'.published = mem.published
  BY Raising, TypeParts
<1>2. ASSUME NEW m \in Mutations
      PROVE  WayOf(m)'
  <2>1. CASE mem.pc \in Preparing
    BY <1>1, <2>1 DEF FilesInv, CarriedInv, WayOf
  <2>2. CASE mem.pc \in {"publish", "commit"}
    BY <1>1, <2>2 DEF BytesInv, WayOf, Holds
  <2> QED BY <2>1, <2>2
<1> QED BY <1>2, BytesStay

-----------------------------------------------------------------------------
(* The publisher *)

LEMMA PrepareBytes ==
    ASSUME NoRecycle, TypeOK, FilesInv, BytesInv, NEW m \in Mutations,
           EnsureJournal(m) \/ Stage(m) \/ Advance(m)
    PROVE  BytesInv' /\ Keeps
<1>1. /\ touched' = touched /\ mem.pc \in Preparing /\ mem \in MemType /\ disk \in [Paths -> Bytes]
  BY TypeParts DEF EnsureJournal, Stage, Advance, At, Preparing, world
<1>2. CASE Raises /\ UNCHANGED disk
  BY <1>1, <1>2, RaisesBytes, StayKeeps
<1>3. CASE ~(Raises /\ UNCHANGED disk)
  <2>1. mem'.pc \notin BytesPoints
    <3>1. mem'.pc \in Preparing
      BY <1>1, <1>3, Going DEF EnsureJournal, Stage, Advance, MemType, Pcs, Preparing
    <3> QED BY <3>1 DEF BytesPoints, Preparing
  <2>2. CASE disk' = disk
    BY <1>1, <2>1, <2>2, BytesQuiet, StayKeeps
  <2>3. CASE /\ Stage(m)
             /\ disk' = [disk EXCEPT ![Temp(m)] = IF Staged(m) = Old(m) THEN disk[Source(m)] ELSE Staged(m)]
    <3>1. /\ \A p \in Paths : p # Temp(m) => disk'[p] = disk[p]
          /\ disk'[Temp(m)] = IF Staged(m) = Old(m) THEN disk[Source(m)] ELSE Staged(m)
      BY <1>1, <2>3, PathsApart
    <3>2. \A n \in Mutations : CopyOf(n)
      BY DEF BytesInv
    <3>3. ASSUME NEW n \in Mutations, n # m
          PROVE  CopyOf(n)'
      BY <3>1, <3>2, <3>3, PathsApart, CopySame
    <3>4. CopyOf(m)'
      <4>1. disk'[Source(m)] = disk[Source(m)]
        BY <3>1, PathsApart
      <4>2. disk'[Temp(m)] = Staged(m) => ~Alien(Temp(m))'
        BY DEF Alien, Staged, Old
      <4> QED BY <3>1, <4>1, <4>2 DEF CopyOf
    <3>5. \A p \in Paths : Alien(p) => \E q \in Paths : disk'[q] = disk[p]
      BY <3>1, <3>2, PathsApart DEF CopyOf
    <3>6. \A p \in Paths : Alien(p)' => \E q \in Paths : Alien(q)
      <4>1. disk'[Temp(m)] = Staged(m) => ~Alien(Temp(m))'
        BY DEF Alien, Staged, Old
      <4>2. disk'[Temp(m)] = disk[Source(m)] => (Alien(Temp(m))' => Alien(Source(m)))
        BY DEF Alien
      <4>3. \A p \in Paths : p # Temp(m) => (Alien(p)' => Alien(p))
        BY <3>1 DEF Alien
      <4> QED BY <3>1, <4>1, <4>2, <4>3, PathsApart
    <3>7. Keeps
      BY <3>5, <3>6 DEF Keeps, Survives
    <3> QED BY <1>1, <2>1, <3>3, <3>4, <3>7, BytesPoint
  <2> QED BY <2>2, <2>3 DEF EnsureJournal, Stage, Advance
<1> QED BY <1>2, <1>3

LEMMA RecheckBytes ==
    ASSUME NoRecycle, TypeOK, FilesInv, BytesInv, Recheck
    PROVE  BytesInv' /\ Keeps
<1>1. /\ UNCHANGED <<disk, touched>> /\ mem.pc = "recheck" /\ mem \in MemType
  BY TypeParts DEF Recheck, At, world
<1>2. CASE Raises
  BY <1>1, <1>2, RaisesBytes, StayKeeps DEF Preparing
<1>3. CASE Starts("publish", mem.ready) /\ \A m \in mem.ready : StillPublishable(m)
  <2>1. /\ mem'.pc = "publish" /\ mem'.todo = mem.ready /\ mem'.backedUp = {}
    <3>1. mem.ready \in SUBSET Mutations /\ mem.backedUp = {}
      BY <1>1 DEF MemType, FilesInv, CarriedInv, Preparing
    <3> QED BY <1>1, <1>3, <3>1, Starting DEF Pcs
  <2>2. ASSUME NEW m \in Mutations
        PROVE  WayOf(m)'
    <3>1. Collider(m) = {}
      BY DEF NoRecycle, Collider
    <3>2. m \in mem'.todo /\ ~InPlace(m) => Holds(Destination(m), Missing)'
      BY <1>1, <1>3, <2>1, <3>1 DEF StillPublishable, Holds
    <3> QED BY <2>1, <3>2 DEF WayOf
  <2> QED BY <1>1, <2>2, BytesStay, StayKeeps
<1> QED BY <1>2, <1>3 DEF Recheck

LEMMA PublishBytes ==
    ASSUME NoRecycle, TypeOK, JournalInv, FilesInv, BytesInv, NEW m \in Mutations,
           BackUp(m) \/ MarkBackedUp(m) \/ Place(m) \/ MarkPublished(m)
    PROVE  BytesInv' /\ Keeps
<1>1. /\ touched' = touched /\ mem.pc = "publish" /\ mem \in MemType /\ PlacedOf(m) /\ CarriedOf(m)
      /\ row \in [Mutations -> RowType] /\ m \in mem.todo
      /\ CopyOf(m) /\ WayOf(m)
  BY TypeParts DEF BackUp, MarkBackedUp, Place, MarkPublished, At, Next1, FilesInv, PlacedInv,
     CarriedInv,
     BytesInv, world
<1>2. CASE BackUp(m)
  <2>1. /\ InPlace(m) /\ Local(m) /\ disk'[Backup(m)] = disk[Source(m)] /\ disk'[Source(m)] = Missing
        /\ disk'[Temp(m)] = disk[Temp(m)] /\ m \notin mem.backedUp /\ row' = row
    BY <1>2, BackUpMoves, PathsApart, RenameIsLocal DEF BackUp
  <2>2. /\ mem'.pc = mem.pc /\ mem'.todo = mem.todo /\ mem'.backedUp = mem.backedUp \cup {m}
        /\ mem'.published = mem.published
    BY <1>1, <1>2 DEF BackUp, MemType
  <2>3. Holds(Backup(m), Missing) /\ disk[Temp(m)] = Staged(m)
    BY <1>1, <2>1 DEF PlacedOf, Holds
  <2>4. Keeps
    BY <1>2, <2>3, RenameKeeps, OwnBytes, PathsApart DEF BackUp, Holds
  <2>5. CopyOf(m)' /\ WayOf(m)'
    <3>1. ~Alien(Temp(m))'
      BY <2>1, <2>3 DEF Alien, Staged, Old
    <3> QED BY <1>1, <2>1, <2>2, <3>1 DEF CopyOf, WayOf, Holds
  <2> QED BY <1>1, <2>1, <2>2, <2>4, <2>5, BytesOne
<1>3. CASE Place(m)
  <2>1. /\ Local(m) /\ disk'[Temp(m)] = Missing /\ (InPlace(m) => m \in mem.backedUp /\ Destination(m) = Source(m))
        /\ m \notin mem.published /\ row' = row
    BY <1>3, PlaceMoves, PathsApart, RenameIsLocal DEF Place, Placed
  <2>2. /\ mem'.pc = mem.pc /\ mem'.todo = mem.todo /\ mem'.backedUp = mem.backedUp
        /\ mem'.published = mem.published \cup {m}
    BY <1>1, <1>3 DEF Place, MemType
  <2>3. Holds(Destination(m), Missing)
    BY <1>1, <2>1 DEF WayOf
  <2>4. Keeps
    BY <1>3, <2>3, RenameKeeps, OwnBytes, PathsApart DEF Place, Holds
  <2>5. CopyOf(m)' /\ WayOf(m)'
    BY <1>1, <2>1, <2>2 DEF CopyOf, Alien, Missing, WayOf
  <2> QED BY <1>1, <2>1, <2>2, <2>4, <2>5, BytesOne
<1>4. CASE MarkBackedUp(m) \/ MarkPublished(m)
  <2>1. /\ disk' = disk /\ mem'.pc \in {"publish", "commit"} /\ mem'.backedUp = mem.backedUp
        /\ mem'.published \in {mem.published, mem.published \cup {m}} /\ mem'.todo \subseteq mem.todo
    BY <1>1, <1>4 DEF MarkBackedUp, MarkPublished, MemType
  <2>2. ASSUME NEW n \in Mutations
        PROVE  WayOf(n)'
    BY <1>1, <2>1 DEF BytesInv, WayOf, Holds
  <2> QED BY <1>1, <2>1, <2>2, BytesStay, StayKeeps
<1> QED BY <1>2, <1>3, <1>4

LEMMA CleanupBytes ==
    ASSUME NoRecycle, TypeOK, BytesInv, NEW m \in Mutations, Cleanup(m) \/ Tidy(m)
    PROVE  BytesInv' /\ Keeps
<1>1. /\ touched' = touched /\ mem \in MemType /\ mem.pc \in {"cleanup", "tidy"}
      /\ \A n \in Mutations : CopyOf(n)
  BY TypeParts DEF Cleanup, Tidy, At, BytesInv, world
<1>2. mem'.pc \notin BytesPoints
  <2>1. mem'.pc \in {"cleanup", "tidy", "attention"}
    <3>1. ASSUME mem' = [mem EXCEPT !.backedUp = mem.backedUp \ {m}]
          PROVE  mem'.pc = mem.pc
      BY <1>1, <3>1 DEF MemType
    <3> QED BY <1>1, <3>1, Passing, Starting DEF Cleanup, Tidy, Pcs, Rows
  <2> QED BY <2>1 DEF BytesPoints
<1>3. CASE disk' = disk
  BY <1>1, <1>2, <1>3, BytesQuiet, StayKeeps
<1>4. CASE Unlinks(Temp(m))
  <2>1. Keeps /\ CopyOf(m)' /\ Local(m)
    BY <1>4, TempKeeps, UnlinkIsLocal, PathsApart
  <2>2. \A n \in Mutations : n # m => CopyOf(n)'
    BY <1>1, <2>1, OthersStay, CopySame
  <2> QED BY <1>1, <1>2, <2>1, <2>2, BytesPoint
<1>5. ASSUME NEW p \in {Source(m), Backup(m)}, Holds(p, Old(m)), Unlinks(p)
      PROVE  BytesInv' /\ Keeps
  <2>1. /\ p \in Paths /\ ~Alien(p) /\ p # Temp(m) /\ p[1] = m
    BY <1>5, OwnBytes, PathsApart DEF Holds
  <2>2. Local(m) /\ \A x \in Paths : x # p => disk'[x] = disk[x]
    BY <1>5, <2>1, UnlinkIsLocal
  <2>3. Keeps
    BY <1>5, <2>1, UnlinkKeeps
  <2>4. CopyOf(m)'
    BY <1>1, <2>1, <2>2, CopySame, PathsApart
  <2>5. \A n \in Mutations : n # m => CopyOf(n)'
    BY <1>1, <2>2, OthersStay, CopySame
  <2> QED BY <1>1, <1>2, <2>3, <2>4, <2>5, BytesPoint
<1> QED BY <1>3, <1>4, <1>5 DEF Cleanup, Disposable, Tidy

-----------------------------------------------------------------------------
(* The two rollbacks *)

LEMMA UndoRestoreBytes ==
    ASSUME NoRecycle, TypeOK, JournalInv, FilesInv, BytesInv, NEW m \in Mutations, UndoRestore(m)
    PROVE  BytesInv' /\ Keeps
<1>1. /\ touched' = touched /\ mem.pc = "undo" /\ mem'.pc = "undo"
      /\ mem \in MemType /\ row \in [Mutations -> RowType] /\ CarriedOf(m)
      /\ (Local(m) \/ disk' = disk) /\ CopyOf(m) /\ WayOf(m)
  BY UndoRestoreMoves, TypeParts DEF UndoRestore, At, world, FilesInv, CarriedInv, BytesInv
<1>2. \A n \in Mutations : n # m => /\ row'[n] = row[n]
                                    /\ n \in mem'.todo <=> n \in mem.todo
                                    /\ n \in mem'.backedUp <=> n \in mem.backedUp
                                    /\ n \in mem'.published <=> n \in mem.published
  <2>1. \A n \in Mutations : n # m => row'[n] = row[n]
    BY <1>1 DEF UndoRestore, GivesUp, Becomes
  <2>2. mem'.todo \in {mem.todo, mem.todo \ {m}}
    <3>1. ASSUME mem' = [mem EXCEPT !.backedUp = mem.backedUp \ {m}, !.published = mem.published \ {m}]
          PROVE  mem'.todo = mem.todo
      BY <1>1, <3>1 DEF MemType
    <3> QED BY <1>1, <3>1, Passing DEF UndoRestore, GivesUp
  <2> QED BY <2>1, <2>2, UndoRestoreMoves
<1>3. SUFFICES Keeps /\ CopyOf(m)' /\ WayOf(m)'
  BY <1>1, <1>2, BytesOne
<1>4. CASE Unlinks(Destination(m)) /\ UNCHANGED mem /\ Holds(Destination(m), Staged(m))
  <2>1. ~Alien(Destination(m)) /\ Keeps
    BY <1>4, OwnBytes, UnlinkKeeps, PathsApart DEF Holds
  <2>2. /\ disk'[Temp(m)] = disk[Temp(m)] /\ disk'[Destination(m)] = Missing
        /\ disk'[Source(m)] = disk[Source(m)] \/ Destination(m) = Source(m)
    BY <1>4, PathsApart, UnlinkIsLocal
  <2>3. CopyOf(m)'
    BY <1>1, <2>1, <2>2, CopySame
  <2> QED BY <1>1, <1>4, <2>1, <2>2, <2>3 DEF WayOf, Holds
<1>5. CASE /\ ~MustWithdraw(m) /\ m \in mem.backedUp /\ Renames(Backup(m), Source(m))
           /\ mem' = [mem EXCEPT !.backedUp = mem.backedUp \ {m}, !.published = mem.published \ {m}]
  <2>1. Holds(Source(m), Missing)
    <3>1. CASE m \in mem.published
      BY <1>1, <1>5, <3>1, PathsApart DEF MustWithdraw, CarriedOf
    <3>2. CASE m \notin mem.published
      BY <1>1, <1>5, <3>2 DEF WayOf
    <3> QED BY <3>1, <3>2
  <2>2. ~Alien(Source(m)) /\ Keeps
    BY <1>5, <2>1, OwnBytes, RenameKeeps, PathsApart DEF Holds
  <2>3. disk'[Temp(m)] = disk[Temp(m)]
    BY <1>5, PathsApart, RenameIsLocal
  <2>4. m \notin mem'.backedUp
    BY <1>1, <1>5 DEF MemType
  <2> QED BY <1>1, <2>2, <2>3, <2>4, CopySame DEF WayOf
<1>6. CASE Unlinks(Temp(m)) /\ UNCHANGED mem
  <2>1. disk'[Source(m)] = disk[Source(m)]
    BY <1>6, PathsApart, UnlinkIsLocal
  <2> QED BY <1>1, <1>6, <2>1, TempKeeps DEF WayOf, Holds
<1>7. CASE Passes(m) /\ disk' = disk
  <2>1. mem'.backedUp = mem.backedUp /\ mem'.published = mem.published
    BY <1>1, <1>7, Passing
  <2> QED BY <1>1, <1>7, <2>1, StayKeeps, CopySame DEF WayOf, Holds
<1> QED BY <1>4, <1>5, <1>6, <1>7 DEF UndoRestore, GivesUp

LEMMA UndoDoneBytes ==
    ASSUME NoRecycle, TypeOK, BytesInv, UndoDone
    PROVE  BytesInv' /\ Keeps
<1>1. /\ mem'.pc \notin BytesPoints /\ touched' = touched
  BY Going, TypeParts DEF UndoDone, Pcs, BytesPoints, world
<1>2. /\ \A p \in Paths : p[2] # "temp" => disk'[p] = disk[p]
      /\ \A p \in Paths : disk'[p] \in {disk[p], Missing}
      /\ \A n \in Mutations : CopyOf(n)
  BY UndoDoneMoves DEF BytesInv
<1>3. ASSUME NEW n \in Mutations
      PROVE  CopyOf(n)' /\ disk'[Source(n)] = disk[Source(n)]
  <2>1. disk'[Source(n)] = disk[Source(n)]
    BY <1>2, PathsApart DEF Source
  <2>2. disk'[Temp(n)] \in {disk[Temp(n)], Missing}
    BY <1>2, PathsApart
  <2> QED BY <1>2, <2>1, <2>2 DEF CopyOf, Alien, Missing
<1>4. ASSUME NEW p \in Paths, Alien(p)
      PROVE  \E q \in Paths : disk'[q] = disk[p]
  <2>1. CASE p[2] # "temp"
    BY <1>2, <2>1
  <2>2. CASE p[2] = "temp"
    <3>1. p[1] \in Mutations /\ p = Temp(p[1])
      BY <2>2 DEF Paths, Temp
    <3> QED BY <1>2, <1>3, <1>4, <3>1, PathsApart DEF CopyOf
  <2> QED BY <2>1, <2>2
<1>5. \A p \in Paths : Alien(p)' => Alien(p)
  BY <1>2 DEF Alien, Missing
<1> QED BY <1>1, <1>3, <1>4, <1>5, BytesPoint DEF Keeps, Survives

\* A row is set aside or marked.
LEMMA MarkBytes ==
    ASSUME NoRecycle, TypeOK, BytesInv, NEW m \in Mutations, UndoMark(m) \/ Mark(m) \/ Close(m) \/ Attend(m)
    PROVE  BytesInv' /\ Keeps
<1>1. /\ UNCHANGED <<disk, touched>> /\ mem \in MemType
      /\ mem.pc \in {"undo", "mark", "close", "attention"}
  BY TypeParts DEF UndoMark, Mark, Close, Attend, At, world
<1>2. /\ mem'.pc = mem.pc /\ mem'.backedUp = mem.backedUp /\ mem'.published = mem.published
  BY <1>1, Passing DEF UndoMark, Mark, Close, Attend
<1>3. mem.pc = "mark" => \A n \in Mutations : n \in Open' => n \in Open
  <2>1. CASE row' = row
    BY <2>1 DEF Open, Rows
  <2>2. CASE row[m].state \in Undoable /\ BecomesFor(m, "rollback_pending")
    <3>1. m \in Open /\ \A n \in Mutations : n # m => row'[n] = row[n]
      BY <2>2, RowTypes, TypeParts DEF Open, Rows, NoRow, Closed, Undoable, Early, RowStates, Undone
    <3> QED BY <3>1 DEF Open, Rows
  <2> QED BY <1>1, <2>1, <2>2 DEF UndoMark, Mark, Close, Attend, At
<1>4. \A n \in Mutations : WayOf(n)'
  BY <1>1, <1>2, <1>3 DEF BytesInv, WayOf, Holds, Alien
<1> QED BY <1>1, <1>4, BytesStay, StayKeeps

LEMMA RestoreBytes ==
    ASSUME NoRecycle, TypeOK, BytesInv, NEW m \in Mutations, Restore(m)
    PROVE  BytesInv' /\ Keeps
<1>1. /\ touched' = touched /\ row' = row /\ mem \in MemType /\ mem.pc = "restore" /\ mem'.pc = "restore"
      /\ CopyOf(m) /\ WayOf(m)
      /\ \A n \in Mutations : n # m => (n \in mem'.todo <=> n \in mem.todo)
      /\ mem'.backedUp = mem.backedUp /\ mem'.published = mem.published
  BY Passing, TypeParts DEF Restore, At, BytesInv, world
<1>2. CASE disk' = disk
  <2>1. WayOf(m)'
    BY <1>1, <1>2 DEF WayOf, Open, Rows, Alien
  <2> QED BY <1>1, <1>2, <2>1, StayKeeps, CopySame, BytesOne
<1>3. CASE row[m].state = "rollback_pending" /\ disk' # disk
  <2>1. m \in Open
    BY <1>3 DEF Open, Rows, NoRow, Closed
  <2>2. CASE Withdraws(m) /\ Unlinks(Destination(m))
    <3>1. ~Alien(Destination(m)) /\ Keeps
      BY <2>2, OwnBytes, UnlinkKeeps, PathsApart DEF Withdraws, Holds
    <3>2. /\ disk'[Temp(m)] = disk[Temp(m)] /\ disk'[Destination(m)] = Missing /\ Local(m)
          /\ disk'[Source(m)] = disk[Source(m)] \/ Destination(m) = Source(m)
          /\ InPlace(m) => Destination(m) = Source(m)
      BY <2>2, PathsApart, UnlinkIsLocal
    <3>3. CopyOf(m)'
      BY <1>1, <3>1, <3>2, CopySame
    <3>4. WayOf(m)'
      BY <1>1, <3>2 DEF WayOf, Alien, Missing
    <3> QED BY <1>1, <3>1, <3>2, <3>3, <3>4, BytesOne
  <2>3. CASE PutsBack(m) /\ Renames(Backup(m), Source(m))
    <3>1. InPlace(m) /\ ~Alien(Source(m)) /\ Keeps
      BY <1>1, <2>1, <2>3, RenameKeeps, PathsApart DEF PutsBack, KnownRecycle, NoRecycle, WayOf
    <3>2. disk'[Temp(m)] = disk[Temp(m)] /\ disk'[Source(m)] = Old(m) /\ Local(m)
      BY <2>3, PathsApart, RenameIsLocal DEF PutsBack, Holds
    <3>3. CopyOf(m)' /\ WayOf(m)'
      BY <1>1, <3>1, <3>2, CopySame DEF WayOf, Alien, Old
    <3> QED BY <1>1, <3>1, <3>2, <3>3, BytesOne
  <2>4. CASE Unlinks(Temp(m))
    <3>1. disk'[Source(m)] = disk[Source(m)] /\ Local(m) /\ Keeps /\ CopyOf(m)'
      BY <2>4, PathsApart, UnlinkIsLocal, TempKeeps
    <3>2. WayOf(m)'
      BY <1>1, <3>1 DEF WayOf, Open, Rows, Alien
    <3> QED BY <1>1, <3>1, <3>2, BytesOne
  <2> QED BY <1>3, <2>2, <2>3, <2>4 DEF Restore
<1> QED BY <1>2, <1>3 DEF Restore

LEMMA CompensateBytes ==
    ASSUME NoRecycle, TypeOK, BytesInv, Compensate
    PROVE  BytesInv' /\ Keeps
<1>1. /\ UNCHANGED <<disk, row, touched>> /\ mem \in MemType /\ Rows \in SUBSET Mutations
  BY TypeParts DEF Compensate, Rows, world
<1>2. CASE Starts("attention", Rows)
  <2>1. mem'.pc = "attention"
    BY <1>1, <1>2, Starting DEF Pcs
  <2> QED BY <1>1, <2>1, BytesQuiet, StayKeeps DEF BytesPoints
<1>3. CASE Starts("mark", Rows) /\ \A m \in Open : Restorable(m)
  <2>1. mem'.pc = "mark"
    BY <1>1, <1>3, Starting DEF Pcs
  <2>2. ASSUME NEW m \in Mutations, m \in Open, InPlace(m)
        PROVE  ~Alien(Source(m))
    <3>1. ~KnownRecycle(m) /\ Destination(m) = Source(m)
      BY <2>2, PathsApart DEF KnownRecycle, NoRecycle
    <3>2. disk[Source(m)] \in {Missing, Staged(m), Old(m)}
      BY <1>3, <2>2, <3>1 DEF Restorable, Holds
    <3> QED BY <3>2, OwnBytes, PathsApart
  <2>3. \A m \in Mutations : WayOf(m)'
    BY <1>1, <2>1, <2>2 DEF WayOf, Open, Rows, Alien
  <2> QED BY <1>1, <2>3, BytesStay, StayKeeps
<1> QED BY <1>2, <1>3 DEF Compensate

-----------------------------------------------------------------------------
(* Recovery publishes what is left *)

LEMMA PreflightBytes ==
    ASSUME NoRecycle, TypeOK, KeptInv, FilesInv, BytesInv, Preflight
    PROVE  BytesInv' /\ Keeps
<1>1. /\ mem \in MemType /\ mem.pc = "preflight" /\ UNCHANGED <<disk, row, touched>>
      /\ \A m \in Mutations : row[m].state \in Undoable /\ row[m].kept /\ CopyOf(m)
  BY TypeParts DEF Preflight, At, FilesInv, ResumedInv, KeptInv, BytesInv, world
<1>2. CASE mem'.pc = "attention"
  BY <1>1, <1>2, BytesQuiet, StayKeeps DEF BytesPoints
<1>3. CASE mem'.pc # "attention"
  <2>1. /\ mem'.pc = "remaining" /\ \A m \in Rows : Explained(m)
    BY <1>1, <1>3, Going DEF Preflight, Pcs
  <2>2. \A m \in Mutations : m \in Rows
    BY <1>1 DEF Rows, NoRow, Undoable, Early
  <2>3. ASSUME NEW m \in Mutations
        PROVE  ~Alien(Temp(m)) /\ ~Alien(Backup(m)) /\ ~Alien(Destination(m))
    <3>1. Explained(m) /\ CopyOf(m)
      BY <1>1, <2>1, <2>2
    <3>2. CASE Is(m, {"delete"})
      <4>1. Holds(Temp(m), Staged(m)) /\ BackupExplained(m) /\ Destination(m) = Source(m)
        <5>1. KnownDelete(m) /\ ~KnownRecycle(m) /\ InPlace(m)
          BY <1>1, <3>2, BytesApart DEF KnownDelete, KnownRecycle, NoRecycle
        <5>2. Holds(Temp(m), Staged(m)) /\ BackupExplained(m)
          BY <3>1, <5>1 DEF Explained
        <5> QED BY <5>1, <5>2, PathsApart
      <4> QED BY <4>1, OwnBytes, PathsApart DEF BackupExplained, SafelyBackedUp, NotBackedUp, Holds
    <3>3. CASE InPlace(m) /\ ~Is(m, {"delete"})
      <4>1. ~KnownDelete(m) /\ ~KnownRecycle(m) /\ Destination(m) = Source(m)
        BY <3>3, PathsApart DEF KnownDelete, KnownRecycle, NoRecycle
      <4>2. /\ disk[Backup(m)] \in {Old(m), Missing}
            /\ disk[Destination(m)] \in {Old(m), Missing, Staged(m)}
        BY <3>1, <3>3, <4>1 DEF Explained, BackupExplained, SafelyBackedUp, NotBackedUp, NotPlaced,
           Holds
      <4>3. ~Alien(Temp(m))
        BY <3>1, <3>3, BytesApart DEF CopyOf
      <4> QED BY <4>2, <4>3, OwnBytes, PathsApart
    <3>4. CASE ~InPlace(m)
      <4>1. ~KnownDelete(m) /\ ~KnownRecycle(m)
        BY <3>4, BytesApart DEF KnownDelete, KnownRecycle, NoRecycle
      <4>2. /\ SourceIntact(m) /\ Holds(Backup(m), Missing)
            /\ \/ row[m].state = "validated" /\ PlaceExplained(m)
               \/ row[m].state = "published" /\ Holds(Destination(m), Staged(m))
        BY <3>1, <3>4, <4>1 DEF Explained
      <4>3. ~Alien(Temp(m))
        <5>1. Staged(m) = Old(m) => HasSource(m)
          BY DEF Staged, Old, HasSource, Is
        <5>2. HasSource(m) => ~Alien(Source(m))
          BY <4>2, OwnBytes, PathsApart DEF SourceIntact, Holds
        <5> QED BY <3>1, <5>1, <5>2 DEF CopyOf, Alien
      <4>4. disk[Destination(m)] \in {Missing, Staged(m)}
        BY <4>2 DEF PlaceExplained, NotPlaced, SafelyPlaced, Holds
      <4> QED BY <4>2, <4>3, <4>4, OwnBytes, PathsApart DEF Holds
    <3> QED BY <3>2, <3>3, <3>4
  <2>4. \A m \in Mutations : WayOf(m)'
    BY <1>1, <2>1, <2>3 DEF WayOf, Alien
  <2> QED BY <1>1, <2>4, BytesStay, StayKeeps
<1> QED BY <1>2, <1>3

LEMMA ResumeBytes ==
    ASSUME NoRecycle, TypeOK, BytesInv, NEW m \in Mutations,
           RemainingBackUp(m) \/ RemainingPlace(m) \/ RemainingMark(m)
    PROVE  BytesInv' /\ Keeps
<1>1. /\ touched' = touched /\ mem \in MemType /\ mem.pc = "remaining" /\ mem'.pc = "remaining"
      /\ mem'.backedUp = mem.backedUp /\ mem'.published = mem.published
      /\ \A n \in Mutations : n # m => (n \in mem'.todo <=> n \in mem.todo)
      /\ CopyOf(m) /\ ~Alien(Temp(m)) /\ ~Alien(Backup(m)) /\ ~Alien(Destination(m))
  BY Passing, TypeParts DEF RemainingBackUp, RemainingPlace, RemainingMark, At, BytesInv, WayOf,
     world
<1>2. \A n \in Mutations : n # m => row'[n] = row[n]
  BY RowTypes, TypeParts DEF RemainingBackUp, RemainingPlace, RemainingMark, RowStates, Undoable
<1>3. CASE disk' = disk
  <2>1. WayOf(m)'
    BY <1>1, <1>3 DEF WayOf, Alien
  <2> QED BY <1>1, <1>2, <1>3, <2>1, StayKeeps, CopySame, BytesOne
<1>4. CASE RemainingBackUp(m) /\ Holds(Source(m), Old(m)) /\ Renames(Source(m), Backup(m))
  <2>1. /\ Keeps /\ Local(m) /\ disk'[Backup(m)] = disk[Source(m)] /\ disk'[Source(m)] = Missing
        /\ disk'[Temp(m)] = disk[Temp(m)]
        /\ disk'[Destination(m)] = disk[Destination(m)] \/ disk'[Destination(m)] = Missing
    BY <1>1, <1>4, RenameKeeps, PathsApart, RenameIsLocal
  <2>2. WayOf(m)' /\ CopyOf(m)'
    BY <1>1, <1>4, <2>1 DEF WayOf, CopyOf, Alien, Holds, Old, Missing
  <2> QED BY <1>1, <1>2, <2>1, <2>2, BytesOne
<1>5. CASE RemainingPlace(m) /\ Renames(Temp(m), Destination(m))
  <2>1. /\ Keeps /\ Local(m) /\ disk'[Destination(m)] = disk[Temp(m)] /\ disk'[Temp(m)] = Missing
        /\ disk'[Backup(m)] = disk[Backup(m)]
    BY <1>1, <1>5, RenameKeeps, PathsApart, RenameIsLocal
  <2>2. WayOf(m)' /\ CopyOf(m)'
    BY <1>1, <2>1 DEF WayOf, CopyOf, Alien, Missing
  <2> QED BY <1>1, <1>2, <2>1, <2>2, BytesOne
<1> QED BY <1>3, <1>4, <1>5 DEF RemainingBackUp, RemainingPlace, RemainingMark

-----------------------------------------------------------------------------
(* The steps that move no file *)

LEMMA QuietBytes ==
    ASSUME NoRecycle, TypeOK, FilesInv, BytesInv,
           \/ Begin \/ Commit \/ CommitRejected \/ CleanedUp \/ Refuse \/ Finish
           \/ Reclaim \/ Recover \/ Started \/ ResumeFailed \/ RemainingDone \/ Recommit
           \/ RecommitRejected \/ TidyCheck \/ Settle \/ NextPhase \/ Fail \/ Restart
    PROVE  BytesInv' /\ Keeps
<1>1. mem \in MemType /\ Rows \in SUBSET Mutations /\ UNCHANGED <<disk, touched>>
  BY TypeParts DEF Rows, Begin, Commit, CommitRejected, CleanedUp, Refuse, Finish, Reclaim,
     Recover, Started, ResumeFailed, RemainingDone, Recommit, RecommitRejected, TidyCheck, Settle,
     NextPhase, Fail, Restart, world
<1>2. Keeps
  BY <1>1, StayKeeps
<1>3. CASE Begin
  <2>1. mem'.pc \in {"ensure", "undo"} /\ mem'.backedUp = {}
    <3>1. mem.backedUp = {}
      BY <1>3 DEF Begin, At, FilesInv, CarriedInv
    <3> QED BY <1>1, <1>3, <3>1, Starting DEF Begin, Pcs
  <2>2. \A m \in Mutations : WayOf(m)'
    BY <2>1 DEF WayOf
  <2> QED BY <1>1, <1>2, <2>2, BytesStay
<1>4. CASE CommitRejected
  BY <1>1, <1>2, <1>4, RaisesBytes DEF CommitRejected, At
<1>5. CASE Reclaim
  <2>1. mem'.pc = "begin"
    BY <1>5 DEF Reclaim, Forgotten
  <2> QED BY <1>1, <1>2, <2>1, BytesQuiet DEF BytesPoints
<1>6. CASE Recover
  <2>1. mem'.pc = Disposition
    BY <1>6 DEF Recover, Forgotten
  <2>2. Disposition \in {"tidyCheck", "attention", "compensate", "begin", "preflight"}
    BY DEF Disposition, Compensation
  <2> QED BY <1>1, <1>2, <2>1, <2>2, BytesQuiet DEF BytesPoints
<1>7. CASE NextPhase
  <2>1. CASE At("mark")
    <3>1. mem'.pc = "restore" /\ row' = row
      BY <1>1, <1>7, <2>1, Starting DEF NextPhase, At, Pcs
    <3>2. \A m \in Mutations : WayOf(m)'
      BY <1>1, <2>1, <3>1 DEF BytesInv, WayOf, At, Open, Rows, Alien
    <3> QED BY <1>1, <1>2, <3>2, BytesStay
  <2>2. CASE ~At("mark")
    <3>1. mem'.pc \in {"close", "fail"}
      BY <1>1, <1>7, <2>2, Starting, Going DEF NextPhase, At, Pcs
    <3> QED BY <1>1, <1>2, <3>1, BytesQuiet DEF BytesPoints
  <2> QED BY <2>1, <2>2
<1>8. CASE Commit \/ ResumeFailed \/ Recommit \/ RecommitRejected
  <2>1. mem'.pc \in {"cleanup", "fail", "compensate", "attention", "tidyCheck"}
    BY <1>1, <1>8, Starting DEF Commit, ResumeFailed, Recommit, RecommitRejected, Compensation, Pcs
  <2> QED BY <1>1, <1>2, <2>1, BytesQuiet DEF BytesPoints
<1>9. CASE CleanedUp \/ Refuse \/ Started \/ RemainingDone \/ TidyCheck \/ Settle \/ Fail \/ Restart
  <2>1. mem'.pc \in {"idle", "settle", "recommit", "tidy", "attention", "starting"}
    BY <1>1, <1>9, Going DEF CleanedUp, Refuse, Started, RemainingDone, TidyCheck, Settle, Fail,
       Restart, Pcs
  <2> QED BY <1>1, <1>2, <2>1, BytesQuiet DEF BytesPoints
<1>10. CASE Finish
  <2>1. mem'.pc = "idle"
    BY <1>10 DEF Finish, At
  <2> QED BY <1>1, <1>2, <2>1, BytesQuiet DEF BytesPoints
<1> QED BY <1>3, <1>4, <1>5, <1>6, <1>7, <1>8, <1>9, <1>10

LEMMA FaultBytes ==
    ASSUME NoRecycle, TypeOK, JournalInv, FilesInv, BytesInv, Fault
    PROVE  BytesInv' /\ Keeps
<1>1. UNCHANGED <<disk, touched>> /\ mem \in MemType /\ Rows \in SUBSET Mutations /\ Keeps
  BY TypeParts, StayKeeps DEF Fault, Rows
<1>2. CASE mem.pc \in {"ensure", "stage", "recheck", "publish"} /\ Raises
  BY <1>1, <1>2, RaisesBytes DEF Preparing
<1>3. ASSUME NEW m \in mem.todo, Passes(m), mem.pc = "undo"
      PROVE  BytesInv'
  <2>1. mem'.pc = "undo" /\ mem'.backedUp = mem.backedUp /\ mem'.published = mem.published
    BY <1>1, <1>3, Passing
  <2>2. \A n \in Mutations : WayOf(n)'
    BY <1>1, <1>3, <2>1 DEF BytesInv, WayOf, Holds
  <2> QED BY <1>1, <2>2, BytesStay
<1>4. ASSUME NEW m \in mem.todo, Passes(m), mem.pc = "cleanup"
      PROVE  BytesInv'
  <2>1. mem'.pc = "cleanup"
    BY <1>1, <1>4, Passing
  <2> QED BY <1>1, <2>1, BytesQuiet DEF BytesPoints
<1>5. CASE Starts(Compensation, Rows) \/ Starts("attention", Rows)
  <2>1. mem'.pc \in {"attention", "compensate"}
    BY <1>1, <1>5, Starting DEF Compensation, Pcs
  <2> QED BY <1>1, <2>1, BytesQuiet DEF BytesPoints
<1> QED BY <1>1, <1>2, <1>3, <1>4, <1>5 DEF Fault, GivesUp, At

\* The publisher does not hold the roots then, and nobody has written before.
LEMMA OtherWritesBytes ==
    ASSUME NoRecycle, TypeOK, FilesInv, BytesInv, NEW p \in Paths, OtherWrites(p)
    PROVE  BytesInv' /\ Survives
<1>1. /\ p[1] \in Mutations /\ touched = {} /\ touched' = {p[1]} /\ mem' = mem
      /\ \A x \in Paths : x # p => disk'[x] = disk[x]
      /\ mem.pc \in {"down", "begin", "ensure", "stage", "advance"}
      /\ \E m \in Mutations : p \in {Source(m), Destination(m)}
  BY OtherWritesMoves DEF OtherWrites
<1>2. \A x \in Paths : ~Alien(x)
  BY <1>1 DEF BytesInv
<1>3. ASSUME NEW n \in Mutations
      PROVE  CopyOf(n)' /\ WayOf(n)'
  <2>1. p[2] # "temp"
    BY <1>1 DEF Source, Destination, Collider, NoRecycle
  <2>2. disk'[Temp(n)] = disk[Temp(n)]
    BY <1>1, <2>1, PathsApart DEF Temp
  <2>3. ~Alien(Temp(n))
    BY <1>2, PathsApart
  <2> QED BY <1>1, <2>2, <2>3 DEF CopyOf, WayOf, Alien
<1>4. touched' # {}
  BY <1>1
<1>5. BytesInv'
  BY <1>3, <1>4 DEF BytesInv
<1> QED BY <1>2, <1>5 DEF Survives

LEMMA NextBytes ==
    ASSUME NoRecycle, TypeOK, JournalInv, KeptInv, FilesInv, BytesInv, [Next]_vars
    PROVE  BytesInv' /\ Survives
<1>1. ASSUME NEW m \in Mutations,
             \/ EnsureJournal(m) \/ Stage(m) \/ Advance(m) \/ BackUp(m) \/ MarkBackedUp(m)
             \/ Place(m) \/ MarkPublished(m) \/ Cleanup(m) \/ UndoMark(m) \/ UndoRestore(m)
             \/ RemainingBackUp(m) \/ RemainingPlace(m) \/ RemainingMark(m) \/ Tidy(m)
             \/ Mark(m) \/ Restore(m) \/ Close(m) \/ Attend(m)
      PROVE  BytesInv' /\ Keeps
  BY <1>1, PrepareBytes, PublishBytes, CleanupBytes, UndoRestoreBytes, MarkBytes, RestoreBytes,
     ResumeBytes
<1>2. CASE Work
  BY <1>1, <1>2, RecheckBytes, UndoDoneBytes, CompensateBytes, PreflightBytes, QuietBytes DEF Work,
     Keeps
<1>3. CASE Fault
  BY <1>3, FaultBytes DEF Keeps
<1>4. CASE Stop
  <2>1. mem'.pc = "down" /\ UNCHANGED <<disk, touched>>
    BY <1>4 DEF Stop, Forgotten
  <2> QED BY <2>1, BytesQuiet, StayKeeps DEF BytesPoints, Keeps
<1>5. CASE \/ OtherBundleFails \/ UNCHANGED vars
           \/ \E c \in {"settingsChanged", "rootsChanged"} : Reconfigure(c)
  <2>1. UNCHANGED <<disk, row, mem, touched>>
    BY <1>5 DEF OtherBundleFails, Reconfigure, vars, world
  <2>2. \A m \in Mutations : WayOf(m)'
    BY <2>1 DEF BytesInv, WayOf, Open, Rows, Holds, Alien
  <2> QED BY <2>1, <2>2, BytesStay, StayKeeps DEF Keeps
<1>6. ASSUME NEW p \in Paths, OtherWrites(p)
      PROVE  BytesInv' /\ Survives
  BY <1>6, OtherWritesBytes
<1> QED BY <1>2, <1>3, <1>4, <1>5, <1>6 DEF Next

LEMMA InitBytes ==
    ASSUME NoRecycle, Init
    PROVE  BytesInv
<1>1. /\ \A p \in Paths : disk[p] = IF p[2] = "source" /\ HasSource(p[1]) THEN Old(p[1]) ELSE Missing
      /\ mem.pc = "begin"
  BY DEF Init, Forgotten
<1>2. ASSUME NEW p \in Paths
      PROVE  ~Alien(p)
  <2>1. Old(p[1])[2] = "old" /\ Missing[2] = "missing"
    BY DEF Old, Missing
  <2>2. disk[p] = Old(p[1]) \/ disk[p] = Missing
    BY <1>1
  <2> QED BY <2>1, <2>2 DEF Alien
<1>3. \A m \in Mutations : CopyOf(m) /\ WayOf(m)
  BY <1>1, <1>2, PathsApart DEF CopyOf, WayOf
<1> QED BY <1>2, <1>3 DEF BytesInv

LEMMA BytesHold ==
    ASSUME NoRecycle, "stopBetweenMutations" \notin Admits
    PROVE  SafeSpec => []BytesInv
<1>1. Init => BytesInv
  BY InitBytes
<1>2. TypeOK /\ JournalInv /\ KeptInv /\ FilesInv /\ BytesInv /\ [Next]_vars => BytesInv'
  BY NextBytes
<1> QED BY <1>1, <1>2, TypesHold, JournalHolds, FilesHold, PTL DEF SafeSpec

\* Whatever another program wrote to a path of the bundle (an edit of an original, a file where
\* an output goes) is still on the disk after every step of the publisher (_recheck_prepared),
\* of its rollback and of recovery (_preflight_publish, _preflight_compensation), if under
\* another name.
THEOREM OthersBytesSurviveHolds ==
    ASSUME NoRecycle, "stopBetweenMutations" \notin Admits
    PROVE  SafeSpec => OthersBytesSurvive
<1>1. TypeOK /\ JournalInv /\ KeptInv /\ FilesInv /\ BytesInv /\ [Next]_vars
      => [\A p \in Paths : disk[p][2] \in {"edited", "foreign"} => \E q \in Paths : disk'[q] = disk[p]]_disk
  BY NextBytes DEF Survives, Alien
<1> QED BY <1>1, TypesHold, JournalHolds, FilesHold, BytesHold, PTL DEF SafeSpec, OthersBytesSurvive

-----------------------------------------------------------------------------
(* Both publications.  Whichever lane is chosen, the other one stutters, so        *)
(* LanesSpec implies the specification of each, without its fairness.              *)

LEMMA LanesRunBoth == LanesSpec => SafeSpec /\ Import!Spec
<1>1. LanesInit => Init /\ Import!Init
  BY DEF LanesInit
<1>2. [LanesNext]_<<lane, vars, importVars>> => [Next]_vars /\ [Import!Next]_(Import!vars)
  BY DEF LanesNext, importVars, Import!vars
<1> QED BY <1>1, <1>2, PTL DEF LanesSpec, SafeSpec, Import!Spec

\* The states of both publishers keep to their types, and whoever moves files of a download
\* has the leases.
THEOREM PublicationTypesHold ==
    ASSUME "callOverRollback" \notin ImportAdmits
    PROVE  LanesSpec => []TypesOK
<1>1. SafeSpec => []TypeOK
  BY TypesHold
<1>2. Import!Spec => []Import!TypeOK
  BY Import!ImportTypesHold, ImportsAssumption
<1> QED BY <1>1, <1>2, LanesRunBoth, PTL DEF TypesOK

\* Both publishers implement AtomicPublication, each over its own stops, faults and
\* recoveries.
THEOREM BothPublicationsRefine ==
    ASSUME NoRecycle, "stopBetweenMutations" \notin Admits,
           "callOverRollback" \notin ImportAdmits
    PROVE  LanesSpec => BothRefineAtomicPublication
<1>1. SafeSpec => RefinesAtomicPublication
  BY PublicationRefines
<1>2. Import!Spec => Import!RefinesAtomicPublication
  BY Import!ImportRefines, ImportsAssumption
<1> QED BY <1>1, <1>2, LanesRunBoth, PTL DEF BothRefineAtomicPublication

\* Whatever a Library Management operation has the catalogue adopt is the whole plan.
THEOREM PublishedIsWholeHolds ==
    ASSUME "stopBetweenMutations" \notin Admits
    PROVE  LanesSpec => []AdoptedIsWhole
BY AdoptedIsWholeHolds, LanesRunBoth, PTL

\* A row that says rolled back is true of the files, in whichever lane it was undone.
THEOREM UndoneIsRestoredHolds ==
    ASSUME NoRecycle, "stopBetweenMutations" \notin Admits,
           "callOverRollback" \notin ImportAdmits, "stopInRestore" \notin ImportAdmits
    PROVE  LanesSpec => []UndoneIsRestored
<1>1. SafeSpec => []RolledBackIsRestored
  BY RolledBackIsRestoredHolds
<1>2. Import!Spec => []Import!RolledBackIsRestored
  BY Import!RolledBackIsRestoredHolds, ImportsAssumption
<1> QED BY <1>1, <1>2, LanesRunBoth, PTL DEF UndoneIsRestored

\* A bundle of a download that nobody looks after any more is not half done.
THEOREM ClosedIsWholeHolds ==
    ASSUME "callOverRollback" \notin ImportAdmits, "stopWhenOverruled" \notin ImportAdmits
    PROVE  LanesSpec => []ClosedIsWhole
<1>1. Import!Spec => []Import!ClosedIsWhole
  BY Import!ClosedIsWholeHolds, ImportsAssumption
<1> QED BY <1>1, LanesRunBoth, PTL DEF ClosedIsWhole

\* Nothing that another program wrote is destroyed by either publisher, its rollback or its
\* recovery.
THEOREM BytesSurviveHolds ==
    ASSUME NoRecycle, "stopBetweenMutations" \notin Admits,
           "callOverRollback" \notin ImportAdmits, "writesWhereBackedUp" \notin ImportAdmits
    PROVE  LanesSpec => BytesSurvive
<1>1. SafeSpec => OthersBytesSurvive
  BY OthersBytesSurviveHolds
<1>2. Import!Spec => Import!OthersBytesSurvive
  BY Import!OthersBytesSurviveHolds, ImportsAssumption
<1> QED BY <1>1, <1>2, LanesRunBoth, PTL DEF BytesSurvive
=============================================================================
