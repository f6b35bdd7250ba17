---------------------- MODULE ImportPublicationProofs ----------------------
(***************************************************************************)
(* Proofs about ImportPublication, for any files, calls, stops and faults: *)
(* every variable keeps its type; the bundle of a download is all or       *)
(* nothing as AtomicPublication describes it; what another program wrote   *)
(* is not destroyed; a bundle that is done with is whole; and a row that   *)
(* says rolled back is true of the files.  They assume that a call does    *)
(* not come while recovery is about to roll back what it read of an        *)
(* earlier call (callOverRollback), and each of the last three leaves out  *)
(* the one circumstance more in which it fails (writesWhereBackedUp,       *)
(* stopWhenOverruled, stopInRestore).                                      *)
(*                                                                         *)
(* The publisher's call and recovery work on the same rows, one at a time  *)
(* only where they hold the leases (LeaseInv), and each writes rows by the *)
(* copy it has read, with a compare-and-swap except from rollback_pending. *)
(* The invariant says what a copy can still do (Undoes, CopyInv), that an  *)
(* adopted bundle has nobody left who would publish or undo it             *)
(* (AdoptionInv), that nothing a bundle is made from is lost before its    *)
(* adoption (DiskInv), and that a call comes to its commit with every file *)
(* in place (PublishInv).                                                  *)
(*                                                                         *)
(* The later sections each add to it what their result needs: where bytes  *)
(* that another program wrote can be (ForeignInv); how far what a worker   *)
(* has read is behind the rows (StaleInv); who is left to close a bundle   *)
(* that is not closed (ClosedInv); and what the rows and the memories say  *)
(* of the files that are being put back (RestInv).                         *)
(***************************************************************************)
EXTENDS ImportPublication, TLAPS

-----------------------------------------------------------------------------
(* The invariant *)

RowStates == {"none"} \cup Undoable \cup Committed \cup Closed
BundleStates == {"none", "preparing", "publishing", "rolled_back", "needs_attention"} \cup Committed
Memories == [pc : Pcs, seen : BundleStates, copy : [Files -> RowStates], fresh : SUBSET Files,
             prepared : SUBSET Files, todo : SUBSET Files, was : SUBSET Files, failed : SUBSET Files]

WorldTypes ==
    /\ policy \in {"current", "changed"} /\ process \in {"down", "starting", "running"}
    /\ touched \subseteq Files
    /\ spent \in [calls : 0 .. MaxCalls, stops : 0 .. MaxStops, faults : 0 .. MaxFaults]

Types ==
    /\ bundle \in BundleStates /\ row \in [Files -> RowStates]
    /\ disk \in [Files -> [Places -> Bytes]]
    /\ adopted \in BOOLEAN /\ lease \in {"none"} \cup Workers
    /\ w \in [Workers -> Memories]

Critical == {"boundary", "recheck", "publish", "commit", "undo", "restore", "clean"}
LeaseInv ==
    /\ P.pc \in Critical => lease = "publisher"
    /\ R.pc \in Critical => lease = "recovery"

\* What is still there of a file, and what can be seen of it.
Kept(f) == Same(f) => ~Empty(f, "backup") \/ disk[f].destination \in {"replaced", "foreign"}
Held(f) ==
    /\ ~Empty(f, "source")
    /\ Kept(f)
    /\ Plan[f].replaces = "other" => ~Empty(f, "old")
Shown(f) == Holds(f, "destination", "staged") /\ (HasSidecar(f) => Holds(f, "sidecarPlace", "art"))

\* Before the catalogue has adopted the files nothing they are made from is lost; after that
\* the download goes first, so that what another program writes where it was published is
\* not taken for the file that it replaced.
DiskInv ==
    /\ ~adopted => \A f \in Files : Held(f)
    /\ \A f \in Files : ~Empty(f, "source") => Kept(f)
    /\ \A f \in Files : disk[f].backup \in {"missing", "replaced"}

Cleaning == {"cleanWait", "clean"}
Preparing == {"prepare", "stage", "staged"}
Entered == {"enter", "boundary", "recheck", "publish", "commit"}

\* A copy by which a row would be undone, with no compare-and-swap or with one that succeeds.
Undoes(m, f) == m.copy[f] \in Undoable /\ (m.copy[f] = "rollback_pending" \/ f \in m.fresh)

\* A bundle that is adopted is only cleaned up or set aside: nobody prepares, publishes or
\* undoes it.
AdoptionInv ==
    /\ bundle \in Committed => adopted
    /\ adopted => /\ bundle \in Committed \cup {"needs_attention"}
                  /\ \A f \in Files : row[f] \in Committed \cup {"needs_attention"}
                  /\ P.pc \in {"idle"} \cup Cleaning
                  /\ R.pc # "restore"
                  /\ R.pc \in {"undoWait", "undo"} => \A f \in Files : ~Undoes(R, f)
    /\ ~adopted => P.pc \notin Cleaning /\ R.pc \notin Cleaning
    /\ ~adopted /\ R.pc = "listed" => R.seen \in Unfinished

Blank(m) == m.fresh = {} /\ \A f \in Files : m.copy[f] = "none"
FirstOf(S, f) == f \in S /\ \A g \in S : f <= g
LastOf(S, f) == f \in S /\ \A g \in S : g <= f

\* What the copy of whoever is at work says of the rows.
TrueCopy(m) ==
    /\ m.pc \in {"idle", "mark", "list", "listed", "journals"} => Blank(m)
    /\ ~adopted => \A f \in m.fresh : m.copy[f] = row[f]
    /\ m.pc = "restore" => \A f \in Files : LastOf(m.todo, f) => m.copy[f] = "rollback_pending"

\* A row that recovery read in the middle of its rollback stays so for as long as the call
\* that was at it goes on.
CopyInv ==
    /\ TrueCopy(P) /\ TrueCopy(R)
    /\ P.pc \in {"stage", "staged"} => \A f \in Files : FirstOf(P.todo, f) => P.copy[f] = "planned"
    /\ P.pc \in Preparing \cup Entered => \A f \in Files : P.copy[f] = "none" => row[f] = "none"
    /\ R.pc = "undoWait" /\ P.pc \in {"mark", "list"} \cup Preparing \cup Entered =>
           \A f \in Files : R.copy[f] = "rollback_pending" => row[f] = "rollback_pending"

\* What f replaces will not be lost to it.
Replaceable(f) ==
    Same(f) => /\ P.copy[f] = "validated" => disk[f].destination \in {"missing", "replaced"}
               /\ P.copy[f] = "replacement_backed_up" => ~Empty(f, "backup")

\* The call comes to its commit with every file in place.
PublishInv ==
    /\ P.pc \in Preparing => Files = P.prepared \cup P.todo
    /\ P.pc \in Entered => P.prepared = Files
    /\ P.pc = "publish" =>
          /\ \A f \in Files \ P.todo : Shown(f)
          /\ \A f \in P.todo : Replaceable(f)
    /\ P.pc = "commit" => \A f \in Files : Shown(f)

ImportInv == ImportAssumption /\ Types /\ LeaseInv /\ DiskInv /\ AdoptionInv /\ CopyInv /\ PublishInv

-----------------------------------------------------------------------------
(* Lemmas about what the workers remember *)

LEMMA FilesAreNumbers ==
    ASSUME ImportAssumption
    PROVE  Files \subseteq Nat
BY DEF ImportAssumption, Files

\* The first and the last of the files that are left are each one file.
LEMMA OneFirst ==
    ASSUME ImportAssumption, NEW S \in SUBSET Files, NEW f, FirstOf(S, f), NEW g, FirstOf(S, g)
    PROVE  f = g
BY FilesAreNumbers DEF FirstOf

LEMMA OneLast ==
    ASSUME ImportAssumption, NEW S \in SUBSET Files, NEW f, LastOf(S, f), NEW g, LastOf(S, g)
    PROVE  f = g
BY FilesAreNumbers DEF LastOf

LEMMA Memory ==
    ASSUME Types
    PROVE  /\ P \in Memories /\ R \in Memories
           /\ \A p \in Workers : w[p] \in Memories
           /\ P = w["publisher"] /\ R = w["recovery"]
BY DEF Types, Workers, P, R

LEMMA NobodyIs ==
    /\ Nobody \in Memories /\ Nobody.pc = "idle" /\ Nobody.todo = {} /\ Nobody.prepared = {}
    /\ Nobody.fresh = {} /\ \A f \in Files : Nobody.copy[f] = "none"
BY DEF Nobody, Memories, Pcs, BundleStates, RowStates

\* One of the two moves.
LEMMA Alone ==
    ASSUME Types, NEW p \in Workers, NEW m \in Memories, w' = [w EXCEPT ![p] = m]
    PROVE  /\ w' \in [Workers -> Memories]
           /\ w'[p] = m
           /\ \A q \in Workers : q # p => w'[q] = w[q]
BY DEF Types

LEMMA PublisherAlone ==
    ASSUME Types, NEW m \in Memories, w' = [w EXCEPT !["publisher"] = m]
    PROVE  w' \in [Workers -> Memories] /\ P' = m /\ R' = R
BY DEF Types, P, R, Workers

LEMMA RecoveryAlone ==
    ASSUME Types, NEW m \in Memories, w' = [w EXCEPT !["recovery"] = m]
    PROVE  w' \in [Workers -> Memories] /\ R' = m /\ P' = P
BY DEF Types, P, R, Workers

\* Whoever goes on to pc keeps what it knows, or forgets it all.
LEMMA Going ==
    ASSUME Types, NEW p \in Workers, NEW pc \in Pcs, Goes(p, pc)
    PROVE  LET m == IF pc = "idle" THEN Nobody ELSE [w[p] EXCEPT !.pc = pc] IN
           m \in Memories /\ w' = [w EXCEPT ![p] = m]
<1> DEFINE m == IF pc = "idle" THEN Nobody ELSE [w[p] EXCEPT !.pc = pc]
<1>1. w' = [w EXCEPT ![p] = m]
  BY DEF Goes
<1>2. m \in Memories
  BY Memory, NobodyIs DEF Memories
<1> QED BY <1>1, <1>2

LEMMA PublisherGoes ==
    ASSUME Types, NEW pc \in Pcs, PGoes(pc)
    PROVE  /\ w' \in [Workers -> Memories] /\ R' = R
           /\ P' = IF pc = "idle" THEN Nobody ELSE [P EXCEPT !.pc = pc]
BY Going, PublisherAlone, Memory DEF PGoes, Workers

LEMMA RecoveryGoes ==
    ASSUME Types, NEW pc \in Pcs, RGoes(pc)
    PROVE  /\ w' \in [Workers -> Memories] /\ P' = P
           /\ R' = IF pc = "idle" THEN Nobody ELSE [R EXCEPT !.pc = pc]
BY Going, RecoveryAlone, Memory DEF RGoes, Workers

\* Who writes a row has its new revision, and the other's copy is stale.
LEMMA Writing ==
    ASSUME Types, NEW p \in Workers, NEW f \in Files, NEW state \in RowStates
    PROVE  /\ Written(p, f, state) \in [Workers -> Memories]
           /\ Written(p, f, state)[p] =
                 [w[p] EXCEPT !.copy = [w[p].copy EXCEPT ![f] = state], !.fresh = w[p].fresh \cup {f}]
<1> DEFINE mine == [w[p] EXCEPT !.copy[f] = state, !.fresh = @ \cup {f}]
           theirs(q) == [w[q] EXCEPT !.fresh = @ \ {f}]
<1>1. \A q \in Workers : w[q] \in Memories
  BY Memory
<1>2. mine \in Memories /\ mine = [w[p] EXCEPT !.copy = [w[p].copy EXCEPT ![f] = state],
                                              !.fresh = w[p].fresh \cup {f}]
  BY <1>1 DEF Memories
<1>3. \A q \in Workers : theirs(q) \in Memories /\ theirs(q) = [w[q] EXCEPT !.fresh = w[q].fresh \ {f}]
  BY <1>1 DEF Memories
<1>4. Written(p, f, state) = [q \in Workers |-> IF q = p THEN mine ELSE theirs(q)]
  BY DEF Written
<1> HIDE DEF mine, theirs
<1> QED BY <1>2, <1>3, <1>4

LEMMA WritingOther ==
    ASSUME NEW p \in Workers, NEW q \in Workers \ {p}, NEW f, NEW state
    PROVE  Written(p, f, state)[q] = [w[q] EXCEPT !.fresh = w[q].fresh \ {f}]
BY DEF Written

LEMMA Wrote ==
    ASSUME Types, NEW p \in Workers, NEW f \in Files, NEW state \in RowStates
    PROVE  LET mine == Written(p, f, state)[p] IN
           /\ mine \in Memories
           /\ mine.pc = w[p].pc /\ mine.todo = w[p].todo /\ mine.failed = w[p].failed
           /\ mine.was = w[p].was /\ mine.prepared = w[p].prepared /\ mine.seen = w[p].seen
           /\ mine.fresh = w[p].fresh \cup {f} /\ mine.copy = [w[p].copy EXCEPT ![f] = state]
<1> DEFINE mine == Written(p, f, state)[p]
<1>1. mine = [w[p] EXCEPT !.copy = [w[p].copy EXCEPT ![f] = state], !.fresh = w[p].fresh \cup {f}]
  BY Writing
<1>2. Written(p, f, state) \in [Workers -> Memories]
  BY Writing
<1>3. mine \in Memories
  BY <1>2
<1>4. w[p] \in Memories
  BY Memory
<1> HIDE DEF mine
<1> QED BY <1>1, <1>3, <1>4 DEF Memories, mine

LEMMA Turning ==
    ASSUME Types, NEW f \in Files, NEW state \in RowStates, NEW m \in Memories,
           w' = [Written("publisher", f, state) EXCEPT !["publisher"] = m]
    PROVE  /\ w' \in [Workers -> Memories]
           /\ P' = m /\ R' = [R EXCEPT !.fresh = R.fresh \ {f}]
<1>1. "publisher" \in Workers /\ "recovery" \in Workers \ {"publisher"}
  BY DEF Workers
<1>2. Written("publisher", f, state) \in [Workers -> Memories]
  BY <1>1, Writing
<1>3. w' \in [Workers -> Memories] /\ w'["publisher"] = m
      /\ w'["recovery"] = Written("publisher", f, state)["recovery"]
  BY <1>1, <1>2
<1>4. w'["recovery"] = [w["recovery"] EXCEPT !.fresh = w["recovery"].fresh \ {f}]
  BY <1>1, <1>3, WritingOther
<1> QED BY <1>3, <1>4 DEF P, R

\* What is neither in the files nor in the call of the publisher.
LEMMA DiskKept ==
    ASSUME DiskInv, UNCHANGED <<disk, adopted>>
    PROVE  DiskInv'
BY DEF DiskInv, Held, Kept, Empty, Holds

LEMMA PublishOver ==
    ASSUME P'.pc \notin Preparing \cup Entered
    PROVE  PublishInv'
BY DEF PublishInv, Preparing, Entered

LEMMA PublishKept ==
    ASSUME PublishInv, UNCHANGED disk, P' = P
    PROVE  PublishInv'
BY DEF PublishInv, Shown, Replaceable, Holds, Empty

-----------------------------------------------------------------------------
(* The call and its preparation *)

LEMMA CallStep ==
    ASSUME ImportInv, "callOverRollback" \notin Admits, Call
    PROVE  ImportInv'
<1> USE DEF ImportInv
<1> DEFINE pc == CASE bundle' \in {"preparing", "rolled_back"} -> "mark"
                   [] bundle' = "publishing" -> "list"
                   [] OTHER -> "cleanWait"
           m == IF policy = "changed" \/ bundle' \in {"completed", "needs_attention"} THEN Nobody
                ELSE [P EXCEPT !.seen = bundle', !.pc = pc]
<1>1. bundle' \in BundleStates
  BY DEF Call, Types, BundleStates
<1>2. m \in Memories
  BY <1>1, Memory, NobodyIs DEF Memories, Pcs
<1>3. w' = [w EXCEPT !["publisher"] = m]
  BY DEF Call, P
<1>4. w' \in [Workers -> Memories] /\ P' = m /\ R' = R
  BY <1>2, <1>3, PublisherAlone
<1>5. P.pc = "idle" /\ P \in Memories
  BY Memory DEF Call, PAt, At
<1>6. P'.pc \in {"idle", "mark", "list", "cleanWait"} /\ Blank(P')
  BY <1>4, <1>5, NobodyIs DEF Memories, CopyInv, TrueCopy, Blank
<1>7. Types' /\ LeaseInv'
  BY <1>1, <1>4, <1>6 DEF Types, LeaseInv, Critical, Call
<1>8. DiskInv'
  BY DiskKept DEF Call
<1>9. AdoptionInv'
  <2>1. P'.pc = IF policy = "changed" \/ bundle' \in {"completed", "needs_attention"} THEN "idle" ELSE pc
    BY <1>4, <1>5, NobodyIs DEF Memories
  <2> QED BY <1>1, <1>4, <2>1 DEF AdoptionInv, Call, Cleaning, Committed, BundleStates, Undoes
<1>10. CopyInv'
  <2>1. R.pc = "undoWait" => \A f \in Files : R.copy[f] # "rollback_pending"
    BY DEF Call, HalfUndoneRead, At, R
  <2> QED BY <1>4, <1>6, <2>1 DEF CopyInv, TrueCopy, Blank, Preparing, Entered, Call
<1>11. PublishInv'
  BY <1>6, PublishOver DEF Preparing, Entered
<1> QED BY <1>7, <1>8, <1>9, <1>10, <1>11

LEMMA MarkStep ==
    ASSUME ImportInv, Mark
    PROVE  ImportInv'
<1> USE DEF ImportInv
<1>0. P.pc = "mark" /\ P \in Memories /\ ~adopted
  BY Memory DEF Mark, PAt, At, AdoptionInv, Cleaning
<1>1. PICK pc \in {"list", "idle"} : PGoes(pc) /\ (pc = "idle" => bundle' = bundle)
                                     /\ (pc = "list" => bundle' = "publishing")
  BY DEF Mark
<1>2. /\ w' \in [Workers -> Memories] /\ R' = R
      /\ P' = IF pc = "idle" THEN Nobody ELSE [P EXCEPT !.pc = pc]
  BY PublisherGoes, <1>1 DEF Pcs
<1>3. P'.pc = pc /\ Blank(P')
  BY <1>0, <1>2, NobodyIs DEF Memories, CopyInv, TrueCopy, Blank
<1>4. Types' /\ LeaseInv'
  BY <1>1, <1>2, <1>3 DEF Types, LeaseInv, Critical, Mark, BundleStates
<1>5. DiskInv'
  BY DiskKept DEF Mark
<1>6. AdoptionInv'
  BY <1>0, <1>1, <1>2, <1>3 DEF AdoptionInv, Mark, Cleaning, Committed
<1>7. CopyInv'
  BY <1>0, <1>2, <1>3 DEF CopyInv, TrueCopy, Blank, Preparing, Entered, Mark
<1>8. PublishInv'
  BY <1>3, PublishOver DEF Preparing, Entered
<1> QED BY <1>4, <1>5, <1>6, <1>7, <1>8

LEMMA ListStep ==
    ASSUME ImportInv, List
    PROVE  ImportInv'
<1> USE DEF ImportInv
<1>0. P.pc = "list" /\ P \in Memories /\ ~adopted
  BY Memory DEF List, PAt, At, AdoptionInv, Cleaning
<1> DEFINE m == [P EXCEPT !.copy = [f \in Files |-> IF f \in Journalled THEN row[f] ELSE P.copy[f]],
                          !.fresh = P.fresh \cup Journalled, !.prepared = {},
                          !.pc = "prepare", !.todo = Files]
<1>1. m \in Memories
  BY <1>0 DEF Memories, Pcs, Types, Journalled
<1>2. w' = [w EXCEPT !["publisher"] = IF policy = "changed" THEN Nobody ELSE m]
  BY <1>0 DEF List, Listed, P, Memories
<1>3. w' \in [Workers -> Memories] /\ P' = (IF policy = "changed" THEN Nobody ELSE m) /\ R' = R
  BY <1>1, <1>2, PublisherAlone, NobodyIs
<1>4. CASE policy = "changed"
  <2>1. P' = Nobody
    BY <1>3, <1>4
  <2>2. Types' /\ LeaseInv'
    BY <1>3, <2>1, NobodyIs DEF Types, LeaseInv, Critical, List
  <2>3. AdoptionInv'
    BY <1>0, <1>3, <2>1, NobodyIs DEF AdoptionInv, List, Cleaning
  <2>4. CopyInv'
    BY <1>0, <1>3, <2>1, NobodyIs DEF CopyInv, TrueCopy, Blank, Preparing, Entered, List
  <2> QED BY <2>1, <2>2, <2>3, <2>4, NobodyIs, PublishOver, DiskKept DEF Preparing, Entered, List
<1>5. CASE policy # "changed"
  <2>1. /\ P'.pc = "prepare" /\ P'.todo = Files /\ P'.prepared = {}
        /\ P'.fresh = Journalled
        /\ \A f \in Files : P'.copy[f] = row[f]
    BY <1>0, <1>3, <1>5 DEF Memories, CopyInv, TrueCopy, Blank, Journalled
  <2>2. Types' /\ LeaseInv'
    BY <1>3, <2>1 DEF Types, LeaseInv, Critical, List
  <2>3. AdoptionInv'
    BY <1>0, <1>3, <2>1 DEF AdoptionInv, List, Cleaning
  <2>4. CopyInv'
    BY <1>0, <1>3, <2>1 DEF CopyInv, TrueCopy, Blank, Preparing, Entered, List, Journalled
  <2>5. PublishInv'
    BY <2>1 DEF PublishInv, Preparing, Entered
  <2> QED BY <2>2, <2>3, <2>4, <2>5, DiskKept DEF List
<1> QED BY <1>4, <1>5

LEMMA PrepareFileStep ==
    ASSUME ImportInv, NEW f \in Files, PrepareFile(f)
    PROVE  ImportInv'
<1> USE DEF ImportInv
<1>0. /\ P.pc = "prepare" /\ P \in Memories /\ R \in Memories /\ ~adopted /\ FirstOf(P.todo, f)
      /\ row \in [Files -> RowStates]
  BY Memory DEF PrepareFile, PAt, At, First, FirstOf, P, AdoptionInv, Cleaning, Types
<1>1. CASE /\ P.copy[f] = "none" \/ (P.copy[f] \in {"rolled_back", "staged"} /\ f \in P.fresh)
           /\ \E state \in {"planned", "validated"} :
                 /\ row' = [row EXCEPT ![f] = state]
                 /\ w' = [Written("publisher", f, state) EXCEPT !["publisher"] =
                             [Written("publisher", f, state)["publisher"] EXCEPT
                                 !.pc = IF state = "planned" THEN "stage" ELSE "prepare"]]
  <2>1. PICK state \in {"planned", "validated"} :
                 /\ row' = [row EXCEPT ![f] = state]
                 /\ w' = [Written("publisher", f, state) EXCEPT !["publisher"] =
                             [Written("publisher", f, state)["publisher"] EXCEPT
                                 !.pc = IF state = "planned" THEN "stage" ELSE "prepare"]]
    BY <1>1
  <2> DEFINE pc == IF state = "planned" THEN "stage" ELSE "prepare"
             m == [P EXCEPT !.copy = [P.copy EXCEPT ![f] = state], !.fresh = P.fresh \cup {f}, !.pc = pc]
  <2>2. m \in Memories /\ state \in RowStates
    BY <1>0 DEF Memories, Pcs, RowStates, Undoable, Ready
  <2>3. [Written("publisher", f, state)["publisher"] EXCEPT !.pc = pc] = m
    <3>1. Written("publisher", f, state)["publisher"] =
             [w["publisher"] EXCEPT !.copy = [w["publisher"].copy EXCEPT ![f] = state],
                                    !.fresh = w["publisher"].fresh \cup {f}]
      BY <2>2, Writing DEF Workers
    <3> QED BY <1>0, <3>1, Memory DEF Memories
  <2>4. w' \in [Workers -> Memories] /\ P' = m /\ R' = [R EXCEPT !.fresh = R.fresh \ {f}]
    BY <2>1, <2>2, <2>3, Turning
  <2>5. /\ P'.pc = pc /\ P'.todo = P.todo /\ P'.prepared = P.prepared
        /\ P'.fresh = P.fresh \cup {f} /\ P'.copy = [P.copy EXCEPT ![f] = state]
        /\ R'.pc = R.pc /\ R'.todo = R.todo /\ R'.copy = R.copy /\ R'.seen = R.seen
        /\ R'.fresh = R.fresh \ {f}
    BY <1>0, <2>4 DEF Memories
  <2>6. Types' /\ LeaseInv'
    BY <1>0, <2>1, <2>2, <2>4, <2>5 DEF Types, LeaseInv, Critical, PrepareFile
  <2>7. AdoptionInv'
    BY <1>0, <2>5 DEF AdoptionInv, PrepareFile, Cleaning
  <2>8. row[f] # "rollback_pending"
    BY <1>0, <1>1 DEF CopyInv, TrueCopy, Preparing
  <2>9. TrueCopy(P)' /\ TrueCopy(R)'
    BY <1>0, <2>1, <2>5 DEF CopyInv, TrueCopy, PrepareFile, Memories, Blank
  <2>10. CopyInv'
    <3>1. P'.pc = "stage" => P'.copy[f] = "planned" /\ FirstOf(P'.todo, f)
      BY <1>0, <2>5 DEF Memories
    <3>2. P'.pc \in {"stage", "staged"} => \A g \in Files : FirstOf(P'.todo, g) => P'.copy[g] = "planned"
      BY <1>0, <2>5, <3>1, OneFirst DEF Memories
    <3>3. \A g \in Files : P'.copy[g] = "none" => row'[g] = "none"
      BY <1>0, <2>1, <2>5 DEF CopyInv, Preparing, Memories
    <3>4. R'.pc = "undoWait" => \A g \in Files : R'.copy[g] = "rollback_pending" => row'[g] = "rollback_pending"
      BY <1>0, <2>1, <2>5, <2>8 DEF CopyInv, Preparing
    <3> QED BY <2>9, <3>2, <3>3, <3>4 DEF CopyInv
  <2>11. PublishInv'
    BY <1>0, <2>5 DEF PublishInv, Preparing, Entered
  <2> QED BY <2>6, <2>7, <2>10, <2>11, DiskKept DEF PrepareFile
<1>2. CASE UNCHANGED row /\ (PGoes("unprepare") \/ (P.copy[f] = "planned" /\ PGoes("stage")))
  <2>1. PICK pc \in {"unprepare", "stage"} : PGoes(pc) /\ (pc = "stage" => P.copy[f] = "planned")
    BY <1>2
  <2>2. w' \in [Workers -> Memories] /\ R' = R /\ P' = [P EXCEPT !.pc = pc]
    BY <2>1, PublisherGoes DEF Pcs
  <2>3. /\ P'.pc = pc /\ P'.todo = P.todo /\ P'.prepared = P.prepared
        /\ P'.fresh = P.fresh /\ P'.copy = P.copy
    BY <1>0, <2>2 DEF Memories
  <2>4. Types' /\ LeaseInv'
    BY <2>1, <2>2, <2>3, <1>2 DEF Types, LeaseInv, Critical, PrepareFile
  <2>5. AdoptionInv'
    BY <1>0, <2>2, <2>3 DEF AdoptionInv, PrepareFile, Cleaning
  <2>6. P'.pc = "stage" => \A g \in Files : FirstOf(P'.todo, g) => P'.copy[g] = "planned"
    BY <1>0, <2>1, <2>3, OneFirst DEF Memories
  <2>7. CopyInv'
    BY <1>0, <1>2, <2>2, <2>3, <2>6 DEF CopyInv, TrueCopy, PrepareFile, Preparing, Entered
  <2>8. PublishInv'
    BY <1>0, <2>1, <2>3 DEF PublishInv, Preparing, Entered
  <2> QED BY <2>4, <2>5, <2>7, <2>8, DiskKept DEF PrepareFile
<1>3. CASE /\ P.copy[f] \in Ready \cup {"published"} /\ UNCHANGED row
           /\ w' = [w EXCEPT !["publisher"] = [Passed(P, f, "enter") EXCEPT !.prepared = P.prepared \cup {f}]]
  <2> DEFINE pc == IF P.todo = {f} THEN "enter" ELSE "prepare"
             m == [P EXCEPT !.todo = P.todo \ {f}, !.pc = pc, !.prepared = P.prepared \cup {f}]
  <2>1. [Passed(P, f, "enter") EXCEPT !.prepared = P.prepared \cup {f}] = m /\ m \in Memories
    BY <1>0 DEF Passed, Memories, Pcs
  <2>2. w' \in [Workers -> Memories] /\ P' = m /\ R' = R
    BY <1>3, <2>1, PublisherAlone
  <2>3. /\ P'.pc = pc /\ P'.todo = P.todo \ {f} /\ P'.prepared = P.prepared \cup {f}
        /\ P'.fresh = P.fresh /\ P'.copy = P.copy
    BY <1>0, <2>2 DEF Memories
  <2>4. Types' /\ LeaseInv'
    BY <1>0, <1>3, <2>2, <2>3 DEF Types, LeaseInv, Critical, PrepareFile
  <2>5. AdoptionInv'
    BY <1>0, <2>2, <2>3 DEF AdoptionInv, PrepareFile, Cleaning
  <2>6. CopyInv'
    BY <1>0, <1>3, <2>2, <2>3 DEF CopyInv, TrueCopy, PrepareFile, Preparing, Entered
  <2>7. PublishInv'
    <3>1. Files = P'.prepared \cup P'.todo /\ (pc = "enter" => P'.todo = {})
      BY <1>0, <2>3 DEF PublishInv, Preparing
    <3> QED BY <2>3, <3>1 DEF PublishInv, Preparing, Entered
  <2> QED BY <2>4, <2>5, <2>6, <2>7, DiskKept DEF PrepareFile
<1>4. \/ /\ P.copy[f] = "none" \/ (P.copy[f] \in {"rolled_back", "staged"} /\ f \in P.fresh)
         /\ \E state \in {"planned", "validated"} :
               /\ row' = [row EXCEPT ![f] = state]
               /\ w' = [Written("publisher", f, state) EXCEPT !["publisher"] =
                           [Written("publisher", f, state)["publisher"] EXCEPT
                               !.pc = IF state = "planned" THEN "stage" ELSE "prepare"]]
      \/ UNCHANGED row /\ (PGoes("unprepare") \/ (P.copy[f] = "planned" /\ PGoes("stage")))
      \/ /\ P.copy[f] \in Ready \cup {"published"} /\ UNCHANGED row
         /\ w' = [w EXCEPT !["publisher"] = [Passed(P, f, "enter") EXCEPT !.prepared = P.prepared \cup {f}]]
  BY DEF PrepareFile, Transition, CanWrite, P, Writes, ToStage, ToPrepare, Unprepares
<1> QED BY <1>1, <1>2, <1>3, <1>4

LEMMA StageStep ==
    ASSUME ImportInv, NEW f \in Files, Stage(f)
    PROVE  ImportInv'
<1> USE DEF ImportInv
<1>0. /\ P.pc = "stage" /\ P \in Memories /\ ~adopted /\ disk \in [Files -> [Places -> Bytes]]
  BY Memory DEF Stage, PAt, At, P, AdoptionInv, Cleaning, Types
<1>1. PICK pc \in {"staged", "unprepare"} : PGoes(pc)
  BY DEF Stage, Unprepares
<1>2. w' \in [Workers -> Memories] /\ R' = R /\ P' = [P EXCEPT !.pc = pc]
  BY <1>1, PublisherGoes DEF Pcs
<1>3. /\ P'.pc = pc /\ P'.todo = P.todo /\ P'.prepared = P.prepared
      /\ P'.fresh = P.fresh /\ P'.copy = P.copy
  BY <1>0, <1>2 DEF Memories
<1>4. /\ disk' \in [Files -> [Places -> Bytes]]
      /\ \A g \in Files, place \in Places \ {"temp", "sidecarTemp"} : disk'[g][place] = disk[g][place]
  <2>1. CASE UNCHANGED disk
    BY <1>0, <2>1
  <2>2. CASE disk' = [disk EXCEPT ![f].temp = "staged",
                                  ![f].sidecarTemp = IF HasSidecar(f) THEN "art" ELSE @]
    BY <1>0, <2>2 DEF Places, Bytes
  <2> QED BY <2>1, <2>2 DEF Stage
<1>5. Types' /\ LeaseInv'
  BY <1>1, <1>2, <1>3, <1>4 DEF Types, LeaseInv, Critical, Stage
<1>6. DiskInv'
  BY <1>4 DEF DiskInv, Held, Kept, Empty, Holds, Places, Stage
<1>7. AdoptionInv'
  BY <1>0, <1>2, <1>3 DEF AdoptionInv, Stage, Cleaning
<1>8. CopyInv'
  BY <1>0, <1>2, <1>3 DEF CopyInv, TrueCopy, Stage, Preparing, Entered
<1>9. PublishInv'
  BY <1>0, <1>3 DEF PublishInv, Preparing, Entered
<1> QED BY <1>5, <1>6, <1>7, <1>8, <1>9

LEMMA MarkStagedStep ==
    ASSUME ImportInv, NEW f \in Files, MarkStaged(f)
    PROVE  ImportInv'
<1> USE DEF ImportInv
<1>0. /\ P.pc = "staged" /\ P \in Memories /\ R \in Memories /\ ~adopted /\ FirstOf(P.todo, f)
      /\ row \in [Files -> RowStates] /\ P.copy[f] = "planned"
  BY Memory DEF MarkStaged, PAt, At, First, FirstOf, P, AdoptionInv, Cleaning, Types, CopyInv
<1>1. CASE UNCHANGED row /\ PGoes("unprepare")
  <2>1. w' \in [Workers -> Memories] /\ R' = R /\ P' = [P EXCEPT !.pc = "unprepare"]
    BY <1>1, PublisherGoes DEF Pcs
  <2>2. P'.pc = "unprepare" /\ P'.fresh = P.fresh /\ P'.copy = P.copy
    BY <1>0, <2>1 DEF Memories
  <2>3. Types' /\ LeaseInv'
    BY <1>1, <2>1, <2>2 DEF Types, LeaseInv, Critical, MarkStaged
  <2>4. AdoptionInv'
    BY <1>0, <2>1, <2>2 DEF AdoptionInv, MarkStaged, Cleaning
  <2>5. CopyInv'
    BY <1>0, <1>1, <2>1, <2>2 DEF CopyInv, TrueCopy, MarkStaged, Preparing, Entered
  <2> QED BY <2>2, <2>3, <2>4, <2>5, DiskKept, PublishOver DEF MarkStaged, Preparing, Entered
<1>2. CASE /\ f \in P.fresh /\ row' = [row EXCEPT ![f] = "staged"]
           /\ w' = [Written("publisher", f, "staged") EXCEPT !["publisher"] =
                       [Written("publisher", f, "staged")["publisher"] EXCEPT !.pc = "prepare"]]
  <2> DEFINE m == [P EXCEPT !.copy = [P.copy EXCEPT ![f] = "staged"], !.fresh = P.fresh \cup {f},
                            !.pc = "prepare"]
  <2>1. m \in Memories /\ "staged" \in RowStates
    BY <1>0 DEF Memories, Pcs, RowStates, Undoable
  <2>2. [Written("publisher", f, "staged")["publisher"] EXCEPT !.pc = "prepare"] = m
    <3>1. Written("publisher", f, "staged")["publisher"] =
             [w["publisher"] EXCEPT !.copy = [w["publisher"].copy EXCEPT ![f] = "staged"],
                                    !.fresh = w["publisher"].fresh \cup {f}]
      BY <2>1, Writing DEF Workers
    <3> QED BY <1>0, <3>1, Memory DEF Memories
  <2>3. w' \in [Workers -> Memories] /\ P' = m /\ R' = [R EXCEPT !.fresh = R.fresh \ {f}]
    BY <1>2, <2>1, <2>2, Turning
  <2>4. /\ P'.pc = "prepare" /\ P'.todo = P.todo /\ P'.prepared = P.prepared
        /\ P'.fresh = P.fresh \cup {f} /\ P'.copy = [P.copy EXCEPT ![f] = "staged"]
        /\ R'.pc = R.pc /\ R'.todo = R.todo /\ R'.copy = R.copy /\ R'.seen = R.seen
        /\ R'.fresh = R.fresh \ {f}
    BY <1>0, <2>3 DEF Memories
  <2>5. Types' /\ LeaseInv'
    BY <1>0, <1>2, <2>1, <2>3, <2>4 DEF Types, LeaseInv, Critical, MarkStaged
  <2>6. AdoptionInv'
    BY <1>0, <2>4 DEF AdoptionInv, MarkStaged, Cleaning
  <2>7. row[f] = "planned"
    BY <1>0, <1>2 DEF CopyInv, TrueCopy
  <2>8. TrueCopy(P)' /\ TrueCopy(R)'
    BY <1>0, <1>2, <2>4 DEF CopyInv, TrueCopy, MarkStaged, Memories, Blank
  <2>9. CopyInv'
    <3>1. \A g \in Files : P'.copy[g] = "none" => row'[g] = "none"
      BY <1>0, <1>2, <2>4 DEF CopyInv, Preparing, Memories
    <3>2. R'.pc = "undoWait" => \A g \in Files : R'.copy[g] = "rollback_pending" => row'[g] = "rollback_pending"
      BY <1>0, <1>2, <2>4, <2>7 DEF CopyInv, Preparing
    <3> QED BY <2>4, <2>8, <3>1, <3>2 DEF CopyInv
  <2>10. PublishInv'
    BY <1>0, <2>4 DEF PublishInv, Preparing, Entered
  <2> QED BY <2>5, <2>6, <2>9, <2>10, DiskKept DEF MarkStaged
<1>3. \/ UNCHANGED row /\ PGoes("unprepare")
      \/ /\ f \in P.fresh /\ row' = [row EXCEPT ![f] = "staged"]
         /\ w' = [Written("publisher", f, "staged") EXCEPT !["publisher"] =
                     [Written("publisher", f, "staged")["publisher"] EXCEPT !.pc = "prepare"]]
  BY DEF MarkStaged, Transition, CanWrite, P, Writes, ToPrepare, Unprepares
<1> QED BY <1>1, <1>2, <1>3

LEMMA UnprepareStep ==
    ASSUME ImportInv, Unprepare
    PROVE  ImportInv'
<1> USE DEF ImportInv
<1>0. P.pc = "unprepare" /\ P \in Memories /\ ~adopted /\ row \in [Files -> RowStates]
  BY Memory DEF Unprepare, PAt, At, P, AdoptionInv, Cleaning, Types
<1> DEFINE read == Journalled \ P.prepared
           pc == IF Journalled \cup P.prepared = {} THEN "close" ELSE "undoWait"
           m == [P EXCEPT !.copy = [f \in Files |-> IF f \in read THEN row[f] ELSE P.copy[f]],
                          !.fresh = P.fresh \cup read, !.prepared = P.prepared \cup read, !.pc = pc]
<1>1. m \in Memories
  BY <1>0 DEF Memories, Pcs, Journalled
<1>2. w' = [w EXCEPT !["publisher"] = m]
  BY <1>0 DEF Unprepare, Listed, P, Memories
<1>3. w' \in [Workers -> Memories] /\ P' = m /\ R' = R
  BY <1>1, <1>2, PublisherAlone
<1>4. /\ P'.pc = pc /\ P'.fresh = P.fresh \cup read
      /\ P'.copy = [f \in Files |-> IF f \in read THEN row[f] ELSE P.copy[f]]
  BY <1>0, <1>3 DEF Memories
<1>5. P'.pc \in {"close", "undoWait"} /\ \A f \in P'.fresh : f \in P.fresh \/ P'.copy[f] = row[f]
  BY <1>0, <1>4 DEF Journalled
<1>6. \A f \in P'.fresh : P'.copy[f] = row[f]
  BY <1>0, <1>4, <1>5 DEF CopyInv, TrueCopy, Memories
<1>7. Types' /\ LeaseInv'
  BY <1>3, <1>5 DEF Types, LeaseInv, Critical, Unprepare
<1>8. AdoptionInv'
  BY <1>0, <1>3, <1>5 DEF AdoptionInv, Unprepare, Cleaning
<1>9. CopyInv'
  BY <1>0, <1>3, <1>5, <1>6 DEF CopyInv, TrueCopy, Unprepare, Preparing, Entered
<1> QED BY <1>5, <1>7, <1>8, <1>9, DiskKept, PublishOver DEF Unprepare, Preparing, Entered

-----------------------------------------------------------------------------
(* The critical section *)

\* The exception leaves the leases, and what was not adopted will be undone.
LEMMA RaisesStep ==
    ASSUME ImportInv, P.pc \in Entered, Raises, UNCHANGED <<bundle, row, disk, adopted>>
    PROVE  ImportInv'
<1> USE DEF ImportInv
<1>0. P \in Memories /\ ~adopted
  BY Memory DEF AdoptionInv, Entered, Cleaning
<1>1. PGoes("undoWait") /\ lease' = IF lease = "publisher" THEN "none" ELSE lease
  BY <1>0 DEF Raises, AdoptionInv, Leaves
<1>2. w' \in [Workers -> Memories] /\ R' = R /\ P' = [P EXCEPT !.pc = "undoWait"]
  BY <1>1, PublisherGoes DEF Pcs
<1>3. P'.pc = "undoWait" /\ P'.fresh = P.fresh /\ P'.copy = P.copy
  BY <1>0, <1>2 DEF Memories
<1>4. Types' /\ LeaseInv'
  BY <1>1, <1>2, <1>3 DEF Types, LeaseInv, Critical
<1>5. AdoptionInv'
  BY <1>0, <1>2, <1>3 DEF AdoptionInv, Cleaning
<1>6. CopyInv'
  BY <1>0, <1>2, <1>3 DEF CopyInv, TrueCopy, Preparing, Entered
<1> QED BY <1>3, <1>4, <1>5, <1>6, DiskKept, PublishOver DEF Preparing, Entered

LEMMA EnterStep ==
    ASSUME ImportInv, Enter
    PROVE  ImportInv'
<1> USE DEF ImportInv
<1>0. P.pc = "enter" /\ P \in Memories /\ ~adopted /\ lease = "none"
  BY Memory DEF Enter, PAt, At, P, AdoptionInv, Cleaning
<1>1. CASE policy = "changed"
  BY <1>0, <1>1, RaisesStep DEF Enter, Entered
<1>2. CASE policy # "changed"
  <2> DEFINE m == [P EXCEPT !.pc = "boundary", !.todo = P.todo \cup P.prepared]
  <2>1. m \in Memories /\ w' = [w EXCEPT !["publisher"] = m] /\ lease' = "publisher"
    BY <1>0, <1>2 DEF Enter, Memories, Pcs
  <2>2. w' \in [Workers -> Memories] /\ P' = m /\ R' = R
    BY <2>1, PublisherAlone
  <2>3. P'.pc = "boundary" /\ P'.fresh = P.fresh /\ P'.copy = P.copy /\ P'.prepared = P.prepared
    BY <1>0, <2>2 DEF Memories
  <2>4. Types' /\ LeaseInv'
    BY <1>0, <2>1, <2>2, <2>3 DEF Types, LeaseInv, Critical, Enter, Workers
  <2>5. AdoptionInv'
    BY <1>0, <2>2, <2>3 DEF AdoptionInv, Enter, Cleaning
  <2>6. CopyInv'
    BY <1>0, <2>2, <2>3 DEF CopyInv, TrueCopy, Enter, Preparing, Entered
  <2>7. PublishInv'
    BY <1>0, <2>3 DEF PublishInv, Preparing, Entered
  <2> QED BY <2>4, <2>5, <2>6, <2>7, DiskKept DEF Enter
<1> QED BY <1>1, <1>2

\* A file is passed in the critical section.
LEMMA SkipBoundaryStep ==
    ASSUME ImportInv, NEW f \in Files, SkipBoundary(f)
    PROVE  ImportInv'
<1> USE DEF ImportInv
<1>0. P.pc = "boundary" /\ P \in Memories /\ ~adopted
  BY Memory DEF SkipBoundary, PAt, At, P, AdoptionInv, Cleaning
<1> DEFINE pc == IF P.todo = {f} THEN "recheck" ELSE "boundary"
           m == [P EXCEPT !.todo = P.todo \ {f}, !.pc = pc]
<1>1. m \in Memories /\ w' = [w EXCEPT !["publisher"] = m]
  BY <1>0 DEF SkipBoundary, Passed, P, Memories, Pcs
<1>2. w' \in [Workers -> Memories] /\ P' = m /\ R' = R
  BY <1>1, PublisherAlone
<1>3. /\ P'.pc = pc /\ P'.todo = P.todo \ {f} /\ P'.prepared = P.prepared
      /\ P'.fresh = P.fresh /\ P'.copy = P.copy
  BY <1>0, <1>2 DEF Memories
<1>4. Types' /\ LeaseInv'
  BY <1>0, <1>2, <1>3 DEF Types, LeaseInv, Critical, SkipBoundary
<1>5. AdoptionInv'
  BY <1>0, <1>2, <1>3 DEF AdoptionInv, SkipBoundary, Cleaning
<1>6. CopyInv'
  BY <1>0, <1>2, <1>3 DEF CopyInv, TrueCopy, SkipBoundary, Preparing, Entered
<1>7. PublishInv'
  BY <1>0, <1>3 DEF PublishInv, Preparing, Entered
<1> QED BY <1>4, <1>5, <1>6, <1>7, DiskKept DEF SkipBoundary

LEMMA RecheckStep ==
    ASSUME ImportInv, Recheck
    PROVE  ImportInv'
<1> USE DEF ImportInv
<1>0. /\ P.pc = "recheck" /\ P \in Memories /\ ~adopted /\ P.prepared = Files
      /\ disk \in [Files -> [Places -> Bytes]]
  BY Memory DEF Recheck, PAt, At, P, AdoptionInv, Cleaning, PublishInv, Entered, Types
<1> DEFINE left == {f \in P.prepared : P.copy[f] # "published"}
           going == policy = "current" /\ \A f \in P.prepared : Publishable(f)
<1>1. CASE ~going
  BY <1>0, <1>1, RaisesStep DEF Recheck, Entered
<1>2. CASE going
  <2> DEFINE pc == IF left = {} THEN "commit" ELSE "publish"
             m == [P EXCEPT !.pc = pc, !.todo = left]
  <2>1. m \in Memories /\ w' = [w EXCEPT !["publisher"] = m]
    BY <1>0, <1>2 DEF Recheck, P, Memories, Pcs
  <2>2. w' \in [Workers -> Memories] /\ P' = m /\ R' = R
    BY <2>1, PublisherAlone
  <2>3. /\ P'.pc = pc /\ P'.todo = left /\ P'.prepared = P.prepared
        /\ P'.fresh = P.fresh /\ P'.copy = P.copy
    BY <1>0, <2>2 DEF Memories
  <2>4. disk' = [f \in Files |-> IF f \in P.prepared \ left
                                 THEN [disk[f] EXCEPT !.sidecarTemp = "missing"] ELSE disk[f]]
    BY <1>2 DEF Recheck
  <2>5. /\ disk' \in [Files -> [Places -> Bytes]]
        /\ \A f \in Files, place \in Places \ {"sidecarTemp"} : disk'[f][place] = disk[f][place]
    BY <1>0, <2>4 DEF Places, Bytes
  <2>6. Types' /\ LeaseInv'
    BY <1>0, <1>2, <2>2, <2>3, <2>5 DEF Types, LeaseInv, Critical, Recheck
  <2>7. DiskInv'
    BY <2>5 DEF DiskInv, Held, Kept, Empty, Holds, Places, Recheck
  <2>8. AdoptionInv'
    BY <1>0, <2>2, <2>3 DEF AdoptionInv, Recheck, Cleaning
  <2>9. CopyInv'
    BY <1>0, <2>2, <2>3 DEF CopyInv, TrueCopy, Recheck, Preparing, Entered
  <2>10. PublishInv'
    <3>1. \A f \in Files \ left : Shown(f)'
      BY <1>0, <1>2, <2>5 DEF Publishable, Shown, Holds, Places
    <3>2. ASSUME NEW f \in left, Same(f)
          PROVE  Replaceable(f)'
      BY <1>0, <1>2, <2>3, <2>5, <3>2 DEF Publishable, Replaceable, Holds, Empty, Places
    <3>3. \A f \in left : Replaceable(f)'
      BY <3>2 DEF Replaceable, Same
    <3> QED BY <1>0, <2>3, <3>1, <3>3 DEF PublishInv, Preparing, Entered
  <2> QED BY <2>6, <2>7, <2>8, <2>9, <2>10
<1> QED BY <1>1, <1>2

\* Where only the place of f changes, and what is remembered of it.
LEMMA PublishFile ==
    ASSUME PublishInv, P.pc = "publish", NEW f \in P.todo, P'.prepared = P.prepared,
           P \in Memories,
           \A g \in Files : g # f => P'.copy[g] = P.copy[g],
           \A g \in Files, place \in Places : g # f => disk'[g][place] = disk[g][place],
           \/ P'.pc = "publish" /\ P'.todo = P.todo /\ Replaceable(f)'
           \/ /\ P'.pc = IF P.todo = {f} THEN "commit" ELSE "publish"
              /\ P'.todo = P.todo \ {f} /\ Shown(f)'
    PROVE  PublishInv'
<1>1. \A g \in Files : g # f => (Shown(g) => Shown(g)') /\ (Replaceable(g) => Replaceable(g)')
  BY DEF Shown, Replaceable, Holds, Empty, Places
<1>2. P.prepared = Files /\ P.todo \subseteq Files
  BY DEF PublishInv, Entered, Memories
<1>3. \A g \in Files \ P.todo : Shown(g)'
  BY <1>1 DEF PublishInv
<1>4. \A g \in P.todo \ {f} : Replaceable(g)'
  BY <1>1, <1>2 DEF PublishInv
<1> QED BY <1>2, <1>3, <1>4 DEF PublishInv, Preparing, Entered

LEMMA BackUpStep ==
    ASSUME ImportInv, NEW f \in Files, BackUp(f)
    PROVE  ImportInv'
<1> USE DEF ImportInv
<1>0. /\ P.pc = "publish" /\ P \in Memories /\ ~adopted /\ f \in P.todo
      /\ Same(f) /\ disk[f].destination = "replaced"
      /\ disk \in [Files -> [Places -> Bytes]]
  BY Memory DEF BackUp, InHand, First, PAt, At, P, AdoptionInv, Cleaning, PublishInv, Replaceable,
               Types, Empty, Holds
<1>1. w' = w /\ P' = P /\ R' = R
  BY DEF BackUp, P, R
<1>2. /\ disk' \in [Files -> [Places -> Bytes]]
      /\ disk'[f].destination = "missing" /\ disk'[f].backup = "replaced"
      /\ \A g \in Files, place \in Places :
            g # f \/ place \notin {"destination", "backup"} => disk'[g][place] = disk[g][place]
  BY <1>0 DEF BackUp, Moves, Places, Bytes
<1>3. Types' /\ LeaseInv'
  BY <1>1, <1>2 DEF Types, LeaseInv, BackUp
<1>4. DiskInv'
  <2>1. \A g \in Files : g # f => (Held(g)' <=> Held(g)) /\ (Kept(g)' <=> Kept(g))
    BY <1>2 DEF Held, Kept, Empty, Holds, Places
  <2>2. Kept(f)' /\ Held(f)'
    BY <1>0, <1>2 DEF Held, Kept, Empty, Holds, Places, DiskInv
  <2> QED BY <1>2, <2>1, <2>2 DEF DiskInv, BackUp, Empty, Holds, Places
<1>5. AdoptionInv'
  BY <1>1 DEF AdoptionInv, BackUp
<1>6. CopyInv'
  BY <1>1 DEF CopyInv, TrueCopy, BackUp
<1>7. PublishInv'
  <2>1. Replaceable(f)'
    BY <1>1, <1>2 DEF Replaceable, Empty, Holds
  <2> QED BY <1>0, <1>1, <1>2, <2>1, PublishFile
<1> QED BY <1>3, <1>4, <1>5, <1>6, <1>7

LEMMA PlaceStep ==
    ASSUME ImportInv, NEW f \in Files, Place(f)
    PROVE  ImportInv'
<1> USE DEF ImportInv
<1>0. /\ P.pc = "publish" /\ P \in Memories /\ ~adopted /\ f \in P.todo
      /\ Same(f) => P.copy[f] = "replacement_backed_up" /\ ~Empty(f, "backup")
      /\ disk \in [Files -> [Places -> Bytes]]
  BY Memory DEF Place, InHand, First, PAt, At, P, AdoptionInv, Cleaning, PublishInv, Replaceable,
     Types
<1>1. w' = w /\ P' = P /\ R' = R
  BY DEF Place, P, R
<1>2. /\ disk' \in [Files -> [Places -> Bytes]]
      /\ \A g \in Files, place \in Places :
            g # f \/ place \notin {"destination", "temp"} => disk'[g][place] = disk[g][place]
  BY <1>0 DEF Place, Moves, Places, Bytes
<1>3. Types' /\ LeaseInv'
  BY <1>1, <1>2 DEF Types, LeaseInv, Place
<1>4. DiskInv'
  <2>1. \A g \in Files : g # f => (Held(g)' <=> Held(g)) /\ (Kept(g)' <=> Kept(g))
    BY <1>2 DEF Held, Kept, Empty, Holds, Places
  <2>2. Kept(f)' /\ Held(f)'
    BY <1>0, <1>2 DEF Held, Kept, Empty, Holds, Places, DiskInv
  <2> QED BY <1>0, <1>2, <2>1, <2>2 DEF DiskInv, Place, Empty, Holds, Places
<1>5. AdoptionInv'
  BY <1>1 DEF AdoptionInv, Place
<1>6. CopyInv'
  BY <1>1 DEF CopyInv, TrueCopy, Place
<1>7. PublishInv'
  <2>1. Replaceable(f)'
    BY <1>0, <1>1, <1>2 DEF Replaceable, Empty, Holds, Places
  <2> QED BY <1>0, <1>1, <1>2, <2>1, PublishFile
<1> QED BY <1>3, <1>4, <1>5, <1>6, <1>7

LEMMA PlaceSidecarStep ==
    ASSUME ImportInv, NEW f \in Files, PlaceSidecar(f)
    PROVE  ImportInv'
<1> USE DEF ImportInv
<1>0. /\ P.pc \in {"boundary", "publish"} /\ P \in Memories /\ ~adopted /\ f \in P.todo
      /\ disk \in [Files -> [Places -> Bytes]]
  BY Memory DEF PlaceSidecar, InHand, First, PAt, At, P, AdoptionInv, Cleaning, Types
<1>1. CASE Raises /\ UNCHANGED disk
  BY <1>0, <1>1, RaisesStep DEF PlaceSidecar, Entered
<1>2. CASE Moves(f, "sidecarTemp", "sidecarPlace") /\ UNCHANGED <<lease, w>>
  <2>1. w' = w /\ P' = P /\ R' = R
    BY <1>2 DEF P, R
  <2>2. /\ disk' \in [Files -> [Places -> Bytes]]
        /\ \A g \in Files, place \in Places :
              g # f \/ place \notin {"sidecarTemp", "sidecarPlace"} => disk'[g][place] = disk[g][place]
    BY <1>0, <1>2 DEF Moves, Places, Bytes
  <2>3. Types' /\ LeaseInv'
    BY <1>2, <2>1, <2>2 DEF Types, LeaseInv, PlaceSidecar
  <2>4. DiskInv'
    BY <1>0, <2>2 DEF DiskInv, Held, Kept, Empty, Holds, Places, PlaceSidecar
  <2>5. AdoptionInv'
    BY <2>1 DEF AdoptionInv, PlaceSidecar
  <2>6. CopyInv'
    BY <2>1 DEF CopyInv, TrueCopy, PlaceSidecar
  <2>7. PublishInv'
    <3>1. CASE P.pc = "boundary"
      BY <1>0, <2>1, <3>1 DEF PublishInv, Preparing, Entered
    <3>2. CASE P.pc = "publish"
      <4>1. Replaceable(f)'
        BY <1>0, <2>1, <2>2, <3>2 DEF PublishInv, Replaceable, Empty, Holds, Places
      <4> QED BY <1>0, <2>1, <2>2, <3>2, <4>1, PublishFile
    <3> QED BY <1>0, <3>1, <3>2
  <2> QED BY <2>3, <2>4, <2>5, <2>6, <2>7
<1> QED BY <1>1, <1>2 DEF PlaceSidecar

\* A row of the critical section is written with the revision that was read, or not at all.
LEMMA TurnStep ==
    ASSUME ImportInv, NEW f \in Files, NEW state \in {"replacement_backed_up", "published"},
           NEW pc \in Entered \ {"enter"}, NEW todo \in SUBSET Files,
           P.pc \in {"boundary", "publish"}, P.copy[f] \in Ready, f \in P.fresh,
           P.pc = "boundary" => pc \in {"boundary", "recheck"},
           UNCHANGED <<bundle, disk, adopted, lease>>, row' = [row EXCEPT ![f] = state],
           w' = [Written("publisher", f, state) EXCEPT !["publisher"] =
                    [Written("publisher", f, state)["publisher"] EXCEPT !.pc = pc, !.todo = todo]],
           \/ P.pc = "boundary"
           \/ /\ pc = "publish" /\ todo = P.todo /\ f \in P.todo
              /\ state = "replacement_backed_up" /\ ~Empty(f, "backup")
           \/ /\ pc = IF P.todo = {f} THEN "commit" ELSE "publish"
              /\ todo = P.todo \ {f} /\ f \in P.todo /\ Shown(f)
    PROVE  ImportInv'
<1> USE DEF ImportInv
<1>0. /\ P \in Memories /\ R \in Memories /\ ~adopted /\ row \in [Files -> RowStates]
  BY Memory DEF AdoptionInv, Cleaning, Types
<1> DEFINE m == [P EXCEPT !.copy = [P.copy EXCEPT ![f] = state], !.fresh = P.fresh \cup {f},
                          !.pc = pc, !.todo = todo]
<1>1. m \in Memories /\ state \in RowStates
  BY <1>0 DEF Memories, Pcs, RowStates, Undoable, Ready, Entered
<1>2. [Written("publisher", f, state)["publisher"] EXCEPT !.pc = pc, !.todo = todo] = m
  <2>1. Written("publisher", f, state)["publisher"] =
           [w["publisher"] EXCEPT !.copy = [w["publisher"].copy EXCEPT ![f] = state],
                                  !.fresh = w["publisher"].fresh \cup {f}]
    BY <1>1, Writing DEF Workers
  <2> QED BY <1>0, <2>1, Memory DEF Memories
<1>3. w' \in [Workers -> Memories] /\ P' = m /\ R' = [R EXCEPT !.fresh = R.fresh \ {f}]
  BY <1>1, <1>2, Turning
<1>4. /\ P'.pc = pc /\ P'.todo = todo /\ P'.prepared = P.prepared
      /\ P'.fresh = P.fresh \cup {f} /\ P'.copy = [P.copy EXCEPT ![f] = state]
      /\ R'.pc = R.pc /\ R'.todo = R.todo /\ R'.copy = R.copy /\ R'.seen = R.seen
      /\ R'.fresh = R.fresh \ {f}
  BY <1>0, <1>3 DEF Memories
<1>5. Types'
  BY <1>0, <1>1, <1>3 DEF Types
<1>6. LeaseInv'
  BY <1>4 DEF LeaseInv, Critical, Entered
<1>7. AdoptionInv'
  BY <1>0, <1>4 DEF AdoptionInv, Cleaning, Entered
<1>8. row[f] \in Ready
  BY <1>0 DEF CopyInv, TrueCopy
<1>9. TrueCopy(P)' /\ TrueCopy(R)'
  BY <1>0, <1>4 DEF CopyInv, TrueCopy, Memories, Blank, Entered
<1>10. CopyInv'
  <2>1. \A g \in Files : P'.copy[g] = "none" => row'[g] = "none"
    BY <1>0, <1>4 DEF CopyInv, Entered, Memories
  <2>2. R'.pc = "undoWait" => \A g \in Files : R'.copy[g] = "rollback_pending" => row'[g] = "rollback_pending"
    BY <1>0, <1>4, <1>8 DEF CopyInv, Entered, Ready
  <2> QED BY <1>4, <1>9, <2>1, <2>2 DEF CopyInv, Entered
<1>11. PublishInv'
  <2>1. CASE P.pc = "boundary"
    BY <1>4, <2>1 DEF PublishInv, Preparing, Entered
  <2>2. CASE P.pc = "publish"
    <3>1. \A g \in Files : g # f => P'.copy[g] = P.copy[g]
      BY <1>0, <1>4 DEF Memories
    <3>2. CASE pc = "publish" /\ todo = P.todo /\ state = "replacement_backed_up" /\ ~Empty(f, "backup")
               /\ f \in P.todo
      <4>1. Replaceable(f)'
        BY <1>0, <1>4, <3>2 DEF Replaceable, Empty, Holds, Memories
      <4> QED BY <1>0, <1>4, <2>2, <3>1, <3>2, <4>1, PublishFile
    <3>3. CASE /\ pc = IF P.todo = {f} THEN "commit" ELSE "publish"
               /\ todo = P.todo \ {f} /\ f \in P.todo /\ Shown(f)
      <4>1. Shown(f)'
        BY <3>3 DEF Shown, Holds
      <4> QED BY <1>0, <1>4, <2>2, <3>1, <3>3, <4>1, PublishFile
    <3> QED BY <2>2, <3>2, <3>3
  <2> QED BY <2>1, <2>2
<1> QED BY <1>5, <1>6, <1>7, <1>10, <1>11, DiskKept

LEMMA MarkBackedUpStep ==
    ASSUME ImportInv, NEW f \in Files, MarkBackedUp(f)
    PROVE  ImportInv'
<1> USE DEF ImportInv
<1>0. /\ P.pc \in {"boundary", "publish"} /\ P \in Memories /\ f \in P.todo
      /\ P.copy[f] = "validated" /\ ~Empty(f, "backup")
  BY Memory DEF MarkBackedUp, InHand, First, PAt, At, P, Types, Empty, Holds
<1>1. CASE ~CanWrite("publisher", f) /\ Raises /\ UNCHANGED row
  BY <1>0, <1>1, RaisesStep DEF MarkBackedUp, Entered
<1>2. CASE /\ f \in P.fresh /\ row' = [row EXCEPT ![f] = "replacement_backed_up"] /\ UNCHANGED lease
           /\ w' = [Written("publisher", f, "replacement_backed_up") EXCEPT !["publisher"] =
                       IF P.pc = "boundary" THEN Passed(@, f, "recheck") ELSE @]
  <2> DEFINE mine == Written("publisher", f, "replacement_backed_up")["publisher"]
             pc == IF P.pc = "boundary" /\ P.todo = {f} THEN "recheck" ELSE P.pc
             todo == IF P.pc = "boundary" THEN P.todo \ {f} ELSE P.todo
  <2>1. mine \in Memories /\ mine.pc = P.pc /\ mine.todo = P.todo
    <3>1. "publisher" \in Workers /\ "replacement_backed_up" \in RowStates
      BY DEF Workers, RowStates, Undoable, Ready
    <3> QED BY <3>1, Wrote DEF P
  <2>2. (IF P.pc = "boundary" THEN Passed(mine, f, "recheck") ELSE mine) =
        [mine EXCEPT !.pc = pc, !.todo = todo]
    BY <2>1 DEF Passed, Memories
  <2>3. w' = [Written("publisher", f, "replacement_backed_up") EXCEPT !["publisher"] =
                 [Written("publisher", f, "replacement_backed_up")["publisher"] EXCEPT !.pc = pc, !.todo = todo]]
    BY <1>2, <2>2
  <2>4. pc \in Entered \ {"enter"} /\ todo \in SUBSET Files
    BY <1>0 DEF Entered, Memories
  <2> HIDE DEF mine
  <2> QED BY <1>0, <1>2, <2>3, <2>4, TurnStep DEF MarkBackedUp, Ready
<1>3. \/ ~CanWrite("publisher", f) /\ Raises /\ UNCHANGED row
      \/ /\ f \in P.fresh /\ row' = [row EXCEPT ![f] = "replacement_backed_up"] /\ UNCHANGED lease
         /\ w' = [Written("publisher", f, "replacement_backed_up") EXCEPT !["publisher"] =
                     IF P.pc = "boundary" THEN Passed(@, f, "recheck") ELSE @]
  BY DEF MarkBackedUp, Turns, Transition, CanWrite, P, PAt, At, Writes
<1> QED BY <1>1, <1>2, <1>3

LEMMA MarkPublishedStep ==
    ASSUME ImportInv, NEW f \in Files, MarkPublished(f)
    PROVE  ImportInv'
<1> USE DEF ImportInv
<1>0. /\ P.pc \in {"boundary", "publish"} /\ P \in Memories /\ f \in P.todo
      /\ P.copy[f] \in Ready /\ Holds(f, "destination", "staged")
  BY Memory DEF MarkPublished, InHand, First, PAt, At, P, Types, AudioPlaced
<1>1. CASE Raises /\ UNCHANGED row
  BY <1>0, <1>1, RaisesStep DEF MarkPublished, Entered
<1>2. CASE /\ f \in P.fresh /\ row' = [row EXCEPT ![f] = "published"] /\ UNCHANGED lease
           /\ HasSidecar(f) => Holds(f, "sidecarPlace", "art")
           /\ w' = [Written("publisher", f, "published") EXCEPT !["publisher"] = Passed(@, f, AfterIt)]
  <2> DEFINE mine == Written("publisher", f, "published")["publisher"]
             pc == IF P.todo = {f} THEN AfterIt ELSE P.pc
  <2>1. mine \in Memories /\ mine.pc = P.pc /\ mine.todo = P.todo
    <3>1. "publisher" \in Workers /\ "published" \in RowStates
      BY DEF Workers, RowStates, Undoable, Ready
    <3> QED BY <3>1, Wrote DEF P
  <2>2. Passed(mine, f, AfterIt) = [mine EXCEPT !.pc = pc, !.todo = P.todo \ {f}]
    BY <2>1 DEF Passed, Memories
  <2>3. w' = [Written("publisher", f, "published") EXCEPT !["publisher"] =
                 [Written("publisher", f, "published")["publisher"] EXCEPT !.pc = pc, !.todo = P.todo \ {f}]]
    BY <1>2, <2>2
  <2>4. AfterIt = IF P.pc = "boundary" THEN "recheck" ELSE "commit"
    BY DEF AfterIt, PAt, At, P
  <2>5. pc \in Entered \ {"enter"} /\ P.todo \ {f} \in SUBSET Files
    BY <1>0, <2>4 DEF Entered, Memories
  <2>6. Shown(f)
    BY <1>0, <1>2 DEF Shown
  <2> HIDE DEF mine
  <2>7. \/ P.pc = "boundary" /\ pc \in {"boundary", "recheck"}
        \/ P.pc = "publish" /\ pc = IF P.todo = {f} THEN "commit" ELSE "publish"
    BY <1>0, <2>4
  <2> HIDE DEF pc
  <2> QED BY <1>0, <1>2, <2>3, <2>5, <2>6, <2>7, TurnStep DEF MarkPublished
<1>3. \/ Raises /\ UNCHANGED row
      \/ /\ f \in P.fresh /\ row' = [row EXCEPT ![f] = "published"] /\ UNCHANGED lease
         /\ HasSidecar(f) => Holds(f, "sidecarPlace", "art")
         /\ w' = [Written("publisher", f, "published") EXCEPT !["publisher"] = Passed(@, f, AfterIt)]
  BY DEF MarkPublished, Turns, Transition, CanWrite, P, Writes
<1> QED BY <1>1, <1>2, <1>3

LEMMA CommitStep ==
    ASSUME ImportInv, Commit
    PROVE  ImportInv'
<1> USE DEF ImportInv
<1>0. /\ P.pc = "commit" /\ P \in Memories /\ R \in Memories /\ ~adopted /\ lease = "publisher"
      /\ row \in [Files -> RowStates]
  BY Memory DEF Commit, PAt, At, P, AdoptionInv, Cleaning, LeaseInv, Critical, Types
<1>1. CASE ~(policy = "current" /\ Committable)
  BY <1>0, <1>1, RaisesStep DEF Commit, Entered
<1>2. CASE policy = "current" /\ Committable
  <2>1. /\ adopted' = TRUE /\ bundle' = "catalog_committed" /\ disk' = disk /\ lease' = "none"
        /\ row' = [f \in Files |-> "catalog_committed"]
        /\ \A f \in Files : row[f] = "published"
    BY <1>0, <1>2 DEF Commit, Committable, Leaves
  <2>2. P' = [P EXCEPT !.pc = "cleanWait"] /\ R' = [R EXCEPT !.fresh = {}]
        /\ w' \in [Workers -> {P', R'}]
    BY <1>2 DEF Commit, P, R, Workers
  <2>3. /\ P' \in Memories /\ R' \in Memories /\ P'.pc = "cleanWait"
        /\ R'.pc = R.pc /\ R'.copy = R.copy /\ R'.fresh = {} /\ R'.todo = R.todo
    BY <1>0, <2>2 DEF Memories, Pcs
  <2>4. Types'
    BY <2>1, <2>2, <2>3 DEF Types, BundleStates, Committed, RowStates
  <2>5. R.pc \notin Critical
    BY <1>0 DEF LeaseInv
  <2>6. LeaseInv'
    BY <2>3, <2>5 DEF LeaseInv, Critical
  <2>7. DiskInv'
    BY <1>0, <2>1 DEF DiskInv, Held, Kept, Empty, Holds
  <2>8. R.pc = "undoWait" => \A f \in Files : R.copy[f] # "rollback_pending"
    BY <1>0, <2>1 DEF CopyInv, Entered
  <2>9. AdoptionInv'
    BY <2>1, <2>3, <2>5, <2>8 DEF AdoptionInv, Committed, Cleaning, Critical, Undoes
  <2>10. CopyInv'
    BY <2>1, <2>3, <2>5 DEF CopyInv, TrueCopy, Preparing, Entered, Blank, Critical
  <2>11. PublishInv'
    BY <2>3, PublishOver DEF Preparing, Entered
  <2> QED BY <2>4, <2>6, <2>7, <2>9, <2>10, <2>11
<1> QED BY <1>1, <1>2

-----------------------------------------------------------------------------
(* The steps that the publisher and recovery share *)

LEMMA OneMoves ==
    ASSUME Types, NEW p \in Workers, NEW m \in Memories, w' = [w EXCEPT ![p] = m]
    PROVE  /\ w' \in [Workers -> Memories]
           /\ \/ p = "publisher" /\ P = w[p] /\ P' = m /\ R' = R
              \/ p = "recovery" /\ R = w[p] /\ R' = m /\ P' = P
BY PublisherAlone, RecoveryAlone DEF Workers, P, R

\* Who does file work has the leases, and so nobody else does.
LEMMA LeaseGoes ==
    ASSUME Types, LeaseInv, NEW p \in Workers, NEW m \in Memories, w' = [w EXCEPT ![p] = m],
           \/ lease' = lease /\ (m.pc \in Critical => lease = p)
           \/ Leaves(p) /\ m.pc \notin Critical
           \/ lease = "none" /\ lease' = p
    PROVE  LeaseInv' /\ lease' \in {"none"} \cup Workers
<1>1. \/ p = "publisher" /\ P = w[p] /\ P' = m /\ R' = R
      \/ p = "recovery" /\ R = w[p] /\ R' = m /\ P' = P
  BY OneMoves
<1> QED BY <1>1 DEF LeaseInv, Leaves, Types

\* Of a bundle that is adopted.
LEMMA AdoptedStep ==
    ASSUME ImportAssumption, Types', LeaseInv', DiskInv', adopted',
           bundle' \in Committed \cup {"needs_attention"},
           \A f \in Files : row'[f] \in Committed \cup {"needs_attention"},
           P'.pc \in {"idle"} \cup Cleaning, R'.pc # "restore",
           R'.pc \in {"undoWait", "undo"} => \A f \in Files : ~Undoes(R, f)',
           P'.pc = "idle" => Blank(P)',
           R'.pc \in {"idle", "mark", "list", "listed", "journals"} => Blank(R)'
    PROVE  ImportInv'
<1>1. AdoptionInv'
  BY DEF AdoptionInv
<1>2. TrueCopy(P)'
  BY DEF TrueCopy, Cleaning
<1>3. TrueCopy(R)'
  BY DEF TrueCopy
<1>4. CopyInv' /\ PublishInv'
  BY <1>2, <1>3 DEF CopyInv, PublishInv, Preparing, Entered, Cleaning
<1> QED BY <1>1, <1>4 DEF ImportInv

\* What is known of a bundle that is being cleaned up.
LEMMA AdoptedNow ==
    ASSUME ImportInv, adopted
    PROVE  /\ bundle \in Committed \cup {"needs_attention"}
           /\ \A f \in Files : row[f] \in Committed \cup {"needs_attention"}
           /\ P.pc \in {"idle"} \cup Cleaning /\ R.pc # "restore"
           /\ R.pc \in {"undoWait", "undo"} => \A f \in Files : ~Undoes(R, f)
           /\ P.pc = "idle" => Blank(P)
           /\ R.pc \in {"idle", "mark", "list", "listed", "journals"} => Blank(R)
BY DEF ImportInv, AdoptionInv, CopyInv, TrueCopy

LEMMA WorkerGoes ==
    ASSUME Types, NEW p \in Workers, NEW pc \in Pcs, Goes(p, pc)
    PROVE  \E m \in Memories :
              /\ w' = [w EXCEPT ![p] = m] /\ m.pc = pc
              /\ pc = "idle" => Blank(m)
              /\ pc # "idle" => m.copy = w[p].copy /\ m.fresh = w[p].fresh /\ m.seen = w[p].seen
<1> DEFINE m == IF pc = "idle" THEN Nobody ELSE [w[p] EXCEPT !.pc = pc]
<1>1. m \in Memories /\ w' = [w EXCEPT ![p] = m]
  BY Going
<1>2. w[p] \in Memories
  BY Memory
<1>3. m.pc = pc /\ (pc = "idle" => Blank(m))
  BY <1>2, NobodyIs DEF Memories, Blank
<1>4. pc # "idle" => m.copy = w[p].copy /\ m.fresh = w[p].fresh /\ m.seen = w[p].seen
  BY <1>2 DEF Memories
<1> HIDE DEF m
<1> QED BY <1>1, <1>3, <1>4

LEMMA BeginCleanupStep ==
    ASSUME ImportInv, NEW p \in Workers, BeginCleanup(p)
    PROVE  ImportInv'
<1> USE DEF ImportInv
<1>0. w[p] \in Memories /\ w[p].pc = "cleanWait" /\ adopted
  BY Memory DEF BeginCleanup, At, AdoptionInv, Cleaning, Workers, P, R
<1>1. UNCHANGED <<bundle, row, disk, adopted>>
  BY DEF BeginCleanup
<1>2. PICK m \in Memories :
         /\ w' = [w EXCEPT ![p] = m] /\ m.pc \in {"idle", "attention", "clean"}
         /\ m.pc = "attention" => p = "recovery"
         /\ m.pc = "idle" => Blank(m)
         /\ \/ lease' = lease /\ m.pc \notin Critical
            \/ lease = "none" /\ lease' = p
  <2>1. CASE bundle = "completed" \/ policy = "changed"
    <3>1. PICK pc \in {"idle", "attention"} :
             Goes(p, pc) /\ lease' = lease /\ (pc = "attention" => p = "recovery")
      BY <2>1 DEF BeginCleanup
    <3>2. pc \in Pcs
      BY DEF Pcs
    <3>3. PICK m \in Memories : w' = [w EXCEPT ![p] = m] /\ m.pc = pc /\ (pc = "idle" => Blank(m))
      BY <3>1, <3>2, WorkerGoes
    <3> QED BY <3>1, <3>3 DEF Critical
  <2>2. CASE ~(bundle = "completed" \/ policy = "changed")
    <3> DEFINE left == {f \in Journalled : row[f] # "completed"}
               m == [Nobody EXCEPT !.pc = "clean", !.seen = w[p].seen, !.todo = left]
    <3>1. m \in Memories /\ m.pc = "clean"
      BY <1>0, NobodyIs DEF Memories, Pcs, Journalled
    <3>2. w' = [w EXCEPT ![p] = m] /\ lease = "none" /\ lease' = p
      BY <2>2 DEF BeginCleanup
    <3> HIDE DEF m
    <3> QED BY <3>1, <3>2
  <2> QED BY <2>1, <2>2
<1>3. /\ w' \in [Workers -> Memories]
      /\ \/ p = "publisher" /\ P = w[p] /\ P' = m /\ R' = R
         \/ p = "recovery" /\ R = w[p] /\ R' = m /\ P' = P
  BY <1>2, OneMoves
<1>4. LeaseInv' /\ Types'
  BY <1>1, <1>2, <1>3, LeaseGoes DEF Types
<1> QED BY <1>0, <1>1, <1>2, <1>3, <1>4, AdoptedNow, AdoptedStep, DiskKept DEF Cleaning, Undoes,
           Blank

LEMMA CleanUpStep ==
    ASSUME ImportInv, NEW p \in Workers, NEW f \in Files, CleanUp(p, f)
    PROVE  ImportInv'
<1> USE DEF ImportInv
<1>0. /\ w[p] \in Memories /\ w[p].pc = "clean" /\ adopted /\ lease = p
      /\ disk \in [Files -> [Places -> Bytes]]
  BY Memory DEF CleanUp, At, AdoptionInv, Cleaning, Workers, P, R, LeaseInv, Critical, Types
<1>1. UNCHANGED <<bundle, row, adopted, lease>>
  BY DEF CleanUp
<1>2. PICK m \in Memories : w' = [w EXCEPT ![p] = m] /\ m.pc = "clean"
  <2>1. CASE w' = [w EXCEPT ![p].todo = @ \ {f}]
    <3> DEFINE m == [w[p] EXCEPT !.todo = w[p].todo \ {f}]
    <3>1. m \in Memories /\ m.pc = "clean" /\ w' = [w EXCEPT ![p] = m]
      BY <1>0, <2>1 DEF Memories
    <3> QED BY <3>1
  <2>2. CASE Fails(p, f)
    <3> DEFINE m == [w[p] EXCEPT !.todo = w[p].todo \ {f}, !.failed = w[p].failed \cup {f}]
    <3>1. m \in Memories /\ m.pc = "clean"
      BY <1>0 DEF Memories
    <3>2. w' = [w EXCEPT ![p] = m]
      BY <2>2 DEF Fails
    <3> HIDE DEF m
    <3> QED BY <3>1, <3>2
  <2>3. CASE UNCHANGED w
    BY <1>0, <2>3 DEF Types
  <2> QED BY <2>1, <2>2, <2>3 DEF CleanUp
<1>3. /\ w' \in [Workers -> Memories]
      /\ \/ p = "publisher" /\ P = w[p] /\ P' = m /\ R' = R
         \/ p = "recovery" /\ R = w[p] /\ R' = m /\ P' = P
  BY <1>2, OneMoves
<1>4. /\ disk' \in [Files -> [Places -> Bytes]]
      /\ \/ UNCHANGED disk
         \/ /\ disk' = [disk EXCEPT ![f].source = "missing"]
         \/ /\ Empty(f, "source")
            /\ \E place \in {"backup", "old", "sidecar"} : disk' = [disk EXCEPT ![f][place] = "missing"]
  <2>1. CASE UNCHANGED disk
    BY <1>0, <2>1
  <2>2. ASSUME NEW i \in DOMAIN Waste(f), Unlinks(f, Waste(f)[i][1]),
               \A j \in DOMAIN Waste(f) : ~Empty(f, Waste(f)[j][1]) => i <= j
        PROVE  \/ disk' = [disk EXCEPT ![f].source = "missing"]
               \/ /\ Empty(f, "source")
                  /\ \E place \in {"backup", "old", "sidecar"} :
                        disk' = [disk EXCEPT ![f][place] = "missing"]
    <3>1. /\ DOMAIN Waste(f) = 1 .. 3 /\ Waste(f)[1][1] = "source"
          /\ Waste(f)[2][1] \in {"backup", "old"} /\ Waste(f)[3][1] = "sidecar"
      BY DEF Waste
    <3>2. CASE i = 1
      BY <2>2, <3>1, <3>2 DEF Unlinks
    <3>3. CASE i # 1
      <4>1. Empty(f, "source")
        BY <2>2, <3>1, <3>3
      <4>2. Waste(f)[i][1] \in {"backup", "old", "sidecar"}
        BY <3>1, <3>3
      <4> QED BY <2>2, <4>1, <4>2 DEF Unlinks
    <3> QED BY <3>2, <3>3
  <2>3. \/ UNCHANGED disk
        \/ disk' = [disk EXCEPT ![f].source = "missing"]
        \/ /\ Empty(f, "source")
           /\ \E place \in {"backup", "old", "sidecar"} : disk' = [disk EXCEPT ![f][place] = "missing"]
    BY <2>2 DEF CleanUp
  <2> QED BY <1>0, <2>3 DEF Places, Bytes
<1>5. DiskInv'
  <2>1. \A g \in Files : g # f => (Kept(g)' <=> Kept(g)) /\ (Empty(g, "source")' <=> Empty(g, "source"))
                                  /\ disk'[g].backup = disk[g].backup
    BY <1>0, <1>4 DEF Kept, Empty, Holds, Places
  <2>2. disk'[f].backup \in {"missing", "replaced"}
    BY <1>0, <1>4 DEF DiskInv, Places
  <2>3. UNCHANGED disk \/ Empty(f, "source")'
    BY <1>0, <1>4 DEF Empty, Holds, Places
  <2> QED BY <1>0, <1>1, <2>1, <2>2, <2>3 DEF DiskInv, Kept, Empty, Holds
<1>6. LeaseInv' /\ Types'
  BY <1>0, <1>1, <1>2, <1>3, <1>4, LeaseGoes DEF Types
<1> QED BY <1>0, <1>1, <1>2, <1>3, <1>5, <1>6, AdoptedNow, AdoptedStep DEF Cleaning, Undoes, Blank

LEMMA FinishCleanupStep ==
    ASSUME ImportInv, NEW p \in Workers, FinishCleanup(p)
    PROVE  ImportInv'
<1> USE DEF ImportInv
<1>0. w[p] \in Memories /\ w[p].pc = "clean" /\ adopted
  BY Memory DEF FinishCleanup, At, AdoptionInv, Cleaning, Workers, P, R
<1>1. UNCHANGED <<disk, adopted>> /\ Leaves(p)
  BY DEF FinishCleanup
<1>2. PICK pc \in {"idle", "attention"} : Goes(p, pc) /\ (pc = "attention" => p = "recovery")
  BY DEF FinishCleanup
<1>3. pc \in Pcs
  BY DEF Pcs
<1>4. PICK m \in Memories : w' = [w EXCEPT ![p] = m] /\ m.pc = pc /\ (pc = "idle" => Blank(m))
  BY <1>2, <1>3, WorkerGoes
<1>5. /\ w' \in [Workers -> Memories]
      /\ \/ p = "publisher" /\ P = w[p] /\ P' = m /\ R' = R
         \/ p = "recovery" /\ R = w[p] /\ R' = m /\ P' = P
  BY <1>4, OneMoves
<1>6. /\ bundle' \in Committed \cup {"needs_attention"}
      /\ row' \in [Files -> Committed \cup {"needs_attention"}]
  BY <1>0, AdoptedNow DEF FinishCleanup, Committed, Types
<1>7. LeaseInv' /\ Types'
  <2>1. LeaseInv' /\ lease' \in {"none"} \cup Workers
    BY <1>1, <1>4, LeaseGoes DEF Critical
  <2> QED BY <1>1, <1>5, <1>6, <2>1 DEF Types, BundleStates, RowStates, Closed
<1> QED BY <1>0, <1>1, <1>2, <1>4, <1>5, <1>6, <1>7, AdoptedNow, AdoptedStep, DiskKept
        DEF Cleaning, Undoes, Blank

LEMMA BeginUndoStep ==
    ASSUME ImportInv, NEW p \in Workers, BeginUndo(p)
    PROVE  ImportInv'
<1> USE DEF ImportInv
<1>0. /\ w[p] \in Memories /\ w[p].pc = "undoWait"
      /\ UNCHANGED <<bundle, row, disk, adopted>> /\ lease = "none" /\ lease' = p
  BY Memory DEF BeginUndo, At
<1> DEFINE m == [w[p] EXCEPT !.pc = "undo", !.failed = {}, !.todo = w[p].todo \cup w[p].prepared]
<1>1. m \in Memories /\ w' = [w EXCEPT ![p] = m]
  BY <1>0 DEF BeginUndo, Memories, Pcs
<1>2. m.pc = "undo" /\ m.copy = w[p].copy /\ m.fresh = w[p].fresh
  BY <1>0 DEF Memories
<1> HIDE DEF m
<1>3. /\ w' \in [Workers -> Memories]
      /\ \/ p = "publisher" /\ P = w[p] /\ P' = m /\ R' = R
         \/ p = "recovery" /\ R = w[p] /\ R' = m /\ P' = P
  BY <1>1, OneMoves
<1>4. LeaseInv' /\ Types'
  BY <1>0, <1>1, <1>3, LeaseGoes DEF Types
<1>5. DiskInv'
  BY <1>0, DiskKept
<1>6. AdoptionInv'
  BY <1>0, <1>2, <1>3 DEF AdoptionInv, Cleaning, Undoes
<1>7. CopyInv'
  BY <1>0, <1>2, <1>3 DEF CopyInv, TrueCopy, Preparing, Entered
<1>8. PublishInv'
  <2>1. CASE p = "publisher"
    BY <1>2, <1>3, <2>1, PublishOver DEF Preparing, Entered
  <2>2. CASE p = "recovery"
    BY <1>0, <1>3, <2>2, PublishKept
  <2> QED BY <1>3, <2>1, <2>2
<1> QED BY <1>4, <1>5, <1>6, <1>7, <1>8

\* While p has the leases for its rollback the other is in no critical section.
LEMMA UndoesAlone ==
    ASSUME ImportInv, NEW p \in Workers, w[p].pc \in {"undo", "restore"}
    PROVE  lease = p /\ P.pc \notin {"publish", "commit"} /\ (p = "recovery" => P.pc \notin Critical)
BY DEF ImportInv, LeaseInv, Critical, Workers, P, R

\* The publisher prepares, and p undoes: of the calls nothing is promised yet.
LEMMA PublishElsewhere ==
    ASSUME PublishInv, P.pc \notin {"publish", "commit"}, P' = P
    PROVE  PublishInv'
BY DEF PublishInv

\* p goes on with its rollback and writes no row.
LEMMA RowKept ==
    ASSUME ImportInv, ~adopted, NEW p \in Workers, w[p].pc \in {"undo", "restore"},
           UNCHANGED <<bundle, row, adopted, lease>>,
           disk' \in [Files -> [Places -> Bytes]], DiskInv',
           NEW m \in Memories, w' = [w EXCEPT ![p] = m], m.pc \in {"undo", "restore"},
           m.copy = w[p].copy, m.fresh = w[p].fresh,
           m.pc = "restore" => \A f \in Files : LastOf(m.todo, f) => m.copy[f] = "rollback_pending"
    PROVE  ImportInv'
<1> USE DEF ImportInv
<1>0. lease = p /\ P.pc \notin {"publish", "commit"}
  BY UndoesAlone
<1>1. /\ w' \in [Workers -> Memories]
      /\ \/ p = "publisher" /\ P = w[p] /\ P' = m /\ R' = R
         \/ p = "recovery" /\ R = w[p] /\ R' = m /\ P' = P
  BY OneMoves
<1>2. LeaseInv' /\ Types'
  BY <1>0, <1>1, LeaseGoes DEF Types
<1>3. AdoptionInv'
  BY <1>1 DEF AdoptionInv, Cleaning
<1>4. CopyInv'
  BY <1>1 DEF CopyInv, TrueCopy, Preparing, Entered
<1>5. PublishInv'
  <2>1. CASE p = "publisher"
    BY <1>1, <2>1, PublishOver DEF Preparing, Entered
  <2>2. CASE p = "recovery"
    BY <1>0, <1>1, <2>2, PublishElsewhere
  <2> QED BY <1>1, <2>1, <2>2
<1> QED BY <1>2, <1>3, <1>4, <1>5

LEMMA WrittenBy ==
    ASSUME Types, NEW p \in Workers, NEW f \in Files, NEW state \in RowStates, NEW m \in Memories,
           w' = [Written(p, f, state) EXCEPT ![p] = m]
    PROVE  /\ w' \in [Workers -> Memories] /\ w'[p] = m
           /\ \A q \in Workers \ {p} : w'[q] = [w[q] EXCEPT !.fresh = w[q].fresh \ {f}]
<1>1. Written(p, f, state) \in [Workers -> Memories]
  BY Writing
<1>2. \A q \in Workers \ {p} : Written(p, f, state)[q] = [w[q] EXCEPT !.fresh = w[q].fresh \ {f}]
  BY WritingOther
<1> QED BY <1>1, <1>2

\* p writes the row of the file it is at.
LEMMA RowWritten ==
    ASSUME ImportInv, ~adopted, NEW p \in Workers, w[p].pc \in {"undo", "restore"},
           UNCHANGED <<bundle, adopted, lease, disk>>,
           NEW f \in Files, NEW state \in {"rollback_pending", "needs_attention", "rolled_back"},
           f \in w[p].fresh, w[p].copy[f] # "none", Writes(p, f, state),
           w' \in [Workers -> Memories],
           \A q \in Workers \ {p} : w'[q] = [w[q] EXCEPT !.fresh = w[q].fresh \ {f}],
           w'[p].copy = [w[p].copy EXCEPT ![f] = state], w'[p].fresh = w[p].fresh \cup {f},
           \/ w'[p].pc = "undo"
           \/ w'[p].pc = "restore" /\ state = "rollback_pending" /\ LastOf(w'[p].todo, f)
    PROVE  ImportInv'
<1> USE DEF ImportInv
<1>0. /\ lease = p /\ P.pc \notin {"publish", "commit"} /\ row \in [Files -> RowStates]
      /\ P \in Memories /\ R \in Memories /\ state \in RowStates
      /\ row[f] # "none" /\ row' = [row EXCEPT ![f] = state]
  BY UndoesAlone, Memory DEF Writes, Types, RowStates, Undoable, Closed, CopyInv, TrueCopy, Workers,
     P, R
<1>1. PICK m \in Memories :
         /\ m = w'[p] /\ m.copy = [w[p].copy EXCEPT ![f] = state] /\ m.fresh = w[p].fresh \cup {f}
         /\ \/ m.pc = "undo"
            \/ m.pc = "restore" /\ state = "rollback_pending" /\ LastOf(m.todo, f)
  OBVIOUS
<1>2. \/ p = "publisher" /\ P = w[p] /\ P' = m /\ R' = [R EXCEPT !.fresh = R.fresh \ {f}]
      \/ p = "recovery" /\ R = w[p] /\ R' = m /\ P' = [P EXCEPT !.fresh = P.fresh \ {f}]
  BY <1>1 DEF Workers, P, R
<1>3. CASE p = "publisher"
  <2>1. /\ P = w[p] /\ P' = m /\ R'.pc = R.pc /\ R'.todo = R.todo /\ R'.copy = R.copy
        /\ R'.seen = R.seen /\ R'.fresh = R.fresh \ {f}
    BY <1>0, <1>2, <1>3 DEF Memories
  <2>2. Types' /\ LeaseInv'
    BY <1>1, <1>0, <1>3, <2>1 DEF Types, LeaseInv
  <2>3. AdoptionInv'
    BY <1>1, <2>1 DEF AdoptionInv, Cleaning
  <2>4. TrueCopy(P)' /\ TrueCopy(R)'
    BY <1>1, <1>0, <2>1, OneLast DEF CopyInv, TrueCopy, Memories, Blank
  <2>5. CopyInv'
    BY <1>1, <2>1, <2>4 DEF CopyInv, Preparing, Entered
  <2> QED BY <1>1, <2>1, <2>2, <2>3, <2>5, DiskKept, PublishOver DEF Preparing, Entered
<1>4. CASE p = "recovery"
  <2>1. /\ R = w[p] /\ R' = m /\ P'.pc = P.pc /\ P'.todo = P.todo /\ P'.copy = P.copy
        /\ P'.prepared = P.prepared /\ P'.fresh = P.fresh \ {f}
    BY <1>0, <1>2, <1>4 DEF Memories
  <2>2. Types' /\ LeaseInv'
    BY <1>1, <1>0, <1>4, <2>1 DEF Types, LeaseInv
  <2>3. AdoptionInv'
    BY <1>1, <2>1 DEF AdoptionInv, Cleaning
  <2>4. TrueCopy(P)' /\ TrueCopy(R)'
    BY <1>1, <1>0, <2>1, OneLast DEF CopyInv, TrueCopy, Memories, Blank
  <2>5. CopyInv'
    BY <1>1, <1>0, <2>1, <2>4 DEF CopyInv
  <2>6. PublishInv'
    BY <1>1, <1>0, <2>1 DEF PublishInv
  <2> QED BY <2>2, <2>3, <2>5, <2>6, DiskKept
<1> QED BY <1>3, <1>4 DEF Workers

LEMMA UndoStep ==
    ASSUME ImportInv, NEW p \in Workers, NEW f \in Files, Undo(p, f)
    PROVE  ImportInv'
<1> USE DEF ImportInv
<1>0. /\ w[p] \in Memories /\ w[p].pc = "undo" /\ LastOf(w[p].todo, f)
      /\ UNCHANGED <<bundle, disk, adopted, lease>>
      /\ disk \in [Files -> [Places -> Bytes]]
  BY Memory DEF Undo, At, Last, LastOf, Types
<1> DEFINE was == IF WasPublished(p, f) THEN w[p].was \cup {f} ELSE w[p].was
\* The row is left as it is.
<1>1. CASE /\ UNCHANGED row
           /\ \/ w' = [w EXCEPT ![p].todo = @ \ {f}]
              \/ Fails(p, f)
              \/ /\ w[p].copy[f] = "rollback_pending"
                 /\ w' = [w EXCEPT ![p] = [w[p] EXCEPT !.pc = "restore", !.was = was]]
  <2>1. PICK m \in Memories :
           /\ w' = [w EXCEPT ![p] = m] /\ m.copy = w[p].copy /\ m.fresh = w[p].fresh
           /\ \/ m.pc = "undo"
              \/ m.pc = "restore" /\ m.todo = w[p].todo /\ w[p].copy[f] = "rollback_pending"
    <3>1. CASE w' = [w EXCEPT ![p].todo = @ \ {f}]
      <4> DEFINE m == [w[p] EXCEPT !.todo = w[p].todo \ {f}]
      <4>1. m \in Memories /\ m.pc = "undo" /\ m.copy = w[p].copy /\ m.fresh = w[p].fresh
        BY <1>0 DEF Memories
      <4>2. w' = [w EXCEPT ![p] = m]
        BY <3>1
      <4> HIDE DEF m
      <4> QED BY <4>1, <4>2
    <3>2. CASE Fails(p, f)
      <4> DEFINE m == [w[p] EXCEPT !.todo = w[p].todo \ {f}, !.failed = w[p].failed \cup {f}]
      <4>1. m \in Memories /\ m.pc = "undo" /\ m.copy = w[p].copy /\ m.fresh = w[p].fresh
        BY <1>0 DEF Memories
      <4>2. w' = [w EXCEPT ![p] = m]
        BY <3>2 DEF Fails
      <4> HIDE DEF m
      <4> QED BY <4>1, <4>2
    <3>3. CASE /\ w[p].copy[f] = "rollback_pending"
               /\ w' = [w EXCEPT ![p] = [w[p] EXCEPT !.pc = "restore", !.was = was]]
      <4> DEFINE m == [w[p] EXCEPT !.pc = "restore", !.was = was]
      <4>1. /\ m \in Memories /\ m.pc = "restore" /\ m.todo = w[p].todo
            /\ m.copy = w[p].copy /\ m.fresh = w[p].fresh
        BY <1>0 DEF Memories, Pcs
      <4>2. w' = [w EXCEPT ![p] = m]
        BY <3>3
      <4> HIDE DEF m
      <4> QED BY <3>3, <4>1, <4>2
    <3> QED BY <1>1, <3>1, <3>2, <3>3
  <2>2. CASE ~adopted
    <3>1. m.pc = "restore" => \A g \in Files : LastOf(m.todo, g) => m.copy[g] = "rollback_pending"
      BY <1>0, <2>1, OneLast DEF Memories
    <3> QED BY <1>0, <1>1, <2>1, <2>2, <3>1, RowKept, DiskKept
  <2>3. CASE adopted
    <3>1. p = "recovery" /\ R = w[p] /\ m.pc = "undo"
      BY <1>0, <2>1, <2>3 DEF AdoptionInv, Cleaning, Undoes, Undoable, Workers, P, R
    <3>2. w' \in [Workers -> Memories] /\ R' = m /\ P' = P
      BY <2>1, <3>1, OneMoves
    <3>3. Types' /\ LeaseInv'
      BY <1>0, <1>1, <3>1, <3>2 DEF Types, LeaseInv, Critical
    <3> QED BY <1>0, <1>1, <2>1, <2>3, <3>1, <3>2, <3>3, AdoptedNow, AdoptedStep, DiskKept
            DEF Undoes, Blank
  <2> QED BY <2>2, <2>3
\* The row is written.
<1>2. CASE /\ w[p].copy[f] \in Undoable \ {"rollback_pending"} /\ f \in w[p].fresh
           /\ row' = [row EXCEPT ![f] = "rollback_pending"]
           /\ w' = [Written(p, f, "rollback_pending") EXCEPT ![p] =
                       [Written(p, f, "rollback_pending")[p] EXCEPT
                           !.pc = "restore",
                           !.was = IF WasPublished(p, f)
                                   THEN Written(p, f, "rollback_pending")[p].was \cup {f}
                                   ELSE Written(p, f, "rollback_pending")[p].was]]
  <2> DEFINE mine == Written(p, f, "rollback_pending")[p]
             m == [mine EXCEPT !.pc = "restore",
                               !.was = IF WasPublished(p, f) THEN mine.was \cup {f} ELSE mine.was]
  <2>1. ~adopted
    BY <1>0, <1>2 DEF AdoptionInv, Cleaning, Undoes, Workers, P, R
  <2>2. "rollback_pending" \in RowStates
    BY DEF RowStates, Undoable
  <2>3. /\ mine \in Memories /\ mine.todo = w[p].todo
        /\ mine.fresh = w[p].fresh \cup {f} /\ mine.copy = [w[p].copy EXCEPT ![f] = "rollback_pending"]
    BY <2>2, Wrote
  <2>4. w' = [Written(p, f, "rollback_pending") EXCEPT ![p] = m]
    BY <1>2
  <2> HIDE DEF mine
  <2>5. /\ m \in Memories /\ m.todo = w[p].todo /\ m.pc = "restore"
        /\ m.fresh = w[p].fresh \cup {f} /\ m.copy = [w[p].copy EXCEPT ![f] = "rollback_pending"]
    BY <2>3 DEF Memories, Pcs
  <2>6. w[p].copy[f] # "none"
    BY <1>2 DEF Undoable, Ready
  <2>7. /\ "rollback_pending" \in {"rollback_pending", "needs_attention", "rolled_back"}
        /\ w[p].pc \in {"undo", "restore"}
    BY <1>0
  <2> HIDE DEF m
  <2>8. /\ w' \in [Workers -> Memories] /\ w'[p] = m
        /\ \A q \in Workers \ {p} : w'[q] = [w[q] EXCEPT !.fresh = w[q].fresh \ {f}]
    BY <2>2, <2>4, <2>5, WrittenBy
  <2>9. /\ LastOf(w'[p].todo, f) /\ w'[p].pc = "restore" /\ w'[p].fresh = w[p].fresh \cup {f}
        /\ w'[p].copy = [w[p].copy EXCEPT ![f] = "rollback_pending"]
    BY <1>0, <2>5, <2>8
  <2>10. UNCHANGED <<bundle, adopted, lease, disk>> /\ Writes(p, f, "rollback_pending")
    BY <1>0, <1>2 DEF Writes
  <2> QED BY <1>2, <2>1, <2>6, <2>7, <2>8, <2>9, <2>10, RowWritten
<1>3. \/ /\ UNCHANGED row
         /\ \/ w' = [w EXCEPT ![p].todo = @ \ {f}]
            \/ Fails(p, f)
            \/ /\ w[p].copy[f] = "rollback_pending"
               /\ w' = [w EXCEPT ![p] = [w[p] EXCEPT !.pc = "restore", !.was = was]]
      \/ /\ w[p].copy[f] \in Undoable \ {"rollback_pending"} /\ f \in w[p].fresh
         /\ row' = [row EXCEPT ![f] = "rollback_pending"]
         /\ w' = [Written(p, f, "rollback_pending") EXCEPT ![p] =
                     [Written(p, f, "rollback_pending")[p] EXCEPT
                         !.pc = "restore",
                         !.was = IF WasPublished(p, f)
                                 THEN Written(p, f, "rollback_pending")[p].was \cup {f}
                                 ELSE Written(p, f, "rollback_pending")[p].was]]
  BY DEF Undo, CanWrite, Writes
<1> QED BY <1>1, <1>2, <1>3

\* The rollback of a file is over.
LEMMA RestoringNow ==
    ASSUME ImportInv, NEW p \in Workers, w[p].pc = "restore", NEW f \in Files, LastOf(w[p].todo, f)
    PROVE  /\ w[p] \in Memories /\ ~adopted /\ w[p].copy[f] = "rollback_pending" /\ lease = p
           /\ disk \in [Files -> [Places -> Bytes]] /\ Types
BY Memory DEF ImportInv, AdoptionInv, Cleaning, CopyInv, TrueCopy, Types, Workers, P, R,
              LeaseInv, Critical

\* What p remembers when it is done with a file whose row it wrote.
Ends(p, f, state, lost) ==
    w' = [Written(p, f, state) EXCEPT ![p] =
             [Written(p, f, state)[p] EXCEPT
                 !.pc = "undo", !.todo = Written(p, f, state)[p].todo \ {f},
                 !.failed = Written(p, f, state)[p].failed \cup lost]]

LEMMA RowClosedStep ==
    ASSUME ImportInv, NEW p \in Workers, w[p].pc = "restore", NEW f \in Files,
           LastOf(w[p].todo, f), UNCHANGED <<bundle, adopted, lease, disk>>,
           NEW state \in {"needs_attention", "rolled_back"}, NEW lost \in SUBSET Files,
           f \in w[p].fresh, Writes(p, f, state),
           Ends(p, f, state, lost)
    PROVE  ImportInv'
<1> DEFINE mine == Written(p, f, state)[p]
           m == [mine EXCEPT !.pc = "undo", !.todo = mine.todo \ {f}, !.failed = mine.failed \cup lost]
<1>0. w[p] \in Memories /\ ~adopted /\ w[p].copy[f] = "rollback_pending" /\ Types
  BY RestoringNow
<1>1. state \in RowStates
  BY DEF RowStates, Closed
<1>2. /\ mine \in Memories
      /\ mine.fresh = w[p].fresh \cup {f} /\ mine.copy = [w[p].copy EXCEPT ![f] = state]
  BY <1>0, <1>1, Wrote
<1>3. w' = [Written(p, f, state) EXCEPT ![p] = m]
  BY DEF Ends
<1> HIDE DEF mine
<1>4. /\ m \in Memories /\ m.pc = "undo"
      /\ m.fresh = w[p].fresh \cup {f} /\ m.copy = [w[p].copy EXCEPT ![f] = state]
  <2>1. mine.todo \ {f} \in SUBSET Files /\ mine.failed \cup lost \in SUBSET Files
    BY <1>2 DEF Memories
  <2> QED BY <1>2, <2>1 DEF Memories, Pcs
<1> HIDE DEF m
<1>5. /\ w' \in [Workers -> Memories] /\ w'[p] = m
      /\ \A q \in Workers \ {p} : w'[q] = [w[q] EXCEPT !.fresh = w[q].fresh \ {f}]
  BY <1>0, <1>1, <1>3, <1>4, WrittenBy
<1>6. /\ w'[p].pc = "undo" /\ w'[p].fresh = w[p].fresh \cup {f}
      /\ w'[p].copy = [w[p].copy EXCEPT ![f] = state]
  BY <1>4, <1>5
<1>7. /\ state \in {"rollback_pending", "needs_attention", "rolled_back"}
      /\ w[p].pc \in {"undo", "restore"} /\ w[p].copy[f] # "none"
  BY <1>0
<1> QED BY <1>0, <1>5, <1>6, <1>7, RowWritten

LEMMA RowLeftStep ==
    ASSUME ImportInv, NEW p \in Workers, w[p].pc = "restore", NEW f \in Files,
           LastOf(w[p].todo, f), UNCHANGED <<bundle, row, adopted, lease, disk>>,
           NEW lost \in SUBSET Files,
           w' = [w EXCEPT ![p] = [w[p] EXCEPT !.pc = "undo", !.todo = w[p].todo \ {f},
                                              !.failed = w[p].failed \cup lost]]
    PROVE  ImportInv'
<1> DEFINE m == [w[p] EXCEPT !.pc = "undo", !.todo = w[p].todo \ {f}, !.failed = w[p].failed \cup lost]
<1>1. w[p] \in Memories /\ ~adopted /\ disk \in [Files -> [Places -> Bytes]]
  BY RestoringNow
<1>2. m \in Memories /\ m.pc = "undo" /\ m.fresh = w[p].fresh /\ m.copy = w[p].copy
  BY <1>1 DEF Memories, Pcs
<1>3. w' = [w EXCEPT ![p] = m]
  OBVIOUS
<1>4. DiskInv'
  BY DiskKept DEF ImportInv
<1> HIDE DEF m
<1> QED BY <1>1, <1>2, <1>3, <1>4, RowKept

LEMMA GivesUpStep ==
    ASSUME ImportInv, NEW p \in Workers, w[p].pc = "restore", NEW f \in Files,
           LastOf(w[p].todo, f), UNCHANGED <<bundle, adopted, lease, disk>>, GivesUp(p, f)
    PROVE  ImportInv'
<1>1. CASE CanWrite(p, f)
  <2>1. f \in w[p].fresh /\ Writes(p, f, "needs_attention") /\ Ends(p, f, "needs_attention", {f})
    BY <1>1 DEF GivesUp, CanWrite, Ends
  <2>2. "needs_attention" \in {"needs_attention", "rolled_back"} /\ {f} \in SUBSET Files
    OBVIOUS
  <2> QED BY <2>1, <2>2, RowClosedStep
<1>2. CASE ~CanWrite(p, f)
  <2>1. /\ w' = [w EXCEPT ![p] = [w[p] EXCEPT !.pc = "undo", !.todo = w[p].todo \ {f},
                                              !.failed = w[p].failed \cup {f}]]
        /\ row' = row
    BY <1>2 DEF GivesUp
  <2>2. {f} \in SUBSET Files
    OBVIOUS
  <2>3. UNCHANGED <<bundle, row, adopted, lease, disk>>
    BY <2>1
  <2> QED BY <2>1, <2>2, <2>3, RowLeftStep
<1> QED BY <1>1, <1>2

\* Nothing that was there before is taken away, and what was put in its place is.
LEMMA UnlinkHolds ==
    ASSUME disk \in [Files -> [Places -> Bytes]], DiskInv, ~adopted, adopted' = adopted,
           NEW f \in Files,
           \/ Holds(f, "destination", "staged") /\ Unlinks(f, "destination")
           \/ \E place \in {"sidecarPlace", "sidecarTemp", "temp"} : Unlinks(f, place)
           \/ ~Empty(f, "backup") /\ Moves(f, "backup", "destination")
    PROVE  disk' \in [Files -> [Places -> Bytes]] /\ DiskInv'
<1>1. disk' \in [Files -> [Places -> Bytes]]
  BY DEF Unlinks, Moves, Places, Bytes
<1>2. \A g \in Files : g # f => (Held(g)' <=> Held(g)) /\ (Kept(g)' <=> Kept(g))
                                /\ (Empty(g, "source")' <=> Empty(g, "source"))
                                /\ disk'[g].backup = disk[g].backup
  BY DEF Unlinks, Moves, Held, Kept, Empty, Holds, Places
<1>3. Held(f) /\ disk[f].backup \in {"missing", "replaced"}
  BY DEF DiskInv
<1>4. Held(f)' /\ Kept(f)' /\ disk'[f].backup \in {"missing", "replaced"}
  <2>1. CASE Holds(f, "destination", "staged") /\ Unlinks(f, "destination")
    BY <1>3, <2>1 DEF Unlinks, Held, Kept, Empty, Holds, Places
  <2>2. ASSUME NEW place \in {"sidecarPlace", "sidecarTemp", "temp"}, Unlinks(f, place)
        PROVE  Held(f)' /\ Kept(f)' /\ disk'[f].backup \in {"missing", "replaced"}
    BY <1>3, <2>2 DEF Unlinks, Held, Kept, Empty, Holds, Places
  <2>3. CASE ~Empty(f, "backup") /\ Moves(f, "backup", "destination")
    BY <1>3, <2>3 DEF Moves, Held, Kept, Empty, Holds, Places
  <2> QED BY <2>1, <2>2, <2>3
<1> QED BY <1>1, <1>2, <1>3, <1>4 DEF DiskInv

LEMMA RestoreStep ==
    ASSUME ImportInv, NEW p \in Workers, NEW f \in Files, Restore(p, f)
    PROVE  ImportInv'
<1>0. /\ w[p] \in Memories /\ w[p].pc = "restore" /\ LastOf(w[p].todo, f) /\ ~adopted
      /\ disk \in [Files -> [Places -> Bytes]] /\ w[p].copy[f] = "rollback_pending" /\ Types
      /\ UNCHANGED <<bundle, adopted, lease>> /\ DiskInv
  BY RestoringNow DEF Restore, At, Last, LastOf, ImportInv
\* A file goes.
<1>1. CASE /\ UNCHANGED row
           /\ \/ Holds(f, "destination", "staged") /\ Unlinks(f, "destination")
              \/ \E place \in {"sidecarPlace", "sidecarTemp", "temp"} : Unlinks(f, place)
              \/ ~Empty(f, "backup") /\ Moves(f, "backup", "destination")
           /\ UNCHANGED w \/ w' = [w EXCEPT ![p].was = @ \ {f}]
  <2>1. PICK was \in SUBSET Files : w' = [w EXCEPT ![p] = [w[p] EXCEPT !.was = was]]
    <3>1. CASE UNCHANGED w
      BY <1>0, <3>1 DEF Types, Memories
    <3>2. CASE w' = [w EXCEPT ![p].was = @ \ {f}]
      BY <1>0, <3>2 DEF Memories
    <3> QED BY <1>1, <3>1, <3>2
  <2> DEFINE m == [w[p] EXCEPT !.was = was]
  <2>2. /\ m \in Memories /\ m.pc = "restore" /\ m.copy = w[p].copy /\ m.fresh = w[p].fresh
        /\ m.todo = w[p].todo
    BY <1>0 DEF Memories
  <2> HIDE DEF m
  <2>3. \A g \in Files : LastOf(m.todo, g) => m.copy[g] = "rollback_pending"
    BY <1>0, <2>2, OneLast DEF Memories, ImportInv
  <2>4. w' = [w EXCEPT ![p] = m]
    BY <2>1 DEF m
  <2>5. disk' \in [Files -> [Places -> Bytes]] /\ DiskInv'
    BY <1>0, <1>1, UnlinkHolds
  <2>6. UNCHANGED <<bundle, row, adopted, lease>> /\ w[p].pc \in {"undo", "restore"}
        /\ m.pc \in {"undo", "restore"}
    BY <1>0, <1>1, <2>2
  <2> QED BY <1>0, <2>2, <2>3, <2>4, <2>5, <2>6, RowKept
\* It cannot go.
<1>2. CASE GivesUp(p, f) /\ UNCHANGED disk
  BY <1>0, <1>2, GivesUpStep
\* Everything is gone.
<1>3. CASE /\ f \in w[p].fresh /\ Writes(p, f, "rolled_back") /\ UNCHANGED disk
           /\ w' = [Written(p, f, "rolled_back") EXCEPT ![p] =
                       [Written(p, f, "rolled_back")[p] EXCEPT
                           !.pc = "undo", !.todo = Written(p, f, "rolled_back")[p].todo \ {f}]]
  <2> DEFINE mine == Written(p, f, "rolled_back")[p]
  <2>1. "rolled_back" \in RowStates
    BY DEF RowStates, Closed
  <2>2. mine \in Memories
    BY <1>0, <2>1, Wrote
  <2>3. w' = [Written(p, f, "rolled_back") EXCEPT ![p] = [mine EXCEPT !.pc = "undo", !.todo = mine.todo \ {f}]]
    BY <1>3
  <2> HIDE DEF mine
  <2>4. [mine EXCEPT !.pc = "undo", !.todo = mine.todo \ {f}] =
        [mine EXCEPT !.pc = "undo", !.todo = mine.todo \ {f}, !.failed = mine.failed \cup {}]
    BY <2>2 DEF Memories
  <2>5. w' = [Written(p, f, "rolled_back") EXCEPT ![p] =
                 [mine EXCEPT !.pc = "undo", !.todo = mine.todo \ {f}, !.failed = mine.failed \cup {}]]
    BY <2>3, <2>4
  <2>6. Ends(p, f, "rolled_back", {})
    BY <2>5 DEF Ends, mine
  <2>7. "rolled_back" \in {"needs_attention", "rolled_back"} /\ {} \in SUBSET Files
    OBVIOUS
  <2>8. f \in w[p].fresh /\ Writes(p, f, "rolled_back") /\ UNCHANGED <<bundle, adopted, lease, disk>>
    BY <1>0, <1>3
  <2> QED BY <1>0, <2>6, <2>7, <2>8, RowClosedStep
<1>4. \/ /\ UNCHANGED row
         /\ \/ Holds(f, "destination", "staged") /\ Unlinks(f, "destination")
            \/ \E place \in {"sidecarPlace", "sidecarTemp", "temp"} : Unlinks(f, place)
            \/ ~Empty(f, "backup") /\ Moves(f, "backup", "destination")
         /\ UNCHANGED w \/ w' = [w EXCEPT ![p].was = @ \ {f}]
      \/ GivesUp(p, f) /\ UNCHANGED disk
      \/ /\ f \in w[p].fresh /\ Writes(p, f, "rolled_back") /\ UNCHANGED disk
         /\ w' = [Written(p, f, "rolled_back") EXCEPT ![p] =
                     [Written(p, f, "rolled_back")[p] EXCEPT
                         !.pc = "undo", !.todo = Written(p, f, "rolled_back")[p].todo \ {f}]]
  BY DEF Restore, Withdraw, CanWrite
<1> QED BY <1>1, <1>2, <1>3, <1>4

LEMMA CloseUndoStep ==
    ASSUME ImportInv, NEW p \in Workers, CloseUndo(p)
    PROVE  ImportInv'
<1> USE DEF ImportInv
<1>0. /\ w[p] \in Memories /\ w[p].pc \in {"undo", "close"} /\ UNCHANGED <<row, disk, adopted>>
      /\ Leaves(p)
  BY Memory DEF CloseUndo, At
<1>1. bundle' \in {"rolled_back", "needs_attention", bundle} /\ (adopted => bundle' = bundle)
  BY DEF CloseUndo, AdoptionInv, Committed
<1>2. PICK pc \in {"idle", "attention"} : Goes(p, pc) /\ (pc = "attention" => p = "recovery")
  BY DEF CloseUndo
<1>3. pc \in Pcs
  BY DEF Pcs
<1>4. PICK m \in Memories :
         /\ w' = [w EXCEPT ![p] = m] /\ m.pc = pc /\ (pc = "idle" => Blank(m))
         /\ pc # "idle" => m.copy = w[p].copy /\ m.fresh = w[p].fresh /\ m.seen = w[p].seen
  BY <1>2, <1>3, WorkerGoes
<1>5. /\ w' \in [Workers -> Memories]
      /\ \/ p = "publisher" /\ P = w[p] /\ P' = m /\ R' = R
         \/ p = "recovery" /\ R = w[p] /\ R' = m /\ P' = P
  BY <1>4, OneMoves
<1>6. Types' /\ LeaseInv'
  <2>1. LeaseInv' /\ lease' \in {"none"} \cup Workers
    BY <1>0, <1>4, LeaseGoes DEF Critical
  <2> QED BY <1>0, <1>1, <1>5, <2>1 DEF Types, BundleStates
<1>7. DiskInv'
  BY <1>0, DiskKept
<1>8. AdoptionInv'
  BY <1>0, <1>1, <1>2, <1>4, <1>5 DEF AdoptionInv, Cleaning, Committed
<1>9. CopyInv'
  <2>1. m.fresh = {} \/ (m.copy = w[p].copy /\ m.fresh = w[p].fresh)
    BY <1>2, <1>4 DEF Blank
  <2>2. ~adopted => \A f \in m.fresh : m.copy[f] = row[f]
    BY <1>5, <2>1 DEF CopyInv, TrueCopy
  <2>3. TrueCopy(P)' /\ TrueCopy(R)'
    BY <1>0, <1>2, <1>4, <1>5, <2>2 DEF CopyInv, TrueCopy, Blank
  <2> QED BY <1>0, <1>2, <1>4, <1>5, <2>3 DEF CopyInv, Preparing, Entered
<1>10. PublishInv'
  <2>1. CASE p = "publisher"
    BY <1>2, <1>4, <1>5, <2>1, PublishOver DEF Preparing, Entered
  <2>2. CASE p = "recovery"
    BY <1>0, <1>5, <2>2, PublishKept
  <2> QED BY <1>5, <2>1, <2>2
<1> QED BY <1>6, <1>7, <1>8, <1>9, <1>10

-----------------------------------------------------------------------------
(* Recovery *)

\* Recovery moves on, and whatever it is at is no file work and no rollback.
LEMMA RecoveryMoves ==
    ASSUME ImportInv, NEW m \in Memories, w' = [w EXCEPT !["recovery"] = m],
           UNCHANGED <<row, disk, adopted, lease>>, m.pc \notin Critical,
           bundle' \in BundleStates, bundle' \in Committed => bundle \in Committed,
           adopted => bundle' = bundle,
           \A f \in m.fresh : m.copy[f] = row[f],
           m.pc \in {"idle", "mark", "list", "listed", "journals"} => Blank(m),
           m.pc = "cleanWait" => adopted,
           ~adopted /\ m.pc = "listed" => m.seen \in Unfinished,
           m.pc = "undoWait" => \A f \in Files : m.copy[f] \in {"none", row[f]}
    PROVE  ImportInv'
<1> USE DEF ImportInv
<1>1. w' \in [Workers -> Memories] /\ R' = m /\ P' = P
  BY RecoveryAlone
<1>2. Types' /\ LeaseInv'
  BY <1>1 DEF Types, LeaseInv
<1>3. DiskInv'
  BY DiskKept
<1>4. AdoptionInv'
  BY <1>1 DEF AdoptionInv, Undoes, Undoable, Ready, Committed, Critical, Cleaning
<1>5. CopyInv'
  BY <1>1 DEF CopyInv, TrueCopy, Critical
<1>6. PublishInv'
  BY <1>1, PublishKept
<1> QED BY <1>2, <1>3, <1>4, <1>5, <1>6

\* What recovery has before it has read the rows.
LEMMA NothingRead ==
    ASSUME ImportInv, R.pc \in {"idle", "listed", "journals"}
    PROVE  R \in Memories /\ Blank(R)
BY Memory DEF ImportInv, CopyInv, TrueCopy

LEMMA ListBundleStep ==
    ASSUME ImportInv, ListBundle
    PROVE  ImportInv'
<1> DEFINE m == [R EXCEPT !.pc = "listed", !.seen = bundle]
<1>1. R.pc = "idle" /\ R \in Memories /\ Blank(R) /\ bundle \in BundleStates
  BY NothingRead DEF ListBundle, RAt, At, R, ImportInv, Types
<1>2. m \in Memories /\ m.pc = "listed" /\ m.seen = bundle /\ Blank(m) /\ m.fresh = {}
  BY <1>1 DEF Memories, Pcs, Blank
<1>3. w' = [w EXCEPT !["recovery"] = m] /\ UNCHANGED <<bundle, row, disk, adopted, lease>>
  BY DEF ListBundle, R
<1>4. ~adopted => bundle \in Unfinished
  BY DEF ListBundle, ImportInv, AdoptionInv, Recoverable, Unfinished, Committed
<1> HIDE DEF m
<1> QED BY <1>1, <1>2, <1>3, <1>4, RecoveryMoves DEF Critical

\* Recovery goes on to what it has to do with what it read, or with nothing.
LEMMA RecoveryGoesOn ==
    ASSUME ImportInv, R.pc \in {"idle", "listed", "journals"}, NEW pc \in Pcs, RGoes(pc),
           UNCHANGED <<bundle, row, disk, adopted, lease>>, pc \notin Critical,
           pc # "listed", pc = "cleanWait" => adopted
    PROVE  ImportInv'
<1>1. Types /\ "recovery" \in Workers
  BY DEF ImportInv, Workers
<1>2. R \in Memories /\ Blank(R)
  BY NothingRead
<1>3. PICK m \in Memories :
         /\ w' = [w EXCEPT !["recovery"] = m] /\ m.pc = pc
         /\ pc = "idle" => Blank(m)
         /\ pc # "idle" => m.copy = R.copy /\ m.fresh = R.fresh
  BY <1>1, WorkerGoes DEF RGoes, R
<1>4. Blank(m)
  BY <1>2, <1>3 DEF Blank
<1>5. m.fresh = {} /\ \A f \in Files : m.copy[f] = "none"
  BY <1>4 DEF Blank
<1>6. bundle \in BundleStates
  BY <1>1 DEF Types
<1> QED BY <1>3, <1>4, <1>5, <1>6, RecoveryMoves

LEMMA RecoverBundleStep ==
    ASSUME ImportInv, RecoverBundle
    PROVE  ImportInv'
<1>1. R.pc = "listed" /\ UNCHANGED <<bundle, row, disk, adopted, lease>>
  BY DEF RecoverBundle, RAt, At, R
<1>2. PICK pc \in {"idle", "journals", "cleanWait"} :
         RGoes(pc) /\ (pc = "cleanWait" => R.seen \notin Unfinished)
  BY DEF RecoverBundle
<1>3. pc \in Pcs /\ pc \notin Critical /\ pc # "listed"
  BY DEF Pcs, Critical
<1>4. pc = "cleanWait" => adopted
  BY <1>1, <1>2 DEF ImportInv, AdoptionInv
<1> QED BY <1>1, <1>2, <1>3, <1>4, RecoveryGoesOn

LEMMA ReadJournalsStep ==
    ASSUME ImportInv, ReadJournals
    PROVE  ImportInv'
<1>1. /\ R.pc = "journals" /\ UNCHANGED <<bundle, row, disk, adopted, lease>>
      /\ R \in Memories /\ Blank(R) /\ row \in [Files -> RowStates] /\ bundle \in BundleStates
  BY NothingRead DEF ReadJournals, RAt, At, R, ImportInv, Types
<1>2. ASSUME NEW pc \in {"finish", "attention"}, RGoes(pc)
      PROVE  ImportInv'
  <2>1. pc \in Pcs /\ pc \notin Critical /\ pc # "listed" /\ pc # "cleanWait"
    BY DEF Pcs, Critical
  <2> QED BY <1>1, <1>2, <2>1, RecoveryGoesOn
<1> DEFINE pc == IF Journalled = {} THEN "close" ELSE "undoWait"
           m == [R EXCEPT !.copy = [f \in Files |-> IF f \in Journalled THEN row[f] ELSE R.copy[f]],
                          !.fresh = R.fresh \cup Journalled,
                          !.prepared = R.prepared \cup Journalled, !.pc = pc]
<1>3. CASE w' = [w EXCEPT !["recovery"] = m]
  <2>1. /\ m \in Memories /\ m.pc = pc /\ m.fresh = Journalled
        /\ m.copy = [f \in Files |-> IF f \in Journalled THEN row[f] ELSE R.copy[f]]
    BY <1>1 DEF Memories, Pcs, Journalled, Blank
  <2>2. \A f \in Files : m.copy[f] \in {"none", row[f]} /\ (f \in Journalled => m.copy[f] = row[f])
    BY <1>1, <2>1 DEF Blank
  <2> HIDE DEF m
  <2> QED BY <1>1, <1>3, <2>1, <2>2, RecoveryMoves DEF Critical, Journalled
<1>4. \/ \E to \in {"finish", "attention"} : RGoes(to)
      \/ w' = [w EXCEPT !["recovery"] = m]
  BY <1>1 DEF ReadJournals, Listed, R, Memories
<1> QED BY <1>2, <1>3, <1>4

LEMMA FinishPreparingStep ==
    ASSUME ImportInv, FinishPreparing
    PROVE  ImportInv'
<1>1. R.pc = "finish" /\ UNCHANGED <<row, disk, adopted, lease>> /\ Types /\ "recovery" \in Workers
  BY DEF FinishPreparing, RAt, At, R, ImportInv, Workers
<1>2. /\ bundle' \in {bundle, "rolled_back"} /\ (adopted => bundle' = bundle)
      /\ bundle' \in BundleStates
  BY <1>1 DEF FinishPreparing, ImportInv, AdoptionInv, Unfinished, Committed, Types, BundleStates
<1>3. PICK pc \in {"idle", "attention"} : RGoes(pc)
  BY DEF FinishPreparing
<1>4. pc \in Pcs
  BY DEF Pcs
<1>5. PICK m \in Memories :
         /\ w' = [w EXCEPT !["recovery"] = m] /\ m.pc = pc
         /\ pc = "idle" => Blank(m)
         /\ pc # "idle" => m.copy = R.copy /\ m.fresh = R.fresh
  BY <1>1, <1>3, <1>4, WorkerGoes DEF RGoes, R
<1>6. CASE ~adopted
  <2>1. \A f \in m.fresh : m.copy[f] = row[f]
    BY <1>5, <1>6 DEF Blank, ImportInv, CopyInv, TrueCopy
  <2> QED BY <1>1, <1>2, <1>5, <1>6, <2>1, RecoveryMoves DEF Critical, Committed
<1>7. CASE adopted
  <2>1. w' \in [Workers -> Memories] /\ R' = m /\ P' = P
    BY <1>1, <1>5, RecoveryAlone
  <2>2. Types' /\ LeaseInv'
    BY <1>1, <1>2, <1>5, <2>1 DEF Types, LeaseInv, Critical, ImportInv
  <2>3. DiskInv'
    BY <1>1, DiskKept DEF ImportInv
  <2> QED BY <1>1, <1>2, <1>5, <1>7, <2>1, <2>2, <2>3, AdoptedNow, AdoptedStep DEF Blank, ImportInv
<1> QED BY <1>6, <1>7

\* A person is asked about what is left open.
LEMMA SetAsideStep ==
    ASSUME ImportInv, SetAside
    PROVE  ImportInv'
<1> USE DEF ImportInv
<1> DEFINE open == {f \in Journalled : row[f] \notin Closed}
           m == [P EXCEPT !.fresh = P.fresh \ open]
<1>0. /\ R.pc = "attention" /\ P \in Memories /\ row \in [Files -> RowStates]
      /\ UNCHANGED <<disk, adopted, lease>>
      /\ bundle' = IF bundle \in Closed THEN bundle ELSE "needs_attention"
  BY Memory DEF SetAside, RAt, At, R, Types
<1>1. /\ \A f \in open : row'[f] = "needs_attention" /\ row[f] # "none"
      /\ \A f \in Files \ open : row'[f] = row[f]
      /\ row' \in [Files -> RowStates]
  BY <1>0 DEF SetAside, Journalled, RowStates, Closed
<1>2. w' = [w EXCEPT !["recovery"] = Nobody, !["publisher"].fresh = @ \ open]
  BY DEF SetAside
<1>3. P' = m /\ R' = Nobody /\ w' \in [Workers -> {P', R'}]
  BY <1>2 DEF P, R, Workers, Types
<1>4. /\ m \in Memories /\ m.pc = P.pc /\ m.copy = P.copy /\ m.todo = P.todo
      /\ m.prepared = P.prepared /\ m.fresh = P.fresh \ open
  BY <1>0 DEF Memories
<1> HIDE DEF m, open
<1>5. Types'
  BY <1>0, <1>1, <1>3, <1>4, NobodyIs DEF Types, BundleStates
<1>6. LeaseInv'
  BY <1>0, <1>3, <1>4, NobodyIs DEF LeaseInv, Critical
<1>7. DiskInv'
  BY <1>0, DiskKept
<1>8. AdoptionInv'
  <2>1. bundle' \in Committed => bundle \in Committed
    BY <1>0 DEF Committed
  <2>2. adopted => bundle' \in Committed \cup {"needs_attention"}
    BY <1>0 DEF AdoptionInv, Closed, Committed
  <2>3. adopted => \A f \in Files : row'[f] \in Committed \cup {"needs_attention"}
    BY <1>1 DEF AdoptionInv
  <2> QED BY <1>0, <1>3, <1>4, <2>1, <2>2, <2>3, NobodyIs DEF AdoptionInv, Cleaning
<1>9. CopyInv'
  <2>1. TrueCopy(P)'
    <3>1. ~adopted => \A f \in m.fresh : m.copy[f] = row'[f]
      BY <1>0, <1>1, <1>4 DEF CopyInv, TrueCopy, Memories
    <3> QED BY <1>0, <1>3, <1>4, <3>1 DEF CopyInv, TrueCopy, Blank
  <2>2. TrueCopy(R)'
    BY <1>3, NobodyIs DEF TrueCopy, Blank
  <2>3. P.pc \in Preparing \cup Entered => \A f \in Files : P.copy[f] = "none" => row'[f] = "none"
    BY <1>1 DEF CopyInv
  <2> QED BY <1>3, <1>4, <2>1, <2>2, <2>3, NobodyIs DEF CopyInv
<1>10. PublishInv'
  BY <1>0, <1>3, <1>4 DEF PublishInv, Shown, Replaceable, Holds, Empty
<1> QED BY <1>5, <1>6, <1>7, <1>8, <1>9, <1>10

-----------------------------------------------------------------------------
(* What goes wrong *)

LEMMA WorldStep ==
    ASSUME ImportInv, UNCHANGED <<bundle, row, disk, adopted, lease, w>>
    PROVE  ImportInv'
<1>1. P' = P /\ R' = R
  BY DEF P, R
<1> QED BY <1>1 DEF ImportInv, Types, LeaseInv, DiskInv, AdoptionInv, CopyInv, PublishInv, TrueCopy,
                Held, Kept, Shown, Replaceable, Holds, Empty

\* The publisher gives up what it was at.
LEMMA PublisherQuits ==
    ASSUME ImportInv, NEW pc \in {"idle", "unprepare"}, PGoes(pc),
           P.pc \in {"mark", "list", "cleanWait", "clean"} \cup Preparing,
           pc = "unprepare" => P.pc \in Preparing,
           UNCHANGED <<bundle, row, disk, adopted>>, lease' = lease \/ Leaves("publisher")
    PROVE  ImportInv'
<1> USE DEF ImportInv
<1>0. P \in Memories /\ lease' \in {"none"} \cup Workers
  BY Memory DEF Types, Leaves
<1>1. w' \in [Workers -> Memories] /\ R' = R /\ P' = IF pc = "idle" THEN Nobody ELSE [P EXCEPT !.pc = pc]
  BY PublisherGoes DEF Pcs
<1>2. P'.pc = pc /\ (pc = "idle" => Blank(P)') /\ (pc = "unprepare" => P'.fresh = P.fresh /\ P'.copy = P.copy)
  BY <1>0, <1>1, NobodyIs DEF Memories, Blank
<1>3. Types' /\ LeaseInv'
  BY <1>0, <1>1, <1>2 DEF Types, LeaseInv, Leaves, Critical
<1>4. DiskInv'
  BY DiskKept
<1>5. AdoptionInv'
  BY <1>1, <1>2 DEF AdoptionInv, Cleaning, Preparing
<1>6. TrueCopy(P)' /\ TrueCopy(R)'
  BY <1>1, <1>2 DEF CopyInv, TrueCopy, Blank, Preparing
<1>7. CopyInv'
  BY <1>2, <1>6 DEF CopyInv, Preparing, Entered
<1> QED BY <1>2, <1>3, <1>4, <1>5, <1>7, PublishOver DEF Preparing, Entered

LEMMA FaultStep ==
    ASSUME ImportInv, Fault
    PROVE  ImportInv'
<1>0. UNCHANGED <<bundle, disk, adopted>>
  BY DEF Fault
<1>1. CASE P.pc \in {"mark", "list"} /\ PGoes("idle") /\ UNCHANGED <<row, lease>>
  BY <1>0, <1>1, PublisherQuits
<1>2. CASE P.pc \in {"prepare", "stage", "staged"} /\ Unprepares /\ UNCHANGED <<row, lease>>
  <2>1. P.pc \in Preparing /\ PGoes("unprepare")
    BY <1>2 DEF Preparing, Unprepares
  <2> QED BY <1>0, <1>2, <2>1, PublisherQuits
<1>3. CASE P.pc \in {"enter", "boundary", "recheck", "publish", "commit"} /\ Raises /\ UNCHANGED row
  BY <1>0, <1>3, RaisesStep DEF Entered
<1>4. CASE P.pc \in {"cleanWait", "clean"} /\ Leaves("publisher") /\ PGoes("idle") /\ UNCHANGED row
  BY <1>0, <1>4, PublisherQuits
<1>5. ASSUME NEW p \in Workers, NEW f \in Files,
             At(p, "clean") /\ First(p, f) /\ Fails(p, f) /\ UNCHANGED <<row, lease>>
      PROVE  ImportInv'
  <2> USE DEF ImportInv
  <2> DEFINE m == [w[p] EXCEPT !.todo = w[p].todo \ {f}, !.failed = w[p].failed \cup {f}]
  <2>1. w[p] \in Memories /\ w[p].pc = "clean" /\ adopted /\ lease = p
    BY <1>5, Memory DEF At, AdoptionInv, Cleaning, Workers, P, R, LeaseInv, Critical
  <2>2. m \in Memories /\ m.pc = "clean"
    BY <2>1 DEF Memories
  <2>3. w' = [w EXCEPT ![p] = m]
    BY <1>5 DEF Fails
  <2> HIDE DEF m
  <2>4. /\ w' \in [Workers -> Memories]
        /\ \/ p = "publisher" /\ P = w[p] /\ P' = m /\ R' = R
           \/ p = "recovery" /\ R = w[p] /\ R' = m /\ P' = P
    BY <2>2, <2>3, OneMoves
  <2>5. Types'
    BY <1>0, <1>5, <2>4 DEF Types
  <2>6. LeaseInv'
    BY <1>5, <2>1, <2>2, <2>4 DEF LeaseInv
  <2> QED BY <1>0, <1>5, <2>1, <2>2, <2>4, <2>5, <2>6, AdoptedNow, AdoptedStep, DiskKept
          DEF Cleaning, Undoes, Blank
<1>6. ASSUME NEW p \in Workers, NEW f \in Files,
             At(p, "restore") /\ Last(p, f) /\ GivesUp(p, f) /\ UNCHANGED lease
      PROVE  ImportInv'
  BY <1>0, <1>6, GivesUpStep DEF At, Last, LastOf
<1> QED BY <1>1, <1>2, <1>3, <1>4, <1>5, <1>6 DEF Fault

LEMMA StopStep ==
    ASSUME ImportInv, Stop
    PROVE  ImportInv'
<1> USE DEF ImportInv
<1>1. /\ UNCHANGED <<bundle, row, disk, adopted>> /\ lease' = "none"
      /\ P' = Nobody /\ R' = Nobody /\ w' \in [Workers -> Memories]
  BY NobodyIs DEF Stop, P, R, Workers
<1>2. Types' /\ LeaseInv'
  BY <1>1, NobodyIs DEF Types, LeaseInv, Critical
<1>3. AdoptionInv'
  BY <1>1, NobodyIs DEF AdoptionInv, Cleaning
<1>4. CopyInv'
  BY <1>1, NobodyIs DEF CopyInv, TrueCopy, Blank, Preparing, Entered
<1> QED BY <1>1, <1>2, <1>3, <1>4, NobodyIs, DiskKept, PublishOver DEF Preparing, Entered

\* Another program takes nothing away where nobody has put anything yet.
LEMMA OtherWritesHolds ==
    ASSUME ImportInv, NEW f \in Files, NEW place \in Places, OtherWrites(f, place)
    PROVE  /\ disk' \in [Files -> [Places -> Bytes]] /\ DiskInv'
           /\ \A g \in Files : g # f => disk'[g] = disk[g]
           /\ Held(f) <=> Held(f)'
<1> USE DEF ImportInv
<1>1. /\ disk' = [disk EXCEPT ![f][place] = "foreign"] /\ disk \in [Files -> [Places -> Bytes]]
      /\ adopted' = adopted /\ DiskInv
      /\ place \in {"source", "old", "sidecar", "destination", "sidecarPlace"}
      /\ place \in {"source", "old"} => ~Empty(f, place)
  BY DEF OtherWrites, Types
<1>2. disk' \in [Files -> [Places -> Bytes]] /\ \A g \in Files : g # f => disk'[g] = disk[g]
  BY <1>1 DEF Bytes, Places
<1>3. (Empty(f, "source")' <=> Empty(f, "source")) /\ (Empty(f, "old")' <=> Empty(f, "old"))
      /\ (Empty(f, "backup")' <=> Empty(f, "backup")) /\ disk'[f].backup = disk[f].backup
      /\ disk'[f].destination \in {disk[f].destination, "foreign"}
  BY <1>1 DEF Empty, Holds, Places
<1>4. ~Empty(f, "source") => Kept(f) /\ Kept(f)'
  BY <1>1, <1>3 DEF DiskInv, Kept, Empty, Holds
<1>5. Held(f) <=> Held(f)'
  BY <1>3, <1>4 DEF Held
<1>6. \A g \in Files : g # f => (Held(g)' <=> Held(g)) /\ (Kept(g)' <=> Kept(g))
                                /\ (Empty(g, "source")' <=> Empty(g, "source"))
                                /\ disk'[g].backup = disk[g].backup
  BY <1>2 DEF Held, Kept, Empty, Holds
<1>7. DiskInv'
  BY <1>1, <1>3, <1>4, <1>5, <1>6 DEF DiskInv
<1> QED BY <1>2, <1>5, <1>7

LEMMA OtherWritesStep ==
    ASSUME ImportInv, NEW f \in Files, NEW place \in Places, OtherWrites(f, place)
    PROVE  ImportInv'
<1> USE DEF ImportInv
<1>1. UNCHANGED <<bundle, row, adopted, lease, w>> /\ lease = "none" /\ P' = P /\ R' = R
  BY DEF OtherWrites, P, R
<1>2. disk' \in [Files -> [Places -> Bytes]] /\ DiskInv'
  BY OtherWritesHolds
<1>3. Types' /\ LeaseInv'
  BY <1>1, <1>2 DEF Types, LeaseInv
<1>4. AdoptionInv'
  BY <1>1 DEF AdoptionInv
<1>5. CopyInv'
  BY <1>1 DEF CopyInv, TrueCopy
<1>6. PublishInv'
  BY <1>1, PublishElsewhere DEF LeaseInv, Critical
<1> QED BY <1>2, <1>3, <1>4, <1>5, <1>6

-----------------------------------------------------------------------------
(* The invariant holds *)

LEMMA ImportInit ==
    ASSUME ImportAssumption, Init
    PROVE  ImportInv /\ WorldTypes
<1>1. /\ P = Nobody /\ R = Nobody /\ w \in [Workers -> Memories]
      /\ bundle = "none" /\ row = [f \in Files |-> "none"] /\ adopted = FALSE /\ lease = "none"
  BY NobodyIs DEF Init, P, R, Workers
<1>2. \A f \in Files, place \in Places : disk[f][place] =
         CASE place = "source" -> "input"
           [] place = "sidecar" /\ HasSidecar(f) -> "art"
           [] place = "destination" /\ Same(f) -> "replaced"
           [] place = "old" /\ Plan[f].replaces = "other" -> "replaced"
           [] OTHER -> "missing"
  BY DEF Init
<1>3. disk \in [Files -> [Places -> Bytes]]
  BY DEF Init, Bytes
<1>4. \A f \in Files : /\ disk[f].source = "input" /\ disk[f].backup = "missing"
                       /\ Same(f) => disk[f].destination = "replaced"
                       /\ Plan[f].replaces = "other" => disk[f].old = "replaced"
  BY <1>2 DEF Places
<1>5. DiskInv
  BY <1>4 DEF DiskInv, Held, Kept, Empty, Holds
<1>6. Types /\ LeaseInv
  BY <1>1, <1>3, NobodyIs DEF Types, LeaseInv, Critical, BundleStates, RowStates
<1>7. AdoptionInv
  BY <1>1, NobodyIs DEF AdoptionInv, Committed, Cleaning
<1>8. CopyInv
  BY <1>1, NobodyIs DEF CopyInv, TrueCopy, Blank, Preparing, Entered
<1>9. PublishInv
  BY <1>1, NobodyIs DEF PublishInv, Preparing, Entered
<1>10. WorldTypes
  BY DEF Init, WorldTypes, ImportAssumption
<1> QED BY <1>5, <1>6, <1>7, <1>8, <1>9, <1>10 DEF ImportInv

LEMMA PublisherKeeps ==
    ASSUME ImportInv, PublisherStep
    PROVE  ImportInv'
BY MarkStep, ListStep, UnprepareStep, EnterStep, RecheckStep, CommitStep, PrepareFileStep,
   StageStep,
   MarkStagedStep, SkipBoundaryStep, BackUpStep, MarkBackedUpStep, PlaceStep, PlaceSidecarStep,
   MarkPublishedStep
   DEF PublisherStep

LEMMA SharedKeeps ==
    ASSUME ImportInv, NEW p \in Workers, SharedStep(p)
    PROVE  ImportInv'
BY BeginCleanupStep, FinishCleanupStep, BeginUndoStep, CloseUndoStep, CleanUpStep, UndoStep,
   RestoreStep
   DEF SharedStep

LEMMA RecoveryKeeps ==
    ASSUME ImportInv, RecoveryStep
    PROVE  ImportInv'
BY ListBundleStep, RecoverBundleStep, ReadJournalsStep, FinishPreparingStep, SetAsideStep
   DEF RecoveryStep

LEMMA NextKeeps ==
    ASSUME ImportInv, "callOverRollback" \notin Admits, [Next]_vars
    PROVE  ImportInv'
<1>1. CASE Call
  BY <1>1, CallStep
<1>2. CASE PublisherStep
  BY <1>2, PublisherKeeps
<1>3. CASE RecoveryStep
  BY <1>3, RecoveryKeeps
<1>4. ASSUME NEW p \in Workers, SharedStep(p)
      PROVE  ImportInv'
  BY <1>4, SharedKeeps
<1>5. CASE Fault
  BY <1>5, FaultStep
<1>6. CASE Stop
  BY <1>6, StopStep
<1>7. ASSUME NEW f \in Files, NEW place \in Places, OtherWrites(f, place)
      PROVE  ImportInv'
  BY <1>7, OtherWritesStep
<1>8. CASE Started \/ Restart \/ ChangePolicy \/ UNCHANGED vars
  <2>1. UNCHANGED <<bundle, row, disk, adopted, lease, w>>
    BY <1>8 DEF Started, Restart, ChangePolicy, vars
  <2> QED BY <2>1, WorldStep
<1> QED BY <1>1, <1>2, <1>3, <1>4, <1>5, <1>6, <1>7, <1>8 DEF Next

LEMMA WorldKeeps ==
    ASSUME ImportAssumption, WorldTypes, [Next]_vars
    PROVE  WorldTypes'
<1>0. {MaxCalls, MaxStops, MaxFaults} \subseteq Nat
  BY DEF ImportAssumption
<1>1. CASE UNCHANGED world
  BY <1>1 DEF WorldTypes, world
<1>2. CASE Call
  BY <1>0, <1>2 DEF WorldTypes, Call
<1>3. CASE Fault
  BY <1>0, <1>3 DEF WorldTypes, Fault
<1>4. CASE Stop
  BY <1>0, <1>4 DEF WorldTypes, Stop
<1>5. CASE Started \/ Restart \/ ChangePolicy
  BY <1>5 DEF WorldTypes, Started, Restart, ChangePolicy
<1>6. ASSUME NEW f \in Files, NEW place \in Places, OtherWrites(f, place)
      PROVE  WorldTypes'
  BY <1>6 DEF WorldTypes, OtherWrites
<1>7. PublisherStep => UNCHANGED world
  BY DEF PublisherStep, Mark, List, Unprepare, Enter, Recheck, Commit, PrepareFile, Stage,
     MarkStaged,
         SkipBoundary, BackUp, MarkBackedUp, Place, PlaceSidecar, MarkPublished
<1>8. RecoveryStep => UNCHANGED world
  BY DEF RecoveryStep, ListBundle, RecoverBundle, ReadJournals, FinishPreparing, SetAside, world
<1>9. ASSUME NEW p \in Workers, SharedStep(p)
      PROVE  UNCHANGED world
  BY <1>9 DEF SharedStep, BeginCleanup, FinishCleanup, BeginUndo, CloseUndo, CleanUp, Undo, Restore
<1>10. UNCHANGED vars => UNCHANGED world
  BY DEF vars, world
<1> QED BY <1>1, <1>2, <1>3, <1>4, <1>5, <1>6, <1>7, <1>8, <1>9, <1>10 DEF Next

LEMMA ImportTypes ==
    ASSUME ImportInv, WorldTypes
    PROVE  TypeOK
<1>1. \A p \in Workers : w[p] \in Memories
  BY Memory DEF ImportInv
<1>2. \A p \in Workers :
         /\ w[p].pc \in Pcs
         /\ w[p].fresh \cup w[p].prepared \cup w[p].todo \cup w[p].was \cup w[p].failed \subseteq Files
  BY <1>1 DEF Memories
<1>3. \A p \in Workers : w[p].pc \in Critical => lease = p
  BY DEF ImportInv, LeaseInv, Workers, P, R
<1> QED BY <1>2, <1>3 DEF TypeOK, ImportInv, Types, WorldTypes, Critical, BundleStates, RowStates

LEMMA ImportHolds ==
    ASSUME ImportAssumption, "callOverRollback" \notin Admits
    PROVE  Spec => [](ImportInv /\ WorldTypes)
<1>1. Init => ImportInv /\ WorldTypes
  BY ImportInit
<1>2. ImportInv /\ WorldTypes /\ [Next]_vars => (ImportInv /\ WorldTypes)'
  BY NextKeeps, WorldKeeps
<1> QED BY <1>1, <1>2, PTL DEF Spec

-----------------------------------------------------------------------------
(* The refinement of AtomicPublication *)

\* The files of which nothing is lost, and those that are in place: the variables of
\* AtomicPublication.
held == {f \in Files : Held(f)}
shown == {f \in Files : Shown(f)}

LEMMA Mapping ==
    /\ Promise!Init <=> held = Files /\ shown = {} /\ adopted = FALSE /\ touched = {}
    /\ Promise!abstractVars = <<held, shown, adopted, touched>>
    /\ \A f : Promise!Publish(f) <=>
                 ~adopted /\ shown' = shown \cup {f} /\ UNCHANGED <<held, adopted, touched>>
    /\ \A f : Promise!Withdraw(f) <=>
                 ~adopted /\ f \in held /\ shown' = shown \ {f} /\ UNCHANGED <<held, adopted, touched>>
    /\ Promise!Adopt <=> shown = Files /\ adopted' = TRUE /\ UNCHANGED <<held, shown, touched>>
    /\ \A f : Promise!Discard(f) <=>
                 adopted /\ held' = held \ {f} /\ UNCHANGED <<shown, adopted, touched>>
    /\ \A S : Promise!Disturb(S) <=>
                 /\ touched' = touched \cup S
                 /\ \E T \in SUBSET S : shown' = shown \ T
                 /\ UNCHANGED <<held, adopted>>
BY DEF Promise!Init, Promise!abstractVars, Promise!Publish, Promise!Withdraw, Promise!Adopt,
       Promise!Discard, Promise!Disturb, held, shown, Held, Kept, Shown

\* What a step has to be.
Steps == [Promise!Next]_(Promise!abstractVars)

LEMMA Unseen ==
    ASSUME UNCHANGED <<disk, adopted, touched>>
    PROVE  Steps
<1>1. UNCHANGED <<held, shown>>
  BY DEF held, shown, Held, Kept, Shown, Empty, Holds
<1>2. UNCHANGED Promise!abstractVars
  BY <1>1 DEF Promise!abstractVars, held, shown, Held, Kept, Shown
<1> QED BY <1>2 DEF Steps

\* Before the adoption the files of one file come and go, and nothing of what was there is
\* lost.
LEMMA FileStep ==
    ASSUME ImportInv, ImportInv', ~adopted, UNCHANGED <<adopted, touched>>, NEW f \in Files,
           \A g \in Files, place \in Places : g # f => disk'[g][place] = disk[g][place]
    PROVE  Steps
<1>1. held = Files /\ held' = Files
  BY DEF ImportInv, DiskInv, held
<1>2. \A g \in Files : g # f => (Shown(g)' <=> Shown(g))
  BY DEF Shown, Holds, Places
<1>3. shown' = shown \cup {f} \/ shown' = shown \ {f}
  BY <1>2 DEF shown
<1>4. Promise!Publish(f) \/ Promise!Withdraw(f)
  BY <1>1, <1>3, Mapping
<1> QED BY <1>4 DEF Steps, Promise!Next

\* After it what they were made from goes, file by file.
LEMMA CleanUpSeen ==
    ASSUME ImportInv, ImportInv', NEW p \in Workers, NEW f \in Files, CleanUp(p, f)
    PROVE  Steps
<1>1. adopted /\ UNCHANGED <<adopted, touched>> /\ disk \in [Files -> [Places -> Bytes]]
  BY DEF ImportInv, AdoptionInv, CleanUp, At, Cleaning, Workers, P, R, world, Types
<1>2. UNCHANGED disk \/ \E place \in {"source", "backup", "old", "sidecar"} : Unlinks(f, place)
  <2>1. ASSUME NEW i \in DOMAIN Waste(f), Unlinks(f, Waste(f)[i][1])
        PROVE  \E place \in {"source", "backup", "old", "sidecar"} : Unlinks(f, place)
    <3>1. /\ DOMAIN Waste(f) = 1 .. 3 /\ Waste(f)[1][1] = "source"
          /\ Waste(f)[2][1] \in {"backup", "old"} /\ Waste(f)[3][1] = "sidecar"
      BY DEF Waste
    <3>2. Waste(f)[i][1] \in {"source", "backup", "old", "sidecar"}
      BY <3>1
    <3> QED BY <2>1, <3>2
  <2> QED BY <2>1 DEF CleanUp
<1>3. CASE UNCHANGED disk
  BY <1>1, <1>3, Unseen
<1>4. ASSUME NEW place \in {"source", "backup", "old", "sidecar"}, Unlinks(f, place)
      PROVE  Steps
  <2>1. \A g \in Files : (Shown(g)' <=> Shown(g)) /\ (g # f => (Held(g)' <=> Held(g)))
    BY <1>1, <1>4 DEF Unlinks, Shown, Held, Kept, Empty, Holds, Places
  <2>2. Held(f)' => Held(f)
    BY <1>1, <1>4 DEF Unlinks, Held, Kept, Empty, Holds, Places
  <2>3. shown' = shown
    BY <2>1 DEF shown
  <2>4. CASE Held(f)' <=> Held(f)
    <3>1. held' = held
      BY <2>1, <2>4 DEF held
    <3>2. UNCHANGED Promise!abstractVars
      BY <1>1, <2>3, <3>1 DEF Promise!abstractVars, held, shown, Held, Kept, Shown
    <3> QED BY <3>2 DEF Steps
  <2>5. CASE ~(Held(f)' <=> Held(f))
    <3>1. held' = held \ {f}
      BY <2>1, <2>2, <2>5 DEF held
    <3>2. Promise!Discard(f)
      BY <1>1, <2>3, <3>1, Mapping
    <3> QED BY <3>2 DEF Steps, Promise!Next
  <2> QED BY <2>4, <2>5
<1> QED BY <1>2, <1>3, <1>4

\* The adoption finds every file in its place.
LEMMA CommitSeen ==
    ASSUME ImportInv, Commit
    PROVE  Steps
<1>1. UNCHANGED <<disk, touched>>
  BY DEF Commit, world
<1>2. CASE UNCHANGED adopted
  BY <1>1, <1>2, Unseen
<1>3. CASE adopted' = TRUE
  <2>1. UNCHANGED <<held, shown>>
    BY <1>1 DEF held, shown, Held, Kept, Shown, Empty, Holds
  <2>2. shown = Files
    BY DEF ImportInv, PublishInv, Commit, PAt, At, P, shown
  <2>3. Promise!Adopt
    BY <1>1, <1>3, <2>1, <2>2, Mapping
  <2> QED BY <2>3 DEF Steps, Promise!Next
<1> QED BY <1>2, <1>3 DEF Commit

LEMMA OtherWritesSeen ==
    ASSUME ImportInv, NEW f \in Files, NEW place \in Places, OtherWrites(f, place)
    PROVE  Steps
<1>1. /\ disk' = [disk EXCEPT ![f][place] = "foreign"] /\ disk \in [Files -> [Places -> Bytes]]
      /\ UNCHANGED adopted /\ touched = {} /\ touched' = {f}
  BY DEF OtherWrites, ImportInv, Types
<1>2. \A g \in Files : g # f => disk'[g] = disk[g]
  BY OtherWritesHolds
<1>3. Held(f) <=> Held(f)'
  BY OtherWritesHolds
<1>4. held' = held
  BY <1>2, <1>3 DEF held, Held, Kept, Empty, Holds
<1>5. Shown(f)' => Shown(f)
  BY <1>1 DEF Shown, Holds, Places
<1>6. \E T \in SUBSET {f} : shown' = shown \ T
  <2>1. \A g \in Files : g # f => (Shown(g)' <=> Shown(g))
    BY <1>2 DEF Shown, Holds
  <2>2. CASE Shown(f)'
    <3>1. shown' = shown \ {}
      BY <1>5, <2>1, <2>2 DEF shown
    <3> QED BY <3>1
  <2>3. CASE ~Shown(f)'
    <3>1. shown' = shown \ {f}
      BY <2>1, <2>3 DEF shown
    <3> QED BY <3>1
  <2> QED BY <2>2, <2>3
<1>7. touched' = touched \cup {f} /\ UNCHANGED <<held, adopted>>
  BY <1>1, <1>4
<1>8. Promise!Disturb({f})
  BY <1>6, <1>7, Mapping
<1>9. \E S \in SUBSET Files : Promise!Disturb(S)
  BY <1>8
<1> QED BY <1>9 DEF Steps, Promise!Next

LEMMA PublisherSeen ==
    ASSUME ImportInv, ImportInv', PublisherStep
    PROVE  Steps
<1>1. CASE Mark \/ List \/ Unprepare \/ Enter
  BY <1>1, Unseen DEF Mark, List, Unprepare, Enter, world
<1>2. CASE Commit
  BY <1>2, CommitSeen
<1>3. CASE Recheck
  <2>1. UNCHANGED <<adopted, touched>> /\ disk \in [Files -> [Places -> Bytes]]
    BY <1>3 DEF Recheck, world, ImportInv, Types
  <2>2. \A g \in Files, place \in Places \ {"sidecarTemp"} : disk'[g][place] = disk[g][place]
    BY <1>3, <2>1 DEF Recheck, Places
  <2>3. \A g \in Files : (Shown(g)' <=> Shown(g)) /\ (Held(g)' <=> Held(g))
    BY <2>2 DEF Shown, Held, Kept, Empty, Holds, Places
  <2>4. UNCHANGED <<held, shown>>
    BY <2>3 DEF held, shown
  <2>5. UNCHANGED Promise!abstractVars
    BY <2>1, <2>4 DEF Promise!abstractVars, held, shown, Held, Kept, Shown
  <2> QED BY <2>5 DEF Steps
<1>4. ASSUME NEW f \in Files,
             PrepareFile(f) \/ MarkStaged(f) \/ SkipBoundary(f) \/ MarkBackedUp(f) \/ MarkPublished(f)
      PROVE  Steps
  BY <1>4, Unseen DEF PrepareFile, MarkStaged, SkipBoundary, MarkBackedUp, MarkPublished, world
<1>5. ASSUME NEW f \in Files, Stage(f) \/ BackUp(f) \/ Place(f) \/ PlaceSidecar(f)
      PROVE  Steps
  <2>1. UNCHANGED <<adopted, touched>> /\ disk \in [Files -> [Places -> Bytes]]
    BY <1>5 DEF Stage, BackUp, Place, PlaceSidecar, world, ImportInv, Types
  <2>2. ~adopted
    BY <1>5 DEF Stage, BackUp, Place, PlaceSidecar, InHand, PAt, At, P, ImportInv, AdoptionInv,
       Cleaning
  <2>3. \A g \in Files, place \in Places : g # f => disk'[g][place] = disk[g][place]
    BY <1>5, <2>1 DEF Stage, BackUp, Place, PlaceSidecar, Moves
  <2> QED BY <2>1, <2>2, <2>3, FileStep
<1> QED BY <1>1, <1>2, <1>3, <1>4, <1>5 DEF PublisherStep

LEMMA SharedSeen ==
    ASSUME ImportInv, ImportInv', NEW p \in Workers, SharedStep(p)
    PROVE  Steps
<1>1. CASE BeginCleanup(p) \/ FinishCleanup(p) \/ BeginUndo(p) \/ CloseUndo(p)
  BY <1>1, Unseen DEF BeginCleanup, FinishCleanup, BeginUndo, CloseUndo, world
<1>2. ASSUME NEW f \in Files, CleanUp(p, f)
      PROVE  Steps
  BY <1>2, CleanUpSeen
<1>3. ASSUME NEW f \in Files, Undo(p, f)
      PROVE  Steps
  BY <1>3, Unseen DEF Undo, world
<1>4. ASSUME NEW f \in Files, Restore(p, f)
      PROVE  Steps
  <2>1. UNCHANGED <<adopted, touched>> /\ disk \in [Files -> [Places -> Bytes]]
    BY <1>4 DEF Restore, world, ImportInv, Types
  <2>2. ~adopted
    BY <1>4, RestoringNow DEF Restore, At, Last, LastOf
  <2>3. \A g \in Files, place \in Places : g # f => disk'[g][place] = disk[g][place]
    BY <1>4, <2>1 DEF Restore, Withdraw, Unlinks, Moves
  <2> QED BY <2>1, <2>2, <2>3, FileStep
<1> QED BY <1>1, <1>2, <1>3, <1>4 DEF SharedStep

LEMMA ImportSteps ==
    ASSUME ImportInv, ImportInv', [Next]_vars
    PROVE  Steps
<1>1. CASE PublisherStep
  BY <1>1, PublisherSeen
<1>2. ASSUME NEW p \in Workers, SharedStep(p)
      PROVE  Steps
  BY <1>2, SharedSeen
<1>3. ASSUME NEW f \in Files, NEW place \in Places, OtherWrites(f, place)
      PROVE  Steps
  BY <1>3, OtherWritesSeen
<1>4. CASE Call \/ RecoveryStep \/ Started \/ Fault \/ Stop \/ Restart \/ ChangePolicy \/ UNCHANGED vars
  <2>1. UNCHANGED <<disk, adopted, touched>>
    BY <1>4 DEF Call, RecoveryStep, ListBundle, RecoverBundle, ReadJournals, FinishPreparing,
       SetAside,
                Started, Fault, Stop, Restart, ChangePolicy, vars, world
  <2> QED BY <2>1, Unseen
<1> QED BY <1>1, <1>2, <1>3, <1>4 DEF Next

LEMMA ImportBegins ==
    ASSUME Init, ImportInv
    PROVE  Promise!Init
<1>1. held = Files
  BY DEF Init, ImportInv, DiskInv, held
<1>2. \A f \in Files : disk[f].destination \in {"replaced", "missing"}
  BY DEF Init, Places
<1>3. shown = {}
  BY <1>2 DEF shown, Shown, Holds
<1> QED BY <1>1, <1>3, Mapping DEF Init

\* publish_import_bundle and recover_import_bundle, over stops, faults and each other,
\* implement AtomicPublication: the catalogue adopts a download's files only with all of
\* them in place, and what they were made from, and what they replace, is given up only
\* after that.
THEOREM ImportRefines ==
    ASSUME ImportAssumption, "callOverRollback" \notin Admits
    PROVE  Spec => RefinesAtomicPublication
<1>1. Init => Promise!Init
  BY ImportInit, ImportBegins
<1>2. ImportInv /\ ImportInv' /\ [Next]_vars => [Promise!Next]_(Promise!abstractVars)
  BY ImportSteps DEF Steps
<1> QED BY <1>1, <1>2, ImportHolds, PTL DEF Spec, RefinesAtomicPublication, Promise!Spec

\* The rows, the files, the lease and what either worker has read keep to their types, and
\* whoever moves files has the leases.
THEOREM ImportTypesHold ==
    ASSUME ImportAssumption, "callOverRollback" \notin Admits
    PROVE  Spec => []TypeOK
BY ImportTypes, ImportHolds, PTL

-----------------------------------------------------------------------------
(* What each action does to what the workers remember *)

\* q is not at it, and at most its copies of the rows in gone become stale.
Watches(q, gone) ==
    /\ w'[q].pc = w[q].pc /\ w'[q].seen = w[q].seen /\ w'[q].copy = w[q].copy
    /\ w'[q].prepared = w[q].prepared /\ w'[q].todo = w[q].todo /\ w'[q].was = w[q].was
    /\ w'[q].fresh = w[q].fresh \ gone

\* p goes on to pc, with todo left, and has prepared what is in prepared.
OnTo(p, pc, todo, prepared) ==
    w'[p].pc = pc /\ w'[p].todo = todo /\ w'[p].prepared = prepared

RowGoes(p, f, state) ==
    /\ row' = [row EXCEPT ![f] = state]
    /\ w'[p].copy = [w[p].copy EXCEPT ![f] = state] /\ w'[p].fresh = w[p].fresh \cup {f}
    /\ \A q \in Workers \ {p} : Watches(q, {f})

RowStays(p) ==
    /\ row' = row
    /\ w'[p].copy = w[p].copy /\ w'[p].fresh = w[p].fresh
    /\ \A q \in Workers \ {p} : Watches(q, {})

LEMMA BothAreTyped ==
    ASSUME ImportInv
    PROVE  /\ w["publisher"] \in Memories /\ w["recovery"] \in Memories
           /\ "publisher" \in Workers /\ "recovery" \in Workers
           /\ \A p \in Workers : w[p] \in Memories
           /\ row \in [Files -> RowStates] /\ disk \in [Files -> [Places -> Bytes]]
BY Memory DEF ImportInv, Types, Workers

LEMMA NothingWas ==
    Nobody.was = {} /\ Nobody.pc = "idle" /\ Nobody.prepared = {} /\ Nobody.todo = {}
    /\ Nobody.fresh = {} /\ \A f \in Files : Nobody.copy[f] = "none"
BY DEF Nobody

\* p has a new memory, and the other none.
LEMMA OtherWatches ==
    ASSUME ImportInv, NEW p \in Workers, NEW m, w' = [w EXCEPT ![p] = m]
    PROVE  w'[p] = m /\ \A q \in Workers \ {p} : w'[q] = w[q] /\ Watches(q, {})
<1>1. w'[p] = m /\ \A q \in Workers \ {p} : w'[q] = w[q]
  BY DEF ImportInv, Types
<1> QED BY <1>1, BothAreTyped DEF Watches, Memories

LEMMA GoesMoves ==
    ASSUME ImportInv, NEW p \in Workers, NEW pc \in Pcs, Goes(p, pc)
    PROVE  /\ w'[p].pc = pc
           /\ pc = "idle" => w'[p] = Nobody
           /\ pc # "idle" => /\ OnTo(p, pc, w[p].todo, w[p].prepared) /\ w'[p].was = w[p].was
                             /\ w'[p].copy = w[p].copy /\ w'[p].fresh = w[p].fresh
           /\ \A q \in Workers \ {p} : w'[q] = w[q] /\ Watches(q, {})
<1> DEFINE m == IF pc = "idle" THEN Nobody ELSE [w[p] EXCEPT !.pc = pc]
<1>1. w' = [w EXCEPT ![p] = m]
  BY DEF Goes
<1>2. w'[p] = m /\ \A q \in Workers \ {p} : w'[q] = w[q] /\ Watches(q, {})
  BY <1>1, OtherWatches
<1>3. w[p] \in Memories
  BY BothAreTyped
<1> QED BY <1>2, <1>3, NothingWas DEF Memories, OnTo

\* The same of one who writes a row.
LEMMA WritesMoves ==
    ASSUME ImportInv, NEW p \in Workers, NEW f \in Files, NEW state \in RowStates, NEW m \in Memories,
           Writes(p, f, state), w' = [Written(p, f, state) EXCEPT ![p] = m],
           m.copy = [w[p].copy EXCEPT ![f] = state], m.fresh = w[p].fresh \cup {f}
    PROVE  RowGoes(p, f, state) /\ w'[p] = m
<1>0. Types
  BY DEF ImportInv
<1>1. /\ w'[p] = m
      /\ \A q \in Workers \ {p} : w'[q] = [w[q] EXCEPT !.fresh = w[q].fresh \ {f}]
  BY <1>0, WrittenBy
<1>2. ASSUME NEW q \in Workers \ {p}
      PROVE  Watches(q, {f})
  <2>1. w[q] \in Memories /\ w'[q] = [w[q] EXCEPT !.fresh = w[q].fresh \ {f}]
    BY <1>1, BothAreTyped
  <2> QED BY <2>1 DEF Watches, Memories
<1> QED BY <1>1, <1>2 DEF RowGoes, Writes

LEMMA CallMoves ==
    ASSUME ImportInv, Call
    PROVE  /\ P.pc = "idle" /\ P'.pc \in {"idle", "mark", "list", "cleanWait"}
           /\ Watches("recovery", {}) /\ UNCHANGED <<row, disk, adopted, lease, touched>>
           /\ P'.was \subseteq P.was /\ P'.fresh = {} /\ \A f \in Files : P'.copy[f] = "none"
           /\ bundle' = IF bundle = "none" THEN "preparing" ELSE bundle
           /\ P'.pc \in {"list", "cleanWait"} => bundle' \notin {"none", "preparing"}
<1> DEFINE pc == CASE bundle' \in {"preparing", "rolled_back"} -> "mark"
                   [] bundle' = "publishing" -> "list"
                   [] OTHER -> "cleanWait"
           m == IF policy = "changed" \/ bundle' \in {"completed", "needs_attention"} THEN Nobody
                ELSE [P EXCEPT !.seen = bundle', !.pc = pc]
<1>1. w' = [w EXCEPT !["publisher"] = m]
  BY DEF Call, P
<1>2. P' = m /\ Watches("recovery", {})
  BY <1>1, OtherWatches, BothAreTyped DEF P
<1>3. P.pc = "idle" /\ P \in Memories /\ Blank(P)
  BY BothAreTyped DEF P, Call, PAt, At, ImportInv, CopyInv, TrueCopy
<1>4. P'.pc = IF policy = "changed" \/ bundle' \in {"completed", "needs_attention"} THEN "idle" ELSE pc
  BY <1>2, <1>3, NothingWas DEF Memories
<1>5. P'.was \subseteq P.was /\ Blank(P')
  BY <1>2, <1>3, NothingWas DEF Memories, Blank
<1>6. bundle' # "none" /\ (P'.pc \in {"list", "cleanWait"} => bundle' \notin {"none", "preparing"})
  BY <1>4 DEF Call
<1> QED BY <1>2, <1>3, <1>4, <1>5, <1>6 DEF Call, Blank

LEMMA MarkMoves ==
    ASSUME ImportInv, Mark
    PROVE  /\ P.pc = "mark" /\ Watches("recovery", {}) /\ UNCHANGED <<row, disk, adopted, lease, touched>>
           /\ \/ P' = Nobody /\ bundle' = bundle
              \/ /\ bundle' = "publishing" /\ P'.pc = "list" /\ P'.was = P.was
                 /\ P'.copy = P.copy /\ P'.fresh = P.fresh
<1>1. P.pc = "mark" /\ UNCHANGED <<row, disk, adopted, lease, touched>>
  BY DEF Mark, PAt, At, P, world
<1>2. PICK pc \in {"list", "idle"} : PGoes(pc) /\ (pc = "idle" => bundle' = bundle)
                                     /\ (pc = "list" => bundle' = "publishing")
  BY DEF Mark
<1>3. pc \in Pcs
  BY DEF Pcs
<1> QED BY <1>1, <1>2, <1>3, GoesMoves, BothAreTyped DEF PGoes, P, OnTo

LEMMA ListMoves ==
    ASSUME ImportInv, List
    PROVE  /\ P.pc = "list" /\ Watches("recovery", {})
           /\ UNCHANGED <<bundle, row, disk, adopted, lease, touched>> /\ ~adopted
           /\ \/ P' = Nobody
              \/ /\ OnTo("publisher", "prepare", Files, {}) /\ P'.was = P.was
                 /\ P'.fresh = {f \in Files : row[f] # "none"}
                 /\ \A f \in Files : P'.copy[f] = row[f]
<1>1. P.pc = "list" /\ UNCHANGED <<bundle, row, disk, adopted, lease, touched>> /\ ~adopted /\ P \in Memories
      /\ Blank(P)
  BY BothAreTyped DEF List, PAt, At, P, world, ImportInv, AdoptionInv, CopyInv, TrueCopy, Cleaning
<1> DEFINE m == [P EXCEPT !.copy = [f \in Files |-> IF f \in Journalled THEN row[f] ELSE P.copy[f]],
                          !.fresh = P.fresh \cup Journalled, !.prepared = {},
                          !.pc = "prepare", !.todo = Files]
<1>2. w' = [w EXCEPT !["publisher"] = IF policy = "changed" THEN Nobody ELSE m]
  BY <1>1 DEF List, Listed, P, Memories
<1>3. P' = (IF policy = "changed" THEN Nobody ELSE m) /\ Watches("recovery", {})
  BY <1>2, OtherWatches, BothAreTyped DEF P
<1>4. CASE policy # "changed"
  <2>1. /\ P'.pc = "prepare" /\ P'.todo = Files /\ P'.prepared = {} /\ P'.was = P.was
        /\ P'.fresh = Journalled
        /\ \A f \in Files : P'.copy[f] = row[f]
    BY <1>1, <1>3, <1>4 DEF Memories, Blank, Journalled
  <2> QED BY <1>1, <1>3, <2>1 DEF OnTo, P, Journalled
<1> QED BY <1>1, <1>3, <1>4

LEMMA PrepareMoves ==
    ASSUME ImportInv, NEW f \in Files, PrepareFile(f)
    PROVE  /\ P.pc = "prepare" /\ FirstOf(P.todo, f) /\ ~adopted
           /\ UNCHANGED <<bundle, disk, adopted, lease, touched>> /\ P'.was = P.was
           /\ \/ \E state \in {"planned", "validated"} :
                    /\ RowGoes("publisher", f, state)
                    /\ OnTo("publisher", IF state = "planned" THEN "stage" ELSE "prepare", P.todo, P.prepared)
                    /\ \/ P.copy[f] = "none" /\ state = "planned"
                       \/ P.copy[f] = "rolled_back" /\ f \in P.fresh /\ state = "planned"
                       \/ P.copy[f] = "staged" /\ f \in P.fresh /\ state = "validated"
              \/ /\ RowStays("publisher") /\ P'.todo = P.todo /\ P'.prepared = P.prepared
                 /\ P'.pc = "unprepare" \/ (P'.pc = "stage" /\ P.copy[f] = "planned")
              \/ /\ RowStays("publisher") /\ P.copy[f] \in Ready \cup {"published"}
                 /\ OnTo("publisher", IF P.todo = {f} THEN "enter" ELSE "prepare",
                         P.todo \ {f}, P.prepared \cup {f})
<1>0. /\ P.pc = "prepare" /\ P \in Memories /\ ~adopted /\ FirstOf(P.todo, f)
      /\ UNCHANGED <<bundle, disk, adopted, lease, touched>> /\ w["publisher"] \in Memories
  BY BothAreTyped DEF PrepareFile, PAt, At, First, FirstOf, P, ImportInv, AdoptionInv, Cleaning,
     world
<1>1. ASSUME NEW state \in {"planned", "validated"},
             row' = [row EXCEPT ![f] = state],
             w' = [Written("publisher", f, state) EXCEPT !["publisher"] =
                      [Written("publisher", f, state)["publisher"] EXCEPT
                          !.pc = IF state = "planned" THEN "stage" ELSE "prepare"]]
      PROVE  /\ RowGoes("publisher", f, state) /\ P'.was = P.was
             /\ OnTo("publisher", IF state = "planned" THEN "stage" ELSE "prepare", P.todo, P.prepared)
  <2> DEFINE mine == Written("publisher", f, state)["publisher"]
             m == [mine EXCEPT !.pc = IF state = "planned" THEN "stage" ELSE "prepare"]
  <2>1. state \in RowStates /\ "publisher" \in Workers /\ Types
    BY DEF RowStates, Undoable, Ready, Workers, ImportInv
  <2>2. /\ mine \in Memories /\ mine.todo = P.todo /\ mine.prepared = P.prepared /\ mine.was = P.was
        /\ mine.fresh = P.fresh \cup {f} /\ mine.copy = [P.copy EXCEPT ![f] = state]
    BY <2>1, Wrote DEF P
  <2>3. w' = [Written("publisher", f, state) EXCEPT !["publisher"] = m]
    BY <1>1
  <2> HIDE DEF mine
  <2>4. /\ m \in Memories /\ m.todo = P.todo /\ m.prepared = P.prepared /\ m.was = P.was
        /\ m.fresh = w["publisher"].fresh \cup {f} /\ m.copy = [w["publisher"].copy EXCEPT ![f] = state]
        /\ m.pc = IF state = "planned" THEN "stage" ELSE "prepare"
    BY <2>2 DEF Memories, Pcs, P
  <2> HIDE DEF m
  <2>5. Writes("publisher", f, state)
    BY <1>1 DEF Writes
  <2>6. RowGoes("publisher", f, state) /\ w'["publisher"] = m
    BY <2>1, <2>3, <2>4, <2>5, WritesMoves
  <2> QED BY <2>4, <2>6 DEF OnTo, P
<1>2. ASSUME NEW pc \in {"unprepare", "stage"}, PGoes(pc), UNCHANGED row
      PROVE  /\ RowStays("publisher") /\ P'.todo = P.todo /\ P'.prepared = P.prepared
             /\ P'.pc = pc /\ P'.was = P.was
  BY <1>2, GoesMoves, BothAreTyped DEF Pcs, PGoes, RowStays, OnTo, P
<1>3. ASSUME UNCHANGED row,
             w' = [w EXCEPT !["publisher"] = [Passed(P, f, "enter") EXCEPT !.prepared = P.prepared \cup {f}]]
      PROVE  /\ RowStays("publisher") /\ P'.was = P.was
             /\ OnTo("publisher", IF P.todo = {f} THEN "enter" ELSE "prepare",
                     P.todo \ {f}, P.prepared \cup {f})
  <2> DEFINE m == [P EXCEPT !.todo = P.todo \ {f}, !.pc = IF P.todo = {f} THEN "enter" ELSE "prepare",
                            !.prepared = P.prepared \cup {f}]
  <2>1. [Passed(P, f, "enter") EXCEPT !.prepared = P.prepared \cup {f}] = m
    BY <1>0 DEF Passed, Memories
  <2>2. w' = [w EXCEPT !["publisher"] = m]
    BY <1>3, <2>1
  <2>3. w'["publisher"] = m /\ \A q \in Workers \ {"publisher"} : Watches(q, {})
    BY <2>2, OtherWatches, BothAreTyped
  <2>4. /\ m.pc = (IF P.todo = {f} THEN "enter" ELSE "prepare") /\ m.todo = P.todo \ {f}
        /\ m.prepared = P.prepared \cup {f} /\ m.was = P.was /\ m.copy = P.copy /\ m.fresh = P.fresh
    BY <1>0 DEF Memories
  <2> HIDE DEF m
  <2> QED BY <1>3, <2>3, <2>4 DEF RowStays, OnTo, P
<1>4. \/ \E state \in {"planned", "validated"} :
            /\ row' = [row EXCEPT ![f] = state]
            /\ w' = [Written("publisher", f, state) EXCEPT !["publisher"] =
                        [Written("publisher", f, state)["publisher"] EXCEPT
                            !.pc = IF state = "planned" THEN "stage" ELSE "prepare"]]
            /\ \/ P.copy[f] = "none" /\ state = "planned"
               \/ P.copy[f] = "rolled_back" /\ f \in P.fresh /\ state = "planned"
               \/ P.copy[f] = "staged" /\ f \in P.fresh /\ state = "validated"
      \/ UNCHANGED row /\ \E pc \in {"unprepare", "stage"} : PGoes(pc) /\ (pc = "stage" => P.copy[f] = "planned")
      \/ /\ P.copy[f] \in Ready \cup {"published"} /\ UNCHANGED row
         /\ w' = [w EXCEPT !["publisher"] = [Passed(P, f, "enter") EXCEPT !.prepared = P.prepared \cup {f}]]
  BY DEF PrepareFile, Transition, CanWrite, P, Writes, ToStage, ToPrepare, Unprepares
<1> QED BY <1>0, <1>1, <1>2, <1>3, <1>4

\* The publisher only goes on to pc.
Turned(pc) ==
    RowStays("publisher") /\ OnTo("publisher", pc, P.todo, P.prepared) /\ P'.was = P.was

LEMMA TurnedTo ==
    ASSUME ImportInv, NEW pc \in Pcs \ {"idle"}, PGoes(pc), UNCHANGED row
    PROVE  Turned(pc)
BY GoesMoves, BothAreTyped DEF PGoes, RowStays, Turned, P

LEMMA RaisesMoves ==
    ASSUME ImportInv, P.pc \in Entered, Raises, UNCHANGED row
    PROVE  ~adopted /\ Turned("undoWait")
<1>1. ~adopted /\ bundle \notin Committed
  BY DEF ImportInv, AdoptionInv, Entered, Cleaning
<1>2. PGoes("undoWait") /\ "undoWait" \in Pcs \ {"idle"}
  BY <1>1 DEF Raises, Pcs
<1> QED BY <1>1, <1>2, TurnedTo

LEMMA StageMoves ==
    ASSUME ImportInv, NEW f \in Files, Stage(f)
    PROVE  /\ P.pc = "stage" /\ FirstOf(P.todo, f) /\ P.copy[f] = "planned"
           /\ UNCHANGED <<bundle, row, adopted, lease, touched>>
           /\ \/ /\ Turned("staged")
                 /\ disk' = [disk EXCEPT ![f].temp = "staged",
                                         ![f].sidecarTemp = IF HasSidecar(f) THEN "art" ELSE @]
              \/ Turned("unprepare") /\ disk' = disk
<1>1. /\ P.pc = "stage" /\ FirstOf(P.todo, f) /\ UNCHANGED <<bundle, row, adopted, lease, touched>>
  BY DEF Stage, PAt, At, P, First, FirstOf, world
<1>2. P.copy[f] = "planned"
  BY <1>1 DEF ImportInv, CopyInv
<1>3. {"staged", "unprepare"} \subseteq Pcs \ {"idle"}
  BY DEF Pcs
<1>4. PGoes("staged") => Turned("staged")
  BY <1>1, <1>3, TurnedTo
<1>5. PGoes("unprepare") => Turned("unprepare")
  BY <1>1, <1>3, TurnedTo
<1> QED BY <1>1, <1>2, <1>4, <1>5 DEF Stage, Unprepares

LEMMA MarkStagedMoves ==
    ASSUME ImportInv, NEW f \in Files, MarkStaged(f)
    PROVE  /\ P.pc = "staged" /\ FirstOf(P.todo, f) /\ P.copy[f] = "planned" /\ ~adopted
           /\ UNCHANGED <<bundle, disk, adopted, lease, touched>>
           /\ \/ /\ f \in P.fresh /\ RowGoes("publisher", f, "staged")
                 /\ OnTo("publisher", "prepare", P.todo, P.prepared) /\ P'.was = P.was
              \/ Turned("unprepare")
<1>1. /\ P.pc = "staged" /\ FirstOf(P.todo, f) /\ ~adopted
      /\ UNCHANGED <<bundle, disk, adopted, lease, touched>>
  BY DEF MarkStaged, PAt, At, P, First, FirstOf, world, ImportInv, AdoptionInv, Cleaning
<1>2. P.copy[f] = "planned"
  BY <1>1 DEF ImportInv, CopyInv
<1>3. CASE UNCHANGED row /\ PGoes("unprepare")
  <2>1. "unprepare" \in Pcs \ {"idle"}
    BY DEF Pcs
  <2> QED BY <1>1, <1>2, <1>3, <2>1, TurnedTo
<1>4. CASE /\ f \in P.fresh /\ row' = [row EXCEPT ![f] = "staged"]
           /\ w' = [Written("publisher", f, "staged") EXCEPT !["publisher"] =
                       [Written("publisher", f, "staged")["publisher"] EXCEPT !.pc = "prepare"]]
  <2> DEFINE mine == Written("publisher", f, "staged")["publisher"]
             m == [mine EXCEPT !.pc = "prepare"]
  <2>1. "staged" \in RowStates /\ "publisher" \in Workers /\ Types /\ Writes("publisher", f, "staged")
    BY <1>4 DEF RowStates, Undoable, Workers, ImportInv, Writes
  <2>2. /\ mine \in Memories /\ mine.todo = P.todo /\ mine.prepared = P.prepared /\ mine.was = P.was
        /\ mine.fresh = P.fresh \cup {f} /\ mine.copy = [P.copy EXCEPT ![f] = "staged"]
    BY <2>1, Wrote DEF P
  <2>3. w' = [Written("publisher", f, "staged") EXCEPT !["publisher"] = m]
    BY <1>4
  <2> HIDE DEF mine
  <2>4. /\ m \in Memories /\ m.todo = P.todo /\ m.prepared = P.prepared /\ m.was = P.was
        /\ m.fresh = w["publisher"].fresh \cup {f} /\ m.copy = [w["publisher"].copy EXCEPT ![f] = "staged"]
        /\ m.pc = "prepare"
    BY <2>2 DEF Memories, Pcs, P
  <2> HIDE DEF m
  <2>5. RowGoes("publisher", f, "staged") /\ w'["publisher"] = m
    BY <2>1, <2>3, <2>4, WritesMoves
  <2> QED BY <1>1, <1>2, <1>4, <2>4, <2>5 DEF OnTo, P
<1>5. \/ UNCHANGED row /\ PGoes("unprepare")
      \/ /\ f \in P.fresh /\ row' = [row EXCEPT ![f] = "staged"]
         /\ w' = [Written("publisher", f, "staged") EXCEPT !["publisher"] =
                     [Written("publisher", f, "staged")["publisher"] EXCEPT !.pc = "prepare"]]
  BY DEF MarkStaged, Transition, CanWrite, P, Writes, ToPrepare, Unprepares
<1> QED BY <1>3, <1>4, <1>5

LEMMA UnprepareMoves ==
    ASSUME ImportInv, Unprepare
    PROVE  /\ P.pc = "unprepare" /\ ~adopted /\ Watches("recovery", {})
           /\ UNCHANGED <<bundle, row, disk, adopted, lease, touched>> /\ P'.was = P.was
           /\ OnTo("publisher", IF \A f \in Files : row[f] = "none" /\ f \notin P.prepared
                                THEN "close" ELSE "undoWait",
                   P.todo, P.prepared \cup {f \in Files : row[f] # "none"})
           /\ \A f \in Files :
                 IF row[f] # "none" /\ f \notin P.prepared
                 THEN P'.copy[f] = row[f] /\ f \in P'.fresh
                 ELSE P'.copy[f] = P.copy[f] /\ (f \in P'.fresh <=> f \in P.fresh)
<1>0. P.pc = "unprepare" /\ ~adopted /\ P \in Memories
      /\ UNCHANGED <<bundle, row, disk, adopted, lease, touched>>
  BY BothAreTyped DEF Unprepare, PAt, At, P, ImportInv, AdoptionInv, Cleaning, world
<1> DEFINE read == Journalled \ P.prepared
           pc == IF Journalled \cup P.prepared = {} THEN "close" ELSE "undoWait"
           m == [P EXCEPT !.copy = [f \in Files |-> IF f \in read THEN row[f] ELSE P.copy[f]],
                          !.fresh = P.fresh \cup read, !.prepared = P.prepared \cup read, !.pc = pc]
<1>1. w' = [w EXCEPT !["publisher"] = m]
  BY <1>0 DEF Unprepare, Listed, P, Memories
<1>2. P' = m /\ Watches("recovery", {})
  BY <1>1, OtherWatches, BothAreTyped DEF P
<1>3. /\ P'.pc = pc /\ P'.fresh = P.fresh \cup read /\ P'.prepared = P.prepared \cup read
      /\ P'.copy = [f \in Files |-> IF f \in read THEN row[f] ELSE P.copy[f]]
      /\ P'.todo = P.todo /\ P'.was = P.was
  BY <1>0, <1>2 DEF Memories
<1>4. P.prepared \cup read = P.prepared \cup {f \in Files : row[f] # "none"}
  BY DEF Journalled
<1>5. pc = IF \A f \in Files : row[f] = "none" /\ f \notin P.prepared THEN "close" ELSE "undoWait"
  BY <1>0 DEF Journalled, Memories
<1>6. \A f \in Files : f \in read <=> row[f] # "none" /\ f \notin P.prepared
  BY DEF Journalled
<1> HIDE DEF m, pc, read
<1>7. \A f \in Files : IF row[f] # "none" /\ f \notin P.prepared
                       THEN P'.copy[f] = row[f] /\ f \in P'.fresh
                       ELSE P'.copy[f] = P.copy[f] /\ (f \in P'.fresh <=> f \in P.fresh)
  BY <1>3, <1>6
<1> QED BY <1>0, <1>2, <1>3, <1>4, <1>5, <1>7 DEF OnTo, P

LEMMA EnterMoves ==
    ASSUME ImportInv, Enter
    PROVE  /\ P.pc = "enter" /\ ~adopted /\ lease = "none"
           /\ UNCHANGED <<bundle, row, disk, adopted, touched>> /\ RowStays("publisher")
           /\ P'.was = P.was
           /\ \/ Turned("undoWait")
              \/ OnTo("publisher", "boundary", P.todo \cup P.prepared, P.prepared)
<1>0. P.pc = "enter" /\ ~adopted /\ lease = "none" /\ P \in Memories
      /\ UNCHANGED <<bundle, row, disk, adopted, touched>>
  BY BothAreTyped DEF Enter, PAt, At, P, ImportInv, AdoptionInv, Cleaning, world
<1>1. CASE policy = "changed"
  BY <1>0, <1>1, RaisesMoves DEF Enter, Entered, Turned
<1>2. CASE policy # "changed"
  <2> DEFINE m == [P EXCEPT !.pc = "boundary", !.todo = P.todo \cup P.prepared]
  <2>1. w' = [w EXCEPT !["publisher"] = m]
    BY <1>2 DEF Enter
  <2>2. w'["publisher"] = m /\ \A q \in Workers \ {"publisher"} : Watches(q, {})
    BY <2>1, OtherWatches, BothAreTyped
  <2>3. /\ m.pc = "boundary" /\ m.todo = P.todo \cup P.prepared
        /\ m.prepared = P.prepared /\ m.was = P.was /\ m.copy = P.copy /\ m.fresh = P.fresh
    BY <1>0 DEF Memories
  <2> HIDE DEF m
  <2> QED BY <1>0, <2>2, <2>3 DEF OnTo, RowStays, P
<1> QED BY <1>1, <1>2

LEMMA SkipMoves ==
    ASSUME ImportInv, NEW f \in Files, SkipBoundary(f)
    PROVE  /\ P.pc = "boundary" /\ ~adopted
           /\ UNCHANGED <<bundle, row, disk, adopted, lease, touched>> /\ RowStays("publisher")
           /\ P'.was = P.was /\ P'.prepared = P.prepared
           /\ P'.pc \in {"boundary", "recheck"}
<1>0. P.pc = "boundary" /\ ~adopted /\ P \in Memories
      /\ UNCHANGED <<bundle, row, disk, adopted, lease, touched>>
  BY BothAreTyped DEF SkipBoundary, PAt, At, P, ImportInv, AdoptionInv, Cleaning, world
<1> DEFINE m == [P EXCEPT !.todo = P.todo \ {f}, !.pc = IF P.todo = {f} THEN "recheck" ELSE P.pc]
<1>1. Passed(P, f, "recheck") = m
  BY <1>0 DEF Passed, Memories
<1>2. w' = [w EXCEPT !["publisher"] = m]
  BY <1>1 DEF SkipBoundary, P
<1>3. w'["publisher"] = m /\ \A q \in Workers \ {"publisher"} : Watches(q, {})
  BY <1>2, OtherWatches, BothAreTyped
<1>4. /\ m.pc = (IF P.todo = {f} THEN "recheck" ELSE P.pc) /\ m.prepared = P.prepared /\ m.was = P.was
      /\ m.copy = P.copy /\ m.fresh = P.fresh
  BY <1>0 DEF Memories
<1> HIDE DEF m
<1> QED BY <1>0, <1>3, <1>4 DEF RowStays, P

LEMMA RecheckMoves ==
    ASSUME ImportInv, Recheck
    PROVE  /\ P.pc = "recheck" /\ ~adopted /\ P.prepared = Files
           /\ UNCHANGED <<bundle, row, adopted, touched>> /\ RowStays("publisher")
           /\ P'.was = P.was /\ P'.prepared = P.prepared
           /\ \/ P'.pc = "undoWait" /\ disk' = disk
              \/ /\ \A f \in Files : Publishable(f)
                 /\ P'.todo = {f \in Files : P.copy[f] # "published"}
                 /\ P'.pc = IF P'.todo = {} THEN "commit" ELSE "publish"
                 /\ disk' = [f \in Files |-> IF f \in P'.todo THEN disk[f]
                                             ELSE [disk[f] EXCEPT !.sidecarTemp = "missing"]]
<1>0. P.pc = "recheck" /\ ~adopted /\ P \in Memories /\ P.prepared = Files
      /\ UNCHANGED <<bundle, row, adopted, touched>>
  BY BothAreTyped DEF Recheck, PAt, At, P, ImportInv, AdoptionInv, Cleaning, world, PublishInv,
     Entered
<1> DEFINE left == {f \in P.prepared : P.copy[f] # "published"}
           m == [P EXCEPT !.pc = IF left = {} THEN "commit" ELSE "publish", !.todo = left]
<1>1. CASE Raises /\ UNCHANGED disk
  BY <1>0, <1>1, RaisesMoves DEF Entered, Turned, OnTo, P
<1>2. CASE /\ \A f \in P.prepared : Publishable(f)
           /\ w' = [w EXCEPT !["publisher"] = m]
           /\ disk' = [f \in Files |-> IF f \in P.prepared \ left
                                       THEN [disk[f] EXCEPT !.sidecarTemp = "missing"] ELSE disk[f]]
  <2>1. w'["publisher"] = m /\ \A q \in Workers \ {"publisher"} : Watches(q, {})
    BY <1>2, OtherWatches, BothAreTyped
  <2>2. /\ m.pc = (IF left = {} THEN "commit" ELSE "publish") /\ m.prepared = P.prepared
        /\ m.was = P.was /\ m.copy = P.copy /\ m.fresh = P.fresh /\ m.todo = left
    BY <1>0 DEF Memories
  <2>3. left = {f \in Files : P.copy[f] # "published"}
    BY <1>0
  <2>4. disk' = [f \in Files |-> IF f \in left THEN disk[f]
                                 ELSE [disk[f] EXCEPT !.sidecarTemp = "missing"]]
    BY <1>0, <1>2
  <2> HIDE DEF m, left
  <2> QED BY <1>0, <1>2, <2>1, <2>2, <2>3, <2>4 DEF RowStays, P
<1>3. \/ Raises /\ UNCHANGED disk
      \/ /\ \A f \in P.prepared : Publishable(f)
         /\ w' = [w EXCEPT !["publisher"] = m]
         /\ disk' = [f \in Files |-> IF f \in P.prepared \ left
                                     THEN [disk[f] EXCEPT !.sidecarTemp = "missing"] ELSE disk[f]]
  BY DEF Recheck, P
<1> QED BY <1>1, <1>2, <1>3

\* The publisher moves a file, and stays where it is.
LEMMA FileMoves ==
    ASSUME ImportInv, NEW f \in Files, BackUp(f) \/ Place(f)
    PROVE  /\ P.pc = "publish" /\ f \in P.todo /\ ~adopted /\ lease = "publisher"
           /\ UNCHANGED <<bundle, row, adopted, lease, touched>>
           /\ P' = P /\ RowStays("publisher")
<1>1. /\ P.pc = "publish" /\ f \in P.todo /\ UNCHANGED <<bundle, row, adopted, lease, w, touched>>
  BY DEF BackUp, Place, PAt, At, P, InHand, First, world
<1>2. ~adopted /\ lease = "publisher"
  BY <1>1 DEF ImportInv, AdoptionInv, Cleaning, LeaseInv, Critical
<1>3. \A q \in Workers : Watches(q, {})
  BY <1>1, BothAreTyped DEF Watches, Memories
<1> QED BY <1>1, <1>2, <1>3 DEF RowStays, P

LEMMA SidecarMoves ==
    ASSUME ImportInv, NEW f \in Files, PlaceSidecar(f)
    PROVE  /\ P.pc \in {"boundary", "publish"} /\ f \in P.todo /\ ~adopted /\ lease = "publisher"
           /\ AudioPlaced(f) /\ P.copy[f] \in Ready
           /\ UNCHANGED <<bundle, row, adopted, touched>> /\ RowStays("publisher")
           /\ \/ P' = P /\ Empty(f, "sidecarPlace") /\ Moves(f, "sidecarTemp", "sidecarPlace")
              \/ Turned("undoWait") /\ disk' = disk
<1>1. /\ P.pc \in {"boundary", "publish"} /\ f \in P.todo /\ AudioPlaced(f) /\ P.copy[f] \in Ready
      /\ UNCHANGED <<bundle, row, adopted, touched>>
  BY DEF PlaceSidecar, PAt, At, P, InHand, First, world
<1>2. ~adopted /\ lease = "publisher"
  BY <1>1 DEF ImportInv, AdoptionInv, Cleaning, LeaseInv, Critical
<1>3. CASE Raises /\ UNCHANGED disk
  BY <1>1, <1>2, <1>3, RaisesMoves DEF Entered, Turned
<1>4. CASE Empty(f, "sidecarPlace") /\ Moves(f, "sidecarTemp", "sidecarPlace") /\ UNCHANGED w
  <2>1. \A q \in Workers : Watches(q, {})
    BY <1>4, BothAreTyped DEF Watches, Memories
  <2> QED BY <1>1, <1>2, <1>4, <2>1 DEF RowStays, P
<1> QED BY <1>3, <1>4 DEF PlaceSidecar

\* The publisher marks the row of a file it is at in the critical section.
LEMMA MarksMoves ==
    ASSUME ImportInv, NEW f \in Files, NEW state \in {"replacement_backed_up", "published"},
           NEW pc, NEW todo, NEW m \in Memories,
           row' = [row EXCEPT ![f] = state],
           w' = [Written("publisher", f, state) EXCEPT !["publisher"] = m],
           m.todo = todo, m.prepared = P.prepared, m.was = P.was, m.pc = pc,
           m.fresh = w["publisher"].fresh \cup {f}, m.copy = [w["publisher"].copy EXCEPT ![f] = state]
    PROVE  RowGoes("publisher", f, state) /\ OnTo("publisher", pc, todo, P.prepared) /\ P'.was = P.was
<1>1. state \in RowStates /\ "publisher" \in Workers /\ Writes("publisher", f, state)
  BY DEF RowStates, Undoable, Ready, Workers, Writes
<1>2. RowGoes("publisher", f, state) /\ w'["publisher"] = m
  BY <1>1, WritesMoves
<1> QED BY <1>2 DEF OnTo, P

LEMMA MarkBackedUpMoves ==
    ASSUME ImportInv, NEW f \in Files, MarkBackedUp(f)
    PROVE  /\ P.pc \in {"boundary", "publish"} /\ f \in P.todo /\ ~adopted /\ lease = "publisher"
           /\ Same(f) /\ P.copy[f] = "validated" /\ Empty(f, "destination") /\ Holds(f, "backup", "replaced")
           /\ UNCHANGED <<bundle, disk, adopted, touched>> /\ P'.was = P.was
           /\ \/ Turned("undoWait") /\ f \notin P.fresh
              \/ /\ f \in P.fresh /\ RowGoes("publisher", f, "replacement_backed_up")
                 /\ IF P.pc = "publish" THEN OnTo("publisher", "publish", P.todo, P.prepared)
                    ELSE OnTo("publisher", IF P.todo = {f} THEN "recheck" ELSE "boundary",
                              P.todo \ {f}, P.prepared)
<1>0. /\ P.pc \in {"boundary", "publish"} /\ f \in P.todo
      /\ Same(f) /\ P.copy[f] = "validated" /\ Empty(f, "destination") /\ Holds(f, "backup", "replaced")
      /\ UNCHANGED <<bundle, disk, adopted, touched>>
  BY DEF MarkBackedUp, InHand, First, PAt, At, P, world
<1>1. ~adopted /\ lease = "publisher" /\ P \in Memories
  BY <1>0, BothAreTyped DEF ImportInv, AdoptionInv, Cleaning, LeaseInv, Critical, P
<1>2. CASE ~CanWrite("publisher", f) /\ Raises /\ UNCHANGED row
  BY <1>0, <1>1, <1>2, RaisesMoves DEF Entered, Turned, CanWrite, P
<1> DEFINE mine == Written("publisher", f, "replacement_backed_up")["publisher"]
<1>3. CASE /\ f \in P.fresh /\ row' = [row EXCEPT ![f] = "replacement_backed_up"]
           /\ w' = [Written("publisher", f, "replacement_backed_up") EXCEPT !["publisher"] =
                       IF P.pc = "boundary" THEN Passed(mine, f, "recheck") ELSE mine]
  <2> DEFINE pc == IF P.pc = "boundary" /\ P.todo = {f} THEN "recheck" ELSE P.pc
             todo == IF P.pc = "boundary" THEN P.todo \ {f} ELSE P.todo
  <2>1. /\ mine \in Memories /\ mine.pc = P.pc /\ mine.todo = P.todo
        /\ mine.prepared = P.prepared /\ mine.was = P.was
        /\ mine.fresh = P.fresh \cup {f} /\ mine.copy = [P.copy EXCEPT ![f] = "replacement_backed_up"]
    <3>1. "publisher" \in Workers /\ "replacement_backed_up" \in RowStates /\ Types
      BY DEF Workers, RowStates, Undoable, Ready, ImportInv
    <3> QED BY <3>1, Wrote DEF P
  <2>3. pc \in Pcs /\ todo \in SUBSET Files
    BY <1>0, <1>1 DEF Memories, Pcs
  <2> HIDE DEF mine
  <2>4. (IF P.pc = "boundary" THEN Passed(mine, f, "recheck") ELSE mine) =
        [mine EXCEPT !.pc = pc, !.todo = todo]
    BY <2>1 DEF Passed, Memories
  <2> DEFINE m == [mine EXCEPT !.pc = pc, !.todo = todo]
  <2>5. w' = [Written("publisher", f, "replacement_backed_up") EXCEPT !["publisher"] = m]
    BY <1>3, <2>4
  <2> HIDE DEF pc, todo
  <2>6. /\ m \in Memories /\ m.todo = todo /\ m.prepared = P.prepared /\ m.was = P.was
        /\ m.fresh = w["publisher"].fresh \cup {f} /\ m.pc = pc
        /\ m.copy = [w["publisher"].copy EXCEPT ![f] = "replacement_backed_up"]
    BY <2>1, <2>3 DEF Memories, P
  <2> HIDE DEF m
  <2>7. /\ RowGoes("publisher", f, "replacement_backed_up") /\ P'.was = P.was
        /\ OnTo("publisher", pc, todo, P.prepared)
    BY <1>3, <2>5, <2>6, MarksMoves
  <2> QED BY <1>0, <1>1, <1>3, <2>7 DEF pc, todo
<1>4. \/ ~CanWrite("publisher", f) /\ Raises /\ UNCHANGED row
      \/ /\ f \in P.fresh /\ row' = [row EXCEPT ![f] = "replacement_backed_up"]
         /\ w' = [Written("publisher", f, "replacement_backed_up") EXCEPT !["publisher"] =
                     IF P.pc = "boundary" THEN Passed(mine, f, "recheck") ELSE mine]
  BY DEF MarkBackedUp, Turns, Transition, CanWrite, P, PAt, At, Writes
<1> QED BY <1>2, <1>3, <1>4

LEMMA MarkPublishedMoves ==
    ASSUME ImportInv, NEW f \in Files, MarkPublished(f)
    PROVE  /\ P.pc \in {"boundary", "publish"} /\ f \in P.todo /\ ~adopted /\ lease = "publisher"
           /\ P.copy[f] \in Ready /\ AudioPlaced(f)
           /\ UNCHANGED <<bundle, disk, adopted, touched>> /\ P'.was = P.was
           /\ \/ Turned("undoWait")
              \/ /\ f \in P.fresh /\ RowGoes("publisher", f, "published")
                 /\ OnTo("publisher", IF P.todo = {f} THEN IF P.pc = "boundary" THEN "recheck" ELSE "commit"
                                      ELSE P.pc, P.todo \ {f}, P.prepared)
<1>0. /\ P.pc \in {"boundary", "publish"} /\ f \in P.todo /\ P.copy[f] \in Ready /\ AudioPlaced(f)
      /\ UNCHANGED <<bundle, disk, adopted, touched>>
  BY DEF MarkPublished, InHand, First, PAt, At, P, world
<1>1. ~adopted /\ lease = "publisher" /\ P \in Memories
  BY <1>0, BothAreTyped DEF ImportInv, AdoptionInv, Cleaning, LeaseInv, Critical, P
<1>2. CASE Raises /\ UNCHANGED row
  BY <1>0, <1>1, <1>2, RaisesMoves DEF Entered, Turned
<1> DEFINE mine == Written("publisher", f, "published")["publisher"]
           next == IF P.pc = "boundary" THEN "recheck" ELSE "commit"
<1>3. CASE /\ f \in P.fresh /\ row' = [row EXCEPT ![f] = "published"]
           /\ w' = [Written("publisher", f, "published") EXCEPT !["publisher"] = Passed(mine, f, next)]
  <2> DEFINE pc == IF P.todo = {f} THEN next ELSE P.pc
  <2>1. /\ mine \in Memories /\ mine.pc = P.pc /\ mine.todo = P.todo
        /\ mine.prepared = P.prepared /\ mine.was = P.was
        /\ mine.fresh = P.fresh \cup {f} /\ mine.copy = [P.copy EXCEPT ![f] = "published"]
    <3>1. "publisher" \in Workers /\ "published" \in RowStates /\ Types
      BY DEF Workers, RowStates, Undoable, ImportInv
    <3> QED BY <3>1, Wrote DEF P
  <2>3. pc \in Pcs /\ P.todo \ {f} \in SUBSET Files
    BY <1>0, <1>1 DEF Memories, Pcs
  <2> HIDE DEF mine, next
  <2>4. Passed(mine, f, next) = [mine EXCEPT !.pc = pc, !.todo = P.todo \ {f}]
    BY <2>1 DEF Passed, Memories
  <2> DEFINE m == [mine EXCEPT !.pc = pc, !.todo = P.todo \ {f}]
  <2>5. w' = [Written("publisher", f, "published") EXCEPT !["publisher"] = m]
    BY <1>3, <2>4
  <2> HIDE DEF pc
  <2>6. /\ m \in Memories /\ m.todo = P.todo \ {f} /\ m.prepared = P.prepared /\ m.was = P.was
        /\ m.fresh = w["publisher"].fresh \cup {f} /\ m.pc = pc
        /\ m.copy = [w["publisher"].copy EXCEPT ![f] = "published"]
    BY <2>1, <2>3 DEF Memories, P
  <2> HIDE DEF m
  <2>7. /\ RowGoes("publisher", f, "published") /\ P'.was = P.was
        /\ OnTo("publisher", pc, P.todo \ {f}, P.prepared)
    BY <1>3, <2>5, <2>6, MarksMoves
  <2> QED BY <1>0, <1>1, <1>3, <2>7 DEF pc, next
<1>4. \/ Raises /\ UNCHANGED row
      \/ /\ f \in P.fresh /\ row' = [row EXCEPT ![f] = "published"]
         /\ w' = [Written("publisher", f, "published") EXCEPT !["publisher"] = Passed(mine, f, next)]
  BY DEF MarkPublished, Turns, Transition, CanWrite, P, Writes, AfterIt, PAt, At
<1> QED BY <1>2, <1>3, <1>4

LEMMA CommitMoves ==
    ASSUME ImportInv, Commit
    PROVE  /\ P.pc = "commit" /\ ~adopted /\ disk' = disk /\ touched' = touched
           /\ \/ Turned("undoWait") /\ UNCHANGED <<bundle, row, adopted>>
              \/ /\ adopted' /\ P'.was = P.was /\ Watches("recovery", Files)
                 /\ bundle' = "catalog_committed"
<1>0. P.pc = "commit" /\ ~adopted /\ disk' = disk /\ touched' = touched
  BY DEF Commit, PAt, At, P, ImportInv, AdoptionInv, Cleaning, world
<1>1. CASE Raises /\ UNCHANGED <<adopted, bundle, row>>
  BY <1>0, <1>1, RaisesMoves DEF Entered
<1>2. CASE /\ adopted' = TRUE /\ bundle' = "catalog_committed"
           /\ w' = [q \in Workers |-> IF q = "publisher" THEN [w[q] EXCEPT !.pc = "cleanWait"]
                                      ELSE [w[q] EXCEPT !.fresh = {}]]
  <2>1. P' = [P EXCEPT !.pc = "cleanWait"] /\ w'["recovery"] = [w["recovery"] EXCEPT !.fresh = {}]
    BY <1>2 DEF P, Workers
  <2>2. w["recovery"].fresh \ Files = {}
    BY BothAreTyped DEF Memories
  <2> QED BY <1>0, <1>2, <2>1, <2>2, BothAreTyped DEF Watches, Memories, P
<1> QED BY <1>1, <1>2 DEF Commit, P

LEMMA BeginUndoMoves ==
    ASSUME ImportInv, NEW p \in Workers, BeginUndo(p)
    PROVE  /\ w[p].pc = "undoWait" /\ lease = "none" /\ UNCHANGED <<bundle, row, disk, adopted, touched>>
           /\ RowStays(p) /\ OnTo(p, "undo", w[p].todo \cup w[p].prepared, w[p].prepared)
           /\ w'[p].was = w[p].was
<1>1. /\ w[p].pc = "undoWait" /\ lease = "none" /\ UNCHANGED <<bundle, row, disk, adopted, touched>>
      /\ w[p] \in Memories
  BY BothAreTyped DEF BeginUndo, At, world
<1> DEFINE m == [w[p] EXCEPT !.pc = "undo", !.failed = {}, !.todo = w[p].todo \cup w[p].prepared]
<1>2. w' = [w EXCEPT ![p] = m]
  BY DEF BeginUndo
<1>3. /\ m.pc = "undo" /\ m.todo = w[p].todo \cup w[p].prepared /\ m.prepared = w[p].prepared
      /\ m.was = w[p].was /\ m.copy = w[p].copy /\ m.fresh = w[p].fresh
  BY <1>1 DEF Memories
<1> HIDE DEF m
<1>4. w'[p] = m /\ \A q \in Workers \ {p} : Watches(q, {})
  BY <1>2, OtherWatches
<1> QED BY <1>1, <1>3, <1>4 DEF RowStays, OnTo

LEMMA UndoMoves ==
    ASSUME ImportInv, NEW p \in Workers, NEW f \in Files, Undo(p, f)
    PROVE  /\ w[p].pc = "undo" /\ LastOf(w[p].todo, f) /\ lease = p
           /\ UNCHANGED <<bundle, disk, adopted, lease, touched>>
           /\ \/ /\ RowStays(p) /\ OnTo(p, "undo", w[p].todo \ {f}, w[p].prepared) /\ w'[p].was = w[p].was
                 /\ \/ w[p].copy[f] \notin Undoable
                    \/ f \notin w[p].fresh /\ w[p].copy[f] # "rollback_pending"
              \/ /\ w[p].copy[f] \in Undoable /\ OnTo(p, "restore", w[p].todo, w[p].prepared)
                 /\ w'[p].was = IF w[p].copy[f] = "published" \/ AudioPlaced(f) THEN w[p].was \cup {f} ELSE w[p].was
                 /\ \/ RowStays(p) /\ w[p].copy[f] = "rollback_pending"
                    \/ /\ RowGoes(p, f, "rollback_pending") /\ f \in w[p].fresh
                       /\ w[p].copy[f] # "rollback_pending"
<1>0. /\ w[p].pc = "undo" /\ LastOf(w[p].todo, f) /\ w[p] \in Memories /\ lease = p
      /\ UNCHANGED <<bundle, disk, adopted, lease, touched>>
  BY BothAreTyped DEF Undo, At, Last, LastOf, world, ImportInv, LeaseInv, Critical, Workers, P, R
<1> DEFINE out == w[p].copy[f] = "published" \/ AudioPlaced(f)
           was == IF out THEN w[p].was \cup {f} ELSE w[p].was
<1>1. CASE /\ w' = [w EXCEPT ![p].todo = @ \ {f}] \/ Fails(p, f)
           /\ UNCHANGED row
           /\ \/ w[p].copy[f] \notin Undoable
              \/ f \notin w[p].fresh /\ w[p].copy[f] # "rollback_pending"
  <2>1. PICK failed : w' = [w EXCEPT ![p] = [w[p] EXCEPT !.todo = w[p].todo \ {f}, !.failed = failed]]
    <3>1. CASE Fails(p, f)
      BY <3>1 DEF Fails
    <3>2. CASE w' = [w EXCEPT ![p].todo = @ \ {f}]
      <4>1. [w[p] EXCEPT !.todo = w[p].todo \ {f}] =
            [w[p] EXCEPT !.todo = w[p].todo \ {f}, !.failed = w[p].failed]
        BY <1>0 DEF Memories
      <4>2. w' = [w EXCEPT ![p] = [w[p] EXCEPT !.todo = w[p].todo \ {f}]]
        BY <3>2
      <4> QED BY <4>1, <4>2
    <3> QED BY <1>1, <3>1, <3>2
  <2> DEFINE m == [w[p] EXCEPT !.todo = w[p].todo \ {f}, !.failed = failed]
  <2>2. /\ m.pc = "undo" /\ m.todo = w[p].todo \ {f} /\ m.prepared = w[p].prepared
        /\ m.was = w[p].was /\ m.copy = w[p].copy /\ m.fresh = w[p].fresh
    BY <1>0 DEF Memories
  <2>3. w' = [w EXCEPT ![p] = m]
    BY <2>1
  <2> HIDE DEF m
  <2>4. w'[p] = m /\ \A q \in Workers \ {p} : Watches(q, {})
    BY <2>3, OtherWatches
  <2> QED BY <1>0, <1>1, <2>2, <2>4 DEF RowStays, OnTo
<1>2. CASE /\ w[p].copy[f] = "rollback_pending" /\ UNCHANGED row
           /\ w' = [w EXCEPT ![p] = [w[p] EXCEPT !.pc = "restore", !.was = was]]
  <2> DEFINE m == [w[p] EXCEPT !.pc = "restore", !.was = was]
  <2>1. w' = [w EXCEPT ![p] = m]
    BY <1>2
  <2> HIDE DEF was
  <2>2. /\ m.pc = "restore" /\ m.todo = w[p].todo /\ m.prepared = w[p].prepared
        /\ m.was = was /\ m.copy = w[p].copy /\ m.fresh = w[p].fresh
    BY <1>0 DEF Memories
  <2> HIDE DEF m
  <2>3. w'[p] = m /\ \A q \in Workers \ {p} : Watches(q, {})
    BY <2>1, OtherWatches
  <2> QED BY <1>0, <1>2, <2>2, <2>3 DEF RowStays, OnTo, was, Undoable
<1> DEFINE mine == Written(p, f, "rollback_pending")[p]
<1>3. CASE /\ w[p].copy[f] \in Undoable \ {"rollback_pending"} /\ f \in w[p].fresh
           /\ Writes(p, f, "rollback_pending")
           /\ w' = [Written(p, f, "rollback_pending") EXCEPT ![p] =
                       [mine EXCEPT !.pc = "restore", !.was = IF out THEN mine.was \cup {f} ELSE mine.was]]
  <2>1. "rollback_pending" \in RowStates /\ Types
    BY DEF RowStates, Undoable, ImportInv
  <2>2. /\ mine \in Memories /\ mine.todo = w[p].todo /\ mine.prepared = w[p].prepared
        /\ mine.was = w[p].was
        /\ mine.fresh = w[p].fresh \cup {f} /\ mine.copy = [w[p].copy EXCEPT ![f] = "rollback_pending"]
    BY <2>1, Wrote
  <2> DEFINE m == [mine EXCEPT !.pc = "restore", !.was = IF out THEN mine.was \cup {f} ELSE mine.was]
  <2>3. w' = [Written(p, f, "rollback_pending") EXCEPT ![p] = m]
    BY <1>3
  <2> HIDE DEF mine, out
  <2>4. /\ m \in Memories /\ m.todo = w[p].todo /\ m.prepared = w[p].prepared /\ m.pc = "restore"
        /\ m.was = (IF out THEN w[p].was \cup {f} ELSE w[p].was)
        /\ m.fresh = w[p].fresh \cup {f} /\ m.copy = [w[p].copy EXCEPT ![f] = "rollback_pending"]
    BY <2>2 DEF Memories, Pcs
  <2> HIDE DEF m
  <2>5. RowGoes(p, f, "rollback_pending") /\ w'[p] = m
    BY <1>3, <2>1, <2>3, <2>4, WritesMoves
  <2> QED BY <1>0, <1>3, <2>4, <2>5 DEF OnTo, out
<1>4. \/ /\ w' = [w EXCEPT ![p].todo = @ \ {f}] \/ Fails(p, f)
         /\ UNCHANGED row
         /\ \/ w[p].copy[f] \notin Undoable
            \/ f \notin w[p].fresh /\ w[p].copy[f] # "rollback_pending"
      \/ /\ w[p].copy[f] = "rollback_pending" /\ UNCHANGED row
         /\ w' = [w EXCEPT ![p] = [w[p] EXCEPT !.pc = "restore", !.was = was]]
      \/ /\ w[p].copy[f] \in Undoable \ {"rollback_pending"} /\ f \in w[p].fresh
         /\ Writes(p, f, "rollback_pending")
         /\ w' = [Written(p, f, "rollback_pending") EXCEPT ![p] =
                     [mine EXCEPT !.pc = "restore", !.was = IF out THEN mine.was \cup {f} ELSE mine.was]]
  <2> DEFINE restoring(mem) == [mem EXCEPT !.pc = "restore", !.was = IF out THEN mem.was \cup {f} ELSE mem.was]
  <2>1. WasPublished(p, f) = out
    BY DEF WasPublished
  <2>2. \/ /\ w[p].copy[f] \notin Undoable
           /\ w' = [w EXCEPT ![p].todo = @ \ {f}] /\ UNCHANGED row
        \/ /\ w[p].copy[f] = "rollback_pending"
           /\ w' = [w EXCEPT ![p] = restoring(w[p])] /\ UNCHANGED row
        \/ /\ w[p].copy[f] \in Undoable \ {"rollback_pending"} /\ CanWrite(p, f)
           /\ Writes(p, f, "rollback_pending")
           /\ w' = [Written(p, f, "rollback_pending") EXCEPT ![p] = restoring(mine)]
        \/ /\ w[p].copy[f] \in Undoable \ {"rollback_pending"} /\ ~CanWrite(p, f)
           /\ Fails(p, f) /\ UNCHANGED row
    BY <2>1, Zenon DEF Undo
  <2> HIDE DEF mine, out
  <2> QED BY <2>2, Zenon DEF CanWrite
<1> QED BY <1>1, <1>2, <1>3, <1>4

\* The rollback of a file is over, and its row says so if it is still that of p.
Ended(p, f, state) ==
    /\ OnTo(p, "undo", w[p].todo \ {f}, w[p].prepared) /\ w'[p].was = w[p].was
    /\ IF f \in w[p].fresh THEN RowGoes(p, f, state) ELSE RowStays(p)

LEMMA EndsMoves ==
    ASSUME ImportInv, NEW p \in Workers, NEW f \in Files, NEW state \in {"needs_attention", "rolled_back"},
           NEW lost \in SUBSET Files, f \in w[p].fresh, Writes(p, f, state), Ends(p, f, state, lost)
    PROVE  Ended(p, f, state)
<1> DEFINE mine == Written(p, f, state)[p]
           m == [mine EXCEPT !.pc = "undo", !.todo = mine.todo \ {f}, !.failed = mine.failed \cup lost]
<1>1. state \in RowStates /\ Types
  BY DEF RowStates, Closed, ImportInv
<1>2. /\ mine \in Memories /\ mine.todo = w[p].todo /\ mine.prepared = w[p].prepared
      /\ mine.was = w[p].was
      /\ mine.fresh = w[p].fresh \cup {f} /\ mine.copy = [w[p].copy EXCEPT ![f] = state]
  BY <1>1, Wrote
<1>3. w' = [Written(p, f, state) EXCEPT ![p] = m]
  BY DEF Ends
<1> HIDE DEF mine
<1>4. mine.todo \ {f} \in SUBSET Files /\ mine.failed \cup lost \in SUBSET Files
  BY <1>2 DEF Memories
<1>5. /\ m \in Memories /\ m.todo = w[p].todo \ {f} /\ m.prepared = w[p].prepared /\ m.pc = "undo"
      /\ m.was = w[p].was
      /\ m.fresh = w[p].fresh \cup {f} /\ m.copy = [w[p].copy EXCEPT ![f] = state]
  BY <1>2, <1>4 DEF Memories, Pcs
<1> HIDE DEF m
<1>6. \A n \in Memories :
         w' = [Written(p, f, state) EXCEPT ![p] = n] /\ n.copy = [w[p].copy EXCEPT ![f] = state]
         /\ n.fresh = w[p].fresh \cup {f}
         => RowGoes(p, f, state) /\ w'[p] = n
  BY <1>1, WritesMoves
<1>7. RowGoes(p, f, state) /\ w'[p] = m
  BY <1>3, <1>5, <1>6, Zenon
<1> QED BY <1>5, <1>7 DEF Ended, OnTo

LEMMA GivesUpMoves ==
    ASSUME ImportInv, NEW p \in Workers, NEW f \in Files, GivesUp(p, f)
    PROVE  Ended(p, f, "needs_attention")
<1>1. CASE CanWrite(p, f)
  <2>1. f \in w[p].fresh /\ Writes(p, f, "needs_attention") /\ Ends(p, f, "needs_attention", {f})
    BY <1>1 DEF GivesUp, CanWrite, Ends
  <2> QED BY <2>1, EndsMoves
<1>2. CASE ~CanWrite(p, f)
  <2> DEFINE m == [w[p] EXCEPT !.pc = "undo", !.todo = w[p].todo \ {f}, !.failed = w[p].failed \cup {f}]
  <2>1. w' = [w EXCEPT ![p] = m] /\ row' = row /\ f \notin w[p].fresh /\ w[p] \in Memories
    BY <1>2, BothAreTyped DEF GivesUp, CanWrite
  <2>2. /\ m.pc = "undo" /\ m.todo = w[p].todo \ {f} /\ m.prepared = w[p].prepared
        /\ m.was = w[p].was /\ m.copy = w[p].copy /\ m.fresh = w[p].fresh
    BY <2>1 DEF Memories
  <2> HIDE DEF m
  <2>3. w'[p] = m /\ \A q \in Workers \ {p} : Watches(q, {})
    BY <2>1, OtherWatches
  <2> QED BY <2>1, <2>2, <2>3 DEF Ended, RowStays, OnTo
<1> QED BY <1>1, <1>2

\* What is left to be done before the file itself can be put back.
Clear(p, f) == f \in w[p].was => Empty(f, "destination") /\ Empty(f, "sidecarPlace")

\* One file is restored, and p goes on with it.
Restores(p, f) ==
    \/ f \in w[p].was /\ Holds(f, "destination", "staged") /\ Unlinks(f, "destination")
    \/ /\ f \in w[p].was /\ Empty(f, "destination") /\ Holds(f, "sidecarPlace", "art")
       /\ Unlinks(f, "sidecarPlace")
    \/ Clear(p, f) /\ \E place \in {"sidecarTemp", "temp"} : Unlinks(f, place)

LEMMA RestoreMoves ==
    ASSUME ImportInv, NEW p \in Workers, NEW f \in Files, Restore(p, f)
    PROVE  /\ w[p].pc = "restore" /\ LastOf(w[p].todo, f) /\ ~adopted /\ lease = p
           /\ w[p].copy[f] = "rollback_pending" /\ UNCHANGED <<bundle, adopted, lease, touched>>
           /\ \/ /\ Restores(p, f) /\ RowStays(p) /\ OnTo(p, "restore", w[p].todo, w[p].prepared)
                 /\ w'[p].was = w[p].was
              \/ /\ Clear(p, f) /\ ~Empty(f, "backup") /\ Moves(f, "backup", "destination")
                 /\ RowStays(p) /\ OnTo(p, "restore", w[p].todo, w[p].prepared)
                 /\ w'[p].was = w[p].was \ {f}
              \/ /\ Ended(p, f, "rolled_back") /\ disk' = disk
                 /\ Clear(p, f) /\ f \in w[p].fresh
                 /\ \A place \in {"sidecarTemp", "backup", "temp"} : Empty(f, place)
              \/ Ended(p, f, "needs_attention") /\ disk' = disk
<1>0. /\ w[p] \in Memories /\ w[p].pc = "restore" /\ LastOf(w[p].todo, f) /\ ~adopted
      /\ lease = p /\ w[p].copy[f] = "rollback_pending" /\ UNCHANGED <<bundle, adopted, lease, touched>>
  BY RestoringNow DEF Restore, At, Last, LastOf, world
<1>1. CASE Restores(p, f) /\ UNCHANGED <<row, w>>
  <2>1. \A q \in Workers : Watches(q, {})
    BY <1>1, BothAreTyped DEF Watches, Memories
  <2> QED BY <1>0, <1>1, <2>1 DEF RowStays, OnTo
<1>2. CASE /\ Clear(p, f) /\ ~Empty(f, "backup") /\ Moves(f, "backup", "destination") /\ UNCHANGED row
           /\ w' = [w EXCEPT ![p].was = @ \ {f}]
  <2> DEFINE m == [w[p] EXCEPT !.was = w[p].was \ {f}]
  <2>1. w' = [w EXCEPT ![p] = m]
    BY <1>2
  <2>2. /\ m.pc = "restore" /\ m.todo = w[p].todo /\ m.prepared = w[p].prepared
        /\ m.was = w[p].was \ {f} /\ m.copy = w[p].copy /\ m.fresh = w[p].fresh
    BY <1>0 DEF Memories
  <2> HIDE DEF m
  <2>3. w'[p] = m /\ \A q \in Workers \ {p} : Watches(q, {})
    BY <2>1, OtherWatches
  <2> QED BY <1>0, <1>2, <2>2, <2>3 DEF RowStays, OnTo
<1>3. CASE GivesUp(p, f) /\ UNCHANGED disk
  BY <1>0, <1>3, GivesUpMoves
<1>4. CASE /\ f \in w[p].fresh /\ Writes(p, f, "rolled_back") /\ UNCHANGED disk
           /\ Clear(p, f) /\ \A place \in {"sidecarTemp", "backup", "temp"} : Empty(f, place)
           /\ w' = [Written(p, f, "rolled_back") EXCEPT ![p] =
                       [Written(p, f, "rolled_back")[p] EXCEPT
                           !.pc = "undo", !.todo = Written(p, f, "rolled_back")[p].todo \ {f}]]
  <2> DEFINE mine == Written(p, f, "rolled_back")[p]
  <2>1. "rolled_back" \in RowStates /\ Types
    BY DEF RowStates, Closed, ImportInv
  <2>2. mine \in Memories
    BY <2>1, Wrote
  <2>3. w' = [Written(p, f, "rolled_back") EXCEPT ![p] = [mine EXCEPT !.pc = "undo", !.todo = mine.todo \ {f}]]
    BY <1>4
  <2> HIDE DEF mine
  <2>4. [mine EXCEPT !.pc = "undo", !.todo = mine.todo \ {f}] =
        [mine EXCEPT !.pc = "undo", !.todo = mine.todo \ {f}, !.failed = mine.failed \cup {}]
    BY <2>2 DEF Memories
  <2>5. w' = [Written(p, f, "rolled_back") EXCEPT ![p] =
                 [mine EXCEPT !.pc = "undo", !.todo = mine.todo \ {f}, !.failed = mine.failed \cup {}]]
    BY <2>3, <2>4
  <2>6. Ends(p, f, "rolled_back", {})
    BY <2>5 DEF Ends, mine
  <2>7. {} \in SUBSET Files
    OBVIOUS
  <2>8. f \in w[p].fresh /\ Writes(p, f, "rolled_back")
    BY <1>4
  <2>9. Ended(p, f, "rolled_back")
    BY <2>6, <2>7, <2>8, EndsMoves
  <2> QED BY <1>0, <1>4, <2>9
<1>5. \/ Restores(p, f) /\ UNCHANGED <<row, w>>
      \/ /\ Clear(p, f) /\ ~Empty(f, "backup") /\ Moves(f, "backup", "destination") /\ UNCHANGED row
         /\ w' = [w EXCEPT ![p].was = @ \ {f}]
      \/ GivesUp(p, f) /\ UNCHANGED disk
      \/ /\ f \in w[p].fresh /\ Writes(p, f, "rolled_back") /\ UNCHANGED disk
         /\ Clear(p, f) /\ \A place \in {"sidecarTemp", "backup", "temp"} : Empty(f, place)
         /\ w' = [Written(p, f, "rolled_back") EXCEPT ![p] =
                     [Written(p, f, "rolled_back")[p] EXCEPT
                         !.pc = "undo", !.todo = Written(p, f, "rolled_back")[p].todo \ {f}]]
  <2>1. CASE Out(p, f, "destination")
    BY <2>1 DEF Restore, Withdraw, Restores, Out
  <2>2. CASE ~Out(p, f, "destination") /\ Out(p, f, "sidecarPlace")
    BY <2>2 DEF Restore, Withdraw, Restores, Out
  <2>3. CASE ~Out(p, f, "destination") /\ ~Out(p, f, "sidecarPlace")
    BY <2>3 DEF Restore, Restores, Out, Clear, CanWrite
  <2> QED BY <2>1, <2>2, <2>3
<1> QED BY <1>1, <1>2, <1>3, <1>4, <1>5

LEMMA CloseUndoMoves ==
    ASSUME ImportInv, NEW p \in Workers, CloseUndo(p)
    PROVE  /\ UNCHANGED <<row, disk, adopted, touched>>
           /\ w[p].pc = "close" \/ (w[p].pc = "undo" /\ w[p].todo = {})
           /\ bundle' = bundle \/ (bundle = "publishing" /\ bundle' \in {"rolled_back", "needs_attention"})
           /\ bundle' # "publishing"
           /\ w'[p].pc = "idle" \/ (w'[p].pc = "attention" /\ p = "recovery")
           /\ w'[p].pc = "idle" => w'[p] = Nobody
           /\ \A q \in Workers \ {p} : Watches(q, {})
<1>1. /\ UNCHANGED <<row, disk, adopted, touched>>
      /\ w[p].pc = "close" \/ (w[p].pc = "undo" /\ w[p].todo = {})
      /\ bundle' = bundle \/ (bundle = "publishing" /\ bundle' \in {"rolled_back", "needs_attention"})
      /\ bundle' # "publishing"
  BY DEF CloseUndo, At, world
<1>2. PICK pc \in {"idle", "attention"} : Goes(p, pc) /\ (pc = "attention" => p = "recovery")
  BY DEF CloseUndo
<1>3. pc \in Pcs
  BY DEF Pcs
<1> QED BY <1>1, <1>2, <1>3, GoesMoves

\* Recovery finds a bundle, or has nothing to do with it.
LEMMA LooksMoves ==
    ASSUME ImportInv, ListBundle \/ RecoverBundle
    PROVE  /\ R.pc \in {"idle", "listed"} /\ R'.pc \in {"idle", "listed", "journals", "cleanWait"}
           /\ Watches("publisher", {}) /\ UNCHANGED <<bundle, row, disk, adopted, lease, touched>>
           /\ R'.was \subseteq R.was /\ R'.fresh = {}
<1>1. CASE ListBundle
  <2> DEFINE m == [R EXCEPT !.pc = "listed", !.seen = bundle]
  <2>1. R.pc = "idle" /\ R \in Memories /\ Blank(R) /\ w' = [w EXCEPT !["recovery"] = m]
        /\ UNCHANGED <<bundle, row, disk, adopted, lease, touched>>
    BY <1>1, NothingRead DEF ListBundle, RAt, At, R, world
  <2>2. R' = m /\ Watches("publisher", {})
    BY <2>1, OtherWatches, BothAreTyped DEF R
  <2> QED BY <2>1, <2>2 DEF Memories, Blank
<1>2. CASE RecoverBundle
  <2>1. R.pc = "listed" /\ UNCHANGED <<bundle, row, disk, adopted, lease, touched>> /\ R \in Memories /\ Blank(R)
    BY <1>2, NothingRead DEF RecoverBundle, RAt, At, R, world
  <2>2. PICK pc \in {"idle", "journals", "cleanWait"} : RGoes(pc)
    BY <1>2 DEF RecoverBundle
  <2>3. pc \in Pcs
    BY DEF Pcs
  <2> QED BY <2>1, <2>2, <2>3, GoesMoves, BothAreTyped, NothingWas DEF RGoes, R, Blank
<1> QED BY <1>1, <1>2

LEMMA ReadJournalsMoves ==
    ASSUME ImportInv, ReadJournals
    PROVE  /\ R.pc = "journals" /\ Watches("publisher", {})
           /\ UNCHANGED <<bundle, row, disk, adopted, lease, touched>>
           /\ R'.was \subseteq R.was
           /\ \/ R'.pc = "attention"
              \/ R'.pc \in {"finish", "close"} /\ \A f \in Files : row[f] = "none"
              \/ /\ R'.pc = "undoWait" /\ {f \in Files : row[f] # "none"} \subseteq R'.prepared
                 /\ R'.fresh = {f \in Files : row[f] # "none"}
                 /\ \A f \in Files : R'.copy[f] = row[f]
<1>0. /\ R.pc = "journals" /\ UNCHANGED <<bundle, row, disk, adopted, lease, touched>>
      /\ R \in Memories /\ Blank(R)
  BY NothingRead DEF ReadJournals, RAt, At, R, world
<1>1. ASSUME NEW pc \in {"finish", "attention"}, RGoes(pc)
      PROVE  Watches("publisher", {}) /\ R'.pc = pc /\ R'.was = R.was
  <2>1. pc \in Pcs
    BY DEF Pcs
  <2> QED BY <1>1, <2>1, GoesMoves, BothAreTyped DEF RGoes, R
<1> DEFINE pc == IF Journalled = {} THEN "close" ELSE "undoWait"
           m == [R EXCEPT !.copy = [f \in Files |-> IF f \in Journalled THEN row[f] ELSE R.copy[f]],
                          !.fresh = R.fresh \cup Journalled,
                          !.prepared = R.prepared \cup Journalled, !.pc = pc]
<1>2. CASE w' = [w EXCEPT !["recovery"] = m]
  <2>1. R' = m /\ Watches("publisher", {})
    BY <1>2, OtherWatches, BothAreTyped DEF R
  <2>2. /\ m.pc = pc /\ m.fresh = R.fresh \cup Journalled /\ m.prepared = R.prepared \cup Journalled
        /\ m.copy = [f \in Files |-> IF f \in Journalled THEN row[f] ELSE R.copy[f]] /\ m.was = R.was
    BY <1>0 DEF Memories
  <2> HIDE DEF m
  <2>3. m.fresh = {f \in Files : row[f] # "none"} /\ \A f \in Files : m.copy[f] = row[f]
    BY <1>0, <2>2 DEF Blank, Journalled
  <2> QED BY <1>0, <2>1, <2>2, <2>3 DEF Journalled
<1>3. \/ RGoes("attention")
      \/ RGoes("finish") /\ Journalled = {}
      \/ w' = [w EXCEPT !["recovery"] = m]
  BY <1>0 DEF ReadJournals, Listed, R, Memories
<1> QED BY <1>0, <1>1, <1>2, <1>3 DEF Journalled

LEMMA FinishPreparingMoves ==
    ASSUME ImportInv, FinishPreparing
    PROVE  /\ R.pc = "finish" /\ Watches("publisher", {}) /\ UNCHANGED <<row, disk, adopted, lease, touched>>
           /\ bundle' = bundle \/ (bundle \in {"preparing", "publishing"} /\ bundle' = "rolled_back")
           /\ R'.pc \in {"idle", "attention"} /\ (R'.pc = "idle" => R' = Nobody)
<1>1. R.pc = "finish" /\ UNCHANGED <<row, disk, adopted, lease, touched>>
  BY DEF FinishPreparing, RAt, At, R, world
<1>2. PICK pc \in {"idle", "attention"} : RGoes(pc)
  BY DEF FinishPreparing
<1>3. pc \in Pcs
  BY DEF Pcs
<1>4. bundle' = bundle \/ (bundle \in {"preparing", "publishing"} /\ bundle' = "rolled_back")
  BY DEF FinishPreparing, Unfinished
<1> QED BY <1>1, <1>2, <1>3, <1>4, GoesMoves, BothAreTyped DEF RGoes, R

\* A row that is not done with.
Open(f) == row[f] \notin Closed \cup {"none"}

LEMMA SetAsideMoves ==
    ASSUME ImportInv, SetAside
    PROVE  /\ R.pc = "attention" /\ R' = Nobody /\ UNCHANGED <<disk, adopted, lease, touched>>
           /\ bundle' = IF bundle \in Closed THEN bundle ELSE "needs_attention"
           /\ \A f \in Files : row'[f] = IF Open(f) THEN "needs_attention" ELSE row[f]
           /\ Watches("publisher", {f \in Files : Open(f)})
<1> DEFINE open == {f \in Journalled : row[f] \notin Closed}
           m == [P EXCEPT !.fresh = P.fresh \ open]
<1>0. R.pc = "attention" /\ P \in Memories /\ UNCHANGED <<disk, adopted, lease, touched>>
      /\ bundle' = IF bundle \in Closed THEN bundle ELSE "needs_attention"
  BY BothAreTyped DEF SetAside, RAt, At, R, P, world
<1>1. open = {f \in Files : Open(f)}
  BY DEF Journalled, Open, Closed
<1>2. \A f \in Files : row'[f] = IF f \in open THEN "needs_attention" ELSE row[f]
  BY DEF SetAside
<1>3. w' = [w EXCEPT !["recovery"] = Nobody, !["publisher"].fresh = @ \ open]
  BY DEF SetAside
<1>4. w'["publisher"] = m /\ R' = Nobody
  BY <1>3 DEF P, R, Workers, Types, ImportInv
<1>5. /\ m.pc = P.pc /\ m.copy = P.copy /\ m.todo = P.todo /\ m.seen = P.seen /\ m.was = P.was
      /\ m.prepared = P.prepared /\ m.fresh = P.fresh \ open
  BY <1>0 DEF Memories
<1> HIDE DEF m, open
<1>6. Watches("publisher", open)
  BY <1>4, <1>5 DEF Watches, P
<1>7. \A f \in Files : f \in open <=> Open(f)
  BY <1>1
<1> QED BY <1>0, <1>1, <1>2, <1>4, <1>6, <1>7

LEMMA FaultMoves ==
    ASSUME ImportInv, Fault
    PROVE  /\ UNCHANGED <<bundle, disk, adopted, touched>>
           /\ \/ /\ P.pc \in {"mark", "list", "cleanWait", "clean"} /\ P' = Nobody /\ row' = row
                 /\ Watches("recovery", {})
              \/ P.pc \in Preparing /\ Turned("unprepare")
              \/ P.pc \in Entered /\ Turned("undoWait")
              \/ adopted /\ row' = row
              \/ \E p \in Workers, f \in Files :
                    /\ w[p].pc = "restore" /\ LastOf(w[p].todo, f) /\ lease = p /\ ~adopted
                    /\ w[p].copy[f] = "rollback_pending" /\ Ended(p, f, "needs_attention")
<1>0. UNCHANGED <<bundle, disk, adopted, touched>>
  BY DEF Fault
<1>1. CASE P.pc \in {"mark", "list"} /\ PGoes("idle") /\ UNCHANGED <<row, lease>>
  <2>1. "idle" \in Pcs
    BY DEF Pcs
  <2> QED BY <1>0, <1>1, <2>1, GoesMoves, BothAreTyped DEF PGoes, P
<1>2. CASE P.pc \in {"prepare", "stage", "staged"} /\ Unprepares /\ UNCHANGED <<row, lease>>
  <2>1. P.pc \in Preparing /\ PGoes("unprepare") /\ "unprepare" \in Pcs \ {"idle"}
    BY <1>2 DEF Preparing, Unprepares, Pcs
  <2> QED BY <1>0, <1>2, <2>1, TurnedTo
<1>3. CASE P.pc \in {"enter", "boundary", "recheck", "publish", "commit"} /\ Raises /\ UNCHANGED row
  BY <1>0, <1>3, RaisesMoves DEF Entered
<1>4. CASE P.pc \in {"cleanWait", "clean"} /\ Leaves("publisher") /\ PGoes("idle") /\ UNCHANGED row
  <2>1. "idle" \in Pcs
    BY DEF Pcs
  <2> QED BY <1>0, <1>4, <2>1, GoesMoves, BothAreTyped DEF PGoes, P
<1>5. ASSUME NEW p \in Workers, NEW f \in Files,
             At(p, "clean") /\ First(p, f) /\ Fails(p, f) /\ UNCHANGED <<row, lease>>
      PROVE  adopted /\ row' = row
  BY <1>5 DEF At, ImportInv, AdoptionInv, Cleaning, Workers, P, R
<1>6. ASSUME NEW p \in Workers, NEW f \in Files,
             At(p, "restore") /\ Last(p, f) /\ GivesUp(p, f) /\ UNCHANGED lease
      PROVE  /\ w[p].pc = "restore" /\ LastOf(w[p].todo, f) /\ lease = p /\ ~adopted
             /\ w[p].copy[f] = "rollback_pending" /\ Ended(p, f, "needs_attention")
  <2>1. w[p].pc = "restore" /\ LastOf(w[p].todo, f)
    BY <1>6 DEF At, Last, LastOf
  <2> QED BY <1>6, <2>1, RestoringNow, GivesUpMoves
<1> QED BY <1>0, <1>1, <1>2, <1>3, <1>4, <1>5, <1>6 DEF Fault

LEMMA StopMoves ==
    ASSUME Stop
    PROVE  /\ UNCHANGED <<bundle, row, disk, adopted, touched>> /\ lease' = "none"
           /\ \A p \in Workers : w'[p] = Nobody
           /\ P' = Nobody /\ R' = Nobody
BY DEF Stop, P, R, Workers

\* Nothing of the bundle changes.
LEMMA WorldMoves ==
    ASSUME ImportInv, Started \/ Restart \/ ChangePolicy \/ UNCHANGED vars
    PROVE  /\ UNCHANGED <<bundle, row, disk, adopted, lease, w, touched>>
           /\ \A p \in Workers : w'[p] = w[p] /\ Watches(p, {})
           /\ P' = P /\ R' = R
<1>1. UNCHANGED <<bundle, row, disk, adopted, lease, w, touched>>
  BY DEF Started, Restart, ChangePolicy, vars
<1> QED BY <1>1, BothAreTyped DEF Watches, Memories, P, R

-----------------------------------------------------------------------------
(* What other programs wrote *)

\* The temporary files are the publisher's own.
OwnTemps(f) == disk[f].temp \in {"missing", "staged"} /\ disk[f].sidecarTemp \in {"missing", "art"}

\* A file is renamed to its destination only where nothing of another program is.
ForeignInv ==
    /\ \A f \in Files : OwnTemps(f)
    /\ \A f \in Files : ~Empty(f, "backup") => ~Holds(f, "destination", "foreign")
    /\ P.pc = "publish" =>
          \A f \in P.todo : ~Same(f) /\ P.copy[f] = "validated" => ~Holds(f, "destination", "foreign")

Survives ==
    \A f \in Files, place \in Places :
       Holds(f, place, "foreign") => \E other \in Places : disk'[f][other] = "foreign"

\* What the call still has to publish.
SameCall ==
    P'.pc = "publish" =>
       P.pc = "publish" /\ P'.todo \subseteq P.todo
       /\ \A f \in P'.todo : P'.copy[f] \in {P.copy[f], "replacement_backed_up"}

LEMMA BothTypedNext ==
    ASSUME ImportInv'
    PROVE  P' \in Memories /\ R' \in Memories /\ P'.todo \subseteq Files /\ R'.todo \subseteq Files
<1>1. w' \in [Workers -> Memories]
  BY DEF ImportInv, Types
<1>2. P' \in Memories /\ R' \in Memories
  BY <1>1 DEF P, R, Workers
<1> QED BY <1>2 DEF Memories

LEMMA BytesStay ==
    ASSUME ImportInv, ImportInv', ForeignInv, disk' = disk, SameCall
    PROVE  ForeignInv' /\ Survives
<1>1. Survives
  BY DEF Survives, Holds
<1> QED BY <1>1 DEF ForeignInv, OwnTemps, Empty, Holds, SameCall

\* One file changes, and no bytes of another program go.
LEMMA OneFile ==
    ASSUME ImportInv', ForeignInv, NEW f \in Files, SameCall,
           \A g \in Files : g # f => disk'[g] = disk[g],
           \A place \in Places : Holds(f, place, "foreign") => \E other \in Places : disk'[f][other] = "foreign",
           OwnTemps(f)', ~Empty(f, "backup")' => ~Holds(f, "destination", "foreign")',
           P'.pc = "publish" /\ f \in P'.todo /\ ~Same(f) /\ P'.copy[f] = "validated"
               => ~Holds(f, "destination", "foreign")'
    PROVE  ForeignInv' /\ Survives
<1>1. Survives
  BY DEF Survives, Holds
<1>2. ASSUME NEW g \in Files
      PROVE  OwnTemps(g)' /\ (~Empty(g, "backup")' => ~Holds(g, "destination", "foreign")')
  BY DEF ForeignInv, OwnTemps, Empty, Holds
<1>3. ASSUME P'.pc = "publish", NEW g \in P'.todo, ~Same(g), P'.copy[g] = "validated", g \in Files
      PROVE  ~Holds(g, "destination", "foreign")'
  BY <1>3 DEF ForeignInv, Holds, SameCall
<1>4. P'.pc = "publish" => P'.todo \subseteq Files
  BY BothTypedNext
<1> QED BY <1>1, <1>2, <1>3, <1>4 DEF ForeignInv

LEMMA MovesOne ==
    ASSUME Types, NEW f \in Files, NEW from \in Places, NEW to \in Places, from # to, Moves(f, from, to)
    PROVE  /\ \A g \in Files : g # f => disk'[g] = disk[g]
           /\ disk'[f][to] = disk[f][from] /\ disk'[f][from] = "missing"
           /\ \A place \in Places : place \notin {from, to} => disk'[f][place] = disk[f][place]
<1>1. disk \in [Files -> [Places -> Bytes]]
  BY DEF Types
<1> QED BY <1>1 DEF Moves

LEMMA UnlinksOne ==
    ASSUME Types, NEW f \in Files, NEW place \in Places, Unlinks(f, place)
    PROVE  /\ \A g \in Files : g # f => disk'[g] = disk[g]
           /\ disk'[f][place] = "missing"
           /\ \A other \in Places : other # place => disk'[f][other] = disk[f][other]
<1>1. disk \in [Files -> [Places -> Bytes]]
  BY DEF Types
<1> QED BY <1>1 DEF Unlinks

LEMMA Moved ==
    ASSUME Types, NEW f \in Files, NEW from \in Places, NEW to \in Places, from # to,
           Moves(f, from, to), ~Holds(f, to, "foreign")
    PROVE  /\ \A g \in Files : g # f => disk'[g] = disk[g]
           /\ disk'[f][to] = disk[f][from] /\ disk'[f][from] = "missing"
           /\ \A place \in Places : place \notin {from, to} => disk'[f][place] = disk[f][place]
           /\ \A place \in Places : Holds(f, place, "foreign") =>
                 \E other \in Places : disk'[f][other] = "foreign"
BY MovesOne DEF Holds

LEMMA Unlinked ==
    ASSUME Types, NEW f \in Files, NEW place \in Places, Unlinks(f, place), ~Holds(f, place, "foreign")
    PROVE  /\ \A g \in Files : g # f => disk'[g] = disk[g]
           /\ disk'[f][place] = "missing"
           /\ \A other \in Places : other # place => disk'[f][other] = disk[f][other]
           /\ \A here \in Places : Holds(f, here, "foreign") =>
                 \E other \in Places : disk'[f][other] = "foreign"
BY UnlinksOne DEF Holds

\* Whoever does not publish has nothing left to publish.
LEMMA SameCallIf ==
    /\ P' = P => SameCall
    /\ P'.pc # "publish" => SameCall
    /\ \A gone : Watches("publisher", gone) => SameCall
BY DEF SameCall, Watches, P

LEMMA AdoptedCall ==
    ASSUME ImportInv', adopted'
    PROVE  SameCall
BY DEF SameCall, ImportInv, AdoptionInv, Cleaning

LEMMA PreparingBytes ==
    ASSUME ImportInv, ImportInv', ForeignInv,
           Call \/ Mark \/ List \/ Unprepare \/ Enter
           \/ \E f \in Files : PrepareFile(f) \/ MarkStaged(f) \/ SkipBoundary(f)
    PROVE  ForeignInv' /\ Survives
<1>1. CASE Call
  BY <1>1, CallMoves, SameCallIf, BytesStay
<1>2. CASE Mark
  BY <1>2, MarkMoves, SameCallIf, BytesStay, NothingWas
<1>3. CASE List
  BY <1>3, ListMoves, SameCallIf, BytesStay, NothingWas DEF OnTo, P
<1>4. CASE Unprepare
  BY <1>4, UnprepareMoves, SameCallIf, BytesStay DEF OnTo, P
<1>5. CASE Enter
  BY <1>5, EnterMoves, SameCallIf, BytesStay DEF OnTo, P, Turned
<1>6. ASSUME NEW f \in Files, PrepareFile(f)
      PROVE  ForeignInv' /\ Survives
  <2>1. disk' = disk /\ P'.pc # "publish"
    BY <1>6, PrepareMoves DEF OnTo, P
  <2> QED BY <2>1, SameCallIf, BytesStay
<1>7. ASSUME NEW f \in Files, MarkStaged(f)
      PROVE  ForeignInv' /\ Survives
  BY <1>7, MarkStagedMoves, SameCallIf, BytesStay DEF OnTo, P, Turned
<1>8. ASSUME NEW f \in Files, SkipBoundary(f)
      PROVE  ForeignInv' /\ Survives
  BY <1>8, SkipMoves, SameCallIf, BytesStay
<1> QED BY <1>1, <1>2, <1>3, <1>4, <1>5, <1>6, <1>7, <1>8

LEMMA StageBytes ==
    ASSUME ImportInv, ImportInv', ForeignInv, NEW f \in Files, Stage(f)
    PROVE  ForeignInv' /\ Survives
<1>1. SameCall
  BY StageMoves, SameCallIf DEF Turned, OnTo, P
<1>2. CASE disk' = disk
  BY <1>1, <1>2, BytesStay
<1>3. CASE disk' = [disk EXCEPT ![f].temp = "staged",
                                ![f].sidecarTemp = IF HasSidecar(f) THEN "art" ELSE @]
  <2>1. disk \in [Files -> [Places -> Bytes]]
    BY BothAreTyped
  <2>2. /\ \A g \in Files : g # f => disk'[g] = disk[g]
        /\ disk'[f].temp = "staged" /\ disk'[f].sidecarTemp \in {"art", disk[f].sidecarTemp}
        /\ \A place \in Places \ {"temp", "sidecarTemp"} : disk'[f][place] = disk[f][place]
    BY <1>3, <2>1 DEF Places
  <2>3. OwnTemps(f) /\ (~Empty(f, "backup") => ~Holds(f, "destination", "foreign"))
    BY DEF ForeignInv
  <2>4. P'.pc # "publish"
    BY StageMoves DEF Turned, OnTo, P
  <2>5. \A place \in Places : Holds(f, place, "foreign") => disk'[f][place] = "foreign"
    BY <2>2, <2>3 DEF OwnTemps, Holds
  <2>6. OwnTemps(f)' /\ (~Empty(f, "backup")' => ~Holds(f, "destination", "foreign")')
    BY <2>2, <2>3 DEF OwnTemps, Holds, Empty, Places
  <2> QED BY <1>1, <2>2, <2>4, <2>5, <2>6, OneFile
<1> QED BY <1>2, <1>3, StageMoves

LEMMA RecheckBytes ==
    ASSUME ImportInv, ImportInv', ForeignInv, Recheck
    PROVE  ForeignInv' /\ Survives
<1>1. CASE P'.pc = "undoWait" /\ disk' = disk
  BY <1>1, SameCallIf, BytesStay
<1>2. CASE /\ \A f \in Files : Publishable(f)
           /\ P'.todo = {f \in Files : P.copy[f] # "published"}
           /\ disk' = [f \in Files |-> IF f \in P'.todo THEN disk[f]
                                       ELSE [disk[f] EXCEPT !.sidecarTemp = "missing"]]
  <2>1. disk \in [Files -> [Places -> Bytes]] /\ P'.copy = P.copy
    BY BothAreTyped, RecheckMoves DEF RowStays, P
  <2>2. \A f \in Files : /\ disk'[f].sidecarTemp \in {"missing", disk[f].sidecarTemp}
                         /\ \A place \in Places \ {"sidecarTemp"} : disk'[f][place] = disk[f][place]
    BY <1>2, <2>1 DEF Places
  <2>3. \A f \in Files : OwnTemps(f)' /\ (~Empty(f, "backup")' => ~Holds(f, "destination", "foreign")')
    BY <2>2 DEF ForeignInv, OwnTemps, Holds, Empty, Places
  <2>4. \A f \in Files, place \in Places : Holds(f, place, "foreign") => disk'[f][place] = "foreign"
    BY <2>2 DEF ForeignInv, OwnTemps, Holds
  <2>5. \A f \in P'.todo : ~Same(f) /\ P'.copy[f] = "validated" => ~Holds(f, "destination", "foreign")'
    BY <1>2, <2>1, <2>2 DEF Publishable, Empty, Holds, Places
  <2> QED BY <2>3, <2>4, <2>5 DEF ForeignInv, Survives
<1> QED BY <1>1, <1>2, RecheckMoves

LEMMA BackUpBytes ==
    ASSUME ImportInv, ImportInv', ForeignInv, NEW f \in Files, BackUp(f)
    PROVE  ForeignInv' /\ Survives
<1>1. Moves(f, "destination", "backup") /\ P' = P /\ {"destination", "backup"} \subseteq Places /\ Types
      /\ ~Holds(f, "backup", "foreign")
  BY FileMoves DEF BackUp, Places, ImportInv, DiskInv, Holds
<1>2. /\ \A g \in Files : g # f => disk'[g] = disk[g]
      /\ disk'[f].destination = "missing"
      /\ \A place \in Places : place \notin {"destination", "backup"} => disk'[f][place] = disk[f][place]
      /\ \A place \in Places : Holds(f, place, "foreign") =>
            \E other \in Places : disk'[f][other] = "foreign"
  BY <1>1, Moved
<1>3. OwnTemps(f)' /\ ~Holds(f, "destination", "foreign")'
  BY <1>2 DEF ForeignInv, OwnTemps, Places, Holds
<1> QED BY <1>1, <1>2, <1>3, OneFile, SameCallIf

LEMMA PlaceBytes ==
    ASSUME ImportInv, ImportInv', ForeignInv, NEW f \in Files, Place(f)
    PROVE  ForeignInv' /\ Survives
<1>1. /\ Moves(f, "temp", "destination") /\ P' = P /\ {"temp", "destination"} \subseteq Places /\ Types
      /\ P.pc = "publish" /\ f \in P.todo /\ P.copy[f] = IF Same(f) THEN "replacement_backed_up" ELSE "validated"
  BY FileMoves DEF Place, Places, ImportInv
<1>2. ~Holds(f, "destination", "foreign")
  <2>1. Same(f) => ~Empty(f, "backup")
    BY <1>1 DEF ImportInv, PublishInv, Replaceable
  <2> QED BY <1>1, <2>1 DEF ForeignInv
<1>3. /\ \A g \in Files : g # f => disk'[g] = disk[g]
      /\ disk'[f].destination = disk[f].temp /\ disk'[f].temp = "missing"
      /\ \A place \in Places : place \notin {"temp", "destination"} => disk'[f][place] = disk[f][place]
      /\ \A place \in Places : Holds(f, place, "foreign") =>
            \E other \in Places : disk'[f][other] = "foreign"
  BY <1>1, <1>2, Moved
<1>4. OwnTemps(f)' /\ ~Holds(f, "destination", "foreign")'
  BY <1>3 DEF ForeignInv, OwnTemps, Places, Holds
<1> QED BY <1>1, <1>3, <1>4, OneFile, SameCallIf

LEMMA PlaceSidecarBytes ==
    ASSUME ImportInv, ImportInv', ForeignInv, NEW f \in Files, PlaceSidecar(f)
    PROVE  ForeignInv' /\ Survives
<1>1. CASE Turned("undoWait") /\ disk' = disk
  BY <1>1, SameCallIf, BytesStay DEF Turned, OnTo, P
<1>2. CASE P' = P /\ Empty(f, "sidecarPlace") /\ Moves(f, "sidecarTemp", "sidecarPlace")
  <2>1. {"sidecarTemp", "sidecarPlace"} \subseteq Places /\ Types /\ ~Holds(f, "sidecarPlace", "foreign")
    BY <1>2 DEF Places, ImportInv, Holds, Empty
  <2>2. /\ \A g \in Files : g # f => disk'[g] = disk[g]
        /\ disk'[f].sidecarTemp = "missing"
        /\ \A place \in Places : place \notin {"sidecarTemp", "sidecarPlace"} => disk'[f][place] = disk[f][place]
        /\ \A place \in Places : Holds(f, place, "foreign") =>
              \E other \in Places : disk'[f][other] = "foreign"
    BY <1>2, <2>1, Moved
  <2>3. OwnTemps(f)' /\ (~Empty(f, "backup")' => ~Holds(f, "destination", "foreign")')
        /\ (P'.pc = "publish" /\ f \in P'.todo /\ ~Same(f) /\ P'.copy[f] = "validated"
               => ~Holds(f, "destination", "foreign")')
    BY <1>2, <2>2 DEF ForeignInv, OwnTemps, Places, Holds, Empty
  <2> QED BY <1>2, <2>2, <2>3, OneFile, SameCallIf
<1> QED BY <1>1, <1>2, SidecarMoves

LEMMA MarksBytes ==
    ASSUME ImportInv, ImportInv', ForeignInv,
           Commit \/ \E f \in Files : MarkBackedUp(f) \/ MarkPublished(f)
    PROVE  ForeignInv' /\ Survives
<1>1. CASE Commit
  BY <1>1, CommitMoves, AdoptedCall, SameCallIf, BytesStay DEF Turned, OnTo, P
<1>2. ASSUME NEW f \in Files, MarkBackedUp(f)
      PROVE  ForeignInv' /\ Survives
  <2>1. disk' = disk
    BY <1>2, MarkBackedUpMoves
  <2>2. CASE Turned("undoWait")
    BY <2>1, <2>2, SameCallIf, BytesStay DEF Turned, OnTo, P
  <2>3. CASE /\ RowGoes("publisher", f, "replacement_backed_up")
             /\ IF P.pc = "publish" THEN OnTo("publisher", "publish", P.todo, P.prepared)
                ELSE OnTo("publisher", IF P.todo = {f} THEN "recheck" ELSE "boundary",
                          P.todo \ {f}, P.prepared)
    <3>1. P'.copy = [P.copy EXCEPT ![f] = "replacement_backed_up"] /\ P \in Memories
      BY <2>3, BothAreTyped DEF RowGoes, P
    <3>2. P'.pc = "publish" => P.pc = "publish" /\ P'.todo = P.todo
      BY <2>3 DEF OnTo, P
    <3>3. \A g \in Files : P'.copy[g] \in {P.copy[g], "replacement_backed_up"}
      BY <3>1 DEF Memories
    <3>4. SameCall
      BY <3>2, <3>3, BothTypedNext DEF SameCall
    <3> QED BY <2>1, <3>4, BytesStay
  <2> QED BY <1>2, <2>2, <2>3, MarkBackedUpMoves
<1>3. ASSUME NEW f \in Files, MarkPublished(f)
      PROVE  ForeignInv' /\ Survives
  <2>1. disk' = disk
    BY <1>3, MarkPublishedMoves
  <2>2. CASE Turned("undoWait")
    BY <2>1, <2>2, SameCallIf, BytesStay DEF Turned, OnTo, P
  <2>3. CASE /\ RowGoes("publisher", f, "published")
             /\ OnTo("publisher", IF P.todo = {f} THEN IF P.pc = "boundary" THEN "recheck" ELSE "commit"
                                  ELSE P.pc, P.todo \ {f}, P.prepared)
    <3>1. P'.copy = [P.copy EXCEPT ![f] = "published"] /\ P \in Memories
      BY <2>3, BothAreTyped DEF RowGoes, P
    <3>2. P'.pc = "publish" => P.pc = "publish"
      BY <2>3 DEF OnTo, P
    <3>3. P'.todo = P.todo \ {f}
      BY <2>3 DEF OnTo, P
    <3>4. \A g \in P'.todo : P'.copy[g] = P.copy[g]
      BY <3>1, <3>3 DEF Memories
    <3>5. SameCall
      BY <3>2, <3>3, <3>4 DEF SameCall
    <3> QED BY <2>1, <3>5, BytesStay
  <2> QED BY <1>3, <2>2, <2>3, MarkPublishedMoves
<1> QED BY <1>1, <1>2, <1>3

LEMMA CleanUpBytes ==
    ASSUME ImportInv, ImportInv', ForeignInv, NEW p \in Workers, NEW f \in Files, CleanUp(p, f)
    PROVE  ForeignInv' /\ Survives
<1>1. adopted /\ adopted' /\ SameCall /\ Types
  BY AdoptedCall DEF CleanUp, At, ImportInv, AdoptionInv, Cleaning, Workers, P, R
<1>2. CASE disk' = disk
  BY <1>1, <1>2, BytesStay
<1>3. ASSUME NEW i \in DOMAIN Waste(f), Holds(f, Waste(f)[i][1], Waste(f)[i][2]), Unlinks(f, Waste(f)[i][1])
      PROVE  ForeignInv' /\ Survives
  <2>1. /\ DOMAIN Waste(f) = 1 .. 3 /\ Waste(f)[1] = <<"source", "input">>
        /\ Waste(f)[2] = <<IF Same(f) THEN "backup" ELSE "old", "replaced">>
        /\ Waste(f)[3] = <<"sidecar", "art">>
    BY DEF Waste
  <2>2. PICK place \in {"source", "backup", "old", "sidecar"} :
           Unlinks(f, place) /\ ~Holds(f, place, "foreign")
    BY <1>3, <2>1 DEF Holds
  <2>3. place \in Places
    BY DEF Places
  <2>4. /\ \A g \in Files : g # f => disk'[g] = disk[g]
        /\ disk'[f][place] = "missing"
        /\ \A other \in Places : other # place => disk'[f][other] = disk[f][other]
        /\ \A here \in Places : Holds(f, here, "foreign") =>
              \E other \in Places : disk'[f][other] = "foreign"
    BY <1>1, <2>2, <2>3, Unlinked
  <2>5. OwnTemps(f)' /\ (~Empty(f, "backup")' => ~Holds(f, "destination", "foreign")')
    BY <2>4 DEF ForeignInv, OwnTemps, Places, Holds, Empty
  <2>6. P'.pc # "publish"
    BY <1>1 DEF ImportInv, AdoptionInv, Cleaning
  <2> QED BY <1>1, <2>4, <2>5, <2>6, OneFile
<1> QED BY <1>2, <1>3 DEF CleanUp

\* The publisher is not publishing when it shares a step with recovery.
LEMMA SharedCall ==
    ASSUME NEW p \in Workers, w'[p].pc # "publish", NEW gone, \A q \in Workers \ {p} : Watches(q, gone)
    PROVE  SameCall
<1>1. p = "publisher" \/ Watches("publisher", gone)
  BY DEF Workers
<1> QED BY <1>1, SameCallIf DEF P

LEMMA EndedCall ==
    ASSUME NEW p \in Workers, NEW f \in Files, NEW state, Ended(p, f, state)
    PROVE  SameCall
BY SharedCall DEF Ended, OnTo, RowGoes, RowStays

LEMMA SharedBytes ==
    ASSUME ImportInv, ImportInv', ForeignInv, NEW p \in Workers,
           BeginCleanup(p) \/ FinishCleanup(p) \/ BeginUndo(p) \/ CloseUndo(p)
           \/ \E f \in Files : Undo(p, f)
    PROVE  ForeignInv' /\ Survives
<1>1. CASE BeginCleanup(p) \/ FinishCleanup(p)
  <2>1. adopted /\ adopted' = adopted /\ disk' = disk
    BY <1>1 DEF BeginCleanup, FinishCleanup, At, ImportInv, AdoptionInv, Cleaning, Workers, P, R
  <2> QED BY <2>1, AdoptedCall, BytesStay
<1>2. CASE BeginUndo(p)
  <2>1. disk' = disk /\ w'[p].pc # "publish" /\ \A q \in Workers \ {p} : Watches(q, {})
    BY <1>2, BeginUndoMoves DEF RowStays, OnTo
  <2> QED BY <2>1, SharedCall, BytesStay
<1>3. CASE CloseUndo(p)
  <2>1. disk' = disk /\ w'[p].pc # "publish" /\ \A q \in Workers \ {p} : Watches(q, {})
    BY <1>3, CloseUndoMoves
  <2> QED BY <2>1, SharedCall, BytesStay
<1>4. ASSUME NEW f \in Files, Undo(p, f)
      PROVE  ForeignInv' /\ Survives
  <2>1. disk' = disk /\ w'[p].pc # "publish"
    BY <1>4, UndoMoves DEF OnTo
  <2>2. (\A q \in Workers \ {p} : Watches(q, {})) \/ (\A q \in Workers \ {p} : Watches(q, {f}))
    BY <1>4, UndoMoves DEF RowStays, RowGoes
  <2> QED BY <2>1, <2>2, SharedCall, BytesStay
<1> QED BY <1>1, <1>2, <1>3, <1>4

LEMMA RestoreBytes ==
    ASSUME ImportInv, ImportInv', ForeignInv, NEW p \in Workers, NEW f \in Files, Restore(p, f)
    PROVE  ForeignInv' /\ Survives
<1>0. Types
  BY DEF ImportInv
<1>1. CASE Ended(p, f, "rolled_back") \/ Ended(p, f, "needs_attention")
  <2>1. SameCall
    BY <1>1, EndedCall
  <2>2. disk' = disk
    BY <1>1, RestoreMoves DEF Ended, OnTo
  <2> QED BY <2>1, <2>2, BytesStay
<1>2. CASE /\ Restores(p, f) /\ RowStays(p) /\ OnTo(p, "restore", w[p].todo, w[p].prepared)
  <2>1. SameCall
    BY <1>2, SharedCall DEF RowStays, OnTo
  <2>2. PICK place \in {"destination", "sidecarPlace", "sidecarTemp", "temp"} :
           Unlinks(f, place) /\ ~Holds(f, place, "foreign")
    BY <1>2 DEF Restores, ForeignInv, OwnTemps, Holds
  <2>3. place \in Places
    BY DEF Places
  <2>4. /\ \A g \in Files : g # f => disk'[g] = disk[g]
        /\ disk'[f][place] = "missing"
        /\ \A other \in Places : other # place => disk'[f][other] = disk[f][other]
        /\ \A here \in Places : Holds(f, here, "foreign") =>
              \E other \in Places : disk'[f][other] = "foreign"
    BY <1>0, <2>2, <2>3, Unlinked
  <2>5. /\ OwnTemps(f)' /\ (~Empty(f, "backup")' => ~Holds(f, "destination", "foreign")')
        /\ ~Holds(f, "destination", "foreign") => ~Holds(f, "destination", "foreign")'
    BY <2>4 DEF ForeignInv, OwnTemps, Places, Holds, Empty
  <2>6. P'.pc = "publish" /\ f \in P'.todo /\ ~Same(f) /\ P'.copy[f] = "validated"
        => ~Holds(f, "destination", "foreign")'
    BY <2>1, <2>5 DEF SameCall, ForeignInv
  <2> QED BY <2>1, <2>4, <2>5, <2>6, OneFile
<1>3. CASE /\ ~Empty(f, "backup") /\ Moves(f, "backup", "destination")
           /\ RowStays(p) /\ OnTo(p, "restore", w[p].todo, w[p].prepared)
  <2>1. SameCall
    BY <1>3, SharedCall DEF RowStays, OnTo
  <2>2. /\ {"backup", "destination"} \subseteq Places /\ ~Holds(f, "destination", "foreign")
        /\ ~Holds(f, "backup", "foreign")
    BY <1>3 DEF ForeignInv, Places, ImportInv, DiskInv, Holds
  <2>3. /\ \A g \in Files : g # f => disk'[g] = disk[g]
        /\ disk'[f].destination = disk[f].backup
        /\ \A place \in Places : place \notin {"backup", "destination"} => disk'[f][place] = disk[f][place]
        /\ \A place \in Places : Holds(f, place, "foreign") =>
              \E other \in Places : disk'[f][other] = "foreign"
    BY <1>0, <1>3, <2>2, Moved
  <2>4. OwnTemps(f)' /\ ~Holds(f, "destination", "foreign")'
    BY <2>2, <2>3 DEF ForeignInv, OwnTemps, Places, Holds
  <2> QED BY <2>1, <2>3, <2>4, OneFile
<1> QED BY <1>1, <1>2, <1>3, RestoreMoves

LEMMA RecoveryBytes ==
    ASSUME ImportInv, ImportInv', ForeignInv, RecoveryStep
    PROVE  ForeignInv' /\ Survives
<1>1. CASE ListBundle \/ RecoverBundle
  BY <1>1, LooksMoves, SameCallIf, BytesStay
<1>2. CASE ReadJournals
  BY <1>2, ReadJournalsMoves, SameCallIf, BytesStay
<1>3. CASE FinishPreparing
  BY <1>3, FinishPreparingMoves, SameCallIf, BytesStay
<1>4. CASE SetAside
  BY <1>4, SetAsideMoves, SameCallIf, BytesStay
<1> QED BY <1>1, <1>2, <1>3, <1>4 DEF RecoveryStep

LEMMA FaultBytes ==
    ASSUME ImportInv, ImportInv', ForeignInv, Fault
    PROVE  ForeignInv' /\ Survives
<1>1. disk' = disk /\ adopted' = adopted
  BY FaultMoves
<1>2. P' = Nobody \/ Turned("unprepare") \/ Turned("undoWait") \/ adopted
      \/ \E p \in Workers, f \in Files : Ended(p, f, "needs_attention")
  BY FaultMoves
<1>3. SameCall
  BY <1>1, <1>2, SameCallIf, AdoptedCall, EndedCall, NothingWas DEF Turned, OnTo, P
<1> QED BY <1>1, <1>3, BytesStay

LEMMA OtherWritesBytes ==
    ASSUME ImportInv, ImportInv', ForeignInv, "writesWhereBackedUp" \notin Admits,
           NEW f \in Files, NEW place \in Places, OtherWrites(f, place)
    PROVE  ForeignInv' /\ Survives
<1>1. /\ disk' = [disk EXCEPT ![f][place] = "foreign"] /\ disk \in [Files -> [Places -> Bytes]]
      /\ place \in {"source", "old", "sidecar", "destination", "sidecarPlace"}
      /\ place = "destination" => Empty(f, "backup")
      /\ lease = "none" /\ P' = P
  BY BothAreTyped DEF OtherWrites, P
<1>2. /\ \A g \in Files : g # f => disk'[g] = disk[g]
      /\ disk'[f][place] = "foreign"
      /\ \A other \in Places : other # place => disk'[f][other] = disk[f][other]
  BY <1>1
<1>3. OwnTemps(f)' /\ (~Empty(f, "backup")' => ~Holds(f, "destination", "foreign")')
  BY <1>1, <1>2 DEF ForeignInv, OwnTemps, Places, Holds, Empty
<1>4. \A here \in Places : Holds(f, here, "foreign") => \E other \in Places : disk'[f][other] = "foreign"
  BY <1>2
<1>5. P'.pc # "publish"
  BY <1>1 DEF ImportInv, LeaseInv, Critical
<1> QED BY <1>1, <1>2, <1>3, <1>4, <1>5, OneFile, SameCallIf

LEMMA BytesStep ==
    ASSUME ImportInv, ImportInv', ForeignInv, "writesWhereBackedUp" \notin Admits, [Next]_vars
    PROVE  ForeignInv' /\ Survives
<1>1. CASE Call
  BY <1>1, PreparingBytes
<1>2. CASE PublisherStep
  BY <1>2, PreparingBytes, StageBytes, RecheckBytes, BackUpBytes, PlaceBytes, PlaceSidecarBytes,
     MarksBytes
     DEF PublisherStep
<1>3. CASE RecoveryStep
  BY <1>3, RecoveryBytes
<1>4. ASSUME NEW p \in Workers, SharedStep(p)
      PROVE  ForeignInv' /\ Survives
  BY <1>4, SharedBytes, CleanUpBytes, RestoreBytes DEF SharedStep
<1>5. CASE Fault
  BY <1>5, FaultBytes
<1>6. CASE Stop
  BY <1>6, StopMoves, NothingWas, SameCallIf, BytesStay
<1>7. ASSUME NEW f \in Files, NEW place \in Places, OtherWrites(f, place)
      PROVE  ForeignInv' /\ Survives
  BY <1>7, OtherWritesBytes
<1>8. CASE Started \/ Restart \/ ChangePolicy \/ UNCHANGED vars
  BY <1>8, WorldMoves, SameCallIf, BytesStay
<1> QED BY <1>1, <1>2, <1>3, <1>4, <1>5, <1>6, <1>7, <1>8 DEF Next

LEMMA BytesInit ==
    ASSUME ImportAssumption, Init
    PROVE  ForeignInv
<1>1. P = Nobody /\ "publisher" \in Workers
  BY DEF Init, P, Workers
<1>2. \A f \in Files : /\ disk[f].temp = "missing" /\ disk[f].sidecarTemp = "missing"
                       /\ disk[f].backup = "missing"
  BY DEF Init, Places
<1> QED BY <1>1, <1>2, NothingWas DEF ForeignInv, OwnTemps, Empty, Holds

\* No step of the publisher, of its rollback or of recovery destroys what another program
\* wrote, unless it writes where a file was whose backup is not yet restored
\* (_recheck_import_bundle, _restore_import_filesystem, _resume_import_cleanup).
THEOREM OthersBytesSurviveHolds ==
    ASSUME ImportAssumption, "callOverRollback" \notin Admits, "writesWhereBackedUp" \notin Admits
    PROVE  Spec => OthersBytesSurvive
<1>1. Init => ImportInv /\ ForeignInv
  BY ImportInit, BytesInit
<1>2. ImportInv /\ ForeignInv /\ [Next]_vars => ImportInv' /\ ForeignInv' /\ Survives
  BY NextKeeps, BytesStep
<1>3. Survives => [\A f \in Files, place \in Places :
                      Holds(f, place, "foreign") => \E other \in Places : disk'[f][other] = "foreign"]_disk
  BY DEF Survives
<1> QED BY <1>1, <1>2, <1>3, PTL DEF Spec, OthersBytesSurvive

-----------------------------------------------------------------------------
(* Whom the publisher's copies are lost to *)

\* The call has read the rows.
Knows == P.pc \in Preparing \cup Entered \cup {"unprepare", "undoWait", "undo", "restore"}

\* Recovery has undone the row or is at it, or it was set aside for a person.
Overtaken(f) ==
    \/ row[f] \in {"rolled_back", "needs_attention"}
    \/ row[f] = "rollback_pending" /\ R.pc = "restore" /\ LastOf(R.todo, f) /\ f \in R.fresh

\* Where the publisher's copy of a row is stale, recovery has overtaken it; a row it has not
\* read does not exist.
StaleOf(f) ==
    /\ row[f] \notin Committed
    /\ P.copy[f] # "none" /\ f \notin P.fresh => Overtaken(f)
    /\ Knows /\ P.copy[f] = "none" => row[f] = "none"
StaleInv == ~adopted => \A f \in Files : StaleOf(f)

LEMMA AdoptedForGood ==
    ASSUME [Next]_vars, adopted
    PROVE  adopted'
<1>1. Call \/ PublisherStep => adopted'
  BY DEF Call, PublisherStep, Mark, List, Unprepare, Enter, Recheck, Commit, PrepareFile, Stage,
     MarkStaged,
         SkipBoundary, BackUp, MarkBackedUp, Place, PlaceSidecar, MarkPublished
<1>2. RecoveryStep => adopted'
  BY DEF RecoveryStep, ListBundle, RecoverBundle, ReadJournals, FinishPreparing, SetAside
<1>3. ASSUME NEW p \in Workers, SharedStep(p)
      PROVE  adopted'
  BY <1>3 DEF SharedStep, BeginCleanup, FinishCleanup, BeginUndo, CloseUndo, CleanUp, Undo, Restore
<1>4. Fault \/ Stop => adopted'
  BY DEF Fault, Stop
<1>5. ASSUME NEW f \in Files, NEW place \in Places, OtherWrites(f, place)
      PROVE  adopted'
  BY <1>5 DEF OtherWrites
<1>6. Started \/ Restart \/ ChangePolicy \/ UNCHANGED vars => adopted'
  BY DEF Started, Restart, ChangePolicy, vars
<1> QED BY <1>1, <1>2, <1>3, <1>4, <1>5, <1>6 DEF Next

\* What is known before the adoption.
LEMMA CopiesNow ==
    ASSUME ImportInv, ~adopted
    PROVE  /\ P \in Memories /\ R \in Memories /\ row \in [Files -> RowStates]
           /\ \A f \in P.fresh : P.copy[f] = row[f]
           /\ \A f \in R.fresh : R.copy[f] = row[f]
           /\ P = w["publisher"] /\ R = w["recovery"] /\ Workers = {"publisher", "recovery"}
           /\ "publisher" \in Workers /\ "recovery" \in Workers
           /\ ImportAssumption
BY BothAreTyped DEF ImportInv, CopyInv, TrueCopy, P, R, Workers

\* The publisher goes on, and reads and writes no row.
LEMMA StaleStays ==
    ASSUME ImportInv, ~adopted, StaleInv, RowStays("publisher"), Knows' => Knows
    PROVE  \A f \in Files : StaleOf(f)'
<1>1. Watches("recovery", {})
  BY DEF RowStays, Workers
<1>2. /\ row' = row /\ P'.copy = P.copy /\ P'.fresh = P.fresh
      /\ R'.pc = R.pc /\ R'.todo = R.todo /\ R'.fresh = R.fresh
  BY <1>1 DEF RowStays, Watches, P, R
<1> HIDE DEF Knows
<1> QED BY <1>2 DEF StaleInv, StaleOf, Overtaken

\* It has read none.
LEMMA StaleBlank ==
    ASSUME ImportInv, ~adopted, StaleInv, row' = row, ~Knows', \A f \in Files : P'.copy[f] = "none"
    PROVE  \A f \in Files : StaleOf(f)'
BY DEF StaleInv, StaleOf

LEMMA StaleWrites ==
    ASSUME ImportInv, ~adopted, StaleInv, NEW f \in Files, NEW state \in RowStates \ (Committed \cup {"none"}),
           RowGoes("publisher", f, state), Knows' => Knows
    PROVE  \A g \in Files : StaleOf(g)'
<1>1. Watches("recovery", {f})
  BY DEF RowGoes, Workers
<1>2. /\ row' = [row EXCEPT ![f] = state]
      /\ P'.copy = [P.copy EXCEPT ![f] = state] /\ P'.fresh = P.fresh \cup {f}
      /\ R'.pc = R.pc /\ R'.todo = R.todo /\ R'.fresh = R.fresh \ {f}
  BY <1>1 DEF RowGoes, Watches, P, R
<1>3. /\ row'[f] = state /\ P'.copy[f] = state /\ f \in P'.fresh
      /\ \A g \in Files \ {f} : row'[g] = row[g] /\ P'.copy[g] = P.copy[g]
                                /\ (g \in P'.fresh <=> g \in P.fresh) /\ (g \in R'.fresh <=> g \in R.fresh)
  BY <1>2, CopiesNow DEF Memories
<1>4. StaleOf(f)'
  BY <1>3 DEF StaleOf
<1>5. ASSUME NEW g \in Files \ {f}
      PROVE  StaleOf(g)'
  <2>1. StaleOf(g)
    BY DEF StaleInv
  <2> HIDE DEF Knows
  <2> QED BY <1>2, <1>3, <1>5, <2>1 DEF StaleOf, Overtaken
<1> QED BY <1>4, <1>5

\* Recovery goes on, and writes no row.
LEMMA StaleRecoveryStays ==
    ASSUME ImportInv, ~adopted, StaleInv, row' = row, Watches("publisher", {}),
           R.pc = "restore" => R'.pc = "restore" /\ R'.todo = R.todo /\ R'.fresh = R.fresh
    PROVE  \A f \in Files : StaleOf(f)'
<1>1. P'.pc = P.pc /\ P'.copy = P.copy /\ P'.fresh = P.fresh
  BY DEF Watches, P
<1> QED BY <1>1 DEF StaleInv, StaleOf, Overtaken, Knows

\* Recovery is done with a row.
LEMMA StaleEnded ==
    ASSUME ImportInv, ~adopted, StaleInv, NEW p \in Workers, NEW f \in Files, w[p].pc = "restore",
           LastOf(w[p].todo, f), w[p].copy[f] = "rollback_pending",
           NEW state \in {"rolled_back", "needs_attention"}, Ended(p, f, state)
    PROVE  \A g \in Files : StaleOf(g)'
<1>0. /\ P = w["publisher"] /\ R = w["recovery"] /\ w'[p].pc = "undo"
      /\ state \in RowStates \ (Committed \cup {"none"})
  BY DEF P, R, Ended, OnTo, RowStates, Closed, Committed
<1>1. CASE p = "publisher"
  <2>1. Knows' => Knows
    BY <1>0, <1>1 DEF Knows
  <2> QED BY <1>0, <1>1, <2>1, StaleWrites, StaleStays DEF Ended
<1>2. CASE p = "recovery"
  <2>1. \A g \in Files \ {f} : ~LastOf(R.todo, g)
    BY <1>0, <1>2, OneLast, CopiesNow DEF Memories
  <2>2. CASE f \in R.fresh
    <3>1. /\ row' = [row EXCEPT ![f] = state] /\ Watches("publisher", {f}) /\ row[f] = "rollback_pending"
      BY <1>0, <1>2, <2>2, CopiesNow DEF Ended, RowGoes
    <3>2. row'[f] = state /\ \A g \in Files \ {f} : row'[g] = row[g]
      BY <3>1, CopiesNow
    <3>3. P'.pc = P.pc /\ P'.copy = P.copy /\ P'.fresh = P.fresh \ {f}
      BY <3>1 DEF Watches, P
    <3>4. StaleOf(f)'
      BY <1>0, <3>1, <3>2, <3>3 DEF StaleInv, StaleOf, Overtaken, Knows
    <3>5. ASSUME NEW g \in Files \ {f}
          PROVE  StaleOf(g)'
      BY <2>1, <3>2, <3>3 DEF StaleInv, StaleOf, Overtaken, Knows
    <3> QED BY <3>4, <3>5
  <2>3. CASE f \notin R.fresh
    <3>1. row' = row /\ Watches("publisher", {})
      BY <1>0, <1>2, <2>3, CopiesNow DEF Ended, RowStays
    <3>2. P'.pc = P.pc /\ P'.copy = P.copy /\ P'.fresh = P.fresh
      BY <3>1 DEF Watches, P
    <3> QED BY <2>1, <2>3, <3>1, <3>2 DEF StaleInv, StaleOf, Overtaken, Knows
  <2> QED BY <2>2, <2>3
<1> QED BY <1>1, <1>2 DEF Workers

LEMMA StalePreparing ==
    ASSUME ImportInv, ~adopted, StaleInv,
           Call \/ Mark \/ List \/ Unprepare \/ Enter \/ Recheck
           \/ \E f \in Files : SkipBoundary(f) \/ Stage(f) \/ BackUp(f) \/ Place(f) \/ PlaceSidecar(f)
    PROVE  \A f \in Files : StaleOf(f)'
<1>1. CASE Call
  BY <1>1, CallMoves, StaleBlank DEF Knows, Preparing, Entered
<1>2. CASE Mark
  <2>1. P' = Nobody => \A f \in Files : StaleOf(f)'
    BY <1>2, MarkMoves, StaleBlank, NothingWas DEF Knows, Preparing, Entered
  <2>2. P' # Nobody => RowStays("publisher") /\ P'.pc = "list"
    BY <1>2, MarkMoves, CopiesNow DEF RowStays, P
  <2> QED BY <2>1, <2>2, StaleStays DEF Knows, Preparing, Entered
<1>3. CASE List
  <2>1. CASE P' = Nobody
    BY <1>3, <2>1, ListMoves, StaleBlank, NothingWas DEF Knows, Preparing, Entered
  <2>2. CASE /\ P'.fresh = {f \in Files : row[f] # "none"}
             /\ \A f \in Files : P'.copy[f] = row[f]
    <3>1. row' = row
      BY <1>3, ListMoves
    <3> QED BY <2>2, <3>1 DEF StaleInv, StaleOf
  <2> QED BY <1>3, <2>1, <2>2, ListMoves
<1>4. CASE Unprepare
  <2>1. /\ row' = row /\ Watches("recovery", {}) /\ P.pc = "unprepare"
        /\ \A f \in Files :
              IF row[f] # "none" /\ f \notin P.prepared
              THEN P'.copy[f] = row[f] /\ f \in P'.fresh
              ELSE P'.copy[f] = P.copy[f] /\ (f \in P'.fresh <=> f \in P.fresh)
    BY <1>4, UnprepareMoves
  <2>2. R'.pc = R.pc /\ R'.todo = R.todo /\ R'.fresh = R.fresh
    BY <2>1 DEF Watches, R
  <2> QED BY <2>1, <2>2 DEF StaleInv, StaleOf, Overtaken, Knows
<1>5. CASE Enter
  BY <1>5, EnterMoves, StaleStays DEF Knows, Entered
<1>6. CASE Recheck
  BY <1>6, RecheckMoves, StaleStays DEF Knows, Entered
<1>7. ASSUME NEW f \in Files, SkipBoundary(f)
      PROVE  \A g \in Files : StaleOf(g)'
  BY <1>7, SkipMoves, StaleStays DEF Knows, Entered
<1>8. ASSUME NEW f \in Files, Stage(f)
      PROVE  \A g \in Files : StaleOf(g)'
  BY <1>8, StageMoves, StaleStays DEF Knows, Preparing, Turned
<1>9. ASSUME NEW f \in Files, BackUp(f) \/ Place(f)
      PROVE  \A g \in Files : StaleOf(g)'
  BY <1>9, FileMoves, StaleStays DEF Knows, Entered
<1>10. ASSUME NEW f \in Files, PlaceSidecar(f)
       PROVE  \A g \in Files : StaleOf(g)'
  BY <1>10, SidecarMoves, StaleStays DEF Knows, Entered
<1> QED BY <1>1, <1>2, <1>3, <1>4, <1>5, <1>6, <1>7, <1>8, <1>9, <1>10

LEMMA StaleMarks ==
    ASSUME ImportInv, ~adopted, ~adopted', StaleInv,
           Commit \/ \E f \in Files : PrepareFile(f) \/ MarkStaged(f) \/ MarkBackedUp(f) \/ MarkPublished(f)
    PROVE  \A f \in Files : StaleOf(f)'
<1>0. {"planned", "staged", "validated", "replacement_backed_up", "published"}
         \subseteq RowStates \ (Committed \cup {"none"})
  BY DEF RowStates, Undoable, Ready, Committed
<1>1. CASE Commit
  <2>1. RowStays("publisher") /\ P.pc = "commit"
    BY <1>1, CommitMoves DEF Turned
  <2> QED BY <2>1, StaleStays DEF Knows, Entered
<1>2. ASSUME NEW f \in Files, PrepareFile(f)
      PROVE  \A g \in Files : StaleOf(g)'
  <2>1. P.pc = "prepare"
    BY <1>2, PrepareMoves
  <2>2. Knows
    BY <2>1 DEF Knows, Preparing
  <2>3. RowStays("publisher") \/ \E state \in {"planned", "validated"} : RowGoes("publisher", f, state)
    BY <1>2, PrepareMoves
  <2> QED BY <1>0, <2>2, <2>3, StaleStays, StaleWrites
<1>3. ASSUME NEW f \in Files, MarkStaged(f)
      PROVE  \A g \in Files : StaleOf(g)'
  <2>1. P.pc = "staged"
    BY <1>3, MarkStagedMoves
  <2>2. Knows
    BY <2>1 DEF Knows, Preparing
  <2>3. RowStays("publisher") \/ RowGoes("publisher", f, "staged")
    BY <1>3, MarkStagedMoves DEF Turned
  <2> QED BY <1>0, <2>2, <2>3, StaleStays, StaleWrites
<1>4. ASSUME NEW f \in Files, MarkBackedUp(f) \/ MarkPublished(f)
      PROVE  \A g \in Files : StaleOf(g)'
  <2>1. P.pc \in {"boundary", "publish"}
    BY <1>4, MarkBackedUpMoves, MarkPublishedMoves
  <2>2. Knows
    BY <2>1 DEF Knows, Entered
  <2>3. RowStays("publisher")
        \/ \E state \in {"replacement_backed_up", "published"} : RowGoes("publisher", f, state)
    BY <1>4, MarkBackedUpMoves, MarkPublishedMoves DEF Turned
  <2> QED BY <1>0, <2>2, <2>3, StaleStays, StaleWrites
<1> QED BY <1>1, <1>2, <1>3, <1>4

\* Before the adoption nothing is cleaned up.
LEMMA NoCleanup ==
    ASSUME ImportInv, ~adopted, NEW p \in Workers
    PROVE  /\ ~BeginCleanup(p) /\ ~FinishCleanup(p) /\ \A f \in Files : ~CleanUp(p, f)
           /\ w[p].pc \notin {"clean", "cleanWait"}
BY DEF BeginCleanup, FinishCleanup, CleanUp, At, ImportInv, AdoptionInv, Cleaning, Workers, P, R

LEMMA StaleUndo ==
    ASSUME ImportInv, ~adopted, StaleInv, NEW p \in Workers, NEW f \in Files, Undo(p, f)
    PROVE  \A g \in Files : StaleOf(g)'
<1>0. /\ P = w["publisher"] /\ R = w["recovery"] /\ w[p].pc = "undo" /\ LastOf(w[p].todo, f)
      /\ "rollback_pending" \in RowStates \ (Committed \cup {"none"})
  BY UndoMoves DEF P, R, RowStates, Undoable, Committed
<1>1. CASE p = "publisher"
  <2>1. Knows /\ (RowStays(p) \/ RowGoes(p, f, "rollback_pending"))
    BY <1>0, <1>1, UndoMoves DEF Knows
  <2> QED BY <1>0, <1>1, <2>1, StaleStays, StaleWrites
<1>2. CASE p = "recovery"
  <2>1. CASE RowStays(p)
    <3>1. row' = row /\ Watches("publisher", {})
      BY <1>2, <2>1, CopiesNow DEF RowStays
    <3> QED BY <1>0, <1>2, <3>1, StaleRecoveryStays
  <2>2. CASE /\ RowGoes(p, f, "rollback_pending") /\ OnTo(p, "restore", w[p].todo, w[p].prepared)
             /\ f \in w[p].fresh /\ w[p].copy[f] \in Undoable
    <3>1. /\ row' = [row EXCEPT ![f] = "rollback_pending"] /\ Watches("publisher", {f})
          /\ row[f] # "none" /\ R'.pc = "restore" /\ R'.todo = R.todo /\ f \in R'.fresh
      BY <1>0, <1>2, <2>2, CopiesNow DEF RowGoes, OnTo, Undoable, Ready, R
    <3>2. row'[f] = "rollback_pending" /\ \A g \in Files \ {f} : row'[g] = row[g]
      BY <3>1, CopiesNow
    <3>3. P'.pc = P.pc /\ P'.copy = P.copy /\ P'.fresh = P.fresh \ {f}
      BY <3>1 DEF Watches, P
    <3>4. StaleOf(f)'
      BY <1>0, <1>2, <3>1, <3>2, <3>3 DEF StaleInv, StaleOf, Overtaken, Knows, LastOf, Committed
    <3>5. ASSUME NEW g \in Files \ {f}
          PROVE  StaleOf(g)'
      BY <1>0, <1>2, <3>2, <3>3 DEF StaleInv, StaleOf, Overtaken, Knows
    <3> QED BY <3>4, <3>5
  <2> QED BY <2>1, <2>2, UndoMoves
<1> QED BY <1>1, <1>2 DEF Workers

LEMMA StaleShared ==
    ASSUME ImportInv, ~adopted, StaleInv, NEW p \in Workers, SharedStep(p)
    PROVE  \A f \in Files : StaleOf(f)'
<1>0. P = w["publisher"] /\ R = w["recovery"]
  BY DEF P, R
<1>1. CASE BeginUndo(p)
  <2>1. w[p].pc = "undoWait" /\ RowStays(p)
    BY <1>1, BeginUndoMoves
  <2>2. CASE p = "publisher"
    BY <1>0, <2>1, <2>2, StaleStays DEF Knows
  <2>3. CASE p = "recovery"
    <3>1. row' = row /\ Watches("publisher", {})
      BY <2>1, <2>3, CopiesNow DEF RowStays
    <3> QED BY <1>0, <2>1, <2>3, <3>1, StaleRecoveryStays
  <2> QED BY <2>2, <2>3 DEF Workers
<1>2. CASE CloseUndo(p)
  <2>1. /\ w[p].pc \in {"close", "undo"} /\ row' = row
        /\ \A q \in Workers \ {p} : Watches(q, {})
    BY <1>2, CloseUndoMoves
  <2>2. CASE p = "publisher"
    <3>1. w'[p].pc = "idle"
      BY <1>2, <2>2, CloseUndoMoves
    <3>2. P'.pc = "idle" /\ (\A f \in Files : P'.copy[f] = "none")
      <4>1. PICK pc \in {"idle", "attention"} : Goes(p, pc)
        BY <1>2 DEF CloseUndo
      <4>2. pc \in Pcs
        BY DEF Pcs
      <4> QED BY <2>2, <3>1, <4>1, <4>2, GoesMoves, NothingWas DEF P
    <3> QED BY <2>1, <3>2, StaleBlank DEF Knows, Preparing, Entered
  <2>3. CASE p = "recovery"
    <3>1. Watches("publisher", {})
      BY <2>1, <2>3, CopiesNow
    <3> QED BY <1>0, <2>1, <2>3, <3>1, StaleRecoveryStays
  <2> QED BY <2>2, <2>3 DEF Workers
<1>3. ASSUME NEW f \in Files, Undo(p, f)
      PROVE  \A g \in Files : StaleOf(g)'
  BY <1>3, StaleUndo
<1>4. ASSUME NEW f \in Files, Restore(p, f)
      PROVE  \A g \in Files : StaleOf(g)'
  <2>1. w[p].pc = "restore" /\ LastOf(w[p].todo, f) /\ w[p].copy[f] = "rollback_pending"
    BY <1>4, RestoreMoves
  <2>2. CASE Ended(p, f, "rolled_back") \/ Ended(p, f, "needs_attention")
    BY <2>1, <2>2, StaleEnded
  <2>3. CASE RowStays(p) /\ OnTo(p, "restore", w[p].todo, w[p].prepared)
    <3>1. CASE p = "publisher"
      BY <1>0, <2>1, <2>3, <3>1, StaleStays DEF Knows
    <3>2. CASE p = "recovery"
      <4>1. row' = row /\ Watches("publisher", {})
        BY <2>3, <3>2, CopiesNow DEF RowStays
      <4> QED BY <1>0, <2>3, <3>2, <4>1, StaleRecoveryStays DEF RowStays, OnTo, R
    <3> QED BY <3>1, <3>2 DEF Workers
  <2> QED BY <1>4, <2>2, <2>3, RestoreMoves
<1> QED BY <1>1, <1>2, <1>3, <1>4, NoCleanup DEF SharedStep

LEMMA StaleRecovery ==
    ASSUME ImportInv, ~adopted, StaleInv, RecoveryStep
    PROVE  \A f \in Files : StaleOf(f)'
<1>1. CASE ListBundle \/ RecoverBundle
  BY <1>1, LooksMoves, StaleRecoveryStays
<1>2. CASE ReadJournals
  BY <1>2, ReadJournalsMoves, StaleRecoveryStays
<1>3. CASE FinishPreparing
  BY <1>3, FinishPreparingMoves, StaleRecoveryStays
<1>4. CASE SetAside
  <2>1. /\ R.pc = "attention" /\ Watches("publisher", {f \in Files : Open(f)})
        /\ \A f \in Files : row'[f] = IF Open(f) THEN "needs_attention" ELSE row[f]
    BY <1>4, SetAsideMoves
  <2>2. P'.pc = P.pc /\ P'.copy = P.copy /\ P'.fresh = P.fresh \ {f \in Files : Open(f)}
    BY <2>1 DEF Watches, P
  <2>3. \A f \in Files : (f \in P.fresh /\ f \notin P'.fresh) => row'[f] = "needs_attention"
    BY <2>1, <2>2
  <2>4. "needs_attention" \notin Committed
    BY DEF Committed
  <2> QED BY <2>1, <2>2, <2>3, <2>4 DEF StaleInv, StaleOf, Overtaken, Knows, Open
<1> QED BY <1>1, <1>2, <1>3, <1>4 DEF RecoveryStep

LEMMA StaleFault ==
    ASSUME ImportInv, ~adopted, StaleInv, Fault
    PROVE  \A f \in Files : StaleOf(f)'
<1>1. CASE P' = Nobody /\ row' = row
  BY <1>1, NothingWas, StaleBlank DEF Knows, Preparing, Entered
<1>2. CASE P.pc \in Preparing \cup Entered /\ RowStays("publisher")
  BY <1>2, StaleStays DEF Knows
<1>3. ASSUME NEW p \in Workers, NEW f \in Files,
             w[p].pc = "restore" /\ LastOf(w[p].todo, f) /\ w[p].copy[f] = "rollback_pending"
             /\ Ended(p, f, "needs_attention")
      PROVE  \A g \in Files : StaleOf(g)'
  BY <1>3, StaleEnded
<1> QED BY <1>1, <1>2, <1>3, FaultMoves DEF Turned

LEMMA StaleStep ==
    ASSUME ImportInv, StaleInv, [Next]_vars
    PROVE  StaleInv'
<1> SUFFICES ASSUME ~adopted' PROVE \A f \in Files : StaleOf(f)'
  BY DEF StaleInv
<1>0. ~adopted
  BY AdoptedForGood
<1>1. CASE Call
  BY <1>0, <1>1, StalePreparing
<1>2. CASE PublisherStep
  BY <1>0, <1>2, StalePreparing, StaleMarks DEF PublisherStep
<1>3. CASE RecoveryStep
  BY <1>0, <1>3, StaleRecovery
<1>4. ASSUME NEW p \in Workers, SharedStep(p)
      PROVE  \A f \in Files : StaleOf(f)'
  BY <1>0, <1>4, StaleShared
<1>5. CASE Fault
  BY <1>0, <1>5, StaleFault
<1>6. CASE Stop
  BY <1>0, <1>6, StopMoves, NothingWas, StaleBlank DEF Knows, Preparing, Entered
<1>7. ASSUME NEW f \in Files, NEW place \in Places, OtherWrites(f, place)
      PROVE  \A g \in Files : StaleOf(g)'
  <2>1. UNCHANGED <<row, w>>
    BY <1>7 DEF OtherWrites
  <2> QED BY <1>0, <2>1 DEF StaleInv, StaleOf, Overtaken, Knows, P, R
<1>8. CASE Started \/ Restart \/ ChangePolicy \/ UNCHANGED vars
  <2>1. UNCHANGED <<row, w>>
    BY <1>8, WorldMoves
  <2> QED BY <1>0, <2>1 DEF StaleInv, StaleOf, Overtaken, Knows, P, R
<1> QED BY <1>1, <1>2, <1>3, <1>4, <1>5, <1>6, <1>7, <1>8 DEF Next

LEMMA StaleInit ==
    ASSUME Init
    PROVE  StaleInv
<1>1. P = Nobody /\ row = [f \in Files |-> "none"]
  BY DEF Init, P, Workers
<1> QED BY <1>1, NothingWas DEF StaleInv, StaleOf, Committed

-----------------------------------------------------------------------------
(* Nothing that is left alone is half done *)

\* The publisher has the row in hand.
Minds(f) ==
    \/ P.pc \in Preparing \cup Entered \cup {"unprepare", "undoWait"}
    \/ P.pc \in {"undo", "restore"} /\ f \in P.todo

\* Recovery will undo the row.
RecoveryMinds(f) ==
    /\ f \in R.fresh
    /\ \/ R.pc = "undoWait" /\ f \in R.prepared \cup R.todo
       \/ R.pc \in {"undo", "restore"} /\ f \in R.todo

Winding == {"undoWait", "undo", "restore", "close", "finish"}

\* A row that is open is in the hands of the publisher, of recovery, or belongs to a bundle
\* that recovery will list.
OpenOf(f) ==
    /\ bundle # "publishing" /\ Open(f) => Minds(f)
    /\ P.pc \in {"undo", "restore"} /\ Open(f) => f \in P.todo
    /\ P.pc = "undoWait" /\ row[f] # "none" => f \in P.todo \cup P.prepared
    /\ P.pc = "close" => row[f] = "none"
    /\ R.pc \in Winding /\ Open(f) => Minds(f) \/ RecoveryMinds(f)
OpenInv == ~adopted => \A f \in Files : OpenOf(f)

\* A bundle that has not begun has no rows.
BegunInv ==
    bundle \in {"none", "preparing"} => P.pc \in {"idle", "mark"} /\ \A f \in Files : row[f] = "none"

\* What was adopted is cleaned up, or set aside.
DoneInv ==
    adopted =>
        /\ bundle = "completed" => \A f \in Files : row[f] \in {"completed", "needs_attention"}
        /\ bundle = "needs_attention" => \A f \in Files : row[f] \in Closed

ClosedInv == OpenInv /\ BegunInv /\ DoneInv

-----------------------------------------------------------------------------

\* The publisher goes on, and writes no row.
LEMMA OpenStays ==
    ASSUME ImportInv, ~adopted, OpenInv, row' = row, Watches("recovery", {}),
           bundle' # "publishing" => bundle # "publishing",
           \A f \in Files : Open(f) /\ Minds(f) => Minds(f)',
           \A f \in Files : /\ P'.pc \in {"undo", "restore"} /\ Open(f) => f \in P'.todo
                            /\ P'.pc = "undoWait" /\ row[f] # "none" => f \in P'.todo \cup P'.prepared
                            /\ P'.pc = "close" => row[f] = "none"
    PROVE  \A f \in Files : OpenOf(f)'
<1>1. R'.pc = R.pc /\ R'.todo = R.todo /\ R'.fresh = R.fresh /\ R'.prepared = R.prepared
  BY DEF Watches, R
<1>2. ASSUME NEW f \in Files
      PROVE  OpenOf(f)'
  <2>1. (Open(f)' <=> Open(f)) /\ (RecoveryMinds(f)' <=> RecoveryMinds(f))
    BY <1>1 DEF Open, RecoveryMinds
  <2>2. OpenOf(f) /\ (Open(f) /\ Minds(f) => Minds(f)')
    BY DEF OpenInv
  <2> HIDE DEF Minds
  <2> QED BY <1>1, <2>1, <2>2 DEF OpenOf
<1> QED BY <1>2

\* It is at work on the files.
LEMMA OpenWorks ==
    ASSUME ImportInv, ~adopted, OpenInv, RowStays("publisher"), bundle' = bundle,
           P'.pc \in Preparing \cup Entered \cup {"unprepare"}
    PROVE  \A f \in Files : OpenOf(f)'
<1>1. row' = row /\ Watches("recovery", {}) /\ \A f \in Files : Minds(f)'
  BY DEF RowStays, Workers, Minds
<1>2. P'.pc \notin {"undo", "restore", "undoWait", "close"}
  BY DEF Preparing, Entered
<1> QED BY <1>1, <1>2, OpenStays

\* It leaves the critical section, with every file prepared.
LEMMA OpenRaises ==
    ASSUME ImportInv, ~adopted, OpenInv, bundle' = bundle, P.pc \in Entered, RowStays("publisher"),
           P'.pc = "undoWait", P'.prepared = P.prepared
    PROVE  \A f \in Files : OpenOf(f)'
<1>1. row' = row /\ Watches("recovery", {}) /\ \A f \in Files : Minds(f)'
  BY DEF RowStays, Workers, Minds
<1>2. P'.prepared = Files
  BY DEF ImportInv, PublishInv
<1> QED BY <1>1, <1>2, OpenStays

\* It had no row in hand, and has none.
LEMMA OpenIdles ==
    ASSUME ImportInv, ~adopted, OpenInv, row' = row, Watches("recovery", {}),
           bundle' # "publishing" => bundle # "publishing",
           P.pc \in {"idle", "mark", "list"},
           P'.pc \notin {"undo", "restore", "undoWait", "close"}
    PROVE  \A f \in Files : OpenOf(f)'
<1>1. \A f \in Files : ~Minds(f)
  BY DEF Minds, Preparing, Entered
<1> QED BY <1>1, OpenStays

\* Nothing is open.
LEMMA OpenNone ==
    ASSUME \A f \in Files : ~Open(f)', P'.pc \notin {"undoWait", "close"}
    PROVE  \A f \in Files : OpenOf(f)'
BY DEF OpenOf

LEMMA OpenWrites ==
    ASSUME ImportInv, ~adopted, OpenInv, NEW f \in Files, NEW state, RowGoes("publisher", f, state),
           bundle' = bundle,
           P'.pc \notin {"undoWait", "close"},
           Open(f)' => Minds(f)',
           \A g \in Files \ {f} : /\ Open(g) /\ Minds(g) => Minds(g)'
                                  /\ P'.pc \in {"undo", "restore"} /\ Open(g) => g \in P'.todo
    PROVE  \A g \in Files : OpenOf(g)'
<1>1. Watches("recovery", {f})
  BY DEF RowGoes, Workers
<1>2. R'.pc = R.pc /\ R'.todo = R.todo /\ R'.fresh = R.fresh \ {f} /\ R'.prepared = R.prepared
  BY <1>1 DEF Watches, R
<1>3. ASSUME NEW g \in Files \ {f}
      PROVE  OpenOf(g)'
  <2>1. row'[g] = row[g]
    BY CopiesNow DEF RowGoes
  <2>2. (Open(g)' <=> Open(g)) /\ (RecoveryMinds(g)' <=> RecoveryMinds(g))
    BY <1>2, <2>1 DEF Open, RecoveryMinds
  <2>3. OpenOf(g) /\ (Open(g) /\ Minds(g) => Minds(g)')
    BY DEF OpenInv
  <2> HIDE DEF Minds
  <2> QED BY <1>2, <2>1, <2>2, <2>3 DEF OpenOf
<1>4. OpenOf(f)'
  BY DEF OpenOf, Minds, Preparing, Entered
<1> QED BY <1>3, <1>4

\* Recovery goes on.
LEMMA OpenRecovery ==
    ASSUME ImportInv, ~adopted, OpenInv, NEW gone, Watches("publisher", gone),
           bundle' # "publishing" => bundle # "publishing" \/ \A f \in Files : Open(f) => Minds(f),
           \A f \in Files : /\ Open(f)' => Open(f)
                            /\ row'[f] # "none" => row[f] # "none"
                            /\ R'.pc \in Winding /\ Open(f)' => Minds(f) \/ RecoveryMinds(f)'
    PROVE  \A f \in Files : OpenOf(f)'
<1>1. P'.pc = P.pc /\ P'.todo = P.todo /\ P'.prepared = P.prepared
  BY DEF Watches, P
<1>2. ASSUME NEW f \in Files
      PROVE  OpenOf(f)'
  <2>1. OpenOf(f) /\ (Minds(f)' <=> Minds(f))
    BY <1>1 DEF OpenInv, Minds
  <2> HIDE DEF Minds, Open, RecoveryMinds
  <2> QED BY <1>1, <2>1 DEF OpenOf
<1> QED BY <1>2

LEMMA OpenPreparing ==
    ASSUME ImportInv, ~adopted, OpenInv,
           Call \/ Mark \/ List \/ Unprepare \/ Enter \/ Recheck
           \/ \E f \in Files : SkipBoundary(f) \/ Stage(f) \/ BackUp(f) \/ Place(f) \/ PlaceSidecar(f)
    PROVE  \A f \in Files : OpenOf(f)'
<1>1. CASE Call
  <2>1. bundle' # "publishing" => bundle # "publishing"
    BY <1>1, CallMoves
  <2> QED BY <1>1, <2>1, CallMoves, OpenIdles
<1>2. CASE Mark
  <2>1. P.pc = "mark" /\ Watches("recovery", {}) /\ row' = row /\ P'.pc \in {"idle", "list"}
        /\ (bundle' # "publishing" => bundle # "publishing")
    BY <1>2, MarkMoves, NothingWas
  <2> QED BY <2>1, OpenIdles
<1>3. CASE List
  <2>1. P.pc = "list" /\ Watches("recovery", {}) /\ row' = row /\ P'.pc \in {"idle", "prepare"}
        /\ bundle' = bundle
    BY <1>3, ListMoves, NothingWas DEF OnTo, P
  <2> QED BY <2>1, OpenIdles
<1>4. CASE Unprepare
  <2>1. /\ row' = row /\ Watches("recovery", {}) /\ P.pc = "unprepare" /\ bundle' = bundle
        /\ P'.prepared = P.prepared \cup {f \in Files : row[f] # "none"}
        /\ P'.pc = IF \A f \in Files : row[f] = "none" /\ f \notin P.prepared THEN "close" ELSE "undoWait"
    BY <1>4, UnprepareMoves DEF OnTo, P
  <2>2. \A f \in Files : Open(f) => Minds(f)'
    BY <2>1 DEF Open, Minds
  <2>3. \A f \in Files : P'.pc = "undoWait" /\ row[f] # "none" => f \in P'.todo \cup P'.prepared
    BY <2>1
  <2>4. \A f \in Files : P'.pc = "close" => row[f] = "none"
    BY <2>1
  <2> QED BY <2>1, <2>2, <2>3, <2>4, OpenStays
<1>5. CASE Enter
  <2>1. P.pc = "enter" /\ RowStays("publisher") /\ bundle' = bundle /\ P'.prepared = P.prepared
        /\ P'.pc \in {"undoWait", "boundary"}
    BY <1>5, EnterMoves DEF Turned, OnTo, P
  <2> QED BY <2>1, OpenWorks, OpenRaises DEF Entered
<1>6. CASE Recheck
  <2>1. P.pc = "recheck" /\ RowStays("publisher") /\ bundle' = bundle /\ P'.prepared = P.prepared
        /\ P'.pc \in {"undoWait", "commit", "publish"}
    BY <1>6, RecheckMoves
  <2> QED BY <2>1, OpenWorks, OpenRaises DEF Entered
<1>7. ASSUME NEW f \in Files, SkipBoundary(f)
      PROVE  \A g \in Files : OpenOf(g)'
  BY <1>7, SkipMoves, OpenWorks DEF Entered
<1>8. ASSUME NEW f \in Files, Stage(f)
      PROVE  \A g \in Files : OpenOf(g)'
  BY <1>8, StageMoves, OpenWorks DEF Preparing, Turned, OnTo, P
<1>9. ASSUME NEW f \in Files, BackUp(f) \/ Place(f)
      PROVE  \A g \in Files : OpenOf(g)'
  BY <1>9, FileMoves, OpenWorks DEF Entered
<1>10. ASSUME NEW f \in Files, PlaceSidecar(f)
       PROVE  \A g \in Files : OpenOf(g)'
  <2>1. P.pc \in {"boundary", "publish"} /\ RowStays("publisher") /\ bundle' = bundle
        /\ P'.prepared = P.prepared
        /\ (P'.pc = "undoWait" \/ P' = P)
    BY <1>10, SidecarMoves DEF Turned, OnTo, P
  <2> QED BY <2>1, OpenWorks, OpenRaises DEF Entered
<1> QED BY <1>1, <1>2, <1>3, <1>4, <1>5, <1>6, <1>7, <1>8, <1>9, <1>10

\* A row that is written by the publisher at work.
LEMMA OpenWorksOn ==
    ASSUME ImportInv, ~adopted, OpenInv, NEW f \in Files, NEW state, RowGoes("publisher", f, state),
           bundle' = bundle, P'.pc \in Preparing \cup Entered
    PROVE  \A g \in Files : OpenOf(g)'
<1>1. \A g \in Files : Minds(g)'
  BY DEF Minds
<1>2. P'.pc \notin {"undo", "restore", "undoWait", "close"}
  BY DEF Preparing, Entered
<1> QED BY <1>1, <1>2, OpenWrites

LEMMA OpenMarks ==
    ASSUME ImportInv, ~adopted, ~adopted', OpenInv,
           Commit \/ \E f \in Files : PrepareFile(f) \/ MarkStaged(f) \/ MarkBackedUp(f) \/ MarkPublished(f)
    PROVE  \A f \in Files : OpenOf(f)'
<1>1. CASE Commit
  <2>1. RowStays("publisher") /\ P.pc = "commit" /\ P'.pc = "undoWait" /\ P'.prepared = P.prepared
        /\ bundle' = bundle
    BY <1>1, CommitMoves DEF Turned, OnTo, P
  <2> QED BY <2>1, OpenRaises DEF Entered
<1>2. ASSUME NEW f \in Files, PrepareFile(f)
      PROVE  \A g \in Files : OpenOf(g)'
  <2>1. P'.pc \in Preparing \cup Entered \cup {"unprepare"} /\ bundle' = bundle
    BY <1>2, PrepareMoves DEF OnTo, P, Preparing, Entered
  <2>2. RowStays("publisher")
        \/ ((\E state \in {"planned", "validated"} : RowGoes("publisher", f, state))
            /\ P'.pc \in {"prepare", "stage"})
    BY <1>2, PrepareMoves DEF OnTo, P
  <2>3. CASE RowStays("publisher")
    BY <2>1, <2>3, OpenWorks
  <2>4. ASSUME NEW state \in {"planned", "validated"}, RowGoes("publisher", f, state),
               P'.pc \in {"prepare", "stage"}
        PROVE  \A g \in Files : OpenOf(g)'
    BY <2>1, <2>4, OpenWorksOn DEF Preparing
  <2> QED BY <2>2, <2>3, <2>4
<1>3. ASSUME NEW f \in Files, MarkStaged(f)
      PROVE  \A g \in Files : OpenOf(g)'
  <2>1. CASE Turned("unprepare")
    BY <1>3, <2>1, MarkStagedMoves, OpenWorks DEF Turned, OnTo, P
  <2>2. CASE RowGoes("publisher", f, "staged") /\ OnTo("publisher", "prepare", P.todo, P.prepared)
    BY <1>3, <2>2, MarkStagedMoves, OpenWorksOn DEF OnTo, P, Preparing
  <2> QED BY <1>3, <2>1, <2>2, MarkStagedMoves
<1>4. ASSUME NEW f \in Files, MarkBackedUp(f) \/ MarkPublished(f)
      PROVE  \A g \in Files : OpenOf(g)'
  <2>1. P.pc \in {"boundary", "publish"} /\ bundle' = bundle
    BY <1>4, MarkBackedUpMoves, MarkPublishedMoves
  <2>2. CASE Turned("undoWait")
    BY <2>1, <2>2, OpenRaises DEF Turned, OnTo, P, Entered
  <2>3. ASSUME NEW state \in {"replacement_backed_up", "published"}, RowGoes("publisher", f, state),
               P'.pc \in {"boundary", "recheck", "publish", "commit"}
        PROVE  \A g \in Files : OpenOf(g)'
    BY <2>1, <2>3, OpenWorksOn DEF Entered
  <2>4. MarkBackedUp(f) => Turned("undoWait") \/ (RowGoes("publisher", f, "replacement_backed_up")
                                                  /\ P'.pc \in {"boundary", "recheck", "publish", "commit"})
    BY <2>1, MarkBackedUpMoves DEF OnTo, P
  <2>5. MarkPublished(f) => Turned("undoWait") \/ (RowGoes("publisher", f, "published")
                                                   /\ P'.pc \in {"boundary", "recheck", "publish", "commit"})
    BY <2>1, MarkPublishedMoves DEF OnTo, P
  <2> QED BY <1>4, <2>2, <2>3, <2>4, <2>5
<1> QED BY <1>1, <1>2, <1>3, <1>4

\* What the publisher drops in its rollback is closed already.
LEMMA DropsClosed ==
    ASSUME ImportInv, ~adopted, StaleInv, P.pc \in {"undo", "restore"}, NEW f \in Files,
           f \notin P.fresh \/ P.copy[f] \notin Undoable
    PROVE  ~Open(f)
<1>1. StaleOf(f) /\ Knows /\ R.pc # "restore"
  BY DEF StaleInv, Knows, ImportInv, LeaseInv, Critical
<1>2. row[f] \in RowStates /\ P.copy[f] \in RowStates /\ (f \in P.fresh => P.copy[f] = row[f])
  BY CopiesNow DEF Memories
<1> QED BY <1>1, <1>2 DEF StaleOf, Overtaken, Open, RowStates, Closed

LEMMA OpenUndo ==
    ASSUME ImportInv, ~adopted, StaleInv, OpenInv, NEW p \in Workers, NEW f \in Files, Undo(p, f)
    PROVE  \A g \in Files : OpenOf(g)'
<1>0. /\ P = w["publisher"] /\ R = w["recovery"] /\ w[p].pc = "undo" /\ f \in w[p].todo /\ bundle' = bundle
  BY UndoMoves DEF P, R, LastOf
<1>1. CASE p = "publisher"
  <2>1. \A g \in Files : Open(g) => g \in P.todo
    BY <1>0, <1>1 DEF OpenInv, OpenOf
  <2>2. CASE /\ RowStays(p) /\ OnTo(p, "undo", w[p].todo \ {f}, w[p].prepared)
             /\ w[p].copy[f] \notin Undoable \/ f \notin w[p].fresh
    <3>1. ~Open(f)
      BY <1>0, <1>1, <2>2, DropsClosed
    <3>2. P'.pc = "undo" /\ P'.todo = P.todo \ {f} /\ row' = row /\ Watches("recovery", {})
      BY <1>0, <1>1, <2>2, CopiesNow DEF OnTo, RowStays, P
    <3>3. \A g \in Files : Open(g) => Minds(g)' /\ g \in P'.todo
      BY <2>1, <3>1, <3>2 DEF Minds
    <3> QED BY <1>0, <3>2, <3>3, OpenStays
  <2>3. CASE RowStays(p) /\ OnTo(p, "restore", w[p].todo, w[p].prepared)
    <3>2. P'.pc = "restore" /\ P'.todo = P.todo /\ row' = row /\ Watches("recovery", {})
      BY <1>0, <1>1, <2>3, CopiesNow DEF OnTo, RowStays, P
    <3>3. \A g \in Files : Open(g) => Minds(g)' /\ g \in P'.todo
      BY <2>1, <3>2 DEF Minds
    <3> QED BY <1>0, <3>2, <3>3, OpenStays
  <2>4. CASE RowGoes(p, f, "rollback_pending") /\ OnTo(p, "restore", w[p].todo, w[p].prepared)
    <3>2. P'.pc = "restore" /\ P'.todo = P.todo
      BY <1>1, <2>4 DEF OnTo, P
    <3>3. Minds(f)' /\ \A g \in Files : Open(g) => Minds(g)' /\ g \in P'.todo
      BY <1>0, <1>1, <2>1, <3>2 DEF Minds
    <3> QED BY <1>0, <1>1, <2>4, <3>2, <3>3, OpenWrites
  <2> QED BY <2>2, <2>3, <2>4, UndoMoves
<1>2. CASE p = "recovery"
  <2>0. \A g \in Files : Open(g) => Minds(g) \/ RecoveryMinds(g)
    BY <1>0, <1>2 DEF OpenInv, OpenOf, Winding
  <2>2. CASE /\ RowStays(p) /\ OnTo(p, "undo", w[p].todo \ {f}, w[p].prepared)
             /\ w[p].copy[f] \notin Undoable \/ f \notin w[p].fresh
    <3>1. f \in R.fresh => ~Open(f)
      BY <1>0, <1>2, <2>2, CopiesNow DEF StaleInv, StaleOf, Open, RowStates, Memories, Closed
    <3>2. row' = row /\ Watches("publisher", {}) /\ R'.pc = "undo" /\ R'.todo = R.todo \ {f} /\ R'.fresh = R.fresh
      BY <1>0, <1>2, <2>2, CopiesNow DEF OnTo, RowStays, R
    <3>3. \A g \in Files : Open(g)' => Open(g) /\ (Minds(g) \/ RecoveryMinds(g)')
      BY <1>0, <1>2, <2>0, <3>1, <3>2 DEF RecoveryMinds, Open
    <3> QED BY <1>0, <3>2, <3>3, OpenRecovery
  <2>3. CASE RowStays(p) /\ OnTo(p, "restore", w[p].todo, w[p].prepared)
    <3>2. row' = row /\ Watches("publisher", {}) /\ R'.pc = "restore" /\ R'.todo = R.todo /\ R'.fresh = R.fresh
      BY <1>0, <1>2, <2>3, CopiesNow DEF OnTo, RowStays, R
    <3>3. \A g \in Files : Open(g)' => Open(g) /\ (Minds(g) \/ RecoveryMinds(g)')
      BY <1>0, <1>2, <2>0, <3>2 DEF RecoveryMinds, Open
    <3> QED BY <1>0, <3>2, <3>3, OpenRecovery
  <2>4. CASE /\ RowGoes(p, f, "rollback_pending") /\ OnTo(p, "restore", w[p].todo, w[p].prepared)
             /\ w[p].copy[f] \in Undoable /\ f \in w[p].fresh
    <3>1. Open(f) /\ row[f] # "none"
      BY <1>0, <1>2, <2>4, CopiesNow DEF Open, Undoable, Ready, Closed
    <3>2. /\ row' = [row EXCEPT ![f] = "rollback_pending"] /\ Watches("publisher", {f})
          /\ R'.pc = "restore" /\ R'.todo = R.todo /\ R'.fresh = R.fresh \cup {f}
      BY <1>0, <1>2, <2>4, CopiesNow DEF OnTo, RowGoes, R
    <3>3. \A g \in Files \ {f} : row'[g] = row[g]
      BY <3>2, CopiesNow
    <3>4. \A g \in Files : Open(g)' => Open(g) /\ (Minds(g) \/ RecoveryMinds(g)')
      BY <1>0, <1>2, <2>0, <3>1, <3>2, <3>3 DEF RecoveryMinds, Open
    <3> QED BY <1>0, <3>1, <3>2, <3>3, <3>4, OpenRecovery
  <2> QED BY <2>2, <2>3, <2>4, UndoMoves
<1> QED BY <1>1, <1>2 DEF Workers

LEMMA OpenEnded ==
    ASSUME ImportInv, ~adopted, StaleInv, OpenInv, NEW p \in Workers, NEW f \in Files, w[p].pc = "restore",
           LastOf(w[p].todo, f), w[p].copy[f] = "rollback_pending", bundle' = bundle,
           NEW state \in {"rolled_back", "needs_attention"}, Ended(p, f, state)
    PROVE  \A g \in Files : OpenOf(g)'
<1>0. /\ P = w["publisher"] /\ R = w["recovery"]
      /\ w'[p].pc = "undo" /\ w'[p].todo = w[p].todo \ {f}
  BY DEF P, R, Ended, OnTo
<1>1. CASE p = "publisher"
  <2>1. \A g \in Files : Open(g) => g \in P.todo
    BY <1>0, <1>1 DEF OpenInv, OpenOf
  <2>2. P'.pc = "undo" /\ P'.todo = P.todo \ {f}
    BY <1>0, <1>1 DEF P
  <2>3. \A g \in Files \ {f} : Open(g) => Minds(g)' /\ g \in P'.todo
    BY <2>1, <2>2 DEF Minds
  <2>4. CASE RowStays(p)
    <3>1. f \notin P.fresh \/ ~Open(f)
      <4>1. CASE f \in w[p].fresh
        <5>1. row' = [row EXCEPT ![f] = state] /\ row' = row
          BY <2>4, <4>1 DEF Ended, RowGoes, RowStays
        <5>2. row[f] = state
          BY <5>1, CopiesNow
        <5> QED BY <5>2 DEF Open, Closed
      <4> QED BY <1>0, <1>1, <4>1
    <3>2. ~Open(f)
      BY <1>0, <1>1, <3>1, DropsClosed
    <3>3. row' = row /\ Watches("recovery", {})
      BY <1>1, <2>4, CopiesNow DEF RowStays
    <3>4. \A g \in Files : Open(g) => Minds(g)' /\ g \in P'.todo
      BY <2>3, <3>2
    <3> QED BY <2>2, <3>3, <3>4, OpenStays
  <2>5. CASE RowGoes(p, f, state)
    <3>1. ~Open(f)'
      BY <2>5, CopiesNow DEF RowGoes, Open, Closed
    <3> QED BY <1>0, <1>1, <2>2, <2>3, <2>5, <3>1, OpenWrites
  <2> QED BY <2>4, <2>5 DEF Ended
<1>2. CASE p = "recovery"
  <2>0. \A g \in Files : Open(g) => Minds(g) \/ RecoveryMinds(g)
    BY <1>0, <1>2 DEF OpenInv, OpenOf, Winding
  <2>1. R'.pc = "undo" /\ R'.todo = R.todo \ {f}
    BY <1>0, <1>2 DEF R
  <2>2. CASE f \notin R.fresh
    <3>1. row' = row /\ Watches("publisher", {}) /\ R'.fresh = R.fresh
      BY <1>0, <1>2, <2>2, CopiesNow DEF Ended, RowStays, R
    <3>2. \A g \in Files : Open(g)' => Open(g) /\ (Minds(g) \/ RecoveryMinds(g)')
      BY <1>0, <1>2, <2>0, <2>1, <2>2, <3>1 DEF RecoveryMinds, Open
    <3> QED BY <3>1, <3>2, OpenRecovery
  <2>3. CASE f \in R.fresh
    <3>1. /\ row' = [row EXCEPT ![f] = state] /\ Watches("publisher", {f}) /\ R'.fresh = R.fresh \cup {f}
          /\ row[f] = "rollback_pending"
      BY <1>0, <1>2, <2>3, CopiesNow DEF Ended, RowGoes, R
    <3>2. row'[f] = state /\ \A g \in Files \ {f} : row'[g] = row[g]
      BY <3>1, CopiesNow
    <3>3. \A g \in Files : Open(g)' => Open(g) /\ (Minds(g) \/ RecoveryMinds(g)')
      BY <1>0, <1>2, <2>0, <2>1, <3>1, <3>2 DEF RecoveryMinds, Open, Closed
    <3> QED BY <3>1, <3>2, <3>3, OpenRecovery
  <2> QED BY <2>2, <2>3
<1> QED BY <1>1, <1>2 DEF Workers

LEMMA OpenShared ==
    ASSUME ImportInv, ~adopted, StaleInv, OpenInv, NEW p \in Workers, SharedStep(p)
    PROVE  \A f \in Files : OpenOf(f)'
<1>0. P = w["publisher"] /\ R = w["recovery"]
  BY DEF P, R
<1>1. CASE BeginUndo(p)
  <2>1. /\ w[p].pc = "undoWait" /\ RowStays(p) /\ bundle' = bundle
        /\ OnTo(p, "undo", w[p].todo \cup w[p].prepared, w[p].prepared)
    BY <1>1, BeginUndoMoves
  <2>2. CASE p = "publisher"
    <3>1. row' = row /\ Watches("recovery", {}) /\ P'.pc = "undo" /\ P'.todo = P.todo \cup P.prepared
      BY <1>0, <2>1, <2>2, CopiesNow DEF RowStays, OnTo, P
    <3>2. \A f \in Files : row[f] # "none" => f \in P'.todo
      BY <1>0, <2>1, <2>2, <3>1 DEF OpenInv, OpenOf
    <3>3. \A f \in Files : Open(f) => Minds(f)' /\ f \in P'.todo
      BY <3>1, <3>2 DEF Minds, Open
    <3> QED BY <2>1, <3>1, <3>3, OpenStays
  <2>3. CASE p = "recovery"
    <3>1. row' = row /\ Watches("publisher", {}) /\ R'.pc = "undo" /\ R'.todo = R.todo \cup R.prepared
          /\ R'.fresh = R.fresh
      BY <1>0, <2>1, <2>3, CopiesNow DEF RowStays, OnTo, R
    <3>2. \A g \in Files : Open(g)' => Open(g) /\ (Minds(g) \/ RecoveryMinds(g)')
      BY <1>0, <2>1, <2>3, <3>1 DEF OpenInv, OpenOf, Winding, RecoveryMinds, Open
    <3> QED BY <2>1, <3>1, <3>2, OpenRecovery
  <2> QED BY <2>2, <2>3 DEF Workers
<1>2. CASE CloseUndo(p)
  <2>1. /\ w[p].pc = "close" \/ (w[p].pc = "undo" /\ w[p].todo = {})
        /\ \A q \in Workers \ {p} : Watches(q, {})
        /\ w'[p].pc \in {"idle", "attention"} /\ row' = row
    BY <1>2, CloseUndoMoves
  <2>2. CASE p = "publisher"
    <3>1. \A f \in Files : ~Open(f)
      BY <1>0, <2>1, <2>2 DEF OpenInv, OpenOf, Open
    <3>2. \A f \in Files : ~Open(f)'
      BY <2>1, <3>1 DEF Open
    <3>3. P'.pc \notin {"undoWait", "close"}
      BY <2>1, <2>2 DEF P
    <3> QED BY <3>2, <3>3, OpenNone
  <2>3. CASE p = "recovery"
    <3>1. Watches("publisher", {}) /\ R'.pc \notin Winding
      BY <2>1, <2>3, CopiesNow DEF R, Winding
    <3>2. \A f \in Files : Open(f) => Minds(f)
      BY <1>0, <2>1, <2>3 DEF OpenInv, OpenOf, Winding, RecoveryMinds
    <3>3. \A f \in Files : Open(f)' => Open(f)
      BY <2>1 DEF Open
    <3> QED BY <2>1, <3>1, <3>2, <3>3, OpenRecovery
  <2> QED BY <2>2, <2>3 DEF Workers
<1>3. ASSUME NEW f \in Files, Undo(p, f)
      PROVE  \A g \in Files : OpenOf(g)'
  BY <1>3, OpenUndo
<1>4. ASSUME NEW f \in Files, Restore(p, f)
      PROVE  \A g \in Files : OpenOf(g)'
  <2>1. w[p].pc = "restore" /\ LastOf(w[p].todo, f) /\ w[p].copy[f] = "rollback_pending" /\ bundle' = bundle
    BY <1>4, RestoreMoves
  <2>2. CASE Ended(p, f, "rolled_back") \/ Ended(p, f, "needs_attention")
    BY <2>1, <2>2, OpenEnded
  <2>3. CASE RowStays(p) /\ OnTo(p, "restore", w[p].todo, w[p].prepared)
    <3>1. CASE p = "publisher"
      <4>1. row' = row /\ Watches("recovery", {}) /\ P'.pc = "restore" /\ P'.todo = P.todo
        BY <1>0, <2>3, <3>1, CopiesNow DEF RowStays, OnTo, P
      <4>2. \A g \in Files : Open(g) => Minds(g)' /\ g \in P'.todo
        BY <1>0, <2>1, <3>1, <4>1 DEF OpenInv, OpenOf, Minds
      <4> QED BY <2>1, <4>1, <4>2, OpenStays
    <3>2. CASE p = "recovery"
      <4>1. row' = row /\ Watches("publisher", {}) /\ R'.pc = "restore" /\ R'.todo = R.todo
            /\ R'.fresh = R.fresh
        BY <1>0, <2>3, <3>2, CopiesNow DEF RowStays, OnTo, R
      <4>2. \A g \in Files : Open(g)' => Open(g) /\ (Minds(g) \/ RecoveryMinds(g)')
        BY <1>0, <2>1, <3>2, <4>1 DEF OpenInv, OpenOf, Winding, RecoveryMinds, Open
      <4> QED BY <2>1, <4>1, <4>2, OpenRecovery
    <3> QED BY <3>1, <3>2 DEF Workers
  <2> QED BY <1>4, <2>2, <2>3, RestoreMoves
<1> QED BY <1>1, <1>2, <1>3, <1>4, NoCleanup DEF SharedStep

LEMMA OpenRecoveryStep ==
    ASSUME ImportInv, ~adopted, OpenInv, RecoveryStep
    PROVE  \A f \in Files : OpenOf(f)'
<1>1. CASE ListBundle \/ RecoverBundle
  <2>1. Watches("publisher", {}) /\ row' = row /\ bundle' = bundle /\ R'.pc \notin Winding
    BY <1>1, LooksMoves DEF Winding
  <2>2. \A f \in Files : Open(f)' => Open(f)
    BY <2>1 DEF Open
  <2> QED BY <2>1, <2>2, OpenRecovery
<1>2. CASE ReadJournals
  <2>1. Watches("publisher", {}) /\ row' = row /\ bundle' = bundle
    BY <1>2, ReadJournalsMoves
  <2>2. \A f \in Files : R'.pc \in Winding /\ Open(f) => RecoveryMinds(f)'
    BY <1>2, ReadJournalsMoves DEF Winding, Open, RecoveryMinds
  <2>3. \A f \in Files : Open(f)' => Open(f)
    BY <2>1 DEF Open
  <2> QED BY <2>1, <2>2, <2>3, OpenRecovery
<1>3. CASE FinishPreparing
  <2>1. R.pc = "finish" /\ Watches("publisher", {}) /\ row' = row /\ R'.pc \notin Winding
    BY <1>3, FinishPreparingMoves DEF Winding
  <2>2. \A f \in Files : Open(f) => Minds(f)
    BY <2>1 DEF OpenInv, OpenOf, Winding, RecoveryMinds
  <2>3. \A f \in Files : Open(f)' => Open(f)
    BY <2>1 DEF Open
  <2> QED BY <2>1, <2>2, <2>3, OpenRecovery
<1>4. CASE SetAside
  <2>1. /\ Watches("publisher", {f \in Files : Open(f)})
        /\ \A f \in Files : row'[f] = IF Open(f) THEN "needs_attention" ELSE row[f]
        /\ bundle' = IF bundle \in Closed THEN bundle ELSE "needs_attention"
    BY <1>4, SetAsideMoves
  <2>2. \A f \in Files : ~Open(f)' /\ (row'[f] # "none" => row[f] # "none")
    BY <2>1 DEF Open, Closed
  <2>3. P'.pc = P.pc /\ P'.todo = P.todo /\ P'.prepared = P.prepared
    BY <2>1 DEF Watches, P
  <2> QED BY <2>2, <2>3 DEF OpenOf, OpenInv
<1> QED BY <1>1, <1>2, <1>3, <1>4 DEF RecoveryStep

LEMMA OpenFault ==
    ASSUME ImportInv, ~adopted, StaleInv, OpenInv, Fault
    PROVE  \A f \in Files : OpenOf(f)'
<1>0. bundle' = bundle /\ P.pc \notin {"cleanWait", "clean"}
  BY FaultMoves, NoCleanup, CopiesNow
<1>1. CASE P.pc \in {"mark", "list"} /\ P' = Nobody /\ row' = row /\ Watches("recovery", {})
  BY <1>0, <1>1, NothingWas, OpenIdles
<1>2. CASE P.pc \in Preparing /\ Turned("unprepare")
  BY <1>0, <1>2, OpenWorks DEF Turned, OnTo, P
<1>3. CASE P.pc \in Entered /\ Turned("undoWait")
  BY <1>0, <1>3, OpenRaises DEF Turned, OnTo, P
<1>4. ASSUME NEW p \in Workers, NEW f \in Files,
             w[p].pc = "restore" /\ LastOf(w[p].todo, f) /\ w[p].copy[f] = "rollback_pending"
             /\ Ended(p, f, "needs_attention")
      PROVE  \A g \in Files : OpenOf(g)'
  BY <1>0, <1>4, OpenEnded
<1> QED BY <1>0, <1>1, <1>2, <1>3, <1>4, FaultMoves

\* A stop forgets what the publisher had in hand; recovery will list the bundle.
LEMMA OpenStop ==
    ASSUME ImportInv, ~adopted, OpenInv, BegunInv, "stopWhenOverruled" \notin Admits, Stop
    PROVE  \A f \in Files : OpenOf(f)'
<1>1. P' = Nobody /\ R' = Nobody /\ UNCHANGED <<bundle, row>>
  BY StopMoves
<1>2. P.pc # "idle" => bundle \notin {"rolled_back", "needs_attention"}
  BY DEF Stop, Overruled, PAt, At, P
<1>3. bundle \in BundleStates /\ bundle \notin Committed
  BY DEF ImportInv, Types, AdoptionInv
<1>4. bundle # "publishing" => \A f \in Files : ~Open(f)
  <2>1. CASE P.pc = "idle"
    BY <2>1 DEF OpenInv, OpenOf, Minds, Preparing, Entered
  <2>2. CASE P.pc # "idle"
    BY <1>2, <1>3, <2>2 DEF BegunInv, BundleStates, Open
  <2> QED BY <2>1, <2>2
<1>5. \A f \in Files : Open(f)' <=> Open(f)
  BY <1>1 DEF Open
<1> QED BY <1>1, <1>4, <1>5, NothingWas DEF OpenOf, Winding

LEMMA OpenStep ==
    ASSUME ImportInv, StaleInv, ClosedInv, "stopWhenOverruled" \notin Admits, [Next]_vars
    PROVE  OpenInv'
<1> SUFFICES ASSUME ~adopted' PROVE \A f \in Files : OpenOf(f)'
  BY DEF OpenInv
<1>0. ~adopted /\ OpenInv /\ BegunInv
  BY AdoptedForGood DEF ClosedInv
<1>1. CASE Call
  BY <1>0, <1>1, OpenPreparing
<1>2. CASE PublisherStep
  BY <1>0, <1>2, OpenPreparing, OpenMarks DEF PublisherStep
<1>3. CASE RecoveryStep
  BY <1>0, <1>3, OpenRecoveryStep
<1>4. ASSUME NEW p \in Workers, SharedStep(p)
      PROVE  \A f \in Files : OpenOf(f)'
  BY <1>0, <1>4, OpenShared
<1>5. CASE Fault
  BY <1>0, <1>5, OpenFault
<1>6. CASE Stop
  BY <1>0, <1>6, OpenStop
<1>7. ASSUME NEW f \in Files, NEW place \in Places, OtherWrites(f, place)
      PROVE  \A g \in Files : OpenOf(g)'
  <2>1. UNCHANGED <<bundle, row, w>>
    BY <1>7 DEF OtherWrites
  <2> QED BY <1>0, <2>1 DEF OpenInv, OpenOf, Open, Minds, RecoveryMinds, P, R
<1>8. CASE Started \/ Restart \/ ChangePolicy \/ UNCHANGED vars
  <2>1. UNCHANGED <<bundle, row, w>>
    BY <1>8, WorldMoves
  <2> QED BY <1>0, <2>1 DEF OpenInv, OpenOf, Open, Minds, RecoveryMinds, P, R
<1> QED BY <1>1, <1>2, <1>3, <1>4, <1>5, <1>6, <1>7, <1>8 DEF Next

\* The publisher is at work on the files only where it has marked the bundle.
LEMMA BegunShared ==
    ASSUME ImportInv, ~adopted, P.pc \in {"idle", "mark"}, \A f \in Files : row[f] = "none",
           NEW p \in Workers, SharedStep(p)
    PROVE  row' = row /\ P'.pc = P.pc
<1>0. p = "recovery" /\ P = w["publisher"] /\ R = w["recovery"]
  BY DEF SharedStep, BeginCleanup, FinishCleanup, BeginUndo, CloseUndo, CleanUp, Undo, Restore, At,
     Workers, P, R
<1>1. \A f \in R.fresh : R.copy[f] = "none"
  BY CopiesNow DEF Memories
<1>2. Watches("publisher", {}) => P'.pc = P.pc
  BY DEF Watches, P
<1>3. RowStays(p) => row' = row /\ P'.pc = P.pc
  BY <1>0, <1>2, CopiesNow DEF RowStays
<1>4. CASE BeginUndo(p)
  BY <1>3, <1>4, BeginUndoMoves
<1>5. CASE CloseUndo(p)
  <2>1. row' = row /\ Watches("publisher", {})
    BY <1>0, <1>5, CloseUndoMoves, CopiesNow
  <2> QED BY <1>2, <2>1
<1>6. ASSUME NEW f \in Files, Undo(p, f)
      PROVE  row' = row /\ P'.pc = P.pc
  <2>1. RowStays(p) \/ (f \in R.fresh /\ R.copy[f] \in Undoable)
    BY <1>0, <1>6, UndoMoves
  <2> QED BY <1>1, <1>3, <2>1 DEF Undoable, Ready
<1>7. ASSUME NEW f \in Files, Restore(p, f)
      PROVE  row' = row /\ P'.pc = P.pc
  <2>1. R.copy[f] = "rollback_pending"
    BY <1>0, <1>7, RestoreMoves
  <2>2. f \notin R.fresh
    BY <1>1, <2>1
  <2>3. RowStays(p) \/ Ended(p, f, "rolled_back") \/ Ended(p, f, "needs_attention")
    BY <1>7, RestoreMoves
  <2> QED BY <1>0, <1>3, <2>2, <2>3 DEF Ended
<1> QED BY <1>4, <1>5, <1>6, <1>7, NoCleanup DEF SharedStep

\* What a step of the publisher is at.
LEMMA PublisherIsAt ==
    ASSUME PublisherStep
    PROVE  Mark \/ (P.pc \notin {"idle", "mark", "cleanWait", "clean"} /\ bundle' \in {bundle, "catalog_committed"})
<1>1. \A pc : PAt(pc) => P.pc = pc
  BY DEF PAt, At, P
<1>2. List => PAt("list") /\ bundle' = bundle
  BY DEF List
<1>3. Unprepare => PAt("unprepare") /\ bundle' = bundle
  BY DEF Unprepare
<1>4. Enter => PAt("enter") /\ bundle' = bundle
  BY DEF Enter
<1>5. Recheck => PAt("recheck") /\ bundle' = bundle
  BY DEF Recheck
<1>6. Commit => PAt("commit") /\ bundle' \in {bundle, "catalog_committed"}
  BY DEF Commit
<1>7. ASSUME NEW f \in Files
      PROVE  /\ PrepareFile(f) => PAt("prepare") /\ bundle' = bundle
             /\ Stage(f) => PAt("stage") /\ bundle' = bundle
             /\ MarkStaged(f) => PAt("staged") /\ bundle' = bundle
             /\ SkipBoundary(f) \/ BackUp(f) \/ MarkBackedUp(f)
                => (PAt("publish") \/ PAt("boundary")) /\ bundle' = bundle
             /\ Place(f) => PAt("publish") /\ bundle' = bundle
             /\ PlaceSidecar(f) => (PAt("publish") \/ PAt("boundary")) /\ bundle' = bundle
             /\ MarkPublished(f) => (PAt("publish") \/ PAt("boundary")) /\ bundle' = bundle
  <2>1. PrepareFile(f) => PAt("prepare") /\ bundle' = bundle
    BY DEF PrepareFile
  <2>2. Stage(f) => PAt("stage") /\ bundle' = bundle
    BY DEF Stage
  <2>3. MarkStaged(f) => PAt("staged") /\ bundle' = bundle
    BY DEF MarkStaged
  <2>4. SkipBoundary(f) \/ BackUp(f) \/ MarkBackedUp(f)
                => (PAt("publish") \/ PAt("boundary")) /\ bundle' = bundle
    BY DEF SkipBoundary, BackUp, MarkBackedUp, InHand
  <2>5. Place(f) => PAt("publish") /\ bundle' = bundle
    BY DEF Place
  <2>6. PlaceSidecar(f) => (PAt("publish") \/ PAt("boundary")) /\ bundle' = bundle
    BY DEF PlaceSidecar, InHand
  <2>7. MarkPublished(f) => (PAt("publish") \/ PAt("boundary")) /\ bundle' = bundle
    BY DEF MarkPublished, InHand
  <2> QED BY <2>1, <2>2, <2>3, <2>4, <2>5, <2>6, <2>7
<1> QED BY <1>1, <1>2, <1>3, <1>4, <1>5, <1>6, <1>7 DEF PublisherStep

LEMMA BegunStep ==
    ASSUME ImportInv, ClosedInv, [Next]_vars
    PROVE  BegunInv'
<1> SUFFICES ASSUME bundle' \in {"none", "preparing"}
             PROVE  P'.pc \in {"idle", "mark"} /\ \A f \in Files : row'[f] = "none"
  BY DEF BegunInv
<1> DEFINE begun == P.pc \in {"idle", "mark"} /\ (\A f \in Files : row[f] = "none") /\ ~adopted
           same == row' = row /\ P'.pc \in {P.pc, "idle"}
<1>0. bundle \in {"none", "preparing"} => begun
  BY DEF ClosedInv, BegunInv, ImportInv, AdoptionInv, Committed
<1>1. CASE Call
  <2>1. bundle \in {"none", "preparing"} /\ row' = row
    BY <1>1, CallMoves
  <2> QED BY <1>0, <1>1, <2>1, CallMoves
<1>2. CASE PublisherStep
  <2>1. CASE Mark
    BY <1>0, <2>1, MarkMoves, NothingWas
  <2>2. CASE ~Mark
    <3>1. P.pc \notin {"idle", "mark"} /\ bundle' \in {bundle, "catalog_committed"}
      BY <1>2, <2>2, PublisherIsAt
    <3> QED BY <1>0, <3>1
  <2> QED BY <2>1, <2>2
<1>3. CASE RecoveryStep
  <2>1. CASE SetAside
    BY <2>1, SetAsideMoves DEF Closed
  <2>2. CASE ~SetAside
    <3>1. row' = row /\ Watches("publisher", {}) /\ (bundle' = bundle \/ bundle \in {"preparing", "publishing"})
          /\ bundle' \in {bundle, "rolled_back"}
      BY <1>3, <2>2, LooksMoves, ReadJournalsMoves, FinishPreparingMoves DEF RecoveryStep
    <3>2. P'.pc = P.pc
      BY <3>1 DEF Watches, P
    <3> QED BY <1>0, <3>1, <3>2
  <2> QED BY <2>1, <2>2
<1>4. ASSUME NEW p \in Workers, SharedStep(p)
      PROVE  P'.pc \in {"idle", "mark"} /\ \A f \in Files : row'[f] = "none"
  <2>1. bundle' \in {bundle, "rolled_back", "needs_attention", "completed", "cleanup_pending"}
    BY <1>4 DEF SharedStep, BeginCleanup, FinishCleanup, BeginUndo, CloseUndo, CleanUp, Undo,
       Restore
  <2>2. begun
    BY <1>0, <2>1
  <2> QED BY <1>4, <2>2, BegunShared
<1>5. CASE Fault
  <2>1. begun /\ P = w["publisher"] /\ R = w["recovery"]
    BY <1>0, <1>5, FaultMoves DEF P, R
  <2>2. CASE P' = Nobody /\ row' = row
    BY <2>1, <2>2, NothingWas
  <2>3. ASSUME NEW p \in Workers, NEW f \in Files, w[p].pc = "restore",
               w[p].copy[f] = "rollback_pending", Ended(p, f, "needs_attention")
        PROVE  P'.pc \in {"idle", "mark"} /\ \A g \in Files : row'[g] = "none"
    <3>1. p = "recovery"
      BY <2>1, <2>3 DEF Workers
    <3>2. f \notin w[p].fresh
      BY <2>1, <2>3, <3>1, CopiesNow
    <3>3. row' = row /\ Watches("publisher", {})
      BY <2>1, <2>3, <3>1, <3>2, CopiesNow DEF Ended, RowStays
    <3> QED BY <2>1, <3>3 DEF Watches, P
  <2> QED BY <1>5, <2>1, <2>2, <2>3, FaultMoves DEF Preparing, Entered
<1>6. CASE Stop
  BY <1>0, <1>6, StopMoves, NothingWas
<1>7. ASSUME NEW f \in Files, NEW place \in Places, OtherWrites(f, place)
      PROVE  P'.pc \in {"idle", "mark"} /\ \A g \in Files : row'[g] = "none"
  <2>1. UNCHANGED <<bundle, row, w>>
    BY <1>7 DEF OtherWrites
  <2> QED BY <1>0, <2>1 DEF P
<1>8. CASE Started \/ Restart \/ ChangePolicy \/ UNCHANGED vars
  BY <1>0, <1>8, WorldMoves
<1> QED BY <1>1, <1>2, <1>3, <1>4, <1>5, <1>6, <1>7, <1>8 DEF Next

\* Only the commit adopts.
LEMMA OnlyCommitAdopts ==
    ASSUME ImportInv, [Next]_vars, ~adopted, adopted'
    PROVE  bundle' = "catalog_committed"
<1>1. CASE Call \/ PublisherStep
  BY <1>1 DEF Call, PublisherStep, Mark, List, Unprepare, Enter, Recheck, Commit, PrepareFile,
     Stage, MarkStaged,
              SkipBoundary, BackUp, MarkBackedUp, Place, PlaceSidecar, MarkPublished
<1>2. ~RecoveryStep
  BY DEF RecoveryStep, ListBundle, RecoverBundle, ReadJournals, FinishPreparing, SetAside
<1>3. ASSUME NEW p \in Workers, SharedStep(p)
      PROVE  FALSE
  <2>1. ~(BeginCleanup(p) \/ FinishCleanup(p) \/ BeginUndo(p) \/ CloseUndo(p))
    BY DEF BeginCleanup, FinishCleanup, BeginUndo, CloseUndo
  <2>2. \A f \in Files : ~(CleanUp(p, f) \/ Undo(p, f) \/ Restore(p, f))
    BY UndoMoves, RestoreMoves DEF CleanUp
  <2> QED BY <1>3, <2>1, <2>2 DEF SharedStep
<1>4. ~Fault /\ ~Stop
  BY DEF Fault, Stop
<1>5. \A f \in Files, place \in Places : ~OtherWrites(f, place)
  BY DEF OtherWrites
<1>6. ~(Started \/ Restart \/ ChangePolicy \/ UNCHANGED vars)
  BY DEF Started, Restart, ChangePolicy, vars
<1> QED BY <1>1, <1>2, <1>3, <1>4, <1>5, <1>6 DEF Next

LEMMA DoneShared ==
    ASSUME ImportInv, adopted, DoneInv, NEW p \in Workers, SharedStep(p)
    PROVE  DoneInv'
<1>0. \A f \in Files : row[f] \in Committed \cup {"needs_attention"}
  BY AdoptedNow
<1>1. CASE FinishCleanup(p)
  <2>1. CASE UNCHANGED <<bundle, row>>
    BY <2>1 DEF DoneInv
  <2>2. CASE /\ bundle' = IF w[p].failed = {} THEN "completed" ELSE "cleanup_pending"
             /\ row' = [f \in Files |->
                          CASE f \in w[p].failed /\ row[f] = "catalog_committed" -> "cleanup_pending"
                            [] f \notin w[p].failed /\ row[f] \in {"catalog_committed", "cleanup_pending"}
                                 -> "completed"
                            [] OTHER -> row[f]]
    <3>1. CASE w[p].failed = {}
      BY <1>0, <2>2, <3>1 DEF DoneInv, Committed
    <3>2. CASE w[p].failed # {}
      BY <2>2, <3>2 DEF DoneInv
    <3> QED BY <3>1, <3>2
  <2> QED BY <1>1, <2>1, <2>2 DEF FinishCleanup
<1>2. CASE BeginCleanup(p) \/ BeginUndo(p) \/ \E f \in Files : CleanUp(p, f)
  <2>1. UNCHANGED <<bundle, row>>
    BY <1>2 DEF BeginCleanup, BeginUndo, CleanUp
  <2> QED BY <2>1 DEF DoneInv
<1>3. CASE CloseUndo(p)
  <2>1. UNCHANGED <<bundle, row>>
    BY <1>3, CloseUndoMoves, AdoptedNow DEF Committed
  <2> QED BY <2>1 DEF DoneInv
<1>4. ASSUME NEW f \in Files, Undo(p, f)
      PROVE  DoneInv'
  <2>0. w[p].pc = "undo" /\ f \in w[p].todo /\ bundle' = bundle
    BY <1>4, UndoMoves DEF LastOf
  <2>1. p = "recovery" /\ R = w["recovery"]
    BY <2>0, AdoptedNow DEF Workers, Cleaning, P, R
  <2>2. ~Undoes(R, f)
    BY <2>0, <2>1, AdoptedNow
  <2>3. row' = row
    BY <1>4, <2>0, <2>1, <2>2, UndoMoves DEF Undoes, RowStays, R
  <2> QED BY <2>0, <2>3 DEF DoneInv
<1>5. \A f \in Files : ~Restore(p, f)
  BY RestoreMoves
<1> QED BY <1>1, <1>2, <1>3, <1>4, <1>5 DEF SharedStep

LEMMA DoneStep ==
    ASSUME ImportInv, DoneInv, [Next]_vars
    PROVE  DoneInv'
<1>0. CASE ~adopted
  BY <1>0, OnlyCommitAdopts DEF DoneInv
<1> SUFFICES ASSUME adopted PROVE DoneInv'
  BY <1>0
<1>1. P.pc \in {"idle", "cleanWait", "clean"} /\ bundle \in Committed \cup {"needs_attention"}
      /\ \A f \in Files : row[f] \in Committed \cup {"needs_attention"}
  BY AdoptedNow DEF Cleaning
<1>2. UNCHANGED <<bundle, row>> => DoneInv'
  BY DEF DoneInv
<1>3. CASE Call
  BY <1>1, <1>2, <1>3, CallMoves DEF Committed
<1>4. ~PublisherStep
  BY <1>1, MarkMoves, PublisherIsAt
<1>5. CASE RecoveryStep
  <2>1. CASE SetAside
    <3>1. /\ bundle' = IF bundle \in Closed THEN bundle ELSE "needs_attention"
          /\ \A f \in Files : row'[f] = IF Open(f) THEN "needs_attention" ELSE row[f]
      BY <2>1, SetAsideMoves
    <3>2. \A f \in Files : row'[f] \in Closed
      BY <1>1, <3>1 DEF Open, Closed, Committed
    <3>3. bundle' = "completed" => \A f \in Files : row'[f] \in {"completed", "needs_attention"}
      BY <3>1 DEF DoneInv, Closed
    <3> QED BY <3>2, <3>3 DEF DoneInv
  <2>2. CASE ~SetAside
    BY <1>1, <1>2, <1>5, <2>2, LooksMoves, ReadJournalsMoves, FinishPreparingMoves DEF RecoveryStep,
       Committed
  <2> QED BY <2>1, <2>2
<1>6. ASSUME NEW p \in Workers, SharedStep(p)
      PROVE  DoneInv'
  BY <1>6, DoneShared
<1>7. CASE Fault
  BY <1>1, <1>2, <1>7, FaultMoves DEF Preparing, Entered
<1>8. CASE Stop
  BY <1>2, <1>8, StopMoves
<1>9. ASSUME NEW f \in Files, NEW place \in Places, OtherWrites(f, place)
      PROVE  DoneInv'
  BY <1>2, <1>9 DEF OtherWrites
<1>10. CASE Started \/ Restart \/ ChangePolicy \/ UNCHANGED vars
  BY <1>2, <1>10, WorldMoves
<1> QED BY <1>3, <1>4, <1>5, <1>6, <1>7, <1>8, <1>9, <1>10 DEF Next

LEMMA ClosedInit ==
    ASSUME Init
    PROVE  ClosedInv
<1>1. P = Nobody /\ R = Nobody /\ (\A f \in Files : row[f] = "none") /\ ~adopted
  BY DEF Init, P, R, Workers
<1> QED BY <1>1, NothingWas DEF ClosedInv, OpenInv, OpenOf, BegunInv, DoneInv, Open, Winding

\* Of a closed bundle that nobody works at every row is closed as the bundle is, or set aside,
\* whichever call, cancellation, stop or recovery closed it
\* (_rollback_import_bundle_locked, _resume_import_cleanup, recover_import_bundle).
THEOREM ClosedIsWholeHolds ==
    ASSUME ImportAssumption, "callOverRollback" \notin Admits, "stopWhenOverruled" \notin Admits
    PROVE  Spec => []ClosedIsWhole
<1>1. Init => ImportInv /\ StaleInv /\ ClosedInv
  BY ImportInit, StaleInit, ClosedInit
<1>2. ImportInv /\ StaleInv /\ ClosedInv /\ [Next]_vars => ImportInv' /\ StaleInv' /\ ClosedInv'
  BY NextKeeps, StaleStep, OpenStep, BegunStep, DoneStep DEF ClosedInv
<1>3. ImportInv /\ StaleInv /\ ClosedInv => ClosedIsWhole
  <2> SUFFICES ASSUME ImportInv, StaleInv, ClosedInv, AtRest, bundle \in Closed, NEW f \in Journalled
               PROVE  row[f] \in IF bundle = "needs_attention" THEN Closed ELSE {bundle, "needs_attention"}
    BY DEF ClosedIsWhole
  <2>0. f \in Files /\ row[f] # "none" /\ P.pc = "idle"
    BY DEF Journalled, AtRest, At, Workers, P
  <2>1. CASE adopted
    BY <2>0, <2>1, AdoptedNow DEF ClosedInv, DoneInv, Closed, Committed
  <2>2. CASE ~adopted
    <3>1. ~Open(f)
      BY <2>0, <2>2 DEF ClosedInv, OpenInv, OpenOf, Minds, Preparing, Entered, Closed
    <3>2. row[f] \in {"rolled_back", "needs_attention"}
      BY <2>0, <2>2, <3>1 DEF Open, StaleInv, StaleOf, Closed, Committed
    <3>3. bundle # "completed"
      BY <2>2 DEF ImportInv, AdoptionInv, Committed
    <3> QED BY <3>2, <3>3 DEF Closed
  <2> QED BY <2>1, <2>2
<1> QED BY <1>1, <1>2, <1>3, PTL DEF Spec

-----------------------------------------------------------------------------
(* A row that says rolled back is true of the files *)

\* Recovery removed the audio of the file and not yet its sidecar.
HalfWay(f) ==
    Empty(f, "destination") /\ \E p \in Workers : w[p].pc = "restore" /\ LastOf(w[p].todo, f) /\ f \in w[p].was

\* Where the file goes to is as it was before.
Unplaced(f) ==
    /\ Holds(f, "destination", IF Same(f) THEN "replaced" ELSE "missing")
    /\ Empty(f, "backup") /\ Empty(f, "sidecarPlace")

\* What it is made from and replaces is there, and all that is elsewhere is the publisher's.
SafeOf(f) ==
    /\ Holds(f, "source", "input") /\ (Plan[f].replaces = "other" => Holds(f, "old", "replaced"))
    /\ disk[f].temp \in {"missing", "staged"} /\ (~Empty(f, "backup") => Same(f))
    /\ disk[f].sidecarTemp \in {"missing", "art"} /\ disk[f].sidecarPlace \in {"missing", "art"}

PlacedOf(f) ==
    /\ row[f] \in {"none", "planned", "staged", "rolled_back"} => Unplaced(f)
    /\ row[f] \in Ready \cup {"published", "rollback_pending"} =>
          /\ Empty(f, "sidecarPlace") \/ AudioPlaced(f) \/ HalfWay(f)
          /\ disk[f].destination \in {"missing"} \cup (IF Same(f) THEN {"replaced"} ELSE {}) \/ AudioPlaced(f)

\* A rollback knows which file was published.
WasFor(p, f) ==
    /\ f \in w[p].was => w[p].pc \in {"undo", "restore", "attention"}
    /\ w[p].pc = "undo" => f \notin w[p].was \cap w[p].todo
    /\ w[p].pc = "restore" /\ f \in w[p].was \cap w[p].todo => LastOf(w[p].todo, f)
    /\ w[p].pc = "restore" /\ LastOf(w[p].todo, f) =>
          IF f \in w[p].was THEN row[f] \in {"rollback_pending", "needs_attention"}
          ELSE ~AudioPlaced(f) \/ row[f] = "needs_attention"
WasOf(f) == \A p \in Workers : WasFor(p, f)

\* A row that recovery read in the middle of its rollback, and that was undone since.
RereadOf(f) ==
    R.copy[f] = "rollback_pending" /\ f \notin R.fresh =>
        /\ R.pc = "undoWait" => row[f] \in {"rolled_back", "needs_attention"}
        /\ R.pc \in {"undo", "restore"} /\ f \in R.todo =>
              \/ row[f] = "needs_attention"
              \/ row[f] \in {"planned", "staged", "validated", "rolled_back"} /\ Unplaced(f)

\* What the publisher prepared is staged, if it is not undone meanwhile.
StagedOf(f) ==
    /\ P.pc \in Preparing /\ f \in P.prepared => f \notin P.todo
    /\ P.pc \in Preparing \cup Entered /\ f \in P.prepared => P.copy[f] \in Ready \cup {"published"}
    /\ P.pc \in Preparing /\ P.copy[f] \in {"none", "planned", "staged", "rolled_back"} =>
          ~Holds(f, "destination", "staged")
    /\ P.copy[f] \in Ready \cup {"published"} /\ row[f] = "rolled_back" => Empty(f, "temp")
    /\ P.pc \in {"publish", "commit"} => row[f] # "rolled_back"
    /\ P.pc = "publish" /\ f \in P.todo => Holds(f, "temp", "staged") \/ AudioPlaced(f)

RestOf(f) == SafeOf(f) /\ PlacedOf(f) /\ WasOf(f) /\ RereadOf(f) /\ StagedOf(f)
RestInv == ~adopted => \A f \in Files \ touched : RestOf(f)

-----------------------------------------------------------------------------

LEMMA NoHalf ==
    ASSUME ImportInv, NEW p \in Workers, lease = p, NEW f \in Files, HalfWay(f)
    PROVE  w[p].pc = "restore" /\ LastOf(w[p].todo, f) /\ f \in w[p].was
BY DEF HalfWay, ImportInv, LeaseInv, Critical, Workers, P, R

\* Nobody who is in the middle of a file goes on.
LEMMA HalfStays ==
    ASSUME NEW p \in Workers, w[p].pc # "restore", NEW gone, \A q \in Workers \ {p} : Watches(q, gone),
           NEW f \in Files, disk'[f].destination = disk[f].destination, HalfWay(f)
    PROVE  HalfWay(f)'
<1>1. PICK q \in Workers : w[q].pc = "restore" /\ LastOf(w[q].todo, f) /\ f \in w[q].was
  BY DEF HalfWay
<1>2. w'[q].pc = "restore" /\ LastOf(w'[q].todo, f) /\ f \in w'[q].was
  BY <1>1 DEF Watches
<1> QED BY <1>1, <1>2 DEF HalfWay, Empty, Holds

LEMMA SafeStays ==
    ASSUME NEW f \in Files, disk'[f] = disk[f], SafeOf(f)
    PROVE  SafeOf(f)'
BY DEF SafeOf, Holds, Empty

LEMMA PlacedStays ==
    ASSUME NEW f \in Files, disk'[f] = disk[f], row'[f] = row[f], PlacedOf(f),
           row[f] \in Ready \cup {"published", "rollback_pending"} /\ HalfWay(f) =>
               HalfWay(f)' \/ Empty(f, "sidecarPlace")
    PROVE  PlacedOf(f)'
<1> DEFINE half == HalfWay(f)
<1>1. /\ Unplaced(f)' <=> Unplaced(f)
      /\ AudioPlaced(f)' <=> AudioPlaced(f)
      /\ Empty(f, "sidecarPlace")' <=> Empty(f, "sidecarPlace")
  BY DEF Unplaced, AudioPlaced, Holds, Empty
<1> QED BY <1>1 DEF PlacedOf

\* Whoever does not act is where it was.
LEMMA WasStays ==
    ASSUME NEW p \in Workers, NEW gone, \A q \in Workers \ {p} : Watches(q, gone), NEW f \in Files, WasOf(f),
           \A q \in Workers \ {p} :
               w[q].pc = "restore" => /\ AudioPlaced(f)' => AudioPlaced(f)
                                      /\ row'[f] = row[f] \/ row[f] \notin {"rollback_pending", "needs_attention"},
           WasFor(p, f)'
    PROVE  WasOf(f)'
<1>1. ASSUME NEW q \in Workers \ {p}
      PROVE  WasFor(q, f)'
  <2>1. w'[q].pc = w[q].pc /\ w'[q].was = w[q].was /\ w'[q].todo = w[q].todo /\ WasFor(q, f)
    BY DEF Watches, WasOf
  <2> HIDE DEF AudioPlaced
  <2> QED BY <2>1 DEF WasFor
<1> QED BY <1>1 DEF WasOf

\* The publisher at work, who is not at its rollback.
LEMMA RestPublisher ==
    ASSUME ImportInv, NEW gone, Watches("recovery", gone), NEW f \in Files, RestOf(f),
           P.pc \notin {"undo", "restore", "attention"}, P'.pc # "restore", P'.was \subseteq P.was,
           R.pc = "restore" => /\ AudioPlaced(f)' => AudioPlaced(f)
                               /\ row'[f] = row[f] \/ row[f] \notin {"rollback_pending", "needs_attention"},
           SafeOf(f)', PlacedOf(f)', RereadOf(f)', StagedOf(f)'
    PROVE  RestOf(f)'
<1>1. P = w["publisher"] /\ R = w["recovery"] /\ "publisher" \in Workers
      /\ \A q \in Workers \ {"publisher"} : q = "recovery"
  BY DEF P, R, Workers
<1>2. f \notin P.was
  BY <1>1 DEF RestOf, WasOf, WasFor
<1>3. WasFor("publisher", f)'
  BY <1>2 DEF WasFor, P
<1>4. WasOf(f)
  BY DEF RestOf
<1>5. WasOf(f)'
  <2> HIDE DEF AudioPlaced
  <2> QED BY <1>1, <1>3, <1>4, WasStays
<1> QED BY <1>5 DEF RestOf

LEMMA RereadStays ==
    ASSUME NEW gone, Watches("recovery", gone), NEW f \in Files, f \notin gone, RereadOf(f), row'[f] = row[f],
           R.pc \in {"undo", "restore"} => disk'[f].destination = disk[f].destination
                                           /\ disk'[f].backup = disk[f].backup
                                           /\ disk'[f].sidecarPlace = disk[f].sidecarPlace
    PROVE  RereadOf(f)'
<1>1. R'.pc = R.pc /\ R'.todo = R.todo /\ R'.copy = R.copy /\ (f \in R'.fresh <=> f \in R.fresh)
  BY DEF Watches, R
<1>2. R.pc \in {"undo", "restore"} => (Unplaced(f) => Unplaced(f)')
  BY DEF Unplaced, Holds, Empty
<1> QED BY <1>1, <1>2 DEF RereadOf

\* It does nothing to the file.
LEMMA RestStays ==
    ASSUME ImportInv, NEW gone, Watches("recovery", gone), NEW f \in Files, f \notin gone, RestOf(f),
           P.pc \notin {"undo", "restore", "attention"}, P'.pc # "restore", P'.was \subseteq P.was,
           row'[f] = row[f], disk'[f] = disk[f], StagedOf(f)'
    PROVE  RestOf(f)'
<1>1. SafeOf(f)' /\ (AudioPlaced(f)' => AudioPlaced(f))
  BY SafeStays DEF RestOf, AudioPlaced, Empty, Holds
<1>2. \A q \in Workers \ {"publisher"} : Watches(q, gone)
  BY DEF Workers
<1>3. HalfWay(f) => HalfWay(f)'
  BY <1>2, HalfStays DEF P, Workers
<1>4. PlacedOf(f)' /\ RereadOf(f)'
  BY <1>3, PlacedStays, RereadStays DEF RestOf
<1> QED BY <1>1, <1>4, RestPublisher

\* It is neither preparing nor publishing any more, or not yet.
LEMMA RestTurns ==
    ASSUME ImportInv, Watches("recovery", {}), P.pc \notin {"undo", "restore", "attention"},
           P'.pc \notin Preparing \cup Entered \cup {"restore"}, P'.was \subseteq P.was,
           disk' = disk, row' = row, touched' = touched,
           \A f \in Files : P'.copy[f] \in {P.copy[f], row[f], "none"},
           \A f \in Files \ touched : RestOf(f)
    PROVE  \A f \in Files \ touched' : RestOf(f)'
<1>1. ASSUME NEW f \in Files \ touched
      PROVE  RestOf(f)'
  <2>1. RestOf(f) /\ P'.copy[f] \in {P.copy[f], row[f], "none"}
    OBVIOUS
  <2>2. StagedOf(f)'
    BY <2>1 DEF RestOf, StagedOf, Preparing, Entered, Ready, Empty, Holds
  <2> QED BY <2>1, <2>2, RestStays
<1> QED BY <1>1

\* It goes on, and knows no more than before.
LEMMA RestGoes ==
    ASSUME ImportInv, RowStays("publisher"), P.pc \in Preparing \cup Entered,
           P'.pc \in Preparing \cup Entered, P'.pc \notin {"publish", "commit"}, P'.was = P.was,
           P.pc \in Entered => P'.pc \in Entered,
           disk' = disk, touched' = touched,
           \A f \in Files \ touched : RestOf(f),
           \A f \in P'.prepared : f \in P.prepared \/ P.copy[f] \in Ready \cup {"published"},
           P'.pc \in Preparing => P'.todo \subseteq P.todo /\ \A f \in P'.prepared \ P.prepared : f \notin P'.todo
    PROVE  \A f \in Files \ touched' : RestOf(f)'
<1>1. row' = row /\ Watches("recovery", {}) /\ P'.copy = P.copy
  BY DEF RowStays, Workers, P
<1>2. P.pc \notin {"undo", "restore", "attention"} /\ P'.pc # "restore"
      /\ (P'.pc \in Preparing => P.pc \in Preparing)
  BY DEF Preparing, Entered
<1>3. ASSUME NEW f \in Files \ touched
      PROVE  RestOf(f)'
  <2>1. RestOf(f)
    OBVIOUS
  <2>2. StagedOf(f)'
    BY <1>1, <1>2, <2>1 DEF RestOf, StagedOf, Empty, Holds
  <2> QED BY <1>1, <1>2, <2>1, <2>2, RestStays
<1> QED BY <1>3

LEMMA AtWork ==
    ASSUME ImportInv, P.pc \in Preparing \cup Entered
    PROVE  /\ P.pc \notin {"undo", "restore", "attention"}
           /\ P.pc \in Critical => R.pc \notin {"undo", "restore"}
BY DEF ImportInv, LeaseInv, Critical, Preparing, Entered

LEMMA RestPreparing ==
    ASSUME ImportInv, ~adopted, StaleInv, \A f \in Files \ touched : RestOf(f),
           Call \/ Mark \/ List \/ Unprepare \/ Enter \/ \E f \in Files : SkipBoundary(f)
    PROVE  \A f \in Files \ touched' : RestOf(f)'
<1>1. CASE Call
  BY <1>1, CallMoves, RestTurns DEF Preparing, Entered
<1>2. CASE Mark
  <2>1. \A f \in Files : P'.copy[f] \in {P.copy[f], "none"}
    BY <1>2, MarkMoves, NothingWas
  <2> QED BY <1>2, <2>1, MarkMoves, NothingWas, RestTurns DEF Preparing, Entered
<1>3. CASE List
  <2>1. /\ P.pc = "list" /\ Watches("recovery", {}) /\ UNCHANGED <<row, disk, touched>>
    BY <1>3, ListMoves
  <2>2. CASE P' = Nobody
    BY <2>1, <2>2, NothingWas, RestTurns DEF Preparing, Entered
  <2>3. CASE /\ OnTo("publisher", "prepare", Files, {}) /\ P'.was = P.was
             /\ \A f \in Files : P'.copy[f] = row[f]
    <3>1. P'.pc = "prepare" /\ P'.prepared = {} /\ P'.todo = Files
      BY <2>3 DEF OnTo, P
    <3>2. ASSUME NEW f \in Files \ touched
          PROVE  RestOf(f)'
      <4>1. RestOf(f) /\ P'.copy[f] = row[f]
        BY <2>3
      <4>2. StagedOf(f)'
        BY <2>1, <3>1, <4>1 DEF RestOf, StagedOf, PlacedOf, Unplaced, Holds, Empty, Ready,
           Preparing, Entered
      <4> QED BY <2>1, <2>3, <3>1, <4>1, <4>2, RestStays
    <3> QED BY <2>1, <3>2
  <2> QED BY <1>3, <2>2, <2>3, ListMoves
<1>4. CASE Unprepare
  <2>1. P.pc = "unprepare" /\ P'.pc \in {"close", "undoWait"}
    BY <1>4, UnprepareMoves DEF OnTo, P
  <2> QED BY <1>4, <2>1, UnprepareMoves, RestTurns DEF Preparing, Entered
<1>5. CASE Enter
  <2>1. P.pc = "enter" /\ RowStays("publisher") /\ P'.was = P.was /\ UNCHANGED <<row, disk, touched>>
        /\ Watches("recovery", {}) /\ P'.copy = P.copy
    BY <1>5, EnterMoves DEF RowStays, Workers, P
  <2>2. CASE P'.pc = "undoWait"
    BY <2>1, <2>2, RestTurns DEF Preparing, Entered
  <2>3. CASE P'.pc = "boundary" /\ P'.prepared = P.prepared
    BY <2>1, <2>3, RestGoes DEF Preparing, Entered
  <2> QED BY <1>5, <2>2, <2>3, EnterMoves DEF Turned, OnTo, P
<1>6. ASSUME NEW f \in Files, SkipBoundary(f)
      PROVE  \A g \in Files \ touched' : RestOf(g)'
  BY <1>6, SkipMoves, RestGoes DEF Preparing, Entered
<1> QED BY <1>1, <1>2, <1>3, <1>4, <1>5, <1>6

LEMMA RestTurned ==
    ASSUME ImportInv, \A f \in Files \ touched : RestOf(f), NEW pc \in {"unprepare", "undoWait"}, Turned(pc),
           P.pc \in Preparing \cup Entered, disk' = disk, touched' = touched
    PROVE  \A f \in Files \ touched' : RestOf(f)'
<1>1. row' = row /\ Watches("recovery", {}) /\ P'.copy = P.copy /\ P'.pc = pc /\ P'.was = P.was
  BY DEF Turned, RowStays, OnTo, Workers, P
<1> QED BY <1>1, AtWork, RestTurns DEF Preparing, Entered

\* The publisher writes the row of a file in its preparation or in its critical section.
LEMMA RestWrites ==
    ASSUME ImportInv, ~adopted, StaleInv, \A f \in Files \ touched : RestOf(f), NEW f \in Files, NEW state,
           RowGoes("publisher", f, state), P.pc \in Preparing \cup Entered,
           P'.pc \in Preparing \cup Entered, P'.was = P.was,
           P.pc \in Entered => P'.pc \in Entered,
           P'.pc \in {"publish", "commit"} => P.pc = "publish", P'.prepared = P.prepared,
           P'.todo \subseteq P.todo,
           disk' = disk, touched' = touched, row[f] \notin {"rollback_pending", "needs_attention"},
           \/ state \in {"planned", "staged", "validated"} /\ P.pc \in Preparing /\ f \in P.todo
              /\ row[f] \in {"none", "planned", "staged", "rolled_back"}
           \/ state \in {"replacement_backed_up", "published"} /\ P.pc \in Critical
              /\ row[f] \in Ready \cup {"published"}
    PROVE  \A g \in Files \ touched' : RestOf(g)'
<1>1. /\ Watches("recovery", {f}) /\ row'[f] = state /\ P'.copy[f] = state
      /\ \A g \in Files \ {f} : row'[g] = row[g] /\ P'.copy[g] = P.copy[g]
  <2>1. P \in Memories /\ row \in [Files -> RowStates] /\ P = w["publisher"]
    BY CopiesNow
  <2> QED BY <2>1 DEF RowGoes, Workers, Memories, P
<1>2. /\ P.pc \notin {"undo", "restore", "attention"} /\ P'.pc # "restore"
      /\ (P'.pc \in Preparing => P.pc \in Preparing) /\ (P.pc \in Preparing => P'.pc # "publish")
  BY AtWork DEF Preparing, Entered
<1>3. ASSUME NEW g \in Files \ touched, g # f
      PROVE  RestOf(g)'
  <2>1. RestOf(g) /\ row'[g] = row[g] /\ disk'[g] = disk[g] /\ P'.copy[g] = P.copy[g]
    BY <1>1, <1>3
  <2>2. StagedOf(g)'
    BY <1>1, <1>2, <2>1 DEF RestOf, StagedOf, AudioPlaced, Empty, Holds
  <2> QED BY <1>1, <1>2, <1>3, <2>1, <2>2, RestStays
<1>4. ASSUME f \in Files \ touched
      PROVE  RestOf(f)'
  <2>1. RestOf(f) /\ disk'[f] = disk[f]
    BY <1>4
  <2>2. SafeOf(f)' /\ (AudioPlaced(f)' <=> AudioPlaced(f)) /\ (Unplaced(f)' <=> Unplaced(f))
    BY <2>1, SafeStays DEF RestOf, AudioPlaced, Unplaced, Empty, Holds
  <2>3. HalfWay(f) => HalfWay(f)'
    <3>1. \A q \in Workers \ {"publisher"} : Watches(q, {f})
      BY <1>1 DEF Workers
    <3> QED BY <1>2, <2>1, <3>1, HalfStays DEF P, Workers
  <2>4. PlacedOf(f)'
    <3>1. CASE Unplaced(f)
      BY <1>1, <2>1, <2>2, <3>1 DEF PlacedOf, Unplaced, Holds, Empty
    <3>2. CASE row[f] \in Ready \cup {"published"} /\ state \in {"replacement_backed_up", "published"}
      BY <1>1, <2>1, <2>2, <2>3, <3>2 DEF RestOf, PlacedOf, Ready, Empty, Holds
    <3> QED BY <2>1, <3>1, <3>2 DEF RestOf, PlacedOf
  <2>5. RereadOf(f)'
    <3>1. R'.pc = R.pc /\ R'.todo = R.todo /\ R'.copy = R.copy
      BY <1>1 DEF Watches, R
    <3>2. R.pc = "undoWait" => R.copy[f] # "rollback_pending"
      BY DEF ImportInv, CopyInv
    <3>3. R.pc \in {"undo", "restore"} => state \in {"planned", "staged", "validated"} /\ Unplaced(f)
      BY <2>1, AtWork DEF RestOf, PlacedOf
    <3> QED BY <1>1, <2>2, <3>1, <3>2, <3>3 DEF RereadOf
  <2>6. StagedOf(f)'
    <3>1. state # "rolled_back" /\ (state \in {"planned", "staged", "validated"} => ~Holds(f, "destination", "staged"))
      BY <2>1 DEF RestOf, PlacedOf, Unplaced, Holds, Empty
    <3>2. P.pc \in Critical => P.pc \notin Preparing
      BY DEF Critical, Preparing
    <3> QED BY <1>1, <1>2, <2>1, <2>2, <3>1, <3>2 DEF RestOf, StagedOf, Ready, Empty, Holds
  <2> QED BY <1>1, <1>2, <2>1, <2>2, <2>4, <2>5, <2>6, RestPublisher
<1> QED BY <1>3, <1>4

LEMMA RestPrepareFile ==
    ASSUME ImportInv, ~adopted, StaleInv, \A f \in Files \ touched : RestOf(f), NEW f \in Files, PrepareFile(f)
    PROVE  \A g \in Files \ touched' : RestOf(g)'
<1>0. /\ P.pc = "prepare" /\ f \in P.todo /\ UNCHANGED <<disk, touched>> /\ P'.was = P.was
      /\ P.pc \in Preparing \cup Entered
  BY PrepareMoves DEF FirstOf, Preparing
<1>1. ASSUME NEW state \in {"planned", "validated"}, RowGoes("publisher", f, state),
             OnTo("publisher", IF state = "planned" THEN "stage" ELSE "prepare", P.todo, P.prepared),
             \/ P.copy[f] = "none" /\ state = "planned"
             \/ P.copy[f] = "rolled_back" /\ f \in P.fresh /\ state = "planned"
             \/ P.copy[f] = "staged" /\ f \in P.fresh /\ state = "validated"
      PROVE  \A g \in Files \ touched' : RestOf(g)'
  <2>1. row[f] \in {"none", "rolled_back", "staged"}
    BY <1>0, <1>1, CopiesNow DEF ImportInv, CopyInv
  <2>2. P'.pc \in {"prepare", "stage"} /\ P'.todo = P.todo /\ P'.prepared = P.prepared
    BY <1>1 DEF OnTo, P
  <2> QED BY <1>0, <1>1, <2>1, <2>2, RestWrites DEF Preparing, Entered
<1>2. CASE RowStays("publisher") /\ P'.todo = P.todo /\ P'.prepared = P.prepared /\ P'.pc = "unprepare"
  <2>1. Turned("unprepare")
    BY <1>0, <1>2 DEF Turned, OnTo, P
  <2> QED BY <1>0, <2>1, RestTurned
<1>3. CASE RowStays("publisher") /\ P'.todo = P.todo /\ P'.prepared = P.prepared /\ P'.pc = "stage"
  BY <1>0, <1>3, RestGoes DEF Preparing, Entered
<1>4. CASE /\ RowStays("publisher") /\ P.copy[f] \in Ready \cup {"published"}
           /\ OnTo("publisher", IF P.todo = {f} THEN "enter" ELSE "prepare", P.todo \ {f}, P.prepared \cup {f})
  <2>1. P'.pc \in {"enter", "prepare"} /\ P'.todo = P.todo \ {f} /\ P'.prepared = P.prepared \cup {f}
    BY <1>4 DEF OnTo, P
  <2> QED BY <1>0, <1>4, <2>1, RestGoes DEF Preparing, Entered
<1> QED BY <1>1, <1>2, <1>3, <1>4, PrepareMoves

LEMMA RestMarkStaged ==
    ASSUME ImportInv, ~adopted, StaleInv, \A f \in Files \ touched : RestOf(f), NEW f \in Files, MarkStaged(f)
    PROVE  \A g \in Files \ touched' : RestOf(g)'
<1>0. /\ P.pc = "staged" /\ f \in P.todo /\ UNCHANGED <<disk, touched>> /\ P.copy[f] = "planned"
      /\ P.pc \in Preparing \cup Entered
  BY MarkStagedMoves DEF FirstOf, Preparing
<1>1. CASE /\ f \in P.fresh /\ RowGoes("publisher", f, "staged")
           /\ OnTo("publisher", "prepare", P.todo, P.prepared) /\ P'.was = P.was
  <2>1. row[f] = "planned"
    BY <1>0, <1>1, CopiesNow
  <2>2. P'.pc = "prepare" /\ P'.todo = P.todo /\ P'.prepared = P.prepared
    BY <1>1 DEF OnTo, P
  <2> QED BY <1>0, <1>1, <2>1, <2>2, RestWrites DEF Preparing, Entered
<1>2. CASE Turned("unprepare")
  BY <1>0, <1>2, RestTurned
<1> QED BY <1>1, <1>2, MarkStagedMoves

LEMMA RestStage ==
    ASSUME ImportInv, ~adopted, \A f \in Files \ touched : RestOf(f), NEW f \in Files, Stage(f)
    PROVE  \A g \in Files \ touched' : RestOf(g)'
<1>0. P.pc = "stage" /\ P.copy[f] = "planned" /\ row' = row /\ touched' = touched
  BY StageMoves
<1>1. CASE Turned("unprepare") /\ disk' = disk
  BY <1>0, <1>1, RestTurned DEF Preparing
<1>2. CASE /\ Turned("staged")
           /\ disk' = [disk EXCEPT ![f].temp = "staged",
                                   ![f].sidecarTemp = IF HasSidecar(f) THEN "art" ELSE @]
  <2>1. /\ Watches("recovery", {}) /\ P'.pc = "staged" /\ P'.was = P.was /\ P'.copy = P.copy
        /\ P'.todo = P.todo /\ P'.prepared = P.prepared
    BY <1>2 DEF Turned, RowStays, OnTo, Workers, P
  <2>2. /\ \A g \in Files : g # f => disk'[g] = disk[g]
        /\ disk'[f].temp = "staged" /\ disk'[f].sidecarTemp \in {"art", disk[f].sidecarTemp}
        /\ \A place \in Places : place \notin {"temp", "sidecarTemp"} => disk'[f][place] = disk[f][place]
    <3>1. disk \in [Files -> [Places -> Bytes]]
      BY DEF ImportInv, Types
    <3> QED BY <1>2, <3>1 DEF Places
  <2>3. ASSUME NEW g \in Files \ touched, g # f
        PROVE  RestOf(g)'
    <3>1. RestOf(g) /\ disk'[g] = disk[g]
      BY <2>2, <2>3
    <3>2. StagedOf(g)'
      BY <1>0, <2>1, <3>1 DEF RestOf, StagedOf, Preparing, Entered, Holds, Empty
    <3> QED BY <1>0, <2>1, <3>1, <3>2, RestStays
  <2>4. ASSUME f \in Files \ touched
        PROVE  RestOf(f)'
    <3>1. /\ RestOf(f) /\ ~Holds(f, "destination", "staged") /\ ~AudioPlaced(f) /\ ~AudioPlaced(f)'
      BY <1>0, <2>2, <2>4 DEF RestOf, StagedOf, Preparing, AudioPlaced, Holds, Empty
    <3>2. /\ disk'[f].source = disk[f].source /\ disk'[f].destination = disk[f].destination
          /\ disk'[f].backup = disk[f].backup /\ disk'[f].sidecarPlace = disk[f].sidecarPlace
          /\ disk'[f].old = disk[f].old
      BY <2>2 DEF Places
    <3>3. SafeOf(f)'
      BY <2>2, <3>1, <3>2 DEF RestOf, SafeOf, Holds, Empty
    <3>4. HalfWay(f) => HalfWay(f)'
      <4>1. \A q \in Workers \ {"publisher"} : Watches(q, {})
        BY <2>1 DEF Workers
      <4> QED BY <1>0, <3>2, <4>1, HalfStays DEF P, Workers
    <3>5. PlacedOf(f)'
      BY <1>0, <3>1, <3>2, <3>4 DEF RestOf, PlacedOf, Unplaced, Holds, Empty
    <3>6. RereadOf(f)'
      BY <1>0, <2>1, <3>1, <3>2, RereadStays DEF RestOf
    <3>7. StagedOf(f)'
      BY <1>0, <2>1, <3>1, <3>2 DEF RestOf, StagedOf, Preparing, Entered, Ready, Holds, Empty
    <3> QED BY <1>0, <2>1, <3>1, <3>3, <3>5, <3>6, <3>7, RestPublisher
  <2> QED BY <1>0, <2>3, <2>4
<1> QED BY <1>1, <1>2, StageMoves

LEMMA RestRecheck ==
    ASSUME ImportInv, ~adopted, StaleInv, \A f \in Files \ touched : RestOf(f), Recheck
    PROVE  \A f \in Files \ touched' : RestOf(f)'
<1>0. /\ P.pc = "recheck" /\ P.prepared = Files /\ UNCHANGED <<row, touched>> /\ P'.was = P.was
      /\ P'.prepared = P.prepared /\ P'.copy = P.copy /\ Watches("recovery", {})
  BY RecheckMoves DEF RowStays, Workers, P
<1>1. CASE P'.pc = "undoWait" /\ disk' = disk
  BY <1>0, <1>1, RestTurns DEF Preparing, Entered
<1>2. CASE /\ \A f \in Files : Publishable(f)
           /\ P'.todo = {f \in Files : P.copy[f] # "published"}
           /\ P'.pc = IF P'.todo = {} THEN "commit" ELSE "publish"
           /\ disk' = [f \in Files |-> IF f \in P'.todo THEN disk[f]
                                       ELSE [disk[f] EXCEPT !.sidecarTemp = "missing"]]
  <2>1. ASSUME NEW f \in Files \ touched
        PROVE  RestOf(f)'
    <3>1. RestOf(f) /\ Publishable(f) /\ P.copy[f] \in Ready \cup {"published"} /\ P'.pc \in {"commit", "publish"}
      BY <1>0, <1>2 DEF RestOf, StagedOf, Entered
    <3>2. /\ disk'[f].source = disk[f].source /\ disk'[f].destination = disk[f].destination
          /\ disk'[f].backup = disk[f].backup /\ disk'[f].sidecarPlace = disk[f].sidecarPlace
          /\ disk'[f].old = disk[f].old /\ disk'[f].temp = disk[f].temp
          /\ disk'[f].sidecarTemp \in {"missing", disk[f].sidecarTemp}
      <4>1. disk \in [Files -> [Places -> Bytes]]
        BY DEF ImportInv, Types
      <4>2. disk[f] \in [Places -> Bytes] /\ disk'[f] \in {disk[f], [disk[f] EXCEPT !.sidecarTemp = "missing"]}
        BY <1>2, <4>1
      <4> QED BY <4>2 DEF Places
    <3>3. row[f] # "rolled_back"
      BY <3>1 DEF RestOf, PlacedOf, StagedOf, Unplaced, Publishable, Holds, Empty
    <3>4. f \in P'.todo => Holds(f, "temp", "staged")
      BY <1>2, <3>1 DEF Publishable
    <3>5. SafeOf(f)'
      BY <3>1, <3>2 DEF RestOf, SafeOf, Holds, Empty
    <3>6. HalfWay(f) => HalfWay(f)'
      <4>1. \A q \in Workers \ {"publisher"} : Watches(q, {})
        BY <1>0 DEF Workers
      <4> QED BY <1>0, <3>2, <4>1, HalfStays DEF P, Workers
    <3>7. PlacedOf(f)' /\ (AudioPlaced(f)' => AudioPlaced(f))
      BY <1>0, <3>1, <3>2, <3>6 DEF RestOf, PlacedOf, Unplaced, AudioPlaced, Holds, Empty
    <3>8. RereadOf(f)'
      BY <1>0, <3>1, <3>2, RereadStays DEF RestOf
    <3>9. StagedOf(f)'
      BY <1>0, <3>1, <3>2, <3>3, <3>4 DEF RestOf, StagedOf, Preparing, Entered, Ready, Holds, Empty
    <3> QED BY <1>0, <3>1, <3>5, <3>7, <3>8, <3>9, RestPublisher
  <2> QED BY <1>0, <2>1
<1> QED BY <1>1, <1>2, RecheckMoves

\* While the publisher has its lease, a row that it knows is as it knows it, or it was undone
\* or set aside.
LEMMA KnownRow ==
    ASSUME ImportInv, ~adopted, StaleInv, P.pc \in Critical, NEW f \in Files, P.copy[f] # "none"
    PROVE  row[f] = P.copy[f] \/ row[f] \in {"rolled_back", "needs_attention"}
<1>1. R.pc # "restore"
  BY DEF ImportInv, LeaseInv, Critical
<1>2. f \in P.fresh => row[f] = P.copy[f]
  BY CopiesNow
<1> QED BY <1>1, <1>2 DEF StaleInv, StaleOf, Overtaken

\* The publisher moves one file in its critical section.
LEMMA RestMoves ==
    ASSUME ImportInv, ~adopted, \A f \in Files \ touched : RestOf(f), NEW f \in Files,
           P.pc \in {"boundary", "publish"}, P' = P, RowStays("publisher"), touched' = touched,
           \A g \in Files : g # f => disk'[g] = disk[g],
           f \notin touched => SafeOf(f)' /\ PlacedOf(f)' /\ StagedOf(f)'
    PROVE  \A g \in Files \ touched' : RestOf(g)'
<1>0. /\ row' = row /\ Watches("recovery", {}) /\ R.pc \notin {"undo", "restore"}
      /\ P.pc \notin {"undo", "restore", "attention"}
  BY DEF RowStays, Workers, ImportInv, LeaseInv, Critical
<1>1. ASSUME NEW g \in Files \ touched, g # f
      PROVE  RestOf(g)'
  <2>1. RestOf(g) /\ disk'[g] = disk[g]
    BY <1>1
  <2>2. StagedOf(g)'
    BY <1>0, <2>1 DEF RestOf, StagedOf, AudioPlaced, Holds, Empty
  <2> QED BY <1>0, <2>1, <2>2, RestStays
<1>2. ASSUME f \in Files \ touched
      PROVE  RestOf(f)'
  <2>1. RestOf(f) /\ RereadOf(f)'
    BY <1>0, <1>2, RereadStays DEF RestOf
  <2> QED BY <1>0, <1>2, <2>1, RestPublisher
<1> QED BY <1>1, <1>2

LEMMA RestBackUp ==
    ASSUME ImportInv, ~adopted, StaleInv, \A f \in Files \ touched : RestOf(f), NEW f \in Files, BackUp(f)
    PROVE  \A g \in Files \ touched' : RestOf(g)'
<1>0. /\ P.pc = "publish" /\ f \in P.todo /\ UNCHANGED <<row, touched>> /\ P' = P /\ RowStays("publisher")
      /\ Moves(f, "destination", "backup") /\ P.copy[f] = "validated" /\ Same(f) /\ ~Empty(f, "destination")
  BY FileMoves DEF BackUp, P
<1>1. /\ \A g \in Files : g # f => disk'[g] = disk[g]
      /\ disk'[f].backup = disk[f].destination /\ disk'[f].destination = "missing"
      /\ disk'[f].source = disk[f].source /\ disk'[f].sidecarPlace = disk[f].sidecarPlace
      /\ disk'[f].old = disk[f].old /\ disk'[f].temp = disk[f].temp
      /\ disk'[f].sidecarTemp = disk[f].sidecarTemp
  BY <1>0, MovesOne DEF Places, ImportInv
<1>2. disk[f].destination = "replaced"
  BY <1>0 DEF ImportInv, PublishInv, Replaceable, Empty, Holds
<1>3. f \notin touched => SafeOf(f)' /\ PlacedOf(f)' /\ StagedOf(f)'
  <2> SUFFICES ASSUME f \notin touched
               PROVE  SafeOf(f)' /\ PlacedOf(f)' /\ StagedOf(f)'
    OBVIOUS
  <2>0. RestOf(f)
    OBVIOUS
  <2>1. row[f] \in {"validated", "needs_attention"} /\ Holds(f, "temp", "staged")
    BY <1>0, <1>2, <2>0, KnownRow DEF RestOf, StagedOf, AudioPlaced, Critical, Holds, Empty
  <2>2. row[f] = "validated" => Empty(f, "sidecarPlace")
    BY <1>2, <2>0 DEF RestOf, PlacedOf, HalfWay, AudioPlaced, Ready, Holds, Empty
  <2>3. SafeOf(f)'
    BY <1>0, <1>1, <2>0 DEF RestOf, SafeOf, Holds, Empty
  <2>4. PlacedOf(f)'
    BY <1>0, <1>1, <2>1, <2>2 DEF PlacedOf, Ready, Holds, Empty
  <2>5. StagedOf(f)'
    BY <1>0, <1>1, <2>0, <2>1 DEF RestOf, StagedOf, Preparing, Holds, Empty
  <2> QED BY <2>3, <2>4, <2>5
<1> QED BY <1>0, <1>1, <1>3, RestMoves

LEMMA RestPlace ==
    ASSUME ImportInv, ~adopted, StaleInv, \A f \in Files \ touched : RestOf(f), NEW f \in Files, Place(f)
    PROVE  \A g \in Files \ touched' : RestOf(g)'
<1>0. /\ P.pc = "publish" /\ f \in P.todo /\ UNCHANGED <<row, touched>> /\ P' = P /\ RowStays("publisher")
      /\ Moves(f, "temp", "destination") /\ P.copy[f] \in Ready /\ ~AudioPlaced(f)
  BY FileMoves DEF Place, P, Ready
<1>1. /\ \A g \in Files : g # f => disk'[g] = disk[g]
      /\ disk'[f].destination = disk[f].temp /\ disk'[f].temp = "missing"
      /\ disk'[f].source = disk[f].source /\ disk'[f].sidecarPlace = disk[f].sidecarPlace
      /\ disk'[f].old = disk[f].old /\ disk'[f].backup = disk[f].backup
      /\ disk'[f].sidecarTemp = disk[f].sidecarTemp
  BY <1>0, MovesOne DEF Places, ImportInv
<1>2. f \notin touched => SafeOf(f)' /\ PlacedOf(f)' /\ StagedOf(f)'
  <2> SUFFICES ASSUME f \notin touched
               PROVE  SafeOf(f)' /\ PlacedOf(f)' /\ StagedOf(f)'
    OBVIOUS
  <2>0. RestOf(f)
    OBVIOUS
  <2>1. row[f] \in Ready \cup {"needs_attention"} /\ AudioPlaced(f)'
    BY <1>0, <1>1, <2>0, KnownRow DEF RestOf, StagedOf, AudioPlaced, Critical, Ready, Holds, Empty
  <2>2. SafeOf(f)'
    BY <1>1, <2>0 DEF RestOf, SafeOf, Holds, Empty
  <2>3. PlacedOf(f)'
    BY <1>0, <2>1 DEF PlacedOf, Ready
  <2>4. StagedOf(f)'
    BY <1>0, <1>1, <2>0, <2>1 DEF RestOf, StagedOf, Preparing, Holds, Empty
  <2> QED BY <2>2, <2>3, <2>4
<1> QED BY <1>0, <1>1, <1>2, RestMoves

LEMMA RestPlaceSidecar ==
    ASSUME ImportInv, ~adopted, StaleInv, \A f \in Files \ touched : RestOf(f), NEW f \in Files, PlaceSidecar(f)
    PROVE  \A g \in Files \ touched' : RestOf(g)'
<1>0. /\ P.pc \in {"boundary", "publish"} /\ UNCHANGED <<row, touched>> /\ RowStays("publisher")
      /\ AudioPlaced(f) /\ P.copy[f] \in Ready
  BY SidecarMoves
<1>1. CASE Turned("undoWait") /\ disk' = disk
  BY <1>0, <1>1, RestTurned DEF Entered
<1>2. CASE P' = P /\ Moves(f, "sidecarTemp", "sidecarPlace")
  <2>1. /\ \A g \in Files : g # f => disk'[g] = disk[g]
        /\ disk'[f].sidecarPlace = disk[f].sidecarTemp /\ disk'[f].sidecarTemp = "missing"
        /\ disk'[f].source = disk[f].source /\ disk'[f].destination = disk[f].destination
        /\ disk'[f].old = disk[f].old /\ disk'[f].backup = disk[f].backup /\ disk'[f].temp = disk[f].temp
    BY <1>2, MovesOne DEF Places, ImportInv
  <2>2. f \notin touched => SafeOf(f)' /\ PlacedOf(f)' /\ StagedOf(f)'
    <3> SUFFICES ASSUME f \notin touched
                 PROVE  SafeOf(f)' /\ PlacedOf(f)' /\ StagedOf(f)'
      OBVIOUS
    <3>0. RestOf(f)
      OBVIOUS
    <3>1. row[f] \notin {"none", "planned", "staged", "rolled_back"} /\ AudioPlaced(f)'
      BY <1>0, <2>1, <3>0 DEF RestOf, PlacedOf, Unplaced, AudioPlaced, Holds, Empty
    <3>2. SafeOf(f)'
      BY <2>1, <3>0 DEF RestOf, SafeOf, Holds, Empty
    <3>3. PlacedOf(f)'
      BY <1>0, <3>1 DEF PlacedOf
    <3>4. StagedOf(f)'
      BY <1>0, <1>2, <2>1, <3>0, <3>1 DEF RestOf, StagedOf, Preparing, Holds, Empty
    <3> QED BY <3>2, <3>3, <3>4
  <2> QED BY <1>0, <1>2, <2>1, <2>2, RestMoves
<1> QED BY <1>1, <1>2, SidecarMoves

LEMMA RestMarks ==
    ASSUME ImportInv, ~adopted, StaleInv, \A f \in Files \ touched : RestOf(f), NEW f \in Files,
           MarkBackedUp(f) \/ MarkPublished(f)
    PROVE  \A g \in Files \ touched' : RestOf(g)'
<1>0. /\ P.pc \in {"boundary", "publish"} /\ UNCHANGED <<disk, touched>> /\ P'.was = P.was
      /\ P.copy[f] \in Ready
  BY MarkBackedUpMoves, MarkPublishedMoves DEF Ready
<1>1. CASE Turned("undoWait")
  BY <1>0, <1>1, RestTurned DEF Entered
<1>2. ASSUME f \in P.fresh, NEW state \in {"replacement_backed_up", "published"}, RowGoes("publisher", f, state),
             P'.prepared = P.prepared, P'.todo \subseteq P.todo,
             P'.pc \in {"boundary", "recheck", "publish", "commit"},
             P'.pc \in {"publish", "commit"} => P.pc = "publish"
      PROVE  \A g \in Files \ touched' : RestOf(g)'
  <2>1. row[f] \in Ready
    BY <1>0, <1>2, CopiesNow
  <2> QED BY <1>0, <1>2, <2>1, RestWrites DEF Preparing, Entered, Critical, Ready
<1>3. MarkBackedUp(f) => Turned("undoWait")
         \/ /\ f \in P.fresh /\ RowGoes("publisher", f, "replacement_backed_up")
            /\ P'.prepared = P.prepared /\ P'.todo \subseteq P.todo
            /\ P'.pc \in {"boundary", "recheck", "publish", "commit"}
            /\ P'.pc \in {"publish", "commit"} => P.pc = "publish"
  BY <1>0, MarkBackedUpMoves DEF OnTo, P
<1>4. MarkPublished(f) => Turned("undoWait")
         \/ /\ f \in P.fresh /\ RowGoes("publisher", f, "published")
            /\ P'.prepared = P.prepared /\ P'.todo \subseteq P.todo
            /\ P'.pc \in {"boundary", "recheck", "publish", "commit"}
            /\ P'.pc \in {"publish", "commit"} => P.pc = "publish"
  BY <1>0, MarkPublishedMoves DEF OnTo, P
<1> QED BY <1>1, <1>2, <1>3, <1>4

LEMMA RestPublisherStep ==
    ASSUME ImportInv, ~adopted, ~adopted', StaleInv, \A f \in Files \ touched : RestOf(f), PublisherStep
    PROVE  \A f \in Files \ touched' : RestOf(f)'
<1>1. CASE Commit
  <2>1. P.pc \in Entered /\ Turned("undoWait") /\ disk' = disk /\ touched' = touched
    BY <1>1, CommitMoves DEF Entered
  <2> QED BY <2>1, RestTurned
<1> QED BY <1>1, RestPreparing, RestPrepareFile, RestStage, RestMarkStaged, RestRecheck, RestBackUp,
           RestPlace,
           RestPlaceSidecar, RestMarks DEF PublisherStep

-----------------------------------------------------------------------------

\* Recovery goes on, and does nothing to the file.
LEMMA RestRecoveryStays ==
    ASSUME ImportInv, NEW gone, Watches("publisher", gone), NEW f \in Files, RestOf(f), R.pc # "restore",
           row'[f] = row[f], disk'[f] = disk[f], RereadOf(f)', WasFor("recovery", f)'
    PROVE  RestOf(f)'
<1>1. /\ P = w["publisher"] /\ R = w["recovery"] /\ "recovery" \in Workers
      /\ \A q \in Workers \ {"recovery"} : q = "publisher" /\ Watches(q, gone)
  BY DEF P, R, Workers
<1>2. SafeOf(f)' /\ (AudioPlaced(f)' <=> AudioPlaced(f))
  BY SafeStays DEF RestOf, AudioPlaced, Empty, Holds
<1>3. HalfWay(f) => HalfWay(f)'
  BY <1>1, HalfStays
<1>4. PlacedOf(f)'
  BY <1>3, PlacedStays DEF RestOf
<1>5. WasOf(f)'
  <2>1. WasOf(f)
    BY DEF RestOf
  <2> HIDE DEF AudioPlaced
  <2> QED BY <1>1, <1>2, <2>1, WasStays
<1>6. StagedOf(f)'
  <2>1. P'.pc = P.pc /\ P'.copy = P.copy /\ P'.prepared = P.prepared /\ P'.todo = P.todo
    BY <1>1 DEF Watches, P
  <2>2. StagedOf(f) /\ Empty(f, "temp")' = Empty(f, "temp")
        /\ \A place, bytes : Holds(f, place, bytes)' = Holds(f, place, bytes)
    BY DEF RestOf, Empty, Holds
  <2> HIDE DEF AudioPlaced
  <2> QED BY <1>2, <2>1, <2>2 DEF StagedOf
<1> QED BY <1>2, <1>4, <1>5, <1>6 DEF RestOf

\* Recovery looks at the bundle, reads the rows or leaves them, but not in its rollback.
LEMMA RestLooks ==
    ASSUME ImportInv, \A f \in Files \ touched : RestOf(f), Watches("publisher", {}), row' = row, disk' = disk,
           touched' = touched, R.pc # "restore", R'.pc \notin {"undo", "restore"},
           \/ R'.pc = "attention" \/ R'.was = {}
           \/ R'.was \subseteq R.was /\ R.pc \notin {"undo", "attention"},
           R'.pc = "undoWait" => \A f \in Files : f \in R'.fresh \/ R'.copy[f] = "none"
    PROVE  \A f \in Files \ touched' : RestOf(f)'
<1>1. ASSUME NEW f \in Files \ touched
      PROVE  RestOf(f)'
  <2>1. RestOf(f) /\ RereadOf(f)'
    BY DEF RereadOf
  <2>2. f \in R.was => R.pc \in {"undo", "attention"}
    BY <2>1 DEF RestOf, WasOf, WasFor, Workers, R
  <2>3. WasFor("recovery", f)'
    BY <2>2 DEF WasFor, R
  <2> QED BY <2>1, <2>3, RestRecoveryStays
<1> QED BY <1>1

LEMMA RestSetAside ==
    ASSUME ImportInv, ~adopted, \A f \in Files \ touched : RestOf(f), SetAside
    PROVE  \A f \in Files \ touched' : RestOf(f)'
<1>0. /\ R.pc = "attention" /\ R' = Nobody /\ UNCHANGED <<disk, touched>>
      /\ \A f \in Files : row'[f] = IF Open(f) THEN "needs_attention" ELSE row[f]
      /\ Watches("publisher", {f \in Files : Open(f)})
  BY SetAsideMoves
<1>1. P = w["publisher"] /\ R = w["recovery"] /\ "recovery" \in Workers /\ "publisher" \in Workers
      /\ Workers = {"publisher", "recovery"}
  BY DEF P, R, Workers
<1>2. /\ P'.pc = P.pc /\ P'.copy = P.copy /\ P'.prepared = P.prepared /\ P'.todo = P.todo /\ P'.was = P.was
  BY <1>0 DEF Watches, P
<1>3. ASSUME NEW f \in Files \ touched
      PROVE  RestOf(f)'
  <2>1. RestOf(f) /\ disk'[f] = disk[f] /\ R'.pc = "idle" /\ R'.was = {}
    BY <1>0, NothingWas
  <2>2. RereadOf(f)' /\ WasFor("recovery", f)'
    BY <1>1, <2>1 DEF RereadOf, WasFor, R
  <2>3. CASE ~Open(f)
    BY <1>0, <2>1, <2>2, <2>3, RestRecoveryStays
  <2>4. CASE Open(f)
    <3>1. row'[f] = "needs_attention"
      BY <1>0, <2>4
    <3>2. SafeOf(f)' /\ PlacedOf(f)' /\ (AudioPlaced(f)' <=> AudioPlaced(f))
      BY <2>1, <3>1, SafeStays DEF RestOf, PlacedOf, AudioPlaced, Ready, Empty, Holds
    <3>3. WasFor("publisher", f)'
      BY <1>1, <1>2, <2>1, <3>1 DEF RestOf, WasOf, WasFor, P
    <3>4. WasOf(f)'
      BY <1>1, <2>2, <3>3 DEF WasOf
    <3>5. StagedOf(f)'
      BY <1>2, <2>1, <3>1, <3>2 DEF RestOf, StagedOf, Empty, Holds
    <3> QED BY <2>2, <3>2, <3>4, <3>5 DEF RestOf
  <2> QED BY <2>3, <2>4
<1> QED BY <1>0, <1>3

LEMMA RestRecoveryStep ==
    ASSUME ImportInv, ~adopted, \A f \in Files \ touched : RestOf(f), RecoveryStep
    PROVE  \A f \in Files \ touched' : RestOf(f)'
<1>1. CASE ListBundle \/ RecoverBundle
  BY <1>1, LooksMoves, RestLooks
<1>2. CASE ReadJournals
  BY <1>2, ReadJournalsMoves, RestLooks
<1>3. CASE FinishPreparing
  BY <1>3, FinishPreparingMoves, NothingWas, RestLooks
<1>4. CASE SetAside
  BY <1>4, RestSetAside
<1> QED BY <1>1, <1>2, <1>3, <1>4 DEF RecoveryStep

\* Somebody rolls back, and does nothing to the file.
LEMMA RestElsewhere ==
    ASSUME ImportInv, NEW p \in Workers, lease = p \/ (lease = "none" /\ w[p].pc = "undoWait"),
           NEW gone, \A q \in Workers \ {p} : Watches(q, gone),
           w[p].pc \in {"undoWait", "undo", "restore"}, w'[p].pc \in {"undo", "restore"},
           NEW f \in Files, f \notin gone, RestOf(f), row'[f] = row[f], disk'[f] = disk[f],
           w'[p].copy[f] = w[p].copy[f], f \in w'[p].fresh <=> f \in w[p].fresh,
           f \in w'[p].was => f \in w[p].was, f \in w'[p].todo => f \in w[p].todo \/ w[p].pc = "undoWait",
           w'[p].pc = "restore" => w'[p].todo = w[p].todo /\ w[p].pc # "undoWait",
           ~(w[p].pc \in {"undo", "restore"} /\ LastOf(w[p].todo, f) /\ f \in w'[p].todo),
           ~(w[p].pc = "restore" /\ LastOf(w[p].todo, f))
    PROVE  RestOf(f)'
<1>1. P = w["publisher"] /\ R = w["recovery"] /\ Workers = {"publisher", "recovery"}
  BY DEF P, R, Workers
<1>2. \A q \in Workers \ {p} : w[q].pc \notin {"undo", "restore"}
  BY <1>1 DEF ImportInv, LeaseInv, Critical
<1>3. ~HalfWay(f)
  BY <1>2 DEF HalfWay
<1>4. /\ SafeOf(f)' /\ PlacedOf(f)' /\ (Unplaced(f)' <=> Unplaced(f))
      /\ \A place, bytes : Holds(f, place, bytes)' = Holds(f, place, bytes)
      /\ \A place : Empty(f, place)' = Empty(f, place)
      /\ AudioPlaced(f)' <=> AudioPlaced(f)
  BY <1>3, SafeStays, PlacedStays DEF RestOf, Unplaced, AudioPlaced, Holds, Empty
<1>5. WasFor(p, f)'
  <2>1. WasFor(p, f)
    BY DEF RestOf, WasOf
  <2> QED BY <2>1 DEF WasFor, LastOf
<1>6. WasOf(f)'
  <2>1. WasOf(f)
    BY DEF RestOf
  <2> HIDE DEF AudioPlaced
  <2> QED BY <1>2, <1>5, <2>1, WasStays
<1>7. RereadOf(f)'
  <2>1. CASE p = "recovery"
    <3>1. R.pc = "undoWait" /\ row[f] = "rolled_back" => Unplaced(f)
      BY DEF RestOf, PlacedOf
    <3>2. RereadOf(f)
      BY DEF RestOf
    <3> QED BY <1>1, <1>4, <2>1, <3>1, <3>2 DEF RereadOf, R
  <2>2. CASE p = "publisher"
    BY <1>1, <1>2, <2>2, RereadStays DEF RestOf
  <2> QED BY <1>1, <2>1, <2>2
<1>8. StagedOf(f)'
  <2>1. StagedOf(f)
    BY DEF RestOf
  <2>2. CASE p = "publisher"
    <3>1. P'.pc \notin Preparing \cup Entered /\ P'.copy[f] = P.copy[f]
      BY <1>1, <2>2 DEF Preparing, Entered, P
    <3> QED BY <1>4, <2>1, <3>1 DEF StagedOf, Entered
  <2>3. CASE p = "recovery"
    <3>1. P'.pc = P.pc /\ P'.copy = P.copy /\ P'.prepared = P.prepared /\ P'.todo = P.todo
      BY <1>1, <2>3 DEF Watches, P
    <3> HIDE DEF AudioPlaced
    <3> QED BY <1>4, <2>1, <3>1 DEF StagedOf
  <2> QED BY <1>1, <2>2, <2>3
<1> QED BY <1>4, <1>6, <1>7, <1>8 DEF RestOf

\* Whoever rolls back is alone at it.
LEMMA RestUndoer ==
    ASSUME ImportInv, NEW p \in Workers, lease = p, NEW gone, \A q \in Workers \ {p} : Watches(q, gone),
           NEW f \in Files, RestOf(f), SafeOf(f)', PlacedOf(f)', WasFor(p, f)', RereadOf(f)', StagedOf(f)'
    PROVE  RestOf(f)'
<1>1. \A q \in Workers \ {p} : w[q].pc # "restore"
  BY DEF ImportInv, LeaseInv, Critical, Workers, P, R
<1>2. WasOf(f)
  BY DEF RestOf
<1>3. WasOf(f)'
  <2> HIDE DEF AudioPlaced
  <2> QED BY <1>1, <1>2, WasStays
<1> QED BY <1>3 DEF RestOf

\* What a row says that was read in the middle of a rollback, and is another's by now.
LEMMA ReadTwice ==
    ASSUME ImportInv, ~adopted, StaleInv, NEW p \in Workers, lease = p, w[p].pc \in {"undo", "restore"},
           NEW f \in Files, RestOf(f), f \in w[p].todo, w[p].copy[f] = "rollback_pending", f \notin w[p].fresh
    PROVE  row[f] = "needs_attention" \/ (row[f] # "rollback_pending" /\ Unplaced(f))
<1>1. P = w["publisher"] /\ R = w["recovery"] /\ Workers = {"publisher", "recovery"}
  BY DEF P, R, Workers
<1>2. CASE p = "publisher"
  <2>1. R.pc # "restore"
    BY <1>2 DEF ImportInv, LeaseInv, Critical
  <2> QED BY <1>1, <1>2, <2>1 DEF StaleInv, StaleOf, Overtaken, RestOf, PlacedOf
<1>3. CASE p = "recovery"
  BY <1>1, <1>3 DEF RestOf, RereadOf
<1> QED BY <1>1, <1>2, <1>3

\* A rollback of another does not look at what the publisher has staged.
LEMMA StagedOver ==
    ASSUME ImportInv, NEW p \in Workers, lease = p, w[p].pc \in {"undo", "restore"}, w'[p].pc \in {"undo", "restore"},
           NEW gone, \A q \in Workers \ {p} : Watches(q, gone),
           NEW f \in Files, RestOf(f), disk'[f].destination \in {disk[f].destination, "missing", "replaced"},
           w'[p].copy[f] \in {w[p].copy[f], "rollback_pending", "rolled_back", "needs_attention"},
           row'[f] = "rolled_back" => row[f] = "rolled_back" \/ Empty(f, "temp"),
           Empty(f, "temp") => Empty(f, "temp")'
    PROVE  StagedOf(f)'
<1>1. P = w["publisher"] /\ R = w["recovery"] /\ Workers = {"publisher", "recovery"} /\ StagedOf(f)
  BY DEF P, R, Workers, RestOf
<1>2. CASE p = "publisher"
  <2>1. P'.pc \notin Preparing \cup Entered
        /\ P'.copy[f] \in {P.copy[f], "rollback_pending", "rolled_back", "needs_attention"}
    BY <1>1, <1>2 DEF Preparing, Entered, P
  <2> QED BY <1>1, <2>1 DEF StagedOf, Entered, Ready
<1>3. CASE p = "recovery"
  <2>1. P'.pc = P.pc /\ P'.copy = P.copy /\ P'.prepared = P.prepared /\ P'.todo = P.todo
    BY <1>1, <1>3 DEF Watches, P
  <2>2. P.pc \notin {"publish", "commit"}
    BY <1>3 DEF ImportInv, LeaseInv, Critical
  <2>3. Holds(f, "destination", "staged")' => Holds(f, "destination", "staged")
    BY DEF Holds
  <2> QED BY <1>1, <2>1, <2>2, <2>3 DEF StagedOf
<1> QED BY <1>1, <1>2, <1>3

\* Recovery does not look at what the publisher rolls back of a row that it has read.
LEMMA RereadOver ==
    ASSUME ImportInv, NEW gone, Watches("recovery", gone), lease = "publisher",
           NEW f \in Files, RestOf(f),
           \/ f \notin gone /\ row'[f] = row[f]
           \/ row'[f] \in {"rolled_back", "needs_attention"}
           \/ row[f] \notin {"rollback_pending", "rolled_back", "needs_attention"},
           ~adopted
    PROVE  RereadOf(f)'
<1>1. /\ R'.pc = R.pc /\ R'.copy = R.copy /\ R'.fresh = R.fresh \ gone
      /\ R.pc \notin {"undo", "restore"} /\ RereadOf(f)
  BY DEF Watches, R, ImportInv, LeaseInv, Critical, RestOf
<1>2. f \in R.fresh => R.copy[f] = row[f]
  BY CopiesNow
<1> QED BY <1>1, <1>2 DEF RereadOf

\* What the one who rolls back does to a row leaves the other files as they are.
LEMMA RestOthers ==
    ASSUME ImportInv, NEW p \in Workers, lease = p, w[p].pc \in {"undo", "restore"},
           w'[p].pc \in {"undo", "restore"}, NEW f \in Files, LastOf(w[p].todo, f),
           NEW gone \in SUBSET {f}, \A q \in Workers \ {p} : Watches(q, gone),
           \A g \in Files : g # f => /\ row'[g] = row[g] /\ disk'[g] = disk[g] /\ w'[p].copy[g] = w[p].copy[g]
                                     /\ (g \in w'[p].fresh <=> g \in w[p].fresh)
                                     /\ (g \in w'[p].was => g \in w[p].was),
           w'[p].todo \subseteq w[p].todo, w'[p].pc = "restore" => w'[p].todo = w[p].todo,
           touched' = touched, \A g \in Files \ touched : RestOf(g), f \notin touched => RestOf(f)'
    PROVE  \A g \in Files \ touched' : RestOf(g)'
<1>1. ASSUME NEW g \in Files \ touched, g # f
      PROVE  RestOf(g)'
  <2>1. w[p].todo \in SUBSET Files /\ ImportAssumption
    BY BothAreTyped DEF Memories, ImportInv
  <2>2. ~LastOf(w[p].todo, g)
    BY <1>1, <2>1, OneLast
  <2> QED BY <1>1, <2>2, RestElsewhere
<1> QED BY <1>1

LEMMA RestBeginUndo ==
    ASSUME ImportInv, NEW p \in Workers, \A f \in Files \ touched : RestOf(f), BeginUndo(p)
    PROVE  \A f \in Files \ touched' : RestOf(f)'
<1>1. /\ w[p].pc = "undoWait" /\ lease = "none" /\ UNCHANGED <<row, disk, touched>>
      /\ RowStays(p) /\ w'[p].pc = "undo" /\ w'[p].was = w[p].was
  BY BeginUndoMoves DEF OnTo
<1>2. /\ w'[p].copy = w[p].copy /\ w'[p].fresh = w[p].fresh
      /\ \A q \in Workers \ {p} : Watches(q, {})
  BY <1>1 DEF RowStays
<1>3. ASSUME NEW f \in Files \ touched
      PROVE  RestOf(f)'
  BY <1>1, <1>2, RestElsewhere
<1> QED BY <1>1, <1>3

LEMMA RestUndo ==
    ASSUME ImportInv, ~adopted, StaleInv, NEW p \in Workers, NEW f \in Files,
           \A g \in Files \ touched : RestOf(g), Undo(p, f)
    PROVE  \A g \in Files \ touched' : RestOf(g)'
<1>0. /\ w[p].pc = "undo" /\ LastOf(w[p].todo, f) /\ lease = p /\ UNCHANGED <<disk, touched>>
      /\ w[p] \in Memories /\ row \in [Files -> RowStates]
  BY UndoMoves, BothAreTyped
<1>1. P = w["publisher"] /\ R = w["recovery"] /\ Workers = {"publisher", "recovery"}
  BY DEF P, R, Workers
<1>2. f \in w[p].fresh => w[p].copy[f] = row[f]
  BY <1>1, CopiesNow
<1>3. CASE RowStays(p) /\ OnTo(p, "undo", w[p].todo \ {f}, w[p].prepared) /\ w'[p].was = w[p].was
  <2>1. /\ w'[p].pc = "undo" /\ w'[p].todo = w[p].todo \ {f} /\ w'[p].copy = w[p].copy
        /\ w'[p].fresh = w[p].fresh /\ row' = row /\ \A q \in Workers \ {p} : Watches(q, {})
    BY <1>3 DEF RowStays, OnTo
  <2>2. f \notin touched => RestOf(f)'
    BY <1>0, <1>3, <2>1, RestElsewhere
  <2> QED BY <1>0, <1>3, <2>1, <2>2, RestOthers
<1>4. CASE /\ w[p].copy[f] \in Undoable /\ OnTo(p, "restore", w[p].todo, w[p].prepared)
           /\ w'[p].was = IF w[p].copy[f] = "published" \/ AudioPlaced(f) THEN w[p].was \cup {f} ELSE w[p].was
           /\ \/ RowStays(p) /\ w[p].copy[f] = "rollback_pending"
              \/ /\ RowGoes(p, f, "rollback_pending") /\ f \in w[p].fresh
                 /\ w[p].copy[f] # "rollback_pending"
  <2>1. w'[p].pc = "restore" /\ w'[p].todo = w[p].todo
    BY <1>4 DEF OnTo
  <2>2. PICK gone \in SUBSET {f} :
           /\ \A q \in Workers \ {p} : Watches(q, gone)
           /\ \A g \in Files : g # f => row'[g] = row[g] /\ w'[p].copy[g] = w[p].copy[g]
                                        /\ (g \in w'[p].fresh <=> g \in w[p].fresh)
           /\ gone = {} => row' = row /\ w'[p].copy = w[p].copy /\ w'[p].fresh = w[p].fresh
                           /\ w[p].copy[f] = "rollback_pending"
           /\ gone # {} => /\ row'[f] = "rollback_pending" /\ row[f] \in Undoable \ {"rollback_pending"}
                           /\ f \in w'[p].fresh
           /\ w'[p].copy[f] = "rollback_pending"
    <3>1. CASE RowStays(p) /\ w[p].copy[f] = "rollback_pending"
      BY <3>1 DEF RowStays
    <3>2. CASE /\ RowGoes(p, f, "rollback_pending") /\ f \in w[p].fresh /\ w[p].copy[f] # "rollback_pending"
      BY <1>0, <1>2, <1>4, <3>2 DEF RowGoes, Memories
    <3> QED BY <1>4, <3>1, <3>2
  <2>3. ASSUME f \notin touched
        PROVE  RestOf(f)'
    <3>1. /\ RestOf(f) /\ disk'[f] = disk[f] /\ ~HalfWay(f) /\ f \in w[p].todo
          /\ WasFor(p, f) /\ RereadOf(f)
      BY <1>0, <2>3, NoHalf DEF RestOf, WasOf, LastOf
    <3>2. /\ SafeOf(f)' /\ (AudioPlaced(f)' <=> AudioPlaced(f)) /\ (Unplaced(f)' <=> Unplaced(f))
      BY <3>1, SafeStays DEF RestOf, AudioPlaced, Unplaced, Empty, Holds
    <3>3. PlacedOf(f)'
      <4>1. CASE gone = {}
        BY <2>2, <3>1, <4>1, PlacedStays DEF RestOf
      <4>2. CASE gone # {}
        <5>1. row'[f] = "rollback_pending" /\ row[f] \in {"planned", "staged", "published"} \cup Ready
          BY <2>2, <4>2 DEF Undoable
        <5>2. PlacedOf(f) /\ (Unplaced(f) => ~AudioPlaced(f))
          BY <3>1 DEF RestOf, Unplaced, AudioPlaced, Holds, Empty
        <5>3. row[f] \in {"planned", "staged"} => Unplaced(f)
          BY <5>2 DEF PlacedOf
        <5>4. /\ Empty(f, "sidecarPlace") \/ AudioPlaced(f)
              /\ disk[f].destination \in {"missing"} \cup (IF Same(f) THEN {"replaced"} ELSE {}) \/ AudioPlaced(f)
          BY <3>1, <5>1, <5>2, <5>3 DEF PlacedOf, Unplaced, Holds
        <5>5. Empty(f, "sidecarPlace")' <=> Empty(f, "sidecarPlace")
          BY <3>1 DEF Empty, Holds
        <5> QED BY <3>1, <3>2, <5>1, <5>4, <5>5 DEF PlacedOf
      <4> QED BY <4>1, <4>2
    <3>4. WasFor(p, f)'
      <4>1. f \notin w[p].was
        BY <1>0, <3>1 DEF WasFor
      <4>2. LastOf(w'[p].todo, f)
        BY <1>0, <2>1
      <4>3. f \in w'[p].was => row'[f] \in {"rollback_pending", "needs_attention"}
        <5>1. CASE gone = {}
          <6>1. f \in w'[p].was => AudioPlaced(f)
            BY <1>4, <2>2, <4>1, <5>1
          <6>2. Unplaced(f) => ~AudioPlaced(f)
            BY DEF Unplaced, AudioPlaced, Holds
          <6>3. f \notin w[p].fresh => row[f] = "needs_attention" \/ Unplaced(f)
            BY <1>0, <2>2, <3>1, <5>1, ReadTwice
          <6> QED BY <1>2, <2>2, <5>1, <6>1, <6>2, <6>3
        <5>2. CASE gone # {}
          BY <2>2, <5>2
        <5> QED BY <5>1, <5>2
      <4>4. f \notin w'[p].was => ~AudioPlaced(f)
        BY <1>4
      <4> QED BY <2>1, <3>2, <4>2, <4>3, <4>4 DEF WasFor
    <3>5. RereadOf(f)'
      <4>1. CASE p = "recovery"
        <5>1. R'.pc = "restore" /\ R'.todo = R.todo /\ R'.copy[f] = "rollback_pending"
              /\ (f \notin R'.fresh => f \notin R.fresh /\ row'[f] = row[f] /\ R.copy[f] = "rollback_pending")
              /\ R.pc = "undo" /\ f \in R.todo
          BY <1>0, <1>1, <2>1, <2>2, <3>1, <4>1 DEF R
        <5> QED BY <3>1, <3>2, <5>1 DEF RereadOf
      <4>2. CASE p = "publisher"
        <5>1. Watches("recovery", gone) /\ lease = "publisher"
          BY <1>0, <1>1, <2>2, <4>2
        <5>2. \/ f \notin gone /\ row'[f] = row[f]
              \/ row[f] \notin {"rollback_pending", "rolled_back", "needs_attention"}
          BY <2>2 DEF Undoable, Ready
        <5> QED BY <3>1, <5>1, <5>2, RereadOver
      <4> QED BY <1>1, <4>1, <4>2
    <3>6. StagedOf(f)'
      BY <1>0, <2>1, <2>2, <3>1, StagedOver DEF Empty, Holds
    <3> QED BY <1>0, <2>2, <3>1, <3>2, <3>3, <3>4, <3>5, <3>6, RestUndoer
  <2>4. \A g \in Files : g # f => (g \in w'[p].was => g \in w[p].was)
    BY <1>4
  <2> QED BY <1>0, <2>1, <2>2, <2>3, <2>4, RestOthers
<1> QED BY <1>3, <1>4, UndoMoves

\* The rollback of a file ends.
LEMMA RestEnded ==
    ASSUME ImportInv, ~adopted, StaleInv, NEW p \in Workers, NEW f \in Files, w[p].pc = "restore",
           LastOf(w[p].todo, f), lease = p, w[p].copy[f] = "rollback_pending",
           NEW state \in {"rolled_back", "needs_attention"}, Ended(p, f, state),
           state = "rolled_back" => /\ Clear(p, f) /\ f \in w[p].fresh
                                    /\ \A place \in {"sidecarTemp", "backup", "temp"} : Empty(f, place),
           disk' = disk, touched' = touched, \A g \in Files \ touched : RestOf(g)
    PROVE  \A g \in Files \ touched' : RestOf(g)'
<1>0. /\ P = w["publisher"] /\ R = w["recovery"] /\ Workers = {"publisher", "recovery"}
      /\ w[p] \in Memories /\ row \in [Files -> RowStates]
      /\ w'[p].pc = "undo" /\ w'[p].todo = w[p].todo \ {f} /\ w'[p].was = w[p].was
  BY BothAreTyped DEF P, R, Workers, Ended, OnTo
<1>1. PICK gone \in SUBSET {f} :
         /\ \A q \in Workers \ {p} : Watches(q, gone)
         /\ \A g \in Files : g # f => row'[g] = row[g] /\ w'[p].copy[g] = w[p].copy[g]
                                      /\ (g \in w'[p].fresh <=> g \in w[p].fresh)
         /\ IF f \in w[p].fresh THEN row'[f] = state /\ w'[p].copy[f] = state /\ gone = {f}
            ELSE row'[f] = row[f] /\ w'[p].copy[f] = "rollback_pending" /\ gone = {}
  <2>1. CASE f \in w[p].fresh
    BY <1>0, <2>1 DEF Ended, RowGoes, Memories
  <2>2. CASE f \notin w[p].fresh
    BY <2>2 DEF Ended, RowStays
  <2> QED BY <2>1, <2>2
<1>2. f \in w[p].fresh => row[f] = "rollback_pending"
  BY <1>0, CopiesNow
<1>3. ASSUME f \notin touched
      PROVE  RestOf(f)'
  <2>1. /\ RestOf(f) /\ disk'[f] = disk[f] /\ f \in w[p].todo /\ WasFor(p, f)
    BY <1>0, <1>3 DEF RestOf, WasOf, LastOf
  <2>2. /\ SafeOf(f)' /\ (AudioPlaced(f)' <=> AudioPlaced(f)) /\ (Unplaced(f)' <=> Unplaced(f))
    BY <2>1, SafeStays DEF RestOf, AudioPlaced, Unplaced, Empty, Holds
  <2>3. HalfWay(f) => f \in w[p].was
    BY <1>0, NoHalf
  <2>4. state = "rolled_back" => Unplaced(f)
    <3> SUFFICES ASSUME state = "rolled_back" PROVE Unplaced(f)
      OBVIOUS
    <3>1. /\ row[f] = "rollback_pending" /\ Clear(p, f) /\ Empty(f, "backup") /\ Kept(f)
      BY <1>2 DEF ImportInv, DiskInv, Held
    <3>2. Empty(f, "sidecarPlace") /\ ~AudioPlaced(f)
      BY <2>1, <2>3, <3>1 DEF WasFor, RestOf, PlacedOf, Clear, AudioPlaced, Empty, Holds
    <3>3. disk[f].destination \in {"missing"} \cup (IF Same(f) THEN {"replaced"} ELSE {})
      BY <2>1, <3>1, <3>2 DEF RestOf, PlacedOf
    <3> QED BY <3>1, <3>2, <3>3 DEF Unplaced, Kept, Holds, Empty
  <2>5. CASE f \in w[p].fresh
    <3>1. PlacedOf(f)'
      BY <1>1, <2>2, <2>4, <2>5 DEF PlacedOf, Ready
    <3>2. WasFor(p, f)'
      BY <1>0 DEF WasFor, LastOf
    <3>3. RereadOf(f)'
      <4>1. CASE p = "recovery"
        BY <1>0, <4>1 DEF RereadOf, R
      <4>2. CASE p = "publisher"
        BY <1>0, <1>1, <2>1, <2>5, <4>2, RereadOver
      <4> QED BY <1>0, <4>1, <4>2
    <3>4. StagedOf(f)'
      BY <1>0, <1>1, <2>1, <2>5, StagedOver DEF Empty, Holds
    <3> QED BY <1>0, <1>1, <2>1, <2>2, <3>1, <3>2, <3>3, <3>4, RestUndoer
  <2>6. CASE f \notin w[p].fresh
    <3>1. row[f] = "needs_attention" \/ (row[f] # "rollback_pending" /\ Unplaced(f))
      BY <1>0, <2>1, <2>6, ReadTwice
    <3>2. PlacedOf(f)'
      BY <1>1, <2>1, <2>6, <3>1, PlacedStays DEF RestOf, Unplaced, Ready
    <3>3. WasFor(p, f)'
      BY <1>0 DEF WasFor, LastOf
    <3>4. RereadOf(f)'
      <4>1. CASE p = "recovery"
        BY <1>0, <4>1 DEF RereadOf, R
      <4>2. CASE p = "publisher"
        BY <1>0, <1>1, <2>1, <2>6, <4>2, RereadOver
      <4> QED BY <1>0, <4>1, <4>2
    <3>5. StagedOf(f)'
      BY <1>0, <1>1, <2>1, <2>6, StagedOver DEF Empty, Holds
    <3> QED BY <1>0, <1>1, <2>1, <2>2, <3>2, <3>3, <3>4, <3>5, RestUndoer
  <2> QED BY <2>5, <2>6
<1>4. /\ \A g \in Files : g # f => disk'[g] = disk[g] /\ (g \in w'[p].was => g \in w[p].was)
      /\ w[p].pc \in {"undo", "restore"} /\ w'[p].pc \in {"undo", "restore"} /\ w'[p].pc # "restore"
      /\ w'[p].todo \subseteq w[p].todo
  BY <1>0
<1>5. \A g \in Files : g # f => row'[g] = row[g] /\ w'[p].copy[g] = w[p].copy[g]
                               /\ (g \in w'[p].fresh <=> g \in w[p].fresh)
  BY <1>1
<1>6. \A q \in Workers \ {p} : Watches(q, gone)
  BY <1>1
<1> QED BY <1>3, <1>4, <1>5, <1>6, RestOthers

\* A file is restored, one step of its rollback.
LEMMA RestRestores ==
    ASSUME ImportInv, ~adopted, StaleInv, NEW p \in Workers, NEW f \in Files, w[p].pc = "restore",
           LastOf(w[p].todo, f), lease = p, w[p].copy[f] = "rollback_pending",
           RowStays(p), OnTo(p, "restore", w[p].todo, w[p].prepared),
           \/ Restores(p, f) /\ w'[p].was = w[p].was
           \/ /\ Clear(p, f) /\ ~Empty(f, "backup") /\ Moves(f, "backup", "destination")
              /\ w'[p].was = w[p].was \ {f},
           touched' = touched, \A g \in Files \ touched : RestOf(g)
    PROVE  \A g \in Files \ touched' : RestOf(g)'
<1>0. /\ P = w["publisher"] /\ R = w["recovery"] /\ Workers = {"publisher", "recovery"}
      /\ w'[p].pc = "restore" /\ w'[p].todo = w[p].todo /\ w'[p].copy = w[p].copy /\ w'[p].fresh = w[p].fresh
      /\ row' = row /\ \A q \in Workers \ {p} : Watches(q, {})
  BY DEF P, R, Workers, RowStays, OnTo
<1>1. /\ \A g \in Files : g # f => disk'[g] = disk[g]
      /\ disk'[f].source = disk[f].source /\ disk'[f].old = disk[f].old
      /\ \/ /\ f \in w[p].was /\ Holds(f, "destination", "staged") /\ disk'[f].destination = "missing"
            /\ disk'[f].sidecarPlace = disk[f].sidecarPlace /\ disk'[f].backup = disk[f].backup
            /\ disk'[f].sidecarTemp = disk[f].sidecarTemp /\ disk'[f].temp = disk[f].temp
            /\ w'[p].was = w[p].was
         \/ /\ f \in w[p].was /\ Empty(f, "destination") /\ disk'[f].destination = disk[f].destination
            /\ disk'[f].sidecarPlace = "missing" /\ disk'[f].backup = disk[f].backup
            /\ disk'[f].sidecarTemp = disk[f].sidecarTemp /\ disk'[f].temp = disk[f].temp
            /\ w'[p].was = w[p].was
         \/ /\ Clear(p, f) /\ disk'[f].destination = disk[f].destination
            /\ disk'[f].sidecarPlace = disk[f].sidecarPlace /\ disk'[f].backup = disk[f].backup
            /\ disk'[f].sidecarTemp \in {"missing", disk[f].sidecarTemp}
            /\ disk'[f].temp \in {"missing", disk[f].temp}
            /\ w'[p].was = w[p].was
         \/ /\ Clear(p, f) /\ ~Empty(f, "backup") /\ disk'[f].destination = disk[f].backup
            /\ disk'[f].sidecarPlace = disk[f].sidecarPlace /\ disk'[f].backup = "missing"
            /\ disk'[f].sidecarTemp = disk[f].sidecarTemp /\ disk'[f].temp = disk[f].temp
            /\ w'[p].was = w[p].was \ {f}
  <2>1. Types
    BY DEF ImportInv
  <2>2. CASE Moves(f, "backup", "destination") /\ Clear(p, f) /\ ~Empty(f, "backup") /\ w'[p].was = w[p].was \ {f}
    <3>1. /\ \A g \in Files : g # f => disk'[g] = disk[g]
          /\ disk'[f].destination = disk[f].backup /\ disk'[f].backup = "missing"
          /\ \A place \in Places : place \notin {"backup", "destination"} => disk'[f][place] = disk[f][place]
      BY <2>1, <2>2, MovesOne DEF Places
    <3> QED BY <2>2, <3>1 DEF Places
  <2>3. ASSUME NEW here \in {"destination", "sidecarPlace", "sidecarTemp", "temp"}, Unlinks(f, here)
        PROVE  /\ \A g \in Files : g # f => disk'[g] = disk[g]
               /\ disk'[f][here] = "missing"
               /\ \A place \in Places : place # here => disk'[f][place] = disk[f][place]
    BY <2>1, <2>3, UnlinksOne DEF Places
  <2>4. CASE Restores(p, f) /\ w'[p].was = w[p].was
    BY <2>3, <2>4 DEF Restores, Places
  <2> QED BY <2>2, <2>4
<1>2. ASSUME f \notin touched
      PROVE  RestOf(f)'
  <2>1. /\ RestOf(f) /\ SafeOf(f) /\ PlacedOf(f) /\ WasFor(p, f) /\ RereadOf(f) /\ f \in w[p].todo
        /\ row[f] \notin Committed /\ disk[f].backup \in {"missing", "replaced"} /\ row[f] \in RowStates
    BY <1>0, <1>2 DEF RestOf, WasOf, LastOf, StaleInv, StaleOf, ImportInv, DiskInv, Types
  <2>2. HalfWay(f) => f \in w[p].was
    BY NoHalf
  <2>3. HalfWay(f)' <=> disk'[f].destination = "missing" /\ f \in w'[p].was
    <3>1. \A q \in Workers \ {p} : w'[q].pc # "restore"
      BY <1>0 DEF ImportInv, LeaseInv, Critical, Watches
    <3> QED BY <1>0, <3>1 DEF HalfWay, Empty, Holds
  <2>4. f \in w[p].was => row[f] \in {"rollback_pending", "needs_attention"}
    BY <2>1 DEF WasFor
  <2>5. f \notin w[p].was => ~AudioPlaced(f) \/ row[f] = "needs_attention"
    BY <2>1 DEF WasFor
  <2>6. f \notin w[p].was => ~Holds(f, "destination", "staged") \/ row[f] = "needs_attention"
    <3>1. row[f] \in {"none", "planned", "staged", "rolled_back"} \cup Ready
                     \cup {"published", "rollback_pending", "needs_attention"}
      BY <2>1 DEF RowStates, Undoable, Closed, Committed, Ready
    <3> QED BY <2>1, <2>5, <3>1 DEF PlacedOf, Unplaced, Holds
  <2>7. SafeOf(f)'
    BY <1>1, <2>1 DEF SafeOf, Empty, Holds
  <2>8. Holds(f, "destination", "staged")' =>
           Holds(f, "destination", "staged") /\ disk'[f].destination = disk[f].destination
    BY <1>1, <2>1 DEF Holds, Empty
  <2>9. PlacedOf(f)'
    <3>1. CASE row[f] \in {"none", "planned", "staged", "rolled_back"}
      <4>1. Unplaced(f) /\ f \notin w[p].was
        BY <2>1, <2>4, <3>1 DEF PlacedOf
      <4>2. Unplaced(f)'
        BY <1>1, <4>1 DEF Unplaced, Holds, Empty
      <4> QED BY <1>0, <3>1, <4>2 DEF PlacedOf, Ready
    <3>2. CASE row[f] \in Ready \cup {"published", "rollback_pending"}
      <4>1. /\ Empty(f, "sidecarPlace") \/ AudioPlaced(f) \/ HalfWay(f)
            /\ disk[f].destination \in {"missing"} \cup (IF Same(f) THEN {"replaced"} ELSE {}) \/ AudioPlaced(f)
        BY <2>1, <3>2 DEF PlacedOf
      <4>2. row[f] # "needs_attention" /\ row[f] \notin {"none", "planned", "staged", "rolled_back"}
        BY <3>2 DEF Ready
      <4>3. CASE f \in w[p].was
        <5>1. AudioPlaced(f) => Holds(f, "destination", "staged")
          BY DEF AudioPlaced
        <5>2. /\ Empty(f, "sidecarPlace")' \/ HalfWay(f)'
              /\ disk'[f].destination \in {"missing"} \cup (IF Same(f) THEN {"replaced"} ELSE {})
          BY <1>1, <2>1, <2>3, <4>1, <4>3, <5>1 DEF Clear, SafeOf, Holds, Empty
        <5> QED BY <1>0, <4>2, <5>2 DEF PlacedOf
      <4>4. CASE f \notin w[p].was
        <5>1. Empty(f, "sidecarPlace")
              /\ disk[f].destination \in {"missing"} \cup (IF Same(f) THEN {"replaced"} ELSE {})
          BY <2>2, <2>5, <4>1, <4>2, <4>4
        <5>2. Empty(f, "sidecarPlace")'
              /\ disk'[f].destination \in {"missing"} \cup (IF Same(f) THEN {"replaced"} ELSE {})
          BY <1>1, <2>1, <4>4, <5>1 DEF SafeOf, Holds, Empty
        <5> QED BY <1>0, <4>2, <5>2 DEF PlacedOf
      <4> QED BY <4>3, <4>4
    <3>3. CASE row[f] = "needs_attention"
      BY <1>0, <3>3 DEF PlacedOf, Ready
    <3> QED BY <2>1, <3>1, <3>2, <3>3 DEF RowStates, Undoable, Closed, Committed, Ready
  <2>10. WasFor(p, f)'
    <3>1. f \in w'[p].was => f \in w[p].was
      BY <1>1
    <3>2. f \notin w'[p].was => ~AudioPlaced(f)' \/ row[f] = "needs_attention"
      <4> SUFFICES ASSUME f \notin w'[p].was, AudioPlaced(f)'
                   PROVE  row[f] = "needs_attention"
        OBVIOUS
      <4>1. Holds(f, "destination", "staged") /\ disk'[f].destination = "staged"
        BY <2>8 DEF AudioPlaced, Holds
      <4>2. CASE f \in w[p].was
        BY <1>1, <2>1, <4>1, <4>2 DEF Empty, Holds
      <4> QED BY <2>6, <4>1, <4>2
    <3> QED BY <1>0, <2>4, <3>1, <3>2 DEF WasFor
  <2>11. RereadOf(f)'
    <3>1. CASE p = "recovery"
      <4>1. /\ R'.pc = "restore" /\ R'.todo = R.todo /\ R'.copy = R.copy /\ R'.fresh = R.fresh
            /\ R.pc = "restore"
        BY <1>0, <3>1 DEF R
      <4>2. Unplaced(f) /\ f \notin w[p].was => Unplaced(f)'
        BY <1>1 DEF Unplaced, Holds, Empty
      <4>3. row[f] \in {"planned", "staged", "validated", "rolled_back"} => f \notin w[p].was
        BY <2>4
      <4> QED BY <1>0, <2>1, <4>1, <4>2, <4>3 DEF RereadOf
    <3>2. CASE p = "publisher"
      BY <1>0, <2>1, <3>2, RereadOver
    <3> QED BY <1>0, <3>1, <3>2
  <2>12. StagedOf(f)'
    <3>1. disk'[f].destination \in {disk[f].destination, "missing", "replaced"}
          /\ (Empty(f, "temp") => Empty(f, "temp")')
      BY <1>1, <2>1 DEF Empty, Holds
    <3> QED BY <1>0, <2>1, <3>1, StagedOver
  <2> QED BY <1>0, <2>1, <2>7, <2>9, <2>10, <2>11, <2>12, RestUndoer
<1>3. \A g \in Files : g # f =>
         /\ row'[g] = row[g] /\ disk'[g] = disk[g] /\ w'[p].copy[g] = w[p].copy[g]
         /\ (g \in w'[p].fresh <=> g \in w[p].fresh) /\ (g \in w'[p].was => g \in w[p].was)
  BY <1>0, <1>1
<1>4. /\ w[p].pc \in {"undo", "restore"} /\ w'[p].pc \in {"undo", "restore"}
      /\ w'[p].todo \subseteq w[p].todo /\ w'[p].todo = w[p].todo
      /\ \A q \in Workers \ {p} : Watches(q, {})
  BY <1>0
<1> QED BY <1>2, <1>3, <1>4, RestOthers

LEMMA RestRestore ==
    ASSUME ImportInv, ~adopted, StaleInv, NEW p \in Workers, NEW f \in Files,
           \A g \in Files \ touched : RestOf(g), Restore(p, f)
    PROVE  \A g \in Files \ touched' : RestOf(g)'
<1>0. /\ w[p].pc = "restore" /\ LastOf(w[p].todo, f) /\ lease = p
      /\ w[p].copy[f] = "rollback_pending" /\ touched' = touched
  BY RestoreMoves
<1>1. CASE /\ Ended(p, f, "rolled_back") /\ disk' = disk /\ Clear(p, f) /\ f \in w[p].fresh
           /\ \A place \in {"sidecarTemp", "backup", "temp"} : Empty(f, place)
  BY <1>0, <1>1, RestEnded
<1>2. CASE Ended(p, f, "needs_attention") /\ disk' = disk
  BY <1>0, <1>2, RestEnded
<1>3. CASE /\ RowStays(p) /\ OnTo(p, "restore", w[p].todo, w[p].prepared)
           /\ \/ Restores(p, f) /\ w'[p].was = w[p].was
              \/ /\ Clear(p, f) /\ ~Empty(f, "backup") /\ Moves(f, "backup", "destination")
                 /\ w'[p].was = w[p].was \ {f}
  BY <1>0, <1>3, RestRestores
<1> QED BY <1>1, <1>2, <1>3, RestoreMoves

\* The publisher quits, or its rollback is over.
LEMMA RestQuits ==
    ASSUME ImportInv, \A f \in Files \ touched : RestOf(f), P' = Nobody, P.pc # "restore",
           Watches("recovery", {}), row' = row, disk' = disk, touched' = touched
    PROVE  \A f \in Files \ touched' : RestOf(f)'
<1>0. /\ P = w["publisher"] /\ R = w["recovery"] /\ "publisher" \in Workers
      /\ \A q \in Workers \ {"publisher"} : q = "recovery"
  BY DEF P, R, Workers
<1>1. ASSUME NEW f \in Files \ touched
      PROVE  RestOf(f)'
  <2>1. /\ RestOf(f) /\ disk'[f] = disk[f]
    OBVIOUS
  <2>2. SafeOf(f)' /\ (AudioPlaced(f)' => AudioPlaced(f))
    BY <2>1, SafeStays DEF RestOf, AudioPlaced, Empty, Holds
  <2>3. HalfWay(f) => HalfWay(f)'
    BY <1>0, <2>1, HalfStays
  <2>4. PlacedOf(f)' /\ RereadOf(f)'
    BY <2>1, <2>3, PlacedStays, RereadStays DEF RestOf
  <2>5. WasOf(f)'
    <3>1. WasFor("publisher", f)'
      BY <1>0, NothingWas DEF WasFor, P
    <3>2. WasOf(f)
      BY <2>1 DEF RestOf
    <3> HIDE DEF AudioPlaced
    <3> QED BY <1>0, <2>2, <3>1, <3>2, WasStays
  <2>6. StagedOf(f)'
    BY <2>1, NothingWas DEF StagedOf, Preparing, Entered, Ready
  <2> QED BY <2>2, <2>4, <2>5, <2>6 DEF RestOf
<1> QED BY <1>1

LEMMA RestCloseUndo ==
    ASSUME ImportInv, NEW p \in Workers, \A f \in Files \ touched : RestOf(f), CloseUndo(p)
    PROVE  \A f \in Files \ touched' : RestOf(f)'
<1>0. /\ UNCHANGED <<row, disk, touched>> /\ w[p].pc \in {"close", "undo"}
      /\ w'[p] = Nobody \/ (w'[p].pc = "attention" /\ p = "recovery")
      /\ \A q \in Workers \ {p} : Watches(q, {})
      /\ P = w["publisher"] /\ R = w["recovery"] /\ Workers = {"publisher", "recovery"}
  BY CloseUndoMoves DEF P, R, Workers
<1>1. CASE p = "publisher"
  <2>1. P' = Nobody /\ P.pc # "restore" /\ Watches("recovery", {})
    BY <1>0, <1>1 DEF P
  <2> QED BY <1>0, <2>1, RestQuits
<1>2. CASE p = "recovery"
  <2>1. /\ R'.pc \in {"idle", "attention"} /\ (R'.pc = "attention" \/ R'.was = {})
        /\ R.pc # "restore" /\ Watches("publisher", {})
    BY <1>0, <1>2, NothingWas DEF R
  <2> QED BY <1>0, <2>1, RestLooks
<1> QED BY <1>0, <1>1, <1>2

LEMMA RestShared ==
    ASSUME ImportInv, ~adopted, StaleInv, NEW p \in Workers, \A f \in Files \ touched : RestOf(f), SharedStep(p)
    PROVE  \A f \in Files \ touched' : RestOf(f)'
BY NoCleanup, RestBeginUndo, RestCloseUndo, RestUndo, RestRestore DEF SharedStep

LEMMA RestFault ==
    ASSUME ImportInv, ~adopted, StaleInv, \A f \in Files \ touched : RestOf(f), Fault
    PROVE  \A f \in Files \ touched' : RestOf(f)'
<1>0. disk' = disk /\ touched' = touched
  BY FaultMoves
<1>1. CASE P.pc \in {"mark", "list", "cleanWait", "clean"} /\ P' = Nobody /\ row' = row /\ Watches("recovery", {})
  BY <1>0, <1>1, RestQuits
<1>2. CASE P.pc \in Preparing /\ Turned("unprepare")
  BY <1>0, <1>2, RestTurned
<1>3. CASE P.pc \in Entered /\ Turned("undoWait")
  BY <1>0, <1>3, RestTurned
<1>4. ASSUME NEW p \in Workers, NEW f \in Files,
             w[p].pc = "restore" /\ LastOf(w[p].todo, f) /\ lease = p
             /\ w[p].copy[f] = "rollback_pending" /\ Ended(p, f, "needs_attention")
      PROVE  \A g \in Files \ touched' : RestOf(g)'
  BY <1>0, <1>4, RestEnded
<1> QED BY <1>1, <1>2, <1>3, <1>4, FaultMoves

LEMMA RestStop ==
    ASSUME ImportInv, "stopInRestore" \notin Admits, \A f \in Files \ touched : RestOf(f), Stop
    PROVE  \A f \in Files \ touched' : RestOf(f)'
<1>0. /\ P' = Nobody /\ R' = Nobody /\ UNCHANGED <<row, disk, touched>>
      /\ \A p \in Workers : w'[p] = Nobody
  BY StopMoves
<1>1. ~HalfRestored
  BY DEF Stop
<1>2. ASSUME NEW f \in Files \ touched
      PROVE  RestOf(f)'
  <2>1. RestOf(f) /\ disk'[f] = disk[f]
    BY <1>0
  <2>2. HalfWay(f) => Empty(f, "sidecarPlace")
    BY <1>1 DEF HalfWay, HalfRestored, At, Last, LastOf, Out
  <2>3. SafeOf(f)' /\ PlacedOf(f)'
    BY <1>0, <2>1, <2>2, SafeStays, PlacedStays DEF RestOf
  <2>4. WasOf(f)' /\ RereadOf(f)' /\ StagedOf(f)'
    BY <1>0, NothingWas DEF WasOf, WasFor, RereadOf, StagedOf, Preparing, Entered, Ready
  <2> QED BY <2>3, <2>4 DEF RestOf
<1> QED BY <1>0, <1>2

\* Nobody acts.
LEMMA RestSame ==
    ASSUME UNCHANGED w, NEW f \in Files, row'[f] = row[f], disk'[f] = disk[f], RestOf(f)
    PROVE  RestOf(f)'
<1>1. /\ P' = P /\ R' = R
      /\ \A place, bytes : Holds(f, place, bytes)' = Holds(f, place, bytes)
      /\ \A place : Empty(f, place)' = Empty(f, place)
      /\ AudioPlaced(f)' <=> AudioPlaced(f)
      /\ Unplaced(f)' <=> Unplaced(f)
  BY DEF P, R, Holds, Empty, AudioPlaced, Unplaced
<1>2. SafeOf(f)'
  BY SafeStays DEF RestOf
<1>3. PlacedOf(f)'
  <2>1. HalfWay(f) => HalfWay(f)'
    BY <1>1 DEF HalfWay
  <2> QED BY <2>1, PlacedStays DEF RestOf
<1> HIDE DEF AudioPlaced, Unplaced
<1>4. WasOf(f)'
  BY <1>1 DEF RestOf, WasOf, WasFor
<1>5. RereadOf(f)' /\ StagedOf(f)'
  BY <1>1 DEF RestOf, RereadOf, StagedOf
<1> QED BY <1>2, <1>3, <1>4, <1>5 DEF RestOf

LEMMA RestStep ==
    ASSUME ImportInv, StaleInv, RestInv, "stopInRestore" \notin Admits, [Next]_vars
    PROVE  RestInv'
<1> SUFFICES ASSUME ~adopted' PROVE \A f \in Files \ touched' : RestOf(f)'
  BY DEF RestInv
<1>0. ~adopted /\ \A f \in Files \ touched : RestOf(f)
  BY AdoptedForGood DEF RestInv
<1>1. CASE Call
  BY <1>0, <1>1, RestPreparing
<1>2. CASE PublisherStep
  BY <1>0, <1>2, RestPublisherStep
<1>3. CASE RecoveryStep
  BY <1>0, <1>3, RestRecoveryStep
<1>4. ASSUME NEW p \in Workers, SharedStep(p)
      PROVE  \A f \in Files \ touched' : RestOf(f)'
  BY <1>0, <1>4, RestShared
<1>5. CASE Fault
  BY <1>0, <1>5, RestFault
<1>6. CASE Stop
  BY <1>0, <1>6, RestStop
<1>7. ASSUME NEW f \in Files, NEW place \in Places, OtherWrites(f, place)
      PROVE  \A g \in Files \ touched' : RestOf(g)'
  <2>1. /\ UNCHANGED <<row, w>> /\ touched = {} /\ touched' = {f}
        /\ disk' = [disk EXCEPT ![f][place] = "foreign"]
    BY <1>7 DEF OtherWrites
  <2>2. disk \in [Files -> [Places -> Bytes]]
    BY DEF ImportInv, Types
  <2>3. \A g \in Files : g # f => disk'[g] = disk[g]
    BY <2>1, <2>2
  <2> QED BY <1>0, <2>1, <2>3, RestSame
<1>8. CASE Started \/ Restart \/ ChangePolicy \/ UNCHANGED vars
  <2>1. UNCHANGED <<row, disk, touched, w>>
    BY <1>8, WorldMoves
  <2> QED BY <1>0, <2>1, RestSame
<1> QED BY <1>1, <1>2, <1>3, <1>4, <1>5, <1>6, <1>7, <1>8 DEF Next

LEMMA RestInit ==
    ASSUME ImportAssumption, Init
    PROVE  RestInv
<1>1. /\ P = Nobody /\ R = Nobody /\ \A p \in Workers : w[p] = Nobody
      /\ \A f \in Files : row[f] = "none"
  BY DEF Init, P, R, Workers
<1>2. ASSUME NEW f \in Files
      PROVE  RestOf(f)
  <2>1. /\ disk[f].source = "input" /\ (Plan[f].replaces = "other" => disk[f].old = "replaced")
        /\ disk[f].destination = IF Same(f) THEN "replaced" ELSE "missing"
        /\ disk[f].temp = "missing" /\ disk[f].backup = "missing"
        /\ disk[f].sidecarTemp = "missing" /\ disk[f].sidecarPlace = "missing"
    BY DEF Init, Places
  <2>2. SafeOf(f) /\ PlacedOf(f)
    BY <1>1, <2>1 DEF SafeOf, PlacedOf, Unplaced, Ready, Holds, Empty
  <2>3. WasOf(f) /\ RereadOf(f) /\ StagedOf(f)
    BY <1>1, NothingWas DEF WasOf, WasFor, RereadOf, StagedOf, Preparing, Entered, Ready
  <2> QED BY <2>2, <2>3 DEF RestOf
<1> QED BY <1>2 DEF RestInv

\* A row says rolled back only of a file whose download and sidecar are where they were, whose
\* replaced file is back and of which nothing shows in the library, whichever call,
\* cancellation, stop or recovery undid it, if no stop comes between the two removals of a
\* rollback (_restore_import_filesystem).
THEOREM RolledBackIsRestoredHolds ==
    ASSUME ImportAssumption, "callOverRollback" \notin Admits, "stopInRestore" \notin Admits
    PROVE  Spec => []RolledBackIsRestored
<1>1. Init => ImportInv /\ StaleInv /\ RestInv
  BY ImportInit, StaleInit, RestInit
<1>2. ImportInv /\ StaleInv /\ RestInv /\ [Next]_vars => ImportInv' /\ StaleInv' /\ RestInv'
  BY NextKeeps, StaleStep, RestStep
<1>3. ImportInv /\ RestInv => RolledBackIsRestored
  <2> SUFFICES ASSUME ImportInv, RestInv, NEW f \in Files \ touched, row[f] = "rolled_back"
               PROVE  /\ Holds(f, "source", "input") /\ ReplacedIntact(f)
                      /\ ~Same(f) => Empty(f, "destination")
                      /\ \A place \in {"backup", "sidecarPlace"} : Empty(f, place)
    BY DEF RolledBackIsRestored
  <2>1. ~adopted
    BY AdoptedNow DEF Committed
  <2>2. SafeOf(f) /\ Unplaced(f)
    BY <2>1 DEF RestInv, RestOf, PlacedOf
  <2> QED BY <2>2 DEF SafeOf, Unplaced, ReplacedIntact, Empty, Holds
<1> QED BY <1>1, <1>2, <1>3, PTL DEF Spec
=============================================================================
