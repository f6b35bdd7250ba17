--------------------------- MODULE MCLibraryScans ---------------------------
(***************************************************************************)
(* Two instances of LibraryScan, of which one is chosen at the start: one  *)
(* scope, two files and every way they move ("files"), and two requests,   *)
(* two policies and every control ("queue", the constants of the cfg, with *)
(* all files indexed at the start).                                        *)
(***************************************************************************)
EXTENDS MCLibraryScan

CONSTANT policy0

VARIABLE instance

BothInRootA == <<rootA, rootA>>
AllInScope1 == [s \in {s1} |-> {1, 2}]
Scope1IsRootA == [s \in {s1} |-> rootA]

\* LibraryScan with what is proved of it, on constants of its own, and on those of the cfg.
TwoFiles == INSTANCE LibraryScanProofs WITH
    FileCount <- 2, Roots <- {rootA}, Scopes <- {s1}, RootOf <- BothInRootA,
    FilesIn <- AllInScope1, ScopeRoot <- Scope1IsRootA, Requests <- OneScope,
    Policies <- {policy0}, Admits <- {}
Queue == INSTANCE LibraryScan

ScansInit ==
    \/ instance = "files" /\ TwoFiles!Init
    \/ instance = "queue" /\ Queue!Init /\ track = [f \in Files |-> "indexed"]

ScansNext ==
    \/ instance = "files" /\ TwoFiles!Next /\ UNCHANGED instance
    \/ instance = "queue" /\ Queue!Next /\ UNCHANGED instance

ScansSpec == ScansInit /\ [][ScansNext]_<<vars, instance>>

\* The properties of LibraryScan with these names, of the instance that shows them.
FilesTypeOK == instance = "files" => TwoFiles!TypeOK

\* A pause or a stop that is pending has a worker that will settle it (PendingControlIsHeld).
FilesPendingControlIsHeld == instance = "files" => TwoFiles!PendingControlIsHeld

\* A scan marks a track missing only when its file is not there (MarksOnlyAbsent).
FilesMarksOnlyAbsent == [][instance = "files" => TwoFiles!OnlyAbsentMarked]_vars

\* What was on disk all along is available when the run completes (CompletedScanRestores).
FilesCompletedScanRestores == [][instance = "files" => TwoFiles!PresentRestored]_vars
=============================================================================
