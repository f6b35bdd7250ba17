------------------------- MODULE LibraryScansProofs -------------------------
(***************************************************************************)
(* What the run "scans" checks on its instance of one scope and two files  *)
(* follows from what LibraryScanProofs shows of any runs, scopes and       *)
(* files: the instance satisfies the assumptions of those theorems, and    *)
(* which of the two instances was chosen never changes.                    *)
(***************************************************************************)
EXTENDS MCLibraryScans, TLAPS

\* One scope is all of the one root; NoScope names none.
LEMMA FilesAssumption ==
    ASSUME NoScope # s1
    PROVE  TwoFiles!ScanAssumption
<1>1. TwoFiles!Files = {1, 2}
  BY DEF TwoFiles!Files
<1>2. RunCount \in Nat
  BY ScanAssumption DEF ScanAssumption
<1>3. /\ BothInRootA \in [{1, 2} -> {rootA}]
      /\ \A f \in {1, 2} : BothInRootA[f] = rootA
  BY DEF BothInRootA
<1>4. /\ AllInScope1 \in [{s1} -> SUBSET {1, 2}]
      /\ Scope1IsRootA \in [{s1} -> {rootA}]
      /\ Scope1IsRootA[s1] = rootA
  BY DEF AllInScope1, Scope1IsRootA
<1>5. OneScope \subseteq Seq({s1}) \ {<<>>}
  BY DEF OneScope
<1> QED BY <1>1, <1>2, <1>3, <1>4, <1>5 DEF TwoFiles!ScanAssumption, TwoFiles!Circumstances

\* The instance that was chosen runs to the end, and it is a LibraryScan.
LEMMA FilesRun ==
    ScansSpec => \/ [](instance = "queue")
                 \/ [](instance = "files") /\ TwoFiles!Spec
<1>1. ScansInit => (instance = "files" /\ TwoFiles!Init) \/ instance = "queue"
  BY DEF ScansInit
<1>2. instance = "queue" /\ [ScansNext]_<<vars, instance>> => (instance = "queue")'
  BY DEF ScansNext
<1>3. instance = "files" /\ [ScansNext]_<<vars, instance>>
      => (instance = "files")' /\ [TwoFiles!Next]_(TwoFiles!vars)
  BY DEF ScansNext, vars, TwoFiles!vars
<1> QED BY <1>1, <1>2, <1>3, PTL DEF ScansSpec, TwoFiles!Spec

\* Runs, fences, files, publications and the worker keep their types and bounds in every
\* step of coordinator, scanner, indexer, reconciler and restart.
THEOREM FilesTypesHold ==
    ASSUME NoScope # s1
    PROVE  ScansSpec => []FilesTypeOK
<1>1. TwoFiles!Spec => []TwoFiles!TypeOK
  BY FilesAssumption, TwoFiles!ScanTypeCorrect
<1>2. instance = "queue" \/ TwoFiles!TypeOK => FilesTypeOK
  BY DEF FilesTypeOK
<1> QED BY <1>1, <1>2, FilesRun, PTL

\* A run that is being paused or stopped has a worker that will settle it (request_pause,
\* request_stop, run_once).
THEOREM FilesPendingControlIsHeldHolds ==
    ASSUME NoScope # s1
    PROVE  ScansSpec => []FilesPendingControlIsHeld
<1>1. TwoFiles!Spec => []TwoFiles!PendingControlIsHeld
  BY FilesAssumption, TwoFiles!PendingControlIsHeldHolds DEF TwoFiles!OnePolicy
<1>2. instance = "queue" \/ TwoFiles!PendingControlIsHeld => FilesPendingControlIsHeld
  BY DEF FilesPendingControlIsHeld
<1> QED BY <1>1, <1>2, FilesRun, PTL

\* A track is marked missing only when its file is not there, whatever publications, other
\* programs and controls did between the walk and the reconciliation.
THEOREM FilesMarksOnlyAbsentHolds ==
    ASSUME NoScope # s1
    PROVE  ScansSpec => FilesMarksOnlyAbsent
<1>1. TwoFiles!Spec => TwoFiles!MarksOnlyAbsent
  BY FilesAssumption, TwoFiles!MarksOnlyAbsentHolds
     DEF TwoFiles!NoneRevived, TwoFiles!OneScopePerRoot
<1>2. instance = "queue" => [instance = "files" => TwoFiles!OnlyAbsentMarked]_vars
  OBVIOUS
<1>3. [TwoFiles!OnlyAbsentMarked]_(TwoFiles!vars)
      => [instance = "files" => TwoFiles!OnlyAbsentMarked]_vars
  BY DEF vars, TwoFiles!vars
<1> QED BY <1>1, <1>2, <1>3, FilesRun, PTL DEF FilesMarksOnlyAbsent, TwoFiles!MarksOnlyAbsent

\* When a run completes, what was on disk ever since it was claimed is not left missing.
THEOREM FilesCompletedScanRestoresHolds ==
    ASSUME NoScope # s1
    PROVE  ScansSpec => FilesCompletedScanRestores
<1>1. TwoFiles!Spec => TwoFiles!CompletedScanRestores
  BY FilesAssumption, TwoFiles!CompletedScanRestoresHolds
     DEF TwoFiles!NoneRevived, TwoFiles!OneScopePerRoot
<1>2. instance = "queue" => [instance = "files" => TwoFiles!PresentRestored]_vars
  OBVIOUS
<1>3. [TwoFiles!PresentRestored]_(TwoFiles!vars)
      => [instance = "files" => TwoFiles!PresentRestored]_vars
  BY DEF vars, TwoFiles!vars
<1> QED BY <1>1, <1>2, <1>3, FilesRun, PTL
        DEF FilesCompletedScanRestores, TwoFiles!CompletedScanRestores

=============================================================================
