---------------------------- MODULE MCPublication ----------------------------
(***************************************************************************)
(* Small instances of the two protocols by which files come into the       *)
(* library: a bundle of a Library Management operation, and the bundle of  *)
(* a download.  They share no state (each has its table of bundles and     *)
(* journal rows), so their sum is checked and not their product: lane is   *)
(* chosen at the start, and the other stays as it is.                      *)
(***************************************************************************)
EXTENDS MCPublicationJournal

CONSTANTS ImportPlan, MaxCalls, ImportStops, ImportAdmits \* of ImportPublication

VARIABLES lane, bundle, importRow, importDisk, importAdopted, lease, policy, process, w,
          importTouched, importSpent

\* A file with a sidecar that replaces what is at its destination, and one that replaces a
\* file at another path.
Replacements == << [sidecar |-> TRUE, replaces |-> "same"], [sidecar |-> FALSE, replaces |-> "other"] >>

\* ImportPublication, with what is proved of it.
Import == INSTANCE ImportPublicationProofs WITH
    Plan <- ImportPlan, MaxStops <- ImportStops, Admits <- ImportAdmits,
    row <- importRow, disk <- importDisk, adopted <- importAdopted,
    touched <- importTouched, spent <- importSpent

ASSUME ImportsAssumption == Import!ImportAssumption

importVars == <<bundle, importRow, importDisk, importAdopted, lease, policy, process, w,
                importTouched, importSpent>>

LanesInit ==
    /\ lane \in {"operation", "import"}
    /\ Init /\ Import!Init
    /\ lane = "import" => op.phase = "applying"

LanesNext ==
    \/ lane = "operation" /\ Next /\ UNCHANGED <<lane, importVars>>
    \/ lane = "import" /\ Import!Next /\ UNCHANGED <<lane, vars>>

\* The fairness each of them states, of the one that was chosen.
LanesSpec ==
    /\ LanesInit /\ [][LanesNext]_<<lane, vars, importVars>>
    /\ WF_vars(lane = "operation" /\ Work)
    /\ WF_importVars(lane = "import" /\ (Import!PublisherStep \/ Import!SharedStep("publisher")))
    /\ WF_importVars(lane = "import" /\ Import!RecoveryLoop)

-----------------------------------------------------------------------------
(* The properties of both.  AdoptedIsWhole is that of PublicationJournal.          *)

\* The states of both keep to their types, and whoever moves files of a download has the leases.
TypesOK == TypeOK /\ Import!TypeOK

\* A row that says rolled back is true of the files, whatever ended the publication
\* (_rollback, _restore_originals, _restore_import_filesystem).
UndoneIsRestored == RolledBackIsRestored /\ Import!RolledBackIsRestored

\* A bundle of a download that nobody looks after any more is not half done
\* (publish_import_bundle, recover_import_bundle).
ClosedIsWhole == Import!ClosedIsWhole

\* Nothing that another program wrote is destroyed (_recheck_prepared, _recheck_import_bundle).
BytesSurvive == OthersBytesSurvive /\ Import!OthersBytesSurvive

\* Both implement AtomicPublication: files are adopted together, after all of them are in
\* place, and what they were made from is given up after that
\* (commit_library_management_bundle, commit_library_management_import_bundle).
BothRefineAtomicPublication == RefinesAtomicPublication /\ Import!RefinesAtomicPublication

\* What is begun ends, over faults and stops.
BothSettle == <>[](IF lane = "operation" THEN Settled ELSE Import!Settled)
=============================================================================
