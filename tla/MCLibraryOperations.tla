------------------------ MODULE MCLibraryOperations ------------------------
(* Small instances of LibraryOperations for TLC. *)
EXTENDS LibraryOperations, TLC

CONSTANTS bulk, reidentification, management

AllJobs == {bulk, reidentification, management}
KindOf == (bulk :> "bulk_review_apply") @@ (reidentification :> "explicit_reidentification")
             @@ (management :> "library_management")
SizeOf == (bulk :> 2) @@ (reidentification :> 1) @@ (management :> 2)
=============================================================================
