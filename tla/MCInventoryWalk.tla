--------------------------- MODULE MCInventoryWalk ---------------------------
(* Small instances of InventoryWalk for TLC. *)
EXTENDS InventoryWalk

\* A folder larger than the queue, one without audio files, and a small one.
ThreeFolders == <<4, 4, 5>>
=============================================================================
