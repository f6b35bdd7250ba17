------------------------ MODULE MCPublicationJournal ------------------------
(* Small instances of PublicationJournal for TLC. *)
EXTENDS PublicationJournal

RetagMoveDelete == <<"retag", "move", "delete">>
MoveRecycle == <<"move", "recycle">>
=============================================================================
