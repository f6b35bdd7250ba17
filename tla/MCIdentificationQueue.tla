------------------------ MODULE MCIdentificationQueue ------------------------
(* Small instances of IdentificationQueue for TLC. *)
EXTENDS IdentificationQueue

\* Automatic identification is withdrawn and comes back.
AutomaticAgain == <<"automatic", "local_metadata", "automatic">>
=============================================================================
