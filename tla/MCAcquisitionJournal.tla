------------------------ MODULE MCAcquisitionJournal ------------------------
(* Small instances of AcquisitionJournal for TLC. *)
EXTENDS AcquisitionJournal

CONSTANTS a1, a2, t1, p1, p2

OneTask == [a \in Attempts |-> t1]
Usenet == [a \in Attempts |-> "usenet"]
Soulseek == [a \in Attempts |-> "soulseek"]

\* Each attempt with a path, bytes and a bundle of its own.
OwnPaths == [a \in Attempts |-> IF a = a1 THEN p1 ELSE p2]
OwnBytes == [a \in Attempts |-> a]
OwnBundle == [a \in Attempts |-> a]
OnePath == [a \in Attempts |-> p1]

\* The two attempts are alike, together with their paths.
Exchanged ==
    [x \in {a1, a2, p1, p2} |->
        CASE x = a1 -> a2
          [] x = a2 -> a1
          [] x = p1 -> p2
          [] x = p2 -> p1]
Alike == {Exchanged}

\* A bound: behaviours are followed up to the first completed or partial download.
FailsOnly == \A t \in Tasks : status[t] \notin {"completed", "partial"}
=============================================================================
