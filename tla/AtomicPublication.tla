-------------------------- MODULE AtomicPublication --------------------------
(***************************************************************************)
(* What a Library Management bundle promises: its outputs may come and go  *)
(* while the catalogue still describes the originals, the catalogue adopts *)
(* them only all together, no original is given up before that, and no     *)
(* output is withdrawn after it.                                           *)
(***************************************************************************)
CONSTANT Mutations

VARIABLES
    held,     \* the mutations whose original bytes are still on the disk
    shown,    \* the mutations whose output is in place
    adopted,  \* the catalogue describes the outputs
    touched   \* the mutations whose files another program has written

abstractVars == <<held, shown, adopted, touched>>

Init ==
    /\ held = Mutations
    /\ shown = {}
    /\ adopted = FALSE
    /\ touched = {}

Publish(m) ==
    /\ ~adopted
    /\ shown' = shown \cup {m}
    /\ UNCHANGED <<held, adopted, touched>>

\* Only what can be put back is withdrawn.
Withdraw(m) ==
    /\ ~adopted
    /\ m \in held
    /\ shown' = shown \ {m}
    /\ UNCHANGED <<held, adopted, touched>>

Adopt ==
    /\ shown = Mutations
    /\ adopted' = TRUE
    /\ UNCHANGED <<held, shown, touched>>

Discard(m) ==
    /\ adopted
    /\ held' = held \ {m}
    /\ UNCHANGED <<shown, adopted, touched>>

\* Another program writes over files of the mutations S, or where files of theirs were.
Disturb(S) ==
    /\ touched' = touched \cup S
    /\ \E T \in SUBSET S : shown' = shown \ T
    /\ UNCHANGED <<held, adopted>>

Next ==
    \/ \E m \in Mutations : Publish(m) \/ Withdraw(m) \/ Discard(m)
    \/ \E S \in SUBSET Mutations : Disturb(S)
    \/ Adopt

Spec == Init /\ [][Next]_abstractVars
=============================================================================
