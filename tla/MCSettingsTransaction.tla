------------------------ MODULE MCSettingsTransaction ------------------------
(* Two clients, whose loads may take their turn in the save queue or go      *)
(* beside the saves.                                                         *)
EXTENDS SettingsTransaction
CONSTANTS c1, c2
MCClient == {c1, c2}
AnyLoad == {TRUE, FALSE}

\* A load that does not take its turn is under way, or what it read is shown.
Beside(p) ==
    \/ req[p].pc # "idle" /\ req[p].goal = "view"
    \/ view[p] # NoView /\ ~view[p].settled

\* Bound: one client has such loads, beside two saves and one fault, and nothing
\* is asked any more once one has recovered beside a save.
FewBeside ==
    (\E p \in Client : Beside(p)) => ~Beside(c1) /\ saves <= 2 /\ faults <= 1 /\ ~raced
=============================================================================
