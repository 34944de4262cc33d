--------------------------- MODULE MCHistoryStore ---------------------------
(* Two digests, one of them in the history from the start.                  *)
EXTENDS HistoryStore
CONSTANTS d1, d2
MCItem == {d1, d2}
MCSaved == {d2}

\* Damage of the index is the only fault of a behaviour; once a digest is excused
\* from the properties (beside), nothing else fails and the other one is left alone.
Within ==
    /\ lost => faults = 1
    /\ beside # {} => faults = 0 /\ FilesOf(d2) \subseteq there /\ d2 \notin op.left
=============================================================================
