---------------------- MODULE MCSchedulerDigestCommit ----------------------
(* Two messages and two rules: r1 takes every message, r2 filters one out.  *)
EXTENDS SchedulerDigestCommit
CONSTANTS m1, m2, r1, r2
MCMsg == {m1, m2}
MCRule == {r1, r2}
MCMatching == [r \in MCRule |-> IF r = r1 THEN {m1, m2} ELSE {m1}]
=============================================================================
