-------------------------- MODULE MCPlaintextCache --------------------------
(* An instance of PlaintextCache for TLC.                                   *)
EXTENDS PlaintextCache, FiniteSetsExt

(* The worker with a session may read twice.                               *)
Reads == [w \in Worker |-> IF w \in Persistent THEN 2 ELSE 1]

(* Two reads, beside each other or in one session, and a fault or a death;  *)
(* one read, a fault and a death.                                          *)
ThreeEvents ==
  LET Begun == MapThenSumSet(LAMBDA w : reads[w], Worker)
  IN Begun <= 2 /\ Begun + faults + Cardinality(killed) <= 3

(* Nothing is asked of what follows the unlinking of a lock not judged.     *)
NotSwapped == ~swapped
=============================================================================
