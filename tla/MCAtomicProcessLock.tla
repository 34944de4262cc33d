------------------------ MODULE MCAtomicProcessLock ------------------------
(* Three acquisitions in a process each: two can race for the lock of a     *)
(* dead owner.  The pair is enough for the orphaned claim.                  *)
EXTENDS AtomicProcessLock, TLC

CONSTANTS c1, c2, c3, p, q, r

MCCtx == {c1, c2, c3}
MCPair == {c1, c2}
MCProcess == {p, q, r}
MCPairProcess == {p, q}
Apart == (c1 :> p) @@ (c2 :> q) @@ (c3 :> r)
ApartPair == (c1 :> p) @@ (c2 :> q)
=============================================================================
