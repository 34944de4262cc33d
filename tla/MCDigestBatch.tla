---------------------------- MODULE MCDigestBatch ----------------------------
(* Two batches, one save at a time, one change of the settings.  Of the page *)
(* that goes, the change and the shutdown one happens in a behaviour, and    *)
(* batches are started one after the other.                                  *)
EXTENDS DigestBatch, FiniteSets

OneStart == Cardinality({b \in Batch : starts[b].pc # "idle"}) <= 1
OneDisturbance == rev + (IF closed THEN 1 ELSE 0) + (IF client THEN 0 ELSE 1) <= 1
=============================================================================
