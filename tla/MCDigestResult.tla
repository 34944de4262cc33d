--------------------------- MODULE MCDigestResult ---------------------------
(* One digest and two saves of it. *)
EXTENDS DigestResult, TLC
CONSTANTS s1, s2
=============================================================================
