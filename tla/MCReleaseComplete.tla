------------------------- MODULE MCReleaseComplete -------------------------
(* Two checkouts of one release, one commit merged meanwhile.              *)
EXTENDS ReleaseComplete

CONSTANTS c1, c2, w1


=============================================================================
