---------------------------- MODULE Publication ----------------------------
(***************************************************************************)
(* What `release.sh --complete` promises of one release, seen from origin: *)
(* the tag is created once and never taken back, and the documentation     *)
(* site and the release page appear only for a version that is tagged.     *)
(***************************************************************************)
VARIABLES tagged, documented, announced

vars == <<tagged, documented, announced>>

Init == tagged = FALSE /\ documented = FALSE /\ announced = FALSE

Ship == ~tagged /\ tagged' = TRUE /\ UNCHANGED <<documented, announced>>

Document ==
    tagged /\ ~documented /\ documented' = TRUE /\ UNCHANGED <<tagged, announced>>

Announce ==
    tagged /\ ~announced /\ announced' = TRUE /\ UNCHANGED <<tagged, documented>>

Next == Ship \/ Document \/ Announce

Spec == Init /\ [][Next]_vars

\* The page may be left to the operator.
Completes == <>(tagged /\ documented)
=============================================================================
