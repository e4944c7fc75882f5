---------------------------- MODULE MCNavigation ----------------------------
(* Instances of Navigation for TLC. *)
EXTENDS Navigation

CONSTANTS s1, s2, s3, s4     \* streets

MCWays == {<<s1, s2>>, <<s2>>, <<s1, s3>>}
MCWaysBetween == {<<s4>>}
=============================================================================
