---------------------------- MODULE MCUdfCatalog ----------------------------
(* Two servers and two sessions for TLC. *)
EXTENDS UdfCatalog

CONSTANTS r1, r2, s1, s2
=============================================================================
