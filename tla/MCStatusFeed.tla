---------------------------- MODULE MCStatusFeed ----------------------------
(* Instances of StatusFeed for TLC. *)
EXTENDS StatusFeed

CONSTANTS maintain, scan, handler, s1, s2
=============================================================================
