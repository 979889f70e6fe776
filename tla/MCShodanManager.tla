-------------------------- MODULE MCShodanManager --------------------------
(***************************************************************************)
(* Instances of ShodanManager for TLC.                                     *)
(***************************************************************************)
EXTENDS ShodanManager

CONSTANTS p1, p2, w1, w2, nokey, key

=============================================================================
