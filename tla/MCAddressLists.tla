--------------------------- MODULE MCAddressLists ---------------------------
(* Instances of AddressLists for TLC. *)
EXTENDS AddressLists, TLC

CONSTANTS a, b

TheNet == {{a, b}}
Symmetric == Permutations(IP)
=============================================================================
