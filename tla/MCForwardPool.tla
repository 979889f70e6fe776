---------------------------- MODULE MCForwardPool ----------------------------
(* Instances of ForwardPool for TLC. *)
EXTENDS ForwardPool

NoLists == [ip_blacklist |-> {}, exempt_list |-> {}]
Block1 == [ip_blacklist |-> {1}, exempt_list |-> {}]
Pin1 == [ip_blacklist |-> {}, exempt_list |-> {1}]

\* What a user may save: nothing at all, or a blacklist with the first address
\* and one without it.
NoChoice == {}
BlockOrNot == {NoLists, Block1}

=============================================================================
