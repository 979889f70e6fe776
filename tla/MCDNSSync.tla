------------------------------ MODULE MCDNSSync ------------------------------
(* Instances of DNSSync for TLC. *)
EXTENDS DNSSync, TLC

\* Addresses, records and goroutines are interchangeable.
Symmetric == Permutations(Content) \cup Permutations(RecordId) \cup Permutations(Syncer)

=============================================================================
