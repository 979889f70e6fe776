----------------------------- MODULE MCScanner -----------------------------
(* Instances of Scanner for TLC. *)
EXTENDS Scanner

CONSTANTS a, b, c, d, x, source

\* One source lists them all.
OneSource == [s \in {source} |-> {a, b, c, d, x} \cap IP]
=============================================================================
