------------------------------ MODULE MCOutbound ------------------------------
(* Small instances of Outbound for TLC. *)
EXTENDS Outbound, TLC

\* Requests are interchangeable: sound for invariants and action properties.
Interchangeable == Permutations(Requests)
=============================================================================
