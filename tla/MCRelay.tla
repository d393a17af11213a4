------------------------------- MODULE MCRelay -------------------------------
(* Two connections with one chunk per direction. *)
EXTENDS Relay, TLC

Symm == Permutations(Conns)
=============================================================================
