----------------------------- MODULE MCH2Stream -----------------------------
(* A head of two bytes can be cut, a frame holds less than the longest
   message, the window less than two. *)
EXTENDS H2Stream

MCAllKinds == {"h2", "grpc", "zero_rtt"}
=============================================================================
