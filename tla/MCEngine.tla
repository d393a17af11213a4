------------------------------ MODULE MCEngine ------------------------------
(* An inbound is named after the kind of its first map. *)
EXTENDS Engine

AllKinds == [i \in Inbounds |-> i]
=============================================================================
