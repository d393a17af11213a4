------------------------------ MODULE MCTproxy ------------------------------
(* One key whose AddrConns follow each other, buffers that hold one datagram of
   full length, with one short one before it, and both kinds of Options. *)
EXTENDS Tproxy

TwoOptions == {[udp |-> TRUE, v6 |-> FALSE], [udp |-> FALSE, v6 |-> TRUE]}
=============================================================================
