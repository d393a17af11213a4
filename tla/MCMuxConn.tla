------------------------------ MODULE MCMuxConn ------------------------------
(* Three dials, interchangeable: one that makes the connection and two that race for it, or for
   the next one when it has died. *)
EXTENDS MuxConn
=============================================================================
