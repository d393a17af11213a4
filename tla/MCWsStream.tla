----------------------------- MODULE MCWsStream -----------------------------
(* The first write may be longer than what fits into the request, a message
   longer than the buffer of a read. *)
EXTENDS WsStream
=============================================================================
