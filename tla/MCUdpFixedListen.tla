-------------------------- MODULE MCUdpFixedListen --------------------------
(* Two sources and two AddrConns: both sources at once, or one that comes back
   after its first AddrConn was closed. *)
EXTENDS UdpFixedListen
=============================================================================
