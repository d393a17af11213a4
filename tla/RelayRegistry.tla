---------------------------- MODULE RelayRegistry ----------------------------
(***************************************************************************)
(* What GlobalTrafficRecorder.alive_connection_count promises of the       *)
(* connections of an engine, whatever their streams are and however they   *)
(* end: a connection is turned away or counted, and one that was counted   *)
(* is taken off once.                                                      *)
(***************************************************************************)
EXTENDS Integers

CONSTANT Conns

VARIABLES phase, alive

vars == <<phase, alive>>

Init == phase = [c \in Conns |-> "pending"] /\ alive = 0

Move(c, from, to) == phase[c] = from /\ phase' = [phase EXCEPT ![c] = to]

TurnAway(c) == Move(c, "pending", "gone") /\ UNCHANGED alive
Enter(c)    == Move(c, "pending", "live") /\ alive' = alive + 1
Leave(c)    == Move(c, "live", "gone") /\ alive' = alive - 1

Next == \E c \in Conns : TurnAway(c) \/ Enter(c) \/ Leave(c)

Spec == Init /\ [][Next]_vars
=============================================================================
