------------------------------- MODULE MCFold -------------------------------
(* Indices 1 and 2 are a listener and a multiplexer, 3 and 4 are protocols.
   A script goes on from the listener with either of 2 and 3, and from both
   with 4; from there it goes nowhere. *)
EXTENDS Fold

MCChain  == <<TRUE, TRUE, FALSE, FALSE>>
MCScript == [k \in 0..4 |-> CASE k = 0 -> {1} [] k = 1 -> {2, 3}
                              [] k \in {2, 3} -> {4} [] k = 4 -> {}]

MCMaxStreams == [k \in Kinds |-> IF k = "infinite" THEN 2 ELSE 3]
=============================================================================
