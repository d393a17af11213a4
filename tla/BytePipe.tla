------------------------------ MODULE BytePipe ------------------------------
(***************************************************************************)
(* What a stream that wraps a transport promises about one direction: the  *)
(* reader gets the bytes that were written, once and in their order, and   *)
(* is told of the end of the stream only when it has them all, or when the *)
(* writer's end or the way between them was lost, which can be after the   *)
(* writer ended the stream, and which a writer may not have noticed yet.   *)
(* The i-th byte that is written is i.                                     *)
(***************************************************************************)
EXTENDS Integers, Sequences

CONSTANT Total   \* the bytes there are to write

VARIABLES
  sent,  \* bytes written
  got,   \* bytes read
  fate,  \* of the stream: "open", "ended" by the writer, "lost"
  eof    \* whether the reader was told that the stream is over

vars == <<sent, got, fate, eof>>

Init == sent = 0 /\ got = <<>> /\ fate = "open" /\ eof = FALSE

Put == /\ fate # "ended"
       /\ sent' \in sent + 1 .. Total
       /\ UNCHANGED <<got, fate, eof>>

Take == /\ ~eof
        /\ \E n \in 1..(sent - Len(got)) : got' = got \o [i \in 1..n |-> Len(got) + i]
        /\ UNCHANGED <<sent, fate, eof>>

Close == fate = "open" /\ fate' = "ended" /\ UNCHANGED <<sent, got, eof>>

Lose == fate # "lost" /\ fate' = "lost" /\ UNCHANGED <<sent, got, eof>>

End == /\ fate = "lost" \/ (fate = "ended" /\ Len(got) = sent)
       /\ eof' = TRUE
       /\ UNCHANGED <<sent, got, fate>>

Next == Put \/ Take \/ Close \/ Lose \/ End

Spec == Init /\ [][Next]_vars
=============================================================================
