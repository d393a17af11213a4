------------------------------ MODULE WsStream ------------------------------
(***************************************************************************)
(* The way up through rucimp's WebSocket stream: EarlyConn, whose first    *)
(* write dials with a part of the data in a header of the request, the     *)
(* binary messages after it, the server that makes early data of the       *)
(* header, and the poll_read of its stream; under the ways a relay writes  *)
(* to a stream first.                                                      *)
(*                                                                         *)
(* The i-th byte is i.  A message is the sequence of its bytes, Close the  *)
(* empty one.  The library sends what was given to it when it is flushed.  *)
(***************************************************************************)
EXTENDS Integers, Sequences, SequencesExt

CONSTANTS
  Total,     \* bytes there are to write (a bound)
  MaxFirst,  \* most bytes of the first write
  MaxWrite,  \* most bytes of a write of the copy
  MaxRead,   \* most room in the buffer of a read
  WireCap,   \* messages the transport holds (a bound)
  MaxEarly,  \* MAX_EARLY_DATA_LEN
  MaxHeader  \* MAX_EARLY_DATA_LEN_BASE64

ASSUME SizesAssumption == {Total, MaxFirst, MaxWrite, MaxRead, WireCap, MaxEarly, MaxHeader} \subseteq Nat \ {0}

VARIABLES
  relay,    \* who writes first: see Relays
  use_early_data,
  conn,     \* EarlyConn: "none", "dialing", "real"
  step,     \* of the relay: "first", "writing", "flush", "copy", "over"
  sent,     \* bytes that were given to poll_write
  left,     \* left_first_w_data
  header,   \* bytes in the header of the request
  unsent,   \* messages the library has not sent
  need_flush,
  wire,     \* messages on their way
  server,   \* "wait", "up"
  r_buf, got, reader,
  fate      \* of the writing end

writeVars == <<conn, step, sent, left, header, unsent, need_flush>>
readVars == <<server, r_buf, got, reader>>
vars == <<relay, use_early_data, writeVars, wire, readVars, fate>>

\* head: a map above, such as trojan's, writes and flushes before the relay.
\* no_gtr_ed, gtr_ed: early data of the inbound; only the first flushes it.
\* bare: nothing is written before the relay copies.
Relays == {"head", "no_gtr_ed", "gtr_ed", "bare"}

Close == <<>>
Bytes(n) == [i \in 1..n |-> sent + i]
Least(a, b) == IF a <= b THEN a ELSE b
Base64Len(n) == (4 * n + 2) \div 3

\* What the client puts into the header at most, the server decodes.
ASSUME HeaderAssumption == Base64Len(MaxEarly) <= MaxHeader

Init ==
  /\ relay \in Relays /\ use_early_data \in BOOLEAN
  /\ conn = IF use_early_data THEN "none" ELSE "real"
  /\ step = IF relay = "bare" THEN "copy" ELSE "first"
  /\ sent = 0 /\ left = <<>> /\ header = <<>> /\ unsent = <<>> /\ need_flush = FALSE
  /\ wire = <<>>
  /\ server = IF use_early_data THEN "wait" ELSE "up"
  /\ r_buf = <<>> /\ got = <<>> /\ reader = "open"
  /\ fate = "open"

-----------------------------------------------------------------------------
(* The writing end *)

Message(b) == IF b = <<>> THEN unsent ELSE Append(unsent, b)

\* Mutant: gtr_ed's way for all.
WrittenUnflushed == step' = "copy" /\ need_flush' = (step = "copy")

\* After a write: the first is flushed or not, the copy's when it next waits.
Written ==
  IF step = "copy" \/ relay \in {"gtr_ed", "bare"}
  THEN step' = "copy" /\ need_flush' = (step = "copy" \/ relay = "bare")
  ELSE step' = "flush" /\ UNCHANGED need_flush

\* A write through the stream that is established: one message.
Write ==
  /\ step \in {"first", "copy"} /\ conn = "real" /\ fate = "open"
  /\ \E n \in 1..Least(IF step = "first" THEN MaxFirst ELSE MaxWrite, Total - sent) :
       sent' = sent + n /\ unsent' = Message(Bytes(n))
  /\ Written
  /\ UNCHANGED <<relay, use_early_data, conn, left, header, wire, readVars, fate>>

\* The first write through an EarlyConn: its head goes into the request.
WriteEarly ==
  /\ step \in {"first", "copy"} /\ conn = "none" /\ fate = "open"
  /\ \E n \in 1..Least(MaxFirst, Total) :
       /\ sent' = n
       /\ header' = SubSeq(Bytes(n), 1, Least(n, MaxEarly))
       /\ left' = SubSeq(Bytes(n), MaxEarly + 1, n)
  /\ conn' = "dialing" /\ step' = "writing"
  /\ UNCHANGED <<relay, use_early_data, unsent, need_flush, wire, readVars, fate>>

\* Mutant: what did not fit into the request is forgotten.
DialOkForgets ==
  /\ conn = "dialing" /\ server = "up" /\ fate = "open"
  /\ conn' = "real" /\ left' = <<>>
  /\ Written
  /\ UNCHANGED <<relay, use_early_data, sent, header, unsent, wire, readVars, fate>>

\* The dial is through; what did not fit into the request is a message.
DialOk ==
  /\ conn = "dialing" /\ server = "up" /\ fate = "open"
  /\ conn' = "real" /\ unsent' = Message(left) /\ left' = <<>>
  /\ Written
  /\ UNCHANGED <<relay, use_early_data, sent, header, wire, readVars, fate>>

\* The library sends while a flush, or the close, is waited for.
Flush ==
  /\ step \in {"flush", "over"} \/ (step = "copy" /\ need_flush)
  /\ unsent # <<>> /\ fate # "lost" /\ Len(wire) < WireCap
  /\ wire' = Append(wire, Head(unsent)) /\ unsent' = Tail(unsent)
  /\ IF unsent' = <<>> THEN need_flush' = FALSE ELSE UNCHANGED need_flush
  /\ UNCHANGED <<relay, use_early_data, conn, step, sent, left, header, readVars, fate>>

Flushed ==
  /\ step = "flush" /\ unsent = <<>> /\ fate = "open"
  /\ step' = "copy"
  /\ UNCHANGED <<relay, use_early_data, conn, sent, left, header, unsent, need_flush, wire, readVars, fate>>

\* The copy comes to the end of its input, and shuts the stream down.
Shutdown ==
  /\ step = "copy" /\ conn = "real" /\ fate = "open"
  /\ unsent' = Append(unsent, Close)
  /\ step' = "over" /\ need_flush' = FALSE /\ fate' = "ended"
  /\ UNCHANGED <<relay, use_early_data, conn, sent, left, header, wire, readVars>>

\* The other half of the copy reads, or this one shuts down, an EarlyConn that
\* is not established: an error, which ends the relay.
NotEstablished ==
  /\ relay = "bare" /\ step \in {"copy", "writing"} /\ conn # "real" /\ fate = "open"
  /\ fate' = "lost" /\ step' = "over"
  /\ UNCHANGED <<relay, use_early_data, conn, sent, left, header, unsent, need_flush, wire, readVars>>

\* The transport breaks, at any time, or the server refuses the request.
Break ==
  /\ fate # "lost" /\ fate' = "lost" /\ step' = "over"
  /\ \E n \in 0..Len(wire) : wire' = SubSeq(wire, 1, n)
  /\ UNCHANGED <<relay, use_early_data, conn, sent, left, header, unsent, need_flush, readVars>>

-----------------------------------------------------------------------------
(* The reading end *)

\* A header that is too long is not decoded.  Else it is the first that the
\* next map gets.
Handshake ==
  /\ server = "wait" /\ conn = "dialing" /\ fate = "open"
  /\ server' = "up"
  /\ got' = IF Base64Len(Len(header)) > MaxHeader THEN <<>> ELSE header
  /\ UNCHANGED <<relay, use_early_data, writeVars, wire, r_buf, reader, fate>>

\* A message that does not fit goes to r_buf, and from there.
Read ==
  /\ server = "up" /\ reader = "open"
  /\ r_buf # <<>> \/ (wire # <<>> /\ Head(wire) # Close)
  /\ LET m == IF r_buf # <<>> THEN r_buf ELSE Head(wire)
     IN  \E n \in 1..Least(MaxRead, Len(m)) :
           got' = got \o SubSeq(m, 1, n) /\ r_buf' = SubSeq(m, n + 1, Len(m))
  /\ wire' = IF r_buf # <<>> THEN wire ELSE Tail(wire)
  /\ UNCHANGED <<relay, use_early_data, writeVars, server, reader, fate>>

ReadEnd ==
  /\ server = "up" /\ reader = "open" /\ r_buf = <<>>
  /\ \/ wire # <<>> /\ Head(wire) = Close /\ reader' = "eof"
     \/ wire = <<>> /\ fate = "lost" /\ reader' = "failed"
  /\ UNCHANGED <<relay, use_early_data, writeVars, wire, server, r_buf, got, fate>>

-----------------------------------------------------------------------------
Next == Write \/ WriteEarly \/ DialOk \/ Flush \/ Flushed \/ Shutdown \/ NotEstablished \/ Break
        \/ Handshake \/ Read \/ ReadEnd

\* The tasks of both ends run.  Nobody owes data, or an end of it.
Fairness == /\ WF_vars(DialOk) /\ WF_vars(Flush) /\ WF_vars(Flushed) /\ WF_vars(NotEstablished)
            /\ WF_vars(Handshake) /\ WF_vars(Read) /\ WF_vars(ReadEnd)

Spec == Init /\ [][Next]_vars /\ Fairness

-----------------------------------------------------------------------------
(* Properties *)

\* Way up, WebSocket with or without early data is a byte pipe: header, rest of
\* the first write and messages come to one sequence, nothing twice, and an end
\* is reported only after all of it.
Pipe == INSTANCE BytePipe WITH eof <- (reader = "eof")
PipeSpec == Pipe!Spec

\* gtr_ed has not flushed the early data, and the copy has nothing to add.
LeftUnflushed == relay = "gtr_ed" /\ step = "copy" /\ ~need_flush /\ unsent # <<>>

\* All that a relay was given to write, and has written, arrives, though the
\* client then waits for an answer to it; but for what gtr_ed leaves unflushed,
\* and a stream that was to be read before anything was written.
WrittenArrives ==
  \A n \in 1..Total :
    sent >= n ~> (Len(got) >= n \/ fate = "lost" \/ LeftUnflushed)
=============================================================================
