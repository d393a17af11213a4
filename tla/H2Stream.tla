------------------------------ MODULE H2Stream ------------------------------
(***************************************************************************)
(* One direction of an h2 stream of ruci: the poll_write of one end, the   *)
(* DATA frames and the flow-control window of the h2 library, the          *)
(* poll_read of the other end.  The bytes are carried as they are          *)
(* (H2Stream), or in messages with a head that tells their length          *)
(* (grpc::Stream, which the server makes, and grpc::zero_rtt::Stream, its  *)
(* twin on the client, which can be read from once the response is there). *)
(*                                                                         *)
(* Byte i of the payload is i; each of the HeadLen bytes of the head of a  *)
(* message of n bytes is -(n + 1).                                         *)
(***************************************************************************)
EXTENDS Integers, Sequences

CONSTANTS
  Kinds,     \* the streams there may be: "h2", "grpc", "zero_rtt"
  Total,     \* bytes of the payload (a bound)
  MaxWrite,  \* most bytes that are offered to one poll_write
  MaxRead,   \* most room in the buffer that is given to one poll_read
  HeadLen,   \* bytes of the head of a message
  MaxFrame,  \* most bytes of a DATA frame
  Window     \* the flow-control window of the stream

ASSUME KindsAssumption  == Kinds \subseteq {"h2", "grpc", "zero_rtt"}
ASSUME SizesAssumption  == {Total, MaxWrite, MaxRead, HeadLen} \subseteq Nat \ {0}
ASSUME FramesAssumption == MaxFrame \in Nat /\ MaxFrame > HeadLen /\ Window \in Nat /\ Window > HeadLen

VARIABLES
  kind,
  single,   \* the end that a SingleClient made, the connection being the stream's own
  conn,     \* the connection: its task was told to end, or it is lost
  sent,     \* payload bytes that poll_write has accepted
  writer,   \* the writing end
  wire,     \* DATA frames between the ends
  window,   \* what the writing end may still send
  buffer,   \* buffer or r_buffer: received, not yet read
  next_data_len,
  resp,     \* whether the reading end has its RecvStream
  got,      \* payload bytes read
  reader    \* the reading end

writeVars == <<sent, writer>>
readVars  == <<buffer, next_data_len, got, reader>>
vars == <<kind, single, conn, writeVars, wire, window, readVars, resp>>

Least(a, b) == IF a <= b THEN a ELSE b
Bytes(after, n) == [i \in 1..n |-> after + i]
DropFirst(s, n) == SubSeq(s, n + 1, Len(s))

\* Mutant: only the 6 bytes of READ_HEAD_LEN are counted, not the varint.
ShortHead(n) == [i \in 1..HeadLen - 1 |-> -(n + 1)]

encode_head(n) == [i \in 1..HeadLen |-> -(n + 1)]

\* The DATA frames the h2 library makes of what one send_data is given.
send_data(b) ==
  [k \in 1..((Len(b) + MaxFrame - 1) \div MaxFrame) |->
     SubSeq(b, (k - 1) * MaxFrame + 1, Least(k * MaxFrame, Len(b)))]

\* Whose end can be that of a SingleClient: the reader of a zero_rtt stream is a
\* client, that of a grpc one a server.
Clients(k) == {"none", "reader", "writer"} \ [h2 |-> {}, grpc |-> {"reader"}, zero_rtt |-> {"writer"}][k]

Init ==
  /\ kind \in Kinds /\ single \in Clients(kind) /\ conn = "up"
  /\ sent = 0 /\ writer = "open"
  /\ wire = <<>> /\ window = Window
  /\ buffer = <<>> /\ next_data_len = 0 /\ got = <<>> /\ reader = "open"
  /\ resp = (kind # "zero_rtt")

-----------------------------------------------------------------------------
(* The writing end.                                                        *)

Offered == 1..Least(MaxWrite, Total - sent)

\* poll_capacity, after reserve_capacity(need): what the window of the stream
\* leaves, or less when other streams use that of the connection.
Capacity(need) ==
  LET left == Least(need, window) IN IF single = "none" THEN 1..left ELSE {left} \ {0}

\* A writer that has not noticed that the connection is lost goes on.
Send(b, n) ==
  /\ wire' = IF conn = "lost" THEN wire ELSE wire \o send_data(b)
  /\ window' = window - Len(b)
  /\ sent' = sent + n

\* H2Stream::poll_write: as much of the buffer is sent as there is capacity.
H2Write ==
  /\ kind = "h2" /\ writer = "open"
  /\ \E n \in Offered : \E write_len \in Capacity(n) :
       Send(Bytes(sent, write_len), write_len)
  /\ UNCHANGED <<kind, single, conn, writer, readVars, resp>>

\* poll_write of a grpc stream.  What the capacity lacks is taken off
\* the payload.  With no room for a byte of it the head of an empty message
\* is sent and 0 returned, an error to whoever copies; with less than a head
\* the subtraction of two usize overflows.
MessageWrite(k) ==
  /\ kind = k /\ writer = "open"
  /\ \E n \in Offered : \E write_len \in Capacity(HeadLen + n) :
       IF write_len < HeadLen
       THEN writer' = "panicked" /\ UNCHANGED <<sent, wire, window>>
       ELSE LET written == write_len - HeadLen IN
            /\ Send(encode_head(written) \o Bytes(sent, written), written)
            /\ writer' = IF written = 0 THEN "zero" ELSE writer
  /\ UNCHANGED <<kind, single, conn, readVars, resp>>

GrpcWrite    == MessageWrite("grpc")
ZeroRttWrite == MessageWrite("zero_rtt")

\* shutdown_tx, which only the stream of a SingleClient has.  A oneshot whose
\* sender is dropped ends the wait for it too.
Tell(end) == conn' = IF single = end /\ conn = "up" THEN "told" ELSE conn

\* poll_shutdown, once the source is at its end.
Shutdown ==
  /\ writer = "open" /\ sent = Total
  /\ writer' = "shut" /\ Tell("writer")
  /\ UNCHANGED <<kind, single, sent, wire, window, readVars, resp>>

\* The writing end is dropped: the stream is reset, the frames that were not
\* yet sent are lost.  A panic has dropped it too.
Reset ==
  /\ writer \in {"open", "zero", "panicked"}
  /\ writer' = "reset" /\ Tell("writer")
  /\ \E k \in 0..Len(wire) : wire' = SubSeq(wire, 1, k)
  /\ UNCHANGED <<kind, single, sent, window, readVars, resp>>

-----------------------------------------------------------------------------
(* The connection.                                                         *)

\* The reading end shuts down, or drops, its own direction of the stream.
ReaderTells ==
  /\ single = "reader" /\ conn = "up" /\ Tell("reader")
  /\ UNCHANGED <<kind, single, writeVars, wire, window, readVars, resp>>

\* What is in flight, or waits in the library to be sent, is lost in part or whole.
Lose ==
  /\ conn' = "lost"
  /\ \E k \in 0..Len(wire) : wire' = SubSeq(wire, 1, k)
  /\ UNCHANGED <<kind, single, writeVars, window, readVars, resp>>

\* The task of SingleClient that was told ends, and drops the Connection,
\* though frames may still wait to be sent.
TaskEnds == conn = "told" /\ Lose

\* The transport breaks, at any time.
Break == conn \in {"up", "told"} /\ Lose

-----------------------------------------------------------------------------
(* The reading end.                                                        *)

\* Mutant: nothing is released for a frame that has to be buffered.
ReleaseUnbuffered(frame, r_len) == IF r_len < Len(frame) THEN 0 ELSE Len(frame)

\* What is given back to the window for a frame of which r_len bytes were
\* handed to the reader.
release_capacity(frame, r_len) == IF kind = "h2" THEN r_len ELSE Len(frame)

\* The response arrives: resp_f gives way to recv.  That it may be an error
\* is in Refused.
Respond ==
  /\ ~resp /\ reader = "open"
  /\ resp' = TRUE
  /\ UNCHANGED <<kind, single, conn, writeVars, wire, window, readVars>>

Refused ==
  /\ ~resp /\ reader = "open"
  /\ reader' = "failed"
  /\ UNCHANGED <<kind, single, conn, writeVars, wire, window, buffer, next_data_len, got, resp>>

\* H2Stream::poll_read, on what the last frame left in the buffer.
H2ReadBuffer ==
  /\ kind = "h2" /\ reader = "open" /\ buffer # <<>>
  /\ \E room \in 1..MaxRead : LET r_len == Least(room, Len(buffer)) IN
       /\ got' = got \o SubSeq(buffer, 1, r_len)
       /\ buffer' = DropFirst(buffer, r_len)
  /\ UNCHANGED <<kind, single, conn, writeVars, wire, window, next_data_len, reader, resp>>

\* H2Stream::poll_read, on a new frame.
H2ReadFrame ==
  /\ kind = "h2" /\ reader = "open" /\ buffer = <<>> /\ wire # <<>>
  /\ \E room \in 1..MaxRead : LET r_len == Least(room, Len(Head(wire))) IN
       /\ got' = got \o SubSeq(Head(wire), 1, r_len)
       /\ buffer' = DropFirst(Head(wire), r_len)
       /\ window' = window + release_capacity(Head(wire), r_len)
  /\ wire' = Tail(wire)
  /\ UNCHANGED <<kind, single, conn, writeVars, next_data_len, reader, resp>>

\* The test at the top of the loop of the grpc poll_read.
Deliverable == buffer # <<>> /\ Len(buffer) >= next_data_len

\* try_read_next_len: the head is looked for where the last message ended.
HasHead == next_data_len # 0 \/ Len(buffer) >= HeadLen

\* The grpc poll_read, with a deliverable buffer.  A read of no bytes is the
\* end of the stream to the reader.  Advancing past the end of the buffer
\* panics; a varint that is cut short is an error.
Deliver(k) ==
  /\ kind = k /\ reader = "open" /\ Deliverable
  /\ IF ~HasHead
     THEN reader' = "failed" /\ UNCHANGED <<buffer, next_data_len, got>>
     ELSE \E room \in 1..MaxRead :
            LET body  == IF next_data_len = 0 THEN DropFirst(buffer, HeadLen) ELSE buffer
                len   == IF next_data_len = 0 THEN -buffer[1] - 1 ELSE next_data_len
                r_len == Least(room, Least(Len(body), len))
            IN /\ got' = got \o SubSeq(body, 1, r_len)
               /\ buffer' = DropFirst(body, r_len)
               /\ next_data_len' = len - r_len
               /\ reader' = IF r_len = 0 THEN "eof" ELSE reader
  /\ UNCHANGED <<kind, single, conn, writeVars, wire, window, resp>>

\* The grpc poll_read, with too little in the buffer.
Pull(k) ==
  /\ kind = k /\ reader = "open" /\ resp /\ ~Deliverable /\ wire # <<>>
  /\ buffer' = buffer \o Head(wire)
  /\ window' = window + release_capacity(Head(wire), 0)
  /\ wire' = Tail(wire)
  /\ UNCHANGED <<kind, single, conn, writeVars, next_data_len, got, reader, resp>>

\* The loop of the server's stream, and that of the client's, which waits for
\* the response before it asks for a frame.
GrpcRead    == Deliver("grpc") \/ Pull("grpc")
ZeroRttRead == Deliver("zero_rtt") \/ Pull("zero_rtt")

\* No more frames: the end of the stream, a reset and an error of the
\* connection are all a read of 0 bytes.
ReadEnd ==
  /\ reader = "open" /\ resp /\ wire = <<>>
  /\ writer \in {"shut", "reset"} \/ conn = "lost"
  /\ IF kind = "h2" THEN buffer = <<>> ELSE ~Deliverable
  /\ reader' = "eof"
  /\ UNCHANGED <<kind, single, conn, writeVars, wire, window, buffer, next_data_len, got, resp>>

-----------------------------------------------------------------------------
Write == H2Write \/ GrpcWrite \/ ZeroRttWrite
Read  == H2ReadBuffer \/ H2ReadFrame \/ GrpcRead \/ ZeroRttRead \/ ReadEnd

Next == Write \/ Shutdown \/ Reset \/ ReaderTells \/ TaskEnds \/ Break \/ Respond \/ Refused \/ Read

Spec == Init /\ [][Next]_vars

\* The copying tasks of a relay poll both ends for as long as they are
\* alive; that a writer shuts down or drops its stream, or that the
\* connection stays, is not assumed.
FairSpec == Spec /\ WF_vars(Write) /\ WF_vars(Read) /\ WF_vars(Respond)

-----------------------------------------------------------------------------
(* Properties.                                                             *)

\* Both framings are a byte pipe: whatever the capacities, the frames and the
\* buffers of the reader, poll_read gives the payload in order, none of the
\* heads, and reports the end of the stream early only if the writing end is
\* gone or has reported an error, or the connection is lost, be it through the
\* shutdown that was to end the stream.
Fate == CASE conn = "lost" \/ writer \in {"zero", "panicked", "reset"} -> "lost"
          [] conn # "lost" /\ writer = "shut" -> "ended"
          [] conn # "lost" /\ writer = "open" -> "open"
Pipe == INSTANCE BytePipe WITH fate <- Fate, eof <- (reader = "eof")
PipeSpec == Pipe!Spec

\* While both ends are there, and the connection between them, all that is to be
\* written is read, through any buffers: the window that H2Stream does not give
\* back never closes it, and the grpc readers, whose loop checks for some byte
\* only, never look for a head that has not arrived in full (only a refused
\* request fails the reader).
AllArrives ==
  <>(\/ Len(got) = Total \/ writer \notin {"open", "shut"} \/ conn # "up"
     \/ reader = "failed" /\ ~resp)
=============================================================================
