------------------------------- MODULE Trojan -------------------------------
(***************************************************************************)
(* map::trojan: the messages of the client, the server's handshake, and    *)
(* the Reader that takes datagrams from the stream after it.               *)
(***************************************************************************)
EXTENDS Handshake

CONSTANTS
  PassLen,    \* 56, the length of the hash of a password
  MinLen,     \* 17, what is too short to fall back
  TargetLen   \* MAX_DATAGRAM_SIZE / 2, what Reader reads at a time

ASSUME TrojanAssumption == PassLen \in Nat /\ MinLen \in 0..PassLen /\ TargetLen \in Nat \ {0}

VARIABLES
  rd,   \* Reader: its state, left_data_len, old_ad and buffer
  got   \* the datagrams, or pieces of them, that poll_read_addr has returned

readerVars == <<rd, got>>

CRLF == <<13, 10>>
CMD_UDPASSOCIATE == 3

\* Writer::poll_write_addr
Frame(addr, data) == addr \o <<0, Len(data)>> \o CRLF \o data

\* Client::handshake: at the tail of the chain the first payload of a TCP target
\* goes with the head.
TrojanClient(hex, cmd, addr, payloads, is_tail) ==
  LET head == hex \o CRLF \o <<cmd>> \o addr \o CRLF
      Step(bytes) == [send |-> bytes, want |-> <<>>]
      steps == [i \in DOMAIN payloads |-> Step(payloads[i])]
  IN  IF is_tail /\ cmd = CMD_CONNECT /\ payloads # <<>>
        THEN <<Step(head \o payloads[1])>> \o Tail(steps)
        ELSE <<Step(head)>> \o steps

-----------------------------------------------------------------------------
(* helpers::socks5_bytes_to_addr: the length of the address at b, or 0 *)

AddrLen(b) ==
  IF Len(b) < 7 THEN 0
  ELSE CASE b[1] = 1 -> 7
         [] b[1] = 4 -> IF Len(b) < 19 THEN 0 ELSE 19
         [] b[1] = 3 -> IF Len(b) < 4 + b[2] THEN 0 ELSE 4 + b[2]
         [] OTHER    -> 0

\* What a frame at b is: "short" is an error, and "panic" a read behind the end
\* of b or a length of less than 0.
FrameAt(b) ==
  LET al == AddrLen(b)
      dl == b[al + 1] * 256 + b[al + 2]
      left == Len(b) - (al + 2)
  IN  IF al = 0 THEN [is |-> "bad"]
      ELSE IF left < 0 THEN [is |-> "short"]
      ELSE IF left < 2 THEN [is |-> "panic"]
      ELSE IF left - 2 < dl THEN [is |-> "short"]
      ELSE IF SubSeq(b, al + 3, al + 4) # CRLF THEN [is |-> "bad"]
      ELSE [is |-> "frame", addr |-> Take(b, al), len |-> dl, rest |-> Drop(b, al + 4)]

-----------------------------------------------------------------------------
(* Server::handshake *)

\* The first datagram is handed on as early data, and its target as the target;
\* what was read behind it is cut off.
Udp(addr, user, b) ==
  LET f == FrameAt(b) IN
  IF b = <<>> THEN NewU(addr, <<>>, user)
  ELSE IF f.is = "panic" \/ (f.is = "short" /\ Len(b) < AddrLen(b) + 2) THEN Panicked
  ELSE IF f.is # "frame" THEN Err
  ELSE NewU(f.addr, Take(f.rest, f.len), user)

\* A head of k bytes.  One that is too short falls back with all of the buffer,
\* and one with a wrong hash without it.
HandleHead(b, k) ==
  LET hash == Take(b, PassLen)
      s == SubSeq(b, PassLen + 4, k)
      al == AddrLen(s)
      payload == Drop(s, al + 2)
  IN  IF k < MinLen THEN Err
      ELSE IF k < PassLen + 9 THEN Ebc(b)
      ELSE IF hash \notin ses.users THEN Ebc(SubSeq(b, PassLen + 1, k))
      ELSE IF SubSeq(b, PassLen + 1, PassLen + 2) # CRLF THEN Ebc(SubSeq(b, PassLen + 3, k))
      ELSE IF b[PassLen + 3] \notin {CMD_CONNECT, CMD_UDPASSOCIATE} \/ al = 0 THEN BufErr(s)
      ELSE IF Len(s) < al + 2 THEN BufErr(Drop(s, al))
      ELSE IF SubSeq(s, al + 1, al + 2) # CRLF THEN BufErr(payload)
      ELSE IF b[PassLen + 3] = CMD_CONNECT THEN NewC(Take(s, al), payload, hash)
      ELSE Udp(Take(s, al), hash, payload)

HasCrlf(b, from, to) == \E i \in from..to : i > 1 /\ i < Len(b) /\ SubSeq(b, i, i + 1) = CRLF

\* Mutant: the end of the stream is not looked for.
HeadEndsLate(b, prev, k) == prev + k >= Cap \/ HasCrlf(b, prev + 1, prev + k)

\* It reads until there is a CRLF in what it has just read, no more room, or the end.
HeadEnds(b, prev, k) == k = 0 \/ prev + k >= Cap \/ HasCrlf(b, prev + 1, prev + k)

ReadHead ==
  /\ pc = "trojan"
  /\ LET prev == IF ses.pre # <<>> THEN Len(ses.pre) ELSE n IN
     IF ses.pre # <<>> /\ prev >= MinLen THEN Return(HandleHead(buf, prev)) /\ UNCHANGED <<up, cuts>>
     ELSE \E k \in Takes(up, Len(buf) - prev, ClientClosed) :
       LET b == ReadInto(buf, prev, k)
           last == prev + k
       IN  /\ Consume(k, Len(buf) - prev)
           /\ IF HeadEnds(b, prev, k)
                THEN Return(HandleHead(b, last))
                ELSE buf' = b /\ n' = last /\ UNCHANGED <<pc, res>>
  /\ UNCHANGED <<ses, down, clientVars, loc>>

-----------------------------------------------------------------------------
(* Reader::poll_read_addr, called with a buffer of ses.rbuf bytes *)

Reading(state) == Returned /\ res.c = "udp" /\ ses.server = "trojan" /\ rd.state = state

\* The end of the stream is a BrokenPipe, with which cp_addr ends; so it does when
\* the Reader panics.
ReadEnds == rd' = [rd EXCEPT !.state = "over", !.buf = <<>>] /\ UNCHANGED got

\* What is not a frame is an error of kind Other.  cp_addr goes on, and the next read
\* is looked at as if it began with a frame, or, with left_data_len, with the rest
\* of a datagram.
ReadFails == rd' = [rd EXCEPT !.state = "Base", !.buf = <<>>] /\ UNCHANGED got

ReadBase ==
  /\ Reading("Base")
  /\ \E k \in Takes(up, TargetLen, ClientClosed) :
       /\ Consume(k, TargetLen)
       /\ IF k = 0 THEN ReadEnds
          ELSE /\ rd' = [rd EXCEPT !.state = IF rd.left > 0 THEN "LeftBuf" ELSE "Buf", !.buf = Take(up, k)]
               /\ UNCHANGED got
  /\ UNCHANGED <<ses, down, clientVars, pc, buf, n, loc, res>>

Least(S) == CHOOSE x \in S : \A y \in S : x <= y

\* Mutant: the rest of a datagram goes to the target of the datagram before it.
AfterCopyForgets(buffer, data_len, base_left, left_on_buf, ad) ==
  LET bl == Len(buffer)
      rl == ses.rbuf
      k == Least({bl, rl, data_len})
      next == IF bl < rl /\ bl < data_len THEN <<"Base", base_left>>
              ELSE IF rl < bl /\ rl < data_len THEN <<"LeftBuf", data_len - rl>>
              ELSE IF data_len < bl /\ data_len < rl THEN <<"Buf", left_on_buf>>
              ELSE <<"Base", 0>>
  IN  /\ rd' = [state |-> next[1], left |-> next[2], buf |-> Drop(buffer, k),
                old |-> rd.old]
      /\ got' = Append(got, [to |-> ad, data |-> Take(buffer, k)])

\* Both states copy the least of the three lengths, and choose the next state by
\* the same comparisons; they differ in what they set left_data_len to.
AfterCopy(buffer, data_len, base_left, left_on_buf, ad) ==
  LET bl == Len(buffer)
      rl == ses.rbuf
      k == Least({bl, rl, data_len})
      next == IF bl < rl /\ bl < data_len THEN <<"Base", base_left>>
              ELSE IF rl < bl /\ rl < data_len THEN <<"LeftBuf", data_len - rl>>
              ELSE IF data_len < bl /\ data_len < rl THEN <<"Buf", left_on_buf>>
              ELSE <<"Base", 0>>
  IN  /\ rd' = [state |-> next[1], left |-> next[2], buf |-> Drop(buffer, k),
                old |-> IF next[1] = "LeftBuf" THEN ad ELSE rd.old]
      /\ got' = Append(got, [to |-> ad, data |-> Take(buffer, k)])

ReadBuf ==
  /\ Reading("Buf")
  /\ LET f == FrameAt(rd.buf) IN
     CASE f.is = "panic" -> ReadEnds
       [] f.is \in {"bad", "short"} -> ReadFails
       [] f.is = "frame" -> AfterCopy(f.rest, f.len, f.len - ses.rbuf, rd.left, f.addr)
  /\ UNCHANGED <<ses, cuts, wireVars, clientVars, pc, buf, n, loc, res>>

ReadLeftBuf ==
  /\ Reading("LeftBuf")
  /\ AfterCopy(rd.buf, rd.left, rd.left, rd.left, rd.old)
  /\ UNCHANGED <<ses, cuts, wireVars, clientVars, pc, buf, n, loc, res>>

\* Writer::poll_write_addr where the stream takes a part of the frame: the rest is
\* gone.  It panics if that is more than the data.
ShortWrite ==
  /\ cuts < MaxCuts /\ cuts' = cuts + 1
  /\ client = "open" /\ ~cwait
  /\ ses.server = "trojan" /\ ses.rbuf > 0
  /\ cstep \in 2..Len(Script)
  /\ LET f == Script[cstep].send
         datalen == f[AddrLen(f) + 1] * 256 + f[AddrLen(f) + 2]
     IN  \E k \in 1..Len(f) - 1 :
           /\ up' = up \o Take(f, k)
           /\ client' = IF Len(f) - k > datalen THEN "failed" ELSE client
  /\ cstep' = cstep + 1
  /\ UNCHANGED <<ses, down, cwait, pc, buf, n, loc, res>>

TrojanInit == rd = [state |-> "Base", left |-> 0, old |-> NoAddr, buf |-> <<>>] /\ got = <<>>

HandshakeServer == ReadHead /\ UNCHANGED readerVars
TrojanClientStep == ShortWrite /\ UNCHANGED readerVars
ReaderStep == ReadBase \/ ReadBuf \/ ReadLeftBuf
=============================================================================
