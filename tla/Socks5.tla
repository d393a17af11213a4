------------------------------- MODULE Socks5 -------------------------------
(***************************************************************************)
(* map::socks5: the script of the client, and the server's handshake with  *)
(* the UDP association.  The server handles a message where it has been    *)
(* read; its replies are short and are not held up.  Indices are those of  *)
(* the code plus one.                                                      *)
(***************************************************************************)
EXTENDS Handshake

VERSION5 == 5
AUTH_NONE == 0
AUTH_PASSWORD == 2
AUTH_NO_ACCEPTABLE == 255
CMD_UDP_ASSOCIATE == 3
ATYP_IP4 == 1
ATYP_DOMAIN == 3
ATYP_IP6 == 4
REPLY == <<VERSION5, 0, 0, ATYP_IP4, 0, 0, 0, 0, 0, 0>>  \* with a port in udp2

\* Client::handshake for a TCP target; up_ is a user and a password, or NoUser.
Socks5Client(up_, addr, payload) ==
  LET method == IF up_ = NoUser THEN AUTH_NONE ELSE AUTH_PASSWORD
      hello == [send |-> <<VERSION5, 1, method>>, want |-> <<VERSION5, method>>]
      auth == [send |-> <<1, Len(up_[1])>> \o up_[1] \o <<Len(up_[2])>> \o up_[2],
               want |-> <<1, 0>>]
      connect == [send |-> <<VERSION5, CMD_CONNECT, 0>> \o addr, want |-> REPLY]
  IN  <<hello>> \o (IF up_ = NoUser THEN <<>> ELSE <<auth>>)
      \o <<connect, [send |-> payload, want |-> <<>>]>>

-----------------------------------------------------------------------------
(* Server::handshake: the hello *)

Fail(r) == Return(r) /\ UNCHANGED <<down, loc>>

\* No method was accepted.  The reply is put together in the buffer, over what
\* the fallback will see.
NotAuthed(b, k) ==
  /\ down' = down \o <<VERSION5, AUTH_NO_ACCEPTABLE>>
  /\ Return(Ebc(Take([b EXCEPT ![1] = VERSION5, ![2] = AUTH_NO_ACCEPTABLE], k)))
  /\ UNCHANGED loc

\* Mutant: all of the buffer is handed to the fallback.
HelloUntruncated(b, k) ==
  IF k < 3 THEN Fail(Err)
  ELSE IF b[1] # VERSION5 THEN Fail(Ebc(b))
  ELSE IF b[2] = 0 \/ k < 2 + b[2] THEN NotAuthed(b, k)
  ELSE /\ pc' = "methods" /\ buf' = b /\ n' = k
       /\ loc' = [NoLoc EXCEPT !.i = 3, !.last = 2 + b[2], !.remain = k - (2 + b[2])]
       /\ UNCHANGED <<down, res>>

Hello(b, k) ==
  IF k < 3 THEN Fail(Err)
  ELSE IF b[1] # VERSION5 THEN Fail(Ebc(Take(b, k)))
  ELSE IF b[2] = 0 \/ k < 2 + b[2] THEN NotAuthed(b, k)
  ELSE /\ pc' = "methods" /\ buf' = b /\ n' = k
       /\ loc' = [NoLoc EXCEPT !.i = 3, !.last = 2 + b[2], !.remain = k - (2 + b[2])]
       /\ UNCHANGED <<down, res>>

\* pre_read_data takes the place of the first read, and its buffer that of ours.
ReadHello ==
  /\ pc \in {"socks5", "socks5http"}
  /\ IF ses.pre # <<>> THEN Hello(buf, Len(buf)) /\ UNCHANGED <<up, cuts>>
     ELSE \E k \in Takes(up, Len(buf), ClientClosed) :
            Hello(ReadInto(buf, 0, k), k) /\ Consume(k, Len(buf))
  /\ UNCHANGED <<ses, clientVars>>

-----------------------------------------------------------------------------
(* The loop over the methods *)

\* Mutant: a client may do without a password where there are users.
UsableNone(m) == m \in {AUTH_NONE, AUTH_PASSWORD} /\ (m = AUTH_PASSWORD => ses.users # {})

Usable(m) == m \in {AUTH_NONE, AUTH_PASSWORD} /\ (m = AUTH_PASSWORD <=> ses.users # {})

NextMethod(seen) == loc' = [loc EXCEPT !.i = @ + 1, !.seen = seen]

\* Mutant: the command is as long as the buffer.
ToCommandAll(b, k, remain, user) ==
  /\ pc' = "command"
  /\ buf' = IF remain > 0 THEN Drop(b, k - remain) ELSE b
  /\ n' = IF remain > 0 THEN Len(b) - (k - remain) ELSE 0
  /\ loc' = [loc EXCEPT !.user = user]
  /\ UNCHANGED res

ToCommand(b, k, remain, user) ==
  /\ pc' = "command"
  /\ buf' = IF remain > 0 THEN Drop(b, k - remain) ELSE b
  /\ n' = remain
  /\ loc' = [loc EXCEPT !.user = user]
  /\ UNCHANGED res

Method ==
  /\ pc = "methods"
  /\ LET m == buf[loc.i]
         replied == [buf EXCEPT ![1] = VERSION5, ![2] = m]
     IN
     \/ /\ loc.i > loc.last \/ m \in loc.seen
        /\ NotAuthed(buf, n)
     \/ /\ loc.i <= loc.last
        /\ m \notin loc.seen /\ ~Usable(m)
        /\ NextMethod(loc.seen \cup ({m} \cap {AUTH_NONE, AUTH_PASSWORD}))
        /\ UNCHANGED <<down, pc, buf, n, res>>
     \/ /\ loc.i <= loc.last /\ m \notin loc.seen /\ Usable(m)
        /\ m = AUTH_NONE
        /\ down' = down \o <<VERSION5, AUTH_NONE>>
        /\ ToCommand(replied, n, loc.remain, NoUser)
     \/ /\ loc.i <= loc.last /\ m \notin loc.seen /\ Usable(m)
        /\ m = AUTH_PASSWORD
        /\ down' = down \o <<VERSION5, AUTH_PASSWORD>>
        /\ pc' = IF n = loc.last THEN "read_auth" ELSE "auth"
        /\ buf' = replied
        /\ loc' = [loc EXCEPT !.seen = @ \cup {m}]
        /\ UNCHANGED <<n, res>>
  /\ UNCHANGED <<ses, cuts, up, clientVars>>

\* auth_bs is what follows the first method, if anything does, or a new message.
\* The lengths in it are compared with n; where that lets them point behind
\* auth_bs the slices panic.
Auth(b, k, auth_bs, remain) ==
  LET ul == auth_bs[2]
      pl == auth_bs[3 + ul]
      auth_bs_len == 3 + ul + pl
      this_up == <<SubSeq(auth_bs, 3, 2 + ul), SubSeq(auth_bs, 4 + ul, auth_bs_len)>>
      Continue == /\ NextMethod(loc.seen) /\ pc' = "methods" /\ buf' = b /\ n' = k
                  /\ UNCHANGED <<down, res>>
  IN  IF Len(auth_bs) < 2 THEN Fail(Panicked)
      ELSE IF Len(auth_bs) < 5 \/ auth_bs[1] # 1 \/ ul = 0 \/ ul + 2 > k THEN Continue
      ELSE IF Len(auth_bs) < 3 + ul THEN Fail(Panicked)
      ELSE IF ul + 2 + pl > k THEN Continue
      ELSE IF Len(auth_bs) < auth_bs_len \/ remain < auth_bs_len THEN Fail(Panicked)
      ELSE IF this_up \in ses.users
        THEN /\ down' = down \o <<1, 0>>
             /\ ToCommand(b, k, remain - auth_bs_len, this_up)
        ELSE /\ down' = down \o <<1, 1>>
             /\ Return(Ebc(Take(b, k)))
             /\ UNCHANGED loc

ReadAuth ==
  /\ \/ /\ pc = "auth"
        /\ Auth(buf, n, SubSeq(buf, 4, n), loc.remain)
        /\ UNCHANGED <<up, cuts>>
     \/ /\ pc = "read_auth"
        /\ \E k \in Takes(up, Len(buf), ClientClosed) :
             /\ Auth(ReadInto(buf, 0, k), k, Take(up, k), k)
             /\ Consume(k, Len(buf))
  /\ UNCHANGED <<ses, clientVars>>

-----------------------------------------------------------------------------
(* The command *)

\* Mutant: the port is one byte.
AddrEndShort(b) == CASE b[4] = ATYP_IP4    -> 10
                     [] b[4] = ATYP_IP6    -> 22
                     [] b[4] = ATYP_DOMAIN -> 6 + b[5]
                     [] OTHER              -> 0

\* Where the address ends; 0 for an unknown type.
AddrEnd(b) == CASE b[4] = ATYP_IP4    -> 10
                [] b[4] = ATYP_IP6    -> 22
                [] b[4] = ATYP_DOMAIN -> 7 + b[5]
                [] OTHER              -> 0

\* Mutant: the buffer holds an address, though it has not been read.
WholeBuffer(b, k, end) == Len(b) >= end

Whole(b, k, end) == k >= end

Command(b, k) ==
  LET end == AddrEnd(b)
      addr == SubSeq(b, 4, end)
      rest == SubSeq(b, end + 1, k)
      GoOn(at) == /\ down' = down \o REPLY
                  /\ pc' = at /\ buf' = Zeros(Len(b) - end) /\ n' = 0
                  /\ loc' = [loc EXCEPT !.addr = addr]
                  /\ UNCHANGED res
  IN  IF k < 7 \/ b[1] # VERSION5 \/ b[2] \notin {CMD_CONNECT, CMD_UDP_ASSOCIATE} \/ end = 0
        THEN Fail(Ebc(Take(b, k)))
      ELSE IF Len(b) < end - 2 THEN Fail(Panicked)
      ELSE IF ~Whole(b, k, end) THEN Fail(Ebc(Take(b, k)))
      ELSE IF b[2] = CMD_CONNECT /\ rest = <<>> THEN GoOn("early")
      ELSE IF b[2] = CMD_CONNECT THEN
        down' = down \o REPLY /\ Return(NewC(addr, rest, loc.user)) /\ UNCHANGED loc
      ELSE IF ses.udp THEN GoOn("associate")
      ELSE Fail(Ebc(rest))

ReadCommand ==
  /\ pc = "command"
  /\ IF n > 0 THEN Command(buf, n) /\ UNCHANGED <<up, cuts>>
     ELSE \E k \in Takes(up, Len(buf), ClientClosed) :
            Command(ReadInto(buf, 0, k), k) /\ Consume(k, Len(buf))
  /\ UNCHANGED <<ses, clientVars>>

\* The early data is read for 100ms into a buffer that was resized to all of its
\* capacity.
ReadEarly ==
  /\ pc = "early"
  /\ \E k \in Takes(up, Len(buf), ClientClosed) :
       /\ Return(NewC(loc.addr, Take(up, k), loc.user))
       /\ Consume(k, Len(buf))
  /\ UNCHANGED <<ses, down, clientVars, loc>>

\* When the time is over, or the read fails, it has that size still.
NoEarly ==
  /\ pc = "early"
  /\ \/ (up = <<>> \/ ClientClosed) /\ UNCHANGED cuts
     \/ up # <<>> /\ cuts < MaxCuts /\ cuts' = cuts + 1
  /\ Return(NewC(loc.addr, buf, loc.user))
  /\ UNCHANGED <<ses, wireVars, clientVars, loc>>

-----------------------------------------------------------------------------
(* udp2::udp_associate: the first datagram, for which it waits 15 seconds *)

Unspecified(addr) == SubSeq(addr, 2, 5) = Zeros(4)
Host(addr) == SubSeq(addr, 1, Len(addr) - 2)

\* `base' is dropped with the result.
FirstDatagram(dg) ==
  /\ pc = "associate"
  /\ Return(IF loc.addr[1] = ATYP_DOMAIN THEN Panicked
            ELSE IF ~Unspecified(loc.addr) /\ Host(dg.from) # Host(loc.addr) THEN Err
            ELSE IF dg.to = NoAddr THEN Err
            ELSE NewU(dg.to, dg.data, loc.user))
  /\ loc' = IF Unspecified(loc.addr) THEN [loc EXCEPT !.addr = dg.from] ELSE loc
  /\ UNCHANGED <<ses, cuts, wireVars, clientVars>>

NoDatagram ==
  /\ pc = "associate"
  /\ Return(Err)
  /\ UNCHANGED <<ses, cuts, wireVars, clientVars, loc>>

Socks5Next ==
  \/ ReadHello \/ Method \/ ReadAuth \/ ReadCommand \/ ReadEarly \/ NoEarly
  \/ \E dg \in ses.dgrams : FirstDatagram(dg)
  \/ NoDatagram
=============================================================================
