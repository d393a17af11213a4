----------------------------- MODULE Handshake -----------------------------
(***************************************************************************)
(* What the protocol maps of an inbound chain have in common: a client, a  *)
(* byte stream to the server and back, the buffer that the map reads into  *)
(* and the MapResult it returns.  A client follows a script of messages    *)
(* and the replies it waits for; the maps' own clients have theirs in the  *)
(* modules of their protocols.  A byte is a number; where a protocol does  *)
(* not look into a word of its text, the word is one number too.           *)
(*                                                                         *)
(* A read returns all there is room for, or a part of what was sent, as    *)
(* TCP may: MaxCuts times at most.                                         *)
(***************************************************************************)
EXTENDS Integers, Sequences, FiniteSets

CONSTANTS
  Sessions,  \* what may meet: a server's configuration and a client's script
  Cap,       \* size of the buffer of a handshake
  MaxCuts    \* bound: how often less arrives than was sent

ASSUME CapAssumption == Cap \in Nat \ {0} /\ MaxCuts \in Nat

VARIABLES
  ses,       \* the session: its server, users, udp, pre and script (see below)
  cuts,      \* how often less has arrived than was sent
  up, down,  \* bytes on their way to the server and back
  client,    \* "open", "failed" (its handshake returned Err) or "gone"
  cstep,     \* the step of its script the client is at
  cwait,     \* whether it waits for the reply of that step
  pc,        \* where the map stands
  buf,       \* its buffer
  n,         \* how much of the buffer was read
  loc,       \* further locals of the socks5 handshake
  res        \* the MapResult

wireVars   == <<up, down>>
clientVars == <<client, cstep, cwait>>
vars == <<ses, cuts, wireVars, clientVars, pc, buf, n, loc, res>>

CMD_CONNECT == 1  \* in socks5 and in trojan
NoUser == <<>>
NoAddr == <<>>
Zeros(k) == [i \in 1..k |-> 0]
Drop(s, k) == SubSeq(s, k + 1, Len(s))
Take(s, k) == SubSeq(s, 1, k)

NoLoc == [i |-> 0, last |-> 0, seen |-> {}, remain |-> 0, user |-> NoUser, addr |-> NoAddr]

-----------------------------------------------------------------------------
(* Results: MapResult and its constructors.  `c' says what stream it has. *)

Result(e, a, b, c, d) == [e |-> e, a |-> a, b |-> b, c |-> c, d |-> d]
NoRes         == Result("none", NoAddr, <<>>, "none", NoUser)
Ebc(b)        == Result("err", NoAddr, b, "conn", NoUser)
BufErr(b)     == Result("err", NoAddr, b, "none", NoUser)
Err           == BufErr(<<>>)
Panicked      == Result("panic", NoAddr, <<>>, "none", NoUser)
NewC(a, b, d) == Result("ok", a, b, "conn", d)
NewU(a, b, d) == Result("ok", a, b, "udp", d)

\* relay::handle_in_fold_result takes an error with a stream to a fallback.
IsFallback(r) == r.e = "err" /\ r.c = "conn"

Returned == pc = "done"

\* socks5http gives what socks5 could not use to the http proxy, with all that
\* was read; everything else is the result.
Return(r) ==
  IF ses.server = "socks5http" /\ pc \notin {"http", "given"} /\ r.e = "err" /\ r.b # <<>>
    THEN /\ pc' = "given" /\ buf' = r.b /\ n' = Len(r.b)
         /\ UNCHANGED res
    ELSE pc' = "done" /\ res' = r /\ UNCHANGED <<buf, n>>

-----------------------------------------------------------------------------
(* Reading *)

ClientClosed == client # "open"

\* How many bytes a read of at most `cap' takes from a stream.
Most(stream, cap) == IF Len(stream) < cap THEN Len(stream) ELSE cap
Takes(stream, cap, ended) ==
  LET most == Most(stream, cap)
  IN  IF cap = 0 \/ (stream = <<>> /\ ended) THEN {0}
      ELSE IF cuts < MaxCuts THEN 1..most ELSE {most} \ {0}

Cut(k, stream, cap) == cuts' = cuts + (IF k < Most(stream, cap) THEN 1 ELSE 0)

\* The server has read k bytes.
Consume(k, cap) == up' = Drop(up, k) /\ Cut(k, up, cap)

\* base.read(&mut buf[from..]): k bytes, and the buffer after it.
ReadInto(b, from, k) == SubSeq(b, 1, from) \o Take(up, k) \o Drop(b, from + k)

\* An await that fails (`?'): the stream is reset.
IoError ==
  /\ pc \notin {"done", "early"}
  /\ ClientClosed
  /\ pc' = "done" /\ res' = Err
  /\ UNCHANGED <<ses, cuts, wireVars, clientVars, buf, n, loc>>

-----------------------------------------------------------------------------
(* The client *)

Script == ses.script

\* base.write_all of the next message.
ClientSend ==
  /\ client = "open" /\ ~cwait
  /\ cstep <= Len(Script)
  /\ up' = up \o Script[cstep].send
  /\ IF Script[cstep].want = <<>> THEN cstep' = cstep + 1 /\ UNCHANGED cwait
                                  ELSE cwait' = TRUE /\ UNCHANGED cstep
  /\ UNCHANGED <<ses, cuts, down, client, pc, buf, n, loc, res>>

\* The server's stream is at its end for the client.
ServerClosed == Returned /\ res.c = "none"

\* One read, which has to return the reply and nothing else.
ClientRead ==
  /\ client = "open" /\ cwait
  /\ \E k \in Takes(down, Cap, ServerClosed) :
       /\ down' = Drop(down, k) /\ Cut(k, down, Cap)
       /\ IF Take(down, k) = Script[cstep].want
            THEN cwait' = FALSE /\ cstep' = cstep + 1 /\ UNCHANGED client
            ELSE client' = "failed" /\ UNCHANGED <<cwait, cstep>>
  /\ UNCHANGED <<ses, up, pc, buf, n, loc, res>>

ClientLeaves ==
  /\ client = "open"
  /\ client' = "gone"
  /\ UNCHANGED <<ses, cuts, wireVars, cstep, cwait, pc, buf, n, loc, res>>

-----------------------------------------------------------------------------
Init ==
  /\ ses \in Sessions
  /\ cuts = 0
  /\ up = <<>> /\ down = <<>>
  /\ client = "open" /\ cstep = 1 /\ cwait = FALSE
  /\ pc = ses.server
  /\ buf = IF ses.pre = <<>> THEN Zeros(Cap) ELSE ses.pre
  /\ n = 0
  /\ loc = NoLoc
  /\ res = NoRes
=============================================================================
