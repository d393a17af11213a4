------------------------------- MODULE MuxConn -------------------------------
(***************************************************************************)
(* Streams over one connection: rucimp's h2 MuxClient, with and without    *)
(* grpc, and its quic clients (quinn, s2n-quic), whose dials share a cache *)
(* of the connection behind a mutex that is held over every await; and the *)
(* h2 and quic servers, which hand the streams of each connection to the   *)
(* fold.  h2 is dialled as resource/local_mux_h2.lua does.                 *)
(*                                                                         *)
(* A connection is its number.  A stream is the dial that opened it.  The  *)
(* transport, TLS and the frames are left out.                             *)
(***************************************************************************)
EXTENDS Integers, Sequences, FiniteSets

CONSTANTS
  Kinds,    \* of "h2", "grpc" and "quic", those the run has
  Dials,
  Watched,    \* dials the liveness properties speak of: they are interchangeable
  MaxConns,   \* connections that may be made (a bound)
  Wrongs,     \* sets of dials that may have a request that does not match
  MaxCancels, \* bound: dials that time out
  Credit,     \* streams that a connection of quic may have open at once
  None

ASSUME DialsAssumption == IsFiniteSet(Dials) /\ Watched \subseteq Dials /\ None \notin Dials \cup Nat
ASSUME BoundsAssumption == MaxConns \in Nat /\ MaxCancels \in Nat /\ Credit \in Nat

VARIABLES
  kind,     \* of the client and the server
  wrong,    \* dials whose request the server's http_config does not match
  made,     \* H2_out of the script is set
  pc,       \* of a dial
  own,      \* the dial brings a connection of its own
  holder,   \* the dial that holds the mutex
  cache,    \* the cached connection
  real,     \* of a dial: the connection it has in its hands
  on,       \* of a dial: the connection its stream is of
  gone,     \* streams that the client has reset or ended
  cancels,  \* dials that have timed out
  made_conns, \* how many connections there have been
  alive,    \* those the network has not broken
  serving,  \* of a connection: none, accept, send or over
  no,       \* of a connection: its number in a CID
  next_no,  \* a_next_cid
  count,    \* of a connection: streams it has given an id
  pend,     \* of a connection: streams the server has not accepted
  answered, \* dials that wait for a response and have it, of either status
  cid,      \* of a stream: the CID it goes on with
  giving,   \* of a connection: the stream in tx.send
  sink      \* the receiver of the streams is there

clientVars == <<pc, own, holder, cache, real, made>>
serverVars == <<serving, no, next_no, count, answered, cid, giving, sink>>
streamVars == <<on, gone, pend>>
vars == <<kind, wrong, clientVars, cancels, made_conns, alive, streamVars, serverVars>>

Conns == 1..MaxConns

Init ==
  /\ kind \in Kinds
  /\ wrong \in IF kind = "quic" THEN {{}} ELSE Wrongs
  /\ made = FALSE
  /\ pc = [d \in Dials |-> "wait"] /\ own = [d \in Dials |-> FALSE]
  /\ holder = None /\ cache = None /\ real = [d \in Dials |-> None]
  /\ cancels = 0 /\ made_conns = 0 /\ alive = {}
  /\ serving = [c \in Conns |-> "none"] /\ no = [c \in Conns |-> 0] /\ next_no = 1
  /\ on = [d \in Dials |-> None] /\ gone = {}
  /\ count = [c \in Conns |-> 0] /\ pend = [c \in Conns |-> <<>>]
  /\ answered = {} /\ cid = [d \in Dials |-> <<>>] /\ giving = [c \in Conns |-> None]
  /\ sink = TRUE

\* A server whose loop is over has dropped the connection.
Usable(c) == c \in alive /\ serving[c] # "over"

\* A stream that the servers of cs have not accepted.
Pending(d, cs) == \E c \in cs : \E i \in DOMAIN pend[c] : pend[c][i] = d

Goto(d, s) == pc' = [pc EXCEPT ![d] = s]
KeepServer == UNCHANGED <<kind, wrong, cancels, serverVars>>

-----------------------------------------------------------------------------
(* A dial *)

\* A dial waits for the mutex, or is yet to come.  The script: the first goes
\* through a connection of its own, as do those that come before that one has
\* got to h2.
Begin(d) ==
  /\ pc[d] = "wait" /\ kind # "quic" /\ ~made
  /\ Goto(d, "dialing")
  /\ UNCHANGED <<own, holder, cache, real, made, made_conns, alive, streamVars>> /\ KeepServer

Dialed(d) ==
  /\ pc[d] = "dialing"
  /\ Goto(d, "wait") /\ own' = [own EXCEPT ![d] = TRUE] /\ made' = TRUE
  /\ UNCHANGED <<holder, cache, real, made_conns, alive, streamVars>> /\ KeepServer

\* What the dial itself has to go through fails, and ends the fold.
DialErr(d) ==
  /\ pc[d] = "dialing"
  /\ Goto(d, "failed")
  /\ UNCHANGED <<own, holder, cache, real, made, made_conns, alive, streamVars>> /\ KeepServer

\* An early return drops the guard, and what the dial has in its hands.
Fail(d) ==
  /\ Goto(d, "failed") /\ real' = [real EXCEPT ![d] = None] /\ own' = [own EXCEPT ![d] = FALSE]
  /\ holder' = IF holder = d THEN None ELSE holder

\* What the locked cache says to this dial: bail, connect, or open a stream.
Waits(d) == pc[d] = "wait" /\ (kind = "quic" \/ made)
Refused(d) == kind # "quic" /\ own[d] = (cache # None)

\* Mutant: the mutex is let go over the awaits.
LockShort(d) ==
  /\ Waits(d) /\ ~Refused(d)
  /\ Goto(d, IF cache = None THEN "connect" ELSE "open")
  /\ real' = [real EXCEPT ![d] = cache] /\ cache' = None
  /\ UNCHANGED <<own, holder, made, made_conns, alive, streamVars>> /\ KeepServer

Lock(d) ==
  /\ Waits(d) /\ holder = None /\ ~Refused(d)
  /\ holder' = d
  /\ Goto(d, IF cache = None THEN "connect" ELSE "open")
  /\ real' = [real EXCEPT ![d] = cache] /\ cache' = None
  /\ UNCHANGED <<own, made, made_conns, alive, streamVars>> /\ KeepServer

\* "can't handshake multiple times", "h2 not established yet"
LockBail(d) ==
  /\ Waits(d) /\ holder = None /\ Refused(d)
  /\ Fail(d)
  /\ UNCHANGED <<cache, made, made_conns, alive, streamVars>> /\ KeepServer

Connected(d) ==
  /\ pc[d] = "connect" /\ made_conns < MaxConns
  /\ made_conns' = made_conns + 1 /\ alive' = alive \cup {made_conns'}
  /\ real' = [real EXCEPT ![d] = made_conns']
  /\ Goto(d, "open")
  /\ UNCHANGED <<own, holder, cache, made, streamVars>> /\ KeepServer

ConnectErr(d) ==
  /\ pc[d] = "connect"
  /\ Fail(d)
  /\ UNCHANGED <<cache, made, made_conns, alive, streamVars>> /\ KeepServer

PutBack(d) == cache' = real[d] /\ real' = [real EXCEPT ![d] = None]

Succeed(d) ==
  /\ Goto(d, "ok") /\ PutBack(d) /\ own' = [own EXCEPT ![d] = FALSE]
  /\ holder' = IF holder = d THEN None ELSE holder

\* A stream of quic counts until it has been accepted and has ended.
OpenOn(c) == {d \in Dials : on[d] = c /\ (d \notin gone \/ cid[d] = <<>>)}
HasCredit(c) == kind = "quic" => Cardinality(OpenOn(c)) < Credit

\* open_bi, which waits for the server to let it have one more stream; or
\* send_request, and without grpc the response is waited for.
Open(d) ==
  /\ pc[d] = "open" /\ Usable(real[d]) /\ HasCredit(real[d])
  /\ pend' = [pend EXCEPT ![real[d]] = Append(@, d)]
  /\ on' = [on EXCEPT ![d] = real[d]] /\ gone' = gone
  /\ IF kind = "h2" THEN Goto(d, "resp") /\ UNCHANGED <<cache, real, holder, own>> ELSE Succeed(d)
  /\ UNCHANGED <<made, made_conns, alive>> /\ KeepServer

\* Any status will do.
Response(d) ==
  /\ pc[d] = "resp" /\ d \in answered
  /\ Succeed(d)
  /\ UNCHANGED <<made, made_conns, alive, streamVars>> /\ KeepServer

\* h2 drops the connection that fails, quic puts it back.
OpenErr(d) ==
  /\ pc[d] \in {"open", "resp"} /\ ~Usable(real[d])
  /\ IF kind = "quic" THEN cache' = real[d] ELSE UNCHANGED cache
  /\ Fail(d)
  /\ UNCHANGED <<made, made_conns, alive, streamVars>> /\ KeepServer

\* The outbound fold's timeout drops the dial wherever it is.
Cancel(d) ==
  /\ pc[d] \notin {"ok", "failed"} /\ cancels < MaxCancels
  /\ Fail(d) /\ cancels' = cancels + 1
  /\ UNCHANGED <<kind, wrong, cache, made, made_conns, alive, streamVars, serverVars>>

-----------------------------------------------------------------------------
(* The network, and the owners of the streams *)

\* Who has a stream is done with it, or has timed out waiting for its response.  Of
\* h2 that resets it, which matters as long as the server has not accepted it.
StreamEnds(d) ==
  /\ pc[d] \in {"ok", "failed"} /\ on[d] \in alive /\ d \notin gone
  /\ (cid[d] # <<>>) = (kind = "quic") /\ (kind # "quic" => Pending(d, {on[d]}))
  /\ gone' = gone \cup {d}
  /\ UNCHANGED <<kind, wrong, clientVars, cancels, made_conns, alive, on, pend, serverVars>>

Die(c) ==
  /\ c \in alive
  /\ alive' = alive \ {c}
  /\ UNCHANGED <<kind, wrong, clientVars, cancels, made_conns, streamVars, serverVars>>

-----------------------------------------------------------------------------
(* The server *)

Asking == {d \in Dials : pc[d] = "resp"}
KeepClient == UNCHANGED <<kind, wrong, clientVars, cancels, made_conns, on, gone>>

\* Mutant: all connections of a quic server go by one number.
NewConnOneNo(c) ==
  /\ c <= made_conns /\ serving[c] = "none"
  /\ serving' = [serving EXCEPT ![c] = "accept"]
  /\ no' = [no EXCEPT ![c] = next_no]
  /\ KeepClient /\ UNCHANGED <<alive, pend, next_no, count, answered, cid, giving, sink>>

\* A connection gets its number from a_next_cid, or the inbound of h2 has one
\* for it in the same way; quinn awaits them side by side.
NewConn(c) ==
  /\ c <= made_conns /\ serving[c] = "none"
  /\ serving' = [serving EXCEPT ![c] = "accept"]
  /\ no' = [no EXCEPT ![c] = next_no] /\ next_no' = next_no + 1
  /\ KeepClient /\ UNCHANGED <<alive, pend, count, answered, cid, giving, sink>>

\* Mutant: a request that does not match ends the loop of its connection.
RefuseBreaks(c) ==
  /\ serving[c] = "accept" /\ c \in alive /\ pend[c] # <<>> /\ Head(pend[c]) \in wrong
  /\ answered' = answered \cup ({Head(pend[c])} \cap Asking)
  /\ pend' = [pend EXCEPT ![c] = Tail(@)]
  /\ serving' = [serving EXCEPT ![c] = "over"]
  /\ KeepClient /\ UNCHANGED <<alive, no, next_no, count, cid, giving, sink>>

\* Mutant: a request that does not match is not answered.
RefuseSilent(c) ==
  /\ serving[c] = "accept" /\ c \in alive /\ pend[c] # <<>> /\ Head(pend[c]) \in wrong
  /\ pend' = [pend EXCEPT ![c] = Tail(@)]
  /\ KeepClient /\ UNCHANGED <<alive, serving, no, next_no, count, answered, cid, giving, sink>>

\* BAD_REQUEST, and on with the next.
Refuse(c) ==
  /\ serving[c] = "accept" /\ c \in alive /\ pend[c] # <<>> /\ Head(pend[c]) \in wrong
  /\ answered' = answered \cup ({Head(pend[c])} \cap Asking)
  /\ pend' = [pend EXCEPT ![c] = Tail(@)]
  /\ KeepClient /\ UNCHANGED <<alive, serving, no, next_no, count, cid, giving, sink>>

\* A stream is answered and gets its id: of h2 its own, of quic a count.
Accept(c) ==
  /\ serving[c] = "accept" /\ c \in alive /\ pend[c] # <<>> /\ Head(pend[c]) \notin wrong \cup gone
  /\ LET d == Head(pend[c])
     IN  /\ answered' = answered \cup ({d} \cap Asking)
         /\ giving' = [giving EXCEPT ![c] = d]
         /\ cid' = [cid EXCEPT ![d] = <<no[c], IF kind = "quic" THEN count[c] + 1 ELSE d>>]
  /\ count' = [count EXCEPT ![c] = @ + 1]
  /\ pend' = [pend EXCEPT ![c] = Tail(@)]
  /\ serving' = [serving EXCEPT ![c] = "send"]
  /\ KeepClient /\ UNCHANGED <<alive, no, next_no, sink>>

\* send_response fails on a stream that the client has reset, and the loop ends: with
\* it the connection, and all that it has not accepted.
AcceptErr(c) ==
  /\ serving[c] = "accept" /\ c \in alive /\ pend[c] # <<>> /\ Head(pend[c]) \in gone \ wrong
  /\ serving' = [serving EXCEPT ![c] = "over"]
  /\ KeepClient /\ UNCHANGED <<alive, pend, no, next_no, count, answered, cid, giving, sink>>

Give(c) ==
  /\ serving[c] = "send" /\ sink
  /\ serving' = [serving EXCEPT ![c] = "accept"] /\ giving' = [giving EXCEPT ![c] = None]
  /\ KeepClient /\ UNCHANGED <<alive, pend, no, next_no, count, answered, cid, sink>>

\* The loop ends, and drops the connection: nobody takes its streams, or it is
\* closed.
Over(c) ==
  /\ \/ serving[c] = "send" /\ ~sink
     \/ serving[c] = "accept" /\ c \notin alive
  /\ serving' = [serving EXCEPT ![c] = "over"] /\ giving' = [giving EXCEPT ![c] = None]
  /\ KeepClient /\ UNCHANGED <<alive, pend, no, next_no, count, answered, cid, sink>>

SinkGone ==
  /\ sink /\ sink' = FALSE
  /\ KeepClient /\ UNCHANGED <<alive, pend, serving, no, next_no, count, answered, cid, giving>>

-----------------------------------------------------------------------------
Dialing(d) == Begin(d) \/ Dialed(d) \/ DialErr(d) \/ Lock(d) \/ LockBail(d) \/ Connected(d) \/ ConnectErr(d)
              \/ Open(d) \/ Response(d) \/ OpenErr(d)
Server(c) == NewConn(c) \/ Refuse(c) \/ Accept(c) \/ AcceptErr(c) \/ Give(c) \/ Over(c)

Next == \/ \E d \in Dials : Dialing(d) \/ Cancel(d) \/ StreamEnds(d)
        \/ \E c \in Conns : Die(c) \/ Server(c)
        \/ SinkGone

\* All the dials come; tokio runs what is ready, and its mutex is fair;
\* connecting ends.  Nothing rests on the timeout, nor on the end of a
\* connection or a stream.
Fairness == /\ \A d \in Dials : SF_vars(Dialing(d))
            /\ \A c \in Conns : WF_vars(Server(c))

Spec == Init /\ [][Next]_vars /\ Fairness

-----------------------------------------------------------------------------
(* Properties *)

\* No two streams that go on to be relayed have one CID, of however many
\* connections and however their accepts interleave.
SubCidsDistinct ==
  \A d, e \in Dials : d # e /\ cid[d] # <<>> => cid[d] # cid[e]

\* Dials in parallel never lose the connection that is cached or in the hands
\* of one of them: only a dial that fails with it in its hands does.
ConnectionKept ==
  [][\A c \in Conns :
       (cache = c \/ \E d \in Dials : real[d] = c)
         => \/ cache' = c \/ \E d \in Dials : real'[d] = c
            \/ \E d \in Dials : real[d] = c /\ pc'[d] = "failed"]_vars

\* A dial never waits for ever, though it waits with the mutex for a server
\* that refuses it, waits for others, or is gone: unless the dial that has the
\* mutex waits, with it, for a stream that the server never lets it have.
DialsEnd ==
  \A d \in Watched :
    \/ <>(pc[d] \in {"ok", "failed"})
    \/ <>[](\E e \in Dials : holder = e /\ pc[e] = "open" /\ ~HasCredit(real[e]))

\* A stream whose request matches is handed on, whatever the others of its
\* connection asked for, unless the network breaks that, nobody takes streams,
\* or a stream at or ahead of it was reset before the server has accepted it.
GoodStreamsServed ==
  \A d \in Watched :
    d \notin wrong /\ Pending(d, Conns) ~>
      \/ cid[d] # <<>> \/ Pending(d, Conns \ alive) \/ ~sink
      \/ \E c \in Conns : \E i, j \in DOMAIN pend[c] :
           j <= i /\ pend[c][i] = d /\ pend[c][j] \in gone \ wrong
=============================================================================
