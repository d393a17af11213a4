------------------------------ MODULE Inbound ------------------------------
(***************************************************************************)
(* The protocol maps of an inbound with their clients, and what comes      *)
(* after: the choice of an outbound by what the map has returned, and the  *)
(* datagrams of trojan that follow its handshake on the same stream.       *)
(*                                                                         *)
(* A session says who meets:                                               *)
(*   server      "socks5", "http", "socks5http", "filter" or "trojan"      *)
(*   users       its users: pairs of names, or hashes; {} is None          *)
(*   udp, only_connect, only_path  further configuration                   *)
(*   pre         what the map before has read already                      *)
(*   earlier     the users that maps before have left in their data        *)
(*   speaks      the protocol of the client                                *)
(*   script      its messages and the replies it waits for                 *)
(*   who         the user it authenticates as, ta the target it asks for   *)
(*   payload     what it sends after its handshake                         *)
(*   valid       its handshake is one the server supports, and allows      *)
(*   dgrams      first datagrams that may come to a socks5 association     *)
(*   rbuf        the buffer poll_read_addr is called with                  *)
(***************************************************************************)
EXTENDS Socks5, HttpProxy, Trojan, Route, SequencesExt

CONSTANT Selectors  \* what the engine may be configured with

\* What the server has been sent when its client has sent k messages: what the map
\* before it has read, and they.
SentBy(s, k) == FlattenSeq([i \in 1..k |-> s.script[i].send])
Stream(s, k) == s.pre \o SentBy(s, k)

\* t holds, behind its first d bytes, the message of socks5 that names u; or is
\* the beginning of a trojan stream with its hash.
NamesAt(t, d, u) ==
  /\ d + 3 + Len(u[1]) + Len(u[2]) <= Len(t)
  /\ SubSeq(t, d + 1, d + 3 + Len(u[1]) + Len(u[2])) = <<1, Len(u[1])>> \o u[1] \o <<Len(u[2])>> \o u[2]
Says(s, t, u) ==
  IF s.server = "trojan" THEN Len(t) >= PassLen /\ Take(t, PassLen) = u
  ELSE \E d \in 0..Len(t) : NamesAt(t, d, u)

\* Where a command of socks5 may begin in t: behind the methods of the greeting, or as
\* far behind them as a name and a password are long that come there, or behind the
\* first method (see Auth).
MethodsEnd(t) == 2 + t[2]
NameLen(a) == 3 + a[2] + a[3 + a[2]]
IsName(a) == Len(a) >= 2 /\ a[1] = 1 /\ Len(a) >= 3 + a[2] /\ Len(a) >= NameLen(a)
CommandAt(t, d) ==
  /\ Len(t) >= 3 /\ Len(t) >= MethodsEnd(t)
  /\ \/ d = MethodsEnd(t)
     \/ \E e \in {3, MethodsEnd(t)} : IsName(Drop(t, e)) /\ d = MethodsEnd(t) + NameLen(Drop(t, e))

\* The length of an address, in both protocols; 0 for an unknown type.
AddrSize(a) == CASE a[1] = ATYP_IP4    -> 7
                 [] a[1] = ATYP_IP6    -> 19
                 [] a[1] = ATYP_DOMAIN -> 4 + a[2]
                 [] OTHER              -> 0

\* Where a message of a handshake may begin in what s sends.
Begins(s, t, d) ==
  \/ d = 0 \/ d = Len(s.pre)
  \/ CommandAt(t, d)
  \/ \E c \in 0..Len(t) - 7 : LET size == AddrSize(Drop(t, c + 3)) IN
       CommandAt(t, c) /\ t[c + 2] = CMD_UDP_ASSOCIATE /\ size # 0 /\ d = c + 3 + size

\* Behind its first i elements t holds the address, up to the j-th, of a connection that
\* is asked for: in the head of trojan, or in a command of socks5.
Asks(s, t, i, j) ==
  /\ i + 4 <= Len(t)
  /\ IF s.server = "trojan" THEN i = PassLen + 3 /\ t[i] = CMD_CONNECT
     ELSE i >= 3 /\ CommandAt(t, i - 3) /\ t[i - 2] = VERSION5 /\ t[i - 1] = CMD_CONNECT
  /\ AddrSize(Drop(t, i)) # 0 /\ j = i + AddrSize(Drop(t, i))
EndOf(s, j) == IF s.server = "trojan" THEN j + 2 ELSE j

Servers == {"socks5", "http", "socks5http", "filter", "trojan"}

\* A filter has no users.  A client knows the password of no other user than itself; and trojan's sends
\* its hash and the command in one piece, with the head.
ASSUME SessionsAssumption == \A s \in Sessions :
  /\ s.server \in Servers
  /\ s.pre \in Seq(Nat) /\ s.rbuf \in Nat
  /\ s.script \in Seq([send : Seq(Nat), want : Seq(Nat)])
  /\ NoUser \notin s.users /\ (s.server = "filter" => s.users = {})
  /\ \A u \in s.users : \A k \in 0..Len(s.script) : Says(s, Stream(s, k), u) => u = s.who
  /\ s.server = "trojan" /\ s.rbuf > 0 => s.script # <<>> /\ Len(Stream(s, 1)) >= PassLen + 3

\* A client that does not speak http asks for one connection, if any, and sends its payload
\* behind it: anything that does not begin with a zero.  It has no method of http where
\* a message begins, and trojan's, if it sends datagrams, asks for no connection.
ASSUME RequestsAssumption == \A s \in Sessions : s.speaks # "http" =>
  /\ s.payload \in Seq(Nat) /\ (s.payload # <<>> => s.payload[1] # 0)
  /\ \A k \in 0..Len(s.script) : LET t == Stream(s, k) IN
       /\ s.server # "trojan" => \A d \in 0..Len(t) - 1 : Begins(s, t, d) => t[d + 1] \notin {GET, CONNECT}
       /\ s.server = "trojan" /\ s.rbuf > 0 /\ Len(t) >= PassLen + 3 => t[PassLen + 3] # CMD_CONNECT
       /\ \A i, j \in 0..Len(t) : Asks(s, t, i, j) =>
            /\ SubSeq(t, i + 1, j) = s.ta
            /\ EndOf(s, j) <= Len(t) => IsPrefix(Drop(t, EndOf(s, j)), s.payload)

\* Only rules and infos that name lists of users of reserved_for lead to the outbound
\* reserved.
Leads(s, tag) == tag \in DOMAIN s.outbounds_map /\ s.outbounds_map[tag] = s.reserved
Reserves(s) ==
  CASE s.kind = "fixed" -> s.reserved \notin {s.default, NoOut}
    [] s.kind = "tag"   -> /\ s.reserved \notin {s.ok_default, s.fb_default}
                           /\ \A tag \in DOMAIN s.outbounds_map : ~Leads(s, tag)
    [] s.kind = "info"  -> /\ s.reserved \notin {s.ok_default, s.fb_default}
                           /\ DOMAIN s.outbounds_ruleset_vec \subseteq Nat
                           /\ \A i \in DOMAIN s.outbounds_ruleset_vec :
                                Leads(s, s.outbounds_ruleset_vec[i].out_tag) =>
                                  \A info \in s.outbounds_ruleset_vec[i].infos :
                                    \E us \in s.reserved_for : info.users = Some(us)
    [] s.kind = "rules" -> /\ s.reserved # s.default
                           /\ DOMAIN s.outbounds_rules_vec \subseteq Nat
                           /\ \A i \in DOMAIN s.outbounds_rules_vec :
                                LET rs == s.outbounds_rules_vec[i] IN
                                Leads(s, rs.out_tag) =>
                                  /\ rs.mode = "WhiteList"
                                  /\ \E userset \in SUBSET s.reserved_for : rs.userset = Some(userset)
    [] OTHER            -> FALSE
ASSUME SelectorsAssumption == \A s \in Selectors : Reserves(s)

VARIABLE out  \* the choice of an outbound: <<>>, or the selector and what it gave

allVars == <<vars, readerVars, out>>

\* The data of all maps of the chain, in their order: the last server's user comes last.
DataWith(d) == IF d = NoUser THEN ses.earlier ELSE Append(ses.earlier, d)

\* Addr::default(): tcp://0.0.0.0:0
DefaultAddr == <<ATYP_IP4, 0, 0, 0, 0, 0, 0>>

\* What the rules look at of an address: its network, its kind, and its ip and the
\* country of that.  The urls and authorities of http are names.
AddrInfo(network, a) ==
  IF Len(a) < 7 \/ a[1] = ATYP_DOMAIN
    THEN [network |-> network, kind |-> "name", ip |-> 0, country |-> 0]
    ELSE [network |-> network, kind |-> IF a[1] = ATYP_IP4 THEN "v4" ELSE "v6", ip |-> a[2], country |-> a[2]]

\* handle_in_fold_result, as far as the choice of an outbound.  Without a target, as in
\* a fallback, it is chosen for the default address.
InfoOf(r) ==
  [is_fallback |-> IsFallback(r),
   in_tag |-> ses.server,
   users |-> UsersOf(DataWith(r.d)),
   addr |-> IF r.a = NoAddr THEN AddrInfo("tcp", DefaultAddr)
            ELSE AddrInfo(IF r.c = "udp" THEN "udp" ELSE "tcp", r.a)]

RouteResult ==
  /\ Returned /\ out = <<>>
  /\ res.c # "none"
  /\ \E s \in Selectors : out' = <<s, Select(s, InfoOf(res))>>
  /\ UNCHANGED <<vars, readerVars>>

ServerStep == ((Socks5Next \/ HttpNext) /\ UNCHANGED readerVars) \/ HandshakeServer
ClientStep == (ClientSend \/ ClientRead \/ ClientLeaves) /\ UNCHANGED readerVars

Next ==
  \/ /\ \/ ServerStep \/ ReaderStep
        \/ ClientStep \/ TrojanClientStep
        \/ IoError /\ UNCHANGED readerVars
     /\ UNCHANGED out
  \/ RouteResult

InboundInit == Init /\ TrojanInit /\ out = <<>>

\* The task of the server goes on, and the timers run out.
Spec == InboundInit /\ [][Next]_allVars
FairSpec == Spec /\ WF_allVars((ServerStep \/ ReaderStep) /\ UNCHANGED out) /\ WF_allVars(RouteResult)

-----------------------------------------------------------------------------
Ok == Returned /\ res.e = "ok"
Authenticates == ses.server \in {"socks5", "http", "socks5http", "trojan"}

\* A server with users lets nobody through but a client that has sent the name and the
\* password of one of them, and says which: in whatever pieces, order and number of
\* methods the messages come, and after socks5 has handed the client to the http proxy.
AuthBeforeTarget ==
  Ok /\ Authenticates /\ ses.users # {} => res.d = ses.who /\ res.d \in ses.users

\* The target is the one the client has asked for, although the address is parsed in a
\* buffer that still holds what was read before.  (An http request line that is cut has
\* the empty name as its target.)
TargetExact == Ok /\ ses.speaks # "http" /\ res.c = "conn" => res.a = ses.ta

Sent == SentBy(ses, IF cwait THEN cstep ELSE cstep - 1)

\* What the copies of the relay find: the early data and then the stream.  Where the
\* early data of socks5 has not come in time, its buffer of zeros goes first.
ZerosOnly(b) == b # <<>> /\ b = Zeros(Len(b))
Handed == (IF ZerosOnly(res.b) THEN <<>> ELSE res.b) \o up

\* What was sent after the handshake is handed on: nothing of it is taken for the
\* handshake, nothing of the handshake for it.  (The http proxy loses the request line's
\* length of a request, and what follows a CONNECT at once.)
PayloadWhole ==
  Ok /\ res.c = "conn" /\ ses.speaks # "http" => IsPrefix(Handed, ses.payload)

\* What the server's comment promises: the data that it reads for 100ms after the
\* handshake, which is what it hands on as early data, is the client's.
EarlyDataWasSent == Ok /\ ses.server = "socks5" /\ res.c = "conn" => IsPrefix(res.b, ses.payload)

\* A client that was not sent a reply can be given to any server instead: all it has
\* sent goes to the fallback.  (trojan keeps the hash, and adds its empty buffer.)
Silent == down = <<>> /\ client # "failed" /\ \A i \in 1..cstep - 1 : Script[i].want = <<>>
FallbackWhole ==
  Returned /\ IsFallback(res) /\ Silent /\ ses.server # "trojan"
    /\ (ses.server = "filter" => ses.pre = <<>>) =>
    res.b \o up = ses.pre \o Sent

\* A client of the protocol that is not cut short is served, whether it waits for the
\* replies or has sent all at once.  (The http proxy refuses every user.)
WholeMessagesServed ==
  cuts = 0 /\ ses.valid /\ ses.pre = <<>> /\ client = "open" /\ Returned =>
    \/ res.e = "ok" /\ (res.c = "conn" => res.a = ses.ta)
    \/ loc.addr # NoAddr /\ ses.dgrams # {}

\* An outbound that is reserved for some lists of users is only taken by connections of
\* a client that has proved to be exactly the users of one of the lists, in their order:
\* those of the maps before, then that of the last server if this has users and let the
\* client through.  A list of two users is so not met by a client that fails at the
\* last server, nor a list of one by a client that has proved to be another as well;
\* and the default address of what has no target leads there no more than a target.
ReservedRoute ==
  out # <<>> /\ out[2] = out[1].reserved =>
    DataWith(IF Ok /\ ses.users # {} THEN ses.who ELSE NoUser) \in out[1].reserved_for

-----------------------------------------------------------------------------
(* The datagrams of trojan *)

Datagrams == IF res.b = <<>> THEN got ELSE <<[to |-> res.a, data |-> res.b]>> \o got
Delivered == FlattenSeq([i \in DOMAIN Datagrams |-> Datagrams[i].data])

\* A piece that fills the caller's buffer and is the last of its datagram: the Reader
\* does not see that it has more, and the frames it has read behind it are gone.
FillsUp(p) ==
  /\ Len(p.data) = ses.rbuf
  /\ \E d \in ses.sent : d.to = p.to /\ d.data[Len(d.data)] = p.data[Len(p.data)]

\* As long as no read cuts a frame, what is delivered are the datagrams in their order,
\* each to its own target; one longer than the caller's buffer in pieces.  None is
\* skipped but what was read along with the head, or with a datagram whose end just
\* fills the caller's buffer.
DatagramsIntact ==
  Ok /\ res.c = "udp" /\ ses.server = "trojan" /\ cuts = 0 =>
    /\ \A i \in DOMAIN Datagrams : \E d \in ses.sent :
         d.to = Datagrams[i].to /\ \E j, k \in 1..Len(d.data) : SubSeq(d.data, j, k) = Datagrams[i].data
    /\ \A i \in 1..Len(Delivered) - 1 : Delivered[i] < Delivered[i + 1]
    /\ \A i \in 1..Len(got) - 1 : FillsUp(got[i]) \/ got[i + 1].data[1] = got[i].data[Len(got[i].data)] + 1

\* Once the client has left, the handshake comes to an end.
HandshakeEnds == ClientClosed ~> Returned
=============================================================================
