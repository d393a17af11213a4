---------------------------- MODULE MuxConnProofs ----------------------------
(* What holds of a MuxConn for any set of dials and any number of connections. *)
EXTENDS MuxConn, TLAPS

-----------------------------------------------------------------------------
(* The variables that ids are made of *)

\* Serving, pend and cid hold what they seem to, and the counters count.
IdTypes ==
  /\ pend \in [Conns -> Seq(Dials)]
  /\ serving \in [Conns -> {"none", "accept", "send", "over"}]
  /\ no \in [Conns -> Nat] /\ next_no \in Nat
  /\ count \in [Conns -> Nat]
  /\ DOMAIN cid = Dials

Served(c) == serving[c] # "none"

\* The numbers of the connections are below the counter, and no two are equal.
NumbersDistinct ==
  \A c \in Conns : Served(c) =>
    /\ no[c] < next_no
    /\ \A e \in Conns : Served(e) /\ no[e] = no[c] => e = c

\* An id that was given comes from a connection with its number, and from quic's
\* count or is h2's own.
Issued(d, c) ==
  /\ Served(c)
  /\ \E x \in Nat \cup Dials :
       /\ cid[d] = <<no[c], x>>
       /\ IF kind = "quic" THEN x \in Nat /\ x <= count[c] ELSE x = d

IdsIssued == \A d \in Dials : cid[d] # <<>> => \E c \in Conns : Issued(d, c)

\* SubCidsDistinct alone says nothing of the counters the next id is made of.
IdInv == IdTypes /\ NumbersDistinct /\ IdsIssued /\ SubCidsDistinct

idVars == <<kind, serving, no, next_no, count, cid>>

-----------------------------------------------------------------------------
LEMMA IdInit == Init => IdInv
  BY DEF Init, IdInv, IdTypes, NumbersDistinct, Served, IdsIssued, SubCidsDistinct

\* What leaves the counters and the ids alone keeps the invariant, as long as
\* the requests that wait are those of dials.
LEMMA IdsStay ==
  ASSUME IdInv, UNCHANGED idVars, pend' \in [Conns -> Seq(Dials)]
  PROVE  IdInv'
<1>1. IdTypes'
  BY DEF IdInv, IdTypes, idVars
<1>2. NumbersDistinct' /\ IdsIssued' /\ SubCidsDistinct'
  BY DEF IdInv, idVars, NumbersDistinct, IdsIssued, Issued, Served, SubCidsDistinct
<1>3. QED
  BY <1>1, <1>2 DEF IdInv

\* A loop that goes from one wait to another.
LEMMA ServingMoves ==
  ASSUME IdInv, NEW c \in Conns, Served(c), NEW s \in {"accept", "send", "over"},
         serving' = [serving EXCEPT ![c] = s],
         UNCHANGED <<kind, no, next_no, count, cid, pend>>
  PROVE  IdInv'
<1>1. IdTypes'
  BY DEF IdInv, IdTypes
<1>2. \A e \in Conns : Served(e)' <=> Served(e)
  BY DEF IdInv, IdTypes, Served
<1>3. NumbersDistinct'
  BY <1>2 DEF IdInv, NumbersDistinct
<1>4. IdsIssued'
  <2>1. \A d \in Dials, e \in Conns : Issued(d, e) => Issued(d, e)'
    BY <1>2 DEF Issued
  <2>2. QED
    BY <2>1 DEF IdInv, IdsIssued
<1>5. SubCidsDistinct'
  BY DEF IdInv, SubCidsDistinct
<1>6. QED
  BY <1>1, <1>3, <1>4, <1>5 DEF IdInv

LEMMA NewConnStep ==
  ASSUME IdInv, NEW c \in Conns, NewConn(c)
  PROVE  IdInv'
<1> USE DEF IdInv
<1>1. IdTypes'
  BY DEF IdTypes, NewConn, KeepClient
<1>2. \A e \in Conns : Served(e)' <=> Served(e) \/ e = c
  BY DEF IdTypes, NewConn, Served
<1>3. \A e \in Conns : no'[e] = IF e = c THEN next_no ELSE no[e]
  BY DEF IdTypes, NewConn
<1>4. next_no \in Nat /\ next_no' = next_no + 1
  BY DEF IdTypes, NewConn
<1>5. NumbersDistinct'
  <2> SUFFICES ASSUME NEW a \in Conns, Served(a)'
               PROVE  /\ no'[a] < next_no'
                      /\ \A e \in Conns : Served(e)' /\ no'[e] = no'[a] => e = a
    BY DEF NumbersDistinct
  <2>1. \A e \in Conns : Served(e) => no[e] < next_no /\ no[e] \in Nat
    BY DEF NumbersDistinct, IdTypes
  <2>2. CASE a = c
    BY <2>1, <2>2, <1>2, <1>3, <1>4
  <2>3. CASE a # c
    <3>1. Served(a) /\ no'[a] = no[a]
      BY <2>3, <1>2, <1>3
    <3>2. \A e \in Conns : Served(e) /\ no[e] = no[a] => e = a
      BY <3>1 DEF NumbersDistinct
    <3>3. QED
      BY <2>1, <3>1, <3>2, <1>2, <1>3, <1>4
  <2>4. QED
    BY <2>2, <2>3
<1>6. IdsIssued'
  <2>1. UNCHANGED <<kind, cid, count>> /\ ~Served(c)
    BY DEF NewConn, KeepClient, clientVars, Served
  <2>2. ASSUME NEW d \in Dials, NEW e \in Conns, Issued(d, e) PROVE Issued(d, e)'
    BY <2>1, <2>2, <1>2, <1>3 DEF Issued
  <2>3. QED
    BY <2>1, <2>2 DEF IdsIssued
<1>7. SubCidsDistinct'
  BY DEF NewConn, SubCidsDistinct
<1>8. QED
  BY <1>1, <1>5, <1>6, <1>7

LEMMA HeadTail ==
  ASSUME NEW c \in Conns, pend \in [Conns -> Seq(Dials)], pend[c] # <<>>
  PROVE  Head(pend[c]) \in Dials /\ [pend EXCEPT ![c] = Tail(@)] \in [Conns -> Seq(Dials)]
  OBVIOUS

\* The id that is given is new: another of the same connection has a lower count, and
\* those of other connections have other numbers; h2's differ of themselves.
LEMMA AcceptStep ==
  ASSUME IdInv, NEW c \in Conns, Accept(c)
  PROVE  IdInv'
<1> USE DEF IdInv
<1>1. Head(pend[c]) \in Dials /\ pend' \in [Conns -> Seq(Dials)] /\ count[c] \in Nat
  BY HeadTail DEF Accept, IdTypes
<1>d. PICK d \in Dials : d = Head(pend[c])
  BY <1>1
<1>x. PICK x \in Nat \cup Dials : x = IF kind = "quic" THEN count[c] + 1 ELSE d
  <2>1. CASE kind = "quic"
    BY <2>1, <1>1
  <2>2. CASE kind # "quic"
    BY <2>2
  <2>3. QED
    BY <2>1, <2>2
<1>2. IdTypes'
  BY <1>1 DEF IdTypes, Accept, KeepClient
<1>3. UNCHANGED <<kind, no, next_no>> /\ Served(c) /\ count[c] \in Nat
  BY DEF Accept, KeepClient, clientVars, Served, IdTypes
<1>4. \A e \in Conns : Served(e)' <=> Served(e)
  BY <1>3 DEF IdTypes, Accept, Served
<1>5. \A e \in Conns : count'[e] = IF e = c THEN count[c] + 1 ELSE count[e]
  BY DEF IdTypes, Accept
<1>6. \A e \in Dials : cid'[e] = IF e = d THEN <<no[c], x>> ELSE cid[e]
  BY <1>d, <1>x DEF IdTypes, Accept
<1>7. NumbersDistinct'
  BY <1>3, <1>4 DEF NumbersDistinct
<1>8. IdsIssued'
  <2>1. Issued(d, c)'
    BY <1>x, <1>3, <1>4, <1>5, <1>6 DEF Issued
  <2>2. ASSUME NEW e \in Dials, e # d, NEW b \in Conns, Issued(e, b) PROVE Issued(e, b)'
    <3>1. PICK y \in Nat \cup Dials :
            /\ cid[e] = <<no[b], y>>
            /\ IF kind = "quic" THEN y \in Nat /\ y <= count[b] ELSE y = e
      BY <2>2 DEF Issued
    <3>2. cid'[e] = <<no'[b], y>> /\ (kind = "quic" => y <= count'[b])
      <4>1. count[b] \in Nat
        BY DEF IdTypes
      <4>2. QED
        BY <2>2, <3>1, <4>1, <1>3, <1>5, <1>6
    <3>3. QED
      BY <2>2, <3>1, <3>2, <1>3, <1>4 DEF Issued
  <2>3. QED
    BY <2>1, <2>2, <1>1, <1>6 DEF IdsIssued
<1>9. SubCidsDistinct'
  <2>1. ASSUME NEW e \in Dials, e # d, cid[e] # <<>> PROVE cid[e] # <<no[c], x>>
    <3>1. PICK b \in Conns : Issued(e, b)
      BY <2>1 DEF IdsIssued
    <3>2. PICK y \in Nat \cup Dials :
            /\ cid[e] = <<no[b], y>>
            /\ IF kind = "quic" THEN y \in Nat /\ y <= count[b] ELSE y = e
      BY <3>1 DEF Issued
    <3>3. CASE no[b] # no[c]
      BY <3>2, <3>3
    <3>4. CASE no[b] = no[c]
      <4>1. b = c
        BY <3>1, <3>4, <1>3 DEF Issued, NumbersDistinct
      <4>2. y # x
        BY <1>x, <2>1, <3>2, <4>1, <1>3
      <4>3. QED
        BY <3>2, <4>2
    <3>5. QED
      BY <3>3, <3>4
  <2>2. QED
    BY <2>1, <1>1, <1>6 DEF SubCidsDistinct
<1>10. QED
  BY <1>2, <1>7, <1>8, <1>9

LEMMA IdNext == IdInv /\ [Next]_vars => IdInv'
<1> SUFFICES ASSUME IdInv, [Next]_vars PROVE IdInv'
  OBVIOUS
<1> USE DEF KeepServer, KeepClient, serverVars, streamVars, clientVars, idVars
<1>t. pend \in [Conns -> Seq(Dials)] /\ DOMAIN serving = Conns
  BY DEF IdInv, IdTypes
<1>1. ASSUME NEW d \in Dials, Open(d) PROVE IdInv'
  <2>1. pend' \in [Conns -> Seq(Dials)]
    <3>1. pend' = [pend EXCEPT ![real[d]] = Append(@, d)]
      BY <1>1 DEF Open
    <3>2. CASE real[d] \in Conns
      BY <3>1, <3>2, <1>t
    <3>3. CASE real[d] \notin Conns
      BY <3>1, <3>3, <1>t
    <3>4. QED
      BY <3>2, <3>3
  <2>2. UNCHANGED idVars
    BY <1>1 DEF Open
  <2>3. QED
    BY <2>1, <2>2, IdsStay
<1>2. ASSUME NEW d \in Dials, Dialing(d) \/ Cancel(d), ~Open(d) PROVE IdInv'
  <2>1. UNCHANGED <<pend, idVars>>
    BY <1>2 DEF Dialing, Begin, Dialed, DialErr, Lock, LockBail, Connected, ConnectErr, Response, OpenErr, Cancel
  <2>2. QED
    BY <2>1, <1>t, IdsStay
<1>3. ASSUME NEW c \in Conns, Die(c) PROVE IdInv'
  BY <1>3, <1>t, IdsStay DEF Die
<1>4. ASSUME NEW c \in Conns, NewConn(c) PROVE IdInv'
  BY <1>4, NewConnStep
<1>5. ASSUME NEW c \in Conns, Refuse(c) PROVE IdInv'
  <2>1. pend' \in [Conns -> Seq(Dials)]
    BY <1>5, <1>t, HeadTail DEF Refuse
  <2>2. UNCHANGED idVars
    BY <1>5 DEF Refuse
  <2>3. QED
    BY <2>1, <2>2, IdsStay
<1>6. ASSUME NEW c \in Conns, Accept(c) PROVE IdInv'
  BY <1>6, AcceptStep
<1>7. ASSUME NEW c \in Conns, Give(c) PROVE IdInv'
  BY <1>7, ServingMoves DEF Give, Served
<1>8. ASSUME NEW c \in Conns, Over(c) PROVE IdInv'
  BY <1>8, ServingMoves DEF Over, Served
<1>9. ASSUME NEW c \in Conns, AcceptErr(c) PROVE IdInv'
  BY <1>9, ServingMoves DEF AcceptErr, Served
<1>10. ASSUME NEW d \in Dials, StreamEnds(d) PROVE IdInv'
  BY <1>10, <1>t, IdsStay DEF StreamEnds
<1>11. CASE SinkGone
  BY <1>11, <1>t, IdsStay DEF SinkGone
<1>12. CASE UNCHANGED vars
  BY <1>12, <1>t, IdsStay DEF vars
<1>13. QED
  BY <1>1, <1>2, <1>3, <1>4, <1>5, <1>6, <1>7, <1>8, <1>9, <1>10, <1>11, <1>12 DEF Next, Server

\* However many connections there are and however their accept loops, their dials
\* and their ends interleave, no two streams of the servers of h2 and quic go on to
\* be folded and relayed with one id.
THEOREM CidsCorrect == Spec => []SubCidsDistinct
<1>1. IdInv => SubCidsDistinct
  BY DEF IdInv
<1>2. QED
  BY <1>1, IdInit, IdNext, PTL DEF Spec

-----------------------------------------------------------------------------
(* The connection and the mutex *)

Holding == {"connect", "open", "resp"}

\* Who is past the lock holds it, and the cache is empty as long; nobody else
\* has a connection in its hands, nor has one that is still to connect.
HandInv ==
  /\ pc \in [Dials -> {"wait", "dialing", "ok", "failed"} \cup Holding]
  /\ real \in [Dials -> Conns \cup {None}]
  /\ made_conns \in Nat
  /\ \A d \in Dials : /\ pc[d] \in Holding => holder = d /\ cache = None
                      /\ pc[d] \notin {"open", "resp"} => real[d] = None
  /\ cache \in Conns \cup {None}

handVars == <<pc, holder, cache, real, made_conns>>

LEMMA HandInit == Init => HandInv
  BY DEF Init, HandInv, Holding

\* A dial that returns gives the mutex back.
LEMMA HandReturns ==
  ASSUME HandInv, NEW d \in Dials, NEW s \in {"ok", "failed"}, Goto(d, s),
         real' = [real EXCEPT ![d] = None], holder' = IF holder = d THEN None ELSE holder,
         cache' \in Conns \cup {None}, cache' = cache \/ pc[d] \in Holding, made_conns' = made_conns
  PROVE  HandInv'
<1>1. \A e \in Dials : e # d => pc'[e] = pc[e] /\ real'[e] = real[e]
  BY DEF HandInv, Goto
<1>2. pc'[d] = s /\ real'[d] = None
  BY DEF HandInv, Goto
<1>3. ASSUME NEW e \in Dials, pc'[e] \in Holding PROVE holder' = e /\ cache' = None
  <2>1. e # d /\ pc[e] \in Holding
    BY <1>1, <1>2, <1>3 DEF Holding
  <2>2. holder = e /\ cache = None
    BY <2>1 DEF HandInv
  <2>3. pc[d] \notin Holding
    BY <2>1, <2>2 DEF HandInv
  <2>4. QED
    BY <2>1, <2>2, <2>3
<1>4. ASSUME NEW e \in Dials, pc'[e] \notin {"open", "resp"} PROVE real'[e] = None
  BY <1>1, <1>2, <1>4 DEF HandInv
<1>5. QED
  BY <1>3, <1>4 DEF HandInv, Goto, Holding

LEMMA HandDials ==
  ASSUME HandInv, NEW d \in Dials, Dialing(d) \/ Cancel(d)
  PROVE  HandInv'
<1>1. CASE Begin(d) \/ Dialed(d)
  BY <1>1 DEF Begin, Dialed, Goto, HandInv, Holding
<1>d. CASE DialErr(d)
  BY <1>d DEF DialErr, Goto, HandInv, Holding
<1>2. CASE Lock(d)
  <2>1. /\ pc[d] = "wait" /\ holder = None /\ holder' = d /\ cache' = None /\ made_conns' = made_conns
        /\ real' = [real EXCEPT ![d] = cache]
        /\ pc' = [pc EXCEPT ![d] = IF cache = None THEN "connect" ELSE "open"]
    BY <1>2 DEF Lock, Waits, Goto
  <2>2. \A e \in Dials : pc[e] \notin Holding
    BY <2>1, DialsAssumption DEF HandInv
  <2>3. QED
    BY <2>1, <2>2 DEF HandInv, Holding
<1>3. CASE Connected(d)
  <2>1. /\ pc[d] = "connect" /\ made_conns' = made_conns + 1 /\ made_conns < MaxConns
        /\ real' = [real EXCEPT ![d] = made_conns + 1] /\ pc' = [pc EXCEPT ![d] = "open"]
        /\ UNCHANGED <<holder, cache>>
    BY <1>3 DEF Connected, Goto
  <2>2. made_conns' \in Nat /\ made_conns + 1 \in Conns
    BY <2>1, BoundsAssumption DEF HandInv, Conns
  <2>3. QED
    BY <2>1, <2>2 DEF HandInv, Holding
<1>4. CASE LockBail(d) \/ ConnectErr(d) \/ Cancel(d)
  <2>1. Fail(d) /\ UNCHANGED <<cache, made_conns>>
    BY <1>4 DEF LockBail, ConnectErr, Cancel
  <2>2. cache' \in Conns \cup {None}
    BY <2>1 DEF HandInv
  <2>3. QED
    BY <2>1, <2>2, HandReturns DEF Fail
<1>5. ASSUME pc[d] \in {"open", "resp"}, Succeed(d), made_conns' = made_conns PROVE HandInv'
  BY <1>5, HandReturns DEF Succeed, PutBack, HandInv, Holding
<1>6. CASE Open(d)
  <2>1. CASE kind = "h2"
    BY <1>6, <2>1 DEF Open, Goto, HandInv, Holding
  <2>2. CASE kind # "h2"
    BY <1>5, <1>6, <2>2 DEF Open
  <2>3. QED
    BY <2>1, <2>2
<1>7. CASE Response(d)
  BY <1>5, <1>7 DEF Response
<1>8. CASE OpenErr(d)
  <2>1. /\ pc[d] \in Holding /\ Fail(d) /\ made_conns' = made_conns
        /\ cache' = real[d] \/ cache' = cache
    BY <1>8 DEF OpenErr, Holding
  <2>2. cache' \in Conns \cup {None}
    BY <2>1 DEF HandInv
  <2>3. QED
    BY <2>1, <2>2, HandReturns DEF Fail
<1>9. QED
  BY <1>1, <1>d, <1>2, <1>3, <1>4, <1>6, <1>7, <1>8 DEF Dialing

\* What is not a step of a dial leaves the connection in the cache or in the hands.
LEMMA OthersKeep ==
  ASSUME [Next]_vars, ~ \E d \in Dials : Dialing(d) \/ Cancel(d)
  PROVE  UNCHANGED handVars
<1> USE DEF KeepClient, clientVars, handVars
<1>1. CASE \E c \in Conns : Die(c)
  BY <1>1 DEF Die
<1>2. CASE \E c \in Conns : Server(c)
  BY <1>2 DEF Server, NewConn, Refuse, Accept, AcceptErr, Give, Over
<1>3. CASE SinkGone
  BY <1>3 DEF SinkGone
<1>4. CASE UNCHANGED vars
  BY <1>4 DEF vars
<1>5. CASE \E d \in Dials : StreamEnds(d)
  BY <1>5 DEF StreamEnds
<1>6. QED
  BY <1>1, <1>2, <1>3, <1>4, <1>5 DEF Next

LEMMA HandNext == HandInv /\ [Next]_vars => HandInv'
<1> SUFFICES ASSUME HandInv, [Next]_vars PROVE HandInv'
  OBVIOUS
<1>1. CASE \E d \in Dials : Dialing(d) \/ Cancel(d)
  BY <1>1, HandDials
<1>2. CASE ~ \E d \in Dials : Dialing(d) \/ Cancel(d)
  BY <1>2, OthersKeep DEF handVars, HandInv
<1>3. QED
  BY <1>1, <1>2

Kept(c) == \/ cache' = c \/ \E d \in Dials : real'[d] = c
           \/ \E d \in Dials : real[d] = c /\ pc'[d] = "failed"

\* The dial that holds the mutex is alone with the connection.
LEMMA KeptByDials ==
  ASSUME HandInv, NEW d \in Dials, Dialing(d) \/ Cancel(d),
         NEW c \in Conns, cache = c \/ \E e \in Dials : real[e] = c
  PROVE  Kept(c)
<1>n. c # None
  BY DialsAssumption DEF Conns
<1>1. ASSUME Fail(d), cache' = cache \/ pc[d] \in Holding PROVE Kept(c)
  <2>1. CASE real[d] = c
    BY <1>1, <2>1 DEF Fail, Goto, HandInv, Kept
  <2>2. CASE cache = c
    BY <1>1, <1>n, <2>2 DEF HandInv, Kept
  <2>3. ASSUME NEW e \in Dials, e # d, real[e] = c PROVE Kept(c)
    BY <1>1, <2>3 DEF Fail, HandInv, Kept
  <2>4. QED
    BY <2>1, <2>2, <2>3
<1>2. ASSUME UNCHANGED <<cache, real>> PROVE Kept(c)
  BY <1>2 DEF Kept
<1>3. CASE Begin(d) \/ Dialed(d) \/ DialErr(d)
  BY <1>2, <1>3 DEF Begin, Dialed, DialErr
<1>4. CASE Lock(d)
  <2>1. /\ pc[d] = "wait" /\ real' = [real EXCEPT ![d] = cache]
    BY <1>4 DEF Lock, Waits
  <2>2. real[d] = None /\ real'[d] = cache /\ \A e \in Dials : e # d => real'[e] = real[e]
    BY <2>1 DEF HandInv
  <2>3. QED
    BY <1>n, <2>2 DEF Kept
<1>5. CASE Connected(d)
  <2>1. real[d] = None /\ cache' = cache /\ \A e \in Dials : e # d => real'[e] = real[e]
    BY <1>5 DEF Connected, HandInv
  <2>2. QED
    BY <1>n, <2>1 DEF Kept
<1>6. ASSUME pc[d] \in Holding, Succeed(d) PROVE Kept(c)
  <2>1. cache = None /\ cache' = real[d] /\ \A e \in Dials : e # d => real'[e] = real[e]
    BY <1>6 DEF Succeed, PutBack, HandInv
  <2>2. QED
    BY <1>n, <2>1 DEF Kept
<1>7. CASE Open(d) \/ Response(d)
  BY <1>2, <1>6, <1>7 DEF Open, Response, Holding
<1>8. CASE LockBail(d) \/ ConnectErr(d) \/ Cancel(d) \/ OpenErr(d)
  BY <1>1, <1>8 DEF LockBail, ConnectErr, Cancel, OpenErr, Holding
<1>9. QED
  BY <1>3, <1>4, <1>5, <1>7, <1>8 DEF Dialing

\* However many dials there are at once, and whichever of them fail or time out
\* and where, the one connection they share stays in the cache or in the hands of
\* one of them until a dial fails with it in its hands.
THEOREM KeptCorrect == Spec => ConnectionKept
<1>1. ASSUME HandInv, [Next]_vars
      PROVE  [\A c \in Conns : (cache = c \/ \E d \in Dials : real[d] = c)
                 => \/ cache' = c \/ \E d \in Dials : real'[d] = c
                    \/ \E d \in Dials : real[d] = c /\ pc'[d] = "failed"]_vars
  <2>1. CASE \E d \in Dials : Dialing(d) \/ Cancel(d)
    BY <1>1, <2>1, KeptByDials DEF Kept
  <2>2. CASE ~ \E d \in Dials : Dialing(d) \/ Cancel(d)
    BY <1>1, <2>2, OthersKeep DEF handVars
  <2>3. QED
    BY <2>1, <2>2
<1>2. QED
  BY <1>1, HandInit, HandNext, PTL DEF Spec, ConnectionKept
=============================================================================
