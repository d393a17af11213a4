---------------------------- MODULE WsStreamProofs ----------------------------
(* WsStream is a byte pipe, for any sizes of writes, messages and reads. *)
EXTENDS WsStream, TLAPS

-----------------------------------------------------------------------------
(* Messages that follow each other *)

\* The bytes of m are those that follow byte lo.
Runs(m, lo) == \A i \in 1..Len(m) : m[i] = lo + i

\* The byte that the j first messages of q end with, if they begin behind byte lo.
EndOf(q, lo, j) == IF j = 0 THEN lo ELSE q[j][Len(q[j])]

\* Each message of q but Close, which can only be the last, begins where the one
\* before it ends.
Chain(q, lo) == \A j \in 1..Len(q) :
  IF q[j] = Close THEN j = Len(q) ELSE Runs(q[j], EndOf(q, lo, j - 1))

-----------------------------------------------------------------------------
(* The inductive invariant *)

\* Messages that can still arrive, and where they begin.
Coming == IF fate = "lost" THEN wire ELSE wire \o unsent
Taken  == Len(got) + Len(r_buf)

WsTypes ==
  /\ sent \in 0..Total
  /\ left \in Seq(Nat) /\ header \in Seq(Nat) /\ r_buf \in Seq(Nat) /\ got \in Seq(Nat)
  /\ wire \in Seq(Seq(Nat)) /\ unsent \in Seq(Seq(Nat))
  /\ conn \in {"none", "dialing", "real"} /\ server \in {"wait", "up"}
  /\ reader \in {"open", "eof", "failed"} /\ fate \in {"open", "ended", "lost"}

\* What was read, and is yet to be, is a run; Close comes with the end, and last.
InOrder ==
  /\ Runs(got, 0) /\ Runs(r_buf, Len(got)) /\ Taken <= sent
  /\ Chain(Coming, Taken)
  /\ \A j \in 1..Len(Coming) : IF Coming[j] = Close THEN fate # "open" ELSE Coming[j][Len(Coming[j])] <= sent
  /\ fate = "ended" => conn = "real" /\ Coming # <<>> /\ Coming[Len(Coming)] = Close

\* All that was written is somewhere: in the request and what did not fit into
\* it, or in messages.
NoneMissing ==
  /\ server = "wait" => reader = "open" /\ got = <<>> /\ r_buf = <<>> /\ wire = <<>>
  /\ fate = "open" /\ conn = "none" => server = "wait" /\ sent = 0 /\ unsent = <<>>
  /\ fate = "open" /\ conn = "dialing" =>
       LET head == IF server = "wait" THEN Len(header) ELSE Taken
       IN  /\ wire = <<>> /\ unsent = <<>> /\ r_buf = <<>>
           /\ Runs(header, 0) /\ Len(header) \in 1..MaxEarly
           /\ Runs(left, head) /\ sent = head + Len(left)
  /\ fate # "lost" /\ conn = "real" =>
       /\ server = "up"
       /\ EndOf(Coming, Taken, IF fate = "ended" THEN Len(Coming) - 1 ELSE Len(Coming)) = sent

WsInv == WsTypes /\ InOrder /\ NoneMissing

-----------------------------------------------------------------------------
(* Lemmas on messages *)

Msgs == Seq(Seq(Nat))

LEMMA RunIs ==
  ASSUME NEW m \in Seq(Nat), NEW lo \in Nat, Runs(m, lo), NEW n \in 0..Len(m)
  PROVE  /\ SubSeq(m, 1, n) = [i \in 1..n |-> lo + i]
         /\ Len(SubSeq(m, 1, n)) = n
<1>1. SubSeq(m, 1, n) = [i \in 1..n |-> m[i]]
  OBVIOUS
<1>2. \A i \in 1..n : m[i] = lo + i
  BY DEF Runs
<1> QED
  BY <1>1, <1>2

\* A read takes the beginning of a run and leaves the rest of it.
LEMMA RunSplits ==
  ASSUME NEW g \in Seq(Nat), Runs(g, 0), NEW m \in Seq(Nat), Runs(m, Len(g)), NEW n \in 0..Len(m)
  PROVE  LET h == g \o SubSeq(m, 1, n)
             t == SubSeq(m, n + 1, Len(m))
         IN  /\ h \in Seq(Nat) /\ Len(h) = Len(g) + n /\ Runs(h, 0)
             /\ t \in Seq(Nat) /\ Len(t) = Len(m) - n /\ Runs(t, Len(h))
<1> DEFINE p == SubSeq(m, 1, n)
           h == g \o p
           t == SubSeq(m, n + 1, Len(m))
<1>1. Len(g) \in Nat /\ Len(m) \in Nat /\ n \in Nat /\ n <= Len(m)
  OBVIOUS
<1>2. p \in Seq(Nat) /\ Len(p) = n /\ \A i \in 1..n : p[i] = m[i]
  OBVIOUS
<1>3. t \in Seq(Nat) /\ Len(t) = Len(m) - n /\ \A i \in 1..Len(m) - n : t[i] = m[n + i]
  OBVIOUS
<1> HIDE DEF p, t
<1>4. h \in Seq(Nat) /\ Len(h) = Len(g) + Len(p)
  <2>1. \A a, b \in Seq(Nat) : a \o b \in Seq(Nat) /\ Len(a \o b) = Len(a) + Len(b)
    OBVIOUS
  <2> QED
    BY <1>2, <2>1, Zenon
<1>5. \A i \in 1..Len(h) : h[i] = IF i <= Len(g) THEN g[i] ELSE p[i - Len(g)]
  BY <1>2
<1> HIDE DEF h
<1>6. Runs(h, 0)
  <2> SUFFICES ASSUME NEW i \in 1..Len(h) PROVE h[i] = 0 + i
    BY DEF Runs
  <2>1. CASE i <= Len(g)
    BY <1>1, <1>2, <1>4, <1>5, <2>1 DEF Runs
  <2>2. CASE i > Len(g)
    <3>1. i - Len(g) \in 1..n /\ h[i] = m[i - Len(g)]
      BY <1>1, <1>2, <1>4, <1>5, <2>2
    <3>2. m[i - Len(g)] = Len(g) + (i - Len(g))
      BY <1>1, <3>1 DEF Runs
    <3> QED
      BY <1>1, <3>1, <3>2
  <2> QED
    BY <1>1, <1>2, <1>4, <2>1, <2>2
<1>7. Runs(t, Len(h))
  <2> SUFFICES ASSUME NEW i \in 1..Len(t) PROVE t[i] = Len(h) + i
    BY DEF Runs
  <2>1. n + i \in 1..Len(m) /\ t[i] = m[n + i]
    BY <1>1, <1>3
  <2>2. m[n + i] = Len(g) + (n + i)
    BY <2>1 DEF Runs
  <2> QED
    BY <1>1, <1>2, <1>4, <2>1, <2>2
<1> QED
  BY <1>2, <1>3, <1>4, <1>6, <1>7 DEF h, p, t

LEMMA ChainAppend ==
  ASSUME NEW q \in Msgs, NEW lo \in Nat, NEW hi \in Nat, Chain(q, lo),
         \A j \in 1..Len(q) : q[j] # Close, EndOf(q, lo, Len(q)) = hi,
         NEW m \in Seq(Nat), m # Close, Runs(m, hi),
         NEW s \in Nat, s <= hi + Len(m), \A j \in 1..Len(q) : q[j][Len(q[j])] <= s
  PROVE  /\ Append(q, m) \in Msgs /\ Chain(Append(q, m), lo)
         /\ \A j \in 1..Len(Append(q, m)) : Append(q, m)[j] # Close
         /\ \A j \in 1..Len(Append(q, m)) : Append(q, m)[j][Len(Append(q, m)[j])] <= hi + Len(m)
         /\ EndOf(Append(q, m), lo, Len(Append(q, m))) = hi + Len(m)
<1> DEFINE r == Append(q, m)
<1>1. /\ r \in Msgs /\ Len(r) = Len(q) + 1 /\ Len(q) \in Nat
      /\ r[Len(q) + 1] = m /\ \A j \in 1..Len(q) : r[j] = q[j]
  BY DEF Msgs
<1> HIDE DEF r
<1>2. Len(m) \in Nat /\ Len(m) > 0 /\ m[Len(m)] = hi + Len(m)
  <2>1. Len(m) \in Nat /\ Len(m) > 0
    BY DEF Close
  <2>2. Len(m) \in 1..Len(m)
    BY <2>1
  <2> QED
    BY <2>1, <2>2 DEF Runs
<1>3. \A j \in 0..Len(q) : EndOf(r, lo, j) = EndOf(q, lo, j)
  BY <1>1 DEF EndOf
<1>4. ASSUME NEW j \in 1..Len(r)
      PROVE  r[j] # Close /\ Runs(r[j], EndOf(r, lo, j - 1))
  <2>1. CASE j = Len(q) + 1
    <3>1. r[j] = m /\ j - 1 = Len(q) /\ Len(q) \in 0..Len(q)
      BY <1>1, <2>1
    <3>2. EndOf(r, lo, j - 1) = hi
      BY <1>3, <3>1
    <3> QED
      BY <3>1, <3>2
  <2>2. CASE j \in 1..Len(q)
    <3>1. r[j] = q[j] /\ q[j] # Close /\ EndOf(r, lo, j - 1) = EndOf(q, lo, j - 1)
      BY <1>1, <1>3, <2>2
    <3>2. Runs(q[j], EndOf(q, lo, j - 1))
      BY <2>2, <3>1 DEF Chain
    <3> QED
      BY <3>1, <3>2
  <2>3. j = Len(q) + 1 \/ j \in 1..Len(q)
    BY <1>1
  <2> QED
    BY <2>1, <2>2, <2>3
<1>5. EndOf(r, lo, Len(r)) = hi + Len(m)
  BY <1>1, <1>2 DEF EndOf
<1>6. ASSUME NEW j \in 1..Len(r) PROVE r[j][Len(r[j])] <= hi + Len(m)
  <2>1. CASE j = Len(q) + 1
    BY <1>1, <1>2, <2>1
  <2>2. CASE j \in 1..Len(q)
    <3>1. r[j] = q[j] /\ q[j][Len(q[j])] <= s
      BY <1>1, <2>2
    <3>2. q[j] \in Seq(Nat) /\ q[j] # <<>>
      <4>1. q[j] \in Seq(Nat)
        BY <2>2 DEF Msgs
      <4> QED
        BY <2>2, <4>1 DEF Close
    <3>3. q[j][Len(q[j])] \in Nat
      <4>1. \A x \in Seq(Nat) : x # <<>> => x[Len(x)] \in Nat
        OBVIOUS
      <4> QED
        BY <3>2, <4>1
    <3>4. Len(m) \in Nat
      BY <1>2
    <3> QED
      BY <3>1, <3>3, <3>4
  <2> QED
    BY <1>1, <2>1, <2>2
<1> QED
  BY <1>1, <1>4, <1>5, <1>6 DEF Chain, r

LEMMA ChainClose ==
  ASSUME NEW q \in Msgs, NEW lo \in Nat, Chain(q, lo), \A j \in 1..Len(q) : q[j] # Close
  PROVE  /\ Append(q, Close) \in Msgs /\ Chain(Append(q, Close), lo)
         /\ Len(Append(q, Close)) = Len(q) + 1 /\ Append(q, Close)[Len(q) + 1] = Close
         /\ \A j \in 1..Len(q) : Append(q, Close)[j] = q[j]
         /\ EndOf(Append(q, Close), lo, Len(q)) = EndOf(q, lo, Len(q))
<1> DEFINE r == Append(q, Close)
<1>1. /\ r \in Msgs /\ Len(r) = Len(q) + 1 /\ Len(q) \in Nat
      /\ r[Len(q) + 1] = Close /\ \A j \in 1..Len(q) : r[j] = q[j]
  BY DEF Msgs, Close
<1> HIDE DEF r
<1>2. \A j \in 0..Len(q) : EndOf(r, lo, j) = EndOf(q, lo, j)
  BY <1>1 DEF EndOf
<1>3. Chain(r, lo)
  BY <1>1, <1>2 DEF Chain
<1> QED
  BY <1>1, <1>2, <1>3 DEF r

LEMMA ChainPrefix ==
  ASSUME NEW q \in Msgs, NEW lo \in Nat, Chain(q, lo), NEW n \in 0..Len(q)
  PROVE  LET r == SubSeq(q, 1, n)
         IN  /\ r \in Msgs /\ Len(r) = n /\ \A j \in 1..n : r[j] = q[j]
             /\ (\A j \in 1..n : q[j] # Close) => Chain(r, lo)
<1> DEFINE r == SubSeq(q, 1, n)
<1>1. /\ r \in Msgs /\ Len(r) = n /\ \A j \in 1..n : r[j] = q[j]
      /\ Len(q) \in Nat /\ n \in Nat /\ n <= Len(q)
  BY DEF Msgs
<1> HIDE DEF r
<1>2. \A j \in 0..n : EndOf(r, lo, j) = EndOf(q, lo, j)
  BY <1>1 DEF EndOf
<1>3. (\A j \in 1..n : q[j] # Close) => Chain(r, lo)
  BY <1>1, <1>2 DEF Chain
<1> QED
  BY <1>1, <1>3 DEF r

\* The first message leaves the queue.
LEMMA ChainTail ==
  ASSUME NEW q \in Msgs, NEW lo \in Nat, Chain(q, lo), q # <<>>, q[1] # Close
  PROVE  /\ Tail(q) \in Msgs /\ Len(Tail(q)) = Len(q) - 1 /\ Len(q) \in Nat
         /\ \A j \in 1..Len(q) - 1 : Tail(q)[j] = q[j + 1]
         /\ q[1] \in Seq(Nat) /\ Runs(q[1], lo) /\ q[1][Len(q[1])] = lo + Len(q[1])
         /\ Chain(Tail(q), lo + Len(q[1]))
         /\ \A j \in 0..Len(q) - 1 : EndOf(Tail(q), lo + Len(q[1]), j) = EndOf(q, lo, j + 1)
<1> DEFINE r == Tail(q)
<1>1. /\ r \in Msgs /\ Len(r) = Len(q) - 1 /\ Len(q) \in Nat /\ Len(q) >= 1
      /\ \A j \in 1..Len(q) - 1 : r[j] = q[j + 1]
  BY DEF Msgs
<1> HIDE DEF r
<1>2. q[1] \in Seq(Nat) /\ Runs(q[1], lo)
  BY <1>1 DEF Msgs, Chain, EndOf
<1>3. Len(q[1]) \in Nat /\ Len(q[1]) > 0 /\ q[1][Len(q[1])] = lo + Len(q[1])
  BY <1>2 DEF Runs, Close
<1>4. \A j \in 0..Len(q) - 1 : EndOf(r, lo + Len(q[1]), j) = EndOf(q, lo, j + 1)
  BY <1>1, <1>3 DEF EndOf
<1>5. Chain(r, lo + Len(q[1]))
  <2> SUFFICES ASSUME NEW j \in 1..Len(r)
               PROVE  IF r[j] = Close THEN j = Len(r) ELSE Runs(r[j], EndOf(r, lo + Len(q[1]), j - 1))
    BY DEF Chain
  <2>1. j + 1 \in 1..Len(q) /\ r[j] = q[j + 1] /\ j - 1 \in 0..Len(q) - 1
    BY <1>1
  <2>2. EndOf(r, lo + Len(q[1]), j - 1) = EndOf(q, lo, j)
    BY <1>4, <2>1
  <2>3. IF q[j + 1] = Close THEN j + 1 = Len(q) ELSE Runs(q[j + 1], EndOf(q, lo, j))
    BY <2>1 DEF Chain
  <2> QED
    BY <1>1, <2>1, <2>2, <2>3
<1> QED
  BY <1>1, <1>2, <1>3, <1>4, <1>5 DEF r

LEMMA Joined ==
  ASSUME NEW q \in Msgs, NEW r \in Msgs
  PROVE  /\ q \o r \in Msgs /\ Len(q \o r) = Len(q) + Len(r) /\ Len(q) \in Nat /\ Len(r) \in Nat
         /\ \A j \in 1..Len(q) : (q \o r)[j] = q[j]
         /\ r # <<>> => Append(q, Head(r)) \o Tail(r) = q \o r /\ Append(q, Head(r)) \in Msgs /\ Tail(r) \in Msgs
         /\ q # <<>> => /\ Tail(q) \o r = Tail(q \o r) /\ Tail(q) \in Msgs /\ Head(q) = (q \o r)[1]
                        /\ q \o r # <<>>
<1> USE DEF Msgs
<1>1. /\ q \o r \in Msgs /\ Len(q \o r) = Len(q) + Len(r) /\ Len(q) \in Nat /\ Len(r) \in Nat
      /\ \A j \in 1..Len(q) : (q \o r)[j] = q[j]
  OBVIOUS
<1>3. ASSUME r # <<>>
      PROVE  Append(q, Head(r)) \o Tail(r) = q \o r /\ Append(q, Head(r)) \in Msgs /\ Tail(r) \in Msgs
  <2>1. Head(r) \in Seq(Nat) /\ Head(r) = r[1] /\ Tail(r) \in Msgs /\ Len(Tail(r)) = Len(r) - 1 /\ Len(r) >= 1
        /\ \A j \in 1..Len(r) - 1 : Tail(r)[j] = r[j + 1]
    BY <1>3
  <2>2. Append(q, Head(r)) \in Msgs /\ Len(Append(q, Head(r))) = Len(q) + 1
    BY <2>1
  <2> QED
    BY <2>1, <2>2
<1>4. ASSUME q # <<>>
      PROVE  /\ Tail(q) \o r = Tail(q \o r) /\ Tail(q) \in Msgs /\ Head(q) = (q \o r)[1]
             /\ q \o r # <<>>
  <2>1. Len(q) >= 1 /\ Head(q) = q[1] /\ (q \o r)[1] = q[1]
    BY <1>1, <1>4
  <2>2. Tail(q) \in Msgs /\ Tail(q) \o r = Tail(q \o r)
    <3>1. Tail(q) \in Msgs
      BY <1>4
    <3> QED
      BY <1>1, <1>4, <3>1, SMTT(30)
  <2>3. q \o r # <<>>
    BY <1>1, <2>1
  <2> QED
    BY <2>1, <2>2, <2>3
<1> QED
  BY <1>1, <1>3, <1>4

LEMMA JoinsLast ==
  ASSUME NEW q \in Msgs, NEW r \in Msgs, NEW m \in Seq(Nat)
  PROVE  q \o Append(r, m) = Append(q \o r, m) /\ Append(r, m) \in Msgs
  BY DEF Msgs

-----------------------------------------------------------------------------
(* The invariant holds *)

LEMMA WsInit == Init => WsInv
<1> SUFFICES ASSUME Init PROVE WsInv
  OBVIOUS
<1>1. /\ sent = 0 /\ left = <<>> /\ header = <<>> /\ unsent = <<>> /\ wire = <<>> /\ r_buf = <<>> /\ got = <<>>
      /\ fate = "open" /\ reader = "open" /\ conn \in {"none", "real"}
      /\ conn = "none" <=> server = "wait"
      /\ server \in {"wait", "up"}
  BY DEF Init
<1>2. Coming = <<>> /\ Taken = 0 /\ Len(Coming) = 0
  BY <1>1 DEF Coming, Taken
<1>3. WsTypes
  BY <1>1, SizesAssumption DEF WsTypes
<1>4. InOrder
  BY <1>1, <1>2 DEF InOrder, Runs, Chain
<1>5. NoneMissing
  BY <1>1, <1>2 DEF NoneMissing, EndOf
<1> QED
  BY <1>3, <1>4, <1>5 DEF WsInv

\* What follows from the invariant about the queue of messages.
LEMMA ComingIs ==
  ASSUME WsInv
  PROVE  /\ Coming \in Msgs /\ wire \in Msgs /\ unsent \in Msgs
         /\ Taken \in Nat /\ sent \in Nat
         /\ \A j \in 1..Len(wire) : Coming[j] = wire[j]
         /\ Len(wire) \in 0..Len(Coming) /\ Len(Coming) \in Nat
<1>1. wire \in Msgs /\ unsent \in Msgs /\ sent \in Nat /\ Taken \in Nat
  BY SizesAssumption DEF WsInv, WsTypes, Msgs, Taken
<1>2. Len(wire) \in Nat /\ Len(unsent) \in Nat
  BY <1>1 DEF Msgs
<1>3. CASE fate = "lost"
  BY <1>1, <1>2, <1>3 DEF Coming
<1>4. CASE fate # "lost"
  <2>1. Coming = wire \o unsent
    BY <1>4 DEF Coming
  <2>2. /\ wire \o unsent \in Msgs /\ Len(wire \o unsent) = Len(wire) + Len(unsent)
        /\ \A j \in 1..Len(wire) : (wire \o unsent)[j] = wire[j]
    BY <1>1, Joined
  <2> QED
    BY <1>1, <1>2, <2>1, <2>2
<1> QED
  BY <1>1, <1>3, <1>4

LEMMA BytesRun ==
  ASSUME NEW n \in Nat, n >= 1, sent \in Nat
  PROVE  Bytes(n) \in Seq(Nat) /\ Len(Bytes(n)) = n /\ Runs(Bytes(n), sent) /\ Bytes(n) # Close
<1>1. Bytes(n) = [i \in 1..n |-> sent + i]
  BY DEF Bytes
<1>2. \A i \in 1..n : sent + i \in Nat
  OBVIOUS
<1>3. Bytes(n) \in Seq(Nat) /\ Len(Bytes(n)) = n
  BY <1>1, <1>2
<1> QED
  BY <1>1, <1>3 DEF Runs, Close

\* A message that goes on where the others end.
LEMMA MessageJoins ==
  ASSUME WsInv, fate = "open", fate' = "open", NEW m \in Seq(Nat), m # Close,
         NEW hi \in Nat, hi = EndOf(Coming, Taken, Len(Coming)), Runs(m, hi),
         sent' = hi + Len(m), sent <= sent', sent' \in 0..Total,
         conn' = "real", server = "up", unsent' = Append(unsent, m), left' \in Seq(Nat),
         UNCHANGED <<wire, got, r_buf, reader, server, header>>
  PROVE  WsInv'
<1>1. Coming \in Msgs /\ Taken \in Nat /\ wire \in Msgs /\ unsent \in Msgs /\ sent \in Nat
  BY ComingIs
<1>2. /\ Chain(Coming, Taken)
      /\ \A j \in 1..Len(Coming) : Coming[j] # Close
      /\ \A j \in 1..Len(Coming) : Coming[j][Len(Coming[j])] <= sent
      /\ sent <= hi + Len(m) /\ EndOf(Coming, Taken, Len(Coming)) = hi
  BY DEF WsInv, InOrder
<1>3. /\ Append(Coming, m) \in Msgs /\ Chain(Append(Coming, m), Taken)
      /\ \A j \in 1..Len(Append(Coming, m)) : Append(Coming, m)[j] # Close
      /\ \A j \in 1..Len(Append(Coming, m)) : Append(Coming, m)[j][Len(Append(Coming, m)[j])] <= hi + Len(m)
      /\ EndOf(Append(Coming, m), Taken, Len(Append(Coming, m))) = hi + Len(m)
  <2> HIDE DEF Coming, Taken
  <2>1. /\ Coming \in Msgs /\ Taken \in Nat /\ hi \in Nat /\ Chain(Coming, Taken)
        /\ m \in Seq(Nat) /\ m # Close /\ Runs(m, hi) /\ sent \in Nat
    BY <1>1, <1>2
  <2>2. ASSUME NEW q \in Msgs, q = Coming, NEW lo \in Nat, lo = Taken, NEW s \in Nat, s = sent
        PROVE /\ Append(q, m) \in Msgs /\ Chain(Append(q, m), lo)
              /\ \A j \in 1..Len(Append(q, m)) : Append(q, m)[j] # Close
              /\ \A j \in 1..Len(Append(q, m)) : Append(q, m)[j][Len(Append(q, m)[j])] <= hi + Len(m)
              /\ EndOf(Append(q, m), lo, Len(Append(q, m))) = hi + Len(m)
    <3>1. /\ Chain(q, lo) /\ \A j \in 1..Len(q) : q[j] # Close
      BY <1>2, <2>2
    <3>2. EndOf(q, lo, Len(q)) = hi
      BY <1>2, <2>2
    <3>3. s <= hi + Len(m)
      BY <1>2, <2>2
    <3>4. \A j \in 1..Len(q) : q[j][Len(q[j])] <= s
      BY <1>2, <2>2
    <3> QED
      BY <3>1, <3>2, <3>3, <3>4, ChainAppend
  <2> QED
    BY <2>1, <2>2
<1>4. Taken' = Taken
  BY DEF Taken
<1>5. Coming' = Append(Coming, m)
  <2>1. Coming = wire \o unsent /\ Coming' = wire \o Append(unsent, m)
    BY DEF Coming
  <2>2. wire \o Append(unsent, m) = Append(wire \o unsent, m)
    BY <1>1, JoinsLast
  <2> QED
    BY <2>1, <2>2
<1>6. WsTypes'
  <2>1. Append(unsent, m) \in Seq(Seq(Nat))
    BY <1>1 DEF Msgs
  <2> QED
    BY <2>1 DEF WsInv, WsTypes
<1>7. InOrder'
  <2>1. Taken' <= sent' /\ Runs(got, 0)' /\ Runs(r_buf, Len(got))'
    BY <1>1, <1>4, SizesAssumption DEF WsInv, InOrder, Runs
  <2> QED
    BY <1>3, <1>4, <1>5, <2>1 DEF InOrder
<1>8. NoneMissing'
  BY <1>3, <1>4, <1>5 DEF NoneMissing
<1> QED
  BY <1>6, <1>7, <1>8 DEF WsInv

LEMMA WriteInv == ASSUME WsInv, Write PROVE WsInv'
<1>1. PICK n \in 1..Least(IF step = "first" THEN MaxFirst ELSE MaxWrite, Total - sent) :
        sent' = sent + n /\ unsent' = Message(Bytes(n))
  BY DEF Write
<1>2. n \in Nat /\ n >= 1 /\ sent \in Nat /\ sent + n <= Total /\ Total \in Nat
  <2>1. sent \in 0..Total /\ Total \in Nat /\ MaxFirst \in Nat /\ MaxWrite \in Nat
    BY SizesAssumption DEF WsInv, WsTypes
  <2>2. \A a, b \in Int : Least(a, b) \in Int /\ Least(a, b) <= b
    BY DEF Least
  <2>3. \E x \in Nat : n \in 1..Least(x, Total - sent)
    BY <1>1, <2>1
  <2>4. n <= Total - sent /\ n \in Nat /\ n >= 1
    BY <2>1, <2>2, <2>3
  <2> QED
    BY <2>1, <2>4
<1>3. Bytes(n) \in Seq(Nat) /\ Len(Bytes(n)) = n /\ Runs(Bytes(n), sent) /\ Bytes(n) # Close
  BY <1>2, BytesRun
<1>4. unsent' = Append(unsent, Bytes(n))
  BY <1>1, <1>3 DEF Message, Close
<1>5. /\ conn = "real" /\ fate = "open" /\ fate' = "open" /\ conn' = "real" /\ left' = left /\ left \in Seq(Nat)
      /\ UNCHANGED <<wire, got, r_buf, reader, server, header>>
  BY DEF Write, readVars, WsInv, WsTypes
<1>6. EndOf(Coming, Taken, Len(Coming)) = sent /\ server = "up"
  BY <1>5 DEF WsInv, NoneMissing
<1>7. sent' = sent + Len(Bytes(n)) /\ sent <= sent' /\ sent' \in 0..Total /\ left' \in Seq(Nat)
  BY <1>1, <1>2, <1>3, <1>5
<1> HIDE DEF Bytes
<1>8. ASSUME NEW m \in Seq(Nat), m = Bytes(n), NEW hi \in Nat, hi = sent PROVE WsInv'
  <2>1. /\ m # Close /\ hi = EndOf(Coming, Taken, Len(Coming)) /\ Runs(m, hi)
        /\ sent' = hi + Len(m) /\ unsent' = Append(unsent, m)
    BY <1>3, <1>4, <1>6, <1>7, <1>8
  <2> QED
    BY <1>5, <1>6, <1>7, <2>1, MessageJoins
<1> QED
  BY <1>2, <1>3, <1>8

LEMMA WriteEarlyInv == ASSUME WsInv, WriteEarly PROVE WsInv'
<1>1. PICK k \in 1..Least(MaxFirst, Total) :
        /\ sent' = k
        /\ header' = SubSeq(Bytes(k), 1, Least(k, MaxEarly))
        /\ left' = SubSeq(Bytes(k), MaxEarly + 1, k)
  BY DEF WriteEarly
<1>2. /\ conn = "none" /\ fate = "open" /\ fate' = "open" /\ conn' = "dialing"
      /\ UNCHANGED <<unsent, wire, server, r_buf, got, reader>>
  BY DEF WriteEarly, readVars
<1>3. /\ server = "wait" /\ sent = 0 /\ unsent = <<>> /\ wire = <<>> /\ got = <<>> /\ r_buf = <<>> /\ reader = "open"
  BY <1>2 DEF WsInv, NoneMissing
<1>4. k \in Nat /\ k >= 1 /\ k <= Total /\ MaxEarly \in Nat /\ MaxEarly >= 1 /\ Total \in Nat
  BY <1>1, SizesAssumption DEF Least
<1>5. Bytes(k) = [i \in 1..k |-> i] /\ Bytes(k) \in Seq(Nat) /\ Len(Bytes(k)) = k
  BY <1>3, <1>4 DEF Bytes
<1>6. /\ header' \in Seq(Nat) /\ Runs(header', 0)
      /\ Len(header') = Least(k, MaxEarly)
  <2>1. Least(k, MaxEarly) \in 1..k /\ Least(k, MaxEarly) \in Nat
    BY <1>4 DEF Least
  <2>2. header' = [i \in 1..Least(k, MaxEarly) |-> i]
    BY <1>1, <1>4, <1>5, <2>1
  <2> QED
    BY <2>1, <2>2 DEF Runs
<1>7. /\ left' \in Seq(Nat) /\ Runs(left', Len(header'))
      /\ Len(header') + Len(left') = k
  <2>1. CASE k <= MaxEarly
    <3>1. left' = <<>>
      BY <1>1, <1>4, <1>5, <2>1
    <3>2. Len(header') = k
      BY <1>4, <1>6, <2>1 DEF Least
    <3> QED
      BY <1>4, <3>1, <3>2 DEF Runs
  <2>2. CASE k > MaxEarly
    <3>1. left' = [i \in 1..k - MaxEarly |-> MaxEarly + i]
      BY <1>1, <1>4, <1>5, <2>2
    <3>2. Len(header') = MaxEarly
      BY <1>4, <1>6, <2>2 DEF Least
    <3> QED
      BY <1>4, <2>2, <3>1, <3>2 DEF Runs
  <2> QED
    BY <1>4, <2>1, <2>2
<1>8. Coming' = <<>> /\ Taken' = 0 /\ Len(<<>>) = 0
  <2>1. wire' = <<>> /\ unsent' = <<>> /\ got' = <<>> /\ r_buf' = <<>>
    BY <1>2, <1>3
  <2>2. <<>> \o <<>> = <<>> /\ Len(<<>>) = 0 /\ 0 + 0 = 0
    OBVIOUS
  <2> QED
    BY <1>2, <2>1, <2>2 DEF Coming, Taken
<1>9. WsTypes'
  <2>1. sent' \in 0..Total /\ header' \in Seq(Nat) /\ left' \in Seq(Nat)
    BY <1>1, <1>4, <1>6, <1>7 DEF Least
  <2> QED
    BY <1>2, <2>1 DEF WsInv, WsTypes
<1>10. InOrder'
  BY <1>1, <1>2, <1>3, <1>4, <1>8 DEF InOrder, Runs, Chain
<1>11. NoneMissing'
  <2>1. Len(header') \in 1..MaxEarly
    BY <1>4, <1>6 DEF Least
  <2> QED
    BY <1>1, <1>2, <1>3, <1>6, <1>7, <2>1 DEF NoneMissing
<1> QED
  BY <1>9, <1>10, <1>11 DEF WsInv

LEMMA DialOkInv == ASSUME WsInv, DialOk PROVE WsInv'
<1>1. /\ conn = "dialing" /\ server = "up" /\ fate = "open" /\ fate' = "open" /\ conn' = "real"
      /\ unsent' = Message(left) /\ left' = <<>> /\ sent' = sent
      /\ UNCHANGED <<wire, got, r_buf, reader, server, header>>
  BY DEF DialOk, readVars
<1>2. /\ wire = <<>> /\ unsent = <<>> /\ r_buf = <<>> /\ Runs(left, Taken) /\ sent = Taken + Len(left)
      /\ left \in Seq(Nat) /\ sent \in 0..Total /\ Taken \in Nat
  BY <1>1, ComingIs DEF WsInv, WsTypes, NoneMissing
<1>3. Coming = <<>> /\ Len(Coming) = 0 /\ EndOf(Coming, Taken, 0) = Taken
  BY <1>1, <1>2 DEF Coming, EndOf
<1>4. CASE left = <<>>
  <2>1. unsent' = unsent /\ sent = Taken /\ Taken' = Taken /\ Coming' = Coming
    BY <1>1, <1>2, <1>4 DEF Message, Taken, Coming
  <2>2. WsTypes'
    BY <1>1, <2>1 DEF WsInv, WsTypes
  <2>3. InOrder'
    BY <1>1, <2>1 DEF WsInv, InOrder, Runs
  <2>4. NoneMissing'
    BY <1>1, <1>3, <2>1 DEF NoneMissing
  <2> QED
    BY <2>2, <2>3, <2>4 DEF WsInv
<1>5. CASE left # <<>>
  <2>1. unsent' = Append(unsent, left) /\ left # Close
    BY <1>1, <1>2, <1>5 DEF Message, Close
  <2>2. sent <= sent' /\ sent' \in 0..Total /\ <<>> \in Seq(Nat)
    BY <1>1, <1>2, SizesAssumption
  <2> QED
    BY <1>1, <1>2, <1>3, <2>1, <2>2, MessageJoins
<1> QED
  BY <1>4, <1>5

\* While the queue is the same, only what is read of it changes.
LEMMA FlushInv == ASSUME WsInv, Flush PROVE WsInv'
<1>1. /\ unsent # <<>> /\ fate # "lost" /\ fate' = fate
      /\ wire' = Append(wire, Head(unsent)) /\ unsent' = Tail(unsent)
      /\ UNCHANGED <<conn, sent, left, header, server, r_buf, got, reader>>
  BY DEF Flush, readVars
<1>2. wire \in Msgs /\ unsent \in Msgs
  BY ComingIs
<1>3. wire' \o unsent' = wire \o unsent /\ wire' \in Msgs /\ unsent' \in Msgs
  BY <1>1, <1>2, Joined
<1>4. Coming' = Coming /\ Taken' = Taken
  BY <1>1, <1>3 DEF Coming, Taken
<1>5. conn = "real" /\ server = "up"
  BY <1>1 DEF WsInv, WsTypes, InOrder, NoneMissing
<1>6. WsTypes'
  BY <1>1, <1>3 DEF WsInv, WsTypes, Msgs
<1>7. InOrder'
  BY <1>1, <1>4 DEF WsInv, InOrder, Runs
<1>8. NoneMissing'
  BY <1>1, <1>4, <1>5 DEF WsInv, NoneMissing
<1> QED
  BY <1>6, <1>7, <1>8 DEF WsInv

LEMMA FlushedInv == ASSUME WsInv, Flushed PROVE WsInv'
<1>1. UNCHANGED <<conn, sent, left, header, unsent, wire, server, r_buf, got, reader, fate>>
  BY DEF Flushed, readVars
<1>2. Coming' = Coming /\ Taken' = Taken
  BY <1>1 DEF Coming, Taken
<1> QED
  BY <1>1, <1>2 DEF WsInv, WsTypes, InOrder, NoneMissing, Runs

LEMMA ShutdownInv == ASSUME WsInv, Shutdown PROVE WsInv'
<1>1. /\ conn = "real" /\ fate = "open" /\ fate' = "ended" /\ unsent' = Append(unsent, Close)
      /\ UNCHANGED <<conn, sent, left, header, wire, server, r_buf, got, reader>>
  BY DEF Shutdown, readVars
<1>2. Coming \in Msgs /\ Taken \in Nat /\ wire \in Msgs /\ unsent \in Msgs /\ sent \in Nat /\ Len(Coming) \in Nat
  BY ComingIs
<1>3. /\ Chain(Coming, Taken)
      /\ \A j \in 1..Len(Coming) : Coming[j] # Close
      /\ \A j \in 1..Len(Coming) : Coming[j][Len(Coming[j])] <= sent
      /\ EndOf(Coming, Taken, Len(Coming)) = sent /\ server = "up"
  BY <1>1 DEF WsInv, InOrder, NoneMissing
<1>4. Close \in Seq(Nat)
  BY DEF Close
<1>5. Taken' = Taken /\ Coming' = Append(Coming, Close) /\ unsent' \in Msgs
  <2>1. Coming = wire \o unsent /\ Coming' = wire \o Append(unsent, Close)
    BY <1>1 DEF Coming
  <2>2. wire \o Append(unsent, Close) = Append(wire \o unsent, Close) /\ Append(unsent, Close) \in Msgs
    BY <1>2, <1>4, JoinsLast
  <2> QED
    BY <1>1, <2>1, <2>2 DEF Taken
<1>6. /\ Append(Coming, Close) \in Msgs /\ Chain(Append(Coming, Close), Taken)
      /\ Len(Append(Coming, Close)) = Len(Coming) + 1 /\ Append(Coming, Close)[Len(Coming) + 1] = Close
      /\ \A j \in 1..Len(Coming) : Append(Coming, Close)[j] = Coming[j]
      /\ EndOf(Append(Coming, Close), Taken, Len(Coming)) = EndOf(Coming, Taken, Len(Coming))
  BY <1>2, <1>3, ChainClose
<1>7. WsTypes'
  BY <1>1, <1>5 DEF WsInv, WsTypes, Msgs
<1>8. InOrder'
  <2>1. Taken' <= sent' /\ Runs(got, 0)' /\ Runs(r_buf, Len(got))'
    BY <1>1, <1>5 DEF WsInv, InOrder, Runs
  <2>2. ASSUME NEW j \in 1..Len(Coming'), Coming'[j] # Close
        PROVE Coming'[j][Len(Coming'[j])] <= sent'
    <3>1. j \in 1..Len(Coming)
      BY <1>2, <1>5, <1>6, <2>2
    <3> QED
      BY <1>1, <1>3, <1>5, <1>6, <3>1
  <2>3. Coming' # <<>> /\ Coming'[Len(Coming')] = Close /\ Chain(Coming', Taken')
    BY <1>2, <1>5, <1>6
  <2> QED
    BY <1>1, <2>1, <2>2, <2>3 DEF InOrder
<1>9. NoneMissing'
  <2>1. EndOf(Coming', Taken', Len(Coming') - 1) = sent'
    BY <1>1, <1>2, <1>3, <1>5, <1>6
  <2> QED
    BY <1>1, <1>3, <2>1 DEF NoneMissing
<1> QED
  BY <1>7, <1>8, <1>9 DEF WsInv

\* The transport breaks, and what it has lost is the end of the queue.
LEMMA LostInv ==
  ASSUME WsInv, fate # "lost", fate' = "lost", NEW n \in 0..Len(wire), wire' = SubSeq(wire, 1, n),
         UNCHANGED <<conn, sent, left, header, unsent, server, r_buf, got, reader>>
  PROVE  WsInv'
<1>1. /\ Coming \in Msgs /\ Taken \in Nat /\ wire \in Msgs /\ sent \in Nat
      /\ Len(wire) \in 0..Len(Coming) /\ Len(Coming) \in Nat
      /\ \A j \in 1..Len(wire) : Coming[j] = wire[j]
  BY ComingIs
<1>2. /\ Chain(Coming, Taken)
      /\ \A j \in 1..Len(Coming) : Coming[j] = Close \/ Coming[j][Len(Coming[j])] <= sent
  BY DEF WsInv, InOrder
<1>3. n \in 0..Len(Coming) /\ n \in Nat
  BY <1>1
<1>4. wire' \in Msgs /\ Len(wire') = n /\ \A j \in 1..n : wire'[j] = Coming[j]
  <2>1. \A j \in 1..n : j \in 1..Len(wire)
    BY <1>1
  <2>2. SubSeq(wire, 1, n) \in Msgs /\ Len(SubSeq(wire, 1, n)) = n
        /\ \A j \in 1..n : SubSeq(wire, 1, n)[j] = wire[j]
    BY <1>1 DEF Msgs
  <2> QED
    BY <1>1, <2>1, <2>2
<1>5. Taken' = Taken /\ Coming' = wire'
  BY DEF Taken, Coming
<1>6. \A j \in 0..n : EndOf(wire', Taken, j) = EndOf(Coming, Taken, j)
  BY <1>4 DEF EndOf
<1>7. ASSUME NEW j \in 1..n
      PROVE  /\ wire'[j] = Close \/ wire'[j][Len(wire'[j])] <= sent
             /\ IF wire'[j] = Close THEN j = n ELSE Runs(wire'[j], EndOf(wire', Taken, j - 1))
  <2>1. j \in 1..Len(Coming) /\ j - 1 \in 0..n /\ wire'[j] = Coming[j]
    BY <1>3, <1>4
  <2>2. IF Coming[j] = Close THEN j = Len(Coming) ELSE Runs(Coming[j], EndOf(Coming, Taken, j - 1))
    BY <1>2, <2>1 DEF Chain
  <2>3. Coming[j] = Close \/ Coming[j][Len(Coming[j])] <= sent
    BY <1>2, <2>1
  <2> QED
    BY <1>1, <1>3, <1>6, <2>1, <2>2, <2>3
<1>8. WsTypes'
  BY <1>4 DEF WsInv, WsTypes, Msgs
<1>9. InOrder'
  <2>1. Taken' <= sent' /\ Runs(got, 0)' /\ Runs(r_buf, Len(got))'
    BY <1>5 DEF WsInv, InOrder, Runs
  <2>2. Chain(Coming', Taken')
    BY <1>4, <1>5, <1>7 DEF Chain
  <2> QED
    BY <1>4, <1>5, <1>7, <2>1, <2>2 DEF InOrder
<1>10. NoneMissing'
  <2>1. server = "wait" => wire' = <<>>
    <3> SUFFICES ASSUME server = "wait" PROVE wire' = <<>>
      OBVIOUS
    <3>1. wire = <<>> /\ n = 0
      BY DEF WsInv, NoneMissing
    <3> QED
      BY <1>4, <3>1 DEF Msgs
  <2> QED
    BY <2>1 DEF WsInv, NoneMissing
<1> QED
  BY <1>8, <1>9, <1>10 DEF WsInv

LEMMA BreakInv == ASSUME WsInv, Break PROVE WsInv'
<1>1. PICK n \in 0..Len(wire) : wire' = SubSeq(wire, 1, n)
  BY DEF Break
<1>2. /\ fate # "lost" /\ fate' = "lost"
      /\ UNCHANGED <<conn, sent, left, header, unsent, server, r_buf, got, reader>>
  BY DEF Break, readVars
<1> QED
  BY <1>1, <1>2, LostInv

LEMMA NotEstablishedInv == ASSUME WsInv, NotEstablished PROVE WsInv'
<1>1. /\ fate = "open" /\ fate' = "lost" /\ wire' = wire
      /\ UNCHANGED <<conn, sent, left, header, unsent, server, r_buf, got, reader>>
  BY DEF NotEstablished, readVars
<1>2. wire \in Msgs
  BY ComingIs
<1>3. Len(wire) \in 0..Len(wire) /\ wire = SubSeq(wire, 1, Len(wire))
  BY <1>2 DEF Msgs
<1> QED
  BY <1>1, <1>3, LostInv

\* The header is never longer than what the server decodes.
LEMMA HeaderFits ==
  ASSUME NEW k \in 1..MaxEarly
  PROVE  Base64Len(k) <= MaxHeader
<1>1. \A a, b \in Nat : a <= b => (4 * a + 2) \div 3 <= (4 * b + 2) \div 3
  OBVIOUS
<1>2. k \in Nat /\ MaxEarly \in Nat /\ MaxHeader \in Nat /\ k <= MaxEarly
  BY SizesAssumption
<1>3. Base64Len(k) <= Base64Len(MaxEarly) /\ Base64Len(k) \in Nat /\ Base64Len(MaxEarly) \in Nat
  BY <1>1, <1>2 DEF Base64Len
<1> QED
  BY <1>2, <1>3, HeaderAssumption

LEMMA HandshakeIs ==
  ASSUME WsInv, Handshake
  PROVE  /\ got = <<>> /\ got' = header /\ reader = "open" /\ Runs(header, 0) /\ header \in Seq(Nat)
         /\ Len(header) \in 1..sent /\ sent \in 0..Total
<1>1. server = "wait" /\ conn = "dialing" /\ fate = "open"
      /\ got' = IF Base64Len(Len(header)) > MaxHeader THEN <<>> ELSE header
  BY DEF Handshake
<1>2. /\ got = <<>> /\ reader = "open" /\ Runs(header, 0) /\ Len(header) \in 1..MaxEarly
      /\ sent = Len(header) + Len(left)
  BY <1>1 DEF WsInv, NoneMissing
<1>3. Base64Len(Len(header)) <= MaxHeader /\ Len(header) \in Nat /\ MaxHeader \in Nat
  BY <1>2, HeaderFits, SizesAssumption
<1>4. Base64Len(Len(header)) \in Nat
  BY <1>3 DEF Base64Len
<1>5. got' = header
  BY <1>1, <1>3, <1>4
<1>6. header \in Seq(Nat) /\ left \in Seq(Nat) /\ Len(left) \in Nat /\ sent \in 0..Total
  BY DEF WsInv, WsTypes
<1> QED
  BY <1>2, <1>3, <1>5, <1>6

LEMMA HandshakeInv == ASSUME WsInv, Handshake PROVE WsInv'
<1>1. /\ server = "wait" /\ server' = "up" /\ conn = "dialing" /\ fate = "open"
      /\ UNCHANGED <<conn, sent, left, header, unsent, wire, r_buf, reader, fate>>
  BY DEF Handshake, writeVars
<1>2. /\ got = <<>> /\ got' = header /\ Runs(header, 0) /\ header \in Seq(Nat)
      /\ Len(header) \in 1..sent /\ sent \in 0..Total
  BY HandshakeIs
<1>3. /\ wire = <<>> /\ unsent = <<>> /\ r_buf = <<>>
      /\ Runs(left, Len(header)) /\ sent = Len(header) + Len(left)
  BY <1>1 DEF WsInv, NoneMissing
<1>4. Coming' = <<>> /\ Len(<<>>) = 0 /\ Taken' = Len(header)
  BY <1>1, <1>2, <1>3 DEF Coming, Taken
<1>5. WsTypes'
  BY <1>1, <1>2 DEF WsInv, WsTypes
<1>6. InOrder'
  BY <1>1, <1>2, <1>3, <1>4 DEF InOrder, Runs, Chain
<1>7. NoneMissing'
  BY <1>1, <1>3, <1>4 DEF WsInv, NoneMissing
<1> QED
  BY <1>5, <1>6, <1>7 DEF WsInv

\* The message that a read takes from.
Current == IF r_buf # <<>> THEN r_buf ELSE Head(wire)

LEMMA ReadIs ==
  ASSUME WsInv, Read
  PROVE  /\ Current \in Seq(Nat) /\ Runs(Current, Len(got)) /\ Len(got) + Len(Current) <= sent
         /\ \E k \in 1..Len(Current) :
              got' = got \o SubSeq(Current, 1, k) /\ r_buf' = SubSeq(Current, k + 1, Len(Current))
<1>1. PICK k \in 1..Least(MaxRead, Len(Current)) :
        got' = got \o SubSeq(Current, 1, k) /\ r_buf' = SubSeq(Current, k + 1, Len(Current))
  BY DEF Read, Current
<1>2. r_buf # <<>> \/ (r_buf = <<>> /\ wire # <<>> /\ Head(wire) # Close)
  BY DEF Read
<1> DEFINE Follows == Current \in Seq(Nat) /\ Runs(Current, Len(got)) /\ Len(got) + Len(Current) <= sent
<1>3. ASSUME r_buf # <<>> PROVE Follows
  BY <1>3 DEF WsInv, WsTypes, InOrder, Taken, Current
<1>4. ASSUME r_buf = <<>>, wire # <<>>, Head(wire) # Close PROVE Follows
  <2>1. Coming \in Msgs /\ Taken \in Nat /\ wire \in Msgs /\ Len(wire) \in 0..Len(Coming) /\ Len(Coming) \in Nat
        /\ \A j \in 1..Len(wire) : Coming[j] = wire[j]
    BY ComingIs
  <2>2. 1 \in 1..Len(wire) /\ Head(wire) = Coming[1] /\ Coming # <<>> /\ 1 \in 1..Len(Coming)
    BY <1>4, <2>1 DEF Msgs
  <2>3. Chain(Coming, Taken) /\ Coming[1][Len(Coming[1])] <= sent
    BY <1>4, <2>2 DEF WsInv, InOrder
  <2>4. Coming[1] \in Seq(Nat) /\ Runs(Coming[1], Taken) /\ Coming[1][Len(Coming[1])] = Taken + Len(Coming[1])
    BY <1>4, <2>1, <2>2, <2>3, ChainTail
  <2>5. Current = Coming[1] /\ Taken = Len(got)
    BY <1>4, <2>2 DEF Current, Taken, WsInv, WsTypes
  <2> QED
    BY <2>3, <2>4, <2>5
<1>5. k \in 1..Len(Current)
  BY <1>1, <1>2, <1>3, <1>4, SizesAssumption DEF Least
<1> QED
  BY <1>1, <1>2, <1>3, <1>4, <1>5

LEMMA ReadInv == ASSUME WsInv, Read PROVE WsInv'
<1>1. /\ server = "up" /\ reader = "open"
      /\ wire' = (IF r_buf # <<>> THEN wire ELSE Tail(wire))
      /\ r_buf # <<>> \/ (r_buf = <<>> /\ wire # <<>> /\ Head(wire) # Close)
      /\ UNCHANGED <<conn, sent, left, header, unsent, server, reader, fate>>
  BY DEF Read, writeVars
<1>2. /\ Current \in Seq(Nat) /\ Runs(Current, Len(got)) /\ Len(got) + Len(Current) <= sent
  BY ReadIs
<1>3. PICK k \in 1..Len(Current) :
        got' = got \o SubSeq(Current, 1, k) /\ r_buf' = SubSeq(Current, k + 1, Len(Current))
  BY ReadIs
<1>4. got \in Seq(Nat) /\ r_buf \in Seq(Nat) /\ Runs(got, 0) /\ k \in 0..Len(Current)
  BY DEF WsInv, WsTypes, InOrder
<1>5. /\ got' \in Seq(Nat) /\ Len(got') = Len(got) + k /\ Runs(got', 0)
      /\ r_buf' \in Seq(Nat) /\ Len(r_buf') = Len(Current) - k /\ Runs(r_buf', Len(got'))
  BY <1>2, <1>3, <1>4, RunSplits
<1>6. Taken' = Len(got) + Len(Current)
  BY <1>2, <1>4, <1>5 DEF Taken
<1>7. conn = "real" \/ fate = "lost"
  <2>1. CASE fate = "open"
    BY <1>1, <2>1 DEF WsInv, WsTypes, NoneMissing
  <2>2. CASE fate = "ended"
    BY <2>2 DEF WsInv, InOrder
  <2> QED
    BY <2>1, <2>2 DEF WsInv, WsTypes
<1>8. /\ Coming \in Msgs /\ Taken \in Nat /\ wire \in Msgs /\ unsent \in Msgs
      /\ Len(wire) \in 0..Len(Coming) /\ Len(Coming) \in Nat
      /\ \A j \in 1..Len(wire) : Coming[j] = wire[j]
  BY ComingIs
<1>9. /\ Chain(Coming, Taken)
      /\ \A j \in 1..Len(Coming) : IF Coming[j] = Close THEN fate # "open" ELSE Coming[j][Len(Coming[j])] <= sent
      /\ (fate = "ended" => conn = "real" /\ Coming # <<>> /\ Coming[Len(Coming)] = Close)
      /\ (fate # "lost" => EndOf(Coming, Taken, IF fate = "ended" THEN Len(Coming) - 1 ELSE Len(Coming)) = sent)
  BY <1>7 DEF WsInv, InOrder, NoneMissing
<1>10. CASE r_buf # <<>>
  <2>1. Coming' = Coming /\ Taken' = Taken /\ wire' = wire
    BY <1>1, <1>6, <1>10 DEF Coming, Taken, Current
  <2>2. WsTypes'
    BY <1>1, <1>5, <2>1 DEF WsInv, WsTypes
  <2>3. InOrder'
    BY <1>1, <1>5, <1>9, <2>1 DEF WsInv, InOrder
  <2>4. NoneMissing'
    BY <1>1, <1>7, <1>9, <2>1 DEF NoneMissing
  <2> QED
    BY <2>2, <2>3, <2>4 DEF WsInv
<1>11. CASE r_buf = <<>> /\ wire # <<>> /\ Head(wire) # Close
  <2>1. 1 \in 1..Len(wire) /\ Head(wire) = Coming[1] /\ Coming # <<>> /\ wire' = Tail(wire) /\ wire' \in Msgs
    BY <1>1, <1>8, <1>11 DEF Msgs
  <2>2. /\ Tail(Coming) \in Msgs /\ Len(Tail(Coming)) = Len(Coming) - 1
        /\ \A j \in 1..Len(Coming) - 1 : Tail(Coming)[j] = Coming[j + 1]
        /\ Chain(Tail(Coming), Taken + Len(Coming[1]))
        /\ \A j \in 0..Len(Coming) - 1 :
             EndOf(Tail(Coming), Taken + Len(Coming[1]), j) = EndOf(Coming, Taken, j + 1)
    BY <1>8, <1>9, <1>11, <2>1, ChainTail
  <2>3. Taken' = Taken + Len(Coming[1])
    <3>1. Current = Coming[1]
      BY <1>11, <2>1 DEF Current
    <3>2. Taken = Len(got) /\ Len(got) \in Nat
      BY <1>4, <1>11 DEF Taken
    <3> QED
      BY <1>6, <3>1, <3>2
  <2>4. Coming' = Tail(Coming)
    <3>1. Tail(wire) \o unsent = Tail(wire \o unsent)
      BY <1>8, <1>11, Joined
    <3> QED
      BY <1>1, <2>1, <3>1 DEF Coming
  <2>5. WsTypes'
    BY <1>1, <1>5, <2>1 DEF WsInv, WsTypes, Msgs
  <2>6. ASSUME NEW j \in 1..Len(Coming')
        PROVE  IF Coming'[j] = Close THEN fate' # "open" ELSE Coming'[j][Len(Coming'[j])] <= sent'
    <3>1. j + 1 \in 1..Len(Coming) /\ Coming'[j] = Coming[j + 1]
      BY <1>8, <2>2, <2>4
    <3> QED
      BY <1>1, <1>9, <3>1
  <2>7. ASSUME fate' = "ended" PROVE Coming' # <<>> /\ Coming'[Len(Coming')] = Close
    <3>1. fate = "ended" /\ Coming[Len(Coming)] = Close
      BY <1>1, <1>9, <2>7
    <3>2. Coming[1] # Close
      BY <1>11, <2>1
    <3>3. Len(Coming) >= 1 /\ Len(Coming) # 1
      BY <1>8, <2>1, <3>1, <3>2 DEF Msgs
    <3>4. Len(Coming) - 1 \in 1..Len(Coming) - 1 /\ (Len(Coming) - 1) + 1 = Len(Coming)
      <4>1. \A x \in Nat : x >= 1 /\ x # 1 => x - 1 \in 1..x - 1 /\ (x - 1) + 1 = x
        OBVIOUS
      <4> QED
        BY <1>8, <3>3, <4>1
    <3>5. Tail(Coming)[Len(Coming) - 1] = Close /\ Len(Tail(Coming)) = Len(Coming) - 1
      BY <2>2, <3>1, <3>4
    <3> QED
      BY <2>4, <3>4, <3>5 DEF Msgs
  <2>8. InOrder'
    <3>1. Taken' <= sent'
      BY <1>1, <1>2, <1>6
    <3> QED
      BY <1>1, <1>5, <1>9, <2>2, <2>3, <2>4, <2>6, <2>7, <3>1 DEF InOrder
  <2>9. NoneMissing'
    <3>1. ASSUME fate' # "lost"
          PROVE  EndOf(Coming', Taken', IF fate' = "ended" THEN Len(Coming') - 1 ELSE Len(Coming')) = sent'
      <4>1. CASE fate = "ended"
        <5>1. Len(Coming') >= 1 /\ Len(Coming') = Len(Coming) - 1
          BY <1>1, <1>8, <2>2, <2>4, <2>7, <4>1 DEF Msgs
        <5>2. Len(Coming') - 1 \in 0..Len(Coming) - 1 /\ (Len(Coming') - 1) + 1 = Len(Coming) - 1
          BY <1>8, <5>1
        <5>3. EndOf(Coming', Taken', Len(Coming') - 1) = EndOf(Coming, Taken, Len(Coming) - 1)
          BY <2>2, <2>3, <2>4, <5>2
        <5> QED
          BY <1>1, <1>9, <4>1, <5>3
      <4>2. CASE fate # "ended"
        <5>1. Len(Coming) - 1 \in 0..Len(Coming) - 1 /\ Len(Coming') = Len(Coming) - 1 /\ (Len(Coming) - 1) + 1 = Len(Coming)
          BY <1>8, <2>1, <2>2, <2>4 DEF Msgs
        <5>2. EndOf(Coming', Taken', Len(Coming')) = EndOf(Coming, Taken, Len(Coming))
          BY <2>2, <2>3, <2>4, <5>1
        <5> QED
          BY <1>1, <1>9, <3>1, <4>2, <5>2
      <4> QED
        BY <4>1, <4>2
    <3> QED
      BY <1>1, <1>7, <3>1 DEF NoneMissing
  <2> QED
    BY <2>5, <2>8, <2>9 DEF WsInv
<1> QED
  BY <1>1, <1>10, <1>11

LEMMA ReadEndInv == ASSUME WsInv, ReadEnd PROVE WsInv'
<1>1. /\ server = "up" /\ reader' \in {"eof", "failed"}
      /\ UNCHANGED <<conn, sent, left, header, unsent, wire, server, r_buf, got, fate>>
  BY DEF ReadEnd, writeVars
<1>2. Coming' = Coming /\ Taken' = Taken
  BY <1>1 DEF Coming, Taken
<1> QED
  BY <1>1, <1>2 DEF WsInv, WsTypes, InOrder, NoneMissing, Runs

LEMMA WsStep == WsInv /\ [Next]_vars => WsInv'
<1> SUFFICES ASSUME WsInv, [Next]_vars PROVE WsInv'
  OBVIOUS
<1>1. CASE UNCHANGED vars
  <2>1. UNCHANGED <<conn, sent, left, header, unsent, wire, server, r_buf, got, reader, fate>>
    BY <1>1 DEF vars, writeVars, readVars
  <2>2. Coming' = Coming /\ Taken' = Taken
    BY <2>1 DEF Coming, Taken
  <2> QED
    BY <2>1, <2>2 DEF WsInv, WsTypes, InOrder, NoneMissing, Runs
<1> QED
  BY <1>1, WriteInv, WriteEarlyInv, DialOkInv, FlushInv, FlushedInv, ShutdownInv, NotEstablishedInv,
     BreakInv, HandshakeInv, ReadInv, ReadEndInv DEF Next

-----------------------------------------------------------------------------
(* The refinement *)

LEMMA PipeInit == Init => Pipe!Init
  BY DEF Init, Pipe!Init

LEMMA PipeWrites ==
  ASSUME WsInv, Write \/ WriteEarly
  PROVE  Pipe!Put
<1>1. /\ fate = "open" /\ UNCHANGED <<got, fate, reader>>
  BY DEF Write, WriteEarly, readVars
<1>2. sent \in 0..Total /\ Total \in Nat
  BY SizesAssumption DEF WsInv, WsTypes
<1>3. CASE Write
  <2>1. PICK n \in 1..Least(IF step = "first" THEN MaxFirst ELSE MaxWrite, Total - sent) : sent' = sent + n
    BY <1>3 DEF Write
  <2> QED
    BY <1>1, <1>2, <2>1, SizesAssumption DEF Least, Pipe!Put
<1>4. CASE WriteEarly
  <2>1. PICK n \in 1..Least(MaxFirst, Total) : sent' = n
    BY <1>4 DEF WriteEarly
  <2>2. sent = 0
    BY <1>4 DEF WriteEarly, WsInv, NoneMissing
  <2> QED
    BY <1>1, <1>2, <2>1, <2>2, SizesAssumption DEF Least, Pipe!Put
<1> QED
  BY <1>3, <1>4

LEMMA PipeReads ==
  ASSUME WsInv, Handshake \/ Read
  PROVE  Pipe!Take
<1>1. UNCHANGED <<sent, fate, reader>> /\ reader = "open"
  BY HandshakeIs DEF Handshake, Read, writeVars
<1>2. got \in Seq(Nat) /\ sent \in Nat /\ Len(got) \in Nat
  BY SizesAssumption DEF WsInv, WsTypes
<1>3. CASE Handshake
  <2>1. /\ got = <<>> /\ got' = header /\ Runs(header, 0) /\ header \in Seq(Nat)
        /\ Len(header) \in 1..sent
    BY <1>3, HandshakeIs
  <2>2. header = [i \in 1..Len(header) |-> Len(got) + i]
    BY <2>1 DEF Runs
  <2>3. got' = got \o [i \in 1..Len(header) |-> Len(got) + i]
    BY <2>1, <2>2
  <2>4. Len(header) \in 1..(sent - Len(got))
    BY <1>2, <2>1
  <2> QED
    BY <1>1, <2>3, <2>4 DEF Pipe!Take
<1>4. CASE Read
  <2>1. Current \in Seq(Nat) /\ Runs(Current, Len(got)) /\ Len(got) + Len(Current) <= sent
    BY <1>4, ReadIs
  <2>2. PICK k \in 1..Len(Current) : got' = got \o SubSeq(Current, 1, k)
    BY <1>4, ReadIs
  <2>3. SubSeq(Current, 1, k) = [i \in 1..k |-> Len(got) + i]
    BY <1>2, <2>1, <2>2, RunIs
  <2>4. k \in 1..(sent - Len(got))
    BY <1>2, <2>1, <2>2
  <2>5. got' = got \o [i \in 1..k |-> Len(got) + i]
    BY <2>2, <2>3
  <2> QED
    BY <1>1, <2>4, <2>5 DEF Pipe!Take
<1> QED
  BY <1>3, <1>4

LEMMA PipeEnds ==
  ASSUME WsInv, ReadEnd
  PROVE  Pipe!End \/ UNCHANGED Pipe!vars
<1>1. /\ reader = "open" /\ r_buf = <<>> /\ UNCHANGED <<sent, got, fate>>
      /\ \/ wire # <<>> /\ Head(wire) = Close /\ reader' = "eof"
         \/ wire = <<>> /\ fate = "lost" /\ reader' = "failed"
  BY DEF ReadEnd, writeVars
<1>2. CASE wire = <<>> /\ fate = "lost" /\ reader' = "failed"
  BY <1>1, <1>2 DEF Pipe!vars
<1>3. CASE wire # <<>> /\ Head(wire) = Close /\ reader' = "eof"
  <2>1. /\ Coming \in Msgs /\ wire \in Msgs /\ Len(wire) \in 0..Len(Coming) /\ Len(Coming) \in Nat
        /\ \A j \in 1..Len(wire) : Coming[j] = wire[j]
    BY ComingIs
  <2>2. 1 \in 1..Len(wire) /\ 1 \in 1..Len(Coming) /\ Coming[1] = Close
    BY <1>3, <2>1 DEF Msgs
  <2>3. Len(Coming) = 1 /\ fate # "open" /\ (fate = "ended" => conn = "real")
    BY <2>2 DEF WsInv, InOrder, Chain
  <2>4. fate = "ended" => Len(got) = sent
    <3> SUFFICES ASSUME fate = "ended" PROVE Len(got) = sent
      OBVIOUS
    <3>1. EndOf(Coming, Taken, 0) = sent
      BY <2>3 DEF WsInv, NoneMissing
    <3> QED
      BY <1>1, <3>1 DEF EndOf, Taken, WsInv, WsTypes
  <2>5. fate \in {"ended", "lost"}
    BY <2>3 DEF WsInv, WsTypes
  <2> QED
    BY <1>1, <1>3, <2>4, <2>5 DEF Pipe!End
<1> QED
  BY <1>1, <1>2, <1>3

LEMMA PipeStep == WsInv /\ [Next]_vars => [Pipe!Next]_(Pipe!vars)
<1> SUFFICES ASSUME WsInv, [Next]_vars PROVE Pipe!Next \/ UNCHANGED Pipe!vars
  OBVIOUS
<1>1. CASE DialOk \/ Flush \/ Flushed \/ UNCHANGED vars
  BY <1>1 DEF DialOk, Flush, Flushed, vars, writeVars, readVars, Pipe!vars
<1>2. CASE Shutdown
  BY <1>2 DEF Shutdown, readVars, Pipe!Close, Pipe!Next
<1>3. CASE NotEstablished \/ Break
  BY <1>3 DEF NotEstablished, Break, readVars, Pipe!Lose, Pipe!Next
<1> QED
  BY <1>1, <1>2, <1>3, PipeWrites, PipeReads, PipeEnds DEF Next, Pipe!Next

\* For any sizes of the writes, messages, reads and the part that fits into the
\* request: the way up through a WebSocket gives the bytes that were written,
\* once and in order, whoever writes first, and reports the end only behind them.
THEOREM PipeRefined == Spec => PipeSpec
<1>1. Init /\ [][Next]_vars => []WsInv
  BY WsInit, WsStep, PTL
<1> QED
  BY <1>1, PipeInit, PipeStep, PTL DEF Spec, PipeSpec, Pipe!Spec
=============================================================================
