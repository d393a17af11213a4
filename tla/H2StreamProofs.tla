---------------------------- MODULE H2StreamProofs ----------------------------
(* The h2 streams are byte pipes, for any sizes of writes, frames, heads, reads
   and any window. *)
EXTENDS H2Stream, TLAPS

-----------------------------------------------------------------------------
(* Frames that follow each other *)

\* The bytes of b are those of the payload that follow byte lo.
Runs(b, lo) == \A i \in 1..Len(b) : b[i] = lo + i

\* A point of the stream: how much of the payload is before it, and how much of
\* its message is behind it.
Points(hi) == (0..hi) \X Nat

\* f leads from s to t: as plain bytes, in the midst of a message, ...
Plain(f, s, t) == f # <<>> /\ Runs(f, s[1]) /\ t = <<s[1] + Len(f), 0>>
Body(f, s, t)  == /\ f # <<>> /\ Runs(f, s[1]) /\ Len(f) <= s[2]
                  /\ t = <<s[1] + Len(f), s[2] - Len(f)>>

\* ... or at the beginning of one, with its head whole and some of its payload.
\* Only a message that is an error to the writer (z) has none.
Headed(z, f, s, t) ==
  /\ s[2] = 0
  /\ \E n \in Nat :
       /\ Len(f) >= HeadLen /\ \A i \in 1..HeadLen : f[i] = -(n + 1)
       /\ \A i \in 1..Len(f) - HeadLen : f[HeadLen + i] = s[1] + i
       /\ Len(f) - HeadLen <= n
       /\ IF n = 0 THEN z ELSE Len(f) > HeadLen
       /\ t = <<s[1] + (Len(f) - HeadLen), n - (Len(f) - HeadLen)>>

Carries(k, z, f, s, t) == IF k = "h2" THEN Plain(f, s, t) ELSE Body(f, s, t) \/ Headed(z, f, s, t)

\* The frames q lead from s to t.
Leads(k, z, q, at) == \A j \in 1..Len(q) : Carries(k, z, q[j], at[j - 1], at[j])
Flows(k, z, hi, q, s, t) ==
  \E at \in [0..Len(q) -> Points(hi)] : at[0] = s /\ at[Len(q)] = t /\ Leads(k, z, q, at)

-----------------------------------------------------------------------------
(* The inductive invariant *)

\* The writing end gave an error or is gone.
Failed == writer \in {"zero", "reset"}

\* The last of the frames may have been lost.
Shortened == writer = "reset" \/ conn = "lost"

\* What is buffered behind g bytes that were read leads to s: the rest of a frame
\* of h2 or of a message of which l bytes are missing, or a frame whose head was not looked at.
Buffered(k, z, g, b, l, s) ==
  \/ k = "h2" /\ l = 0 /\ Runs(b, g) /\ s = <<g + Len(b), 0>>
  \/ k # "h2" /\ Runs(b, g) /\ Len(b) <= l /\ s = <<g + Len(b), l - Len(b)>>
  \/ k # "h2" /\ l = 0 /\ Headed(z, b, <<g, 0>>, s)

Frames == Seq(Seq(Int))

H2Types ==
  /\ kind \in {"h2", "grpc", "zero_rtt"} /\ sent \in 0..Total /\ window \in Nat
  /\ writer \in {"open", "shut", "zero", "panicked", "reset"} /\ conn \in {"up", "told", "lost"}
  /\ wire \in Frames /\ buffer \in Seq(Int) /\ got \in Seq(Int) /\ next_data_len \in Nat
  /\ reader \in {"open", "eof", "failed"}

\* What was read, what is buffered and what is on the wire is one stream, up to
\* the last byte sent unless a reset, or the loss of the connection, took the
\* end of it.
OneStream ==
  /\ Runs(got, 0)
  /\ \E s, t \in Points(sent) :
       /\ Buffered(kind, Failed, Len(got), buffer, next_data_len, s)
       /\ Flows(kind, Failed, sent, wire, s, t)
       /\ ~Shortened => t = <<sent, 0>>

H2Inv == H2Types /\ OneStream

-----------------------------------------------------------------------------
(* Lemmas on the flow of frames *)

LEMMA FlowsNone ==
  ASSUME NEW k, NEW z, NEW hi \in Nat, NEW s \in Points(hi)
  PROVE  Flows(k, z, hi, <<>>, s, s)
<1> DEFINE at == [i \in 0..0 |-> s]
<1>1. at \in [0..Len(<<>>) -> Points(hi)] /\ at[0] = s
  OBVIOUS
<1>2. Len(<<>>) = 0 /\ Leads(k, z, <<>>, at)
  BY DEF Leads
<1> HIDE DEF at
<1> QED
  BY <1>1, <1>2 DEF Flows

LEMMA FlowsNowhere ==
  ASSUME NEW k, NEW z, NEW hi \in Nat, NEW s, NEW t, Flows(k, z, hi, <<>>, s, t)
  PROVE  t = s
  BY DEF Flows

LEMMA CarriesGrow ==
  ASSUME NEW k, NEW z \in BOOLEAN, NEW z2 \in BOOLEAN, z => z2, NEW f, NEW s, NEW t, Carries(k, z, f, s, t)
  PROVE  Carries(k, z2, f, s, t)
  BY DEF Carries, Headed

LEMMA FlowsGrow ==
  ASSUME NEW k, NEW z \in BOOLEAN, NEW z2 \in BOOLEAN, z => z2, NEW hi \in Nat, NEW hi2 \in Nat, hi <= hi2,
         NEW q \in Frames, NEW s, NEW t, Flows(k, z, hi, q, s, t)
  PROVE  Flows(k, z2, hi2, q, s, t)
<1>1. PICK at \in [0..Len(q) -> Points(hi)] : at[0] = s /\ at[Len(q)] = t /\ Leads(k, z, q, at)
  BY DEF Flows
<1>2. at \in [0..Len(q) -> Points(hi2)]
  BY DEF Points
<1>3. Leads(k, z2, q, at)
  BY <1>1, CarriesGrow DEF Leads
<1> QED
  BY <1>1, <1>2, <1>3 DEF Flows

LEMMA FlowsJoin ==
  ASSUME NEW k, NEW z, NEW hi \in Nat, NEW q \in Frames, NEW r \in Frames, NEW s, NEW t, NEW u,
         Flows(k, z, hi, q, s, t), Flows(k, z, hi, r, t, u)
  PROVE  Flows(k, z, hi, q \o r, s, u)
<1>1. PICK a \in [0..Len(q) -> Points(hi)] : a[0] = s /\ a[Len(q)] = t /\ Leads(k, z, q, a)
  BY DEF Flows
<1>2. PICK b \in [0..Len(r) -> Points(hi)] : b[0] = t /\ b[Len(r)] = u /\ Leads(k, z, r, b)
  BY DEF Flows
<1>3. Len(q) \in Nat /\ Len(r) \in Nat /\ Len(q \o r) = Len(q) + Len(r)
      /\ \A j \in 1..Len(q \o r) : (q \o r)[j] = IF j <= Len(q) THEN q[j] ELSE r[j - Len(q)]
  BY DEF Frames
<1> DEFINE c == [j \in 0..Len(q) + Len(r) |-> IF j <= Len(q) THEN a[j] ELSE b[j - Len(q)]]
<1>4. /\ \A j \in 0..Len(q) : c[j] = a[j]
      /\ \A j \in 0..Len(r) : c[Len(q) + j] = b[j]
  <2>1. ASSUME NEW j \in 0..Len(q) PROVE c[j] = a[j]
    BY <1>3
  <2>2. ASSUME NEW j \in 0..Len(r) PROVE c[Len(q) + j] = b[j]
    <3>1. CASE j = 0
      BY <1>1, <1>2, <1>3, <3>1
    <3>2. CASE j > 0
      BY <1>3, <3>2
    <3> QED
      BY <3>1, <3>2
  <2> QED
    BY <2>1, <2>2
<1>5. c \in [0..Len(q \o r) -> Points(hi)]
  <2>1. ASSUME NEW j \in 0..Len(q) + Len(r)
        PROVE  (IF j <= Len(q) THEN a[j] ELSE b[j - Len(q)]) \in Points(hi)
    <3>1. CASE j <= Len(q)
      BY <1>3, <3>1
    <3>2. CASE ~(j <= Len(q))
      <4>1. j - Len(q) \in 0..Len(r)
        BY <1>3, <3>2
      <4> QED
        BY <3>2, <4>1
    <3> QED
      BY <3>1, <3>2
  <2> QED
    BY <1>3, <2>1
<1> HIDE DEF c
<1>6. c[0] = s /\ c[Len(q \o r)] = u
  BY <1>1, <1>2, <1>3, <1>4
<1>7. Leads(k, z, q \o r, c)
  <2> SUFFICES ASSUME NEW j \in 1..Len(q \o r) PROVE Carries(k, z, (q \o r)[j], c[j - 1], c[j])
    BY DEF Leads
  <2>1. CASE j <= Len(q)
    <3>1. j \in 1..Len(q) /\ j \in 0..Len(q) /\ j - 1 \in 0..Len(q) /\ (q \o r)[j] = q[j]
      BY <1>3, <2>1
    <3>2. c[j - 1] = a[j - 1] /\ c[j] = a[j]
      BY <1>4, <3>1
    <3>3. Carries(k, z, q[j], a[j - 1], a[j])
      BY <1>1, <3>1 DEF Leads
    <3> QED
      BY <3>1, <3>2, <3>3
  <2>2. CASE ~(j <= Len(q))
    <3>1. /\ j - Len(q) \in 1..Len(r) /\ j - Len(q) \in 0..Len(r) /\ (j - Len(q)) - 1 \in 0..Len(r)
          /\ (q \o r)[j] = r[j - Len(q)]
          /\ Len(q) + (j - Len(q)) = j /\ Len(q) + ((j - Len(q)) - 1) = j - 1
      BY <1>3, <2>2, SMTT(30)
    <3>2. c[j] = b[j - Len(q)] /\ c[j - 1] = b[(j - Len(q)) - 1]
      BY <1>4, <3>1
    <3>3. Carries(k, z, r[j - Len(q)], b[(j - Len(q)) - 1], b[j - Len(q)])
      BY <1>2, <3>1 DEF Leads
    <3> QED
      BY <3>1, <3>2, <3>3
  <2> QED
    BY <2>1, <2>2
<1> QED
  BY <1>5, <1>6, <1>7 DEF Flows

LEMMA FlowsHead ==
  ASSUME NEW k, NEW z, NEW hi \in Nat, NEW q \in Frames, q # <<>>, NEW s, NEW t, Flows(k, z, hi, q, s, t)
  PROVE  \E m \in Points(hi) : Carries(k, z, Head(q), s, m) /\ Flows(k, z, hi, Tail(q), m, t)
<1>1. PICK a \in [0..Len(q) -> Points(hi)] : a[0] = s /\ a[Len(q)] = t /\ Leads(k, z, q, a)
  BY DEF Flows
<1>2. /\ Len(q) \in Nat /\ Len(q) >= 1 /\ Head(q) = q[1] /\ Len(Tail(q)) = Len(q) - 1
      /\ \A j \in 1..Len(q) - 1 : Tail(q)[j] = q[j + 1]
  BY DEF Frames
<1> DEFINE b == [j \in 0..Len(q) - 1 |-> a[j + 1]]
<1>3. b \in [0..Len(Tail(q)) -> Points(hi)]
  BY <1>2
<1>4. \A j \in 0..Len(q) - 1 : b[j] = a[j + 1]
  OBVIOUS
<1> HIDE DEF b
<1>5. b[0] = a[1] /\ b[Len(Tail(q))] = t
  BY <1>1, <1>2, <1>4
<1>6. Carries(k, z, Head(q), s, a[1]) /\ a[1] \in Points(hi)
  BY <1>1, <1>2 DEF Leads
<1>7. Leads(k, z, Tail(q), b)
  <2> SUFFICES ASSUME NEW j \in 1..Len(q) - 1 PROVE Carries(k, z, Tail(q)[j], b[j - 1], b[j])
    BY <1>2 DEF Leads
  <2>1. j - 1 \in 0..Len(q) - 1 /\ j \in 0..Len(q) - 1 /\ j + 1 \in 1..Len(q) /\ (j - 1) + 1 = j /\ (j + 1) - 1 = j
    BY <1>2
  <2>2. b[j - 1] = a[j] /\ b[j] = a[j + 1] /\ Tail(q)[j] = q[j + 1]
    BY <1>2, <1>4, <2>1
  <2>3. Carries(k, z, q[j + 1], a[(j + 1) - 1], a[j + 1])
    BY <1>1, <2>1 DEF Leads
  <2> QED
    BY <2>1, <2>2, <2>3
<1>8. Flows(k, z, hi, Tail(q), a[1], t)
  BY <1>3, <1>5, <1>7 DEF Flows
<1> QED
  BY <1>6, <1>8

LEMMA FlowsPrefix ==
  ASSUME NEW k, NEW z, NEW hi \in Nat, NEW q \in Frames, NEW n \in 0..Len(q), NEW s, NEW t, Flows(k, z, hi, q, s, t)
  PROVE  SubSeq(q, 1, n) \in Frames /\ \E m \in Points(hi) : Flows(k, z, hi, SubSeq(q, 1, n), s, m)
<1>1. PICK a \in [0..Len(q) -> Points(hi)] : a[0] = s /\ a[Len(q)] = t /\ Leads(k, z, q, a)
  BY DEF Flows
<1>2. /\ SubSeq(q, 1, n) \in Frames /\ Len(SubSeq(q, 1, n)) = n /\ n \in Nat /\ n <= Len(q) /\ Len(q) \in Nat
      /\ \A j \in 1..n : SubSeq(q, 1, n)[j] = q[j]
  BY DEF Frames
<1> DEFINE b == [j \in 0..n |-> a[j]]
<1>3. b \in [0..Len(SubSeq(q, 1, n)) -> Points(hi)] /\ \A j \in 0..n : b[j] = a[j]
  BY <1>2
<1> HIDE DEF b
<1>4. b[0] = s /\ b[n] = a[n] /\ a[n] \in Points(hi)
  BY <1>1, <1>2, <1>3
<1>5. Leads(k, z, SubSeq(q, 1, n), b)
  <2> SUFFICES ASSUME NEW j \in 1..n PROVE Carries(k, z, SubSeq(q, 1, n)[j], b[j - 1], b[j])
    BY <1>2 DEF Leads
  <2>1. j - 1 \in 0..n /\ j \in 0..n /\ j \in 1..Len(q)
    BY <1>2
  <2>2. Carries(k, z, q[j], a[j - 1], a[j])
    BY <1>1, <2>1 DEF Leads
  <2> QED
    BY <1>2, <1>3, <2>1, <2>2
<1> QED
  BY <1>2, <1>3, <1>4, <1>5 DEF Flows

-----------------------------------------------------------------------------
(* What the h2 library makes of one write *)

LEMMA QuotientIs ==
  ASSUME NEW a \in Nat, NEW m \in Nat, m > 0
  PROVE  a \div m \in Nat /\ (a \div m) * m <= a /\ a < (a \div m) * m + m
<1>1. a \div m \in Nat
  OBVIOUS
<1>2. (a \div m) * m <= a
  OBVIOUS
<1>3. a < ((a \div m) + 1) * m
  OBVIOUS
<1>4. \A x \in Nat : (x + 1) * m = x * m + m
  OBVIOUS
<1> QED
  BY <1>1, <1>2, <1>3, <1>4

LEMMA ProductNat == ASSUME NEW a \in Nat, NEW m \in Nat PROVE a * m \in Nat
  OBVIOUS

LEMMA ProductLess ==
  ASSUME NEW a \in Nat, NEW b \in Nat, a <= b, NEW m \in Nat
  PROVE  a * m <= b * m
  OBVIOUS

LEMMA ProductPred ==
  ASSUME NEW a \in Nat, a >= 1, NEW m \in Nat
  PROVE  (a - 1) * m = a * m - m
  OBVIOUS

\* How many frames there are for b: all but the last are full.
LEMMA FrameCount ==
  ASSUME NEW l \in Nat, l >= 1, NEW m \in Nat, m > 0
  PROVE  LET c == (l + m - 1) \div m
         IN  c \in Nat /\ c >= 1 /\ l <= c * m /\ (c - 1) * m < l
<1> DEFINE a == l + m - 1
<1>1. a \in Nat /\ a >= m /\ a = l + m - 1
  OBVIOUS
<1> HIDE DEF a
<1> DEFINE c == a \div m
<1>2. c \in Nat /\ c * m <= a /\ a < c * m + m
  BY <1>1, QuotientIs
<1> HIDE DEF c
<1>3. c * m \in Nat
  BY <1>2, ProductNat
<1>4. c >= 1
  <2>1. CASE c = 0
    <3>1. c * m = 0
      BY <2>1
    <3> QED
      BY <1>1, <1>2, <3>1
  <2> QED
    BY <1>2, <2>1
<1>5. (c - 1) * m = c * m - m
  BY <1>2, <1>4, ProductPred
<1>6. l <= c * m /\ (c - 1) * m < l
  BY <1>1, <1>2, <1>3, <1>5
<1> QED
  BY <1>2, <1>4, <1>6 DEF c, a

\* The frames of b, cut at multiples of MaxFrame.
Cut(b, j) == Least(j * MaxFrame, Len(b))

LEMMA FramesOf ==
  ASSUME NEW b \in Seq(Int), b # <<>>
  PROVE  LET q == send_data(b)
         IN  /\ q \in Frames /\ Len(q) >= 1 /\ Cut(b, 0) = 0 /\ Cut(b, Len(q)) = Len(b)
             /\ \A j \in 1..Len(q) :
                  /\ Cut(b, j - 1) \in Nat /\ Cut(b, j) \in Nat /\ Cut(b, j - 1) < Cut(b, j) /\ Cut(b, j) <= Len(b)
                  /\ Cut(b, j - 1) = (j - 1) * MaxFrame
                  /\ Len(q[j]) = Cut(b, j) - Cut(b, j - 1)
                  /\ \A i \in 1..Len(q[j]) : q[j][i] = b[Cut(b, j - 1) + i]
<1> DEFINE M == MaxFrame
           L == Len(b)
           c == (L + M - 1) \div M
           q == send_data(b)
<1>1. M \in Nat /\ M > 0 /\ L \in Nat /\ L >= 1
  BY FramesAssumption, SizesAssumption
<1>2. c \in Nat /\ c >= 1 /\ L <= c * M /\ (c - 1) * M < L
  BY <1>1, FrameCount
<1>3. q = [j \in 1..c |-> SubSeq(b, (j - 1) * M + 1, Least(j * M, L))]
  BY DEF send_data
<1> HIDE DEF c, q
<1>4. ASSUME NEW j \in 1..c
      PROVE  /\ j \in Nat /\ j * M \in Nat /\ (j - 1) * M \in Nat /\ (j - 1) * M = j * M - M
             /\ (j - 1) * M < L
  <2>1. j \in Nat /\ j - 1 \in Nat /\ c - 1 \in Nat /\ j - 1 <= c - 1 /\ j >= 1
    BY <1>2
  <2>2. j * M \in Nat /\ (j - 1) * M \in Nat /\ (j - 1) * M = j * M - M /\ (c - 1) * M \in Nat
    BY <1>1, <2>1, ProductNat, ProductPred
  <2>3. (j - 1) * M <= (c - 1) * M
    BY <1>1, <2>1, ProductLess
  <2> QED
    BY <1>1, <1>2, <2>1, <2>2, <2>3
<1>5. ASSUME NEW j \in 1..c
      PROVE  /\ Cut(b, j) \in Nat /\ Cut(b, j) <= L /\ (j - 1) * M < Cut(b, j)
             /\ Cut(b, j - 1) = (j - 1) * M
             /\ q[j] = SubSeq(b, (j - 1) * M + 1, Cut(b, j))
  <2>1. Cut(b, j) = Least(j * M, L) /\ Cut(b, j - 1) = Least((j - 1) * M, L)
    BY DEF Cut
  <2>2. q[j] = SubSeq(b, (j - 1) * M + 1, Cut(b, j))
    BY <1>3, <2>1
  <2>3. /\ Least(j * M, L) \in Nat /\ Least(j * M, L) <= L /\ (j - 1) * M < Least(j * M, L)
        /\ Least((j - 1) * M, L) = (j - 1) * M
    BY <1>1, <1>4 DEF Least
  <2> QED
    BY <2>1, <2>2, <2>3
<1>6. ASSUME NEW j \in 1..c
      PROVE  /\ q[j] \in Seq(Int) /\ Len(q[j]) = Cut(b, j) - Cut(b, j - 1)
             /\ \A i \in 1..Len(q[j]) : q[j][i] = b[Cut(b, j - 1) + i]
  <2>1. ASSUME NEW x \in Nat, NEW y \in Nat, x < y, y <= L
        PROVE  /\ SubSeq(b, x + 1, y) \in Seq(Int) /\ Len(SubSeq(b, x + 1, y)) = y - x
               /\ \A i \in 1..(y - x) : SubSeq(b, x + 1, y)[i] = b[x + i]
    BY <1>1, <2>1
  <2>2. (j - 1) * M \in Nat
    BY <1>4
  <2>3. ASSUME NEW x \in Nat, x = (j - 1) * M, NEW y \in Nat, y = Cut(b, j)
        PROVE  /\ q[j] \in Seq(Int) /\ Len(q[j]) = y - x
               /\ \A i \in 1..Len(q[j]) : q[j][i] = b[x + i]
    <3>1. x < y /\ y <= L /\ q[j] = SubSeq(b, x + 1, y)
      BY <1>5, <2>3
    <3> QED
      BY <2>1, <3>1
  <2> QED
    BY <1>5, <2>2, <2>3
<1>7. Len(q) = c /\ q \in Frames
  <2>1. \A j \in 1..c : q[j] \in Seq(Int)
    BY <1>6
  <2> QED
    BY <1>2, <1>3, <2>1 DEF Frames
<1>8. Cut(b, 0) = 0
  <2>1. 0 * M = 0
    BY <1>1
  <2> QED
    BY <1>1, <2>1 DEF Cut, Least
<1>9. Cut(b, c) = L
  <2>1. c * M \in Nat
    BY <1>1, <1>2, ProductNat
  <2> QED
    BY <1>1, <1>2, <2>1 DEF Cut, Least
<1> QED
  BY <1>2, <1>4, <1>5, <1>6, <1>7, <1>8, <1>9 DEF q

LEMMA Concat ==
  ASSUME NEW x \in Seq(Int), NEW y \in Seq(Int)
  PROVE  /\ x \o y \in Seq(Int) /\ Len(x \o y) = Len(x) + Len(y)
         /\ \A i \in 1..Len(x) : (x \o y)[i] = x[i]
         /\ \A i \in 1..Len(y) : (x \o y)[Len(x) + i] = y[i]
  OBVIOUS

LEMMA BytesAre ==
  ASSUME NEW p \in Nat, NEW n \in Nat
  PROVE  Bytes(p, n) \in Seq(Int) /\ Len(Bytes(p, n)) = n /\ \A i \in 1..n : Bytes(p, n)[i] = p + i
  BY DEF Bytes

\* Bytes that are sent without a head.
LEMMA SendPlain ==
  ASSUME NEW z, NEW hi \in Nat, NEW p \in Nat, NEW n \in Nat, n >= 1, p + n <= hi
  PROVE  /\ send_data(Bytes(p, n)) \in Frames
         /\ Flows("h2", z, hi, send_data(Bytes(p, n)), <<p, 0>>, <<p + n, 0>>)
<1> DEFINE b == Bytes(p, n)
           q == send_data(b)
           at == [j \in 0..Len(q) |-> <<p + Cut(b, j), 0>>]
<1>1. b \in Seq(Int) /\ Len(b) = n /\ b # <<>> /\ \A i \in 1..n : b[i] = p + i
  BY BytesAre
<1> HIDE DEF b
<1>2. /\ q \in Frames /\ Len(q) >= 1 /\ Cut(b, 0) = 0 /\ Cut(b, Len(q)) = Len(b)
      /\ \A j \in 1..Len(q) :
           /\ Cut(b, j - 1) \in Nat /\ Cut(b, j) \in Nat /\ Cut(b, j - 1) < Cut(b, j) /\ Cut(b, j) <= Len(b)
           /\ Len(q[j]) = Cut(b, j) - Cut(b, j - 1)
           /\ \A i \in 1..Len(q[j]) : q[j][i] = b[Cut(b, j - 1) + i]
  BY <1>1, FramesOf
<1> HIDE DEF q
<1>3. Len(q) \in Nat
  BY <1>2 DEF Frames
<1>4. \A j \in 0..Len(q) : at[j] = <<p + Cut(b, j), 0>>
  OBVIOUS
<1>5. ASSUME NEW j \in 0..Len(q) PROVE Cut(b, j) \in Nat /\ Cut(b, j) <= n
  BY <1>1, <1>2, <1>3
<1>6. at \in [0..Len(q) -> Points(hi)]
  BY <1>5 DEF Points
<1> HIDE DEF at
<1>7. at[0] = <<p, 0>> /\ at[Len(q)] = <<p + n, 0>>
  <2>1. at[0] = <<p + Cut(b, 0), 0>> /\ at[Len(q)] = <<p + Cut(b, Len(q)), 0>>
    BY <1>3, <1>4
  <2>2. Cut(b, 0) = 0 /\ Cut(b, Len(q)) = n
    BY <1>1, <1>2
  <2> QED
    BY <2>1, <2>2
<1>8. ASSUME NEW j \in 1..Len(q) PROVE Carries("h2", z, q[j], at[j - 1], at[j])
  <2>1. at[j - 1] = <<p + Cut(b, j - 1), 0>> /\ at[j] = <<p + Cut(b, j), 0>>
    BY <1>3, <1>4
  <2>2. /\ Cut(b, j - 1) \in Nat /\ Cut(b, j) \in Nat /\ Cut(b, j - 1) < Cut(b, j) /\ Cut(b, j) <= n
        /\ Len(q[j]) = Cut(b, j) - Cut(b, j - 1)
        /\ \A i \in 1..Len(q[j]) : q[j][i] = b[Cut(b, j - 1) + i]
    BY <1>1, <1>2
  <2>3. ASSUME NEW i \in 1..Len(q[j]) PROVE q[j][i] = (p + Cut(b, j - 1)) + i
    <3>1. Cut(b, j - 1) + i \in 1..n
      BY <2>2
    <3> QED
      BY <1>1, <2>2, <3>1
  <2>4. q[j] # <<>>
    BY <2>2
  <2>5. (p + Cut(b, j - 1)) + Len(q[j]) = p + Cut(b, j)
    BY <2>2
  <2> QED
    BY <2>1, <2>3, <2>4, <2>5 DEF Carries, Plain, Runs
<1>9. Flows("h2", z, hi, q, <<p, 0>>, <<p + n, 0>>)
  BY <1>6, <1>7, <1>8 DEF Flows, Leads
<1> QED
  BY <1>2, <1>9 DEF q, b

\* A message: the head and the first of its payload are in one frame.
LEMMA SendMessage ==
  ASSUME NEW k, k # "h2", NEW z \in BOOLEAN, NEW hi \in Nat, NEW p \in Nat, NEW n \in Nat, p + n <= hi, n = 0 => z
  PROVE  /\ encode_head(n) \o Bytes(p, n) \in Seq(Int) /\ Len(encode_head(n) \o Bytes(p, n)) = HeadLen + n
         /\ send_data(encode_head(n) \o Bytes(p, n)) \in Frames
         /\ Flows(k, z, hi, send_data(encode_head(n) \o Bytes(p, n)), <<p, 0>>, <<p + n, 0>>)
<1> DEFINE b == encode_head(n) \o Bytes(p, n)
           q == send_data(b)
           at == [j \in 0..Len(q) |-> IF j = 0 THEN <<p, 0>>
                                      ELSE <<p + (Cut(b, j) - HeadLen), n - (Cut(b, j) - HeadLen)>>]
<1>0. HeadLen \in Nat /\ HeadLen >= 1 /\ MaxFrame \in Nat /\ MaxFrame > HeadLen
  BY SizesAssumption, FramesAssumption
<1>1. /\ b \in Seq(Int) /\ Len(b) = HeadLen + n /\ b # <<>>
      /\ \A i \in 1..HeadLen : b[i] = -(n + 1)
      /\ \A i \in 1..n : b[HeadLen + i] = p + i
  <2>1. /\ encode_head(n) \in Seq(Int) /\ Len(encode_head(n)) = HeadLen
        /\ \A i \in 1..HeadLen : encode_head(n)[i] = -(n + 1)
    BY <1>0 DEF encode_head
  <2>2. Bytes(p, n) \in Seq(Int) /\ Len(Bytes(p, n)) = n /\ \A i \in 1..n : Bytes(p, n)[i] = p + i
    BY BytesAre
  <2>4. /\ b \in Seq(Int) /\ Len(b) = HeadLen + n
        /\ \A i \in 1..HeadLen : b[i] = encode_head(n)[i]
        /\ \A i \in 1..n : b[HeadLen + i] = Bytes(p, n)[i]
    <3>1. ASSUME NEW x \in Seq(Int), x = encode_head(n), NEW y \in Seq(Int), y = Bytes(p, n)
          PROVE  /\ x \o y \in Seq(Int) /\ Len(x \o y) = HeadLen + n
                 /\ \A i \in 1..HeadLen : (x \o y)[i] = x[i]
                 /\ \A i \in 1..n : (x \o y)[HeadLen + i] = y[i]
      <4>1. Len(x) = HeadLen /\ Len(y) = n
        BY <2>1, <2>2, <3>1
      <4>2. /\ x \o y \in Seq(Int) /\ Len(x \o y) = Len(x) + Len(y)
            /\ \A i \in 1..Len(x) : (x \o y)[i] = x[i]
            /\ \A i \in 1..Len(y) : (x \o y)[Len(x) + i] = y[i]
        BY Concat
      <4> QED
        BY <4>1, <4>2
    <3> QED
      BY <2>1, <2>2, <3>1
  <2> HIDE DEF b
  <2>5. b # <<>>
    BY <1>0, <2>4
  <2> QED
    BY <2>1, <2>2, <2>4, <2>5
<1> HIDE DEF b
<1>2. /\ q \in Frames /\ Len(q) >= 1 /\ Cut(b, 0) = 0 /\ Cut(b, Len(q)) = Len(b)
      /\ \A j \in 1..Len(q) :
           /\ Cut(b, j - 1) \in Nat /\ Cut(b, j) \in Nat /\ Cut(b, j - 1) < Cut(b, j) /\ Cut(b, j) <= Len(b)
           /\ Len(q[j]) = Cut(b, j) - Cut(b, j - 1)
           /\ \A i \in 1..Len(q[j]) : q[j][i] = b[Cut(b, j - 1) + i]
  BY <1>1, FramesOf
<1> HIDE DEF q
<1>3. Len(q) \in Nat
  BY <1>2 DEF Frames
\* Behind the first frame the head is over.
<1>4. ASSUME NEW j \in 1..Len(q)
      PROVE  /\ Cut(b, j) \in Nat /\ Cut(b, j) <= HeadLen + n /\ Cut(b, j) >= HeadLen
             /\ n > 0 => Cut(b, j) > HeadLen
  <2>1. MaxFrame \in Nat /\ j \in Nat /\ j >= 1 /\ 1 <= j
    BY <1>0, <1>3
  <2>2. j * MaxFrame \in Nat /\ MaxFrame <= j * MaxFrame
    <3>1. 1 * MaxFrame <= j * MaxFrame /\ j * MaxFrame \in Nat
      BY <2>1, ProductLess, ProductNat
    <3> QED
      BY <1>0, <3>1
  <2>3. Cut(b, j) = Least(j * MaxFrame, HeadLen + n)
    BY <1>1 DEF Cut
  <2> QED
    BY <1>0, <2>2, <2>3 DEF Least
<1>5. /\ at[0] = <<p, 0>>
      /\ \A j \in 1..Len(q) : at[j] = <<p + (Cut(b, j) - HeadLen), n - (Cut(b, j) - HeadLen)>>
  BY <1>3
<1>6. at \in [0..Len(q) -> Points(hi)]
  <2>1. <<p, 0>> \in Points(hi)
    BY DEF Points
  <2>2. ASSUME NEW j \in 1..Len(q) PROVE <<p + (Cut(b, j) - HeadLen), n - (Cut(b, j) - HeadLen)>> \in Points(hi)
    BY <1>0, <1>4 DEF Points
  <2>3. ASSUME NEW j \in 0..Len(q)
        PROVE  (IF j = 0 THEN <<p, 0>> ELSE <<p + (Cut(b, j) - HeadLen), n - (Cut(b, j) - HeadLen)>>) \in Points(hi)
    <3>1. j = 0 \/ j \in 1..Len(q)
      BY <1>3
    <3> QED
      BY <2>1, <2>2, <3>1
  <2> QED
    BY <2>3
<1> HIDE DEF at
<1>7. at[Len(q)] = <<p + n, 0>>
  <2>1. Len(q) \in 1..Len(q) /\ Cut(b, Len(q)) = HeadLen + n
    BY <1>1, <1>2, <1>3
  <2>2. p + (Cut(b, Len(q)) - HeadLen) = p + n /\ n - (Cut(b, Len(q)) - HeadLen) = 0
    BY <1>0, <2>1
  <2> QED
    BY <1>5, <2>1, <2>2
<1>8. ASSUME NEW j \in 1..Len(q) PROVE Carries(k, z, q[j], at[j - 1], at[j])
  <2>1. /\ Cut(b, j - 1) \in Nat /\ Cut(b, j) \in Nat /\ Cut(b, j - 1) < Cut(b, j) /\ Cut(b, j) <= HeadLen + n
        /\ Len(q[j]) = Cut(b, j) - Cut(b, j - 1)
        /\ \A i \in 1..Len(q[j]) : q[j][i] = b[Cut(b, j - 1) + i]
    BY <1>1, <1>2
  <2>2. CASE j = 1
    <3>1. Len(q[j]) = Cut(b, j) /\ j - 1 = 0 /\ \A i \in 1..Len(q[j]) : q[j][i] = b[i]
      BY <1>2, <2>1, <2>2
    <3>2. \A i \in 1..HeadLen : q[j][i] = -(n + 1)
      BY <1>0, <1>1, <1>4, <2>1, <3>1
    <3>3. ASSUME NEW i \in 1..(Len(q[j]) - HeadLen) PROVE q[j][HeadLen + i] = p + i
      <4>1. HeadLen + i \in 1..Len(q[j]) /\ i \in 1..n
        BY <1>0, <2>1, <3>1
      <4> QED
        BY <1>1, <3>1, <4>1
    <3>4. Len(q[j]) >= HeadLen /\ Len(q[j]) - HeadLen <= n /\ IF n = 0 THEN z ELSE Len(q[j]) > HeadLen
      BY <1>0, <1>4, <3>1
    <3>5. at[j - 1] = <<p, 0>> /\ at[j] = <<p + (Len(q[j]) - HeadLen), n - (Len(q[j]) - HeadLen)>>
      BY <1>5, <3>1
    <3>6. Headed(z, q[j], at[j - 1], at[j])
      BY <3>2, <3>3, <3>4, <3>5 DEF Headed
    <3> QED
      BY <3>6 DEF Carries
  <2>3. CASE j # 1
    <3>1. j - 1 \in 1..Len(q) /\ j \in 1..Len(q)
      BY <1>3, <2>3
    <3>2. /\ at[j - 1] = <<p + (Cut(b, j - 1) - HeadLen), n - (Cut(b, j - 1) - HeadLen)>>
          /\ at[j] = <<p + (Cut(b, j) - HeadLen), n - (Cut(b, j) - HeadLen)>>
      BY <1>5, <3>1
    <3>3. Cut(b, j - 1) >= HeadLen
      BY <1>4, <3>1
    <3>4. ASSUME NEW i \in 1..Len(q[j]) PROVE q[j][i] = (p + (Cut(b, j - 1) - HeadLen)) + i
      <4> DEFINE y == (Cut(b, j - 1) - HeadLen) + i
      <4>1. y \in 1..n /\ HeadLen + y = Cut(b, j - 1) + i
        BY <1>0, <2>1, <3>3, SMTT(30)
      <4> HIDE DEF y
      <4>2. b[HeadLen + y] = p + y
        BY <1>1, <4>1
      <4>3. p + y = (p + (Cut(b, j - 1) - HeadLen)) + i
        BY <1>0, <2>1 DEF y
      <4> QED
        BY <2>1, <4>1, <4>2, <4>3
    <3>5. /\ q[j] # <<>> /\ Len(q[j]) <= n - (Cut(b, j - 1) - HeadLen)
          /\ (p + (Cut(b, j - 1) - HeadLen)) + Len(q[j]) = p + (Cut(b, j) - HeadLen)
          /\ (n - (Cut(b, j - 1) - HeadLen)) - Len(q[j]) = n - (Cut(b, j) - HeadLen)
      <4>1. Len(q[j]) > 0
        BY <2>1
      <4>2. q[j] # <<>>
        BY <4>1
      <4>3. Len(q[j]) <= n - (Cut(b, j - 1) - HeadLen)
        BY <1>0, <2>1
      <4>4. (p + (Cut(b, j - 1) - HeadLen)) + Len(q[j]) = p + (Cut(b, j) - HeadLen)
        BY <1>0, <2>1
      <4>5. (n - (Cut(b, j - 1) - HeadLen)) - Len(q[j]) = n - (Cut(b, j) - HeadLen)
        BY <1>0, <2>1
      <4> QED
        BY <4>2, <4>3, <4>4, <4>5
    <3>6. Body(q[j], at[j - 1], at[j])
      BY <3>2, <3>4, <3>5 DEF Body, Runs
    <3> QED
      BY <3>6 DEF Carries
  <2> QED
    BY <2>2, <2>3
<1>9. Flows(k, z, hi, q, <<p, 0>>, <<p + n, 0>>)
  <2>1. Leads(k, z, q, at)
    BY <1>8 DEF Leads
  <2>2. at[0] = <<p, 0>>
    BY <1>5
  <2> QED
    BY <1>6, <1>7, <2>1, <2>2 DEF Flows
<1> QED
  BY <1>1, <1>2, <1>9 DEF q, b

-----------------------------------------------------------------------------
(* What is read and what is left of it *)

LEMMA RunIs ==
  ASSUME NEW m \in Seq(Int), NEW lo \in Nat, Runs(m, lo), NEW n \in 0..Len(m)
  PROVE  /\ SubSeq(m, 1, n) = [i \in 1..n |-> lo + i]
         /\ Len(SubSeq(m, 1, n)) = n
<1>1. SubSeq(m, 1, n) = [i \in 1..n |-> m[i]]
  OBVIOUS
<1>2. \A i \in 1..n : m[i] = lo + i
  BY DEF Runs
<1> QED
  BY <1>1, <1>2

\* A read takes the beginning of a run and leaves the rest of it.
LEMMA RunSplits ==
  ASSUME NEW g \in Seq(Int), Runs(g, 0), NEW m \in Seq(Int), Runs(m, Len(g)), NEW n \in 0..Len(m)
  PROVE  LET h == g \o SubSeq(m, 1, n)
             t == SubSeq(m, n + 1, Len(m))
         IN  /\ h \in Seq(Int) /\ Len(h) = Len(g) + n /\ Runs(h, 0)
             /\ t \in Seq(Int) /\ Len(t) = Len(m) - n /\ Runs(t, Len(h))
<1> DEFINE p == SubSeq(m, 1, n)
           h == g \o p
           t == SubSeq(m, n + 1, Len(m))
<1>1. Len(g) \in Nat /\ Len(m) \in Nat /\ n \in Nat /\ n <= Len(m)
  OBVIOUS
<1>2. p \in Seq(Int) /\ Len(p) = n /\ \A i \in 1..n : p[i] = m[i]
  OBVIOUS
<1>3. t \in Seq(Int) /\ Len(t) = Len(m) - n /\ \A i \in 1..Len(m) - n : t[i] = m[n + i]
  OBVIOUS
<1> HIDE DEF p, t
<1>4. h \in Seq(Int) /\ Len(h) = Len(g) + Len(p)
  <2>1. \A a, b \in Seq(Int) : a \o b \in Seq(Int) /\ Len(a \o b) = Len(a) + Len(b)
    OBVIOUS
  <2> QED
    BY <1>2, <2>1, Zenon
<1>5. \A i \in 1..Len(h) : h[i] = IF i <= Len(g) THEN g[i] ELSE p[i - Len(g)]
  BY <1>2
<1> HIDE DEF h
<1>6. Runs(h, 0)
  <2> SUFFICES ASSUME NEW i \in 1..Len(h) PROVE h[i] = 0 + i
    BY DEF Runs
  <2>1. CASE i <= Len(g)
    <3>1. h[i] = g[i] /\ i \in 1..Len(g)
      BY <1>1, <1>4, <1>5, <2>1
    <3>2. g[i] = 0 + i
      BY <3>1 DEF Runs
    <3> QED
      BY <3>1, <3>2
  <2>2. CASE i > Len(g)
    <3>1. i - Len(g) \in 1..n /\ h[i] = m[i - Len(g)]
      BY <1>1, <1>2, <1>4, <1>5, <2>2
    <3>2. m[i - Len(g)] = Len(g) + (i - Len(g))
      BY <1>1, <3>1 DEF Runs
    <3> QED
      BY <1>1, <3>1, <3>2
  <2> QED
    BY <1>1, <1>2, <1>4, <2>1, <2>2
<1>7. Runs(t, Len(h))
  <2> SUFFICES ASSUME NEW i \in 1..Len(t) PROVE t[i] = Len(h) + i
    BY DEF Runs
  <2>1. n + i \in 1..Len(m) /\ t[i] = m[n + i]
    BY <1>1, <1>3
  <2>2. m[n + i] = Len(g) + (n + i)
    BY <2>1 DEF Runs
  <2> QED
    BY <1>1, <1>2, <1>4, <2>1, <2>2
<1> QED
  BY <1>2, <1>3, <1>4, <1>6, <1>7 DEF h, p, t

LEMMA RunJoins ==
  ASSUME NEW m \in Seq(Int), NEW lo \in Nat, Runs(m, lo), NEW f \in Seq(Int), Runs(f, lo + Len(m))
  PROVE  m \o f \in Seq(Int) /\ Len(m \o f) = Len(m) + Len(f) /\ Runs(m \o f, lo)
<1>1. /\ m \o f \in Seq(Int) /\ Len(m \o f) = Len(m) + Len(f) /\ Len(m) \in Nat /\ Len(f) \in Nat
      /\ \A i \in 1..Len(m) : (m \o f)[i] = m[i]
      /\ \A i \in 1..Len(f) : (m \o f)[Len(m) + i] = f[i]
  BY Concat
<1> SUFFICES ASSUME NEW i \in 1..Len(m) + Len(f) PROVE (m \o f)[i] = lo + i
  BY <1>1 DEF Runs
<1>2. CASE i <= Len(m)
  BY <1>1, <1>2 DEF Runs
<1>3. CASE ~(i <= Len(m))
  <2> DEFINE j == i - Len(m)
  <2>1. j \in 1..Len(f) /\ Len(m) + j = i
    BY <1>1, <1>3
  <2> HIDE DEF j
  <2>2. (m \o f)[i] = f[j] /\ f[j] = (lo + Len(m)) + j
    BY <1>1, <2>1 DEF Runs
  <2>3. \A x, y \in Nat : (lo + x) + y = lo + (x + y)
    OBVIOUS
  <2>4. j \in Nat
    BY <1>1, <2>1
  <2>5. (lo + Len(m)) + j = lo + i
    BY <1>1, <2>1, <2>3, <2>4
  <2> QED
    BY <2>2, <2>5
<1> QED
  BY <1>2, <1>3

-----------------------------------------------------------------------------
(* The invariant holds *)

\* The parts of the invariant as a step needs them.
LEMMA StreamIs ==
  ASSUME H2Inv
  PROVE  /\ H2Types /\ sent \in Nat /\ sent <= Total /\ Total \in Nat /\ Len(got) \in Nat /\ Runs(got, 0)
         /\ Failed \in BOOLEAN /\ HeadLen \in Nat /\ HeadLen >= 1
         /\ \E s \in Points(sent) : \E t \in Points(sent) :
              /\ Buffered(kind, Failed, Len(got), buffer, next_data_len, s)
              /\ Flows(kind, Failed, sent, wire, s, t)
              /\ ~Shortened => t = <<sent, 0>>
<1>1. H2Types /\ OneStream
  BY DEF H2Inv
<1>2. sent \in Nat /\ sent <= Total /\ Total \in Nat /\ Len(got) \in Nat /\ HeadLen \in Nat /\ HeadLen >= 1
  BY <1>1, SizesAssumption DEF H2Types
<1>3. Failed \in BOOLEAN
  BY DEF Failed
<1> QED
  BY <1>1, <1>2, <1>3 DEF OneStream

LEMMA H2Init == Init => H2Inv
<1> SUFFICES ASSUME Init PROVE H2Inv
  OBVIOUS
<1>1. /\ kind \in {"h2", "grpc", "zero_rtt"} /\ sent = 0 /\ writer = "open" /\ conn = "up" /\ wire = <<>> /\ window \in Nat
      /\ buffer = <<>> /\ next_data_len = 0 /\ got = <<>> /\ reader = "open"
  BY KindsAssumption, FramesAssumption DEF Init
<1>2. H2Types
  BY <1>1, SizesAssumption DEF H2Types, Frames
<1>3. <<0, 0>> \in Points(sent)
  BY <1>1 DEF Points
<1>4. Buffered(kind, Failed, Len(got), buffer, next_data_len, <<0, 0>>)
  <2>1. Len(buffer) = 0 /\ Len(got) = 0 /\ Runs(buffer, 0)
    BY <1>1 DEF Runs
  <2>2. Len(got) + Len(buffer) = 0 /\ next_data_len - Len(buffer) = 0 /\ Len(buffer) <= next_data_len
    <3>1. \A x, y, z : x = 0 /\ y = 0 /\ z = 0 => x + y = 0 /\ z - y = 0 /\ y <= z
      OBVIOUS
    <3> QED
      BY <1>1, <2>1, <3>1
  <2> QED
    BY <1>1, <2>1, <2>2 DEF Buffered
<1>5. Flows(kind, Failed, sent, wire, <<0, 0>>, <<0, 0>>)
  <2>1. ASSUME NEW k, NEW z PROVE Flows(k, z, 0, <<>>, <<0, 0>>, <<0, 0>>)
    <3>1. <<0, 0>> \in Points(0)
      BY DEF Points
    <3> QED
      BY <3>1, FlowsNone
  <2> QED
    BY <1>1, <2>1
<1>6. Runs(got, 0)
  BY <1>1 DEF Runs
<1>7. OneStream
  BY <1>1, <1>3, <1>4, <1>5, <1>6 DEF OneStream
<1> QED
  BY <1>2, <1>7 DEF H2Inv

LEMMA BufferedGrow ==
  ASSUME NEW k, NEW z \in BOOLEAN, NEW z2 \in BOOLEAN, z => z2, NEW g, NEW b, NEW l, NEW s, Buffered(k, z, g, b, l, s)
  PROVE  Buffered(k, z2, g, b, l, s)
  BY DEF Buffered, Headed

\* The writer sends frames f with n more bytes.
LEMMA Sends ==
  ASSUME H2Inv, writer = "open", writer' \in {"open", "zero"}, conn # "lost", conn' = conn,
         NEW f \in Frames, wire' = wire \o f, window' \in Nat,
         NEW n \in Nat, sent' = sent + n, sent + n <= Total,
         Flows(kind, writer' = "zero", sent + n, f, <<sent, 0>>, <<sent + n, 0>>),
         UNCHANGED <<kind, buffer, next_data_len, got, reader>>
  PROVE  H2Inv'
<1>1. /\ H2Types /\ sent \in Nat /\ Total \in Nat /\ Len(got) \in Nat /\ Runs(got, 0) /\ Failed = FALSE /\ ~Shortened
  BY StreamIs DEF Failed, Shortened
<1>2. PICK s \in Points(sent) :
        /\ Buffered(kind, FALSE, Len(got), buffer, next_data_len, s)
        /\ Flows(kind, FALSE, sent, wire, s, <<sent, 0>>)
  BY <1>1, StreamIs
<1>3. Failed' \in BOOLEAN /\ (Failed' <=> writer' = "zero") /\ (writer' = "zero") \in BOOLEAN
  BY DEF Failed
<1>4. wire \in Frames /\ wire \o f \in Frames
  BY <1>1 DEF H2Types, Frames
<1>5. ASSUME NEW z \in BOOLEAN, z <=> writer' = "zero"
      PROVE  /\ Buffered(kind, z, Len(got), buffer, next_data_len, s)
             /\ Flows(kind, z, sent + n, wire \o f, s, <<sent + n, 0>>)
  <2>1. Buffered(kind, z, Len(got), buffer, next_data_len, s)
    BY <1>2, BufferedGrow
  <2>2. Flows(kind, z, sent + n, wire, s, <<sent, 0>>)
    <3>1. sent + n \in Nat /\ sent <= sent + n
      BY <1>1
    <3>2. ASSUME NEW hi \in Nat, hi = sent, NEW q \in Frames, q = wire, NEW t, t = <<sent, 0>>
          PROVE  Flows(kind, z, hi + n, q, s, t)
      <4>1. Flows(kind, FALSE, hi, q, s, t)
        BY <1>2, <3>2
      <4>2. FALSE \in BOOLEAN /\ hi + n \in Nat /\ hi <= hi + n
        OBVIOUS
      <4> QED
        BY <4>1, <4>2, FlowsGrow
    <3> QED
      BY <1>1, <1>4, <3>2
  <2>3. Flows(kind, z, sent + n, f, <<sent, 0>>, <<sent + n, 0>>)
    <3>1. z = (writer' = "zero")
      BY <1>5
    <3> QED
      BY <3>1
  <2>4. ASSUME NEW hi \in Nat, hi = sent + n, NEW q \in Frames, q = wire, NEW t, t = <<sent, 0>>, NEW u, u = <<sent + n, 0>>
        PROVE  Flows(kind, z, hi, q \o f, s, u)
    <3>1. Flows(kind, z, hi, q, s, t) /\ Flows(kind, z, hi, f, t, u)
      BY <2>2, <2>3, <2>4
    <3> QED
      BY <3>1, FlowsJoin
  <2>5. sent + n \in Nat
    BY <1>1
  <2> QED
    BY <1>4, <2>1, <2>4, <2>5
<1>6. H2Types'
  BY <1>1, <1>4 DEF H2Types
<1>7. OneStream'
  <2>1. s \in Points(sent') /\ <<sent', 0>> \in Points(sent')
    <3>1. \A x, y \in Nat : x <= y => Points(x) \subseteq Points(y) /\ <<y, 0>> \in Points(y)
      BY DEF Points
    <3>2. sent' \in Nat /\ sent <= sent'
      BY <1>1
    <3> QED
      BY <1>1, <3>1, <3>2
  <2>2. /\ Buffered(kind', Failed', Len(got'), buffer', next_data_len', s)
        /\ Flows(kind', Failed', sent', wire', s, <<sent', 0>>)
    BY <1>3, <1>5
  <2>3. Runs(got', 0)
    BY <1>1
  <2> QED
    BY <2>1, <2>2, <2>3 DEF OneStream
<1> QED
  BY <1>6, <1>7 DEF H2Inv

\* The writer sends n more bytes into a connection that is lost.
LEMMA SendsLost ==
  ASSUME H2Inv, writer = "open", writer' \in {"open", "zero"}, conn = "lost",
         window' \in Nat, NEW n \in Nat, sent' = sent + n, sent + n <= Total,
         UNCHANGED <<kind, conn, wire, buffer, next_data_len, got, reader>>
  PROVE  H2Inv'
<1>1. /\ H2Types /\ sent \in Nat /\ Total \in Nat /\ Len(got) \in Nat /\ Runs(got, 0) /\ Failed = FALSE
  BY StreamIs DEF Failed
<1>2. PICK s \in Points(sent) : \E t \in Points(sent) :
        /\ Buffered(kind, FALSE, Len(got), buffer, next_data_len, s)
        /\ Flows(kind, FALSE, sent, wire, s, t)
  BY <1>1, StreamIs
<1>3. PICK t \in Points(sent) :
        /\ Buffered(kind, FALSE, Len(got), buffer, next_data_len, s)
        /\ Flows(kind, FALSE, sent, wire, s, t)
  BY <1>2
<1>4. sent' \in Nat /\ sent <= sent' /\ wire \in Frames /\ Failed' \in BOOLEAN /\ Shortened'
  BY <1>1 DEF H2Types, Failed, Shortened
<1>5. ASSUME NEW z \in BOOLEAN, NEW lo \in Nat, lo = sent, NEW hi \in Nat, lo <= hi, NEW q \in Frames, q = wire
      PROVE  /\ s \in Points(hi) /\ t \in Points(hi)
             /\ Buffered(kind, z, Len(got), buffer, next_data_len, s)
             /\ Flows(kind, z, hi, q, s, t)
  <2>1. s \in Points(hi) /\ t \in Points(hi)
    BY <1>2, <1>3, <1>5 DEF Points
  <2>2. FALSE \in BOOLEAN /\ (FALSE => z)
    OBVIOUS
  <2>3. Buffered(kind, z, Len(got), buffer, next_data_len, s)
    BY <1>3, <2>2, BufferedGrow
  <2>4. Flows(kind, FALSE, lo, q, s, t)
    BY <1>3, <1>5
  <2>5. Flows(kind, z, hi, q, s, t)
    BY <1>5, <2>2, <2>4, FlowsGrow
  <2> QED
    BY <2>1, <2>3, <2>5
<1>6. /\ s \in Points(sent') /\ t \in Points(sent')
      /\ Buffered(kind', Failed', Len(got'), buffer', next_data_len', s)
      /\ Flows(kind', Failed', sent', wire', s, t)
  BY <1>1, <1>4, <1>5
<1>7. OneStream'
  BY <1>1, <1>4, <1>6 DEF OneStream
<1>8. H2Types'
  BY <1>1, <1>4 DEF H2Types
<1> QED
  BY <1>7, <1>8 DEF H2Inv

LEMMA CapacityIs ==
  ASSUME NEW need \in Nat, window \in Nat, NEW c \in Capacity(need)
  PROVE  c \in Nat /\ c >= 1 /\ c <= need /\ c <= window
<1>1. Least(need, window) \in Nat /\ Least(need, window) <= need /\ Least(need, window) <= window
  BY DEF Least
<1> QED
  BY <1>1 DEF Capacity

LEMMA OfferedIs ==
  ASSUME sent \in Nat, sent <= Total, NEW n \in Offered
  PROVE  n \in Nat /\ n >= 1 /\ sent + n <= Total
  BY SizesAssumption DEF Offered, Least

LEMMA H2WriteStep ==
  ASSUME H2Inv, H2Write
  PROVE  H2Inv' /\ Pipe!Put
<1>1. /\ H2Types /\ sent \in Nat /\ sent <= Total /\ Total \in Nat
  BY StreamIs
<1>2. PICK n \in Offered : \E c \in Capacity(n) : Send(Bytes(sent, c), c)
  BY DEF H2Write
<1>3. PICK c \in Capacity(n) : Send(Bytes(sent, c), c)
  BY <1>2
<1>4. n \in Nat /\ sent + n <= Total
  BY <1>1, <1>2, OfferedIs
<1>5. c \in Nat /\ c >= 1 /\ c <= n /\ c <= window /\ window \in Nat
  BY <1>1, <1>3, <1>4, CapacityIs DEF H2Types
<1>6. /\ kind = "h2" /\ writer = "open" /\ writer' = "open"
      /\ UNCHANGED <<kind, conn, buffer, next_data_len, got, reader>>
  BY DEF H2Write, readVars
<1>7. /\ wire' = IF conn = "lost" THEN wire ELSE wire \o send_data(Bytes(sent, c))
      /\ window' = window - c /\ sent' = sent + c
  BY <1>1, <1>3, <1>5, BytesAre DEF Send
<1>8. sent + c \in Nat /\ sent + c <= Total /\ window' \in Nat
  BY <1>1, <1>4, <1>5, <1>7
<1>9. ASSUME NEW z
      PROVE /\ send_data(Bytes(sent, c)) \in Frames
            /\ Flows("h2", z, sent + c, send_data(Bytes(sent, c)), <<sent, 0>>, <<sent + c, 0>>)
  <2>1. ASSUME NEW p \in Nat, p = sent
        PROVE /\ send_data(Bytes(p, c)) \in Frames
              /\ Flows("h2", z, p + c, send_data(Bytes(p, c)), <<p, 0>>, <<p + c, 0>>)
    <3>1. p + c \in Nat /\ p + c <= p + c
      BY <1>5
    <3> QED
      BY <1>5, <3>1, SendPlain
  <2> QED
    BY <1>1, <2>1
<1>10. H2Inv'
  <2>1. CASE conn = "lost"
    BY <1>5, <1>6, <1>7, <1>8, <2>1, SendsLost
  <2>2. CASE conn # "lost"
    BY <1>5, <1>6, <1>7, <1>8, <1>9, <2>2, Sends
  <2> QED
    BY <2>1, <2>2
<1>11. Pipe!Put
  <2>1. sent' \in sent + 1 .. Total
    BY <1>1, <1>5, <1>7, <1>8
  <2> QED
    BY <1>6, <2>1 DEF Pipe!Put, Fate
<1> QED
  BY <1>10, <1>11

\* With its writing end, or the connection, the pipe is lost, if it was not.
LEMMA LosesPipe ==
  ASSUME UNCHANGED <<sent, got, reader>>, conn = "lost" => conn' = "lost",
         writer \in {"zero", "panicked", "reset"} => writer' \in {"zero", "panicked", "reset"},
         writer' \in {"zero", "panicked", "reset"} \/ conn' = "lost"
  PROVE  Pipe!Lose \/ UNCHANGED Pipe!vars
<1>1. Fate' = "lost"
  BY DEF Fate
<1> QED
  BY <1>1 DEF Pipe!Lose, Pipe!vars

LEMMA MessageStep ==
  ASSUME NEW k \in {"grpc", "zero_rtt"}, H2Inv, MessageWrite(k)
  PROVE  H2Inv' /\ [Pipe!Next]_(Pipe!vars)
<1>1. /\ H2Types /\ sent \in Nat /\ sent <= Total /\ Total \in Nat /\ HeadLen \in Nat
  BY StreamIs
<1> DEFINE Sent(c) == /\ Send(encode_head(c - HeadLen) \o Bytes(sent, c - HeadLen), c - HeadLen)
                      /\ writer' = IF c - HeadLen = 0 THEN "zero" ELSE writer
<1>2. PICK n \in Offered : \E c \in Capacity(HeadLen + n) :
        IF c < HeadLen THEN writer' = "panicked" /\ UNCHANGED <<sent, wire, window>> ELSE Sent(c)
  BY Zenon DEF MessageWrite
<1>3. PICK c \in Capacity(HeadLen + n) :
        IF c < HeadLen THEN writer' = "panicked" /\ UNCHANGED <<sent, wire, window>> ELSE Sent(c)
  BY <1>2
<1>4. n \in Nat /\ sent + n <= Total
  BY <1>1, <1>2, OfferedIs
<1>5. c \in Nat /\ c >= 1 /\ c <= HeadLen + n /\ c <= window /\ window \in Nat
  BY <1>1, <1>3, <1>4, CapacityIs DEF H2Types
<1>6. /\ kind = k /\ kind # "h2" /\ writer = "open"
      /\ UNCHANGED <<kind, conn, buffer, next_data_len, got, reader>>
  BY DEF MessageWrite, readVars
<1>7. CASE c < HeadLen
  <2>1. writer' = "panicked" /\ UNCHANGED <<sent, wire, window>>
    BY <1>3, <1>7
  <2>2. Failed' = Failed /\ Shortened' = Shortened
    BY <1>6, <2>1 DEF Failed, Shortened
  <2>3. H2Inv'
    BY <1>6, <2>1, <2>2 DEF H2Inv, H2Types, OneStream
  <2>4. Pipe!Lose \/ UNCHANGED Pipe!vars
    BY <1>6, <2>1, LosesPipe
  <2> QED
    BY <2>3, <2>4 DEF Pipe!Next
<1>8. CASE ~(c < HeadLen)
  <2>1. PICK w \in Nat : w = c - HeadLen
    BY <1>1, <1>5, <1>8
  <2>2. w <= n /\ HeadLen + w = c
    BY <1>1, <1>4, <1>5, <2>1
  <2>3. /\ Send(encode_head(w) \o Bytes(sent, w), w)
        /\ writer' = IF w = 0 THEN "zero" ELSE "open"
    BY <1>3, <1>6, <1>8, <2>1
  <2>4. ASSUME NEW z \in BOOLEAN, w = 0 => z
        PROVE /\ Len(encode_head(w) \o Bytes(sent, w)) = c
              /\ send_data(encode_head(w) \o Bytes(sent, w)) \in Frames
              /\ Flows(kind, z, sent + w, send_data(encode_head(w) \o Bytes(sent, w)), <<sent, 0>>, <<sent + w, 0>>)
    <3>1. ASSUME NEW p \in Nat, p = sent
          PROVE /\ Len(encode_head(w) \o Bytes(p, w)) = c
                /\ send_data(encode_head(w) \o Bytes(p, w)) \in Frames
                /\ Flows(kind, z, p + w, send_data(encode_head(w) \o Bytes(p, w)), <<p, 0>>, <<p + w, 0>>)
      <4>1. p + w \in Nat /\ p + w <= p + w
        OBVIOUS
      <4> QED
        BY <1>6, <2>2, <2>4, <4>1, SendMessage
    <3> QED
      BY <1>1, <3>1
  <2>5. Len(encode_head(w) \o Bytes(sent, w)) = c /\ send_data(encode_head(w) \o Bytes(sent, w)) \in Frames
    BY <2>4
  <2>6. /\ wire' = IF conn = "lost" THEN wire ELSE wire \o send_data(encode_head(w) \o Bytes(sent, w))
        /\ window' = window - c /\ sent' = sent + w
    BY <2>3, <2>5 DEF Send
  <2>7. sent + w \in Nat /\ sent + w <= Total /\ window' \in Nat
    BY <1>1, <1>4, <1>5, <2>2, <2>6
  <2>8. Flows(kind, writer' = "zero", sent + w, send_data(encode_head(w) \o Bytes(sent, w)), <<sent, 0>>, <<sent + w, 0>>)
    <3>1. (writer' = "zero") \in BOOLEAN /\ (w = 0 => writer' = "zero")
      BY <2>3
    <3> QED
      BY <2>4, <3>1
  <2>9. writer' \in {"open", "zero"}
    BY <2>3
  <2>10. H2Inv'
    <3>1. CASE conn = "lost"
      BY <1>6, <2>6, <2>7, <2>9, <3>1, SendsLost
    <3>2. CASE conn # "lost"
      BY <1>6, <2>5, <2>6, <2>7, <2>8, <2>9, <3>2, Sends
    <3> QED
      BY <3>1, <3>2
  <2>11. Pipe!Put \/ Pipe!Lose \/ UNCHANGED Pipe!vars
    <3>1. CASE w = 0
      <4>1. sent' = sent /\ writer' = "zero"
        BY <1>1, <2>3, <2>6, <3>1
      <4> QED
        BY <1>6, <4>1, LosesPipe
    <3>2. CASE w # 0
      <4>1. sent' \in sent + 1 .. Total
        BY <1>1, <2>6, <2>7, <3>2
      <4>2. writer' = "open"
        BY <2>3, <3>2
      <4> QED
        BY <1>6, <4>1, <4>2 DEF Pipe!Put, Fate
    <3> QED
      BY <3>1, <3>2
  <2> QED
    BY <2>10, <2>11 DEF Pipe!Next
<1> QED
  BY <1>7, <1>8

LEMMA ShutdownStep ==
  ASSUME H2Inv, Shutdown
  PROVE  H2Inv' /\ [Pipe!Next]_(Pipe!vars)
<1>1. /\ writer = "open" /\ writer' = "shut" /\ conn' \in {"up", "told", "lost"} /\ (conn' = "lost" <=> conn = "lost")
      /\ UNCHANGED <<kind, sent, wire, window, buffer, next_data_len, got, reader>>
  BY DEF Shutdown, Tell, readVars, H2Inv, H2Types
<1>2. Failed' = Failed /\ Shortened' = Shortened
  BY <1>1 DEF Failed, Shortened
<1>3. H2Inv'
  BY <1>1, <1>2 DEF H2Inv, H2Types, OneStream
<1>4. CASE conn = "lost"
  BY <1>1, <1>3, <1>4, LosesPipe DEF Pipe!Next
<1>5. CASE conn # "lost"
  BY <1>1, <1>3, <1>5 DEF Pipe!Next, Pipe!Close, Fate
<1> QED
  BY <1>4, <1>5

\* The last of the frames are lost.
LEMMA CutStep ==
  ASSUME H2Inv, NEW n \in 0..Len(wire), wire' = SubSeq(wire, 1, n),
         writer' \in {writer, "reset"}, conn' \in {"up", "told", "lost"}, Shortened',
         UNCHANGED <<kind, sent, window, buffer, next_data_len, got, reader>>
  PROVE  H2Inv'
<1>3. /\ H2Types /\ sent \in Nat /\ Len(got) \in Nat /\ Runs(got, 0) /\ Failed \in BOOLEAN
      /\ Failed' \in BOOLEAN /\ (Failed => Failed')
  BY StreamIs DEF Failed
<1>4. PICK s \in Points(sent) : \E t \in Points(sent) :
        /\ Buffered(kind, Failed, Len(got), buffer, next_data_len, s)
        /\ Flows(kind, Failed, sent, wire, s, t)
  BY StreamIs
<1>5. PICK t \in Points(sent) :
        /\ Buffered(kind, Failed, Len(got), buffer, next_data_len, s)
        /\ Flows(kind, Failed, sent, wire, s, t)
  BY <1>4
<1>6. Buffered(kind, Failed', Len(got), buffer, next_data_len, s)
  <2>1. ASSUME NEW z \in BOOLEAN, z = Failed, NEW z2 \in BOOLEAN, z => z2
        PROVE  Buffered(kind, z2, Len(got), buffer, next_data_len, s)
    BY <1>5, <2>1, BufferedGrow
  <2> QED
    BY <1>3, <2>1
<1>7. wire' \in Frames /\ \E m \in Points(sent) : Flows(kind, Failed', sent, wire', s, m)
  <2>1. ASSUME NEW z \in BOOLEAN, z = Failed, NEW z2 \in BOOLEAN, z => z2,
               NEW hi \in Nat, hi = sent, NEW q \in Frames, q = wire
        PROVE  SubSeq(q, 1, n) \in Frames /\ \E m \in Points(hi) : Flows(kind, z2, hi, SubSeq(q, 1, n), s, m)
    <3>1. Flows(kind, z, hi, q, s, t) /\ n \in 0..Len(q)
      BY <1>5, <2>1
    <3>2. Flows(kind, z2, hi, q, s, t)
      <4>1. hi <= hi
        OBVIOUS
      <4> QED
        BY <2>1, <3>1, <4>1, FlowsGrow
    <3> QED
      BY <3>1, <3>2, FlowsPrefix
  <2>2. wire \in Frames
    BY <1>3 DEF H2Types
  <2> QED
    BY <1>3, <2>1, <2>2
<1>8. H2Types'
  BY <1>3, <1>7 DEF H2Types
<1>9. OneStream'
  BY <1>3, <1>6, <1>7 DEF OneStream
<1> QED
  BY <1>8, <1>9 DEF H2Inv

LEMMA ResetStep ==
  ASSUME H2Inv, Reset
  PROVE  H2Inv' /\ [Pipe!Next]_(Pipe!vars)
<1>1. /\ writer' = "reset" /\ conn' \in {"up", "told", "lost"} /\ (conn = "lost" => conn' = "lost")
      /\ UNCHANGED <<kind, sent, window, buffer, next_data_len, got, reader>>
  BY DEF Reset, Tell, readVars, H2Inv, H2Types
<1>2. PICK n \in 0..Len(wire) : wire' = SubSeq(wire, 1, n)
  BY DEF Reset
<1>3. Shortened'
  BY <1>1 DEF Shortened
<1> QED
  BY <1>1, <1>2, <1>3, CutStep, LosesPipe DEF Pipe!Next

LEMMA LoseStep ==
  ASSUME H2Inv, Lose
  PROVE  H2Inv' /\ [Pipe!Next]_(Pipe!vars)
<1>1. /\ conn' = "lost"
      /\ UNCHANGED <<kind, sent, writer, window, buffer, next_data_len, got, reader>>
  BY DEF Lose, writeVars, readVars
<1>2. PICK n \in 0..Len(wire) : wire' = SubSeq(wire, 1, n)
  BY DEF Lose
<1>3. Shortened'
  BY <1>1 DEF Shortened
<1> QED
  BY <1>1, <1>2, <1>3, CutStep, LosesPipe DEF Pipe!Next


\* A read of r bytes that run on from what was read.
LEMMA TakeIs ==
  ASSUME H2Inv, reader = "open", UNCHANGED <<conn, sent, writer, reader>>,
         NEW m \in Seq(Int), Runs(m, Len(got)), NEW r \in 1..Len(m), Len(got) + r <= sent,
         got' = got \o SubSeq(m, 1, r)
  PROVE  Pipe!Take
<1>1. sent \in Nat /\ Len(got) \in Nat
  BY StreamIs
<1>2. SubSeq(m, 1, r) = [i \in 1..r |-> Len(got) + i]
  <2>1. r \in 0..Len(m)
    OBVIOUS
  <2> QED
    BY <1>1, <2>1, RunIs
<1>3. r \in 1..(sent - Len(got))
  BY <1>1
<1>4. got' = got \o [i \in 1..r |-> Len(got) + i]
  BY <1>2
<1>5. UNCHANGED <<sent, Fate, (reader = "eof")>> /\ reader # "eof"
  BY DEF Fate
<1> QED
  BY <1>3, <1>4, <1>5 DEF Pipe!Take

LEMMA H2ReadBufferStep ==
  ASSUME H2Inv, H2ReadBuffer
  PROVE  H2Inv' /\ Pipe!Take
<1>1. /\ kind = "h2" /\ reader = "open" /\ buffer # <<>>
      /\ UNCHANGED <<kind, conn, sent, writer, wire, window, next_data_len, reader>>
  BY DEF H2ReadBuffer, writeVars
<1>2. PICK room \in 1..MaxRead : /\ got' = got \o SubSeq(buffer, 1, Least(room, Len(buffer)))
                                 /\ buffer' = DropFirst(buffer, Least(room, Len(buffer)))
  BY DEF H2ReadBuffer
<1>3. H2Types /\ sent \in Nat /\ Len(got) \in Nat /\ Runs(got, 0) /\ got \in Seq(Int) /\ buffer \in Seq(Int)
  BY StreamIs DEF H2Types
<1>4. PICK r \in Nat : r = Least(room, Len(buffer)) /\ r >= 1 /\ r <= Len(buffer)
  <2>1. Len(buffer) \in Nat /\ Len(buffer) >= 1 /\ room \in Nat /\ room >= 1
    BY <1>1, <1>3, SizesAssumption
  <2> QED
    BY <2>1 DEF Least
<1>5. got' = got \o SubSeq(buffer, 1, r) /\ buffer' = SubSeq(buffer, r + 1, Len(buffer))
  BY <1>2, <1>4 DEF DropFirst
<1>6. PICK s \in Points(sent) : \E t \in Points(sent) :
        /\ Buffered(kind, Failed, Len(got), buffer, next_data_len, s)
        /\ Flows(kind, Failed, sent, wire, s, t)
        /\ ~Shortened => t = <<sent, 0>>
  BY StreamIs
<1>7. next_data_len = 0 /\ Runs(buffer, Len(got)) /\ s = <<Len(got) + Len(buffer), 0>>
  BY <1>1, <1>6 DEF Buffered
<1>8. /\ got' \in Seq(Int) /\ Len(got') = Len(got) + r /\ Runs(got', 0)
      /\ buffer' \in Seq(Int) /\ Len(buffer') = Len(buffer) - r /\ Runs(buffer', Len(got'))
  <2>1. r \in 0..Len(buffer)
    BY <1>3, <1>4
  <2>2. ASSUME NEW g \in Seq(Int), g = got, NEW m \in Seq(Int), m = buffer
        PROVE  LET h == g \o SubSeq(m, 1, r)
                   t == SubSeq(m, r + 1, Len(m))
               IN  /\ h \in Seq(Int) /\ Len(h) = Len(g) + r /\ Runs(h, 0)
                   /\ t \in Seq(Int) /\ Len(t) = Len(m) - r /\ Runs(t, Len(h))
    <3>1. Runs(g, 0) /\ Runs(m, Len(g)) /\ r \in 0..Len(m)
      BY <1>3, <1>7, <2>1, <2>2
    <3> QED
      BY <3>1, RunSplits
  <2> QED
    BY <1>3, <1>5, <2>2
<1>9. Buffered(kind, Failed, Len(got'), buffer', next_data_len, s)
  <2>1. Len(got') + Len(buffer') = Len(got) + Len(buffer)
    BY <1>3, <1>4, <1>8
  <2> QED
    BY <1>1, <1>7, <1>8, <2>1 DEF Buffered
<1>10. Failed' = Failed /\ Shortened' = Shortened
  BY <1>1 DEF Failed, Shortened
<1>11. H2Inv'
  <2>1. H2Types'
    BY <1>1, <1>3, <1>8 DEF H2Types
  <2>2. OneStream'
    BY <1>1, <1>6, <1>8, <1>9, <1>10 DEF OneStream
  <2> QED
    BY <2>1, <2>2 DEF H2Inv
<1>12. Len(got) + r <= sent
  BY <1>3, <1>4, <1>6, <1>7 DEF Points
<1>13. r \in 1..Len(buffer) /\ UNCHANGED <<conn, sent, writer, reader>>
  BY <1>1, <1>3, <1>4
<1>14. Pipe!Take
  BY <1>1, <1>3, <1>5, <1>7, <1>12, <1>13, TakeIs
<1> QED
  BY <1>11, <1>14

\* A frame that arrives: it is the first of those that are on the wire.
LEMMA FrameArrives ==
  ASSUME H2Inv, wire # <<>>
  PROVE  /\ Head(wire) \in Seq(Int) /\ Tail(wire) \in Frames
         /\ \E s \in Points(sent) : \E m \in Points(sent) : \E t \in Points(sent) :
              /\ Buffered(kind, Failed, Len(got), buffer, next_data_len, s)
              /\ Carries(kind, Failed, Head(wire), s, m)
              /\ Flows(kind, Failed, sent, Tail(wire), m, t)
              /\ ~Shortened => t = <<sent, 0>>
<1>1. wire \in Frames /\ sent \in Nat /\ Failed \in BOOLEAN
  BY StreamIs DEF H2Types
<1>2. Head(wire) \in Seq(Int) /\ Tail(wire) \in Frames
  BY <1>1 DEF Frames
<1>3. PICK s \in Points(sent) : \E t \in Points(sent) :
        /\ Buffered(kind, Failed, Len(got), buffer, next_data_len, s)
        /\ Flows(kind, Failed, sent, wire, s, t)
        /\ ~Shortened => t = <<sent, 0>>
  BY StreamIs
<1>4. PICK t \in Points(sent) :
        /\ Buffered(kind, Failed, Len(got), buffer, next_data_len, s)
        /\ Flows(kind, Failed, sent, wire, s, t)
        /\ ~Shortened => t = <<sent, 0>>
  BY <1>3
<1>5. \E m \in Points(sent) : Carries(kind, Failed, Head(wire), s, m) /\ Flows(kind, Failed, sent, Tail(wire), m, t)
  <2>1. ASSUME NEW z \in BOOLEAN, z = Failed, NEW hi \in Nat, hi = sent, NEW q \in Frames, q = wire
        PROVE  \E m \in Points(hi) : Carries(kind, z, Head(q), s, m) /\ Flows(kind, z, hi, Tail(q), m, t)
    <3>1. Flows(kind, z, hi, q, s, t) /\ q # <<>>
      BY <1>4, <2>1
    <3> QED
      BY <3>1, FlowsHead
  <2> QED
    BY <1>1, <2>1
<1> QED
  BY <1>2, <1>3, <1>4, <1>5

LEMMA H2ReadFrameStep ==
  ASSUME H2Inv, H2ReadFrame
  PROVE  H2Inv' /\ Pipe!Take
<1>1. /\ kind = "h2" /\ reader = "open" /\ buffer = <<>> /\ wire # <<>> /\ wire' = Tail(wire)
      /\ UNCHANGED <<kind, conn, sent, writer, next_data_len, reader>>
  BY DEF H2ReadFrame, writeVars
<1> DEFINE f == Head(wire)
<1>2. PICK room \in 1..MaxRead : /\ got' = got \o SubSeq(f, 1, Least(room, Len(f)))
                                 /\ buffer' = DropFirst(f, Least(room, Len(f)))
                                 /\ window' = window + release_capacity(f, Least(room, Len(f)))
  BY DEF H2ReadFrame
<1>3. H2Types /\ sent \in Nat /\ Len(got) \in Nat /\ Runs(got, 0) /\ got \in Seq(Int) /\ window \in Nat
  BY StreamIs DEF H2Types
<1>4. f \in Seq(Int) /\ Tail(wire) \in Frames
  BY <1>1, FrameArrives
<1>5. PICK s \in Points(sent) : \E m \in Points(sent) : \E t \in Points(sent) :
        /\ Buffered(kind, Failed, Len(got), buffer, next_data_len, s)
        /\ Carries(kind, Failed, f, s, m)
        /\ Flows(kind, Failed, sent, Tail(wire), m, t)
        /\ ~Shortened => t = <<sent, 0>>
  BY <1>1, FrameArrives
<1>6. PICK m \in Points(sent) : \E t \in Points(sent) :
        /\ Carries(kind, Failed, f, s, m)
        /\ Flows(kind, Failed, sent, Tail(wire), m, t)
        /\ ~Shortened => t = <<sent, 0>>
  BY <1>5
<1> HIDE DEF f
<1>7. /\ next_data_len = 0 /\ f # <<>> /\ Runs(f, Len(got)) /\ m = <<Len(got) + Len(f), 0>>
  <2>1. next_data_len = 0 /\ s = <<Len(got) + Len(buffer), 0>>
    BY <1>1, <1>5 DEF Buffered
  <2>2. Len(got) + Len(buffer) = Len(got)
    BY <1>1, <1>3
  <2>3. Plain(f, s, m)
    BY <1>1, <1>6 DEF Carries
  <2> QED
    BY <2>1, <2>2, <2>3 DEF Plain
<1>8. PICK r \in Nat : r = Least(room, Len(f)) /\ r >= 1 /\ r <= Len(f)
  <2>1. Len(f) \in Nat /\ Len(f) >= 1 /\ room \in Nat /\ room >= 1
    BY <1>4, <1>7, SizesAssumption
  <2> QED
    BY <2>1 DEF Least
<1>9. got' = got \o SubSeq(f, 1, r) /\ buffer' = SubSeq(f, r + 1, Len(f)) /\ window' = window + r
  BY <1>1, <1>2, <1>8 DEF DropFirst, release_capacity
<1>10. /\ got' \in Seq(Int) /\ Len(got') = Len(got) + r /\ Runs(got', 0)
       /\ buffer' \in Seq(Int) /\ Len(buffer') = Len(f) - r /\ Runs(buffer', Len(got'))
  <2>1. r \in 0..Len(f)
    BY <1>4, <1>8
  <2>2. ASSUME NEW g \in Seq(Int), g = got, NEW b \in Seq(Int), b = f
        PROVE  LET h == g \o SubSeq(b, 1, r)
                   t == SubSeq(b, r + 1, Len(b))
               IN  /\ h \in Seq(Int) /\ Len(h) = Len(g) + r /\ Runs(h, 0)
                   /\ t \in Seq(Int) /\ Len(t) = Len(b) - r /\ Runs(t, Len(h))
    <3>1. Runs(g, 0) /\ Runs(b, Len(g)) /\ r \in 0..Len(b)
      BY <1>3, <1>7, <2>1, <2>2
    <3> QED
      BY <3>1, RunSplits
  <2> QED
    BY <1>3, <1>4, <1>9, <2>2
<1>11. Buffered(kind, Failed, Len(got'), buffer', next_data_len, m)
  <2>1. Len(got') + Len(buffer') = Len(got) + Len(f)
    BY <1>3, <1>4, <1>8, <1>10
  <2> QED
    BY <1>1, <1>7, <1>10, <2>1 DEF Buffered
<1>12. Failed' = Failed /\ Shortened' = Shortened
  BY <1>1 DEF Failed, Shortened
<1>13. H2Inv'
  <2>1. H2Types'
    <3>1. window' \in Nat
      <4>1. \A x, y \in Nat : x + y \in Nat
        OBVIOUS
      <4>2. r \in Nat /\ window \in Nat /\ window' = window + r
        BY <1>3, <1>8, <1>9
      <4> QED
        BY <4>1, <4>2
    <3> QED
      BY <1>1, <1>3, <1>4, <1>10, <3>1 DEF H2Types
  <2>2. OneStream'
    BY <1>1, <1>6, <1>10, <1>11, <1>12 DEF OneStream
  <2> QED
    BY <2>1, <2>2 DEF H2Inv
<1>14. Len(got) + r <= sent
  BY <1>3, <1>4, <1>6, <1>7, <1>8 DEF Points
<1>15. r \in 1..Len(f) /\ UNCHANGED <<conn, sent, writer, reader>>
  BY <1>1, <1>4, <1>8
<1>16. Pipe!Take
  BY <1>1, <1>4, <1>7, <1>9, <1>14, <1>15, TakeIs
<1> QED
  BY <1>13, <1>16

\* A frame of messages that is added to the buffer.
LEMMA PullStep ==
  ASSUME NEW k \in {"grpc", "zero_rtt"}, H2Inv, Pull(k)
  PROVE  H2Inv' /\ UNCHANGED Pipe!vars
<1>1. /\ kind = k /\ kind # "h2" /\ ~Deliverable /\ wire # <<>> /\ wire' = Tail(wire)
      /\ UNCHANGED <<kind, conn, sent, writer, next_data_len, got, reader>>
  BY DEF Pull, writeVars
<1>2. H2Types /\ sent \in Nat /\ Len(got) \in Nat /\ Runs(got, 0) /\ window \in Nat /\ HeadLen >= 1 /\ HeadLen \in Nat
      /\ next_data_len \in Nat /\ buffer \in Seq(Int) /\ Len(buffer) \in Nat
  BY StreamIs DEF H2Types
<1> DEFINE f == Head(wire)
<1>3. buffer' = buffer \o f /\ window' = window + Len(f)
  BY <1>1 DEF Pull, release_capacity
<1>4. f \in Seq(Int) /\ Tail(wire) \in Frames
  BY <1>1, FrameArrives
<1>5. PICK s \in Points(sent) : \E m \in Points(sent) : \E t \in Points(sent) :
        /\ Buffered(kind, Failed, Len(got), buffer, next_data_len, s)
        /\ Carries(kind, Failed, f, s, m)
        /\ Flows(kind, Failed, sent, Tail(wire), m, t)
        /\ ~Shortened => t = <<sent, 0>>
  BY <1>1, FrameArrives
<1>6. PICK m \in Points(sent) : \E t \in Points(sent) :
        /\ Carries(kind, Failed, f, s, m)
        /\ Flows(kind, Failed, sent, Tail(wire), m, t)
        /\ ~Shortened => t = <<sent, 0>>
  BY <1>5
<1> HIDE DEF f
<1>7. /\ Runs(buffer, Len(got)) /\ s = <<Len(got) + Len(buffer), next_data_len - Len(buffer)>>
      /\ Len(buffer) <= next_data_len /\ (buffer = <<>> \/ Len(buffer) < next_data_len)
  <2>1. buffer = <<>> \/ Len(buffer) < next_data_len
    BY <1>1, <1>2 DEF Deliverable
  <2>2. ~(next_data_len = 0 /\ Headed(Failed, buffer, <<Len(got), 0>>, s))
    <3>1. SUFFICES ASSUME next_data_len = 0, Headed(Failed, buffer, <<Len(got), 0>>, s) PROVE FALSE
      OBVIOUS
    <3>2. Len(buffer) >= HeadLen
      BY <3>1 DEF Headed
    <3> QED
      BY <1>2, <2>1, <3>1, <3>2
  <2> QED
    BY <1>1, <1>5, <2>1, <2>2 DEF Buffered
<1>8. Len(f) \in Nat
  BY <1>4
<1>9. Buffered(kind, Failed, Len(got), buffer \o f, next_data_len, m)
  <2>1. CASE Body(f, s, m)
    <3>1. /\ f # <<>> /\ Runs(f, Len(got) + Len(buffer)) /\ Len(f) <= next_data_len - Len(buffer)
          /\ m = <<(Len(got) + Len(buffer)) + Len(f), (next_data_len - Len(buffer)) - Len(f)>>
      BY <1>7, <2>1 DEF Body
    <3>2. Len(buffer \o f) = Len(buffer) + Len(f) /\ Runs(buffer \o f, Len(got))
      <4>1. ASSUME NEW b \in Seq(Int), b = buffer, NEW g \in Nat, g = Len(got)
            PROVE  Len(b \o f) = Len(b) + Len(f) /\ Runs(b \o f, g)
        BY <1>4, <1>7, <3>1, <4>1, RunJoins
      <4> QED
        BY <1>2, <4>1
    <3>3. /\ Len(buffer \o f) <= next_data_len
          /\ m = <<Len(got) + Len(buffer \o f), next_data_len - Len(buffer \o f)>>
      <4>1. ASSUME NEW g \in Nat, NEW b \in Nat, NEW l \in Nat, NEW x \in Nat, b <= l, x <= l - b
            PROVE  b + x <= l /\ (g + b) + x = g + (b + x) /\ (l - b) - x = l - (b + x)
        BY <4>1
      <4>2. ASSUME NEW g \in Nat, g = Len(got), NEW b \in Nat, b = Len(buffer), NEW l \in Nat, l = next_data_len
            PROVE  /\ b + Len(f) <= l /\ (g + b) + Len(f) = g + (b + Len(f)) /\ (l - b) - Len(f) = l - (b + Len(f))
        BY <1>7, <1>8, <3>1, <4>1, <4>2
      <4> QED
        BY <1>2, <3>1, <3>2, <4>2
    <3> QED
      BY <1>1, <3>2, <3>3 DEF Buffered
  <2>2. CASE Headed(Failed, f, s, m)
    <3>1. buffer = <<>> /\ next_data_len = 0 /\ s = <<Len(got), 0>>
      <4>1. next_data_len - Len(buffer) = 0
        BY <1>7, <2>2 DEF Headed
      <4>2. buffer = <<>>
        BY <1>2, <1>7, <4>1
      <4>3. Len(buffer) = 0
        BY <4>2
      <4> QED
        BY <1>2, <1>7, <4>1, <4>2, <4>3
    <3>2. buffer \o f = f
      BY <1>4, <3>1
    <3> QED
      BY <1>1, <2>2, <3>1, <3>2 DEF Buffered
  <2> QED
    BY <1>1, <1>6, <2>1, <2>2 DEF Carries
<1>10. Failed' = Failed /\ Shortened' = Shortened
  BY <1>1 DEF Failed, Shortened
<1>11. H2Types'
  <2>1. window' \in Nat
    BY <1>2, <1>3, <1>8
  <2>2. buffer' \in Seq(Int)
    BY <1>2, <1>3, <1>4, Concat
  <2> QED
    BY <1>1, <1>2, <1>4, <2>1, <2>2 DEF H2Types
<1>12. OneStream'
  BY <1>1, <1>2, <1>3, <1>6, <1>9, <1>10 DEF OneStream
<1> QED
  BY <1>1, <1>11, <1>12 DEF H2Inv, Pipe!vars, Fate

\* A read of messages gives what is there of one of them.
LEMMA DeliverStep ==
  ASSUME NEW k \in {"grpc", "zero_rtt"}, H2Inv, Deliver(k)
  PROVE  H2Inv' /\ (Pipe!Take \/ Pipe!End)
<1>1. /\ kind = k /\ kind # "h2" /\ Deliverable /\ reader = "open"
      /\ UNCHANGED <<kind, conn, sent, writer, wire, window>>
  BY DEF Deliver, writeVars
<1>2. H2Types /\ sent \in Nat /\ Len(got) \in Nat /\ Runs(got, 0) /\ HeadLen >= 1 /\ HeadLen \in Nat
      /\ next_data_len \in Nat /\ buffer \in Seq(Int) /\ got \in Seq(Int) /\ Len(buffer) \in Nat /\ Len(buffer) >= 1
  BY <1>1, StreamIs DEF H2Types, Deliverable
<1>3. PICK s \in Points(sent) : \E t \in Points(sent) :
        /\ Buffered(kind, Failed, Len(got), buffer, next_data_len, s)
        /\ Flows(kind, Failed, sent, wire, s, t)
        /\ ~Shortened => t = <<sent, 0>>
  BY StreamIs
\* What of the message is in the buffer.
<1>4. PICK body \in Seq(Int) : \E len \in Nat :
        /\ body = IF next_data_len = 0 THEN DropFirst(buffer, HeadLen) ELSE buffer
        /\ len = IF next_data_len = 0 THEN -buffer[1] - 1 ELSE next_data_len
        /\ HasHead /\ Runs(body, Len(got)) /\ Len(body) <= len /\ (len = 0 => Failed) /\ (len > 0 => Len(body) > 0)
        /\ s = <<Len(got) + Len(body), len - Len(body)>>
  <2>1. CASE Runs(buffer, Len(got)) /\ Len(buffer) <= next_data_len
              /\ s = <<Len(got) + Len(buffer), next_data_len - Len(buffer)>>
    <3>1. next_data_len # 0 /\ next_data_len > 0 /\ Len(buffer) > 0
      BY <1>2, <2>1
    <3>2. HasHead
      BY <3>1 DEF HasHead
    <3> QED
      BY <1>2, <2>1, <3>1, <3>2
  <2>2. CASE next_data_len = 0 /\ Headed(Failed, buffer, <<Len(got), 0>>, s)
    <3>1. PICK n \in Nat :
            /\ Len(buffer) >= HeadLen /\ \A i \in 1..HeadLen : buffer[i] = -(n + 1)
            /\ \A i \in 1..Len(buffer) - HeadLen : buffer[HeadLen + i] = Len(got) + i
            /\ Len(buffer) - HeadLen <= n
            /\ IF n = 0 THEN Failed ELSE Len(buffer) > HeadLen
            /\ s = <<Len(got) + (Len(buffer) - HeadLen), n - (Len(buffer) - HeadLen)>>
      BY <2>2 DEF Headed
    <3>2. /\ DropFirst(buffer, HeadLen) \in Seq(Int) /\ Len(DropFirst(buffer, HeadLen)) = Len(buffer) - HeadLen
          /\ \A i \in 1..Len(buffer) - HeadLen : DropFirst(buffer, HeadLen)[i] = buffer[HeadLen + i]
      <4>1. ASSUME NEW b \in Seq(Int), NEW h \in Nat, h <= Len(b)
            PROVE  /\ SubSeq(b, h + 1, Len(b)) \in Seq(Int) /\ Len(SubSeq(b, h + 1, Len(b))) = Len(b) - h
                   /\ \A i \in 1..Len(b) - h : SubSeq(b, h + 1, Len(b))[i] = b[h + i]
        BY <4>1
      <4> QED
        BY <1>2, <3>1, <4>1 DEF DropFirst
    <3>3. Runs(DropFirst(buffer, HeadLen), Len(got))
      BY <3>1, <3>2 DEF Runs
    <3>4. -buffer[1] - 1 = n
      <4>1. buffer[1] = -(n + 1)
        BY <1>2, <3>1
      <4>2. \A x \in Nat : -(-(x + 1)) - 1 = x
        OBVIOUS
      <4> QED
        BY <4>1, <4>2
    <3>5. HasHead
      BY <3>1 DEF HasHead
    <3>6. n > 0 => Len(DropFirst(buffer, HeadLen)) > 0
      BY <1>2, <3>1, <3>2
    <3>7. s = <<Len(got) + Len(DropFirst(buffer, HeadLen)), n - Len(DropFirst(buffer, HeadLen))>>
      BY <3>1, <3>2
    <3> QED
      BY <2>2, <3>1, <3>2, <3>3, <3>4, <3>5, <3>6, <3>7
  <2> QED
    BY <1>1, <1>3, <2>1, <2>2 DEF Buffered
<1>5. PICK len \in Nat :
        /\ body = IF next_data_len = 0 THEN DropFirst(buffer, HeadLen) ELSE buffer
        /\ len = IF next_data_len = 0 THEN -buffer[1] - 1 ELSE next_data_len
        /\ HasHead /\ Runs(body, Len(got)) /\ Len(body) <= len /\ (len = 0 => Failed) /\ (len > 0 => Len(body) > 0)
        /\ s = <<Len(got) + Len(body), len - Len(body)>>
  BY <1>4
<1>6. PICK room \in 1..MaxRead :
        /\ got' = got \o SubSeq(body, 1, Least(room, Least(Len(body), len)))
        /\ buffer' = DropFirst(body, Least(room, Least(Len(body), len)))
        /\ next_data_len' = len - Least(room, Least(Len(body), len))
        /\ reader' = IF Least(room, Least(Len(body), len)) = 0 THEN "eof" ELSE reader
  BY <1>5, Zenon DEF Deliver
<1>7. Len(body) \in Nat
  BY <1>4
<1>8. PICK r \in Nat : r = Least(room, Least(Len(body), len)) /\ r <= Len(body) /\ (r = 0 <=> len = 0)
  <2>1. room \in Nat /\ room >= 1
    BY SizesAssumption
  <2> QED
    <3>1. Len(body) <= len /\ (len > 0 => Len(body) > 0)
      BY <1>5
    <3>2. ASSUME NEW y \in Nat, y = Len(body), NEW x \in Nat, x = room
          PROVE  LET n == Least(x, Least(y, len)) IN n \in Nat /\ n <= y /\ (n = 0 <=> len = 0)
      <4>1. x >= 1 /\ y <= len /\ (len > 0 => y > 0)
        BY <2>1, <3>1, <3>2
      <4>2. Least(y, len) = y
        BY <4>1 DEF Least
      <4>3. Least(x, y) \in Nat /\ Least(x, y) <= y /\ (Least(x, y) = 0 <=> y = 0)
        BY <4>1 DEF Least
      <4> QED
        BY <4>1, <4>2, <4>3
    <3> QED
      BY <1>7, <2>1, <3>2
<1>9. /\ got' = got \o SubSeq(body, 1, r) /\ buffer' = SubSeq(body, r + 1, Len(body))
      /\ next_data_len' = len - r /\ reader' = IF r = 0 THEN "eof" ELSE reader
  BY <1>6, <1>8 DEF DropFirst
<1>10. /\ got' \in Seq(Int) /\ Len(got') = Len(got) + r /\ Runs(got', 0)
       /\ buffer' \in Seq(Int) /\ Len(buffer') = Len(body) - r /\ Runs(buffer', Len(got'))
  <2>1. r \in 0..Len(body)
    BY <1>7, <1>8
  <2>2. ASSUME NEW g \in Seq(Int), g = got
        PROVE  LET h == g \o SubSeq(body, 1, r)
                   t == SubSeq(body, r + 1, Len(body))
               IN  /\ h \in Seq(Int) /\ Len(h) = Len(g) + r /\ Runs(h, 0)
                   /\ t \in Seq(Int) /\ Len(t) = Len(body) - r /\ Runs(t, Len(h))
    <3>1. Runs(g, 0) /\ Runs(body, Len(g))
      BY <1>2, <1>5, <2>2
    <3> QED
      BY <2>1, <3>1, RunSplits
  <2> QED
    BY <1>2, <1>9, <2>2
<1>11. Buffered(kind, Failed, Len(got'), buffer', next_data_len', s) /\ next_data_len' \in Nat
  <2>1. ASSUME NEW g \in Nat, NEW b \in Nat, b <= len
        PROVE  r <= b => /\ (g + r) + (b - r) = g + b /\ (len - r) - (b - r) = len - b
                         /\ b - r <= len - r /\ len - r \in Nat
    BY <2>1
  <2>2. /\ (Len(got) + r) + (Len(body) - r) = Len(got) + Len(body) /\ (len - r) - (Len(body) - r) = len - Len(body)
        /\ Len(body) - r <= len - r /\ len - r \in Nat
    BY <1>2, <1>5, <1>7, <1>8, <2>1
  <2> QED
    BY <1>1, <1>5, <1>9, <1>10, <2>2 DEF Buffered
<1>12. Failed' = Failed /\ Shortened' = Shortened
  BY <1>1 DEF Failed, Shortened
<1>13. H2Inv'
  <2>1. reader' \in {"open", "eof"}
    BY <1>1, <1>9
  <2>2. H2Types'
    BY <1>1, <1>2, <1>10, <1>11, <2>1 DEF H2Types
  <2>3. OneStream'
    BY <1>1, <1>3, <1>10, <1>11, <1>12 DEF OneStream
  <2> QED
    BY <2>2, <2>3 DEF H2Inv
<1>14. CASE r = 0
  <2>1. Failed /\ reader' = "eof"
    BY <1>5, <1>8, <1>9, <1>14
  <2>2. got' = got
    <3>1. SubSeq(body, 1, 0) = <<>>
      OBVIOUS
    <3>2. \A g \in Seq(Int) : g \o <<>> = g
      OBVIOUS
    <3> QED
      BY <1>2, <1>9, <1>14, <3>1, <3>2
  <2>3. Fate = "lost" /\ Fate' = Fate
    BY <1>1, <2>1 DEF Fate, Failed
  <2>4. Pipe!End
    BY <1>1, <2>1, <2>2, <2>3 DEF Pipe!End
  <2> QED
    BY <1>13, <2>4
<1>15. CASE r # 0
  <2>1. r \in 1..Len(body) /\ reader' = reader
    BY <1>7, <1>8, <1>9, <1>15
  <2>2. Len(got) + r <= sent
    <3>1. Len(got) + Len(body) <= sent
      BY <1>5 DEF Points
    <3> QED
      BY <1>2, <1>7, <1>8, <3>1
  <2>3. Pipe!Take
    BY <1>1, <1>5, <1>9, <2>1, <2>2, TakeIs
  <2> QED
    BY <1>13, <2>3
<1> QED
  BY <1>14, <1>15

LEMMA ReadEndStep ==
  ASSUME H2Inv, ReadEnd
  PROVE  H2Inv' /\ Pipe!End
<1>1. /\ reader = "open" /\ wire = <<>> /\ (writer \in {"shut", "reset"} \/ conn = "lost") /\ reader' = "eof"
      /\ IF kind = "h2" THEN buffer = <<>> ELSE ~Deliverable
      /\ UNCHANGED <<kind, conn, sent, writer, wire, window, buffer, next_data_len, got>>
  BY DEF ReadEnd, writeVars
<1>2. H2Types /\ sent \in Nat /\ Len(got) \in Nat /\ HeadLen >= 1 /\ HeadLen \in Nat /\ OneStream
      /\ next_data_len \in Nat /\ buffer \in Seq(Int) /\ Len(buffer) \in Nat
  BY StreamIs DEF H2Types, H2Inv
<1>3. Failed' = Failed /\ Shortened' = Shortened /\ Fate' = Fate
  BY <1>1 DEF Failed, Shortened, Fate
<1>4. H2Inv'
  BY <1>1, <1>2, <1>3 DEF H2Inv, H2Types, OneStream
<1>5. ASSUME ~Shortened PROVE Len(got) = sent
  <2>1. PICK s \in Points(sent) :
          /\ Buffered(kind, Failed, Len(got), buffer, next_data_len, s)
          /\ Flows(kind, Failed, sent, wire, s, <<sent, 0>>)
    BY <1>5, StreamIs
  <2>2. s = <<sent, 0>>
    BY <1>1, <1>2, <2>1, FlowsNowhere
  <2>3. CASE kind = "h2"
    <3>1. Len(buffer) = 0 /\ sent = Len(got) + Len(buffer)
      BY <1>1, <2>1, <2>2, <2>3 DEF Buffered
    <3> QED
      BY <1>2, <3>1
  <2>4. CASE kind # "h2"
    <3>1. buffer = <<>> \/ Len(buffer) < next_data_len
      BY <1>1, <1>2, <2>4 DEF Deliverable
    <3>2. ~(next_data_len = 0 /\ Headed(Failed, buffer, <<Len(got), 0>>, s))
      <4>1. SUFFICES ASSUME next_data_len = 0, Headed(Failed, buffer, <<Len(got), 0>>, s) PROVE FALSE
        OBVIOUS
      <4>2. Len(buffer) >= HeadLen
        BY <4>1 DEF Headed
      <4> QED
        BY <1>2, <3>1, <4>1, <4>2
    <3>3. sent = Len(got) + Len(buffer) /\ next_data_len - Len(buffer) = 0
      BY <2>1, <2>2, <2>4, <3>2 DEF Buffered
    <3>4. Len(buffer) = 0
      BY <1>2, <3>1, <3>3
    <3> QED
      BY <1>2, <3>3, <3>4
  <2> QED
    BY <2>3, <2>4
<1>6. Fate = "lost" \/ (Fate = "ended" /\ Len(got) = sent)
  BY <1>1, <1>5 DEF Fate, Shortened
<1>7. Pipe!End
  BY <1>1, <1>3, <1>6 DEF Pipe!End
<1> QED
  BY <1>4, <1>7

\* Steps that the stream itself does not take part in.
LEMMA OtherStep ==
  ASSUME H2Inv, UNCHANGED <<kind, sent, writer, wire, window, buffer, next_data_len, got>>,
         conn' = conn \/ (conn = "up" /\ conn' = "told"),
         reader' = reader \/ (reader = "open" /\ reader' = "failed")
  PROVE  H2Inv' /\ UNCHANGED Pipe!vars
<1>1. Failed' = Failed /\ Shortened' = Shortened /\ Fate' = Fate
  BY DEF Failed, Shortened, Fate
<1>2. (reader = "eof")' = (reader = "eof")
  OBVIOUS
<1> QED
  BY <1>1, <1>2 DEF H2Inv, H2Types, OneStream, Pipe!vars

LEMMA StreamStep ==
  ASSUME H2Inv, [Next]_vars
  PROVE  H2Inv' /\ [Pipe!Next]_(Pipe!vars)
<1>1. CASE UNCHANGED vars \/ ReaderTells \/ Respond \/ Refused
  <2>1. /\ UNCHANGED <<kind, sent, writer, wire, window, buffer, next_data_len, got>>
        /\ conn' = conn \/ (conn = "up" /\ conn' = "told")
        /\ reader' = reader \/ (reader = "open" /\ reader' = "failed")
    BY <1>1 DEF vars, ReaderTells, Tell, Respond, Refused, writeVars, readVars
  <2> QED
    BY <2>1, OtherStep
<1>2. CASE Write
  BY <1>2, H2WriteStep, MessageStep DEF Write, GrpcWrite, ZeroRttWrite, Pipe!Next
<1>3. CASE Shutdown
  BY <1>3, ShutdownStep
<1>4. CASE Reset
  BY <1>4, ResetStep
<1>5. CASE TaskEnds \/ Break
  BY <1>5, LoseStep DEF TaskEnds, Break
<1>6. CASE Read
  <2>1. CASE H2ReadBuffer \/ H2ReadFrame \/ ReadEnd
    BY <2>1, H2ReadBufferStep, H2ReadFrameStep, ReadEndStep DEF Pipe!Next
  <2>2. CASE GrpcRead \/ ZeroRttRead
    BY <2>2, DeliverStep, PullStep DEF GrpcRead, ZeroRttRead, Pipe!Next
  <2> QED
    BY <1>6, <2>1, <2>2 DEF Read
<1> QED
  BY <1>1, <1>2, <1>3, <1>4, <1>5, <1>6 DEF Next

-----------------------------------------------------------------------------
(* The refinement *)

LEMMA PipeInit == Init => Pipe!Init
  BY DEF Init, Pipe!Init, Fate

\* For any sizes of the writes, the frames, the window, the heads of messages
\* and the buffers of the reader: an h2 stream, with or without the messages of
\* grpc, gives the bytes that were written, once and in order and without the
\* heads, and reports the end only behind them or when the writer or the
\* connection was lost.
THEOREM PipeRefined == Spec => PipeSpec
<1>1. H2Inv /\ [Next]_vars => H2Inv' /\ [Pipe!Next]_(Pipe!vars)
  BY StreamStep
<1>2. Spec => []H2Inv
  BY <1>1, H2Init, PTL DEF Spec
<1> QED
  BY <1>1, <1>2, PipeInit, PTL DEF Spec, PipeSpec, Pipe!Spec
=============================================================================
