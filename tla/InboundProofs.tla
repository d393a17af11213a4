--------------------------- MODULE InboundProofs ---------------------------
(***************************************************************************)
(* What the handshakes let through, and where it goes: proofs about        *)
(* Inbound.  The first part is about what a client has sent, FlattenSeq of *)
(* the messages of its script.  IInv carries who is let through, and what  *)
(* a fallback gets; JInv, in the last parts, which target is asked for and *)
(* what comes behind it.                                                   *)
(***************************************************************************)
EXTENDS Inbound, WellFoundedInduction, TLAPS

-----------------------------------------------------------------------------
(* Sequences *)

LEMMA LeastOf ==
  ASSUME NEW I \in SUBSET Nat, I # {}
  PROVE  \E x \in I : \A y \in I : x <= y
<1>1. PICK x \in I : \A y \in I : ~(<<y, x>> \in OpToRel(<, Nat))
  BY WFMin, NatLessThanWellFounded
<1>2. ASSUME NEW y \in I PROVE x <= y
  <2>1. x \in Nat /\ y \in Nat
    OBVIOUS
  <2>2. y < x => <<y, x>> \in OpToRel(<, Nat)
    BY <2>1 DEF OpToRel
  <2>3. ~(y < x)
    BY <1>1, <2>2
  <2>4. QED
    BY <2>1, <2>3
<1>3. QED
  BY <1>2

\* f flattens the first k elements of w, as the LET of FlattenSeq does.
Flattens(w, k, f) == f = [i \in 1..k |-> IF i = 1 THEN w[i] ELSE f[i - 1] \o w[i]]
First(w, k) == [i \in 1..k |-> w[i]]

LEMMA FlattenSeqIs ==
  ASSUME NEW w, NEW k \in Nat \ {0}, NEW f, Flattens(w, k, f)
  PROVE  \E g : Flattens(w, k, g) /\ FlattenSeq(First(w, k)) = g[k]
<1> DEFINE q == First(w, k)
           F(g) == g = [i \in 1..Len(q) |-> IF i = 1 THEN q[i] ELSE g[i - 1] \o q[i]]
           h == CHOOSE g : F(g)
<1>1. Len(q) = k /\ Len(q) # 0 /\ \A i \in 1..k : q[i] = w[i]
  BY DEF First
<1>2. \A g : F(g) <=> Flattens(w, k, g)
  BY <1>1, ZenonT(30) DEF Flattens
<1>3. F(f)
  BY <1>2
<1>4. F(h)
  BY <1>3
<1>5. FlattenSeq(q) = h[Len(q)]
  BY <1>1 DEF FlattenSeq
<1>6. QED
  BY <1>1, <1>2, <1>4, <1>5

LEMMA FlattenExists ==
  ASSUME NEW w, NEW m \in Nat
  PROVE  \E f : Flattens(w, m, f)
<1> DEFINE Bad == {k \in Nat : ~ \E f : Flattens(w, k, f)}
<1>1. SUFFICES ASSUME Bad # {} PROVE FALSE
  OBVIOUS
<1>2. PICK k \in Bad : \A y \in Bad : k <= y
  <2>1. Bad \in SUBSET Nat
    OBVIOUS
  <2>2. QED
    BY <1>1, <2>1, LeastOf
<1>3. k # 0
  <2>1. Flattens(w, 0, [i \in 1..0 |-> w[i]])
    BY DEF Flattens
  <2>2. QED
    BY <1>2, <2>1
<1>4. k - 1 \in Nat /\ k \in Nat /\ ~(k <= k - 1)
  BY <1>2, <1>3
<1>5. PICK f : Flattens(w, k - 1, f)
  BY <1>2, <1>4
<1> DEFINE g == [i \in 1..k |-> IF i < k THEN f[i] ELSE IF i = 1 THEN w[i] ELSE f[i - 1] \o w[i]]
<1>6. ASSUME NEW i \in 1..k PROVE g[i] = IF i = 1 THEN w[i] ELSE g[i - 1] \o w[i]
  <2>1. i < k => f[i] = IF i = 1 THEN w[i] ELSE f[i - 1] \o w[i]
    <3>1. i < k => i \in 1..k - 1
      BY <1>4
    <3>2. \A j \in 1..k - 1 : f[j] = IF j = 1 THEN w[j] ELSE f[j - 1] \o w[j]
      BY <1>5 DEF Flattens
    <3>3. QED
      BY <3>1, <3>2
  <2>2. i # 1 => i - 1 \in 1..k /\ i - 1 < k
    BY <1>4
  <2>3. QED
    BY <2>1, <2>2
<1>7. Flattens(w, k, g)
  BY <1>6 DEF Flattens
<1>8. QED
  BY <1>2, <1>7

LEMMA FlattenUnique ==
  ASSUME NEW w, NEW m \in Nat, NEW k \in 0..m, NEW f, NEW g, Flattens(w, m, f), Flattens(w, k, g)
  PROVE  \A i \in 1..k : f[i] = g[i]
<1> DEFINE Bad == {i \in 1..k : f[i] # g[i]}
<1>1. SUFFICES ASSUME Bad # {} PROVE FALSE
  OBVIOUS
<1>2. PICK i \in Bad : \A y \in Bad : i <= y
  <2>1. Bad \in SUBSET Nat
    OBVIOUS
  <2>2. QED
    BY <1>1, <2>1, LeastOf
<1>3. i \in 1..k /\ i \in 1..m /\ f[i] # g[i]
  BY <1>2
<1>4. f[i] = (IF i = 1 THEN w[i] ELSE f[i - 1] \o w[i])
  BY <1>3 DEF Flattens
<1>5. g[i] = (IF i = 1 THEN w[i] ELSE g[i - 1] \o w[i])
  BY <1>3 DEF Flattens
<1>6. i # 1 => i - 1 \in 1..k /\ ~(i <= i - 1)
  BY <1>3
<1>7. i # 1 => f[i - 1] = g[i - 1]
  BY <1>2, <1>6
<1>8. QED
  BY <1>3, <1>4, <1>5, <1>7

LEMMA FlattenNext ==
  ASSUME NEW w, NEW k \in Nat \ {0}
  PROVE  FlattenSeq(First(w, k + 1)) = FlattenSeq(First(w, k)) \o w[k + 1]
<1>1. k + 1 \in Nat \ {0} /\ k \in Nat /\ k \in 0..k + 1 /\ k \in 1..k /\ k + 1 \in 1..k + 1 /\ k + 1 # 1 /\ (k + 1) - 1 = k
  OBVIOUS
<1>2. PICK f : Flattens(w, k + 1, f) /\ FlattenSeq(First(w, k + 1)) = f[k + 1]
  BY <1>1, FlattenExists, FlattenSeqIs
<1>3. PICK g : Flattens(w, k, g) /\ FlattenSeq(First(w, k)) = g[k]
  BY <1>1, FlattenExists, FlattenSeqIs
<1>4. f[k] = g[k]
  <2>1. \A i \in 1..k : f[i] = g[i]
    BY <1>1, <1>2, <1>3, FlattenUnique
  <2>2. QED
    BY <1>1, <2>1
<1>5. f[k + 1] = f[k] \o w[k + 1]
  BY <1>1, <1>2 DEF Flattens
<1>6. QED
  BY <1>2, <1>3, <1>4, <1>5

LEMMA FlattenOne ==
  ASSUME NEW w
  PROVE  FlattenSeq(First(w, 1)) = w[1]
<1>1. PICK f : Flattens(w, 1, f) /\ FlattenSeq(First(w, 1)) = f[1]
  BY FlattenExists, FlattenSeqIs
<1>2. QED
  BY <1>1 DEF Flattens

LEMMA ElementOf ==
  ASSUME NEW S, NEW q \in Seq(S), NEW i \in 1..Len(q)
  PROVE  q[i] \in S
  OBVIOUS

\* What the client has sent with one message more: that message is behind.
LEMMA SentByNext ==
  ASSUME NEW s \in Sessions, NEW k \in Nat, k < Len(s.script)
  PROVE  /\ s.script[k + 1].send \in Seq(Nat)
         /\ SentBy(s, k + 1) = SentBy(s, k) \o s.script[k + 1].send
<1> DEFINE w == [i \in 1..Len(s.script) |-> s.script[i].send]
<1>0. s.script \in Seq([send : Seq(Nat), want : Seq(Nat)])
  BY SessionsAssumption
<1>1. k + 1 \in 1..Len(s.script) /\ s.script[k + 1].send \in Seq(Nat) /\ w[k + 1] = s.script[k + 1].send
  <2>1. Len(s.script) \in Nat /\ k + 1 \in 1..Len(s.script)
    BY <1>0
  <2>2. s.script[k + 1] \in [send : Seq(Nat), want : Seq(Nat)]
    BY <1>0, <2>1, ElementOf
  <2>3. QED
    BY <2>1, <2>2
<1>2. \A j \in 0..Len(s.script) : SentBy(s, j) = FlattenSeq(First(w, j))
  <2>1. ASSUME NEW j \in 0..Len(s.script) PROVE [i \in 1..j |-> s.script[i].send] = First(w, j)
    BY <1>0 DEF First
  <2>2. QED
    BY <2>1 DEF SentBy
<1>3. k \in 0..Len(s.script) /\ k + 1 \in 0..Len(s.script)
  BY <1>0
<1>4. CASE k = 0
  <2>1. First(w, 0) = <<>> /\ FlattenSeq(<<>>) = <<>>
    BY DEF First, FlattenSeq
  <2>2. FlattenSeq(First(w, 1)) = w[1]
    BY FlattenOne
  <2>3. <<>> \o w[1] = w[1]
    BY <1>1, <1>4
  <2>4. QED
    BY <1>1, <1>2, <1>3, <1>4, <2>1, <2>2, <2>3, SMTT(30)
<1>5. CASE k # 0
  <2>1. FlattenSeq(First(w, k + 1)) = FlattenSeq(First(w, k)) \o w[k + 1]
    BY <1>5, FlattenNext
  <2>2. QED
    BY <1>1, <1>2, <1>3, <2>1
<1>6. QED
  BY <1>4, <1>5

LEMMA SentByType ==
  ASSUME NEW s \in Sessions, NEW m \in 0..Len(s.script)
  PROVE  SentBy(s, m) \in Seq(Nat) /\ Stream(s, m) \in Seq(Nat)
<1> DEFINE Bad == {k \in 0..Len(s.script) : SentBy(s, k) \notin Seq(Nat)}
<1>0. s.script \in Seq([send : Seq(Nat), want : Seq(Nat)]) /\ s.pre \in Seq(Nat)
  BY SessionsAssumption
<1>1. SUFFICES ASSUME Bad # {} PROVE FALSE
  <2>1. Bad = {} => SentBy(s, m) \in Seq(Nat)
    OBVIOUS
  <2>2. QED
    BY <1>0, <2>1 DEF Stream
<1>2. PICK k \in Bad : \A y \in Bad : k <= y
  <2>1. Bad \in SUBSET Nat
    BY <1>0
  <2>2. QED
    BY <1>1, <2>1, LeastOf
<1>b. k \in 0..Len(s.script) /\ SentBy(s, k) \notin Seq(Nat)
  BY <1>2
<1>3. k # 0
  <2>1. [i \in 1..0 |-> s.script[i].send] = <<>> /\ <<>> \in Seq(Nat)
    OBVIOUS
  <2>2. FlattenSeq(<<>>) = <<>>
    BY DEF FlattenSeq
  <2>3. SentBy(s, 0) \in Seq(Nat)
    BY <2>1, <2>2 DEF SentBy
  <2>4. QED
    BY <1>b, <2>3
<1>4. k - 1 \in Nat /\ k - 1 \in 0..Len(s.script) /\ k - 1 < Len(s.script) /\ (k - 1) + 1 = k /\ ~(k <= k - 1)
  BY <1>0, <1>2, <1>3
<1>5. SentBy(s, k - 1) \in Seq(Nat)
  BY <1>2, <1>4
<1>6. /\ s.script[k].send \in Seq(Nat)
      /\ SentBy(s, k) = SentBy(s, k - 1) \o s.script[k].send
  <2>1. /\ s.script[(k - 1) + 1].send \in Seq(Nat)
        /\ SentBy(s, (k - 1) + 1) = SentBy(s, k - 1) \o s.script[(k - 1) + 1].send
    BY <1>4, SentByNext
  <2>2. QED
    BY <1>4, <2>1
<1>7. \A a, b \in Seq(Nat) : a \o b \in Seq(Nat)
  OBVIOUS
<1>8. QED
  BY <1>b, <1>5, <1>6, <1>7

-----------------------------------------------------------------------------
(* Pieces of what was sent *)

Suffix(s, t) == Len(s) <= Len(t) /\ \A i \in 1..Len(s) : s[i] = t[Len(t) - Len(s) + i]
Occurs(m, t) == \E d \in 0..Len(t) : d + Len(m) <= Len(t) /\ \A i \in 1..Len(m) : m[i] = t[d + i]

LEMMA Assoc ==
  ASSUME NEW a \in Seq(Nat), NEW b \in Seq(Nat), NEW c \in Seq(Nat)
  PROVE  (a \o b) \o c = a \o (b \o c) /\ a \o b \in Seq(Nat) /\ Len(a \o b) = Len(a) + Len(b)
  OBVIOUS

LEMMA SameSeq ==
  ASSUME NEW a \in Seq(Nat), NEW b \in Seq(Nat), Len(a) = Len(b), \A i \in 1..Len(a) : a[i] = b[i]
  PROVE  a = b
  OBVIOUS

LEMMA TakeIs ==
  ASSUME NEW s \in Seq(Nat), NEW k \in 0..Len(s)
  PROVE  /\ Take(s, k) \in Seq(Nat) /\ Len(Take(s, k)) = k
         /\ \A i \in 1..k : Take(s, k)[i] = s[i]
  BY DEF Take

LEMMA DropIs ==
  ASSUME NEW s \in Seq(Nat), NEW k \in 0..Len(s)
  PROVE  /\ Drop(s, k) \in Seq(Nat) /\ Len(Drop(s, k)) = Len(s) - k
         /\ \A i \in 1..Len(s) - k : Drop(s, k)[i] = s[k + i]
<1>1. k + 1 \in 1..Len(s) + 1 /\ Len(s) \in Nat
  OBVIOUS
<1>2. /\ SubSeq(s, k + 1, Len(s)) \in Seq(Nat)
      /\ Len(SubSeq(s, k + 1, Len(s))) = IF k + 1 <= Len(s) THEN Len(s) - (k + 1) + 1 ELSE 0
      /\ \A i \in 1..Len(s) - (k + 1) + 1 : SubSeq(s, k + 1, Len(s))[i] = s[(k + 1) + i - 1]
  BY <1>1
<1>3. \A i \in 1..Len(s) - k : (k + 1) + i - 1 = k + i /\ i \in 1..Len(s) - (k + 1) + 1
  BY <1>1
<1>4. (IF k + 1 <= Len(s) THEN Len(s) - (k + 1) + 1 ELSE 0) = Len(s) - k
  BY <1>1
<1>5. QED
  BY <1>2, <1>3, <1>4 DEF Drop

LEMMA ConcatIs ==
  ASSUME NEW a \in Seq(Nat), NEW b \in Seq(Nat)
  PROVE  /\ a \o b \in Seq(Nat) /\ Len(a \o b) = Len(a) + Len(b)
         /\ \A i \in 1..Len(a) : (a \o b)[i] = a[i]
         /\ \A i \in 1..Len(b) : (a \o b)[Len(a) + i] = b[i]
  OBVIOUS

LEMMA TakeDrop ==
  ASSUME NEW s \in Seq(Nat), NEW k \in 0..Len(s)
  PROVE  Take(s, k) \o Drop(s, k) = s
<1> DEFINE t == Take(s, k)
           r == Drop(s, k)
<1>1. t \in Seq(Nat) /\ Len(t) = k /\ \A i \in 1..k : t[i] = s[i]
  BY TakeIs
<1>2. r \in Seq(Nat) /\ Len(r) = Len(s) - k /\ \A i \in 1..Len(s) - k : r[i] = s[k + i]
  BY DropIs
<1> HIDE DEF t, r
<1>3. /\ t \o r \in Seq(Nat) /\ Len(t \o r) = Len(t) + Len(r)
      /\ \A i \in 1..Len(t) : (t \o r)[i] = t[i]
      /\ \A i \in 1..Len(r) : (t \o r)[Len(t) + i] = r[i]
  BY <1>1, <1>2, ConcatIs
<1>4. Len(t \o r) = Len(s)
  BY <1>1, <1>2, <1>3
<1>5. ASSUME NEW i \in 1..Len(s) PROVE (t \o r)[i] = s[i]
  <2>1. CASE i <= k
    BY <1>1, <1>3, <2>1
  <2>2. CASE i > k
    <3>1. i - k \in 1..Len(s) - k /\ k + (i - k) = i
      BY <2>2
    <3>2. (t \o r)[Len(t) + (i - k)] = r[i - k]
      BY <1>2, <1>3, <3>1
    <3>3. QED
      BY <1>1, <1>2, <3>1, <3>2
  <2>3. i <= k \/ i > k
    <3>1. i \in Nat /\ k \in Nat
      OBVIOUS
    <3>2. QED
      BY <3>1
  <2>4. QED
    BY <2>1, <2>2, <2>3
<1>6. t \o r = s
  BY <1>3, <1>4, <1>5, SameSeq
<1>7. QED
  BY <1>6 DEF t, r

LEMMA SuffixDrop ==
  ASSUME NEW s \in Seq(Nat), NEW t \in Seq(Nat), Suffix(s, t), NEW k \in 0..Len(s)
  PROVE  Suffix(Drop(s, k), t)
<1> DEFINE r == Drop(s, k)
<1>1. r \in Seq(Nat) /\ Len(r) = Len(s) - k /\ \A i \in 1..Len(s) - k : r[i] = s[k + i]
  BY DropIs
<1> HIDE DEF r
<1>2. ASSUME NEW i \in 1..Len(r) PROVE r[i] = t[Len(t) - Len(r) + i]
  <2>1. k + i \in 1..Len(s) /\ Len(t) - Len(s) + (k + i) = Len(t) - Len(r) + i
    BY <1>1
  <2>2. s[k + i] = t[Len(t) - Len(s) + (k + i)]
    BY <2>1 DEF Suffix
  <2>3. QED
    BY <1>1, <2>1, <2>2
<1>3. Len(r) <= Len(t)
  BY <1>1 DEF Suffix
<1>4. Suffix(r, t)
  BY <1>2, <1>3 DEF Suffix
<1>5. QED
  BY <1>4 DEF r

LEMMA SuffixAppend ==
  ASSUME NEW s \in Seq(Nat), NEW t \in Seq(Nat), Suffix(s, t), NEW x \in Seq(Nat)
  PROVE  Suffix(s \o x, t \o x)
<1> DEFINE a == s \o x
           b == t \o x
<1>1. /\ a \in Seq(Nat) /\ Len(a) = Len(s) + Len(x)
      /\ \A i \in 1..Len(s) : a[i] = s[i]
      /\ \A i \in 1..Len(x) : a[Len(s) + i] = x[i]
  BY ConcatIs
<1>2. /\ b \in Seq(Nat) /\ Len(b) = Len(t) + Len(x)
      /\ \A i \in 1..Len(t) : b[i] = t[i]
      /\ \A i \in 1..Len(x) : b[Len(t) + i] = x[i]
  BY ConcatIs
<1> HIDE DEF a, b
<1>0. Len(s) \in Nat /\ Len(t) \in Nat /\ Len(x) \in Nat /\ Len(s) <= Len(t)
  BY DEF Suffix
<1>3. ASSUME NEW i \in 1..Len(a) PROVE a[i] = b[Len(b) - Len(a) + i]
  <2>1. Len(b) - Len(a) + i = Len(t) - Len(s) + i
    BY <1>0, <1>1, <1>2
  <2>2. CASE i <= Len(s)
    <3>1. i \in 1..Len(s) /\ Len(t) - Len(s) + i \in 1..Len(t)
      BY <1>0, <2>2
    <3>2. s[i] = t[Len(t) - Len(s) + i]
      BY <3>1 DEF Suffix
    <3>3. QED
      BY <1>1, <1>2, <2>1, <3>1, <3>2
  <2>3. CASE i > Len(s)
    <3>1. i - Len(s) \in 1..Len(x) /\ Len(s) + (i - Len(s)) = i /\ Len(t) + (i - Len(s)) = Len(t) - Len(s) + i
      BY <1>0, <1>1, <2>3
    <3>2. a[Len(s) + (i - Len(s))] = x[i - Len(s)] /\ b[Len(t) + (i - Len(s))] = x[i - Len(s)]
      BY <1>1, <1>2, <3>1
    <3>3. QED
      BY <2>1, <3>1, <3>2
  <2>4. QED
    BY <1>0, <2>2, <2>3
<1>4. Len(a) <= Len(b)
  BY <1>0, <1>1, <1>2
<1>5. Suffix(a, b)
  BY <1>3, <1>4 DEF Suffix
<1>6. QED
  BY <1>5 DEF a, b

LEMMA OccursAppend ==
  ASSUME NEW m \in Seq(Nat), NEW t \in Seq(Nat), Occurs(m, t), NEW x \in Seq(Nat)
  PROVE  Occurs(m, t \o x)
<1> DEFINE b == t \o x
<1>1. /\ b \in Seq(Nat) /\ Len(b) = Len(t) + Len(x)
      /\ \A i \in 1..Len(t) : b[i] = t[i]
  BY ConcatIs
<1> HIDE DEF b
<1>2. PICK d \in 0..Len(t) : d + Len(m) <= Len(t) /\ \A i \in 1..Len(m) : m[i] = t[d + i]
  BY DEF Occurs
<1>3. Len(m) \in Nat /\ Len(t) \in Nat /\ Len(x) \in Nat
  OBVIOUS
<1>4. ASSUME NEW i \in 1..Len(m) PROVE m[i] = b[d + i]
  <2>1. d + i \in 1..Len(t)
    BY <1>2, <1>3, SMTT(30)
  <2>2. QED
    BY <1>1, <1>2, <2>1
<1>5. d \in 0..Len(b) /\ d + Len(m) <= Len(b)
  BY <1>1, <1>2, <1>3
<1>6. Occurs(m, b)
  BY <1>4, <1>5 DEF Occurs
<1>7. QED
  BY <1>6 DEF b

\* A part of an occurrence, and of a suffix, occurs.
LEMMA OccursPart ==
  ASSUME NEW m \in Seq(Nat), NEW t \in Seq(Nat), Occurs(m, t), NEW p \in Seq(Nat),
         NEW e \in Nat, e + Len(p) <= Len(m), \A i \in 1..Len(p) : p[i] = m[e + i]
  PROVE  Occurs(p, t)
<1>1. PICK d \in 0..Len(t) : d + Len(m) <= Len(t) /\ \A i \in 1..Len(m) : m[i] = t[d + i]
  BY DEF Occurs
<1>2. Len(m) \in Nat /\ Len(t) \in Nat /\ Len(p) \in Nat
  OBVIOUS
<1>3. d + e \in 0..Len(t) /\ (d + e) + Len(p) <= Len(t)
  BY <1>1, <1>2
<1>4. ASSUME NEW i \in 1..Len(p) PROVE p[i] = t[(d + e) + i]
  <2>1. e + i \in 1..Len(m) /\ d + (e + i) = (d + e) + i
    BY <1>1, <1>2
  <2>2. m[e + i] = t[d + (e + i)]
    BY <1>1, <2>1
  <2>3. QED
    BY <2>1, <2>2
<1>5. QED
  BY <1>3, <1>4 DEF Occurs

LEMMA SuffixOccurs ==
  ASSUME NEW s \in Seq(Nat), NEW t \in Seq(Nat), Suffix(s, t)
  PROVE  Occurs(s, t)
<1>1. Len(s) \in Nat /\ Len(t) \in Nat /\ Len(s) <= Len(t)
  BY DEF Suffix
<1>2. Len(t) - Len(s) \in 0..Len(t) /\ (Len(t) - Len(s)) + Len(s) <= Len(t)
  BY <1>1
<1>3. QED
  BY <1>2 DEF Suffix, Occurs

LEMMA SubSeqIs ==
  ASSUME NEW s \in Seq(Nat), NEW i \in Nat \ {0}, NEW j \in Nat, j <= Len(s), i <= j + 1
  PROVE  /\ SubSeq(s, i, j) \in Seq(Nat) /\ Len(SubSeq(s, i, j)) = (j - i) + 1
         /\ \A x \in 1..(j - i) + 1 : SubSeq(s, i, j)[x] = s[(i - 1) + x]
<1>1. \A x \in 1..(j - i) + 1 : (i - 1) + x = i + x - 1 /\ x \in 1..j - i + 1
  OBVIOUS
<1>2. /\ SubSeq(s, i, j) \in Seq(Nat)
      /\ Len(SubSeq(s, i, j)) = IF i <= j THEN j - i + 1 ELSE 0
      /\ \A x \in 1..j - i + 1 : SubSeq(s, i, j)[x] = s[i + x - 1]
  OBVIOUS
<1>3. (IF i <= j THEN j - i + 1 ELSE 0) = (j - i) + 1
  OBVIOUS
<1>4. QED
  BY <1>1, <1>2, <1>3

\* b begins with a message of Auth; the name and the password in it.
AuthIn(b, ul, pl) == 3 + ul + pl <= Len(b) /\ b[1] = 1 /\ b[2] = ul /\ b[3 + ul] = pl
MessageOf(u) == <<1, Len(u[1])>> \o u[1] \o <<Len(u[2])>> \o u[2]
UpOf(b, ul, pl) == <<SubSeq(b, 3, 2 + ul), SubSeq(b, 4 + ul, 3 + ul + pl)>>

LEMMA AuthMessage ==
  ASSUME NEW b \in Seq(Nat), NEW ul \in Nat, NEW pl \in Nat, AuthIn(b, ul, pl),
         NEW u, u = UpOf(b, ul, pl)
  PROVE  Len(u[1]) = ul /\ Len(u[2]) = pl /\ SubSeq(b, 1, 3 + ul + pl) = MessageOf(u)
<1> DEFINE u1 == SubSeq(b, 3, 2 + ul)
           u2 == SubSeq(b, 4 + ul, 3 + ul + pl)
<1>0. Len(b) \in Nat /\ 3 + ul + pl <= Len(b) /\ b[1] = 1 /\ b[2] = ul /\ b[3 + ul] = pl
  BY DEF AuthIn
<1>1. /\ u1 \in Seq(Nat) /\ Len(u1) = ul
      /\ \A x \in 1..ul : u1[x] = b[2 + x]
  <2>1. 3 \in Nat \ {0} /\ 2 + ul \in Nat /\ 2 + ul <= Len(b) /\ 3 <= (2 + ul) + 1 /\ ((2 + ul) - 3) + 1 = ul /\ 3 - 1 = 2
    BY <1>0
  <2>2. /\ SubSeq(b, 3, 2 + ul) \in Seq(Nat) /\ Len(SubSeq(b, 3, 2 + ul)) = ((2 + ul) - 3) + 1
        /\ \A x \in 1..((2 + ul) - 3) + 1 : SubSeq(b, 3, 2 + ul)[x] = b[(3 - 1) + x]
    BY <2>1, SubSeqIs
  <2>3. QED
    BY <2>1, <2>2 DEF u1
<1>2. /\ u2 \in Seq(Nat) /\ Len(u2) = pl
      /\ \A x \in 1..pl : u2[x] = b[(3 + ul) + x]
  <2>1. /\ 4 + ul \in Nat \ {0} /\ 3 + ul + pl \in Nat /\ 4 + ul <= (3 + ul + pl) + 1
        /\ ((3 + ul + pl) - (4 + ul)) + 1 = pl /\ (4 + ul) - 1 = 3 + ul
    BY <1>0
  <2>2. /\ SubSeq(b, 4 + ul, 3 + ul + pl) \in Seq(Nat)
        /\ Len(SubSeq(b, 4 + ul, 3 + ul + pl)) = ((3 + ul + pl) - (4 + ul)) + 1
        /\ \A x \in 1..((3 + ul + pl) - (4 + ul)) + 1 :
             SubSeq(b, 4 + ul, 3 + ul + pl)[x] = b[((4 + ul) - 1) + x]
    BY <1>0, <2>1, SubSeqIs
  <2>3. QED
    BY <2>1, <2>2 DEF u2
<1> HIDE DEF u1, u2
<1> DEFINE h == <<1, ul>>
           a == h \o u1
           c == a \o <<pl>>
           d == c \o u2
           m == SubSeq(b, 1, 3 + ul + pl)
<1>3. /\ a \in Seq(Nat) /\ Len(a) = 2 + ul
      /\ a[1] = 1 /\ a[2] = ul /\ \A x \in 1..ul : a[2 + x] = u1[x]
  <2>1. h \in Seq(Nat) /\ Len(h) = 2 /\ h[1] = 1 /\ h[2] = ul
    OBVIOUS
  <2> HIDE DEF h
  <2>2. /\ a \in Seq(Nat) /\ Len(a) = Len(h) + Len(u1)
        /\ \A x \in 1..Len(h) : a[x] = h[x]
        /\ \A x \in 1..Len(u1) : a[Len(h) + x] = u1[x]
    BY <1>1, <2>1, ConcatIs
  <2>3. 1 \in 1..2 /\ 2 \in 1..2
    OBVIOUS
  <2> HIDE DEF a
  <2>4. QED
    BY <1>1, <2>1, <2>2, <2>3
<1> HIDE DEF a
<1>4. /\ c \in Seq(Nat) /\ Len(c) = 3 + ul
      /\ \A x \in 1..2 + ul : c[x] = a[x]
      /\ c[3 + ul] = pl
  <2>1. <<pl>> \in Seq(Nat) /\ Len(<<pl>>) = 1 /\ <<pl>>[1] = pl /\ 1 \in 1..1
    OBVIOUS
  <2>2. /\ c \in Seq(Nat) /\ Len(c) = (2 + ul) + 1
        /\ \A x \in 1..2 + ul : c[x] = a[x]
        /\ c[(2 + ul) + 1] = pl
    BY <1>3, <2>1, ConcatIs
  <2>3. (2 + ul) + 1 = 3 + ul
    OBVIOUS
  <2>4. QED
    BY <2>2, <2>3
<1> HIDE DEF c
<1>5. /\ d \in Seq(Nat) /\ Len(d) = 3 + ul + pl
      /\ \A x \in 1..3 + ul : d[x] = c[x]
      /\ \A x \in 1..pl : d[(3 + ul) + x] = u2[x]
  <2>1. /\ d \in Seq(Nat) /\ Len(d) = Len(c) + Len(u2)
        /\ \A x \in 1..Len(c) : d[x] = c[x]
        /\ \A x \in 1..Len(u2) : d[Len(c) + x] = u2[x]
    BY <1>2, <1>4, ConcatIs
  <2> HIDE DEF d
  <2>2. QED
    BY <1>2, <1>4, <2>1
<1>6. /\ m \in Seq(Nat) /\ Len(m) = 3 + ul + pl
      /\ \A x \in 1..3 + ul + pl : m[x] = b[x]
  <2>1. /\ 1 \in Nat \ {0} /\ 3 + ul + pl \in Nat /\ 1 <= (3 + ul + pl) + 1
        /\ ((3 + ul + pl) - 1) + 1 = 3 + ul + pl /\ \A x \in 1..3 + ul + pl : (1 - 1) + x = x
    OBVIOUS
  <2>2. /\ SubSeq(b, 1, 3 + ul + pl) \in Seq(Nat)
        /\ Len(SubSeq(b, 1, 3 + ul + pl)) = ((3 + ul + pl) - 1) + 1
        /\ \A x \in 1..((3 + ul + pl) - 1) + 1 : SubSeq(b, 1, 3 + ul + pl)[x] = b[(1 - 1) + x]
    BY <1>0, <2>1, SubSeqIs
  <2>3. QED
    BY <2>1, <2>2 DEF m
<1> HIDE DEF d, m
<1>7. ASSUME NEW x \in 1..3 + ul + pl PROVE m[x] = d[x]
  <2>0. x \in Nat /\ 1 <= x /\ x <= 3 + ul + pl
    OBVIOUS
  <2>1. CASE x \in {1, 2}
    <3>1. x \in 1..2 + ul /\ x \in 1..3 + ul
      BY <2>1
    <3>2. d[x] = a[x]
      BY <1>4, <1>5, <3>1
    <3>3. a[x] = b[x]
      BY <1>0, <1>3, <2>1
    <3>4. QED
      BY <1>6, <3>2, <3>3
  <2>2. CASE 3 <= x /\ x <= 2 + ul
    <3>1. x \in 1..2 + ul /\ x \in 1..3 + ul /\ x - 2 \in 1..ul /\ 2 + (x - 2) = x
      BY <2>0, <2>2
    <3>2. d[x] = a[x]
      BY <1>4, <1>5, <3>1
    <3>3. a[2 + (x - 2)] = u1[x - 2] /\ u1[x - 2] = b[2 + (x - 2)]
      BY <1>1, <1>3, <3>1
    <3>4. QED
      BY <1>6, <3>1, <3>2, <3>3
  <2>3. CASE x = 3 + ul
    <3>1. x \in 1..3 + ul
      BY <2>0, <2>3
    <3>2. QED
      BY <1>0, <1>4, <1>5, <1>6, <2>3, <3>1
  <2>4. CASE x > 3 + ul
    <3>1. x - (3 + ul) \in 1..pl /\ (3 + ul) + (x - (3 + ul)) = x
      BY <2>0, <2>4
    <3>2. d[(3 + ul) + (x - (3 + ul))] = u2[x - (3 + ul)] /\ u2[x - (3 + ul)] = b[(3 + ul) + (x - (3 + ul))]
      BY <1>2, <1>5, <3>1
    <3>3. QED
      BY <1>6, <3>1, <3>2
  <2>5. x \in {1, 2} \/ (3 <= x /\ x <= 2 + ul) \/ x = 3 + ul \/ x > 3 + ul
    BY <2>0
  <2>6. QED
    BY <2>1, <2>2, <2>3, <2>4, <2>5
<1>8. m = d
  BY <1>5, <1>6, <1>7, SameSeq
<1>9. d = <<1, ul>> \o u1 \o <<pl>> \o u2
  BY DEF a, c, d
<1>10. u[1] = u1 /\ u[2] = u2
  BY DEF UpOf, u1, u2
<1>11. Len(u[1]) = ul /\ Len(u[2]) = pl
  BY <1>1, <1>2, <1>10
<1>12. m = <<1, Len(u[1])>> \o u[1] \o <<Len(u[2])>> \o u[2]
  BY <1>8, <1>9, <1>10, <1>11
<1>13. QED
  BY <1>11, <1>12 DEF m, MessageOf

LEMMA OccursWhere ==
  ASSUME NEW t \in Seq(Nat), NEW b \in Seq(Nat), Occurs(b, t), NEW L \in Nat, L <= Len(b)
  PROVE  \E d \in 0..Len(t) : d + L <= Len(t) /\ SubSeq(t, d + 1, d + L) = SubSeq(b, 1, L)
<1>1. PICK d \in 0..Len(t) : d + Len(b) <= Len(t) /\ \A i \in 1..Len(b) : b[i] = t[d + i]
  BY DEF Occurs
<1>2. Len(b) \in Nat /\ Len(t) \in Nat /\ d \in Nat /\ d + L <= Len(t)
  BY <1>1
<1> DEFINE p == SubSeq(b, 1, L)
           q == SubSeq(t, d + 1, d + L)
<1>3. p \in Seq(Nat) /\ Len(p) = L /\ \A i \in 1..L : p[i] = b[i]
  <2>1. 1 \in Nat \ {0} /\ 1 <= L + 1 /\ (L - 1) + 1 = L /\ \A i \in 1..L : (1 - 1) + i = i
    OBVIOUS
  <2>2. QED
    BY <2>1, SubSeqIs
<1>4. q \in Seq(Nat) /\ Len(q) = L /\ \A i \in 1..L : q[i] = t[d + i]
  <2>1. d + 1 \in Nat \ {0} /\ d + L \in Nat /\ d + 1 <= (d + L) + 1 /\ ((d + L) - (d + 1)) + 1 = L /\ (d + 1) - 1 = d
    BY <1>2
  <2>2. QED
    BY <1>2, <2>1, SubSeqIs
<1> HIDE DEF p, q
<1>5. ASSUME NEW i \in 1..L PROVE p[i] = q[i]
  <2>1. i \in 1..Len(b)
    BY <1>2
  <2>2. QED
    BY <1>1, <1>3, <1>4, <2>1
<1>6. p = q
  BY <1>3, <1>4, <1>5, SameSeq
<1>7. QED
  BY <1>2, <1>6 DEF p, q

\* Where its message occurs the client has named the user.
LEMMA OccursNames ==
  ASSUME NEW t \in Seq(Nat), NEW b \in Seq(Nat), Occurs(b, t), NEW ul \in Nat, NEW pl \in Nat,
         AuthIn(b, ul, pl)
  PROVE  \E d \in 0..Len(t) : NamesAt(t, d, UpOf(b, ul, pl))
<1>0. PICK u : u = UpOf(b, ul, pl)
  OBVIOUS
<1>1. Len(u[1]) = ul /\ Len(u[2]) = pl /\ SubSeq(b, 1, 3 + ul + pl) = MessageOf(u)
  BY <1>0, AuthMessage
<1>2. PICK d \in 0..Len(t) : /\ d + (3 + ul + pl) <= Len(t)
                             /\ SubSeq(t, d + 1, d + (3 + ul + pl)) = SubSeq(b, 1, 3 + ul + pl)
  <2>1. 3 + ul + pl \in Nat /\ 3 + ul + pl <= Len(b)
    BY DEF AuthIn
  <2>2. QED
    BY <2>1, OccursWhere
<1>3. d + (3 + ul + pl) = d + 3 + ul + pl
  OBVIOUS
<1>4. NamesAt(t, d, u)
  BY <1>1, <1>2, <1>3 DEF NamesAt, MessageOf
<1>5. QED
  BY <1>0, <1>4

-----------------------------------------------------------------------------
(* The invariant *)

Hearing == {"methods", "auth", "read_auth"}
Heading == {"command", "early", "associate"}
Socks == {"socks5", "socks5http"}

\* All that the server has been sent.
Count == IF cwait THEN cstep ELSE cstep - 1
AllSent == Stream(ses, Count)

ClientInv ==
  /\ ses \in Sessions
  /\ cstep \in 1..Len(Script) + 1 /\ cwait \in BOOLEAN
  /\ cwait => cstep <= Len(Script) /\ Script[cstep].want # <<>>
  /\ down \in Seq(Nat)

\* What is still to be read is the end of it.
UpInv == up \in Seq(Nat) /\ (ses.server # "trojan" => Suffix(up, AllSent))

PcInv ==
  /\ pc \in Servers \cup Hearing \cup Heading \cup {"given", "done"}
  /\ pc \in Servers => pc = ses.server
  /\ pc \in Hearing \cup Heading \cup {"given"} => ses.server \in Socks

IsLoc(l) == \E i, last, seen, remain, user, addr :
  l = [i |-> i, last |-> last, seen |-> seen, remain |-> remain, user |-> user, addr |-> addr]

\* What was read with the methods, and is not a reply yet, is a part of what was
\* sent, as long as some of it remains.
HearInv ==
  pc \in Hearing =>
    /\ buf \in Seq(Nat) /\ n \in 0..Len(buf)
    /\ IsLoc(loc) /\ loc.remain \in 0..n
    /\ loc.remain # 0 => 3 <= n /\ n # loc.last /\ Occurs(SubSeq(buf, 4, n), AllSent)
    /\ pc = "read_auth" => loc.remain = 0

BufInv ==
  /\ pc \in Servers \cup Heading => buf \in Seq(Nat) /\ n \in 0..Len(buf)
  /\ pc \in Servers /\ ses.pre # <<>> => buf = ses.pre

Named(u) == u \in ses.users /\ u = ses.who
GoodUser(u) == (u # NoUser => Named(u)) /\ (ses.users # {} => u # NoUser)
GoodResult(r) ==
  /\ r.d # NoUser => r.e = "ok" /\ Named(r.d)
  /\ r.e = "ok" /\ Authenticates /\ ses.users # {} => r.d # NoUser

UserInv ==
  /\ pc \in Heading => IsLoc(loc) /\ GoodUser(loc.user)
  /\ GoodResult(res)

\* The head of trojan is the beginning of it, though a write may cut a later frame.
HeadOf == (IF ses.pre = <<>> THEN Take(buf, n) ELSE ses.pre) \o up
HeadLen == PassLen + 3
Alike(a, b) == HeadLen <= Len(a) /\ HeadLen <= Len(b) /\ \A i \in 1..HeadLen : a[i] = b[i]
Frames == ses.rbuf > 0 /\ Count # 0
BegunInv ==
  ses.server = "trojan" =>
    /\ Frames => HeadLen <= Len(AllSent)
    /\ pc = "trojan" => HeadOf = AllSent \/ (Frames /\ Alike(HeadOf, AllSent))

\* Nothing is lost of what a client without a reply has sent.
WithRest(b) == b \in Seq(Nat) /\ b \o up = AllSent
Looked == ses.server = "filter" => ses.pre = <<>>
QuietInv ==
  ses.server # "trojan" =>
    /\ pc \in Servers => up = Sent
    /\ pc \in Heading => ~Silent
    /\ pc = "given" /\ Silent => WithRest(buf)
    /\ Returned /\ IsFallback(res) /\ Silent /\ Looked => WithRest(res.b)

ChosenInv == out # <<>> => Returned /\ out[1] \in Selectors /\ out[2] = Select(out[1], InfoOf(res))

IInv == ClientInv /\ UpInv /\ PcInv /\ HearInv /\ BufInv /\ UserInv /\ BegunInv /\ QuietInv /\ ChosenInv

-----------------------------------------------------------------------------
(* Steps of the server *)

LEMMA HeadLenType ==
  /\ HeadLen \in Nat /\ PassLen \in Nat /\ PassLen <= HeadLen
  /\ \A i \in 1..PassLen : i \in 1..HeadLen
  BY TrojanAssumption DEF HeadLen

LEMMA AllSentType ==
  ASSUME ClientInv
  PROVE  /\ Count \in 0..Len(Script) /\ AllSent \in Seq(Nat) /\ Sent \in Seq(Nat) /\ ses.pre \in Seq(Nat)
         /\ AllSent = ses.pre \o Sent
<1>1. ses.script \in Seq([send : Seq(Nat), want : Seq(Nat)]) /\ ses.pre \in Seq(Nat)
  BY SessionsAssumption DEF ClientInv
<1>2. Len(ses.script) \in Nat
  BY <1>1
<1>3. Count \in 0..Len(ses.script)
  BY <1>2 DEF ClientInv, Script, Count
<1>4. SentBy(ses, Count) \in Seq(Nat) /\ Stream(ses, Count) \in Seq(Nat)
  BY <1>3, SentByType DEF ClientInv
<1>5. QED
  BY <1>1, <1>3, <1>4 DEF AllSent, Sent, Count, Stream, Script

LEMMA TakesBound ==
  ASSUME NEW s \in Seq(Nat), NEW cap \in Nat, NEW ended, NEW k \in Takes(s, cap, ended)
  PROVE  k \in 0..Len(s) /\ k <= cap
<1>1. Len(s) \in Nat
  OBVIOUS
<1>2. Most(s, cap) \in Nat /\ Most(s, cap) <= Len(s) /\ Most(s, cap) <= cap
  BY <1>1 DEF Most
<1>3. k = 0 \/ k \in 1..Most(s, cap) \/ k = Most(s, cap)
  BY DEF Takes
<1>4. QED
  BY <1>1, <1>2, <1>3

\* What a step of the server leaves alone, and does to the wires.
ServerFrame ==
  /\ UNCHANGED <<ses, clientVars, out>>
  /\ up' \in Seq(Nat) /\ (ses.server # "trojan" => Suffix(up', AllSent))
  /\ down' \in Seq(Nat) /\ (down' = <<>> => down = <<>>)

LEMMA ReadFrame ==
  ASSUME IInv, NEW k \in 0..Len(up), up' = Drop(up, k) \/ up' = up,
         UNCHANGED <<ses, clientVars, out>>, down' \in Seq(Nat), down' = <<>> => down = <<>>
  PROVE  ServerFrame
<1>1. up \in Seq(Nat) /\ AllSent \in Seq(Nat)
  BY AllSentType DEF IInv, UpInv
<1>2. Drop(up, k) \in Seq(Nat) /\ (ses.server # "trojan" => Suffix(Drop(up, k), AllSent))
  BY <1>1, DropIs, SuffixDrop DEF IInv, UpInv
<1>3. QED
  BY <1>1, <1>2 DEF ServerFrame, IInv, UpInv

LEMMA FrameKeeps ==
  ASSUME IInv, ServerFrame
  PROVE  /\ ClientInv' /\ UpInv'
         /\ AllSent' = AllSent /\ Sent' = Sent /\ (Silent' => Silent) /\ (Looked' <=> Looked)
         /\ \A u : GoodUser(u)' <=> GoodUser(u)
         /\ \A r : GoodResult(r)' <=> GoodResult(r)
<1>1. ClientInv'
  BY DEF ServerFrame, IInv, ClientInv, clientVars, Script
<1>2. AllSent' = AllSent /\ Sent' = Sent
  BY DEF ServerFrame, clientVars, AllSent, Sent, Count
<1>3. UpInv'
  BY <1>2 DEF ServerFrame, UpInv
<1>4. Silent' => Silent
  BY DEF ServerFrame, clientVars, Silent, Script
<1>5. Looked' <=> Looked
  BY DEF ServerFrame, Looked
<1>6. \A u : GoodUser(u)' <=> GoodUser(u)
  BY DEF ServerFrame, GoodUser, Named
<1>7. \A r : GoodResult(r)' <=> GoodResult(r)
  BY DEF ServerFrame, GoodResult, Named, Authenticates
<1>8. QED
  BY <1>1, <1>2, <1>3, <1>4, <1>5, <1>6, <1>7

\* A result, which may make socks5http turn to the http proxy.
LEMMA Returns ==
  ASSUME IInv, ServerFrame, ses.server # "trojan", pc # "done", NEW r, Return(r), GoodResult(r),
         r.e = "err" /\ (r.c = "conn" \/ r.b # <<>>) /\ Silent' /\ Looked
           => r.b \in Seq(Nat) /\ r.b \o up' = AllSent
  PROVE  IInv'
<1>1. /\ ClientInv' /\ UpInv' /\ AllSent' = AllSent
      /\ (Looked' <=> Looked)
  BY FrameKeeps
<1>2. \/ pc' = "done" /\ res' = r
      \/ ses.server = "socks5http" /\ r.e = "err" /\ r.b # <<>> /\ pc' = "given" /\ buf' = r.b /\ res' = res
  BY DEF Return
<1>3. ses' = ses /\ out' = out /\ out = <<>>
  BY DEF ServerFrame, IInv, ChosenInv, Returned
<1>4. PcInv'
  BY <1>2, <1>3 DEF PcInv, Servers, Hearing, Heading, Socks
<1>5. HearInv' /\ BufInv'
  BY <1>2 DEF HearInv, BufInv, Servers, Hearing, Heading
<1>6. GoodResult(res)'
  <2>1. GoodResult(res)' <=> GoodResult(res')
    BY <1>3 DEF GoodResult, Named, Authenticates
  <2>2. GoodResult(res)
    BY DEF IInv, UserInv
  <2>3. QED
    BY <1>2, <2>1, <2>2
<1>7. UserInv'
  BY <1>2, <1>6 DEF UserInv, Heading
<1>8. BegunInv' /\ ChosenInv'
  BY <1>3 DEF BegunInv, ChosenInv
<1>9. QuietInv'
  <2>1. CASE pc' = "done" /\ res' = r
    BY <1>1, <1>3, <2>1 DEF QuietInv, WithRest, Servers, Heading, IsFallback
  <2>2. CASE ses.server = "socks5http" /\ r.e = "err" /\ r.b # <<>> /\ pc' = "given" /\ buf' = r.b
    <3>1. Looked
      BY <2>2 DEF Looked
    <3>2. QED
      BY <1>1, <1>3, <2>2, <3>1 DEF QuietInv, WithRest, Servers, Heading, Returned
  <2>3. QED
    BY <1>2, <2>1, <2>2
<1>10. QED
  BY <1>1, <1>4, <1>5, <1>7, <1>8, <1>9 DEF IInv

\* The handshake of socks5 goes on.
LEMMA GoesOn ==
  ASSUME IInv, ServerFrame, ses.server \in Socks, pc # "done",
         pc' \in Hearing \cup Heading, UNCHANGED res, HearInv',
         pc' \in Heading => /\ IsLoc(loc') /\ GoodUser(loc'.user) /\ ~Silent'
                            /\ buf' \in Seq(Nat) /\ n' \in 0..Len(buf')
  PROVE  IInv'
<1>1. /\ ClientInv' /\ UpInv' /\ AllSent' = AllSent
  BY FrameKeeps
<1>3. ses' = ses /\ out' = out /\ out = <<>> /\ ses.server # "trojan"
  BY DEF ServerFrame, IInv, ChosenInv, Returned, Socks
<1>4. PcInv'
  BY <1>3 DEF PcInv, Servers, Hearing, Heading, Socks
<1>5. BufInv'
  BY DEF BufInv, Servers, Hearing, Heading
<1>6. UserInv'
  <2>1. GoodResult(res)'
    BY <1>3 DEF UserInv, IInv, GoodResult, Named, Authenticates
  <2>2. pc' \in Heading => IsLoc(loc)' /\ GoodUser(loc.user)'
    BY <1>3 DEF GoodUser, Named, IsLoc
  <2>3. QED
    BY <2>1, <2>2 DEF UserInv
<1>8. BegunInv' /\ ChosenInv'
  BY <1>3 DEF BegunInv, ChosenInv
<1>9. QuietInv'
  BY <1>3 DEF QuietInv, Servers, Hearing, Heading, Returned
<1>10. QED
  BY <1>1, <1>4, <1>5, <1>6, <1>8, <1>9 DEF IInv

\* The handshake ends.
LEMMA Ends ==
  ASSUME IInv, ServerFrame, pc # "done", pc' = "done", GoodResult(res'),
         ses.server # "trojan" /\ IsFallback(res') /\ Silent' /\ Looked
           => res'.b \in Seq(Nat) /\ res'.b \o up' = AllSent
  PROVE  IInv'
<1>1. /\ ClientInv' /\ UpInv' /\ AllSent' = AllSent
      /\ (Looked' <=> Looked)
  BY FrameKeeps
<1>2. ses' = ses /\ out' = out /\ out = <<>>
  BY DEF ServerFrame, IInv, ChosenInv, Returned
<1>3. PcInv' /\ HearInv' /\ BufInv' /\ ChosenInv'
  BY <1>2 DEF PcInv, HearInv, BufInv, ChosenInv, Servers, Hearing, Heading
<1>4. UserInv'
  <2>1. GoodResult(res)' <=> GoodResult(res')
    BY <1>2 DEF GoodResult, Named, Authenticates
  <2>2. QED
    BY <2>1 DEF UserInv, Heading
<1>5. BegunInv'
  <2>1. Frames' <=> Frames
    BY DEF ServerFrame, clientVars, Frames, Count
  <2>2. QED
    BY <1>1, <1>2, <2>1 DEF BegunInv, IInv
<1>6. QuietInv'
  <2>1. IsFallback(res)' <=> IsFallback(res')
    BY DEF IsFallback
  <2>2. QED
    BY <1>1, <1>2, <2>1 DEF QuietInv, WithRest, Servers, Heading
<1>7. QED
  BY <1>1, <1>3, <1>4, <1>5, <1>6 DEF IInv

LEMMA Replied ==
  ASSUME ClientInv, NEW x \in Seq(Nat), x # <<>>, down' = down \o x
  PROVE  down' \in Seq(Nat) /\ down' # <<>> /\ ~Silent'
<1>1. down \in Seq(Nat)
  BY DEF ClientInv
<1>2. Len(x) > 0 /\ down' \in Seq(Nat) /\ Len(down') = Len(down) + Len(x)
  BY <1>1
<1>3. down' # <<>>
  BY <1>1, <1>2
<1>4. QED
  BY <1>2, <1>3 DEF Silent

\* What a step of the server reads.
Reads == /\ UNCHANGED <<ses, clientVars, out>>
         /\ \E k \in 0..Len(up) : up' = Drop(up, k) \/ up' = up

LEMMA Framed ==
  ASSUME IInv, Reads, down' \in Seq(Nat), down' = <<>> => down = <<>>
  PROVE  ServerFrame
<1>1. PICK k \in 0..Len(up) : up' = Drop(up, k) \/ up' = up
  BY DEF Reads
<1>2. UNCHANGED <<ses, clientVars, out>>
  BY DEF Reads
<1>3. QED
  BY <1>1, <1>2, ReadFrame

\* A result without a reply, and one with a reply.
LEMMA FailKeeps ==
  ASSUME IInv, Reads, ses.server # "trojan", pc # "done", NEW r, Fail(r), GoodResult(r),
         r.e = "err" /\ (r.c = "conn" \/ r.b # <<>>) /\ Silent /\ Looked
           => r.b \in Seq(Nat) /\ r.b \o up' = AllSent
  PROVE  IInv'
<1>1. Return(r) /\ down' = down
  BY DEF Fail
<1>2. ServerFrame
  BY <1>1, Framed DEF IInv, ClientInv
<1>3. Silent' => Silent
  BY <1>2, FrameKeeps
<1>4. QED
  BY <1>1, <1>2, <1>3, Returns

LEMMA ReplyKeeps ==
  ASSUME IInv, Reads, ses.server # "trojan", pc # "done", NEW r, Return(r), GoodResult(r),
         NEW x \in Seq(Nat), x # <<>>, down' = down \o x
  PROVE  IInv'
<1>1. down' \in Seq(Nat) /\ down' # <<>> /\ ~Silent'
  BY Replied DEF IInv
<1>2. ServerFrame
  BY <1>1, Framed
<1>3. QED
  BY <1>1, <1>2, Returns

LEMMA ErrorsAreGood ==
  ASSUME NEW b
  PROVE  GoodResult(Ebc(b)) /\ GoodResult(Err) /\ GoodResult(Panicked) /\ GoodResult(BufErr(b))
  BY DEF GoodResult, Ebc, Err, BufErr, Panicked, Result

LEMMA NotAuthedKeeps ==
  ASSUME IInv, Reads, ses.server # "trojan", pc # "done", NEW b, NEW k, NotAuthed(b, k)
  PROVE  IInv'
<1> DEFINE t == Take([b EXCEPT ![1] = VERSION5, ![2] = AUTH_NO_ACCEPTABLE], k)
<1>1. Return(Ebc(t)) /\ down' = down \o <<VERSION5, AUTH_NO_ACCEPTABLE>>
  BY DEF NotAuthed
<1>2. <<VERSION5, AUTH_NO_ACCEPTABLE>> \in Seq(Nat) /\ <<VERSION5, AUTH_NO_ACCEPTABLE>> # <<>>
  BY DEF VERSION5, AUTH_NO_ACCEPTABLE
<1>3. GoodResult(Ebc(t))
  BY ErrorsAreGood
<1> HIDE DEF t
<1>4. QED
  BY <1>1, <1>2, <1>3, ReplyKeeps

-----------------------------------------------------------------------------
(* socks5 *)

\* Until something has been sent back, what was read and the rest are all.
LEMMA HelloKeeps ==
  ASSUME IInv, Reads, pc \in Socks, NEW b \in Seq(Nat), NEW k \in 0..Len(b), Hello(b, k),
         Take(b, k) \o up' = AllSent, up' \in Seq(Nat)
  PROVE  IInv'
<1>0. ses.server \in Socks /\ ses.server # "trojan" /\ pc # "done"
  BY DEF IInv, PcInv, Servers, Socks
<1>1. k \in Nat /\ Len(b) \in Nat /\ k <= Len(b) /\ Take(b, k) \in Seq(Nat) /\ Len(Take(b, k)) = k
      /\ \A i \in 1..k : Take(b, k)[i] = b[i]
  BY TakeIs
<1>2. CASE Fail(Err)
  BY <1>0, <1>2, FailKeeps, ErrorsAreGood DEF Err, BufErr, Result
<1>3. CASE Fail(Ebc(Take(b, k)))
  <2>1. Ebc(Take(b, k)).b = Take(b, k)
    BY DEF Ebc, Result
  <2>2. QED
    BY <1>0, <1>1, <1>3, <2>1, FailKeeps, ErrorsAreGood
<1>4. CASE NotAuthed(b, k)
  BY <1>0, <1>4, NotAuthedKeeps
<1>5. CASE /\ ~(k < 3) /\ ~(k < 2 + b[2])
           /\ pc' = "methods" /\ buf' = b /\ n' = k
           /\ loc' = [NoLoc EXCEPT !.i = 3, !.last = 2 + b[2], !.remain = k - (2 + b[2])]
           /\ UNCHANGED <<down, res>>
  <2>0. k >= 3 /\ ~(k < 2 + b[2])
    BY <1>1, <1>5
  <2>1. b[2] \in Nat
    BY <1>1, <2>0, SMTT(30)
  <2>2. loc'.remain = k - (2 + b[2]) /\ loc'.last = 2 + b[2] /\ IsLoc(loc')
    BY <1>5 DEF NoLoc, IsLoc
  <2>3. loc'.remain \in 0..k /\ (loc'.remain # 0 => k # loc'.last)
    <3>1. \A m \in Nat : ~(k < 2 + m) => k - (2 + m) \in 0..k /\ (k - (2 + m) # 0 => k # 2 + m)
      BY <1>1
    <3>2. k - (2 + b[2]) \in 0..k /\ (k - (2 + b[2]) # 0 => k # 2 + b[2])
      BY <2>0, <2>1, <3>1
    <3>3. QED
      BY <2>2, <3>2
  <2>4. Occurs(SubSeq(b, 4, k), AllSent)
    <3> DEFINE m == SubSeq(b, 4, k)
    <3>1. /\ m \in Seq(Nat) /\ Len(m) = (k - 4) + 1
          /\ \A x \in 1..(k - 4) + 1 : m[x] = b[(4 - 1) + x]
      <4>1. 4 \in Nat \ {0} /\ 4 <= k + 1
        BY <1>1, <2>0
      <4>2. QED
        BY <1>1, <4>1, SubSeqIs
    <3> HIDE DEF m
    <3>2. /\ Len(AllSent) = k + Len(up') /\ Len(up') \in Nat
          /\ \A i \in 1..k : AllSent[i] = Take(b, k)[i]
      <4>1. ASSUME NEW t \in Seq(Nat), NEW u \in Seq(Nat), Len(t) = k, t \o u = AllSent
            PROVE  /\ Len(AllSent) = k + Len(u) /\ Len(u) \in Nat
                   /\ \A i \in 1..k : AllSent[i] = t[i]
        <5>1. /\ Len(t \o u) = Len(t) + Len(u)
              /\ \A i \in 1..Len(t) : (t \o u)[i] = t[i]
          BY ConcatIs
        <5>2. Len(u) \in Nat
          OBVIOUS
        <5>3. QED
          BY <4>1, <5>1, <5>2
      <4>2. QED
        BY <1>1, <4>1
    <3>3. 3 \in 0..Len(AllSent) /\ 3 + Len(m) <= Len(AllSent)
      <4>1. \A x, y \in Nat : x >= 3 => 3 \in 0..x + y /\ 3 + ((x - 4) + 1) <= x + y
        OBVIOUS
      <4>2. QED
        BY <1>1, <2>0, <3>1, <3>2, <4>1
    <3>4. ASSUME NEW i \in 1..Len(m) PROVE m[i] = AllSent[3 + i]
      <4>1. 3 + i \in 1..k /\ (4 - 1) + i = 3 + i /\ i \in 1..(k - 4) + 1
        <5>1. i \in 1..(k - 4) + 1
          BY <3>1
        <5>2. QED
          BY <1>1, <2>0, <5>1
      <4>2. QED
        BY <1>1, <3>1, <3>2, <4>1
    <3>5. Occurs(m, AllSent)
      BY <3>3, <3>4 DEF Occurs
    <3>6. QED
      BY <3>5 DEF m
  <2>5. ServerFrame
    BY <1>5, Framed DEF IInv, ClientInv
  <2>6. AllSent' = AllSent
    BY <2>5, FrameKeeps
  <2>7. HearInv'
    BY <1>1, <1>5, <2>2, <2>3, <2>4, <2>6, SMTT(30) DEF HearInv
  <2>8. pc' \in Hearing /\ pc' \notin Heading /\ res' = res
    BY <1>5 DEF Hearing, Heading
  <2>9. QED
    BY <1>0, <2>5, <2>7, <2>8, GoesOn
<1>6. QED
  BY <1>2, <1>3, <1>4, <1>5, Zenon DEF Hello

\* Reading over the beginning of a buffer.
LEMMA ReadIntoIs ==
  ASSUME up \in Seq(Nat), NEW b \in Seq(Nat), NEW f \in 0..Len(b), NEW k \in 0..Len(up), f + k <= Len(b)
  PROVE  /\ ReadInto(b, f, k) \in Seq(Nat) /\ Len(ReadInto(b, f, k)) = Len(b)
         /\ Take(ReadInto(b, f, k), f + k) = Take(b, f) \o Take(up, k)
<1> DEFINE p == Take(b, f)
           q == Take(up, k)
           r == Drop(b, f + k)
           w == ReadInto(b, f, k)
<1>0. f \in Nat /\ k \in Nat /\ Len(b) \in Nat /\ f + k \in 0..Len(b)
  OBVIOUS
<1>1. w = (p \o q) \o r
  BY DEF ReadInto, Take
<1>2. p \in Seq(Nat) /\ Len(p) = f
  BY TakeIs
<1>3. q \in Seq(Nat) /\ Len(q) = k
  BY TakeIs
<1>4. r \in Seq(Nat) /\ Len(r) = Len(b) - (f + k)
  BY <1>0, DropIs
<1> HIDE DEF p, q, r, w
<1>5. /\ p \o q \in Seq(Nat) /\ Len(p \o q) = f + k
  BY <1>2, <1>3, ConcatIs
<1> DEFINE h == p \o q
<1> HIDE DEF h
<1>6. h \in Seq(Nat) /\ Len(h) = f + k /\ w = h \o r
  BY <1>1, <1>5 DEF h
<1>7. /\ w \in Seq(Nat) /\ Len(w) = Len(h) + Len(r)
      /\ \A i \in 1..Len(h) : w[i] = h[i]
  BY <1>4, <1>6, ConcatIs
<1>8. Len(w) = Len(b)
  BY <1>0, <1>4, <1>6, <1>7
<1>9. Take(w, f + k) = h
  <2>1. /\ Take(w, f + k) \in Seq(Nat) /\ Len(Take(w, f + k)) = f + k
        /\ \A i \in 1..f + k : Take(w, f + k)[i] = w[i]
    BY <1>0, <1>7, <1>8, TakeIs
  <2>2. \A i \in 1..f + k : Take(w, f + k)[i] = h[i]
    BY <1>6, <1>7, <2>1
  <2>3. QED
    BY <1>6, <2>1, <2>2, SameSeq
<1>10. QED
  BY <1>7, <1>8, <1>9 DEF h, p, q, w

\* ... and of one that was read into from the start.
LEMMA ReadStart ==
  ASSUME up \in Seq(Nat), NEW b \in Seq(Nat), NEW k \in 0..Len(up), k <= Len(b)
  PROVE  /\ ReadInto(b, 0, k) \in Seq(Nat) /\ Len(ReadInto(b, 0, k)) = Len(b)
         /\ Take(ReadInto(b, 0, k), k) = Take(up, k)
<1>1. 0 \in 0..Len(b) /\ k \in Nat /\ 0 + k = k
  OBVIOUS
<1>2. /\ ReadInto(b, 0, k) \in Seq(Nat) /\ Len(ReadInto(b, 0, k)) = Len(b)
      /\ Take(ReadInto(b, 0, k), k) = Take(b, 0) \o Take(up, k)
  BY <1>1, ReadIntoIs
<1>3. Take(b, 0) = <<>>
  BY DEF Take
<1>4. <<>> \o Take(up, k) = Take(up, k)
  <2>1. Take(up, k) \in Seq(Nat)
    BY TakeIs
  <2>2. QED
    BY <2>1
<1>5. QED
  BY <1>2, <1>3, <1>4

LEMMA Consumed ==
  ASSUME IInv, UNCHANGED <<ses, clientVars, out>>, NEW cap \in Nat, NEW ended,
         NEW k \in Takes(up, cap, ended), Consume(k, cap)
  PROVE  Reads /\ up \in Seq(Nat) /\ k \in 0..Len(up) /\ k <= cap /\ up' = Drop(up, k) /\ up' \in Seq(Nat)
<1>1. up \in Seq(Nat)
  BY DEF IInv, UpInv
<1>2. k \in 0..Len(up) /\ k <= cap
  BY <1>1, TakesBound
<1>3. up' = Drop(up, k)
  BY DEF Consume
<1>4. Drop(up, k) \in Seq(Nat)
  BY <1>1, <1>2, DropIs
<1>5. QED
  BY <1>1, <1>2, <1>3, <1>4 DEF Reads

LEMMA NothingRead ==
  ASSUME IInv, UNCHANGED <<ses, clientVars, out, up>>
  PROVE  Reads /\ up' \in Seq(Nat)
<1>1. 0 \in 0..Len(up) /\ up \in Seq(Nat)
  BY DEF IInv, UpInv
<1>2. QED
  BY <1>1 DEF Reads

LEMMA ReadHelloKeeps ==
  ASSUME IInv, ReadHello, UNCHANGED out
  PROVE  IInv'
<1>0. pc \in Socks /\ UNCHANGED <<ses, clientVars, out>>
  BY DEF ReadHello, Socks
<1>1. /\ ses.server # "trojan" /\ pc \in Servers
      /\ buf \in Seq(Nat) /\ (ses.pre # <<>> => buf = ses.pre) /\ up = Sent
  BY <1>0 DEF IInv, PcInv, BufInv, QuietInv, Servers, Socks
<1>2. AllSent = ses.pre \o up /\ up \in Seq(Nat) /\ ses.pre \in Seq(Nat) /\ Len(buf) \in Nat
  BY <1>1, AllSentType DEF IInv, UpInv
<1>3. CASE ses.pre # <<>>
  <2>1. Hello(buf, Len(buf)) /\ up' = up
    BY <1>3 DEF ReadHello
  <2>2. Reads /\ up' \in Seq(Nat)
    BY <1>0, <2>1, NothingRead
  <2>3. Len(buf) \in 0..Len(buf) /\ Take(buf, Len(buf)) = buf
    BY <1>1 DEF Take
  <2>4. Take(buf, Len(buf)) \o up' = AllSent
    BY <1>1, <1>2, <1>3, <2>1, <2>3
  <2>5. QED
    BY <1>0, <1>1, <2>1, <2>2, <2>3, <2>4, HelloKeeps
<1>4. CASE ses.pre = <<>>
  <2>1. PICK k \in Takes(up, Len(buf), ClientClosed) : Hello(ReadInto(buf, 0, k), k) /\ Consume(k, Len(buf))
    BY <1>4 DEF ReadHello
  <2>2. Reads /\ k \in 0..Len(up) /\ k <= Len(buf) /\ up' = Drop(up, k) /\ up' \in Seq(Nat)
    BY <1>0, <1>2, <2>1, Consumed
  <2>3. /\ ReadInto(buf, 0, k) \in Seq(Nat) /\ Len(ReadInto(buf, 0, k)) = Len(buf)
        /\ Take(ReadInto(buf, 0, k), k) = Take(up, k)
    BY <1>1, <1>2, <2>2, ReadStart
  <2>4. k \in 0..Len(ReadInto(buf, 0, k))
    BY <1>2, <2>2, <2>3
  <2>5. Take(up, k) \o Drop(up, k) = AllSent
    <3>1. <<>> \o up = up
      BY <1>2
    <3>2. QED
      BY <1>2, <1>4, <2>2, <3>1, TakeDrop
  <2>6. QED
    BY <1>0, <2>1, <2>2, <2>3, <2>4, <2>5, HelloKeeps
<1>5. QED
  BY <1>3, <1>4

\* The command is looked at next.
LEMMA ToCommandKeeps ==
  ASSUME IInv, Reads, ses.server \in Socks, pc \in Hearing, IsLoc(loc),
         NEW b \in Seq(Nat), NEW k \in 0..Len(b), NEW remain \in 0..k, NEW u,
         ToCommand(b, k, remain, u), GoodUser(u),
         NEW x \in Seq(Nat), x # <<>>, down' = down \o x
  PROVE  IInv'
<1>1. down' \in Seq(Nat) /\ down' # <<>> /\ ~Silent'
  BY Replied DEF IInv
<1>2. ServerFrame
  BY <1>1, Framed
<1>3. pc' = "command" /\ loc' = [loc EXCEPT !.user = u] /\ res' = res
  BY DEF ToCommand
<1>4. IsLoc(loc') /\ loc'.user = u
  BY <1>3 DEF IsLoc
<1>5. pc # "done" /\ pc' \in Hearing \cup Heading /\ HearInv'
  BY <1>3 DEF Hearing, Heading, HearInv
<1>6. buf' \in Seq(Nat) /\ n' \in 0..Len(buf')
  <2>0. k \in Nat /\ remain \in Nat /\ remain <= k /\ Len(b) \in Nat /\ k <= Len(b)
    OBVIOUS
  <2>1. CASE remain > 0
    <3>1. buf' = Drop(b, k - remain) /\ n' = remain
      BY <2>1 DEF ToCommand
    <3>2. k - remain \in 0..Len(b)
      BY <2>0
    <3>3. Drop(b, k - remain) \in Seq(Nat) /\ Len(Drop(b, k - remain)) = Len(b) - (k - remain)
      BY <3>2, DropIs
    <3>4. QED
      BY <2>0, <3>1, <3>3
  <2>2. CASE ~(remain > 0)
    <3>1. buf' = b /\ n' = remain /\ remain = 0
      BY <2>0, <2>2 DEF ToCommand
    <3>2. QED
      BY <2>0, <3>1
  <2>3. QED
    BY <2>1, <2>2
<1>7. QED
  BY <1>1, <1>2, <1>3, <1>4, <1>5, <1>6, GoesOn

\* The hello stays what it is behind the reply in its first two bytes.
LEMMA RepliedBuffer ==
  ASSUME NEW b \in Seq(Nat), NEW m \in Nat, NEW k \in 0..Len(b),
         NEW c, c = [b EXCEPT ![1] = VERSION5, ![2] = m]
  PROVE  /\ c \in Seq(Nat) /\ Len(c) = Len(b)
         /\ 3 <= k => SubSeq(c, 4, k) = SubSeq(b, 4, k)
<1>1. c \in Seq(Nat) /\ Len(c) = Len(b) /\ \A i \in 1..Len(b) : i >= 3 => c[i] = b[i]
  <2>1. PICK N \in Nat : N = Len(b) /\ b \in [1..N -> Nat]
    OBVIOUS
  <2>2. c \in [1..N -> Nat] /\ \A i \in 1..N : i >= 3 => c[i] = b[i]
    <3>1. c \in [1..N -> Nat]
      BY <2>1 DEF VERSION5
    <3>2. \A i \in 1..Len(b) : i >= 3 => c[i] = b[i]
      BY DEF VERSION5
    <3>3. QED
      BY <2>1, <3>1, <3>2
  <2>3. c \in Seq(Nat) /\ Len(c) = N
    BY <2>2
  <2>4. QED
    BY <2>1, <2>2, <2>3
<1>2. ASSUME 3 <= k PROVE SubSeq(c, 4, k) = SubSeq(b, 4, k)
  <2>0. k \in Nat /\ Len(b) \in Nat /\ 4 \in Nat \ {0} /\ 4 <= k + 1 /\ k <= Len(b)
    BY <1>2
  <2>1. /\ SubSeq(b, 4, k) \in Seq(Nat) /\ Len(SubSeq(b, 4, k)) = (k - 4) + 1
        /\ \A x \in 1..(k - 4) + 1 : SubSeq(b, 4, k)[x] = b[(4 - 1) + x]
    BY <2>0, SubSeqIs
  <2>2. /\ SubSeq(c, 4, k) \in Seq(Nat) /\ Len(SubSeq(c, 4, k)) = (k - 4) + 1
        /\ \A x \in 1..(k - 4) + 1 : SubSeq(c, 4, k)[x] = c[(4 - 1) + x]
    BY <1>1, <2>0, SubSeqIs, SMTT(30)
  <2>3. \A x \in 1..(k - 4) + 1 : (4 - 1) + x \in 1..Len(b) /\ (4 - 1) + x >= 3
    BY <2>0
  <2>4. \A x \in 1..(k - 4) + 1 : SubSeq(c, 4, k)[x] = SubSeq(b, 4, k)[x]
    BY <1>1, <2>1, <2>2, <2>3
  <2>5. QED
    BY <2>1, <2>2, <2>4, SameSeq
<1>3. QED
  BY <1>1, <1>2

LEMMA MethodKeeps ==
  ASSUME IInv, Method, UNCHANGED out
  PROVE  IInv'
<1> DEFINE m == buf[loc.i]
           replied == [buf EXCEPT ![1] = VERSION5, ![2] = m]
<1>0. pc = "methods" /\ UNCHANGED <<ses, clientVars, out, up>>
  BY DEF Method
<1>1. /\ pc \in Hearing /\ pc # "done" /\ ses.server \in Socks /\ ses.server # "trojan"
      /\ buf \in Seq(Nat) /\ n \in 0..Len(buf) /\ IsLoc(loc) /\ loc.remain \in 0..n
      /\ loc.remain # 0 => 3 <= n /\ n # loc.last /\ Occurs(SubSeq(buf, 4, n), AllSent)
  BY <1>0 DEF IInv, PcInv, HearInv, Hearing, Socks
<1>2. Reads /\ down \in Seq(Nat)
  BY <1>0, NothingRead DEF IInv, ClientInv
<1>3. CASE NotAuthed(buf, n)
  BY <1>1, <1>2, <1>3, NotAuthedKeeps
<1>4. CASE /\ NextMethod(loc.seen \cup ({m} \cap {AUTH_NONE, AUTH_PASSWORD}))
           /\ UNCHANGED <<down, pc, buf, n, res>>
  <2> DEFINE seen == loc.seen \cup ({m} \cap {AUTH_NONE, AUTH_PASSWORD})
  <2>1. loc' = [loc EXCEPT !.i = @ + 1, !.seen = seen]
    BY <1>4 DEF NextMethod
  <2> HIDE DEF seen
  <2>2. IsLoc(loc') /\ loc'.remain = loc.remain /\ loc'.last = loc.last
    BY <1>1, <2>1 DEF IsLoc
  <2>3. ServerFrame
    BY <1>2, <1>4, Framed
  <2>4. AllSent' = AllSent
    BY <2>3, FrameKeeps
  <2>5. HearInv'
    BY <1>0, <1>1, <1>4, <2>2, <2>4 DEF HearInv
  <2>6. pc' \in Hearing /\ pc' \notin Heading /\ res' = res
    BY <1>0, <1>4 DEF Hearing, Heading
  <2>7. QED
    BY <1>1, <2>3, <2>5, <2>6, GoesOn
<1>5. CASE /\ m = AUTH_NONE /\ Usable(m)
           /\ down' = down \o <<VERSION5, AUTH_NONE>>
           /\ ToCommand(replied, n, loc.remain, NoUser)
  <2>1. GoodUser(NoUser)
    BY <1>5 DEF GoodUser, Usable, AUTH_NONE, AUTH_PASSWORD
  <2>2. <<VERSION5, AUTH_NONE>> \in Seq(Nat) /\ <<VERSION5, AUTH_NONE>> # <<>>
    BY DEF VERSION5, AUTH_NONE
  <2>3. m \in Nat
    BY <1>5 DEF AUTH_NONE
  <2> HIDE DEF m
  <2>4. replied \in Seq(Nat) /\ Len(replied) = Len(buf)
    BY <1>1, <2>3, RepliedBuffer
  <2>5. n \in 0..Len(replied)
    BY <1>1, <2>4
  <2> HIDE DEF replied
  <2>6. QED
    BY <1>1, <1>2, <1>5, <2>1, <2>2, <2>4, <2>5, ToCommandKeeps
<1>6. CASE /\ m = AUTH_PASSWORD
           /\ down' = down \o <<VERSION5, AUTH_PASSWORD>>
           /\ pc' = IF n = loc.last THEN "read_auth" ELSE "auth"
           /\ buf' = replied
           /\ loc' = [loc EXCEPT !.seen = @ \cup {m}]
           /\ UNCHANGED <<n, res>>
  <2>1. m \in Nat
    BY <1>6 DEF AUTH_PASSWORD
  <2>2. IsLoc(loc') /\ loc'.remain = loc.remain /\ loc'.last = loc.last
    BY <1>1, <1>6 DEF IsLoc
  <2> HIDE DEF m
  <2>3. /\ replied \in Seq(Nat) /\ Len(replied) = Len(buf)
        /\ 3 <= n => SubSeq(replied, 4, n) = SubSeq(buf, 4, n)
    BY <1>1, <2>1, RepliedBuffer
  <2> HIDE DEF replied
  <2>4. <<VERSION5, AUTH_PASSWORD>> \in Seq(Nat) /\ <<VERSION5, AUTH_PASSWORD>> # <<>>
    BY DEF VERSION5, AUTH_PASSWORD
  <2>5. down' \in Seq(Nat) /\ down' # <<>>
    BY <1>6, <2>4, Replied DEF IInv
  <2>6. ServerFrame
    BY <1>2, <2>5, Framed
  <2>7. AllSent' = AllSent
    BY <2>6, FrameKeeps
  <2>8. pc' \in Hearing /\ pc' \notin Heading /\ res' = res /\ (pc' = "read_auth" => n = loc.last)
    BY <1>6 DEF Hearing, Heading
  <2>9. HearInv'
    BY <1>1, <1>6, <2>2, <2>3, <2>7, <2>8 DEF HearInv
  <2>10. QED
    BY <1>1, <2>6, <2>8, <2>9, GoesOn
<1>7. QED
  BY <1>3, <1>4, <1>5, <1>6 DEF Method

LEMMA NamedIsGood ==
  ASSUME IInv, ses.server \in Socks, NEW u \in ses.users, \E d \in 0..Len(AllSent) : NamesAt(AllSent, d, u)
  PROVE  GoodUser(u)
<1>1. ses \in Sessions /\ Count \in 0..Len(ses.script) /\ ses.server # "trojan"
  BY AllSentType DEF IInv, ClientInv, Script, Socks
<1>2. Says(ses, Stream(ses, Count), u)
  BY <1>1 DEF Says, AllSent
<1>3. u = ses.who /\ NoUser \notin ses.users
  BY <1>1, <1>2, SessionsAssumption
<1>4. QED
  BY <1>3 DEF GoodUser, Named

\* A name and a password that are accepted were sent.
LEMMA AuthKeeps ==
  ASSUME IInv, Reads, pc \in {"auth", "read_auth"}, NEW b \in Seq(Nat), NEW k \in 0..Len(b),
         NEW a \in Seq(Nat), NEW remain \in Nat, remain # 0 => Occurs(a, AllSent), Auth(b, k, a, remain),
         remain <= k, loc.remain <= k,
         loc.remain # 0 => 3 <= k /\ k # loc.last /\ Occurs(SubSeq(b, 4, k), AllSent)
  PROVE  IInv'
<1> DEFINE ul == a[2]
           pl == a[3 + ul]
           L == 3 + ul + pl
           u == <<SubSeq(a, 3, 2 + ul), SubSeq(a, 4 + ul, L)>>
<1>1. /\ pc \in Hearing /\ pc # "done" /\ ses.server \in Socks /\ ses.server # "trojan"
      /\ IsLoc(loc) /\ loc.remain \in 0..k
  <2>1. /\ pc \in Hearing /\ pc # "done" /\ ses.server \in Socks /\ ses.server # "trojan"
        /\ IsLoc(loc) /\ loc.remain \in 0..n /\ n \in Nat
    BY DEF IInv, PcInv, HearInv, Hearing, Socks
  <2>2. k \in Nat /\ loc.remain <= k
    OBVIOUS
  <2>3. QED
    BY <2>1, <2>2
<1>6. \/ Fail(Panicked)
      \/ NextMethod(loc.seen) /\ pc' = "methods" /\ buf' = b /\ n' = k /\ UNCHANGED <<down, res>>
      \/ /\ ~(Len(a) < 5) /\ a[1] = 1 /\ ~(Len(a) < 3 + ul) /\ ~(Len(a) < L) /\ ~(remain < L)
         /\ u \in ses.users
         /\ down' = down \o <<1, 0>>
         /\ ToCommand(b, k, remain - L, u)
      \/ down' = down \o <<1, 1>> /\ Return(Ebc(Take(b, k)))
  BY Zenon DEF Auth
<1>0. ul = a[2] /\ pl = a[3 + ul] /\ L = 3 + ul + pl /\ u = <<SubSeq(a, 3, 2 + ul), SubSeq(a, 4 + ul, L)>>
  OBVIOUS
<1> HIDE DEF ul, pl, L, u
<1>2. CASE Fail(Panicked)
  BY <1>1, <1>2, FailKeeps, ErrorsAreGood DEF Panicked, Result
<1>3. CASE NextMethod(loc.seen) /\ pc' = "methods" /\ buf' = b /\ n' = k /\ UNCHANGED <<down, res>>
  <2>1. IsLoc(loc') /\ loc'.remain = loc.remain /\ loc'.last = loc.last
    BY <1>1, <1>3 DEF NextMethod, IsLoc
  <2>2. ServerFrame
    BY <1>3, Framed DEF IInv, ClientInv
  <2>3. AllSent' = AllSent
    BY <2>2, FrameKeeps
  <2>4. HearInv'
    BY <1>1, <1>3, <2>1, <2>3 DEF HearInv
  <2>5. pc' \in Hearing /\ pc' \notin Heading /\ res' = res
    BY <1>3 DEF Hearing, Heading
  <2>6. QED
    BY <1>1, <2>2, <2>4, <2>5, GoesOn
<1>4. CASE /\ ~(Len(a) < 5) /\ a[1] = 1 /\ ~(Len(a) < 3 + ul) /\ ~(Len(a) < L) /\ ~(remain < L)
           /\ u \in ses.users
           /\ down' = down \o <<1, 0>>
           /\ ToCommand(b, k, remain - L, u)
  <2>0. ~(Len(a) < 5) /\ a[1] = 1 /\ ~(Len(a) < 3 + ul) /\ ~(Len(a) < L) /\ ~(remain < L)
    BY <1>4
  <2>a. Len(a) \in Nat /\ \A i \in 1..Len(a) : a[i] \in Nat
    OBVIOUS
  <2>1. ul \in Nat
    <3>1. 2 \in 1..Len(a)
      BY <2>0, <2>a
    <3>2. QED
      BY <1>0, <2>a, <3>1
  <2>2. 3 + ul \in 1..Len(a)
    BY <2>0, <2>1, <2>a
  <2>3. pl \in Nat
    BY <1>0, <2>2, <2>a
  <2>4. AuthIn(a, ul, pl) /\ u = UpOf(a, ul, pl)
    <3>1. 3 + ul + pl <= Len(a)
      BY <1>0, <2>0, <2>1, <2>3, <2>a
    <3>2. QED
      BY <1>0, <2>0, <3>1 DEF AuthIn, UpOf
  <2>5. L \in Nat /\ L >= 3 /\ remain # 0
    <3>1. \A x, y, z, r \in Nat : z = 3 + x + y /\ ~(r < z) => z >= 3 /\ r # 0
      OBVIOUS
    <3>2. L \in Nat /\ L = 3 + ul + pl
      <4>1. L = 3 + ul + pl
        BY <1>0
      <4>2. \A x, y \in Nat : 3 + x + y \in Nat
        OBVIOUS
      <4>3. QED
        BY <2>1, <2>3, <4>1, <4>2
    <3>3. QED
      BY <2>0, <2>1, <2>3, <3>1, <3>2
  <2>6. Occurs(a, AllSent) /\ AllSent \in Seq(Nat)
    BY <2>5, AllSentType DEF IInv
  <2>7. \E d \in 0..Len(AllSent) : NamesAt(AllSent, d, UpOf(a, ul, pl))
    BY <2>1, <2>3, <2>4, <2>6, OccursNames
  <2>8. GoodUser(u)
    BY <1>1, <1>4, <2>4, <2>7, NamedIsGood
  <2>9. <<1, 0>> \in Seq(Nat) /\ <<1, 0>> # <<>>
    OBVIOUS
  <2>10. remain - L \in 0..k
    BY <2>0, <2>5
  <2>11. QED
    BY <1>1, <1>4, <2>8, <2>9, <2>10, ToCommandKeeps
<1>5. CASE down' = down \o <<1, 1>> /\ Return(Ebc(Take(b, k)))
  <2>1. <<1, 1>> \in Seq(Nat) /\ <<1, 1>> # <<>>
    OBVIOUS
  <2>2. GoodResult(Ebc(Take(b, k)))
    BY ErrorsAreGood
  <2>3. QED
    BY <1>1, <1>5, <2>1, <2>2, ReplyKeeps
<1>7. QED
  BY <1>2, <1>3, <1>4, <1>5, <1>6

LEMMA ReadAuthKeeps ==
  ASSUME IInv, ReadAuth, UNCHANGED out
  PROVE  IInv'
<1>0. pc \in {"auth", "read_auth"} /\ UNCHANGED <<ses, clientVars, out>>
  BY DEF ReadAuth
<1>1. /\ ses.server \in Socks /\ ses.server # "trojan"
      /\ buf \in Seq(Nat) /\ n \in 0..Len(buf) /\ loc.remain \in 0..n
      /\ loc.remain # 0 => 3 <= n /\ n # loc.last /\ Occurs(SubSeq(buf, 4, n), AllSent)
      /\ pc = "read_auth" => loc.remain = 0
  BY <1>0 DEF IInv, PcInv, HearInv, Hearing, Socks
<1>2. up \in Seq(Nat) /\ AllSent \in Seq(Nat) /\ Suffix(up, AllSent) /\ Len(buf) \in Nat
  BY <1>1, AllSentType DEF IInv, UpInv
<1>3. CASE Auth(buf, n, SubSeq(buf, 4, n), loc.remain) /\ UNCHANGED <<up, cuts>>
  <2>1. Reads
    BY <1>0, <1>3, NothingRead
  <2>2. SubSeq(buf, 4, n) \in Seq(Nat) /\ loc.remain \in Nat /\ loc.remain <= n
    BY <1>1
  <2>3. QED
    BY <1>0, <1>1, <1>3, <2>1, <2>2, AuthKeeps
<1>4. ASSUME pc = "read_auth", NEW k \in Takes(up, Len(buf), ClientClosed),
             Auth(ReadInto(buf, 0, k), k, Take(up, k), k), Consume(k, Len(buf))
      PROVE  IInv'
  <2>1. Reads /\ k \in 0..Len(up) /\ k <= Len(buf)
    BY <1>0, <1>2, <1>4, Consumed
  <2>2. ReadInto(buf, 0, k) \in Seq(Nat) /\ Len(ReadInto(buf, 0, k)) = Len(buf)
    BY <1>1, <1>2, <2>1, ReadStart
  <2>3. k \in Nat /\ k \in 0..Len(ReadInto(buf, 0, k))
    BY <1>2, <2>1, <2>2
  <2>4. Take(up, k) \in Seq(Nat) /\ Len(Take(up, k)) = k /\ \A i \in 1..k : Take(up, k)[i] = up[i]
    BY <1>2, <2>1, TakeIs
  <2>5. Occurs(Take(up, k), AllSent)
    <3>1. Occurs(up, AllSent)
      BY <1>2, SuffixOccurs
    <3>2. 0 \in Nat /\ 0 + Len(Take(up, k)) <= Len(up) /\ \A i \in 1..Len(Take(up, k)) : Take(up, k)[i] = up[0 + i]
      BY <1>2, <2>1, <2>3, <2>4
    <3>3. QED
      BY <1>2, <2>4, <3>1, <3>2, OccursPart
  <2>6. loc.remain = 0
    BY <1>1, <1>4
  <2>7. QED
    BY <1>0, <1>4, <2>1, <2>2, <2>3, <2>4, <2>5, <2>6, AuthKeeps
<1>5. QED
  BY <1>3, <1>4 DEF ReadAuth

-----------------------------------------------------------------------------
(* After a reply nothing is silent *)

LEMMA HeadingReturns ==
  ASSUME IInv, Reads, pc \in Heading, NEW r, Return(r), GoodResult(r),
         down' = down \/ (\E x \in Seq(Nat) : x # <<>> /\ down' = down \o x)
  PROVE  IInv'
<1>1. ses.server # "trojan" /\ pc # "done" /\ ~Silent
  BY DEF IInv, PcInv, QuietInv, Heading, Socks
<1>2. CASE down' = down
  <2>1. ServerFrame
    BY <1>2, Framed DEF IInv, ClientInv
  <2>2. ~Silent'
    BY <1>1, <2>1, FrameKeeps
  <2>3. QED
    BY <1>1, <2>1, <2>2, Returns
<1>3. ASSUME NEW x \in Seq(Nat), x # <<>>, down' = down \o x PROVE IInv'
  BY <1>1, <1>3, ReplyKeeps
<1>4. QED
  BY <1>2, <1>3

LEMMA OfTheUser ==
  ASSUME GoodUser(loc.user), NEW a, NEW b
  PROVE  GoodResult(NewC(a, b, loc.user)) /\ GoodResult(NewU(a, b, loc.user))
  BY DEF GoodUser, GoodResult, NewC, NewU, Result

LEMMA ZerosAre ==
  ASSUME NEW z \in Int
  PROVE  Zeros(z) \in Seq(Nat) /\ 0 \in 0..Len(Zeros(z))
<1>1. CASE z >= 0
  BY <1>1 DEF Zeros
<1>2. CASE z < 0
  <2>1. 1..z = 1..0
    BY <1>2
  <2>2. Zeros(z) = [i \in 1..0 |-> 0]
    BY <2>1 DEF Zeros
  <2>3. QED
    BY <2>2
<1>3. QED
  BY <1>1, <1>2

LEMMA CommandKeeps ==
  ASSUME IInv, Reads, pc = "command", NEW b \in Seq(Nat), NEW k \in 0..Len(b), Command(b, k)
  PROVE  IInv'
<1> DEFINE end == AddrEnd(b)
           addr == SubSeq(b, 4, end)
           rest == SubSeq(b, end + 1, k)
           GoOn(at) == /\ down' = down \o REPLY
                       /\ pc' = at /\ buf' = Zeros(Len(b) - end) /\ n' = 0
                       /\ loc' = [loc EXCEPT !.addr = addr]
                       /\ UNCHANGED res
<1>1. \/ \E e : Fail(Ebc(e))
      \/ Fail(Panicked)
      \/ ~(k < 7) /\ (GoOn("early") \/ GoOn("associate"))
      \/ down' = down \o REPLY /\ Return(NewC(addr, rest, loc.user))
  BY Zenon DEF Command
<1>2. REPLY \in Seq(Nat) /\ REPLY # <<>>
  BY DEF REPLY, VERSION5, ATYP_IP4
<1>3. pc \in Heading /\ pc # "done" /\ IsLoc(loc) /\ GoodUser(loc.user) /\ ses.server \in Socks /\ ses.server # "trojan"
  BY DEF IInv, UserInv, PcInv, Heading, Socks
<1>0. ASSUME ~(k < 7)
      PROVE  Zeros(Len(b) - end) \in Seq(Nat) /\ 0 \in 0..Len(Zeros(Len(b) - end))
  <2>1. Len(b) \in Nat /\ 5 \in 1..Len(b)
    BY <1>0
  <2>2. b[5] \in Nat
    BY <2>1
  <2>3. end \in Int
    BY <2>2 DEF AddrEnd
  <2> HIDE DEF end
  <2>4. Len(b) - end \in Int
    BY <2>1, <2>3
  <2>5. QED
    BY <2>4, ZerosAre
<1> HIDE DEF end, addr, rest
<1>4. ASSUME NEW e, Fail(Ebc(e)) PROVE IInv'
  BY <1>3, <1>4, HeadingReturns, ErrorsAreGood DEF Fail
<1>5. CASE Fail(Panicked)
  BY <1>3, <1>5, HeadingReturns, ErrorsAreGood DEF Fail
<1>6. CASE down' = down \o REPLY /\ Return(NewC(addr, rest, loc.user))
  <2>1. GoodResult(NewC(addr, rest, loc.user))
    BY <1>3, OfTheUser
  <2>2. QED
    BY <1>2, <1>3, <1>6, <2>1, HeadingReturns
<1>7. CASE ~(k < 7) /\ (GoOn("early") \/ GoOn("associate"))
  <2>1. /\ down' = down \o REPLY /\ pc' \in {"early", "associate"}
        /\ loc' = [loc EXCEPT !.addr = addr] /\ UNCHANGED res
        /\ buf' = Zeros(Len(b) - end) /\ n' = 0
    BY <1>7
  <2>a. buf' \in Seq(Nat) /\ n' \in 0..Len(buf')
    BY <1>0, <1>7, <2>1
  <2>2. down' \in Seq(Nat) /\ down' # <<>> /\ ~Silent'
    BY <1>2, <2>1, Replied DEF IInv
  <2>3. ServerFrame
    BY <2>2, Framed
  <2>4. IsLoc(loc') /\ loc'.user = loc.user
    BY <1>3, <2>1 DEF IsLoc
  <2>5. pc' \in Hearing \cup Heading /\ HearInv'
    BY <2>1 DEF Hearing, Heading, HearInv
  <2>6. QED
    BY <1>3, <2>1, <2>2, <2>3, <2>4, <2>5, <2>a, GoesOn
<1>8. QED
  BY <1>1, <1>4, <1>5, <1>6, <1>7

LEMMA ReadCommandKeeps ==
  ASSUME IInv, ReadCommand, UNCHANGED out
  PROVE  IInv'
<1>0. pc = "command" /\ UNCHANGED <<ses, clientVars, out>>
  BY DEF ReadCommand
<1>a. buf \in Seq(Nat) /\ n \in 0..Len(buf) /\ Len(buf) \in Nat
  BY <1>0 DEF IInv, BufInv, Heading
<1>1. CASE Command(buf, n) /\ UNCHANGED <<up, cuts>>
  <2>1. Reads
    BY <1>0, <1>1, NothingRead
  <2>2. QED
    BY <1>0, <1>1, <1>a, <2>1, CommandKeeps
<1>2. ASSUME NEW k \in Takes(up, Len(buf), ClientClosed), Command(ReadInto(buf, 0, k), k), Consume(k, Len(buf))
      PROVE  IInv'
  <2>1. Reads /\ up \in Seq(Nat) /\ k \in 0..Len(up) /\ k <= Len(buf)
    BY <1>0, <1>2, <1>a, Consumed
  <2>2. ReadInto(buf, 0, k) \in Seq(Nat) /\ Len(ReadInto(buf, 0, k)) = Len(buf)
    BY <1>a, <2>1, ReadStart
  <2>3. k \in 0..Len(ReadInto(buf, 0, k))
    BY <1>a, <2>1, <2>2
  <2>4. QED
    BY <1>0, <1>2, <2>1, <2>2, <2>3, CommandKeeps
<1>3. QED
  BY <1>1, <1>2 DEF ReadCommand

LEMMA EarlyKeeps ==
  ASSUME IInv, UNCHANGED out,
         \/ ReadEarly \/ NoEarly
         \/ \E dg \in ses.dgrams : FirstDatagram(dg)
         \/ NoDatagram
  PROVE  IInv'
<1>0. pc \in Heading /\ UNCHANGED <<ses, clientVars, out>> /\ down' = down
  BY DEF ReadEarly, NoEarly, FirstDatagram, NoDatagram, Heading, wireVars
<1>1. GoodUser(loc.user) /\ buf \in Seq(Nat) /\ Len(buf) \in Nat
  BY <1>0 DEF IInv, UserInv, BufInv
<1>2. \E r : Return(r) /\ GoodResult(r)
  <2>1. CASE ReadEarly
    BY <1>1, <2>1, OfTheUser DEF ReadEarly
  <2>2. CASE NoEarly
    BY <1>1, <2>2, OfTheUser DEF NoEarly
  <2>3. ASSUME NEW dg \in ses.dgrams, FirstDatagram(dg) PROVE \E r : Return(r) /\ GoodResult(r)
    <3> DEFINE r == IF loc.addr[1] = ATYP_DOMAIN THEN Panicked
                    ELSE IF ~Unspecified(loc.addr) /\ Host(dg.from) # Host(loc.addr) THEN Err
                    ELSE IF dg.to = NoAddr THEN Err
                    ELSE NewU(dg.to, dg.data, loc.user)
    <3>1. Return(r)
      BY <2>3, Zenon DEF FirstDatagram
    <3>2. r = Panicked \/ r = Err \/ r = NewU(dg.to, dg.data, loc.user)
      OBVIOUS
    <3>3. GoodResult(r)
      BY <1>1, <3>2, OfTheUser, ErrorsAreGood
    <3>4. QED
      BY <3>1, <3>3
  <2>4. CASE NoDatagram
    BY <2>4, ErrorsAreGood DEF NoDatagram
  <2>5. QED
    BY <2>1, <2>2, <2>3, <2>4
<1>3. Reads
  <2>1. CASE ReadEarly
    <3>1. PICK k \in Takes(up, Len(buf), ClientClosed) : Consume(k, Len(buf))
      BY <2>1 DEF ReadEarly
    <3>2. QED
      BY <1>0, <1>1, <3>1, Consumed
  <2>2. CASE up' = up
    BY <1>0, <2>2, NothingRead
  <2>3. QED
    BY <2>1, <2>2 DEF NoEarly, FirstDatagram, NoDatagram, wireVars
<1>4. QED
  BY <1>0, <1>2, <1>3, HeadingReturns

-----------------------------------------------------------------------------
(* The http proxy and the filter *)

\* A refused request goes to the fallback as it was read.
LEMMA HttpKeeps ==
  ASSUME IInv, Reads, pc \in {"http", "given"}, NEW b, Http(b),
         Silent => b \in Seq(Nat) /\ b \o up' = AllSent
  PROVE  IInv'
<1> DEFINE r == Parse(b, TRUE)
<1>1. \/ Return(Ebc(b)) /\ down' = down
      \/ Return(Panicked) /\ down' = down
      \/ /\ ses.users = {}
         /\ \E a, e : Return(NewC(a, e, NoUser))
         /\ down' = down \/ down' = down \o CONNECT_REPLY
  <2>1. \/ (Return(Ebc(b)) /\ UNCHANGED down)
        \/ (ses.users # {} /\ Return(IF AuthFails(r).panic THEN Panicked ELSE Ebc(b)) /\ UNCHANGED down)
        \/ /\ ses.users = {}
           /\ down' = down \o CONNECT_REPLY
           /\ Return(NewC(IF r.path = 0 THEN EmptyName ELSE <<r.path>>, <<>>, NoUser))
        \/ /\ ses.users = {}
           /\ Return(NewC(<<r.path>>, Take(b, r.body_start_index), NoUser)) /\ UNCHANGED down
    BY Zenon DEF Http
  <2> HIDE DEF r
  <2>2. (IF AuthFails(r).panic THEN Panicked ELSE Ebc(b)) \in {Panicked, Ebc(b)}
    OBVIOUS
  <2>3. CASE ses.users # {} /\ Return(IF AuthFails(r).panic THEN Panicked ELSE Ebc(b)) /\ UNCHANGED down
    BY <2>2, <2>3
  <2>4. QED
    BY <2>1, <2>3
<1>2. ses.server # "trojan" /\ pc # "done"
  BY DEF IInv, PcInv, Servers, Socks
<1>3. CASE Return(Ebc(b)) /\ down' = down
  <2>2. ServerFrame
    BY <1>3, Framed DEF IInv, ClientInv
  <2>3. Silent' => Silent
    BY <2>2, FrameKeeps
  <2>4. GoodResult(Ebc(b)) /\ Ebc(b).b = b
    BY ErrorsAreGood DEF Ebc, Result
  <2>5. QED
    BY <1>2, <1>3, <2>2, <2>3, <2>4, Returns
<1>4. CASE Return(Panicked) /\ down' = down
  <2>1. ServerFrame
    BY <1>4, Framed DEF IInv, ClientInv
  <2>2. GoodResult(Panicked) /\ Panicked.e = "panic"
    BY ErrorsAreGood DEF Panicked, Result
  <2>3. QED
    BY <1>2, <1>4, <2>1, <2>2, Returns
<1>5. ASSUME ses.users = {}, NEW a, NEW e, Return(NewC(a, e, NoUser)), down' = down \/ down' = down \o CONNECT_REPLY
      PROVE  IInv'
  <2>1. CONNECT_REPLY \in Seq(Nat) /\ CONNECT_REPLY # <<>>
    BY DEF CONNECT_REPLY
  <2>2. down' \in Seq(Nat) /\ (down' = <<>> => down = <<>>)
    BY <1>5, <2>1, Replied DEF IInv, ClientInv
  <2>3. ServerFrame
    BY <2>2, Framed
  <2>4. GoodResult(NewC(a, e, NoUser)) /\ NewC(a, e, NoUser).e = "ok"
    BY <1>5 DEF GoodResult, NewC, Result
  <2>5. QED
    BY <1>2, <1>5, <2>3, <2>4, Returns
<1>6. QED
  BY <1>1, <1>3, <1>4, <1>5

LEMMA ReadHttpKeeps ==
  ASSUME IInv, ReadHttp, UNCHANGED out
  PROVE  IInv'
<1>0. pc \in {"http", "given"} /\ UNCHANGED <<ses, clientVars, out>>
  BY DEF ReadHttp
<1>1. up \in Seq(Nat) /\ AllSent = ses.pre \o Sent /\ AllSent \in Seq(Nat) /\ ses.server # "trojan" /\ ses.pre \in Seq(Nat)
  BY <1>0, AllSentType DEF IInv, UpInv, PcInv, Servers, Socks
<1>2. pc = "http" => /\ up = Sent /\ buf \in Seq(Nat) /\ Len(buf) \in Nat
                     /\ (ses.pre # <<>> => buf = ses.pre)
  BY <1>1 DEF IInv, BufInv, QuietInv, Servers
<1>3. CASE /\ pc = "given" \/ (pc = "http" /\ ses.pre # <<>>)
           /\ Http(buf) /\ UNCHANGED <<up, cuts>>
  <2>1. Reads
    BY <1>0, <1>3, NothingRead
  <2>2. Silent => buf \in Seq(Nat) /\ buf \o up' = AllSent
    <3>1. CASE pc = "given"
      BY <1>1, <1>3, <3>1 DEF IInv, QuietInv, WithRest
    <3>2. CASE pc = "http" /\ ses.pre # <<>>
      BY <1>1, <1>2, <1>3, <3>2
    <3>3. QED
      BY <1>3, <3>1, <3>2
  <2>3. QED
    BY <1>0, <1>3, <2>1, <2>2, HttpKeeps
<1>4. ASSUME pc = "http", ses.pre = <<>>, NEW k \in Takes(up, Len(buf), ClientClosed),
             Http(Take(up, k)), Consume(k, Len(buf))
      PROVE  IInv'
  <2>1. Reads /\ k \in 0..Len(up) /\ up' = Drop(up, k)
    BY <1>0, <1>2, <1>4, Consumed
  <2>2. Take(up, k) \in Seq(Nat) /\ Take(up, k) \o up' = up
    BY <1>1, <2>1, TakeIs, TakeDrop
  <2>3. up = AllSent
    BY <1>1, <1>2, <1>4
  <2>4. QED
    BY <1>0, <1>4, <2>1, <2>2, <2>3, HttpKeeps
<1>5. QED
  BY <1>3, <1>4 DEF ReadHttp

LEMMA ReadFilterKeeps ==
  ASSUME IInv, ReadFilter, UNCHANGED out
  PROVE  IInv'
<1>0. pc = "filter" /\ UNCHANGED <<ses, clientVars, out, down>>
  BY DEF ReadFilter
<1>1. /\ up \in Seq(Nat) /\ AllSent = ses.pre \o Sent /\ AllSent \in Seq(Nat) /\ ses.server = "filter"
      /\ up = Sent /\ buf \in Seq(Nat) /\ Len(buf) \in Nat /\ down \in Seq(Nat)
  BY <1>0, AllSentType, SMTT(30) DEF IInv, UpInv, PcInv, Servers, BufInv, QuietInv, ClientInv
<1>2. PICK k \in Takes(up, Len(buf), ClientClosed) : Filter(Take(up, k)) /\ Consume(k, Len(buf))
  BY DEF ReadFilter
<1>3. Reads /\ k \in 0..Len(up) /\ up' = Drop(up, k)
  BY <1>0, <1>1, <1>2, Consumed
<1>4. Take(up, k) \in Seq(Nat) /\ Take(up, k) \o up' = up
  BY <1>1, <1>3, TakeIs, TakeDrop
<1>5. ServerFrame
  BY <1>0, <1>1, <1>3, Framed
<1> DEFINE b == Take(up, k)
<1>6. \/ Return(Err) \/ Return(Ebc(b)) \/ Return(NewC(NoAddr, b, NoUser))
  BY <1>2, Zenon DEF Filter
<1> HIDE DEF b
<1>7. /\ GoodResult(Err) /\ GoodResult(Ebc(b)) /\ GoodResult(NewC(NoAddr, b, NoUser))
      /\ Err.b = <<>> /\ Err.c = "none" /\ Ebc(b).b = b /\ NewC(NoAddr, b, NoUser).e = "ok"
  <2>1. GoodResult(NewC(NoAddr, b, NoUser))
    BY <1>1 DEF GoodResult, NewC, Result, Authenticates
  <2>2. QED
    BY <2>1, ErrorsAreGood DEF Err, BufErr, Ebc, NewC, Result
<1>8. pc # "done" /\ ses.server # "trojan"
  BY <1>0, <1>1
<1>9. Looked => b \in Seq(Nat) /\ b \o up' = AllSent
  <2>1. up = <<>> \o up
    BY <1>1
  <2>2. QED
    BY <1>1, <1>4, <2>1 DEF Looked, b
<1>10. CASE Return(Err)
  BY <1>5, <1>7, <1>8, <1>10, Returns
<1>11. CASE Return(Ebc(b))
  BY <1>5, <1>7, <1>8, <1>9, <1>11, Returns
<1>12. CASE Return(NewC(NoAddr, b, NoUser))
  BY <1>5, <1>7, <1>8, <1>12, Returns
<1>13. QED
  BY <1>6, <1>10, <1>11, <1>12

-----------------------------------------------------------------------------
(* trojan *)

LEMMA UdpIs ==
  ASSUME NEW a, NEW u, NEW e
  PROVE  \/ Udp(a, u, e).e # "ok" /\ Udp(a, u, e).d = NoUser
         \/ Udp(a, u, e).e = "ok" /\ Udp(a, u, e).d = u
<1>1. \/ \E t, d : Udp(a, u, e) = NewU(t, d, u)
      \/ Udp(a, u, e) = Panicked
      \/ Udp(a, u, e) = Err
  BY Zenon DEF Udp
<1>2. QED
  BY <1>1 DEF NewU, Panicked, Err, BufErr, Result

\* Only a head with the hash of a user is let through.
LEMMA HandleHeadIs ==
  ASSUME NEW b, NEW k
  PROVE  LET r == HandleHead(b, k) IN
         \/ r.e # "ok" /\ r.d = NoUser
         \/ r.e = "ok" /\ r.d = Take(b, PassLen) /\ Take(b, PassLen) \in ses.users /\ ~(k < PassLen + 9)
<1> DEFINE r == HandleHead(b, k)
           hash == Take(b, PassLen)
<1>1. \/ r = Err
      \/ \E x : r = Ebc(x) \/ r = BufErr(x)
      \/ /\ ~(k < PassLen + 9) /\ hash \in ses.users
         /\ \E a, e : r = NewC(a, e, hash) \/ r = Udp(a, hash, e)
  BY Zenon DEF HandleHead
<1> HIDE DEF r, hash
<1>2. /\ r = Err => r.e # "ok" /\ r.d = NoUser
      /\ \A x : r = Ebc(x) \/ r = BufErr(x) => r.e # "ok" /\ r.d = NoUser
  BY DEF Err, Ebc, BufErr, Result
<1>3. ASSUME NEW a, NEW e, r = NewC(a, e, hash) PROVE r.e = "ok" /\ r.d = hash
  BY <1>3 DEF NewC, Result
<1>4. ASSUME NEW a, NEW e, r = Udp(a, hash, e)
      PROVE  (r.e # "ok" /\ r.d = NoUser) \/ (r.e = "ok" /\ r.d = hash)
  BY <1>4, UdpIs
<1>5. QED
  BY <1>1, <1>2, <1>3, <1>4 DEF r, hash

\* What the head is taken from is the beginning of what was sent.
LEMMA HeadGood ==
  ASSUME IInv, pc = "trojan", NEW b \in Seq(Nat), NEW last \in 0..Len(b), NEW rest \in Seq(Nat),
         HeadOf = Take(b, last) \o rest
  PROVE  GoodResult(HandleHead(b, last))
<1> DEFINE r == HandleHead(b, last)
           hash == Take(b, PassLen)
<1>0. ses.server = "trojan" /\ ses \in Sessions
  BY DEF IInv, PcInv, Servers, ClientInv
<1>1. AllSent \in Seq(Nat) /\ Count \in 0..Len(ses.script)
  BY AllSentType DEF IInv, Script
<1>2. ASSUME hash \in ses.users, ~(last < PassLen + 9) PROVE hash = ses.who
  <2>0. PassLen \in Nat /\ last \in Nat /\ Len(b) \in Nat /\ PassLen <= last /\ PassLen \in 0..Len(b)
    BY <1>2, TrojanAssumption
  <2>1. hash \in Seq(Nat) /\ Len(hash) = PassLen /\ \A i \in 1..PassLen : hash[i] = b[i]
    BY <2>0, TakeIs
  <2>2. Take(b, last) \in Seq(Nat) /\ Len(Take(b, last)) = last /\ \A i \in 1..last : Take(b, last)[i] = b[i]
    BY TakeIs
  <2>3. /\ HeadOf \in Seq(Nat) /\ Len(HeadOf) = last + Len(rest)
        /\ \A i \in 1..last : HeadOf[i] = b[i]
    <3>1. ASSUME NEW t \in Seq(Nat), t = Take(b, last)
          PROVE  t \o rest \in Seq(Nat) /\ Len(t \o rest) = Len(t) + Len(rest) /\ \A i \in 1..Len(t) : (t \o rest)[i] = t[i]
      BY ConcatIs
    <3>2. QED
      BY <2>2, <3>1
  <2>4. HeadOf = AllSent \/ Alike(HeadOf, AllSent)
    BY <1>0 DEF IInv, BegunInv
  <2>5. PassLen <= Len(AllSent) /\ \A i \in 1..PassLen : AllSent[i] = HeadOf[i]
    <3>1. CASE HeadOf = AllSent
      BY <2>0, <2>3, <3>1
    <3>2. CASE Alike(HeadOf, AllSent)
      <4>1. HeadLen <= Len(AllSent) /\ \A i \in 1..HeadLen : HeadOf[i] = AllSent[i]
        BY <3>2 DEF Alike
      <4>2. Len(AllSent) \in Nat
        BY <1>1
      <4>3. PassLen <= Len(AllSent)
        BY <4>1, <4>2, HeadLenType
      <4>4. \A i \in 1..PassLen : AllSent[i] = HeadOf[i]
        BY <4>1, HeadLenType
      <4>5. QED
        BY <4>3, <4>4
    <3>3. QED
      BY <2>4, <3>1, <3>2
  <2>6. Take(AllSent, PassLen) = hash
    <3>1. PassLen \in 0..Len(AllSent)
      BY <1>1, <2>0, <2>5
    <3>2. /\ Take(AllSent, PassLen) \in Seq(Nat) /\ Len(Take(AllSent, PassLen)) = PassLen
          /\ \A i \in 1..PassLen : Take(AllSent, PassLen)[i] = AllSent[i]
      BY <1>1, <3>1, TakeIs
    <3>3. ASSUME NEW i \in 1..PassLen PROVE Take(AllSent, PassLen)[i] = hash[i]
      <4>1. i \in 1..last
        BY <2>0
      <4>2. QED
        BY <2>1, <2>3, <2>5, <3>2, <4>1
    <3> HIDE DEF hash
    <3>4. QED
      BY <2>1, <3>2, <3>3, SameSeq
  <2>7. Says(ses, Stream(ses, Count), hash)
    BY <1>0, <2>5, <2>6 DEF Says, AllSent
  <2> HIDE DEF hash
  <2>8. QED
    BY <1>0, <1>1, <1>2, <2>7, SessionsAssumption
<1>3. \/ r.e # "ok" /\ r.d = NoUser
      \/ r.e = "ok" /\ r.d = hash /\ hash \in ses.users /\ ~(last < PassLen + 9)
  BY HandleHeadIs
<1>4. NoUser \notin ses.users
  BY <1>0, SessionsAssumption
<1> HIDE DEF r, hash
<1>5. GoodResult(r)
  BY <1>2, <1>3, <1>4 DEF GoodResult, Named
<1>6. QED
  BY <1>5 DEF r

LEMMA TrojanEnds ==
  ASSUME IInv, ServerFrame, pc = "trojan", NEW r, Return(r), GoodResult(r)
  PROVE  IInv'
<1>1. ses.server = "trojan"
  BY DEF IInv, PcInv, Servers
<1>2. pc' = "done" /\ res' = r
  BY <1>1 DEF Return
<1>3. QED
  BY <1>1, <1>2, Ends

LEMMA ReadHeadKeeps ==
  ASSUME IInv, ReadHead, UNCHANGED out
  PROVE  IInv'
<1> DEFINE prev == IF ses.pre # <<>> THEN Len(ses.pre) ELSE n
<1>0. pc = "trojan" /\ UNCHANGED <<ses, clientVars, out, down>>
  BY DEF ReadHead
<1>1. /\ ses.server = "trojan" /\ buf \in Seq(Nat) /\ n \in 0..Len(buf) /\ (ses.pre # <<>> => buf = ses.pre)
      /\ up \in Seq(Nat) /\ down \in Seq(Nat) /\ Len(buf) \in Nat
  BY <1>0 DEF IInv, PcInv, Servers, BufInv, UpInv, ClientInv
<1>2. prev \in 0..Len(buf) /\ HeadOf = Take(buf, prev) \o up /\ (ses.pre # <<>> => prev = Len(buf))
  <2>1. CASE ses.pre # <<>>
    <3>1. prev = Len(buf) /\ buf = ses.pre
      BY <1>1, <2>1
    <3>2. Take(buf, Len(buf)) = buf
      BY <1>1 DEF Take
    <3>3. HeadOf = ses.pre \o up
      BY <2>1 DEF HeadOf
    <3> HIDE DEF prev
    <3>4. QED
      BY <1>1, <3>1, <3>2, <3>3
  <2>2. CASE ses.pre = <<>>
    BY <1>1, <2>2 DEF HeadOf
  <2>3. QED
    BY <2>1, <2>2
<1>3. \/ Return(HandleHead(buf, prev)) /\ UNCHANGED <<up, cuts>>
      \/ \E k \in Takes(up, Len(buf) - prev, ClientClosed) :
           /\ Consume(k, Len(buf) - prev)
           /\ \/ Return(HandleHead(ReadInto(buf, prev, k), prev + k))
              \/ /\ ~HeadEnds(ReadInto(buf, prev, k), prev, k)
                 /\ buf' = ReadInto(buf, prev, k) /\ n' = prev + k /\ UNCHANGED <<pc, res>>
  BY Zenon DEF ReadHead
<1> HIDE DEF prev
<1>4. CASE Return(HandleHead(buf, prev)) /\ UNCHANGED <<up, cuts>>
  <2>1. ServerFrame
    BY <1>0, <1>1, <1>4, NothingRead, Framed
  <2>2. GoodResult(HandleHead(buf, prev))
    BY <1>0, <1>1, <1>2, HeadGood
  <2>3. QED
    BY <1>0, <1>4, <2>1, <2>2, TrojanEnds
<1>5. ASSUME NEW k \in Takes(up, Len(buf) - prev, ClientClosed), Consume(k, Len(buf) - prev),
             \/ Return(HandleHead(ReadInto(buf, prev, k), prev + k))
             \/ /\ ~HeadEnds(ReadInto(buf, prev, k), prev, k)
                /\ buf' = ReadInto(buf, prev, k) /\ n' = prev + k /\ UNCHANGED <<pc, res>>
      PROVE  IInv'
  <2>0. Len(buf) - prev \in Nat /\ prev \in Nat
    BY <1>1, <1>2
  <2>1. Reads /\ k \in 0..Len(up) /\ k <= Len(buf) - prev /\ up' = Drop(up, k) /\ up' \in Seq(Nat)
    BY <1>0, <1>5, <2>0, Consumed
  <2>2. ServerFrame
    BY <1>0, <1>1, <2>1, Framed
  <2> DEFINE b == ReadInto(buf, prev, k)
             last == prev + k
  <2>3. prev + k <= Len(buf) /\ last \in 0..Len(buf)
    BY <1>1, <2>0, <2>1
  <2>4. b \in Seq(Nat) /\ Len(b) = Len(buf) /\ Take(b, last) = Take(buf, prev) \o Take(up, k)
    BY <1>1, <1>2, <2>1, <2>3, ReadIntoIs
  <2> HIDE DEF b
  <2>5. HeadOf = Take(b, last) \o up'
    <3>1. Take(buf, prev) \in Seq(Nat) /\ Take(up, k) \in Seq(Nat) /\ Drop(up, k) \in Seq(Nat)
      BY <1>1, <1>2, <2>1, TakeIs, DropIs
    <3>2. (Take(buf, prev) \o Take(up, k)) \o Drop(up, k) = Take(buf, prev) \o (Take(up, k) \o Drop(up, k))
      BY <3>1, Assoc, ZenonT(30)
    <3>3. Take(up, k) \o Drop(up, k) = up
      BY <1>1, <2>1, TakeDrop
    <3>4. QED
      BY <1>2, <2>1, <2>4, <3>2, <3>3
  <2> HIDE DEF last
  <2>6. CASE Return(HandleHead(b, last))
    <3>1. last \in 0..Len(b)
      BY <2>3, <2>4
    <3>2. GoodResult(HandleHead(b, last))
      BY <1>0, <2>1, <2>4, <2>5, <3>1, HeadGood
    <3>3. QED
      BY <1>0, <2>2, <2>6, <3>2, TrojanEnds
  <2>7. CASE ~HeadEnds(b, prev, k) /\ buf' = b /\ n' = last /\ UNCHANGED <<pc, res>>
    <3>1. ses.pre = <<>>
      <4>1. k # 0
        BY <2>7 DEF HeadEnds
      <4>2. Len(buf) - prev # 0
        BY <2>0, <2>1, <4>1
      <4>3. QED
        BY <1>1, <1>2, <4>2
    <3>2. /\ ClientInv' /\ UpInv' /\ AllSent' = AllSent
      BY <2>2, FrameKeeps
    <3>3. ses' = ses /\ out' = out /\ pc' = pc /\ res' = res /\ out = <<>>
      BY <1>0, <2>7 DEF IInv, ChosenInv, Returned
    <3>4. PcInv' /\ HearInv' /\ ChosenInv' /\ QuietInv'
      BY <1>0, <1>1, <3>3 DEF PcInv, HearInv, ChosenInv, QuietInv, IInv, Servers, Hearing, Heading
    <3>5. BufInv'
      BY <2>3, <2>4, <2>7, <3>1, <3>3 DEF BufInv
    <3>6. UserInv'
      BY <1>0, <3>3 DEF UserInv, IInv, GoodResult, Named, Authenticates, Heading
    <3>7. HeadOf' = HeadOf
      BY <2>5, <2>7, <3>1, <3>3 DEF HeadOf
    <3>8. Frames' <=> Frames
      BY <1>0 DEF Frames, Count, clientVars
    <3>9. BegunInv'
      BY <1>0, <1>1, <3>2, <3>3, <3>7, <3>8 DEF BegunInv, IInv
    <3>10. QED
      BY <3>2, <3>4, <3>5, <3>6, <3>9 DEF IInv
  <2>8. QED
    BY <1>5, <2>6, <2>7 DEF b, last
<1>6. QED
  BY <1>3, <1>4, <1>5

LEMMA ReaderKeeps ==
  ASSUME IInv, ReaderStep, UNCHANGED out
  PROVE  IInv'
<1>1. /\ pc = "done" /\ ses.server = "trojan"
      /\ UNCHANGED <<ses, clientVars, out, down, pc, buf, n, loc, res>>
  BY DEF ReaderStep, ReadBase, ReadBuf, ReadLeftBuf, Reading, Returned, wireVars
<1>2. Reads
  <2>1. CASE ReadBase
    <3>1. PICK k \in Takes(up, TargetLen, ClientClosed) : Consume(k, TargetLen)
      BY <2>1 DEF ReadBase
    <3>2. TargetLen \in Nat
      BY TrojanAssumption
    <3>3. QED
      BY <1>1, <3>1, <3>2, Consumed
  <2>2. CASE ReadBuf \/ ReadLeftBuf
    <3>1. UNCHANGED up
      BY <2>2 DEF ReadBuf, ReadLeftBuf, wireVars
    <3>2. QED
      BY <1>1, <3>1, NothingRead
  <2>3. QED
    BY <2>1, <2>2 DEF ReaderStep
<1>3. ServerFrame
  BY <1>1, <1>2, Framed DEF IInv, ClientInv
<1>4. ClientInv' /\ UpInv' /\ AllSent' = AllSent
  BY <1>3, FrameKeeps
<1>5. PcInv' /\ HearInv' /\ BufInv' /\ QuietInv'
  BY <1>1 DEF PcInv, HearInv, BufInv, QuietInv, Servers, Hearing, Heading
<1>6. UserInv'
  BY <1>1 DEF UserInv, IInv, GoodResult, Named, Authenticates, Heading
<1>7. BegunInv'
  <2>1. Frames' <=> Frames
    BY <1>1 DEF Frames, Count, clientVars
  <2>2. QED
    BY <1>1, <1>4, <2>1 DEF BegunInv, IInv
<1>8. ChosenInv'
  BY <1>1 DEF IInv, ChosenInv, Returned, InfoOf, DataWith, AddrInfo
<1>9. QED
  BY <1>4, <1>5, <1>6, <1>7, <1>8 DEF IInv

-----------------------------------------------------------------------------
(* Steps of the client *)

LEMMA AlikeAppend ==
  ASSUME HeadLen \in Nat, NEW a \in Seq(Nat), NEW b \in Seq(Nat), Alike(a, b), NEW x \in Seq(Nat), NEW y \in Seq(Nat)
  PROVE  Alike(a \o x, b \o y)
<1>1. /\ Len(a \o x) = Len(a) + Len(x)
      /\ \A i \in 1..Len(a) : (a \o x)[i] = a[i]
  BY ConcatIs
<1>2. /\ Len(b \o y) = Len(b) + Len(y)
      /\ \A i \in 1..Len(b) : (b \o y)[i] = b[i]
  BY ConcatIs
<1> DEFINE c == a \o x
           d == b \o y
<1>3. /\ Len(a) \in Nat /\ Len(b) \in Nat /\ Len(x) \in Nat /\ Len(y) \in Nat
      /\ HeadLen <= Len(a) /\ HeadLen <= Len(b) /\ \A i \in 1..HeadLen : a[i] = b[i]
  BY DEF Alike
<1> HIDE DEF c, d
<1>4. ASSUME NEW i \in 1..HeadLen PROVE c[i] = d[i]
  <2>1. i \in 1..Len(a) /\ i \in 1..Len(b)
    BY <1>3
  <2>2. QED
    BY <1>1, <1>2, <1>3, <2>1 DEF c, d
<1>5. HeadLen <= Len(c) /\ HeadLen <= Len(d)
  BY <1>1, <1>2, <1>3 DEF c, d
<1>6. QED
  BY <1>4, <1>5 DEF Alike, c, d

\* A client sends x, or nothing, and gets no quieter.
LEMMA ClientKeeps ==
  ASSUME IInv, UNCHANGED <<ses, pc, buf, n, loc, res, out>>, ClientInv', BegunInv',
         NEW x \in Seq(Nat), AllSent' = AllSent \o x, Sent' = Sent \o x,
         up' \in Seq(Nat), ses.server # "trojan" => up' = up \o x,
         Silent' => Silent
  PROVE  IInv'
<1>1. up \in Seq(Nat) /\ AllSent \in Seq(Nat)
  BY AllSentType DEF IInv, UpInv
<1>2. UpInv'
  <2>1. CASE ses.server = "trojan"
    BY <2>1 DEF UpInv
  <2>2. CASE ses.server # "trojan"
    <3>1. Suffix(up, AllSent)
      BY <2>2 DEF IInv, UpInv
    <3>2. Suffix(up \o x, AllSent \o x)
      BY <1>1, <3>1, SuffixAppend
    <3>3. QED
      BY <2>2, <3>2 DEF UpInv
  <2>3. QED
    BY <2>1, <2>2
<1>3. PcInv' /\ BufInv'
  BY DEF IInv, PcInv, BufInv
<1>4. HearInv'
  <2>1. SUFFICES ASSUME pc \in Hearing PROVE HearInv'
    BY DEF HearInv
  <2>2. HearInv /\ buf \in Seq(Nat) /\ n \in 0..Len(buf)
    BY <2>1 DEF IInv, HearInv
  <2>3. ASSUME loc.remain # 0
        PROVE  Occurs(SubSeq(buf, 4, n), AllSent')
    <3>1. Occurs(SubSeq(buf, 4, n), AllSent) /\ 3 <= n
      BY <2>1, <2>2, <2>3 DEF HearInv
    <3>2. SubSeq(buf, 4, n) \in Seq(Nat)
      <4>1. 4 \in Nat \ {0} /\ n \in Nat /\ n <= Len(buf) /\ 4 <= n + 1
        BY <2>2, <3>1
      <4>2. QED
        BY <2>2, <4>1, SubSeqIs
    <3>3. Occurs(SubSeq(buf, 4, n), AllSent \o x)
      BY <1>1, <3>1, <3>2, OccursAppend
    <3>4. QED
      BY <3>3
  <2>4. QED
    BY <2>2, <2>3 DEF HearInv, IsLoc
<1>5. UserInv'
  BY DEF UserInv, IInv, IsLoc, GoodUser, GoodResult, Named, Authenticates
<1>6. QuietInv'
  <2>1. SUFFICES ASSUME ses.server # "trojan" PROVE QuietInv'
    BY DEF QuietInv
  <2>2. up' = up \o x /\ QuietInv
    BY <2>1 DEF IInv
  <2>3. ASSUME NEW b, WithRest(b) PROVE b \in Seq(Nat) /\ b \o up' = AllSent'
    <3>1. b \in Seq(Nat) /\ b \o up = AllSent
      BY <2>3 DEF WithRest
    <3>2. (b \o up) \o x = b \o (up \o x)
      BY <1>1, <3>1, Assoc, ZenonT(30)
    <3>3. QED
      BY <2>2, <3>1, <3>2
  <2>4. pc \in Servers => up' = Sent'
    BY <2>1, <2>2 DEF QuietInv
  <2>5. pc \in Heading => ~Silent'
    BY <2>1, <2>2 DEF QuietInv
  <2>6. pc = "given" /\ Silent' => buf \in Seq(Nat) /\ buf \o up' = AllSent'
    BY <2>1, <2>2, <2>3 DEF QuietInv
  <2>7. Returned /\ IsFallback(res) /\ Silent' /\ Looked => res.b \in Seq(Nat) /\ res.b \o up' = AllSent'
    BY <2>1, <2>2, <2>3 DEF QuietInv
  <2>8. (IsFallback(res)' <=> IsFallback(res)) /\ (Looked' <=> Looked) /\ (Returned' <=> Returned)
    BY DEF IsFallback, Looked, Returned
  <2>9. QED
    BY <2>4, <2>5, <2>6, <2>7, <2>8 DEF QuietInv, WithRest
<1>7. ChosenInv'
  BY DEF IInv, ChosenInv, Returned, InfoOf, DataWith, AddrInfo
<1>8. QED
  BY <1>2, <1>3, <1>4, <1>5, <1>6, <1>7 DEF IInv

LEMMA Appended ==
  ASSUME IInv, pc = "trojan", NEW y \in Seq(Nat), up' = up \o y, UNCHANGED <<ses, buf, n>>
  PROVE  HeadOf \in Seq(Nat) /\ HeadOf' = HeadOf \o y
<1>1. up \in Seq(Nat) /\ buf \in Seq(Nat) /\ n \in 0..Len(buf) /\ ses.pre \in Seq(Nat)
  BY AllSentType DEF IInv, UpInv, BufInv, Servers
<1>2. Take(buf, n) \in Seq(Nat)
  BY <1>1, TakeIs
<1> DEFINE h == IF ses.pre = <<>> THEN Take(buf, n) ELSE ses.pre
<1>3. h \in Seq(Nat)
  BY <1>1, <1>2
<1>4. HeadOf = h \o up /\ HeadOf' = h \o up'
  BY DEF HeadOf
<1> HIDE DEF h
<1>5. (h \o up) \o y = h \o (up \o y) /\ h \o up \in Seq(Nat)
  BY <1>1, <1>3, Assoc
<1>6. QED
  BY <1>4, <1>5

\* The step of a script, and what has been sent with it.
LEMMA NextSent ==
  ASSUME IInv, cstep <= Len(Script), ~cwait, UNCHANGED ses, Count' = Count + 1
  PROVE  LET x == Script[cstep].send IN
         x \in Seq(Nat) /\ AllSent' = AllSent \o x /\ Sent' = Sent \o x
<1> DEFINE x == Script[cstep].send
<1>0. /\ cstep \in 1..Len(Script) + 1 /\ cwait \in BOOLEAN /\ ses \in Sessions
      /\ ses.pre \in Seq(Nat) /\ Len(Script) \in Nat
  BY SessionsAssumption, AllSentType DEF IInv, ClientInv, Script
<1>1. Count = cstep - 1 /\ Count \in Nat /\ Count < Len(ses.script) /\ Count + 1 = cstep
  BY <1>0 DEF Count, Script
<1>2. /\ ses.script[Count + 1].send \in Seq(Nat)
      /\ SentBy(ses, Count + 1) = SentBy(ses, Count) \o ses.script[Count + 1].send
  BY <1>0, <1>1, SentByNext
<1>3. /\ x \in Seq(Nat) /\ SentBy(ses, Count + 1) = SentBy(ses, Count) \o x
  BY <1>1, <1>2 DEF Script
<1>4. SentBy(ses, Count) \in Seq(Nat)
  BY AllSentType DEF IInv, Sent, Count
<1> HIDE DEF x
<1>5. ses.pre \o (SentBy(ses, Count) \o x) = (ses.pre \o SentBy(ses, Count)) \o x
  BY <1>0, <1>3, <1>4, Assoc, ZenonT(30)
<1>6. AllSent' = ses.pre \o SentBy(ses, Count + 1) /\ AllSent = ses.pre \o SentBy(ses, Count)
  BY DEF AllSent, Stream
<1>7. Sent' = SentBy(ses, Count + 1) /\ Sent = SentBy(ses, Count)
  <2>1. Sent' = SentBy(ses', Count') /\ Sent = SentBy(ses, Count)
    BY DEF Sent, Count
  <2>2. QED
    BY <2>1
<1>8. QED
  BY <1>3, <1>5, <1>6, <1>7 DEF x

\* With every message the stream of trojan stays long enough for the hash and the command.
LEMMA HeadSent ==
  ASSUME IInv, ses.server = "trojan", cstep <= Len(Script), UNCHANGED ses,
         NEW x \in Seq(Nat), AllSent' = AllSent \o x, Count' = Count + 1
  PROVE  Frames' => HeadLen <= Len(AllSent')
<1>1. AllSent \in Seq(Nat) /\ Count \in 0..Len(Script) /\ ses \in Sessions /\ HeadLen \in Nat
  BY AllSentType, HeadLenType DEF IInv, ClientInv
<1>2. Len(AllSent') = Len(AllSent) + Len(x) /\ Len(x) \in Nat /\ Len(AllSent) \in Nat
  BY <1>1, ConcatIs
<1>3. CASE Count = 0
  <2>1. ses.rbuf > 0 => Len(Stream(ses, 1)) >= HeadLen
    BY <1>1, SessionsAssumption DEF HeadLen
  <2>2. AllSent' = Stream(ses, 1)
    <3>1. AllSent' = Stream(ses', Count')
      BY DEF AllSent
    <3>2. QED
      BY <1>1, <1>3, <3>1
  <2>3. Frames' => ses.rbuf > 0
    BY DEF Frames
  <2>4. QED
    BY <1>1, <1>2, <2>1, <2>2, <2>3
<1>4. CASE Count # 0
  <2>1. Frames' => Frames
    BY <1>4 DEF Frames
  <2>2. Frames => HeadLen <= Len(AllSent)
    BY DEF IInv, BegunInv
  <2>3. QED
    BY <1>1, <1>2, <2>1, <2>2
<1>5. QED
  BY <1>3, <1>4

LEMMA ClientSendKeeps ==
  ASSUME IInv, ClientSend, UNCHANGED out
  PROVE  IInv'
<1> DEFINE x == Script[cstep].send
<1>1. /\ client = "open" /\ ~cwait /\ cstep <= Len(Script) /\ up' = up \o x
      /\ UNCHANGED <<ses, down, client, pc, buf, n, loc, res, out>>
      /\ \/ Script[cstep].want = <<>> /\ cstep' = cstep + 1 /\ UNCHANGED cwait
         \/ Script[cstep].want # <<>> /\ cwait' = TRUE /\ UNCHANGED cstep
  BY Zenon DEF ClientSend
<1>2. cstep \in 1..Len(Script) + 1 /\ cwait \in BOOLEAN /\ Len(Script) \in Nat
  BY SessionsAssumption DEF IInv, ClientInv, Script
<1>3. Script' = Script
  BY <1>1 DEF Script
<1>4. Count' = Count + 1
  BY <1>1, <1>2 DEF Count
<1>5. x \in Seq(Nat) /\ AllSent' = AllSent \o x /\ Sent' = Sent \o x
  BY <1>1, <1>4, NextSent
<1> HIDE DEF x
<1>6. ClientInv'
  <2>1. ses' \in Sessions /\ down' \in Seq(Nat)
    BY <1>1 DEF IInv, ClientInv
  <2>2. cstep' \in 1..Len(Script) + 1
    BY <1>1, <1>2
  <2>3. cwait' \in BOOLEAN
    BY <1>1, <1>2
  <2>4. cwait' => cstep' <= Len(Script) /\ Script[cstep'].want # <<>>
    <3>1. CASE Script[cstep].want = <<>> /\ cstep' = cstep + 1 /\ UNCHANGED cwait
      <4>1. ~cwait'
        BY <1>1, <3>1
      <4>2. QED
        BY <4>1
    <3>2. CASE Script[cstep].want # <<>> /\ cwait' = TRUE /\ UNCHANGED cstep
      BY <1>1, <3>2
    <3>3. QED
      BY <1>1, <3>1, <3>2
  <2>5. QED
    BY <1>3, <2>1, <2>2, <2>3, <2>4 DEF ClientInv
<1>7. up \in Seq(Nat) /\ up' \in Seq(Nat)
  BY <1>1, <1>5 DEF IInv, UpInv
<1>8. BegunInv'
  <2>1. SUFFICES ASSUME ses.server = "trojan" PROVE BegunInv'
    BY <1>1 DEF BegunInv
  <2>2. Frames' => HeadLen <= Len(AllSent')
    BY <1>1, <1>4, <1>5, <2>1, HeadSent
  <2>3. ASSUME pc = "trojan" PROVE HeadOf' = AllSent' \/ (Frames' /\ Alike(HeadOf', AllSent'))
    <3>1. HeadOf \in Seq(Nat) /\ HeadOf' = HeadOf \o x
      BY <1>1, <1>5, <2>3, Appended
    <3>2. HeadOf = AllSent \/ (Frames /\ Alike(HeadOf, AllSent))
      BY <2>1, <2>3 DEF IInv, BegunInv
    <3>3. CASE HeadOf = AllSent
      BY <1>5, <3>1, <3>3
    <3>4. CASE Frames /\ Alike(HeadOf, AllSent)
      <4>1. AllSent \in Seq(Nat) /\ HeadLen \in Nat
        BY AllSentType, HeadLenType DEF IInv
      <4>2. Alike(HeadOf \o x, AllSent \o x)
        BY <1>5, <3>1, <3>4, <4>1, AlikeAppend
      <4>3. Count \in Nat
        BY AllSentType DEF IInv
      <4>4. Frames'
        BY <1>1, <1>4, <3>4, <4>3 DEF Frames
      <4>5. QED
        BY <1>5, <3>1, <4>2, <4>4
    <3>5. QED
      BY <3>2, <3>3, <3>4
  <2>4. QED
    BY <1>1, <2>2, <2>3 DEF BegunInv, Alike
<1>9. Silent' => Silent
  BY <1>1, <1>2, <1>3 DEF Silent
<1>10. QED
  BY <1>1, <1>5, <1>6, <1>7, <1>8, <1>9, ClientKeeps

\* The client reads, or leaves: it has sent no more than before.
LEMMA NoMoreSent ==
  ASSUME IInv, UNCHANGED <<ses, up, pc, buf, n, loc, res, out>>, ClientInv', Count' = Count, Silent' => Silent
  PROVE  IInv'
<1>1. AllSent \in Seq(Nat) /\ Sent \in Seq(Nat) /\ up \in Seq(Nat)
  BY AllSentType DEF IInv, UpInv
<1>2. AllSent' = AllSent
  BY DEF AllSent
<1>3. Sent' = Sent
  <2>1. Sent' = SentBy(ses', Count') /\ Sent = SentBy(ses, Count)
    BY DEF Sent, Count
  <2>2. QED
    BY <2>1
<1>4. <<>> \in Seq(Nat) /\ AllSent \o <<>> = AllSent /\ Sent \o <<>> = Sent /\ up \o <<>> = up
  BY <1>1
<1>5. BegunInv'
  <2>1. (Frames' <=> Frames) /\ HeadOf' = HeadOf
    BY DEF Frames, HeadOf
  <2>2. QED
    BY <1>2, <2>1 DEF IInv, BegunInv
<1>6. AllSent' = AllSent \o <<>> /\ Sent' = Sent \o <<>> /\ up' = up \o <<>> /\ up' \in Seq(Nat)
  BY <1>1, <1>2, <1>3, <1>4
<1>7. QED
  BY <1>4, <1>5, <1>6, ClientKeeps

LEMMA ClientReadKeeps ==
  ASSUME IInv, ClientRead, UNCHANGED out
  PROVE  IInv'
<1>0. /\ cstep \in 1..Len(Script) /\ cwait /\ Script[cstep].want # <<>> /\ Len(Script) \in Nat
      /\ down \in Seq(Nat) /\ ses \in Sessions /\ Cap \in Nat
  BY SessionsAssumption, CapAssumption DEF IInv, ClientInv, ClientRead, Script
<1>1. PICK k \in Takes(down, Cap, ServerClosed) :
        /\ down' = Drop(down, k)
        /\ \/ cwait' = FALSE /\ cstep' = cstep + 1
           \/ client' = "failed" /\ UNCHANGED <<cwait, cstep>>
  BY Zenon DEF ClientRead
<1>2. UNCHANGED <<ses, up, pc, buf, n, loc, res, out>> /\ Script' = Script
  BY DEF ClientRead, Script
<1>3. k \in 0..Len(down)
  BY <1>0, TakesBound
<1>4. down' \in Seq(Nat)
  BY <1>0, <1>1, <1>3, DropIs
<1>5. Count = cstep
  BY <1>0 DEF Count
<1>6. ses' \in Sessions /\ Len(Script') = Len(Script)
  BY <1>0, <1>2
<1>7. Count' = Count /\ ClientInv'
  <2>1. CASE cwait' = FALSE /\ cstep' = cstep + 1
    <3>1. ~cwait' /\ cwait' \in BOOLEAN
      BY <2>1
    <3>2. Count' = cstep' - 1
      BY <3>1 DEF Count
    <3>3. cstep' - 1 = cstep /\ cstep' \in 1..Len(Script) + 1
      BY <1>0, <2>1
    <3>4. ClientInv'
      BY <1>2, <1>4, <1>6, <3>1, <3>3 DEF ClientInv
    <3>5. QED
      BY <1>5, <3>2, <3>3, <3>4
  <2>2. CASE UNCHANGED <<cwait, cstep>>
    <3>1. Count' = Count
      BY <2>2 DEF Count
    <3>2. ClientInv'
      BY <1>2, <1>4, <2>2 DEF IInv, ClientInv
    <3>3. QED
      BY <3>1, <3>2
  <2>3. QED
    BY <1>1, <2>1, <2>2
<1>8. ~Silent'
  <2>1. CASE cwait' = FALSE /\ cstep' = cstep + 1
    <3>1. cstep \in 1..cstep' - 1
      BY <1>0, <2>1
    <3>2. QED
      BY <1>0, <1>2, <3>1 DEF Silent
  <2>2. CASE client' = "failed"
    BY <2>2 DEF Silent
  <2>3. QED
    BY <1>1, <2>1, <2>2
<1>9. QED
  BY <1>2, <1>7, <1>8, NoMoreSent

LEMMA ClientLeavesKeeps ==
  ASSUME IInv, ClientLeaves, UNCHANGED out
  PROVE  IInv'
<1>1. /\ UNCHANGED <<ses, cstep, cwait, up, down, pc, buf, n, loc, res, out>> /\ client = "open" /\ Script' = Script
  BY DEF ClientLeaves, wireVars, Script
<1>2. ClientInv' /\ Count' = Count
  BY <1>1 DEF IInv, ClientInv, Count
<1>3. Silent' => Silent
  BY <1>1 DEF Silent
<1>4. QED
  BY <1>1, <1>2, <1>3, NoMoreSent

\* A write of trojan that is cut short is not the first: the hash stays whole.
LEMMA ShortWriteKeeps ==
  ASSUME IInv, ShortWrite, UNCHANGED out
  PROVE  IInv'
<1> DEFINE f == Script[cstep].send
<1>1. /\ ~cwait /\ ses.server = "trojan" /\ ses.rbuf > 0 /\ cstep \in 2..Len(Script) /\ cstep' = cstep + 1
      /\ UNCHANGED <<ses, down, cwait, pc, buf, n, loc, res, out>> /\ Script' = Script
      /\ \E k \in 1..Len(f) - 1 : up' = up \o Take(f, k)
  BY Zenon DEF ShortWrite, Script
<1>2. Len(Script) \in Nat /\ cstep <= Len(Script) /\ cstep \in Nat
  BY <1>1, SessionsAssumption DEF IInv, ClientInv, Script
<1>3. Count' = Count + 1 /\ Count # 0 /\ Count \in Nat
  BY <1>1, <1>2 DEF Count
<1>4. f \in Seq(Nat) /\ AllSent' = AllSent \o f /\ Sent' = Sent \o f
  BY <1>1, <1>2, <1>3, NextSent
<1> HIDE DEF f
<1>5. PICK k \in 1..Len(f) - 1 : up' = up \o Take(f, k)
  BY <1>1
<1> DEFINE t == Take(f, k)
<1>6. t \in Seq(Nat)
  <2>1. k \in 0..Len(f)
    BY <1>4
  <2>2. QED
    BY <1>4, <2>1, TakeIs
<1> HIDE DEF t
<1>7. up' = up \o t /\ up' \in Seq(Nat)
  BY <1>5, <1>6 DEF t, IInv, UpInv
<1>8. ClientInv'
  BY <1>1, <1>2 DEF IInv, ClientInv
<1>9. BegunInv'
  <2>1. Frames /\ Frames'
    BY <1>1, <1>3 DEF Frames
  <2>2. HeadLen <= Len(AllSent')
    BY <1>1, <1>2, <1>3, <1>4, <2>1, HeadSent
  <2>3. ASSUME pc = "trojan" PROVE Alike(HeadOf', AllSent')
    <3>1. HeadOf \in Seq(Nat) /\ HeadOf' = HeadOf \o t
      BY <1>1, <1>6, <1>7, <2>3, Appended
    <3>2. AllSent \in Seq(Nat) /\ HeadLen \in Nat /\ HeadLen <= Len(AllSent)
      BY <1>1, <2>1, AllSentType, HeadLenType DEF IInv, BegunInv
    <3>3. Alike(HeadOf, AllSent)
      <4>1. HeadOf = AllSent \/ Alike(HeadOf, AllSent)
        BY <1>1, <2>3 DEF IInv, BegunInv
      <4>2. QED
        BY <3>2, <4>1 DEF Alike
    <3>4. Alike(HeadOf \o t, AllSent \o f)
      BY <1>4, <1>6, <3>1, <3>2, <3>3, AlikeAppend
    <3>5. QED
      BY <1>4, <3>1, <3>4
  <2>4. QED
    BY <1>1, <2>1, <2>2, <2>3 DEF BegunInv, Alike
<1>10. Silent' => Silent
  <2>1. Silent' => down = <<>> /\ \A i \in 1..cstep - 1 : Script[i].want = <<>>
    BY <1>1, <1>2 DEF Silent
  <2>2. client = "open"
    BY DEF ShortWrite
  <2>3. QED
    BY <2>1, <2>2 DEF Silent
<1>11. QED
  BY <1>1, <1>4, <1>7, <1>8, <1>9, <1>10, ClientKeeps

-----------------------------------------------------------------------------
(* The invariant holds *)

LEMMA InitHolds ==
  ASSUME InboundInit
  PROVE  IInv
<1>1. /\ ses \in Sessions /\ up = <<>> /\ down = <<>> /\ cstep = 1 /\ cwait = FALSE /\ pc = ses.server
      /\ n = 0 /\ res = NoRes /\ out = <<>> /\ buf = IF ses.pre = <<>> THEN Zeros(Cap) ELSE ses.pre
  BY DEF InboundInit, Init
<1>2. ses.server \in Servers /\ ses.pre \in Seq(Nat) /\ Len(Script) \in Nat /\ Cap \in Int
  BY <1>1, SessionsAssumption, CapAssumption DEF Script
<1>3. Count = 0
  BY <1>1 DEF Count
<1>4. SentBy(ses, 0) = <<>>
  BY DEF SentBy, FlattenSeq
<1>5. Sent = <<>> /\ AllSent = ses.pre
  <2>1. Sent = SentBy(ses, Count)
    BY DEF Sent, Count
  <2>2. ses.pre \o <<>> = ses.pre
    BY <1>2
  <2>3. QED
    BY <1>3, <1>4, <2>1, <2>2 DEF AllSent, Stream
<1>6. ClientInv
  <2>1. ~cwait /\ cwait \in BOOLEAN
    BY <1>1
  <2>2. cstep \in 1..Len(Script) + 1 /\ down \in Seq(Nat)
    BY <1>1, <1>2
  <2>3. QED
    BY <1>1, <2>1, <2>2 DEF ClientInv
<1>7. UpInv
  BY <1>1, <1>2, <1>5 DEF UpInv, Suffix
<1>8. PcInv /\ HearInv /\ ~Returned
  BY <1>1, <1>2 DEF PcInv, HearInv, Servers, Hearing, Heading, Returned
<1>9. buf \in Seq(Nat) /\ 0 \in 0..Len(buf) /\ (ses.pre # <<>> => buf = ses.pre)
  <2>1. Zeros(Cap) \in Seq(Nat) /\ 0 \in 0..Len(Zeros(Cap))
    BY <1>2, ZerosAre
  <2>2. 0 \in 0..Len(ses.pre)
    BY <1>2
  <2>3. QED
    BY <1>1, <1>2, <2>1, <2>2
<1>10. BufInv
  BY <1>1, <1>9 DEF BufInv
<1>11. UserInv
  BY <1>1, <1>2 DEF UserInv, GoodResult, NoRes, Result, Servers, Heading
<1>12. HeadOf = ses.pre
  <2>1. ses.pre = <<>> => Take(buf, n) = <<>>
    BY <1>1 DEF Take
  <2>2. ses.pre \o <<>> = ses.pre
    BY <1>2
  <2>3. QED
    BY <1>1, <2>1, <2>2 DEF HeadOf
<1>13. BegunInv
  BY <1>3, <1>5, <1>12 DEF BegunInv, Frames
<1>14. QuietInv
  BY <1>1, <1>2, <1>5, <1>8 DEF QuietInv, Servers, Heading
<1>15. ChosenInv
  BY <1>1 DEF ChosenInv
<1>16. QED
  BY <1>6, <1>7, <1>8, <1>10, <1>11, <1>13, <1>14, <1>15 DEF IInv

LEMMA IoErrorKeeps ==
  ASSUME IInv, IoError, UNCHANGED out
  PROVE  IInv'
<1>1. pc # "done" /\ pc' = "done" /\ res' = Err /\ UNCHANGED <<ses, up, down, clientVars, out>>
  BY DEF IoError, wireVars
<1>2. ServerFrame
  <2>1. Reads
    BY <1>1, NothingRead
  <2>2. QED
    BY <1>1, <2>1, Framed DEF IInv, ClientInv
<1>3. GoodResult(Err) /\ ~IsFallback(Err)
  BY ErrorsAreGood DEF IsFallback, Err, BufErr, Result
<1>4. QED
  BY <1>1, <1>2, <1>3, Ends

\* Where nothing happens but that an outbound is chosen.
LEMMA RestKeeps ==
  ASSUME IInv, UNCHANGED vars, ChosenInv'
  PROVE  IInv'
<1>1. UNCHANGED <<ses, up, down, clientVars, pc, buf, n, loc, res>>
  BY DEF vars, wireVars
<1>2. AllSent' = AllSent /\ Sent' = Sent /\ (Silent' <=> Silent) /\ HeadOf' = HeadOf /\ (Frames' <=> Frames)
  BY <1>1 DEF AllSent, Sent, Silent, HeadOf, Frames, Count, Script, clientVars
<1>3. ClientInv' /\ UpInv' /\ PcInv' /\ BufInv'
  BY <1>1, <1>2 DEF IInv, ClientInv, UpInv, PcInv, BufInv, Script, clientVars
<1>4. HearInv' /\ UserInv'
  BY <1>1, <1>2 DEF IInv, HearInv, UserInv, IsLoc, GoodUser, GoodResult, Named, Authenticates
<1>5. BegunInv'
  BY <1>1, <1>2 DEF IInv, BegunInv
<1>6. QuietInv'
  BY <1>1, <1>2 DEF IInv, QuietInv, WithRest, IsFallback, Looked, Returned
<1>7. QED
  BY <1>3, <1>4, <1>5, <1>6 DEF IInv

LEMMA RouteResultKeeps ==
  ASSUME IInv, RouteResult
  PROVE  IInv'
<1>1. UNCHANGED <<ses, pc, res>> /\ UNCHANGED vars /\ Returned
  BY DEF RouteResult, vars
<1>2. PICK s \in Selectors : out' = <<s, Select(s, InfoOf(res))>>
  BY DEF RouteResult
<1>3. InfoOf(res)' = InfoOf(res)
  BY <1>1 DEF InfoOf, DataWith, AddrInfo
<1>4. ChosenInv'
  BY <1>1, <1>2, <1>3 DEF ChosenInv, Returned
<1>5. QED
  BY <1>1, <1>4, RestKeeps

LEMMA NextKeeps ==
  ASSUME IInv, [Next]_allVars
  PROVE  IInv'
<1>1. CASE Socks5Next /\ UNCHANGED out
  BY <1>1, ReadHelloKeeps, MethodKeeps, ReadAuthKeeps, ReadCommandKeeps, EarlyKeeps DEF Socks5Next
<1>2. CASE HttpNext /\ UNCHANGED out
  BY <1>2, ReadHttpKeeps, ReadFilterKeeps DEF HttpNext
<1>3. CASE UNCHANGED allVars
  <2>1. UNCHANGED vars /\ UNCHANGED <<ses, pc, res, out>>
    BY <1>3 DEF allVars, vars
  <2>2. ChosenInv'
    BY <2>1 DEF IInv, ChosenInv, Returned, InfoOf, DataWith, AddrInfo
  <2>3. QED
    BY <2>1, <2>2, RestKeeps
<1>4. \/ Socks5Next /\ UNCHANGED out
      \/ HttpNext /\ UNCHANGED out
      \/ ReadHead /\ UNCHANGED out
      \/ ReaderStep /\ UNCHANGED out
      \/ (ClientSend \/ ClientRead \/ ClientLeaves) /\ UNCHANGED out
      \/ ShortWrite /\ UNCHANGED out
      \/ IoError /\ UNCHANGED out
      \/ RouteResult
      \/ UNCHANGED allVars
  BY DEF Next, ServerStep, ClientStep, HandshakeServer, TrojanClientStep
<1>5. QED
  BY <1>1, <1>2, <1>3, <1>4, ReadHeadKeeps, ReaderKeeps, ClientSendKeeps, ClientReadKeeps, ClientLeavesKeeps,
     ShortWriteKeeps, IoErrorKeeps, RouteResultKeeps

\* Whoever meets, in whatever pieces, the invariant holds.
THEOREM Invariant == Spec => []IInv
<1>1. InboundInit => IInv
  BY InitHolds
<1>2. IInv /\ [Next]_allVars => IInv'
  BY NextKeeps
<1>3. QED
  BY <1>1, <1>2, PTL DEF Spec

-----------------------------------------------------------------------------
(* What a rule gives to a user *)

LEMMA FirstTagIs ==
  ASSUME NEW vec, NEW M \in SUBSET Nat
  PROVE  FirstTag(vec, M) = None \/ \E k \in M : FirstTag(vec, M) = Some(vec[k].out_tag)
<1>1. CASE M = {}
  BY <1>1 DEF FirstTag
<1>2. CASE M # {}
  <2> DEFINE k == CHOOSE x \in M : \A j \in M : x <= j
  <2>1. \E x \in M : \A j \in M : x <= j
    BY <1>2, LeastOf
  <2>2. k \in M
    BY <2>1
  <2>3. FirstTag(vec, M) = Some(vec[k].out_tag)
    BY <1>2 DEF FirstTag
  <2> HIDE DEF k
  <2>4. QED
    BY <2>2, <2>3
<1>3. QED
  BY <1>1, <1>2

LEMMA SomeIs ==
  ASSUME NEW x, NEW d
  PROVE  Some(x) # None /\ OrElse(Some(x), d) = x
  BY DEF Some, None, OrElse

\* An outbound that is not the default is one a tag leads to.
LEMMA OutboundIs ==
  ASSUME NEW s, NEW tag, NEW default, tag = None \/ \E t : tag = Some(t),
         s.reserved # default, Outbound(s, tag, default) = s.reserved
  PROVE  \E t : tag = Some(t) /\ Leads(s, t)
<1>1. tag # None
  BY DEF Outbound
<1>2. PICK t : tag = Some(t)
  BY <1>1
<1>3. OrElse(tag, "") = t
  BY <1>2, SomeIs
<1>4. Leads(s, t)
  BY <1>1, <1>3 DEF Outbound, Leads
<1>5. QED
  BY <1>2, <1>4

LEMMA SameTag ==
  ASSUME NEW t, NEW u, Some(t) = Some(u)
  PROVE  t = u
  BY DEF Some

LEMMA UsersIs ==
  ASSUME NEW r, NEW us, InfoOf(r).users = Some(us)
  PROVE  DataWith(r.d) = us
<1>1. InfoOf(r).users = UsersOf(DataWith(r.d))
  BY DEF InfoOf
<1>2. Some(us) # None
  BY SomeIs
<1>3. InfoOf(r).users = Some(DataWith(r.d))
  BY <1>1, <1>2 DEF UsersOf
<1>4. QED
  BY <1>3, SameTag

LEMMA ReservedFor ==
  ASSUME NEW s \in Selectors, NEW r, Select(s, InfoOf(r)) = s.reserved
  PROVE  DataWith(r.d) \in s.reserved_for
<1> DEFINE info == InfoOf(r)
<1>0. Reserves(s)
  BY SelectorsAssumption
<1>1. s.kind \in {"fixed", "tag", "info", "rules"}
  BY <1>0 DEF Reserves
<1>2. CASE s.kind = "fixed"
  <2>1. s.reserved \notin {s.default, NoOut}
    BY <1>0, <1>2 DEF Reserves
  <2>2. Select(s, info) \in {s.default, NoOut}
    BY <1>2 DEF Select, FixedSelect
  <2>3. QED
    BY <2>1, <2>2
<1>3. CASE s.kind = "tag"
  <2>1. s.reserved \notin {s.ok_default, s.fb_default} /\ \A tag \in DOMAIN s.outbounds_map : ~Leads(s, tag)
    BY <1>0, <1>3 DEF Reserves
  <2>2. PICK tag, d : /\ Select(s, info) = Outbound(s, tag, d) /\ d \in {s.ok_default, s.fb_default}
                      /\ tag = None \/ \E t : tag = Some(t)
    BY <1>3, Zenon DEF Select, TagSelect
  <2>3. \E t : Leads(s, t)
    BY <2>1, <2>2, OutboundIs
  <2>4. QED
    BY <2>1, <2>3 DEF Leads
<1>4. CASE s.kind = "info"
  <2> DEFINE vec == s.outbounds_ruleset_vec
             M == {k \in DOMAIN vec : info \in vec[k].infos}
             d == IF info.is_fallback THEN s.fb_default ELSE s.ok_default
  <2>1. /\ s.reserved \notin {s.ok_default, s.fb_default} /\ DOMAIN vec \subseteq Nat
        /\ \A i \in DOMAIN vec : Leads(s, vec[i].out_tag) =>
             \A x \in vec[i].infos : \E us \in s.reserved_for : x.users = Some(us)
    BY <1>0, <1>4 DEF Reserves
  <2>2. Select(s, info) = Outbound(s, FirstTag(vec, M), d)
    BY <1>4 DEF Select, InfoSelect
  <2>3. s.reserved # d /\ M \in SUBSET Nat
    BY <2>1
  <2>4. \A k \in M : k \in DOMAIN vec /\ info \in vec[k].infos
    OBVIOUS
  <2> HIDE DEF vec, M, d, info
  <2>5. FirstTag(vec, M) = None \/ \E k \in M : FirstTag(vec, M) = Some(vec[k].out_tag)
    BY <2>3, FirstTagIs
  <2>6. Outbound(s, FirstTag(vec, M), d) = s.reserved
    BY <2>2 DEF info
  <2>7. PICK t : FirstTag(vec, M) = Some(t) /\ Leads(s, t)
    BY <2>3, <2>5, <2>6, OutboundIs
  <2>8. PICK k \in M : FirstTag(vec, M) = Some(vec[k].out_tag)
    <3>1. FirstTag(vec, M) # None
      BY <2>7, SomeIs
    <3>2. QED
      BY <2>5, <3>1
  <2>9. Leads(s, vec[k].out_tag)
    BY <2>7, <2>8, SameTag
  <2>10. PICK us \in s.reserved_for : info.users = Some(us)
    BY <2>1, <2>4, <2>8, <2>9
  <2>11. QED
    BY <2>10, UsersIs DEF info
<1>5. CASE s.kind = "rules"
  <2> DEFINE vec == s.outbounds_rules_vec
             M == {k \in DOMAIN vec : RuleMatches(vec[k], info)}
             d == s.default
  <2>1. /\ s.reserved # d /\ DOMAIN vec \subseteq Nat
        /\ \A i \in DOMAIN vec : Leads(s, vec[i].out_tag) =>
             /\ vec[i].mode = "WhiteList"
             /\ \E userset \in SUBSET s.reserved_for : vec[i].userset = Some(userset)
    BY <1>0, <1>5 DEF Reserves
  <2>2. Select(s, info) = Outbound(s, FirstTag(vec, M), d)
    BY <1>5 DEF Select, RuleSelect
  <2>3. M \in SUBSET Nat
    BY <2>1
  <2>4. \A k \in M : k \in DOMAIN vec /\ RuleMatches(vec[k], info)
    OBVIOUS
  <2> HIDE DEF vec, M, d, info
  <2>5. FirstTag(vec, M) = None \/ \E k \in M : FirstTag(vec, M) = Some(vec[k].out_tag)
    BY <2>3, FirstTagIs
  <2>6. Outbound(s, FirstTag(vec, M), d) = s.reserved
    BY <2>2 DEF info
  <2>7. PICK t : FirstTag(vec, M) = Some(t) /\ Leads(s, t)
    BY <2>1, <2>5, <2>6, OutboundIs
  <2>8. PICK k \in M : FirstTag(vec, M) = Some(vec[k].out_tag)
    <3>1. FirstTag(vec, M) # None
      BY <2>7, SomeIs
    <3>2. QED
      BY <2>5, <3>1
  <2>9. Leads(s, vec[k].out_tag)
    BY <2>7, <2>8, SameTag
  <2>10. PICK userset \in SUBSET s.reserved_for : vec[k].userset = Some(userset)
    BY <2>1, <2>4, <2>8, <2>9
  <2>11. InUserset(vec[k], info)
    BY <2>1, <2>4, <2>8, <2>9 DEF RuleMatches, MatchesWhitelist
  <2>12. vec[k].userset # None /\ \A x : OrElse(vec[k].userset, x) = userset
    BY <2>10, SomeIs
  <2>13. info.users # None /\ OrElse(info.users, <<>>) \in userset
    BY <2>11, <2>12 DEF InUserset, IsIn
  <2>14. info.users = None \/ \E x : info.users = Some(x)
    BY DEF info, InfoOf, UsersOf
  <2>15. PICK x : info.users = Some(x)
    BY <2>13, <2>14
  <2>16. x \in userset
    BY <2>13, <2>15, SomeIs
  <2>17. QED
    BY <2>10, <2>15, <2>16, UsersIs DEF info
<1>6. QED
  BY <1>1, <1>2, <1>3, <1>4, <1>5

-----------------------------------------------------------------------------
(* What follows *)

\* Whoever a server with users lets through has sent the name and the password of one
\* of them, or its hash, and is that one: for every set of sessions in which clients
\* know the password of no user but themselves, every size of the buffer, and every
\* way the stream may come in pieces.
THEOREM AuthCorrect == Spec => []AuthBeforeTarget
<1>1. IInv => AuthBeforeTarget
  <2>1. SUFFICES ASSUME IInv, Ok, Authenticates, ses.users # {}
                 PROVE  res.d = ses.who /\ res.d \in ses.users
    BY DEF AuthBeforeTarget
  <2>2. GoodResult(res) /\ res.e = "ok"
    BY <2>1 DEF IInv, UserInv, Ok
  <2>3. QED
    BY <2>1, <2>2 DEF GoodResult, Named
<1>2. QED
  BY <1>1, Invariant, PTL

\* An outbound that the selectors reserve for lists of users is only taken by
\* connections of a client that has proved to be exactly the users of one of the lists,
\* those of the maps before and that of the last server: for every selector whose rules
\* and infos lead there in no other way.
THEOREM RouteCorrect == Spec => []ReservedRoute
<1>1. IInv => ReservedRoute
  <2> DEFINE proved == IF Ok /\ ses.users # {} THEN ses.who ELSE NoUser
  <2>1. SUFFICES ASSUME IInv, out # <<>>, out[2] = out[1].reserved
                 PROVE  DataWith(proved) \in out[1].reserved_for
    BY DEF ReservedRoute
  <2>2. Returned /\ out[1] \in Selectors /\ Select(out[1], InfoOf(res)) = out[1].reserved
    BY <2>1 DEF IInv, ChosenInv
  <2>3. DataWith(res.d) \in out[1].reserved_for
    BY <2>2, ReservedFor
  <2>4. GoodResult(res) /\ ses \in Sessions
    BY <2>1 DEF IInv, UserInv, ClientInv
  <2>5. ses.users # {} => Authenticates
    BY <2>4, SessionsAssumption DEF Servers, Authenticates
  <2>6. res.d = proved
    <3>1. CASE Ok /\ ses.users # {}
      BY <3>1, <2>4, <2>5 DEF GoodResult, Named, Ok
    <3>2. CASE ses.users = {}
      BY <3>2, <2>4 DEF GoodResult, Named
    <3>3. CASE ~Ok
      BY <3>3, <2>2, <2>4 DEF GoodResult, Ok
    <3>4. QED
      BY <3>1, <3>2, <3>3
  <2>7. QED
    BY <2>3, <2>6
<1>2. QED
  BY <1>1, Invariant, PTL

\* What goes to a fallback is all that a client which was sent no reply has sent, in
\* order: what the map before had read, what the maps have read, of every buffer they
\* have used, and what is still in the stream.
THEOREM FallbackCorrect == Spec => []FallbackWhole
<1>1. IInv => FallbackWhole
  <2>1. SUFFICES ASSUME IInv, Returned, IsFallback(res), Silent, ses.server # "trojan",
                        ses.server = "filter" => ses.pre = <<>>
                 PROVE  res.b \o up = ses.pre \o Sent
    BY DEF FallbackWhole
  <2>2. WithRest(res.b)
    BY <2>1 DEF IInv, QuietInv, Looked
  <2>3. AllSent = ses.pre \o Sent
    BY <2>1, AllSentType DEF IInv
  <2>4. QED
    BY <2>2, <2>3 DEF WithRest
<1>2. QED
  BY <1>1, Invariant, PTL

-----------------------------------------------------------------------------
(* Where in a sequence a request is *)


LEMMA DropDrop ==
  ASSUME NEW t \in Seq(Nat), NEW d \in 0..Len(t), NEW e \in 0..Len(t) - d
  PROVE  Drop(Drop(t, d), e) = Drop(t, d + e) /\ d + e \in 0..Len(t)
<1> DEFINE r == Drop(t, d)
<1>1. d \in Nat /\ e \in Nat /\ Len(t) \in Nat /\ d + e \in 0..Len(t) /\ Len(t) - (d + e) = (Len(t) - d) - e
  OBVIOUS
<1>2. r \in Seq(Nat) /\ Len(r) = Len(t) - d /\ \A i \in 1..Len(t) - d : r[i] = t[d + i]
  BY DropIs
<1> HIDE DEF r
<1>3. e \in 0..Len(r)
  BY <1>2
<1>4. Drop(r, e) \in Seq(Nat) /\ Len(Drop(r, e)) = Len(r) - e /\ \A i \in 1..Len(r) - e : Drop(r, e)[i] = r[e + i]
  BY <1>2, <1>3, DropIs
<1>5. /\ Drop(t, d + e) \in Seq(Nat) /\ Len(Drop(t, d + e)) = Len(t) - (d + e)
      /\ \A i \in 1..Len(t) - (d + e) : Drop(t, d + e)[i] = t[(d + e) + i]
  BY <1>1, DropIs
<1>6. ASSUME NEW i \in 1..Len(r) - e PROVE Drop(r, e)[i] = Drop(t, d + e)[i]
  <2>1. e + i \in 1..Len(t) - d /\ d + (e + i) = (d + e) + i /\ i \in 1..Len(t) - (d + e)
    BY <1>1, <1>2
  <2>2. QED
    BY <1>2, <1>4, <1>5, <2>1
<1>7. Drop(r, e) = Drop(t, d + e)
  <2>1. Len(Drop(r, e)) = Len(Drop(t, d + e)) /\ Len(Drop(r, e)) = Len(r) - e
    BY <1>1, <1>2, <1>4, <1>5
  <2>2. QED
    BY <1>4, <1>5, <1>6, <2>1, SameSeq
<1>8. QED
  BY <1>1, <1>7 DEF r

LEMMA DropConcat ==
  ASSUME NEW a \in Seq(Nat), NEW u \in Seq(Nat), NEW e \in 0..Len(a)
  PROVE  /\ Drop(a \o u, e) = Drop(a, e) \o u /\ e \in 0..Len(a \o u)
         /\ a \o u \in Seq(Nat) /\ Len(a \o u) = Len(a) + Len(u)
<1>1. Take(a, e) \in Seq(Nat) /\ Len(Take(a, e)) = e
  BY TakeIs
<1>2. Drop(a, e) \in Seq(Nat)
  BY DropIs
<1> DEFINE p == Take(a, e)
           q == Drop(a, e) \o u
           w == p \o q
<1>3. q \in Seq(Nat)
  BY <1>2, ConcatIs
<1>4. a \o u = w
  <2>1. (Take(a, e) \o Drop(a, e)) \o u = Take(a, e) \o (Drop(a, e) \o u)
    BY <1>1, <1>2, Assoc, ZenonT(30)
  <2>2. QED
    BY <2>1, TakeDrop
<1>5. a \o u \in Seq(Nat) /\ Len(a \o u) = Len(a) + Len(u) /\ e \in 0..Len(a \o u) /\ e \in Nat
  <2>1. a \o u \in Seq(Nat) /\ Len(a \o u) = Len(a) + Len(u)
    BY ConcatIs
  <2>2. Len(a) \in Nat /\ Len(u) \in Nat /\ e \in 0..Len(a)
    OBVIOUS
  <2>3. QED
    BY <2>1, <2>2
<1>6. p \in Seq(Nat) /\ Len(p) = e
  BY <1>1
<1> HIDE DEF p, q
<1>7. Drop(w, e) = q
  <2>1. /\ w \in Seq(Nat) /\ Len(w) = Len(p) + Len(q)
        /\ \A i \in 1..Len(q) : w[Len(p) + i] = q[i]
    BY <1>3, <1>6, ConcatIs
  <2> HIDE DEF w
  <2>2. e \in 0..Len(w) /\ Len(w) - e = Len(q)
    BY <1>3, <1>5, <1>6, <2>1
  <2>3. Drop(w, e) \in Seq(Nat) /\ Len(Drop(w, e)) = Len(w) - e /\ \A i \in 1..Len(w) - e : Drop(w, e)[i] = w[e + i]
    BY <2>1, <2>2, DropIs
  <2>4. QED
    BY <1>3, <1>6, <2>1, <2>2, <2>3, SameSeq
<1>8. QED
  BY <1>4, <1>5, <1>7 DEF q

\* The last m of the first k elements.
LastOf(b, k, m) == SubSeq(b, k - m + 1, k)

LEMMA LastOfIs ==
  ASSUME NEW b \in Seq(Nat), NEW k \in 0..Len(b), NEW m \in 0..k
  PROVE  /\ LastOf(b, k, m) \in Seq(Nat) /\ Len(LastOf(b, k, m)) = m
         /\ \A i \in 1..m : LastOf(b, k, m)[i] = b[(k - m) + i]
<1>1. /\ k - m + 1 \in Nat \ {0} /\ k \in Nat /\ k <= Len(b) /\ k - m + 1 <= k + 1
      /\ (k - (k - m + 1)) + 1 = m /\ \A i \in 1..m : (k - m + 1) - 1 + i = (k - m) + i
  OBVIOUS
<1>2. /\ SubSeq(b, k - m + 1, k) \in Seq(Nat) /\ Len(SubSeq(b, k - m + 1, k)) = (k - (k - m + 1)) + 1
      /\ \A x \in 1..(k - (k - m + 1)) + 1 : SubSeq(b, k - m + 1, k)[x] = b[((k - m + 1) - 1) + x]
  BY <1>1, SubSeqIs
<1>3. QED
  BY <1>1, <1>2 DEF LastOf

LEMMA LastOfAll ==
  ASSUME NEW b \in Seq(Nat), NEW k \in 0..Len(b)
  PROVE  LastOf(b, k, k) = Take(b, k) /\ LastOf(b, k, 0) = <<>>
<1>1. k - k + 1 = 1 /\ k - 0 + 1 = k + 1 /\ k \in Nat
  OBVIOUS
<1>2. SubSeq(b, k + 1, k) = <<>>
  BY <1>1
<1>3. QED
  BY <1>1, <1>2 DEF LastOf, Take

LEMMA LastOfDrop ==
  ASSUME NEW b \in Seq(Nat), NEW k \in 0..Len(b), NEW m \in 0..k, NEW p \in 0..m, NEW u \in Seq(Nat)
  PROVE  /\ LastOf(b, k, p) \o u = Drop(LastOf(b, k, m) \o u, m - p)
         /\ m - p \in 0..Len(LastOf(b, k, m) \o u) /\ LastOf(b, k, m) \o u \in Seq(Nat)
<1> DEFINE a == LastOf(b, k, m)
           c == LastOf(b, k, p)
<1>0. k \in Nat /\ m \in Nat /\ p \in Nat /\ p \in 0..k /\ m - p \in 0..m /\ m - (m - p) = p
  OBVIOUS
<1>1. a \in Seq(Nat) /\ Len(a) = m /\ \A i \in 1..m : a[i] = b[(k - m) + i]
  BY LastOfIs
<1>2. c \in Seq(Nat) /\ Len(c) = p /\ \A i \in 1..p : c[i] = b[(k - p) + i]
  BY <1>0, LastOfIs
<1> HIDE DEF a, c
<1>3. m - p \in 0..Len(a)
  BY <1>0, <1>1
<1>4. Drop(a, m - p) \in Seq(Nat) /\ Len(Drop(a, m - p)) = Len(a) - (m - p)
      /\ \A i \in 1..Len(a) - (m - p) : Drop(a, m - p)[i] = a[(m - p) + i]
  BY <1>1, <1>3, DropIs
<1>5. c = Drop(a, m - p)
  <2>1. Len(a) - (m - p) = p
    BY <1>0, <1>1
  <2>2. ASSUME NEW i \in 1..p PROVE c[i] = Drop(a, m - p)[i]
    <3>1. (m - p) + i \in 1..m /\ (k - m) + ((m - p) + i) = (k - p) + i
      BY <1>0
    <3>2. a[(m - p) + i] = b[(k - p) + i]
      BY <1>1, <3>1
    <3>3. c[i] = b[(k - p) + i] /\ Drop(a, m - p)[i] = a[(m - p) + i]
      BY <1>2, <1>4, <2>1
    <3>4. QED
      BY <3>2, <3>3
  <2>3. QED
    BY <1>2, <1>4, <2>1, <2>2, SameSeq
<1>6. Drop(a \o u, m - p) = Drop(a, m - p) \o u /\ m - p \in 0..Len(a \o u) /\ a \o u \in Seq(Nat)
  BY <1>1, <1>3, DropConcat
<1>7. QED
  BY <1>5, <1>6 DEF a, c

\* What is left of t behind the methods, and behind a command's beginning.
Greeted(t, r) == Len(t) >= 3 /\ MethodsEnd(t) <= Len(t) /\ r = Drop(t, MethodsEnd(t))
Ready(t, r) == \E d \in 0..Len(t) : CommandAt(t, d) /\ r = Drop(t, d)

LEMMA MethodsEndIs ==
  ASSUME NEW t \in Seq(Nat), Len(t) >= 3
  PROVE  MethodsEnd(t) \in Nat /\ MethodsEnd(t) >= 2 /\ t[2] \in Nat
<1>1. t[2] \in Nat
  <2>1. 2 \in 1..Len(t)
    OBVIOUS
  <2>2. QED
    BY <2>1
<1>2. QED
  BY <1>1 DEF MethodsEnd

LEMMA MethodsEndAppend ==
  ASSUME NEW t \in Seq(Nat), Len(t) >= 3, NEW x \in Seq(Nat)
  PROVE  MethodsEnd(t \o x) = MethodsEnd(t)
<1> DEFINE w == t \o x
<1>1. w \in Seq(Nat) /\ \A i \in 1..Len(t) : w[i] = t[i]
  BY ConcatIs
<1>2. 2 \in 1..Len(t)
  OBVIOUS
<1> HIDE DEF w
<1>3. w[2] = t[2]
  BY <1>1, <1>2
<1>4. MethodsEnd(w) = MethodsEnd(t)
  BY <1>3 DEF MethodsEnd
<1>5. QED
  BY <1>4 DEF w

LEMMA NameLenIs ==
  ASSUME NEW a \in Seq(Nat), Len(a) >= 2, Len(a) >= 3 + a[2]
  PROVE  a[2] \in Nat /\ a[3 + a[2]] \in Nat /\ NameLen(a) \in Nat /\ NameLen(a) >= 3 /\ 3 + a[2] \in 1..Len(a)
<1>1. a[2] \in Nat
  <2>1. 2 \in 1..Len(a)
    OBVIOUS
  <2>2. QED
    BY <2>1
<1>2. 3 + a[2] \in 1..Len(a)
  BY <1>1
<1>3. a[3 + a[2]] \in Nat
  BY <1>2
<1>4. \A x, y \in Nat : 3 + x + y \in Nat /\ 3 + x + y >= 3
  OBVIOUS
<1>5. QED
  BY <1>1, <1>2, <1>3, <1>4 DEF NameLen

LEMMA NameAppend ==
  ASSUME NEW a \in Seq(Nat), IsName(a), NEW x \in Seq(Nat)
  PROVE  IsName(a \o x) /\ NameLen(a \o x) = NameLen(a)
<1> DEFINE w == a \o x
<1>1. Len(a) >= 2 /\ a[1] = 1 /\ Len(a) >= 3 + a[2] /\ Len(a) >= NameLen(a)
  BY DEF IsName
<1>2. a[2] \in Nat /\ NameLen(a) \in Nat /\ 3 + a[2] \in 1..Len(a) /\ Len(a) \in Nat /\ Len(x) \in Nat
  BY <1>1, NameLenIs
<1>3. w \in Seq(Nat) /\ Len(w) = Len(a) + Len(x) /\ \A i \in 1..Len(a) : w[i] = a[i]
  BY ConcatIs
<1> HIDE DEF w
<1>4. w[1] = a[1] /\ w[2] = a[2] /\ w[3 + a[2]] = a[3 + a[2]]
  <2>1. 1 \in 1..Len(a) /\ 2 \in 1..Len(a)
    BY <1>1, <1>2
  <2>2. QED
    BY <1>2, <1>3, <2>1
<1>5. NameLen(w) = NameLen(a)
  BY <1>4 DEF NameLen
<1>6. \A y \in Nat : Len(a) >= y => Len(w) >= y
  BY <1>2, <1>3
<1>7. Len(w) >= 2 /\ Len(w) >= 3 + a[2] /\ Len(w) >= NameLen(a)
  <2>1. 3 + a[2] \in Nat
    BY <1>2
  <2>2. QED
    BY <1>1, <1>2, <1>6, <2>1
<1>8. IsName(w)
  BY <1>1, <1>4, <1>5, <1>7 DEF IsName
<1>9. QED
  BY <1>5, <1>8 DEF w

LEMMA CommandAppend ==
  ASSUME NEW t \in Seq(Nat), NEW d, CommandAt(t, d), NEW x \in Seq(Nat)
  PROVE  CommandAt(t \o x, d)
<1> DEFINE w == t \o x
<1>1. /\ Len(t) >= 3 /\ Len(t) >= MethodsEnd(t)
      /\ \/ d = MethodsEnd(t)
         \/ \E e \in {3, MethodsEnd(t)} : IsName(Drop(t, e)) /\ d = MethodsEnd(t) + NameLen(Drop(t, e))
  BY DEF CommandAt
<1>2. MethodsEnd(t) \in Nat /\ MethodsEnd(w) = MethodsEnd(t) /\ Len(t) \in Nat /\ Len(x) \in Nat
  BY <1>1, MethodsEndIs, MethodsEndAppend
<1>3. w \in Seq(Nat) /\ Len(w) = Len(t) + Len(x)
  BY ConcatIs
<1>4. ASSUME NEW e \in {3, MethodsEnd(t)}, IsName(Drop(t, e))
      PROVE  IsName(Drop(w, e)) /\ NameLen(Drop(w, e)) = NameLen(Drop(t, e))
  <2>1. e \in 0..Len(t)
    BY <1>1, <1>2
  <2>2. Drop(w, e) = Drop(t, e) \o x /\ Drop(t, e) \in Seq(Nat)
    BY <2>1, DropConcat, DropIs
  <2>3. QED
    BY <1>4, <2>2, NameAppend
<1> HIDE DEF w
<1>5. Len(w) >= 3 /\ Len(w) >= MethodsEnd(w)
  BY <1>1, <1>2, <1>3
<1>6. CASE d = MethodsEnd(t)
  <2>1. CommandAt(w, d)
    BY <1>2, <1>5, <1>6 DEF CommandAt
  <2>2. QED
    BY <2>1 DEF w
<1>7. ASSUME NEW e \in {3, MethodsEnd(t)}, IsName(Drop(t, e)), d = MethodsEnd(t) + NameLen(Drop(t, e))
      PROVE  CommandAt(t \o x, d)
  <2>1. IsName(Drop(w, e)) /\ NameLen(Drop(w, e)) = NameLen(Drop(t, e))
    BY <1>4, <1>7
  <2>2. e \in {3, MethodsEnd(w)} /\ d = MethodsEnd(w) + NameLen(Drop(w, e))
    BY <1>2, <1>7, <2>1
  <2>3. CommandAt(w, d)
    BY <1>5, <2>1, <2>2 DEF CommandAt
  <2>4. QED
    BY <2>3 DEF w
<1>8. QED
  BY <1>1, <1>6, <1>7

LEMMA ReadyAppend ==
  ASSUME NEW t \in Seq(Nat), NEW r, Ready(t, r), NEW x \in Seq(Nat)
  PROVE  Ready(t \o x, r \o x)
<1>1. PICK d \in 0..Len(t) : CommandAt(t, d) /\ r = Drop(t, d)
  BY DEF Ready
<1>2. Drop(t \o x, d) = r \o x /\ d \in 0..Len(t \o x)
  BY <1>1, DropConcat
<1>3. CommandAt(t \o x, d)
  BY <1>1, CommandAppend
<1>4. QED
  BY <1>2, <1>3, Zenon DEF Ready

LEMMA GreetedAppend ==
  ASSUME NEW t \in Seq(Nat), NEW r, Greeted(t, r), NEW x \in Seq(Nat)
  PROVE  Greeted(t \o x, r \o x)
<1>1. Len(t) >= 3 /\ MethodsEnd(t) <= Len(t) /\ r = Drop(t, MethodsEnd(t))
  BY DEF Greeted
<1>2. MethodsEnd(t) \in Nat /\ MethodsEnd(t) \in 0..Len(t) /\ MethodsEnd(t \o x) = MethodsEnd(t)
  BY <1>1, MethodsEndIs, MethodsEndAppend
<1>3. Drop(t \o x, MethodsEnd(t)) = r \o x /\ Len(t \o x) = Len(t) + Len(x)
  BY <1>1, <1>2, DropConcat
<1>4. Len(t \o x) >= 3 /\ MethodsEnd(t) <= Len(t \o x)
  <2>1. Len(t) \in Nat /\ Len(x) \in Nat
    OBVIOUS
  <2>2. QED
    BY <1>1, <1>2, <1>3, <2>1
<1>5. QED
  BY <1>2, <1>3, <1>4, Zenon DEF Greeted

LEMMA GreetedReady ==
  ASSUME NEW t \in Seq(Nat), NEW r, Greeted(t, r)
  PROVE  Ready(t, r)
<1>1. Len(t) >= 3 /\ MethodsEnd(t) <= Len(t) /\ r = Drop(t, MethodsEnd(t))
  BY DEF Greeted
<1>2. MethodsEnd(t) \in 0..Len(t) /\ Len(t) >= MethodsEnd(t)
  BY <1>1, MethodsEndIs
<1>3. CommandAt(t, MethodsEnd(t))
  BY <1>1, <1>2, Zenon DEF CommandAt
<1>4. QED
  BY <1>1, <1>2, <1>3, Zenon DEF Ready

\* A name and a password that are taken lead from the one to the other.
LEMMA NamedReady ==
  ASSUME NEW t \in Seq(Nat), NEW r, Greeted(t, r), NEW a \in Seq(Nat), IsName(a), NEW u \in Seq(Nat),
         NEW e \in {3, MethodsEnd(t)}, a \o u = Drop(t, e), NameLen(a) <= Len(r)
  PROVE  Ready(t, Drop(r, NameLen(a)))
<1> DEFINE L == NameLen(a)
           m == MethodsEnd(t)
<1>1. Len(t) >= 3 /\ m <= Len(t) /\ r = Drop(t, m)
  BY DEF Greeted
<1>2. m \in Nat /\ m \in 0..Len(t) /\ Len(t) \in Nat
  BY <1>1, MethodsEndIs
<1>3. L \in Nat /\ L <= Len(r)
  BY NameLenIs DEF IsName
<1>4. Len(r) = Len(t) - m
  BY <1>1, <1>2, DropIs
<1>5. IsName(Drop(t, e)) /\ NameLen(Drop(t, e)) = L
  BY NameAppend
<1>6. CommandAt(t, m + L)
  BY <1>1, <1>5, Zenon DEF CommandAt
<1> HIDE DEF L, m
<1>7. L \in 0..Len(t) - m
  BY <1>2, <1>3, <1>4
<1>8. Drop(r, L) = Drop(t, m + L) /\ m + L \in 0..Len(t)
  BY <1>1, <1>2, <1>7, DropDrop
<1>9. Ready(t, Drop(r, L))
  BY <1>6, <1>8, Zenon DEF Ready
<1>10. QED
  BY <1>9 DEF L

\* Where the address of a request of socks5, or of trojan, ends does not depend on what
\* comes behind it.
LEMMA AddrEndSame ==
  ASSUME NEW a \in Seq(Nat), NEW b \in Seq(Nat), 7 <= Len(a), \A i \in 1..7 : a[i] = b[i]
  PROVE  AddrEnd(a) = AddrEnd(b)
<1>1. a[4] = b[4] /\ a[5] = b[5]
  OBVIOUS
<1>2. QED
  BY <1>1 DEF AddrEnd

LEMMA AddrEndIs ==
  ASSUME NEW b \in Seq(Nat), 7 <= Len(b), AddrEnd(b) # 0
  PROVE  AddrEnd(b) \in Nat /\ AddrEnd(b) >= 7
<1>1. b[5] \in Nat
  <2>1. 5 \in 1..Len(b)
    OBVIOUS
  <2>2. QED
    BY <2>1
<1>2. QED
  BY <1>1 DEF AddrEnd

LEMMA AddrLenIs ==
  ASSUME NEW b \in Seq(Nat), AddrLen(b) # 0
  PROVE  AddrLen(b) \in Nat /\ AddrLen(b) >= 4 /\ AddrLen(b) <= Len(b) /\ 7 <= Len(b)
<1>1. Len(b) \in Nat /\ ~(Len(b) < 7)
  BY DEF AddrLen
<1>2. b[2] \in Nat
  <2>1. 2 \in 1..Len(b)
    BY <1>1
  <2>2. QED
    BY <2>1
<1>3. QED
  BY <1>1, <1>2, SMTT(30) DEF AddrLen

LEMMA AddrLenAppend ==
  ASSUME NEW b \in Seq(Nat), AddrLen(b) # 0, NEW x \in Seq(Nat)
  PROVE  AddrLen(b \o x) = AddrLen(b)
<1> DEFINE c == b \o x
<1>1. c \in Seq(Nat) /\ Len(c) = Len(b) + Len(x) /\ \A i \in 1..Len(b) : c[i] = b[i]
  BY ConcatIs
<1> HIDE DEF c
<1>2. Len(b) \in Nat /\ Len(x) \in Nat /\ 7 <= Len(b)
  BY AddrLenIs
<1>3. c[1] = b[1] /\ c[2] = b[2]
  <2>1. 1 \in 1..Len(b) /\ 2 \in 1..Len(b)
    BY <1>2
  <2>2. QED
    BY <1>1, <2>1
<1>4. b[2] \in Nat
  <2>1. 2 \in 1..Len(b)
    BY <1>2
  <2>2. QED
    BY <2>1
<1>5. ~(Len(b) < 7) /\ ~(Len(c) < 7)
  BY <1>1, <1>2
<1>6. ASSUME b[1] = 1 PROVE AddrLen(c) = AddrLen(b)
  BY <1>3, <1>5, <1>6 DEF AddrLen
<1>7. ASSUME b[1] = 4 PROVE AddrLen(c) = AddrLen(b)
  <2>1. ~(Len(b) < 19)
    BY <1>5, <1>7 DEF AddrLen
  <2>2. ~(Len(c) < 19)
    BY <1>1, <1>2, <2>1
  <2>3. QED
    BY <1>3, <1>5, <1>7, <2>1, <2>2 DEF AddrLen
<1>8. ASSUME b[1] = 3 PROVE AddrLen(c) = AddrLen(b)
  <2>1. ~(Len(b) < 4 + b[2])
    BY <1>5, <1>8 DEF AddrLen
  <2>2. ~(Len(c) < 4 + c[2])
    <3>1. \A y, z, w \in Nat : ~(y < 4 + z) => ~(y + w < 4 + z)
      OBVIOUS
    <3>2. ~(Len(b) + Len(x) < 4 + b[2])
      BY <1>2, <1>4, <2>1, <3>1
    <3>3. QED
      BY <1>1, <1>3, <3>2
  <2>3. AddrLen(b) = 4 + b[2]
    BY <1>5, <1>8, <2>1 DEF AddrLen
  <2>4. AddrLen(c) = 4 + c[2]
    BY <1>3, <1>5, <1>8, <2>2 DEF AddrLen
  <2>5. QED
    BY <1>3, <2>3, <2>4
<1>9. b[1] \in {1, 3, 4}
  BY <1>5 DEF AddrLen
<1>10. AddrLen(c) = AddrLen(b)
  BY <1>6, <1>7, <1>8, <1>9
<1>11. QED
  BY <1>10 DEF c

-----------------------------------------------------------------------------
(* Where the maps find a request, and where they turn to a message, in the *)
(* stream t: these are places of the kind that RequestsAssumption is about *)

Finds(s, t, i, j) ==
  IF s.server = "trojan"
    THEN /\ i = PassLen + 3 /\ i < Len(t) /\ t[i] = CMD_CONNECT
         /\ AddrLen(Drop(t, i)) # 0 /\ j = i + AddrLen(Drop(t, i))
    ELSE /\ i >= 3 /\ i + 4 <= Len(t) /\ CommandAt(t, i - 3) /\ t[i - 2] = VERSION5 /\ t[i - 1] = CMD_CONNECT
         /\ AddrEnd(Drop(t, i - 3)) # 0 /\ j = i - 3 + AddrEnd(Drop(t, i - 3))
Turns(s, t, d) ==
  \/ d = 0 \/ d = Len(s.pre)
  \/ CommandAt(t, d)
  \/ \E c \in 0..Len(t) - 7 : /\ CommandAt(t, c) /\ t[c + 2] = CMD_UDP_ASSOCIATE
                              /\ AddrEnd(Drop(t, c)) # 0 /\ d = c + AddrEnd(Drop(t, c))

\* Both parsers take an address to be as long as it is.
LEMMA SizeOfEnd ==
  ASSUME NEW a, NEW b, a[1] = b[4], a[2] = b[5], a[2] \in Nat, AddrEnd(b) # 0
  PROVE  AddrSize(a) # 0 /\ AddrEnd(b) = 3 + AddrSize(a) /\ AddrSize(a) \in Nat
<1>1. AddrEnd(b) = CASE b[4] = 1 -> 10 [] b[4] = 4 -> 22 [] b[4] = 3 -> 7 + b[5] [] OTHER -> 0
  BY DEF AddrEnd, ATYP_IP4, ATYP_IP6, ATYP_DOMAIN
<1>2. AddrSize(a) = CASE b[4] = 1 -> 7 [] b[4] = 4 -> 19 [] b[4] = 3 -> 4 + b[5] [] OTHER -> 0
  BY DEF AddrSize, ATYP_IP4, ATYP_IP6, ATYP_DOMAIN
<1>3. CASE b[4] = 1
  <2>1. AddrEnd(b) = 10 /\ AddrSize(a) = 7
    BY <1>1, <1>2, <1>3
  <2>2. QED
    BY <2>1
<1>4. CASE b[4] = 4
  <2>1. AddrEnd(b) = 22 /\ AddrSize(a) = 19
    BY <1>1, <1>2, <1>4
  <2>2. QED
    BY <2>1
<1>5. CASE b[4] = 3
  <2>1. AddrEnd(b) = 7 + b[5] /\ AddrSize(a) = 4 + b[5]
    BY <1>1, <1>2, <1>5
  <2>2. \A x \in Nat : 4 + x # 0 /\ 7 + x = 3 + (4 + x) /\ 4 + x \in Nat
    OBVIOUS
  <2>3. b[5] \in Nat
    OBVIOUS
  <2>4. QED
    BY <2>1, <2>2, <2>3
<1>6. CASE b[4] # 1 /\ b[4] # 4 /\ b[4] # 3
  <2>1. AddrEnd(b) = 0
    BY <1>1, <1>6
  <2>2. QED
    BY <2>1
<1>7. QED
  BY <1>3, <1>4, <1>5, <1>6

LEMMA AddrEndSize ==
  ASSUME NEW t \in Seq(Nat), NEW c \in 0..Len(t) - 7, AddrEnd(Drop(t, c)) # 0
  PROVE  AddrSize(Drop(t, c + 3)) # 0 /\ c + AddrEnd(Drop(t, c)) = c + 3 + AddrSize(Drop(t, c + 3))
<1> DEFINE b == Drop(t, c)
           a == Drop(t, c + 3)
<1>1. c \in 0..Len(t) /\ c + 3 \in 0..Len(t) /\ Len(t) \in Nat /\ Len(t) - c >= 7
  OBVIOUS
<1>2. \A i \in 1..Len(t) - c : b[i] = t[c + i]
  BY <1>1, DropIs
<1>3. a \in Seq(Nat) /\ Len(a) = Len(t) - (c + 3) /\ \A i \in 1..Len(t) - (c + 3) : a[i] = t[(c + 3) + i]
  BY <1>1, DropIs
<1>4. a[1] = b[4] /\ a[2] = b[5]
  <2>a. 4 \in 1..Len(t) - c /\ 5 \in 1..Len(t) - c
    <3>1. \A L, C \in Nat : L - C >= 7 => 4 \in 1..L - C /\ 5 \in 1..L - C
      OBVIOUS
    <3>2. c \in Nat
      BY <1>1
    <3>3. QED
      BY <1>1, <3>1, <3>2, Zenon
  <2>1. b[4] = t[c + 4] /\ b[5] = t[c + 5]
    BY <1>2, <2>a, Zenon
  <2>2. 1 \in 1..Len(t) - (c + 3) /\ 2 \in 1..Len(t) - (c + 3) /\ (c + 3) + 1 = c + 4 /\ (c + 3) + 2 = c + 5
    BY <1>1
  <2>3. a[1] = t[(c + 3) + 1] /\ a[2] = t[(c + 3) + 2]
    BY <1>3, <2>2, Zenon
  <2>4. QED
    BY <2>1, <2>2, <2>3
<1>5. a[2] \in Nat
  <2>1. 2 \in 1..Len(t) - (c + 3)
    BY <1>1
  <2>2. 2 \in 1..Len(a)
    BY <1>3, <2>1, Zenon
  <2>3. \A s \in Seq(Nat) : \A i \in 1..Len(s) : s[i] \in Nat
    OBVIOUS
  <2>4. QED
    BY <1>3, <2>2, <2>3, Zenon
<1>6. AddrEnd(b) # 0
  OBVIOUS
<1> HIDE DEF a, b
<1>7. AddrSize(a) # 0 /\ AddrEnd(b) = 3 + AddrSize(a) /\ AddrSize(a) \in Nat
  BY <1>4, <1>5, <1>6, SizeOfEnd
<1>8. c + AddrEnd(b) = c + 3 + AddrSize(a)
  BY <1>7
<1>9. QED
  BY <1>7, <1>8 DEF a, b

LEMMA TurnsBegins ==
  ASSUME NEW s, NEW t \in Seq(Nat), NEW d, Turns(s, t, d)
  PROVE  Begins(s, t, d)
<1>1. CASE d = 0 \/ d = Len(s.pre) \/ CommandAt(t, d)
  BY <1>1, Zenon DEF Begins
<1>2. ASSUME NEW c \in 0..Len(t) - 7, CommandAt(t, c), t[c + 2] = CMD_UDP_ASSOCIATE,
             AddrEnd(Drop(t, c)) # 0, d = c + AddrEnd(Drop(t, c))
      PROVE  Begins(s, t, d)
  <2>1. AddrSize(Drop(t, c + 3)) # 0 /\ d = c + 3 + AddrSize(Drop(t, c + 3))
    BY <1>2, AddrEndSize
  <2>2. QED
    BY <1>2, <2>1, Zenon DEF Begins
<1>3. QED
  BY <1>1, <1>2, Zenon DEF Turns

LEMMA FindsAsks ==
  ASSUME NEW s, NEW t \in Seq(Nat), NEW i \in 0..Len(t), NEW j \in 0..Len(t), Finds(s, t, i, j)
  PROVE  Asks(s, t, i, j)
<1>1. CASE s.server = "trojan"
  <2> DEFINE a == Drop(t, i)
  <2>1. i = PassLen + 3 /\ t[i] = CMD_CONNECT /\ AddrLen(a) # 0 /\ j = i + AddrLen(a)
    BY <1>1 DEF Finds
  <2>2. a \in Seq(Nat) /\ Len(a) = Len(t) - i
    BY DropIs
  <2> HIDE DEF a
  <2>3. AddrLen(a) \in Nat /\ 7 <= Len(a)
    BY <2>1, <2>2, AddrLenIs
  <2>4. AddrSize(a) = AddrLen(a)
    BY <2>1, <2>3 DEF AddrLen, AddrSize, ATYP_IP4, ATYP_IP6, ATYP_DOMAIN
  <2>5. i + 4 <= Len(t)
    BY <2>2, <2>3
  <2>6. AddrSize(Drop(t, i)) # 0 /\ j = i + AddrSize(Drop(t, i))
    BY <2>1, <2>4 DEF a
  <2>7. QED
    BY <1>1, <2>1, <2>5, <2>6, Zenon DEF Asks
<1>2. CASE s.server # "trojan"
  <2>1. /\ i >= 3 /\ i + 4 <= Len(t) /\ CommandAt(t, i - 3) /\ t[i - 2] = VERSION5 /\ t[i - 1] = CMD_CONNECT
        /\ AddrEnd(Drop(t, i - 3)) # 0 /\ j = i - 3 + AddrEnd(Drop(t, i - 3))
    BY <1>2, Zenon DEF Finds
  <2>2. i - 3 \in 0..Len(t) - 7 /\ (i - 3) + 3 = i
    BY <2>1
  <2>3. AddrSize(Drop(t, (i - 3) + 3)) # 0 /\ j = (i - 3) + 3 + AddrSize(Drop(t, (i - 3) + 3))
    BY <2>1, <2>2, AddrEndSize
  <2>4. AddrSize(Drop(t, i)) # 0 /\ j = i + AddrSize(Drop(t, i))
    BY <2>2, <2>3
  <2>5. QED
    BY <1>2, <2>1, <2>4, Zenon DEF Asks
<1>3. QED
  BY <1>1, <1>2

\* In t the address a is asked for, and r comes behind the request.
RequestOf(s, t, r, a) == \E i, j \in 0..Len(t) :
  Finds(s, t, i, j) /\ a = SubSeq(t, i + 1, j) /\ EndOf(s, j) <= Len(t) /\ r = Drop(t, EndOf(s, j))

LEMMA SubSeqSame ==
  ASSUME NEW a \in Seq(Nat), NEW b \in Seq(Nat), NEW e \in Nat, NEW i \in Nat \ {0}, NEW j \in Nat,
         i <= j + 1, j <= Len(a), e + j <= Len(b), \A x \in i..j : a[x] = b[e + x]
  PROVE  SubSeq(a, i, j) = SubSeq(b, e + i, e + j)
<1>1. /\ SubSeq(a, i, j) \in Seq(Nat) /\ Len(SubSeq(a, i, j)) = (j - i) + 1
      /\ \A x \in 1..(j - i) + 1 : SubSeq(a, i, j)[x] = a[(i - 1) + x]
  BY SubSeqIs
<1>2. e + i \in Nat \ {0} /\ e + j \in Nat /\ e + i <= (e + j) + 1 /\ ((e + j) - (e + i)) + 1 = (j - i) + 1
  OBVIOUS
<1>3. /\ SubSeq(b, e + i, e + j) \in Seq(Nat) /\ Len(SubSeq(b, e + i, e + j)) = ((e + j) - (e + i)) + 1
      /\ \A x \in 1..((e + j) - (e + i)) + 1 : SubSeq(b, e + i, e + j)[x] = b[((e + i) - 1) + x]
  BY <1>2, SubSeqIs
<1>4. ASSUME NEW x \in 1..(j - i) + 1 PROVE SubSeq(a, i, j)[x] = SubSeq(b, e + i, e + j)[x]
  <2>1. (i - 1) + x \in i..j /\ e + ((i - 1) + x) = ((e + i) - 1) + x
    OBVIOUS
  <2>2. a[(i - 1) + x] = b[((e + i) - 1) + x]
    BY <2>1
  <2>3. SubSeq(a, i, j)[x] = a[(i - 1) + x]
    BY <1>1
  <2>4. SubSeq(b, e + i, e + j)[x] = b[((e + i) - 1) + x]
    BY <1>2, <1>3
  <2>5. QED
    BY <2>2, <2>3, <2>4
<1>5. QED
  BY <1>1, <1>2, <1>3, <1>4, SameSeq

LEMMA FindsOrder ==
  ASSUME NEW s, NEW t \in Seq(Nat), NEW i \in 0..Len(t), NEW j \in 0..Len(t), Finds(s, t, i, j)
  PROVE  i <= j /\ EndOf(s, j) \in Nat /\ j <= EndOf(s, j)
<1>1. i <= j
  <2>1. CASE s.server = "trojan"
    <3>1. Drop(t, i) \in Seq(Nat) /\ AddrLen(Drop(t, i)) # 0 /\ j = i + AddrLen(Drop(t, i))
      BY <2>1, DropIs DEF Finds
    <3>2. AddrLen(Drop(t, i)) \in Nat
      BY <3>1, AddrLenIs
    <3>3. QED
      BY <3>1, <3>2
  <2>2. CASE s.server # "trojan"
    <3>1. i >= 3 /\ i + 4 <= Len(t) /\ AddrEnd(Drop(t, i - 3)) # 0 /\ j = i - 3 + AddrEnd(Drop(t, i - 3))
      BY <2>2, Zenon DEF Finds
    <3>2. i - 3 \in 0..Len(t) /\ Len(t) - (i - 3) >= 7
      BY <3>1
    <3>3. Drop(t, i - 3) \in Seq(Nat) /\ 7 <= Len(Drop(t, i - 3))
      BY <3>2, DropIs
    <3>4. AddrEnd(Drop(t, i - 3)) \in Nat /\ AddrEnd(Drop(t, i - 3)) >= 7
      BY <3>1, <3>3, AddrEndIs
    <3>5. QED
      BY <3>1, <3>4
  <2>3. QED
    BY <2>1, <2>2
<1>2. QED
  BY <1>1 DEF EndOf

LEMMA FindsAppend ==
  ASSUME NEW s, NEW t \in Seq(Nat), NEW i \in 0..Len(t), NEW j \in 0..Len(t), Finds(s, t, i, j), NEW x \in Seq(Nat)
  PROVE  Finds(s, t \o x, i, j)
<1> DEFINE w == t \o x
<1>1. w \in Seq(Nat) /\ Len(w) = Len(t) + Len(x) /\ \A e \in 1..Len(t) : w[e] = t[e]
  BY ConcatIs
<1>2. \A e \in 0..Len(t) : Drop(w, e) = Drop(t, e) \o x
  BY DropConcat
<1> HIDE DEF w
<1>3. Len(t) \in Nat /\ Len(x) \in Nat /\ Len(t) <= Len(w) /\ i \in Nat
  BY <1>1
<1>4. CASE s.server = "trojan"
  <2>1. /\ i = PassLen + 3 /\ i < Len(t) /\ t[i] = CMD_CONNECT
        /\ AddrLen(Drop(t, i)) # 0 /\ j = i + AddrLen(Drop(t, i))
    BY <1>4 DEF Finds
  <2>2. i \in 1..Len(t)
    BY <1>3, <2>1, TrojanAssumption
  <2>3. AddrLen(Drop(w, i)) = AddrLen(Drop(t, i))
    <3>1. Drop(t, i) \in Seq(Nat)
      BY DropIs
    <3>2. AddrLen(Drop(t, i) \o x) = AddrLen(Drop(t, i))
      BY <2>1, <3>1, AddrLenAppend
    <3>3. QED
      BY <1>2, <3>2
  <2>4. i < Len(w) /\ w[i] = CMD_CONNECT
    BY <1>1, <1>3, <2>1, <2>2
  <2>5. Finds(s, w, i, j)
    BY <1>4, <2>1, <2>3, <2>4, Zenon DEF Finds
  <2>6. QED
    BY <2>5 DEF w
<1>5. CASE s.server # "trojan"
  <2>1. /\ i >= 3 /\ i + 4 <= Len(t) /\ CommandAt(t, i - 3) /\ t[i - 2] = VERSION5 /\ t[i - 1] = CMD_CONNECT
        /\ AddrEnd(Drop(t, i - 3)) # 0 /\ j = i - 3 + AddrEnd(Drop(t, i - 3))
    BY <1>5, Zenon DEF Finds
  <2>a. CommandAt(w, i - 3)
    BY <2>1, CommandAppend DEF w
  <2>2. i - 2 \in 1..Len(t) /\ i - 1 \in 1..Len(t) /\ i - 3 \in 0..Len(t) /\ i + 4 <= Len(w) /\ Len(t) - (i - 3) >= 7
    BY <1>3, <2>1
  <2>3. w[i - 2] = VERSION5 /\ w[i - 1] = CMD_CONNECT
    BY <1>1, <2>1, <2>2
  <2>4. AddrEnd(Drop(w, i - 3)) = AddrEnd(Drop(t, i - 3))
    <3> DEFINE a == Drop(t, i - 3)
    <3>1. a \in Seq(Nat) /\ 7 <= Len(a)
      BY <2>2, DropIs
    <3>2. Drop(w, i - 3) = a \o x
      BY <1>2, <2>2
    <3> HIDE DEF a
    <3>3. a \o x \in Seq(Nat) /\ \A e \in 1..Len(a) : (a \o x)[e] = a[e]
      BY <3>1, ConcatIs
    <3>4. \A e \in 1..7 : a[e] = (a \o x)[e]
      BY <3>1, <3>3
    <3>5. AddrEnd(a) = AddrEnd(a \o x)
      BY <3>1, <3>3, <3>4, AddrEndSame
    <3>6. QED
      BY <3>2, <3>5 DEF a
  <2>5. Finds(s, w, i, j)
    BY <1>5, <2>1, <2>a, <2>2, <2>3, <2>4, Zenon DEF Finds
  <2>6. QED
    BY <2>5 DEF w
<1>6. QED
  BY <1>4, <1>5

LEMMA RequestAppend ==
  ASSUME NEW s, NEW t \in Seq(Nat), NEW r, NEW a, RequestOf(s, t, r, a), NEW x \in Seq(Nat)
  PROVE  RequestOf(s, t \o x, r \o x, a)
<1>1. PICK i \in 0..Len(t), j \in 0..Len(t) :
        Finds(s, t, i, j) /\ a = SubSeq(t, i + 1, j) /\ EndOf(s, j) <= Len(t) /\ r = Drop(t, EndOf(s, j))
  BY Zenon DEF RequestOf
<1>2. i <= j /\ EndOf(s, j) \in Nat /\ i \in Nat /\ j \in Nat /\ j <= Len(t) /\ Len(t) \in Nat
  BY <1>1, FindsOrder
<1>3. Finds(s, t \o x, i, j)
  BY <1>1, FindsAppend
<1>4. t \o x \in Seq(Nat) /\ Len(t \o x) = Len(t) + Len(x) /\ Len(x) \in Nat /\ \A e \in 1..Len(t) : (t \o x)[e] = t[e]
  BY ConcatIs
<1>5. SubSeq(t \o x, i + 1, j) = a
  <2>1. 0 \in Nat /\ i + 1 \in Nat \ {0} /\ i + 1 <= j + 1 /\ 0 + j <= Len(t \o x) /\ 0 + (i + 1) = i + 1 /\ 0 + j = j
    BY <1>2, <1>4
  <2>2. \A e \in i + 1..j : t[e] = (t \o x)[0 + e]
    BY <1>2, <1>4
  <2>3. SubSeq(t, i + 1, j) = SubSeq(t \o x, 0 + (i + 1), 0 + j)
    BY <1>2, <1>4, <2>1, <2>2, SubSeqSame
  <2>4. QED
    BY <1>1, <2>1, <2>3
<1>6. Drop(t \o x, EndOf(s, j)) = r \o x /\ EndOf(s, j) <= Len(t \o x)
  <2>1. EndOf(s, j) \in 0..Len(t)
    BY <1>1, <1>2
  <2>2. Drop(t \o x, EndOf(s, j)) = Drop(t, EndOf(s, j)) \o x
    BY <2>1, DropConcat
  <2>3. EndOf(s, j) <= Len(t \o x)
    <3>1. EndOf(s, j) <= Len(t)
      BY <1>1
    <3>2. QED
      BY <1>2, <1>4, <3>1
  <2>4. QED
    BY <1>1, <2>2, <2>3
<1>7. i \in 0..Len(t \o x) /\ j \in 0..Len(t \o x)
  BY <1>1, <1>4
<1> HIDE DEF Finds
<1>8. QED
  BY <1>3, <1>5, <1>6, <1>7, Zenon DEF RequestOf

\* A command that has come as far as its address.
Complete(b, k, end) == 7 <= k /\ end = AddrEnd(b) /\ end # 0 /\ end <= k
Places(t, d, b, k, end, r) ==
  /\ d \in 0..Len(t) - 7 /\ d + end \in 0..Len(t)
  /\ CommandAt(t, d) /\ AddrEnd(Drop(t, d)) = end
  /\ \A x \in 1..k : b[x] = t[d + x]
  /\ r = Drop(t, d + end)

LEMMA CommandIs ==
  ASSUME NEW t \in Seq(Nat), NEW b \in Seq(Nat), NEW k \in 0..Len(b),
         NEW u \in Seq(Nat), Ready(t, Take(b, k) \o u), NEW end, Complete(b, k, end)
  PROVE  /\ end \in Nat /\ end >= 7 /\ k \in Nat
         /\ \E d \in 0..Len(t) : Places(t, d, b, k, end, SubSeq(b, end + 1, k) \o u)
<1> DEFINE h == Take(b, k)
           y == h \o u
<1>0. 7 <= k /\ end = AddrEnd(b) /\ end # 0 /\ end <= k
  BY DEF Complete
<1>1. k \in Nat /\ Len(b) \in Nat /\ Len(u) \in Nat /\ Len(t) \in Nat /\ 7 <= Len(b) /\ k <= Len(b)
  BY <1>0
<1>2. h \in Seq(Nat) /\ Len(h) = k /\ \A x \in 1..k : h[x] = b[x]
  BY TakeIs
<1>4. PICK d \in 0..Len(t) : CommandAt(t, d) /\ y = Drop(t, d)
  BY DEF Ready
<1> HIDE DEF h
<1>3. y \in Seq(Nat) /\ Len(y) = k + Len(u) /\ \A x \in 1..k : y[x] = b[x]
  <2>1. y \in Seq(Nat) /\ Len(y) = Len(h) + Len(u) /\ \A x \in 1..Len(h) : y[x] = h[x]
    BY <1>2, ConcatIs
  <2>2. QED
    BY <1>2, <2>1
<1> HIDE DEF y
<1>5. d \in 0..Len(t) /\ d \in Nat
  BY <1>1
<1>6. Len(y) = Len(t) - d /\ \A x \in 1..Len(t) - d : y[x] = t[d + x]
  BY <1>4, <1>5, DropIs
<1>7. end \in Nat /\ end >= 7 /\ end <= k /\ 7 <= k
  BY <1>0, <1>1, AddrEndIs
<1>8. d \in 0..Len(t) - 7 /\ d + end \in 0..Len(t)
  <2>1. Len(t) - d = k + Len(u)
    BY <1>3, <1>6
  <2>2. \A T, D, E, K, U \in Nat : D <= T /\ T - D = K + U /\ 7 <= E /\ E <= K =>
          D \in 0..T - 7 /\ D + E \in 0..T
    OBVIOUS
  <2>3. d <= Len(t)
    BY <1>1
  <2>4. QED
    BY <1>1, <1>5, <1>7, <2>1, <2>2, <2>3
<1>9. \A x \in 1..k : b[x] = t[d + x]
  <2>1. \A x \in 1..k : x \in 1..Len(t) - d
    BY <1>1, <1>3, <1>6
  <2>2. QED
    BY <1>3, <1>6, <2>1
<1>10. AddrEnd(Drop(t, d)) = end
  <2>0. \A x \in 1..7 : x \in 1..k
    BY <1>1, <1>7
  <2>1. 7 <= Len(b) /\ \A x \in 1..7 : b[x] = y[x]
    BY <1>1, <1>3, <2>0
  <2>2. AddrEnd(b) = AddrEnd(y)
    BY <1>3, <2>1, AddrEndSame
  <2>3. QED
    BY <1>0, <1>4, <2>2
<1>11. SubSeq(b, end + 1, k) \o u = Drop(t, d + end)
  <2>1. k - end \in 0..k /\ k \in 0..k /\ k - (k - end) = end /\ k - (k - end) + 1 = end + 1
    <3>1. \A K, E \in Nat : E <= K => K - E \in 0..K /\ K \in 0..K /\ K - (K - E) = E /\ K - (K - E) + 1 = E + 1
      OBVIOUS
    <3>2. QED
      BY <1>1, <1>7, <3>1
  <2>2. LastOf(b, k, k - end) \o u = Drop(LastOf(b, k, k) \o u, k - (k - end))
    BY <2>1, LastOfDrop, ZenonT(30)
  <2>3. LastOf(b, k, k) \o u = y
    BY LastOfAll DEF h, y
  <2>4. LastOf(b, k, k - end) = SubSeq(b, end + 1, k)
    BY <2>1 DEF LastOf
  <2>5. Drop(y, end) = Drop(t, d + end)
    <3>1. end \in 0..Len(t) - d
      BY <1>1, <1>3, <1>6, <1>7
    <3>2. QED
      BY <1>4, <1>5, <3>1, DropDrop
  <2>6. QED
    BY <2>1, <2>2, <2>3, <2>4, <2>5
<1>12. Places(t, d, b, k, end, SubSeq(b, end + 1, k) \o u)
  BY <1>4, <1>8, <1>9, <1>10, <1>11, Zenon DEF Places
<1>13. QED
  BY <1>1, <1>5, <1>7, <1>12

\* If it asks for a connection, it is a request of its address, and of what follows.
LEMMA CommandRequest ==
  ASSUME NEW s, s.server # "trojan", NEW t \in Seq(Nat), NEW b \in Seq(Nat), NEW k \in 0..Len(b),
         NEW u \in Seq(Nat), Ready(t, Take(b, k) \o u), NEW end, Complete(b, k, end),
         b[1] = VERSION5, b[2] = CMD_CONNECT
  PROVE  RequestOf(s, t, SubSeq(b, end + 1, k) \o u, SubSeq(b, 4, end))
<1> DEFINE r == SubSeq(b, end + 1, k) \o u
<1>1. end \in Nat /\ end >= 7 /\ k \in Nat /\ \E d \in 0..Len(t) : Places(t, d, b, k, end, r)
  BY CommandIs
<1> HIDE DEF r
<1>2. PICK d \in 0..Len(t) : Places(t, d, b, k, end, r)
  BY <1>1
<1>3. /\ d \in 0..Len(t) - 7 /\ d + end \in 0..Len(t) /\ CommandAt(t, d) /\ AddrEnd(Drop(t, d)) = end
      /\ (\A x \in 1..k : b[x] = t[d + x]) /\ r = Drop(t, d + end)
  BY <1>2, Zenon DEF Places
<1>4. 7 <= k /\ end <= k /\ end # 0 /\ Len(b) \in Nat /\ k <= Len(b) /\ Len(t) \in Nat /\ d \in Nat
  BY DEF Complete
<1>5. /\ d + 3 \in 0..Len(t) /\ d + 3 >= 3 /\ (d + 3) + 4 <= Len(t) /\ d + end <= Len(t)
      /\ (d + 3) - 3 = d /\ (d + 3) - 2 = d + 1 /\ (d + 3) - 1 = d + 2
  <2>1. d <= Len(t) - 7 /\ d + end <= Len(t)
    BY <1>1, <1>3, <1>4
  <2>2. QED
    BY <1>4, <2>1
<1>6. t[d + 1] = VERSION5 /\ t[d + 2] = CMD_CONNECT
  <2>1. 1 \in 1..k /\ 2 \in 1..k
    BY <1>1, <1>4
  <2>2. QED
    BY <1>3, <2>1
<1>7. Finds(s, t, d + 3, d + end)
  <2>1. AddrEnd(Drop(t, (d + 3) - 3)) = end /\ t[(d + 3) - 2] = VERSION5 /\ t[(d + 3) - 1] = CMD_CONNECT
    BY <1>3, <1>5, <1>6
  <2>2. end # 0 /\ d + end = (d + 3) - 3 + AddrEnd(Drop(t, (d + 3) - 3)) /\ CommandAt(t, (d + 3) - 3)
    BY <1>3, <1>4, <1>5, <2>1
  <2>3. QED
    BY <1>5, <2>1, <2>2, Zenon DEF Finds
<1>8. SubSeq(t, (d + 3) + 1, d + end) = SubSeq(b, 4, end)
  <2>1. /\ 4 \in Nat \ {0} /\ 4 <= end + 1 /\ end <= Len(b) /\ d + end <= Len(t) /\ d + 4 = (d + 3) + 1
        /\ \A x \in 4..end : x \in 1..k
    <3>1. \A D, E, K \in Nat : 7 <= E /\ E <= K => 4 <= E + 1 /\ D + 4 = (D + 3) + 1 /\ \A x \in 4..E : x \in 1..K
      OBVIOUS
    <3>2. end <= Len(b)
      BY <1>1, <1>4
    <3>3. QED
      BY <1>1, <1>4, <1>5, <3>1, <3>2
  <2>2. \A x \in 4..end : b[x] = t[d + x]
    BY <1>3, <2>1
  <2>3. SubSeq(b, 4, end) = SubSeq(t, d + 4, d + end)
    BY <1>1, <1>4, <2>1, <2>2, SubSeqSame
  <2>4. QED
    BY <2>1, <2>3
<1>9. EndOf(s, d + end) = d + end
  BY DEF EndOf
<1>10. RequestOf(s, t, r, SubSeq(b, 4, end))
  BY <1>3, <1>5, <1>7, <1>8, <1>9, Zenon DEF RequestOf
<1>11. QED
  BY <1>10 DEF r

\* ... and so is a head of trojan.
HeadAccepted(b, k, q, al) ==
  /\ PassLen + 9 <= k /\ b[PassLen + 3] = CMD_CONNECT
  /\ q = SubSeq(b, PassLen + 4, k) /\ al = AddrLen(q) /\ al # 0 /\ al + 2 <= Len(q)

LEMMA HeadRequest ==
  ASSUME NEW s, s.server = "trojan", NEW b \in Seq(Nat), NEW k \in 0..Len(b), NEW u \in Seq(Nat),
         NEW t, t = Take(b, k) \o u, NEW q, NEW al, HeadAccepted(b, k, q, al)
  PROVE  RequestOf(s, t, Drop(q, al + 2) \o u, Take(q, al))
<1> DEFINE i == PassLen + 3
           h == Take(b, k)
<1>0. /\ PassLen + 9 <= k /\ b[PassLen + 3] = CMD_CONNECT
      /\ q = SubSeq(b, PassLen + 4, k) /\ al = AddrLen(q) /\ al # 0 /\ al + 2 <= Len(q)
  BY DEF HeadAccepted
<1>1. /\ PassLen \in Nat /\ i \in Nat /\ i >= 3 /\ k \in Nat /\ i < k /\ k <= Len(b)
      /\ k - i \in 0..k /\ k \in 0..k /\ k - (k - i) = i /\ k - (k - i) + 1 = PassLen + 4 /\ Len(u) \in Nat
      /\ i \in 1..k
  <2>1. PassLen \in Nat /\ PassLen + 9 <= k /\ k \in Nat
    BY <1>0, TrojanAssumption
  <2>2. QED
    BY <2>1
<1>2. h \in Seq(Nat) /\ Len(h) = k /\ \A x \in 1..k : h[x] = b[x]
  BY TakeIs
<1>a. t = h \o u
  OBVIOUS
<1> HIDE DEF h
<1>3. t \in Seq(Nat) /\ Len(t) = k + Len(u) /\ \A x \in 1..k : t[x] = b[x]
  <2> DEFINE w == h \o u
  <2>1. w \in Seq(Nat) /\ Len(w) = Len(h) + Len(u) /\ \A x \in 1..Len(h) : w[x] = h[x]
    BY <1>2, ConcatIs
  <2>2. t = w
    BY <1>a
  <2> HIDE DEF w
  <2>3. QED
    BY <1>2, <2>1, <2>2
<1>4. q = LastOf(b, k, k - i)
  BY <1>0, <1>1 DEF LastOf
<1> HIDE DEF i
<1>5. q \in Seq(Nat) /\ Len(q) = k - i
  BY <1>1, <1>4, LastOfIs
<1>6. q \o u = Drop(t, i)
  <2>1. LastOf(b, k, k - i) \o u = Drop(LastOf(b, k, k) \o u, k - (k - i))
    BY <1>1, LastOfDrop
  <2>2. LastOf(b, k, k) = Take(b, k)
    BY LastOfAll
  <2>3. QED
    BY <1>1, <1>4, <2>1, <2>2
<1>7. al \in Nat /\ AddrLen(Drop(t, i)) = al /\ al # 0 /\ al + 2 <= Len(q)
  <2>1. AddrLen(q) = al /\ AddrLen(q) # 0 /\ al + 2 <= Len(q)
    BY <1>0
  <2>2. AddrLen(q) \in Nat
    BY <1>5, <2>1, AddrLenIs
  <2>3. AddrLen(q \o u) = AddrLen(q)
    BY <1>5, <2>1, AddrLenAppend
  <2>4. QED
    BY <1>6, <2>1, <2>2, <2>3
<1>8. t[i] = CMD_CONNECT
  <2>1. b[i] = CMD_CONNECT
    BY <1>0 DEF i
  <2>2. QED
    BY <1>1, <1>3, <2>1
<1>9. /\ i \in 0..Len(t) /\ i + al \in 0..Len(t) /\ i < Len(t) /\ (i + al) + 2 <= Len(t) /\ al <= k - i
      /\ al + 2 \in 0..Len(q) /\ al \in 0..Len(q) /\ i + (al + 2) = (i + al) + 2 /\ Len(t) - i = Len(q) + Len(u)
  <2>1. /\ Len(t) \in Nat /\ Len(q) \in Nat /\ Len(u) \in Nat /\ i \in Nat /\ al \in Nat /\ k \in Nat
        /\ i < k /\ al # 0 /\ al + 2 <= Len(q) /\ Len(q) = k - i /\ Len(t) = k + Len(u)
    BY <1>1, <1>3, <1>5, <1>7
  <2>2. i \in 0..Len(t) /\ i < Len(t) /\ Len(t) - i = Len(q) + Len(u)
    BY <2>1
  <2>3. i + al \in 0..Len(t) /\ (i + al) + 2 <= Len(t) /\ i + (al + 2) = (i + al) + 2
    BY <2>1
  <2>4. al <= k - i /\ al + 2 \in 0..Len(q) /\ al \in 0..Len(q)
    BY <2>1
  <2>5. QED
    BY <2>2, <2>3, <2>4
<1>10. Finds(s, t, i, i + al)
  <2>1. i = PassLen + 3
    BY DEF i
  <2>2. QED
    BY <1>7, <1>8, <1>9, <2>1, Zenon DEF Finds
<1>11. Take(q, al) = SubSeq(t, i + 1, i + al)
  <2>1. Drop(t, i) \in Seq(Nat) /\ Len(Drop(t, i)) = Len(t) - i /\ \A x \in 1..Len(t) - i : Drop(t, i)[x] = t[i + x]
    BY <1>3, <1>9, DropIs
  <2>2. \A x \in 1..Len(q) : (q \o u)[x] = q[x]
    BY <1>5, ConcatIs
  <2>3. ASSUME NEW x \in 1..al PROVE q[x] = t[i + x]
    <3>1. x \in 1..Len(q) /\ x \in 1..Len(t) - i
      BY <1>1, <1>7, <1>9
    <3>2. QED
      BY <1>6, <2>1, <2>2, <3>1
  <2>4. 1 \in Nat \ {0} /\ 1 <= al + 1 /\ al <= Len(q) /\ i + al <= Len(t)
    BY <1>1, <1>3, <1>5, <1>7, <1>9
  <2>5. SubSeq(q, 1, al) = SubSeq(t, i + 1, i + al)
    <3>1. SubSeq(q, 1, al) = SubSeq(t, i + 1, i + al)
      <4>1. q \in Seq(Nat) /\ t \in Seq(Nat) /\ i \in Nat /\ al \in Nat
        BY <1>1, <1>3, <1>5, <1>7
      <4>2. QED
        BY <2>3, <2>4, <4>1, SubSeqSame, SMTT(30)
    <3>2. QED
      BY <3>1
  <2>6. QED
    BY <2>5 DEF Take
<1>12. Drop(q, al + 2) \o u = Drop(t, (i + al) + 2)
  <2>1. Drop(q \o u, al + 2) = Drop(q, al + 2) \o u
    BY <1>5, <1>9, DropConcat
  <2>2. al + 2 \in 0..Len(t) - i
    BY <1>1, <1>3, <1>5, <1>7, <1>9
  <2>3. Drop(Drop(t, i), al + 2) = Drop(t, i + (al + 2))
    BY <1>3, <1>9, <2>2, DropDrop
  <2>4. QED
    BY <1>6, <1>9, <2>1, <2>3
<1>13. EndOf(s, i + al) = (i + al) + 2
  BY DEF EndOf
<1> HIDE DEF Finds
<1>14. QED
  BY <1>9, <1>10, <1>11, <1>12, <1>13, Zenon DEF RequestOf

-----------------------------------------------------------------------------
(* What was asked for *)

\* What does not speak http has none of its methods where the http proxy looks.
Foreign == ses.speaks # "http" /\ ses.server # "trojan"
Mute(b) == b = <<>> \/ b[1] \notin {GET, CONNECT}
MuteInv == Foreign /\ pc = "given" => Mute(buf)

\* What socks5 has not taken yet, and what a target has been taken from, is the end of
\* what was sent.  A password is looked for once, and then no method is left.
Tried == ses.users # {} /\ AUTH_PASSWORD \in loc.seen
Heard(b, k, m, u, t) == 3 <= k /\ b[1] = VERSION5 /\ m = k - MethodsEnd(b) /\ Take(b, k) \o u = t
Asked(b, k, m, u, t) ==
  3 <= k /\ b[1] = VERSION5 /\ SubSeq(b, 4, k) \o u = Drop(t, 3) /\ Greeted(t, LastOf(b, k, m) \o u)
LeftInv ==
  /\ pc = "methods" /\ ~Tried => Heard(buf, n, loc.remain, up, AllSent)
  /\ pc = "auth" => Tried /\ Asked(buf, n, loc.remain, up, AllSent)
  /\ pc = "read_auth" => Tried /\ Greeted(AllSent, up)
  /\ pc = "command" => Ready(AllSent, Take(buf, n) \o up)
  /\ pc = "early" => RequestOf(ses, AllSent, up, loc.addr) /\ buf = Zeros(Len(buf))

\* The payload is early data and stream, or the stream behind a buffer of zeros.
Given(u, r) ==
  /\ r.b \in Seq(Nat)
  /\ \/ RequestOf(ses, AllSent, r.b \o u, r.a)
     \/ RequestOf(ses, AllSent, u, r.a) /\ r.b = Zeros(Len(r.b))
  /\ ses.server = "trojan" => ses.rbuf = 0
Connects(r) == r.e = "ok" /\ r.c = "conn" /\ ses.speaks # "http"
GivenInv == Returned /\ Connects(res) => Given(up, res)

JInv == MuteInv /\ LeftInv /\ GivenInv

\* Where a message begins.
LEMMA MuteStart ==
  ASSUME IInv, Foreign, NEW d \in 0..Len(AllSent), Turns(ses, AllSent, d),
         NEW b \in Seq(Nat), NEW u \in Seq(Nat), b \o u = Drop(AllSent, d)
  PROVE  Mute(b)
<1>1. AllSent \in Seq(Nat) /\ Count \in 0..Len(ses.script) /\ ses \in Sessions
  BY AllSentType DEF IInv, ClientInv, Script
<1>2. ses.speaks # "http" /\ ses.server # "trojan"
  BY DEF Foreign
<1>3. ASSUME b # <<>> PROVE b[1] \notin {GET, CONNECT}
  <2>1. Len(b) \in Nat /\ 1 <= Len(b) /\ Len(u) \in Nat /\ 1 \in 1..Len(b)
    BY <1>3
  <2>2. Len(b \o u) = Len(b) + Len(u) /\ \A i \in 1..Len(b) : (b \o u)[i] = b[i]
    BY ConcatIs
  <2>3. Len(Drop(AllSent, d)) = Len(AllSent) - d /\ \A i \in 1..Len(AllSent) - d : Drop(AllSent, d)[i] = AllSent[d + i]
    BY <1>1, DropIs
  <2>4. Len(AllSent) \in Nat /\ Len(AllSent) - d = Len(b) + Len(u)
    <3>1. Len(b \o u) = Len(Drop(AllSent, d))
      BY Zenon
    <3>2. Len(AllSent) \in Nat
      BY <1>1
    <3>3. QED
      BY <2>2, <2>3, <3>1, <3>2, Zenon
  <2>5. 1 \in 1..Len(AllSent) - d /\ d \in 0..Len(AllSent) - 1
    BY <2>1, <2>4
  <2>6. b[1] = AllSent[d + 1]
    BY <2>1, <2>2, <2>3, <2>5
  <2>7. \A k \in 0..Len(ses.script) : \A x \in 0..Len(Stream(ses, k)) - 1 :
          Begins(ses, Stream(ses, k), x) => Stream(ses, k)[x + 1] \notin {GET, CONNECT}
    BY <1>1, <1>2, RequestsAssumption, Zenon
  <2>a. Begins(ses, AllSent, d)
    BY <1>1, TurnsBegins
  <2>8. AllSent[d + 1] \notin {GET, CONNECT}
    BY <1>1, <2>5, <2>7, <2>a, Zenon DEF AllSent
  <2>9. QED
    BY <2>6, <2>8
<1>4. QED
  BY <1>3 DEF Mute

LEMMA DropNone ==
  ASSUME NEW t \in Seq(Nat)
  PROVE  Drop(t, 0) = t /\ 0 \in 0..Len(t)
<1>1. 0 \in 0..Len(t) /\ Len(t) - 0 = Len(t)
  OBVIOUS
<1>2. Drop(t, 0) \in Seq(Nat) /\ Len(Drop(t, 0)) = Len(t) /\ \A i \in 1..Len(t) : Drop(t, 0)[i] = t[i]
  <2>1. /\ Drop(t, 0) \in Seq(Nat) /\ Len(Drop(t, 0)) = Len(t) - 0
        /\ \A i \in 1..Len(t) - 0 : Drop(t, 0)[i] = t[0 + i]
    BY <1>1, DropIs
  <2>2. \A i \in 1..Len(t) : 0 + i = i
    OBVIOUS
  <2>3. QED
    BY <1>1, <2>1, <2>2
<1>3. QED
  BY <1>1, <1>2, SameSeq

\* ... which is first at the beginning.
LEMMA MuteFirst ==
  ASSUME IInv, Foreign, NEW b \in Seq(Nat), NEW u \in Seq(Nat), b \o u = AllSent
  PROVE  Mute(b)
<1>1. AllSent \in Seq(Nat)
  BY AllSentType DEF IInv
<1>2. Drop(AllSent, 0) = AllSent /\ 0 \in 0..Len(AllSent)
  BY <1>1, DropNone
<1>3. Turns(ses, AllSent, 0)
  BY DEF Turns
<1>4. QED
  BY <1>2, <1>3, MuteStart

LEMMA ZerosSame ==
  ASSUME NEW z \in Int
  PROVE  Zeros(z) = Zeros(Len(Zeros(z)))
<1>1. CASE z >= 0
  <2>1. z \in Nat
    BY <1>1
  <2>2. Zeros(z) \in [1..z -> {0}]
    BY DEF Zeros
  <2>3. Len(Zeros(z)) = z
    BY <2>1, <2>2
  <2>4. QED
    BY <2>3
<1>2. CASE z < 0
  <2>1. 1..z = 1..0
    BY <1>2
  <2>2. Zeros(z) = Zeros(0)
    BY <2>1 DEF Zeros
  <2>3. Len(Zeros(0)) = 0
    BY DEF Zeros
  <2>4. QED
    BY <2>2, <2>3
<1>3. QED
  BY <1>1, <1>2

\* No request is found in them.
LEMMA NoRequest ==
  ASSUME NEW b, Mute(b), NEW is_proxy
  PROVE  ~Parse(b, is_proxy).ok
<1>1. ~(Len(b) >= 2 /\ b[1] \in {GET, CONNECT})
  <2>1. CASE b = <<>>
    BY <2>1
  <2>2. QED
    BY <2>1 DEF Mute
<1>2. Parse(b, is_proxy) = [ok |-> FALSE]
  BY <1>1, Zenon DEF Parse
<1>3. QED
  BY <1>2

\* The handshake ends, or is given to the http proxy.
LEMMA Concludes ==
  ASSUME IInv, JInv, UNCHANGED <<ses, clientVars>>, pc # "done", NEW r, Return(r),
         Foreign /\ r.e = "err" => Mute(r.b),
         Connects(r) => Given(up', r)
  PROVE  JInv'
<1>1. AllSent' = AllSent
  BY DEF AllSent, Count, clientVars
<1>2. \/ pc' = "done" /\ res' = r
      \/ r.e = "err" /\ pc' = "given" /\ buf' = r.b
  BY DEF Return
<1>3. Foreign' <=> Foreign
  BY DEF Foreign
<1>4. MuteInv'
  BY <1>2, <1>3 DEF MuteInv, Mute
<1>5. LeftInv'
  BY <1>2 DEF LeftInv
<1>6. GivenInv'
  <2>1. CASE pc' = "done" /\ res' = r
    <3>1. Connects(res)' <=> Connects(r)
      BY <2>1 DEF Connects
    <3>2. Given(up', r) => Given(up, res)'
      BY <1>1, <2>1 DEF Given
    <3>3. QED
      BY <3>1, <3>2 DEF GivenInv
  <2>2. CASE pc' = "given"
    BY <2>2 DEF GivenInv, Returned
  <2>3. QED
    BY <1>2, <2>1, <2>2
<1>7. QED
  BY <1>4, <1>5, <1>6 DEF JInv

LEMMA Refuses ==
  ASSUME IInv, JInv, UNCHANGED <<ses, clientVars>>, pc # "done", NEW r, Return(r),
         NEW e, r \in {Ebc(e), BufErr(e), Err, Panicked}, Foreign => Mute(e)
  PROVE  JInv'
<1>1. Ebc(e).b = e /\ BufErr(e).b = e /\ Err.b = <<>> /\ Panicked.e = "panic" /\ ~Connects(r)
  BY DEF Ebc, BufErr, Err, Panicked, Result, Connects
<1>2. Foreign /\ r.e = "err" => Mute(r.b)
  <2>1. Mute(<<>>)
    BY DEF Mute
  <2>2. QED
    BY <1>1, <2>1
<1>3. QED
  BY <1>1, <1>2, Concludes

LEMMA Errs ==
  ASSUME IInv, JInv, UNCHANGED <<ses, clientVars>>, pc # "done", Return(Err) \/ Return(Panicked)
  PROVE  JInv'
<1> DEFINE e == <<>>
<1>1. Foreign => Mute(e)
  BY DEF Mute
<1> HIDE DEF e
<1>2. ASSUME NEW r \in {Err, Panicked}, Return(r) PROVE JInv'
  <2>1. r \in {Ebc(e), BufErr(e), Err, Panicked}
    BY <1>2
  <2>2. QED
    BY <1>1, <1>2, <2>1, Refuses
<1>3. QED
  BY <1>2

\* It goes on.
LEMMA Continues ==
  ASSUME pc' # "done", MuteInv', LeftInv'
  PROVE  JInv'
  BY DEF JInv, GivenInv, Returned

-----------------------------------------------------------------------------
(* ... in socks5 *)

\* What is behind the hello stays behind the reply.
LEMMA RepliedLast ==
  ASSUME NEW b \in Seq(Nat), NEW m \in Nat, NEW k \in 0..Len(b), NEW p \in 0..k, p # 0 => k - p >= 2,
         NEW c, c = [b EXCEPT ![1] = VERSION5, ![2] = m]
  PROVE  LastOf(c, k, p) = LastOf(b, k, p)
<1>1. c \in Seq(Nat) /\ Len(c) = Len(b) /\ \A i \in 1..Len(b) : i >= 3 => c[i] = b[i]
  <2>1. c \in Seq(Nat) /\ Len(c) = Len(b)
    BY RepliedBuffer
  <2>2. \A i \in 1..Len(b) : i >= 3 => c[i] = b[i]
    BY DEF VERSION5
  <2>3. QED
    BY <2>1, <2>2
<1>2. LastOf(b, k, p) \in Seq(Nat) /\ Len(LastOf(b, k, p)) = p /\ \A i \in 1..p : LastOf(b, k, p)[i] = b[(k - p) + i]
  BY LastOfIs
<1>3. k \in 0..Len(c)
  BY <1>1
<1>4. LastOf(c, k, p) \in Seq(Nat) /\ Len(LastOf(c, k, p)) = p /\ \A i \in 1..p : LastOf(c, k, p)[i] = c[(k - p) + i]
  BY <1>1, <1>3, LastOfIs
<1>5. ASSUME NEW i \in 1..p PROVE LastOf(c, k, p)[i] = LastOf(b, k, p)[i]
  <2>1. (k - p) + i \in 1..Len(b) /\ (k - p) + i >= 3
    <3>1. k \in Nat /\ p \in Nat /\ p # 0 /\ k - p >= 2 /\ i \in Nat /\ i >= 1 /\ i <= p /\ k <= Len(b) /\ Len(b) \in Nat
      OBVIOUS
    <3>2. QED
      BY <3>1
  <2>2. c[(k - p) + i] = b[(k - p) + i]
    BY <1>1, <2>1
  <2>3. QED
    BY <1>2, <1>4, <2>2
<1>6. QED
  BY <1>2, <1>4, <1>5, SameSeq

\* What there is behind the methods, and behind the first of them.
LEMMA HeardAsked ==
  ASSUME NEW b \in Seq(Nat), NEW k \in 0..Len(b), NEW m \in 0..k, NEW u \in Seq(Nat), NEW t,
         Heard(b, k, m, u, t)
  PROVE  Asked(b, k, m, u, t) /\ (m # 0 => k - m >= 2) /\ t \in Seq(Nat)
<1>1. 3 <= k /\ b[1] = VERSION5 /\ m = k - MethodsEnd(b) /\ Take(b, k) \o u = t
  BY DEF Heard
<1>2. k \in Nat /\ m \in Nat /\ Len(b) \in Nat /\ k <= Len(b) /\ k \in 0..k /\ m <= k
  OBVIOUS
<1>3. MethodsEnd(b) \in Nat /\ MethodsEnd(b) >= 2
  BY <1>1, <1>2, MethodsEndIs
<1>4. k - m = MethodsEnd(b)
  BY <1>1, <1>2, <1>3
<1>5. LastOf(b, k, k) \o u = t
  BY <1>1, LastOfAll
<1>6. LastOf(b, k, m) \o u = Drop(t, MethodsEnd(b)) /\ MethodsEnd(b) \in 0..Len(t) /\ t \in Seq(Nat)
  <2>1. /\ LastOf(b, k, m) \o u = Drop(LastOf(b, k, k) \o u, k - m)
        /\ k - m \in 0..Len(LastOf(b, k, k) \o u) /\ LastOf(b, k, k) \o u \in Seq(Nat)
    BY <1>2, LastOfDrop
  <2>2. QED
    BY <1>4, <1>5, <2>1
<1>7. SubSeq(b, 4, k) \o u = Drop(t, 3) /\ 3 \in 0..Len(t)
  <2> DEFINE q == k - 3
  <2>1. q \in 0..k /\ k - q = 3 /\ k - q + 1 = 4
    BY <1>1, <1>2
  <2>2. LastOf(b, k, q) = SubSeq(b, 4, k)
    BY <2>1 DEF LastOf
  <2> HIDE DEF q
  <2>3. LastOf(b, k, q) \o u = Drop(LastOf(b, k, k) \o u, k - q) /\ k - q \in 0..Len(LastOf(b, k, k) \o u)
    BY <1>2, <2>1, LastOfDrop
  <2>4. QED
    BY <1>5, <2>1, <2>2, <2>3
<1>8. MethodsEnd(t) = MethodsEnd(b)
  <2> DEFINE h == Take(b, k)
  <2>1. h \in Seq(Nat) /\ Len(h) = k /\ \A i \in 1..k : h[i] = b[i]
    BY TakeIs
  <2>2. 2 \in 1..k
    BY <1>1, <1>2
  <2>3. t = h \o u
    BY <1>1
  <2> HIDE DEF h
  <2>4. MethodsEnd(h \o u) = MethodsEnd(h)
    BY <1>1, <2>1, MethodsEndAppend
  <2>5. MethodsEnd(h) = MethodsEnd(b)
    BY <2>1, <2>2 DEF MethodsEnd
  <2>6. QED
    BY <2>3, <2>4, <2>5
<1>9. Greeted(t, LastOf(b, k, m) \o u)
  <2>1. Len(t) \in Nat /\ Len(t) >= 3 /\ MethodsEnd(t) <= Len(t)
    BY <1>3, <1>6, <1>7, <1>8
  <2>2. QED
    BY <1>6, <1>8, <2>1, Zenon DEF Greeted
<1>10. Asked(b, k, m, u, t)
  BY <1>1, <1>7, <1>9, Zenon DEF Asked
<1>11. QED
  BY <1>3, <1>4, <1>6, <1>10

\* The reply is put together in front of it.
LEMMA AskedReplied ==
  ASSUME NEW b \in Seq(Nat), NEW k \in 0..Len(b), NEW p \in 0..k, p # 0 => k - p >= 2, NEW m \in Nat,
         NEW u \in Seq(Nat), NEW t, Asked(b, k, p, u, t), NEW c, c = [b EXCEPT ![1] = VERSION5, ![2] = m]
  PROVE  Asked(c, k, p, u, t)
<1>1. 3 <= k /\ SubSeq(b, 4, k) \o u = Drop(t, 3) /\ Greeted(t, LastOf(b, k, p) \o u)
  BY DEF Asked
<1>2. SubSeq(c, 4, k) = SubSeq(b, 4, k) /\ LastOf(c, k, p) = LastOf(b, k, p)
  <2>1. SubSeq(c, 4, k) = SubSeq(b, 4, k)
    BY <1>1, RepliedBuffer, SMTT(30)
  <2>2. LastOf(c, k, p) = LastOf(b, k, p)
    BY RepliedLast, ZenonT(30)
  <2>3. QED
    BY <2>1, <2>2
<1>3. c[1] = VERSION5
  <2>1. 1 \in DOMAIN b
    BY <1>1
  <2>2. QED
    BY <2>1
<1>4. QED
  BY <1>1, <1>2, <1>3, Zenon DEF Asked

LEMMA NotAuthedLeft ==
  ASSUME IInv, JInv, UNCHANGED <<ses, clientVars>>, pc # "done", NEW b \in Seq(Nat),
         NEW k \in 0..Len(b), NotAuthed(b, k)
  PROVE  JInv'
<1> DEFINE c == [b EXCEPT ![1] = VERSION5, ![2] = AUTH_NO_ACCEPTABLE]
           t == Take(c, k)
<1>1. Return(Ebc(t))
  BY DEF NotAuthed
<1>2. Mute(t)
  <2>1. AUTH_NO_ACCEPTABLE \in Nat
    BY DEF AUTH_NO_ACCEPTABLE
  <2>2. c \in Seq(Nat) /\ Len(c) = Len(b)
    BY <2>1, RepliedBuffer
  <2>3. k # 0 => c[1] = VERSION5 /\ 1 \in 1..k
    <3>1. k # 0 => 1 \in DOMAIN b /\ 1 \in 1..k
      OBVIOUS
    <3>2. QED
      BY <3>1
  <2> HIDE DEF c
  <2>4. k \in 0..Len(c)
    BY <2>2
  <2>5. t \in Seq(Nat) /\ Len(t) = k /\ \A i \in 1..k : t[i] = c[i]
    BY <2>2, <2>4, TakeIs
  <2> HIDE DEF t
  <2>6. CASE k = 0
    BY <2>5, <2>6 DEF Mute
  <2>7. CASE k # 0
    <3>1. t[1] = VERSION5
      BY <2>3, <2>5, <2>7
    <3>2. QED
      BY <3>1 DEF Mute, VERSION5, GET, CONNECT
  <2>8. QED
    BY <2>6, <2>7
<1> HIDE DEF t
<1>3. QED
  BY <1>1, <1>2, Refuses

LEMMA HelloLeft ==
  ASSUME IInv, JInv, UNCHANGED <<ses, clientVars>>, pc \in Socks, NEW b \in Seq(Nat),
         NEW k \in 0..Len(b), Hello(b, k), Take(b, k) \o up' = AllSent, up' \in Seq(Nat)
  PROVE  JInv'
<1>0. pc # "done" /\ AllSent' = AllSent
  BY DEF Socks, AllSent, Count, clientVars
<1>1. k \in Nat /\ Len(b) \in Nat /\ k <= Len(b)
  OBVIOUS
<1>2. CASE Fail(Err)
  BY <1>0, <1>2, Errs DEF Fail
<1>3. CASE Fail(Ebc(Take(b, k)))
  <2>1. Take(b, k) \in Seq(Nat)
    BY TakeIs
  <2>2. Foreign => Mute(Take(b, k))
    BY <2>1, MuteFirst
  <2>3. Return(Ebc(Take(b, k)))
    BY <1>3 DEF Fail
  <2>4. QED
    BY <1>0, <2>2, <2>3, Refuses
<1>4. CASE NotAuthed(b, k)
  BY <1>0, <1>4, NotAuthedLeft
<1>5. CASE /\ ~(k < 3) /\ ~(b[1] # VERSION5) /\ ~(b[2] = 0 \/ k < 2 + b[2])
           /\ pc' = "methods" /\ buf' = b /\ n' = k
           /\ loc' = [NoLoc EXCEPT !.i = 3, !.last = 2 + b[2], !.remain = k - (2 + b[2])]
  <2>1. loc'.remain = k - MethodsEnd(b)
    BY <1>5 DEF NoLoc, MethodsEnd
  <2>2. Heard(b, k, k - MethodsEnd(b), up', AllSent)
    BY <1>1, <1>5 DEF Heard
  <2>3. LeftInv'
    BY <1>0, <1>5, <2>1, <2>2 DEF LeftInv
  <2>4. MuteInv'
    BY <1>5 DEF MuteInv
  <2>5. pc' # "done"
    BY <1>5
  <2>6. QED
    BY <2>3, <2>4, <2>5, Continues
<1>6. QED
  BY <1>2, <1>3, <1>4, <1>5, Zenon DEF Hello

LEMMA ReadHelloLeft ==
  ASSUME IInv, JInv, ReadHello, UNCHANGED out
  PROVE  JInv'
<1>0. pc \in Socks /\ UNCHANGED <<ses, clientVars, out>> /\ UNCHANGED <<ses, clientVars>>
  BY DEF ReadHello, Socks
<1>1. /\ ses.server # "trojan" /\ pc \in Servers
      /\ buf \in Seq(Nat) /\ (ses.pre # <<>> => buf = ses.pre) /\ up = Sent
  BY <1>0 DEF IInv, PcInv, BufInv, QuietInv, Servers, Socks
<1>2. AllSent = ses.pre \o up /\ up \in Seq(Nat) /\ ses.pre \in Seq(Nat) /\ Len(buf) \in Nat
  BY <1>1, AllSentType DEF IInv, UpInv
<1>3. CASE ses.pre # <<>>
  <2>1. Hello(buf, Len(buf)) /\ up' = up
    BY <1>3 DEF ReadHello
  <2>2. Len(buf) \in 0..Len(buf) /\ Take(buf, Len(buf)) = buf
    BY <1>1 DEF Take
  <2>3. Take(buf, Len(buf)) \o up' = AllSent
    BY <1>1, <1>2, <1>3, <2>1, <2>2
  <2>4. QED
    BY <1>0, <1>1, <1>2, <2>1, <2>2, <2>3, HelloLeft
<1>4. CASE ses.pre = <<>>
  <2>1. PICK k \in Takes(up, Len(buf), ClientClosed) : Hello(ReadInto(buf, 0, k), k) /\ Consume(k, Len(buf))
    BY <1>4 DEF ReadHello
  <2>2. k \in 0..Len(up) /\ k <= Len(buf) /\ up' = Drop(up, k) /\ up' \in Seq(Nat)
    BY <1>0, <1>2, <2>1, Consumed
  <2>3. /\ ReadInto(buf, 0, k) \in Seq(Nat) /\ Len(ReadInto(buf, 0, k)) = Len(buf)
        /\ Take(ReadInto(buf, 0, k), k) = Take(up, k)
    BY <1>1, <1>2, <2>2, ReadStart
  <2>4. k \in 0..Len(ReadInto(buf, 0, k))
    BY <1>2, <2>2, <2>3
  <2>5. Take(up, k) \o Drop(up, k) = AllSent
    <3>1. <<>> \o up = up
      BY <1>2
    <3>2. QED
      BY <1>2, <1>4, <2>2, <3>1, TakeDrop
  <2>6. QED
    BY <1>0, <2>1, <2>2, <2>3, <2>4, <2>5, HelloLeft
<1>5. QED
  BY <1>3, <1>4

\* The command is looked at next: in what remains, or in what is read then.
LEMMA ToCommandLeft ==
  ASSUME IInv, JInv, UNCHANGED <<ses, clientVars>>, NEW b \in Seq(Nat),
         NEW k \in 0..Len(b), NEW remain \in 0..k, NEW u, ToCommand(b, k, remain, u),
         Ready(AllSent, LastOf(b, k, remain) \o up')
  PROVE  JInv'
<1>0. AllSent' = AllSent /\ pc' = "command"
  BY DEF ToCommand, AllSent, Count, clientVars
<1>1. k \in Nat /\ remain \in Nat /\ remain <= k /\ Len(b) \in Nat /\ k <= Len(b)
  OBVIOUS
<1>2. n' = remain
  BY DEF ToCommand
<1>3. Take(buf', remain) = LastOf(b, k, remain)
  <2>1. CASE remain > 0
    <3> DEFINE o == k - remain
    <3>1. buf' = Drop(b, o)
      BY <2>1 DEF ToCommand
    <3>2. o \in 0..Len(b) /\ o \in Nat /\ remain <= Len(b) - o /\ o + 1 \in Nat \ {0} /\ Len(b) <= Len(b)
      BY <1>1
    <3>3. Drop(b, o) \in Seq(Nat) /\ Len(Drop(b, o)) = Len(b) - o /\ \A i \in 1..Len(b) - o : Drop(b, o)[i] = b[o + i]
      BY <3>2, DropIs
    <3>5. LastOf(b, k, remain) \in Seq(Nat) /\ Len(LastOf(b, k, remain)) = remain
          /\ \A i \in 1..remain : LastOf(b, k, remain)[i] = b[o + i]
      BY LastOfIs
    <3> HIDE DEF o
    <3>6. remain \in 0..Len(Drop(b, o))
      BY <1>1, <3>2, <3>3
    <3>7. Take(Drop(b, o), remain) \in Seq(Nat) /\ Len(Take(Drop(b, o), remain)) = remain
          /\ \A i \in 1..remain : Take(Drop(b, o), remain)[i] = Drop(b, o)[i]
      BY <3>3, <3>6, TakeIs
    <3>8. \A i \in 1..remain : Take(Drop(b, o), remain)[i] = LastOf(b, k, remain)[i]
      <4>1. \A i \in 1..remain : i \in 1..Len(b) - o
        BY <1>1, <3>2
      <4>2. QED
        BY <3>3, <3>5, <3>7, <4>1
    <3>9. Take(Drop(b, o), remain) = LastOf(b, k, remain)
      BY <3>5, <3>7, <3>8, SameSeq
    <3>10. QED
      BY <3>1, <3>9
  <2>2. CASE ~(remain > 0)
    <3>1. buf' = b /\ remain = 0
      BY <1>1, <2>2 DEF ToCommand
    <3>2. LastOf(b, k, 0) = <<>> /\ Take(b, 0) = <<>>
      BY LastOfAll DEF Take
    <3>3. QED
      BY <3>1, <3>2
  <2>3. QED
    BY <2>1, <2>2
<1>4. LeftInv'
  BY <1>0, <1>2, <1>3 DEF LeftInv
<1>5. MuteInv'
  BY <1>0 DEF MuteInv
<1>6. QED
  BY <1>0, <1>4, <1>5, Continues

LEMMA MethodLeft ==
  ASSUME IInv, JInv, Method, UNCHANGED out
  PROVE  JInv'
<1> DEFINE m == buf[loc.i]
           replied == [buf EXCEPT ![1] = VERSION5, ![2] = m]
<1>0. pc = "methods" /\ UNCHANGED <<ses, clientVars>> /\ up' = up /\ pc # "done"
  BY DEF Method
<1>1. /\ buf \in Seq(Nat) /\ n \in 0..Len(buf) /\ IsLoc(loc) /\ loc.remain \in 0..n
      /\ loc.remain # 0 => n # loc.last
      /\ up \in Seq(Nat) /\ AllSent \in Seq(Nat)
  BY <1>0, AllSentType DEF IInv, HearInv, Hearing, UpInv
<1>2. ~Tried => Heard(buf, n, loc.remain, up, AllSent)
  BY <1>0 DEF JInv, LeftInv
<1>a. AllSent' = AllSent
  BY <1>0 DEF AllSent, Count, clientVars
<1>3. CASE NotAuthed(buf, n)
  BY <1>0, <1>1, <1>3, NotAuthedLeft
<1>7. ASSUME ~Tried, m \in {AUTH_NONE, AUTH_PASSWORD}
      PROVE  /\ replied \in Seq(Nat) /\ n \in 0..Len(replied) /\ Asked(replied, n, loc.remain, up, AllSent)
  <2>1. m \in Nat
    BY <1>7 DEF AUTH_NONE, AUTH_PASSWORD
  <2> HIDE DEF m
  <2>2. replied \in Seq(Nat) /\ Len(replied) = Len(buf)
    BY <1>1, <2>1, RepliedBuffer
  <2>3. Asked(buf, n, loc.remain, up, AllSent) /\ (loc.remain # 0 => n - loc.remain >= 2)
    BY <1>1, <1>2, <1>7, HeardAsked
  <2>4. Asked(replied, n, loc.remain, up, AllSent)
    BY <1>1, <2>1, <2>3, AskedReplied
  <2>5. QED
    BY <1>1, <2>2, <2>4
<1>4. CASE /\ ~Usable(m)
           /\ NextMethod(loc.seen \cup ({m} \cap {AUTH_NONE, AUTH_PASSWORD}))
           /\ UNCHANGED <<down, pc, buf, n, res>>
  <2> DEFINE seen == loc.seen \cup ({m} \cap {AUTH_NONE, AUTH_PASSWORD})
  <2>1. loc' = [loc EXCEPT !.i = @ + 1, !.seen = seen]
    BY <1>4 DEF NextMethod
  <2>2. loc.seen \subseteq seen
    OBVIOUS
  <2> HIDE DEF seen
  <2>3. loc'.remain = loc.remain /\ loc'.seen = seen
    BY <1>1, <2>1 DEF IsLoc
  <2>4. Tried => Tried'
    BY <1>0, <2>2, <2>3 DEF Tried
  <2>5. LeftInv'
    BY <1>0, <1>2, <1>4, <1>a, <2>3, <2>4 DEF LeftInv
  <2>6. MuteInv' /\ pc' # "done"
    BY <1>0, <1>4 DEF MuteInv
  <2>7. QED
    BY <2>5, <2>6, Continues
<1>5. CASE m \notin loc.seen /\ Usable(m) /\ m = AUTH_NONE /\ ToCommand(replied, n, loc.remain, NoUser)
  <2>1. ~Tried
    BY <1>5 DEF Usable, Tried, AUTH_NONE, AUTH_PASSWORD
  <2>2. replied \in Seq(Nat) /\ n \in 0..Len(replied) /\ Asked(replied, n, loc.remain, up, AllSent)
    BY <1>5, <1>7, <2>1
  <2> HIDE DEF replied, m
  <2>3. Ready(AllSent, LastOf(replied, n, loc.remain) \o up')
    <3>1. Greeted(AllSent, LastOf(replied, n, loc.remain) \o up)
      BY <2>2 DEF Asked
    <3>2. QED
      BY <1>0, <1>1, <3>1, GreetedReady
  <2>4. QED
    BY <1>0, <1>1, <1>5, <2>2, <2>3, ToCommandLeft
<1>6. CASE /\ m \notin loc.seen /\ Usable(m) /\ m = AUTH_PASSWORD
           /\ pc' = IF n = loc.last THEN "read_auth" ELSE "auth"
           /\ buf' = replied
           /\ loc' = [loc EXCEPT !.seen = @ \cup {m}]
           /\ UNCHANGED <<n, res>>
  <2>1. ~Tried
    BY <1>6 DEF Tried
  <2>2. replied \in Seq(Nat) /\ n \in 0..Len(replied) /\ Asked(replied, n, loc.remain, up, AllSent)
    BY <1>6, <1>7, <2>1
  <2>3. loc'.remain = loc.remain /\ AUTH_PASSWORD \in loc'.seen
    BY <1>1, <1>6 DEF IsLoc
  <2>4. Tried'
    BY <1>0, <1>6, <2>3 DEF Tried, Usable
  <2>a. buf' = replied /\ n' = n /\ pc' = IF n = loc.last THEN "read_auth" ELSE "auth"
    BY <1>6
  <2> HIDE DEF replied, m
  <2>5. n = loc.last => Greeted(AllSent, up)
    <3>1. ASSUME n = loc.last PROVE Greeted(AllSent, up)
      <4>1. loc.remain = 0
        BY <1>1, <3>1
      <4>2. LastOf(replied, n, 0) = <<>> /\ <<>> \o up = up
        BY <1>1, <2>2, LastOfAll
      <4>3. Greeted(AllSent, LastOf(replied, n, loc.remain) \o up)
        BY <2>2 DEF Asked
      <4>4. QED
        BY <4>1, <4>2, <4>3
    <3>2. QED
      BY <3>1
  <2>6. LeftInv'
    BY <1>0, <1>a, <2>2, <2>3, <2>4, <2>a, <2>5 DEF LeftInv
  <2>7. MuteInv' /\ pc' # "done"
    BY <2>a DEF MuteInv
  <2>8. QED
    BY <2>6, <2>7, Continues
<1>8. QED
  BY <1>3, <1>4, <1>5, <1>6 DEF Method

LEMMA AuthLeft ==
  ASSUME IInv, JInv, UNCHANGED <<ses, clientVars>>, pc \in {"auth", "read_auth"},
         NEW b \in Seq(Nat), NEW k \in 0..Len(b),
         NEW a \in Seq(Nat), NEW remain \in 0..k, Auth(b, k, a, remain), up' \in Seq(Nat), Tried,
         NEW e \in {3, MethodsEnd(AllSent)}, a \o up' = Drop(AllSent, e),
         Greeted(AllSent, LastOf(b, k, remain) \o up'), k # 0 => b[1] \in {VERSION5, a[1]}
  PROVE  JInv'
<1> DEFINE ul == a[2]
           pl == a[3 + ul]
           L == 3 + ul + pl
           u == <<SubSeq(a, 3, 2 + ul), SubSeq(a, 4 + ul, L)>>
<1>1. IsLoc(loc) /\ pc # "done" /\ AllSent' = AllSent /\ AllSent \in Seq(Nat)
  BY AllSentType DEF IInv, HearInv, Hearing, AllSent, Count, clientVars
<1>2. \/ Fail(Panicked)
      \/ NextMethod(loc.seen) /\ pc' = "methods"
      \/ /\ ~(Len(a) < 5) /\ ~(a[1] # 1) /\ ~(Len(a) < 3 + ul) /\ ~(Len(a) < L) /\ ~(remain < L)
         /\ ToCommand(b, k, remain - L, u)
      \/ ~(a[1] # 1) /\ Return(Ebc(Take(b, k)))
  BY Zenon DEF Auth
<1>0. L = NameLen(a) /\ ul = a[2]
  BY DEF NameLen
<1> HIDE DEF ul, pl, L, u
<1>3. CASE Fail(Panicked)
  BY <1>1, <1>3, Errs DEF Fail
<1>4. CASE NextMethod(loc.seen) /\ pc' = "methods"
  <2>1. loc'.seen = loc.seen
    BY <1>1, <1>4 DEF NextMethod, IsLoc
  <2>2. Tried'
    BY <2>1 DEF Tried
  <2>3. LeftInv' /\ MuteInv' /\ pc' # "done"
    BY <1>4, <2>2 DEF LeftInv, MuteInv
  <2>4. QED
    BY <2>3, Continues
<1>5. CASE /\ ~(Len(a) < 5) /\ ~(a[1] # 1) /\ ~(Len(a) < 3 + ul) /\ ~(Len(a) < L) /\ ~(remain < L)
           /\ ToCommand(b, k, remain - L, u)
  <2>a. Len(a) \in Nat /\ a[2] \in Nat
    <3>1. Len(a) \in Nat
      OBVIOUS
    <3>2. 2 \in 1..Len(a)
      BY <1>5, <3>1
    <3>3. QED
      BY <3>1, <3>2
  <2>1. Len(a) >= 2 /\ Len(a) >= 3 + a[2]
    <3>1. ~(Len(a) < 5) /\ ~(Len(a) < 3 + a[2])
      BY <1>0, <1>5, Zenon
    <3>2. \A x, y \in Nat : ~(x < 5) /\ ~(x < 3 + y) => x >= 2 /\ x >= 3 + y
      OBVIOUS
    <3>3. QED
      BY <2>a, <3>1, <3>2
  <2>2. L \in Nat
    BY <1>0, <2>1, NameLenIs
  <2>3. IsName(a)
    <3>1. Len(a) >= L
      BY <1>5, <2>2, <2>a
    <3>2. QED
      BY <1>0, <1>5, <2>1, <3>1 DEF IsName
  <2> DEFINE p == remain - L
  <2>4. p \in 0..remain /\ p \in 0..k /\ remain - p = L /\ L \in 0..remain
    <3>1. remain \in Nat /\ k \in Nat /\ remain <= k /\ ~(remain < L)
      BY <1>5
    <3>2. QED
      BY <2>2, <3>1
  <2> HIDE DEF p
  <2> DEFINE r == LastOf(b, k, remain) \o up'
  <2>5. LastOf(b, k, p) \o up' = Drop(r, L) /\ L \in 0..Len(r)
    <3>1. LastOf(b, k, p) \o up' = Drop(r, remain - p) /\ remain - p \in 0..Len(r)
      BY <2>4, LastOfDrop, ZenonT(30)
    <3> HIDE DEF r
    <3>2. QED
      BY <2>4, <3>1
  <2>6. Greeted(AllSent, r)
    OBVIOUS
  <2> HIDE DEF r
  <2>7. Ready(AllSent, Drop(r, L))
    <3>1. NameLen(a) <= Len(r)
      BY <1>0, <2>5
    <3>2. Ready(AllSent, Drop(r, NameLen(a)))
      BY <1>1, <2>3, <2>6, <3>1, NamedReady
    <3>3. QED
      BY <1>0, <3>2
  <2>8. ToCommand(b, k, p, u) /\ Ready(AllSent, LastOf(b, k, p) \o up')
    BY <1>5, <2>5, <2>7 DEF p
  <2>9. QED
    BY <2>4, <2>8, ToCommandLeft
<1>6. CASE ~(a[1] # 1) /\ Return(Ebc(Take(b, k)))
  <2> DEFINE t == Take(b, k)
  <2>1. t \in Seq(Nat) /\ Len(t) = k /\ \A i \in 1..k : t[i] = b[i]
    BY TakeIs
  <2> HIDE DEF t
  <2>2. Mute(t)
    <3>1. CASE k = 0
      BY <2>1, <3>1 DEF Mute
    <3>2. CASE k # 0
      <4>1. 1 \in 1..k
        BY <3>2
      <4>2. t[1] \in {VERSION5, 1}
        BY <1>6, <2>1, <3>2, <4>1
      <4>3. QED
        BY <4>2 DEF Mute, VERSION5, GET, CONNECT
    <3>3. QED
      BY <3>1, <3>2
  <2>3. Return(Ebc(t))
    BY <1>6 DEF t
  <2>4. QED
    BY <1>1, <2>2, <2>3, Refuses
<1>7. QED
  BY <1>2, <1>3, <1>4, <1>5, <1>6

\* What was read in one piece, and what is left in the stream.
LEMMA ReadLeft ==
  ASSUME up \in Seq(Nat), NEW b \in Seq(Nat),
         NEW k \in 0..Len(up), k <= Len(b), up' = Drop(up, k)
  PROVE  /\ ReadInto(b, 0, k) \in Seq(Nat) /\ Len(ReadInto(b, 0, k)) = Len(b) /\ k \in 0..Len(ReadInto(b, 0, k))
         /\ Take(ReadInto(b, 0, k), k) = Take(up, k) /\ Take(up, k) \o up' = up
         /\ Take(ReadInto(b, 0, k), k) \o up' = up
         /\ LastOf(ReadInto(b, 0, k), k, k) \o up' = up
         /\ k # 0 => ReadInto(b, 0, k)[1] = Take(up, k)[1]
<1> DEFINE c == ReadInto(b, 0, k)
<1>1. c \in Seq(Nat) /\ Len(c) = Len(b) /\ Take(c, k) = Take(up, k)
  BY ReadStart
<1> HIDE DEF c
<1>2. k \in 0..Len(c)
  BY <1>1
<1>3. Take(up, k) \o up' = up
  BY TakeDrop
<1>4. LastOf(c, k, k) = Take(c, k)
  BY <1>1, <1>2, LastOfAll
<1>5. k # 0 => c[1] = Take(up, k)[1]
  <2>1. \A i \in 1..k : Take(c, k)[i] = c[i]
    BY <1>1, <1>2, TakeIs
  <2>2. k # 0 => 1 \in 1..k
    OBVIOUS
  <2>3. QED
    BY <1>1, <2>1, <2>2
<1>6. QED
  BY <1>1, <1>2, <1>3, <1>4, <1>5 DEF c

LEMMA ReadAuthLeft ==
  ASSUME IInv, JInv, ReadAuth, UNCHANGED out
  PROVE  JInv'
<1>0. pc \in {"auth", "read_auth"} /\ UNCHANGED <<ses, clientVars, out>> /\ UNCHANGED <<ses, clientVars>> /\ pc # "done"
  BY DEF ReadAuth
<1>1. /\ buf \in Seq(Nat) /\ n \in 0..Len(buf) /\ loc.remain \in 0..n /\ n \in Nat /\ Len(buf) \in Nat
  BY <1>0 DEF IInv, HearInv, Hearing
<1>2. /\ pc = "auth" => Tried /\ Asked(buf, n, loc.remain, up, AllSent)
      /\ pc = "read_auth" => Tried /\ Greeted(AllSent, up)
  BY DEF JInv, LeftInv
<1>a. up \in Seq(Nat) /\ AllSent \in Seq(Nat)
  BY AllSentType DEF IInv, UpInv
<1>3. CASE pc = "auth" /\ Auth(buf, n, SubSeq(buf, 4, n), loc.remain) /\ UNCHANGED <<up, cuts>>
  <2> DEFINE a == SubSeq(buf, 4, n)
  <2>1. a \in Seq(Nat) /\ up' \in Seq(Nat) /\ up' = up
    BY <1>1, <1>3, <1>a
  <2>2. Auth(buf, n, a, loc.remain)
    BY <1>3
  <2>3. /\ buf[1] = VERSION5 /\ a \o up' = Drop(AllSent, 3)
        /\ Greeted(AllSent, LastOf(buf, n, loc.remain) \o up')
    BY <1>2, <1>3 DEF Asked
  <2> HIDE DEF a
  <2>4. 3 \in {3, MethodsEnd(AllSent)}
    OBVIOUS
  <2>5. QED
    BY <1>0, <1>1, <1>2, <1>3, <2>1, <2>2, <2>3, <2>4, AuthLeft
<1>4. ASSUME pc = "read_auth", NEW k \in Takes(up, Len(buf), ClientClosed),
             Auth(ReadInto(buf, 0, k), k, Take(up, k), k), Consume(k, Len(buf))
      PROVE  JInv'
  <2> DEFINE b == ReadInto(buf, 0, k)
             a == Take(up, k)
  <2>1. k \in 0..Len(up) /\ k <= Len(buf) /\ up' = Drop(up, k) /\ up' \in Seq(Nat)
    BY <1>0, <1>1, <1>4, Consumed
  <2>2. /\ b \in Seq(Nat) /\ k \in 0..Len(b) /\ a \o up' = up
        /\ LastOf(b, k, k) \o up' = up /\ (k # 0 => b[1] = a[1])
    BY <1>1, <1>a, <2>1, ReadLeft
  <2>3. a \in Seq(Nat) /\ k \in 0..k
    BY <1>a, <2>1, TakeIs
  <2>4. Auth(b, k, a, k)
    BY <1>4
  <2>5. Tried /\ Greeted(AllSent, up) /\ up = Drop(AllSent, MethodsEnd(AllSent))
    BY <1>2, <1>4 DEF Greeted
  <2> HIDE DEF a, b
  <2>6. /\ MethodsEnd(AllSent) \in {3, MethodsEnd(AllSent)} /\ a \o up' = Drop(AllSent, MethodsEnd(AllSent))
        /\ Greeted(AllSent, LastOf(b, k, k) \o up') /\ (k # 0 => b[1] \in {VERSION5, a[1]})
    BY <2>2, <2>5
  <2>7. QED
    BY <1>0, <2>1, <2>2, <2>3, <2>4, <2>5, <2>6, AuthLeft
<1>5. QED
  BY <1>3, <1>4 DEF ReadAuth

\* The command: the address it names, and what follows it.
LEMMA CommandLeft ==
  ASSUME IInv, JInv, UNCHANGED <<ses, clientVars>>, pc = "command",
         NEW b \in Seq(Nat), NEW k \in 0..Len(b),
         up' \in Seq(Nat), Ready(AllSent, Take(b, k) \o up'), Command(b, k)
  PROVE  JInv'
<1> DEFINE end == AddrEnd(b)
           addr == SubSeq(b, 4, end)
           rest == SubSeq(b, end + 1, k)
           GoOn(at) == /\ down' = down \o REPLY
                       /\ pc' = at /\ buf' = Zeros(Len(b) - end) /\ n' = 0
                       /\ loc' = [loc EXCEPT !.addr = addr]
                       /\ UNCHANGED res
           Read == ~(k < 7) /\ b[1] = VERSION5 /\ b[2] \in {CMD_CONNECT, CMD_UDP_ASSOCIATE} /\ end # 0 /\ k >= end
<1>1. \/ Return(Ebc(Take(b, k)))
      \/ Return(Panicked)
      \/ Read /\ b[2] = CMD_CONNECT /\ rest = <<>> /\ GoOn("early")
      \/ Read /\ b[2] = CMD_CONNECT /\ Return(NewC(addr, rest, loc.user))
      \/ Read /\ GoOn("associate")
      \/ Read /\ b[2] # CMD_CONNECT /\ Return(Ebc(rest))
  BY Zenon DEF Command, Fail, Whole
<1>2. /\ pc # "done" /\ IsLoc(loc) /\ ses.server # "trojan" /\ AllSent \in Seq(Nat)
      /\ AllSent' = AllSent /\ ses' = ses
  BY AllSentType DEF IInv, UserInv, PcInv, Heading, Socks, AllSent, Count, clientVars
<1>3. k \in Nat /\ Len(b) \in Nat /\ k <= Len(b)
  OBVIOUS
<1>4. ASSUME Read
      PROVE  Complete(b, k, end) /\ Len(b) - end \in Int /\ rest \in Seq(Nat)
  <2>1. 7 <= Len(b) /\ AddrEnd(b) # 0 /\ 7 <= k
    BY <1>3, <1>4
  <2>2. end \in Nat /\ end >= 7
    BY <2>1, AddrEndIs
  <2>a. k >= end /\ end = AddrEnd(b) /\ end # 0
    BY <1>4
  <2> HIDE DEF end
  <2>3. end <= k /\ end + 1 \in Nat \ {0} /\ end + 1 <= k + 1 /\ Len(b) - end \in Int
    BY <1>3, <2>2, <2>a
  <2>4. rest \in Seq(Nat)
    BY <1>3, <2>3, SubSeqIs
  <2>5. QED
    BY <2>1, <2>a, <2>3, <2>4 DEF Complete
<1>5. ASSUME Read, b[2] = CMD_CONNECT
      PROVE  RequestOf(ses, AllSent, rest \o up', addr)
  <2>1. Complete(b, k, end) /\ b[1] = VERSION5
    BY <1>4, <1>5
  <2> HIDE DEF end
  <2>2. QED
    BY <1>2, <1>5, <2>1, CommandRequest
<1>a. ASSUME Foreign, Read, b[2] # CMD_CONNECT
      PROVE  Mute(rest)
  <2>1. Complete(b, k, end) /\ rest \in Seq(Nat) /\ b[2] = CMD_UDP_ASSOCIATE /\ end # 0
    BY <1>4, <1>a
  <2> HIDE DEF end
  <2>2. end \in Nat /\ end >= 7 /\ k \in Nat /\ \E d \in 0..Len(AllSent) : Places(AllSent, d, b, k, end, rest \o up')
    BY <1>2, <2>1, CommandIs
  <2> HIDE DEF rest
  <2>3. PICK d \in 0..Len(AllSent) : Places(AllSent, d, b, k, end, rest \o up')
    BY <2>2
  <2>4. /\ d \in 0..Len(AllSent) - 7 /\ d + end \in 0..Len(AllSent) /\ CommandAt(AllSent, d)
        /\ AddrEnd(Drop(AllSent, d)) = end /\ (\A x \in 1..k : b[x] = AllSent[d + x])
        /\ rest \o up' = Drop(AllSent, d + end)
    BY <2>3, Zenon DEF Places
  <2>5. 2 \in 1..k
    BY <2>1, <2>2 DEF Complete
  <2>6. AllSent[d + 2] = CMD_UDP_ASSOCIATE
    BY <2>1, <2>4, <2>5
  <2>7. Turns(ses, AllSent, d + end)
    BY <2>1, <2>4, <2>6, Zenon DEF Turns
  <2>8. QED
    BY <1>a, <2>1, <2>4, <2>7, MuteStart
<1>b. Foreign => Mute(Take(b, k))
  <2>1. PICK d \in 0..Len(AllSent) : CommandAt(AllSent, d) /\ Take(b, k) \o up' = Drop(AllSent, d)
    BY DEF Ready
  <2>2. Turns(ses, AllSent, d)
    BY <2>1, Zenon DEF Turns
  <2>3. Take(b, k) \in Seq(Nat)
    BY TakeIs
  <2>4. QED
    BY <2>1, <2>2, <2>3, MuteStart
<1> HIDE DEF end, addr, rest, Read
<1>6. CASE Return(Ebc(Take(b, k)))
  BY <1>2, <1>6, <1>b, Refuses
<1>7. CASE Return(Panicked)
  BY <1>2, <1>7, Errs
<1>8. CASE Read /\ b[2] = CMD_CONNECT /\ rest = <<>> /\ GoOn("early")
  <2>1. RequestOf(ses, AllSent, up', addr)
    <3>1. <<>> \o up' = up'
      OBVIOUS
    <3>2. QED
      BY <1>5, <1>8, <3>1
  <2>2. loc'.addr = addr /\ pc' = "early" /\ buf' = Zeros(Len(b) - end)
    BY <1>2, <1>8 DEF IsLoc
  <2>3. Zeros(Len(b) - end) = Zeros(Len(Zeros(Len(b) - end)))
    BY <1>4, <1>8, ZerosSame
  <2>4. LeftInv'
    BY <1>2, <2>1, <2>2, <2>3 DEF LeftInv
  <2>5. MuteInv' /\ pc' # "done"
    BY <2>2 DEF MuteInv
  <2>6. QED
    BY <2>4, <2>5, Continues
<1>9. CASE Read /\ b[2] = CMD_CONNECT /\ Return(NewC(addr, rest, loc.user))
  <2> DEFINE r == NewC(addr, rest, loc.user)
  <2>1. r.a = addr /\ r.b = rest /\ r.e = "ok"
    BY DEF NewC, Result
  <2> HIDE DEF r
  <2>2. Given(up', r)
    BY <1>2, <1>4, <1>5, <1>9, <2>1 DEF Given
  <2>3. Return(r) /\ r.e # "err"
    BY <1>9, <2>1 DEF r
  <2>4. QED
    BY <1>2, <2>2, <2>3, Concludes
<1>10. CASE Read /\ GoOn("associate")
  <2>1. pc' = "associate"
    BY <1>10
  <2>2. LeftInv' /\ MuteInv' /\ pc' # "done"
    BY <2>1 DEF LeftInv, MuteInv
  <2>3. QED
    BY <2>2, Continues
<1>11. CASE Read /\ b[2] # CMD_CONNECT /\ Return(Ebc(rest))
  BY <1>2, <1>11, <1>a, Refuses
<1>12. QED
  BY <1>1, <1>6, <1>7, <1>8, <1>9, <1>10, <1>11

LEMMA ReadCommandLeft ==
  ASSUME IInv, JInv, ReadCommand, UNCHANGED out
  PROVE  JInv'
<1>0. pc = "command" /\ UNCHANGED <<ses, clientVars, out>> /\ UNCHANGED <<ses, clientVars>> /\ pc # "done"
  BY DEF ReadCommand
<1>1. buf \in Seq(Nat) /\ n \in 0..Len(buf) /\ Len(buf) \in Nat /\ up \in Seq(Nat)
  BY <1>0 DEF IInv, BufInv, Heading, UpInv
<1>2. Ready(AllSent, Take(buf, n) \o up)
  BY <1>0 DEF JInv, LeftInv
<1>3. CASE Command(buf, n) /\ UNCHANGED <<up, cuts>>
  <2>1. up' = up /\ up' \in Seq(Nat)
    BY <1>1, <1>3
  <2>2. QED
    BY <1>0, <1>1, <1>2, <1>3, <2>1, CommandLeft
<1>4. ASSUME ~(n > 0), NEW k \in Takes(up, Len(buf), ClientClosed), Command(ReadInto(buf, 0, k), k), Consume(k, Len(buf))
      PROVE  JInv'
  <2> DEFINE b == ReadInto(buf, 0, k)
  <2>1. k \in 0..Len(up) /\ k <= Len(buf) /\ up' = Drop(up, k) /\ up' \in Seq(Nat)
    BY <1>0, <1>1, <1>4, Consumed
  <2>2. b \in Seq(Nat) /\ k \in 0..Len(b) /\ Take(b, k) \o up' = up
    BY <1>1, <2>1, ReadLeft
  <2>3. Ready(AllSent, up)
    <3>1. n = 0
      BY <1>1, <1>4
    <3>2. Take(buf, 0) = <<>> /\ <<>> \o up = up
      BY <1>1 DEF Take
    <3>3. QED
      BY <1>2, <3>1, <3>2
  <2>4. Command(b, k)
    BY <1>4
  <2> HIDE DEF b
  <2>5. QED
    BY <1>0, <2>1, <2>2, <2>3, <2>4, CommandLeft
<1>5. QED
  BY <1>3, <1>4 DEF ReadCommand

\* The early data, or the buffer of zeros where there is none.
LEMMA EarlyLeft ==
  ASSUME IInv, JInv, UNCHANGED out,
         \/ ReadEarly \/ NoEarly
         \/ \E dg \in ses.dgrams : FirstDatagram(dg)
         \/ NoDatagram
  PROVE  JInv'
<1>0. pc \in {"early", "associate"} /\ UNCHANGED <<ses, clientVars, out>> /\ UNCHANGED <<ses, clientVars>> /\ pc # "done"
  BY DEF ReadEarly, NoEarly, FirstDatagram, NoDatagram
<1>1. /\ buf \in Seq(Nat) /\ Len(buf) \in Nat /\ up \in Seq(Nat) /\ ses.server # "trojan"
      /\ pc = "early" => RequestOf(ses, AllSent, up, loc.addr) /\ buf = Zeros(Len(buf))
  BY <1>0 DEF IInv, BufInv, UpInv, PcInv, Heading, Socks, JInv, LeftInv
<1>2. ASSUME NEW b, NEW r, pc = "early", r = NewC(loc.addr, b, loc.user), Return(r), b \in Seq(Nat),
             RequestOf(ses, AllSent, b \o up', loc.addr) \/ (RequestOf(ses, AllSent, up', loc.addr) /\ b = Zeros(Len(b)))
      PROVE  JInv'
  <2>1. r.a = loc.addr /\ r.b = b /\ r.e = "ok"
    BY <1>2 DEF NewC, Result
  <2>2. Given(up', r)
    BY <1>1, <1>2, <2>1 DEF Given
  <2>3. QED
    BY <1>0, <1>2, <2>1, <2>2, Concludes
<1>3. CASE ReadEarly
  <2>1. PICK k \in Takes(up, Len(buf), ClientClosed) : Return(NewC(loc.addr, Take(up, k), loc.user)) /\ Consume(k, Len(buf))
    BY <1>3 DEF ReadEarly
  <2>2. k \in 0..Len(up) /\ up' = Drop(up, k) /\ pc = "early"
    BY <1>0, <1>1, <1>3, <2>1, Consumed DEF ReadEarly
  <2>3. Take(up, k) \o up' = up /\ Take(up, k) \in Seq(Nat)
    BY <1>1, <2>2, TakeDrop, TakeIs
  <2>4. QED
    BY <1>1, <1>2, <2>1, <2>2, <2>3
<1>4. CASE NoEarly
  <2>1. Return(NewC(loc.addr, buf, loc.user)) /\ up' = up /\ pc = "early"
    BY <1>4 DEF NoEarly, wireVars
  <2>2. QED
    BY <1>1, <1>2, <2>1
<1>5. ASSUME NEW dg \in ses.dgrams, FirstDatagram(dg) PROVE JInv'
  <2> DEFINE r == IF loc.addr[1] = ATYP_DOMAIN THEN Panicked
                  ELSE IF ~Unspecified(loc.addr) /\ Host(dg.from) # Host(loc.addr) THEN Err
                  ELSE IF dg.to = NoAddr THEN Err
                  ELSE NewU(dg.to, dg.data, loc.user)
  <2>1. Return(r)
    BY <1>5, Zenon DEF FirstDatagram
  <2>2. r = Panicked \/ r = Err \/ r = NewU(dg.to, dg.data, loc.user)
    OBVIOUS
  <2> HIDE DEF r
  <2>3. CASE r = Panicked \/ r = Err
    BY <1>0, <2>1, <2>3, Errs
  <2>4. CASE r = NewU(dg.to, dg.data, loc.user)
    <3>1. r.e = "ok" /\ ~Connects(r)
      BY <2>4 DEF NewU, Result, Connects
    <3>2. QED
      BY <1>0, <2>1, <3>1, Concludes
  <2>5. QED
    BY <2>2, <2>3, <2>4
<1>6. CASE NoDatagram
  <2>1. Return(Err)
    BY <1>6 DEF NoDatagram
  <2>2. QED
    BY <1>0, <2>1, Errs
<1>7. QED
  BY <1>3, <1>4, <1>5, <1>6

-----------------------------------------------------------------------------
(* ... in the http proxy and the filter, and in trojan *)

\* Only what speaks http is served by them.
LEMMA ReadHttpLeft ==
  ASSUME IInv, JInv, ReadHttp, UNCHANGED out
  PROVE  JInv'
<1>0. pc \in {"http", "given"} /\ UNCHANGED <<ses, clientVars, out>> /\ UNCHANGED <<ses, clientVars>> /\ pc # "done"
  BY DEF ReadHttp
<1>1. ses.server # "trojan"
  BY <1>0 DEF IInv, PcInv, Socks, Servers
<1>a. pc = "http" =>
        /\ AllSent = ses.pre \o up /\ (ses.pre # <<>> => buf = ses.pre)
        /\ ses.pre \in Seq(Nat) /\ up \in Seq(Nat) /\ Len(buf) \in Nat
  BY <1>1, AllSentType DEF IInv, UpInv, QuietInv, BufInv, Servers
<1>2. ASSUME NEW b, Foreign => Mute(b), Http(b) PROVE JInv'
  <2> DEFINE r == Parse(b, TRUE)
  <2>1. \/ Return(Ebc(b))
        \/ Return(Panicked)
        \/ r.ok /\ Return(NewC(IF r.path = 0 THEN EmptyName ELSE <<r.path>>, <<>>, NoUser))
        \/ r.ok /\ Return(NewC(<<r.path>>, Take(b, r.body_start_index), NoUser))
    BY <1>2, Zenon DEF Http
  <2>2. r.ok => ses.speaks = "http"
    BY <1>1, <1>2, NoRequest DEF Foreign
  <2> HIDE DEF r
  <2>3. CASE Return(Ebc(b))
    BY <1>0, <1>2, <2>3, Refuses
  <2>4. CASE Return(Panicked)
    BY <1>0, <2>4, Errs
  <2>5. ASSUME NEW x, NEW y, r.ok, Return(NewC(x, y, NoUser)) PROVE JInv'
    <3> DEFINE q == NewC(x, y, NoUser)
    <3>1. q.e = "ok" /\ ~Connects(q)
      BY <2>2, <2>5 DEF NewC, Result, Connects
    <3>2. Return(q)
      BY <2>5
    <3> HIDE DEF q
    <3>3. QED
      BY <1>0, <3>1, <3>2, Concludes
  <2>6. QED
    BY <2>1, <2>3, <2>4, <2>5
<1>3. CASE (pc = "given" \/ (pc = "http" /\ ses.pre # <<>>)) /\ Http(buf)
  <2>1. CASE pc = "given"
    BY <1>2, <1>3, <2>1 DEF JInv, MuteInv
  <2>2. CASE pc = "http" /\ ses.pre # <<>>
    <3>1. Foreign => Mute(buf)
      BY <1>a, <2>2, MuteFirst
    <3>2. QED
      BY <1>2, <1>3, <3>1
  <2>3. QED
    BY <1>3, <2>1, <2>2
<1>4. ASSUME pc = "http", ses.pre = <<>>,
             NEW k \in Takes(up, Len(buf), ClientClosed), Http(Take(up, k)), Consume(k, Len(buf))
      PROVE  JInv'
  <2>1. k \in 0..Len(up) /\ up \in Seq(Nat)
    BY <1>0, <1>4, <1>a, Consumed
  <2>2. Take(up, k) \in Seq(Nat) /\ Drop(up, k) \in Seq(Nat) /\ Take(up, k) \o Drop(up, k) = up
    BY <2>1, TakeIs, DropIs, TakeDrop
  <2>3. <<>> \o up = up
    BY <2>1
  <2>4. Foreign => Mute(Take(up, k))
    BY <1>4, <1>a, <2>2, <2>3, MuteFirst
  <2>5. QED
    BY <1>2, <1>4, <2>4
<1>5. QED
  BY <1>3, <1>4 DEF ReadHttp

LEMMA ReadFilterLeft ==
  ASSUME IInv, JInv, ReadFilter, UNCHANGED out
  PROVE  JInv'
<1>0. pc = "filter" /\ UNCHANGED <<ses, clientVars, out>> /\ UNCHANGED <<ses, clientVars>> /\ pc # "done"
  BY DEF ReadFilter
<1>a. ses.server # "trojan" /\ pc \in Servers /\ Len(buf) \in Nat /\ up = Sent
  BY <1>0 DEF IInv, PcInv, BufInv, QuietInv, Servers
<1>1. AllSent = ses.pre \o up /\ ses.pre \in Seq(Nat) /\ up \in Seq(Nat)
  BY <1>a, AllSentType DEF IInv, UpInv
<1>2. PICK k \in Takes(up, Len(buf), ClientClosed) : Filter(Take(up, k)) /\ Consume(k, Len(buf))
  BY DEF ReadFilter
<1>3. k \in 0..Len(up)
  BY <1>0, <1>a, <1>2, Consumed
<1>4. Foreign => Mute(Take(up, k))
  <2> DEFINE d == Len(ses.pre)
  <2>1. d \in 0..Len(AllSent) /\ Drop(AllSent, d) = up
    <3>1. d \in 0..d /\ Drop(ses.pre, d) = <<>>
      <4>1. d \in Nat /\ d \in 0..d /\ d - d = 0
        BY <1>1
      <4>2. Drop(ses.pre, d) \in Seq(Nat) /\ Len(Drop(ses.pre, d)) = d - d
        BY <1>1, <4>1, DropIs
      <4>3. QED
        BY <4>1, <4>2
    <3>2. Drop(ses.pre \o up, d) = Drop(ses.pre, d) \o up /\ d \in 0..Len(ses.pre \o up)
      BY <1>1, <3>1, DropConcat
    <3>3. <<>> \o up = up
      BY <1>1
    <3>4. QED
      BY <1>1, <3>1, <3>2, <3>3
  <2>2. Turns(ses, AllSent, d)
    BY DEF Turns
  <2>3. Take(up, k) \in Seq(Nat) /\ Drop(up, k) \in Seq(Nat) /\ Take(up, k) \o Drop(up, k) = up
    BY <1>1, <1>3, TakeIs, DropIs, TakeDrop
  <2> HIDE DEF d
  <2>4. QED
    BY <2>1, <2>2, <2>3, MuteStart
<1> DEFINE b == Take(up, k)
           r == Parse(b, FALSE)
<1>5. Return(Err) \/ (r.ok /\ Return(Ebc(b))) \/ (r.ok /\ Return(NewC(NoAddr, b, NoUser)))
  BY <1>2, Zenon DEF Filter
<1>6. r.ok => ses.speaks = "http"
  BY <1>a, <1>4, NoRequest DEF Foreign
<1> HIDE DEF r, b
<1>7. CASE Return(Err)
  BY <1>0, <1>7, Errs
<1>8. CASE r.ok /\ Return(Ebc(b))
  <2>1. ~Foreign
    BY <1>6, <1>8 DEF Foreign
  <2>2. QED
    BY <1>0, <1>8, <2>1, Refuses
<1>9. CASE r.ok /\ Return(NewC(NoAddr, b, NoUser))
  <2> DEFINE q == NewC(NoAddr, b, NoUser)
  <2>1. q.e = "ok" /\ ~Connects(q)
    BY <1>6, <1>9 DEF NewC, Result, Connects
  <2>2. Return(q)
    BY <1>9
  <2> HIDE DEF q
  <2>3. QED
    BY <1>0, <2>1, <2>2, Concludes
<1>10. QED
  BY <1>5, <1>7, <1>8, <1>9

LEMMA UdpNeverConnects ==
  ASSUME NEW a, NEW u, NEW e
  PROVE  ~Connects(Udp(a, u, e))
<1>1. \/ \E t, d : Udp(a, u, e) = NewU(t, d, u)
      \/ Udp(a, u, e) = Panicked
      \/ Udp(a, u, e) = Err
  BY Zenon DEF Udp
<1>2. QED
  BY <1>1 DEF NewU, Panicked, Err, BufErr, Result, Connects

LEMMA HeadConnects ==
  ASSUME NEW b, NEW k, Connects(HandleHead(b, k))
  PROVE  LET s == SubSeq(b, PassLen + 4, k)
             al == AddrLen(s)
         IN  /\ HandleHead(b, k).a = Take(s, al) /\ HandleHead(b, k).b = Drop(s, al + 2)
             /\ ~(k < PassLen + 9) /\ b[PassLen + 3] = CMD_CONNECT /\ al # 0 /\ ~(Len(s) < al + 2)
<1> DEFINE r == HandleHead(b, k)
           hash == Take(b, PassLen)
           s == SubSeq(b, PassLen + 4, k)
           al == AddrLen(s)
<1>1. \/ r = Err
      \/ \E x : r = Ebc(x) \/ r = BufErr(x)
      \/ \E a, e : r = Udp(a, hash, e)
      \/ /\ ~(k < PassLen + 9) /\ ~(Len(s) < al + 2) /\ al # 0 /\ b[PassLen + 3] = CMD_CONNECT
         /\ r = NewC(Take(s, al), Drop(s, al + 2), hash)
  BY Zenon DEF HandleHead
<1>2. Connects(r)
  OBVIOUS
<1> HIDE DEF r, hash, s, al
<1>3. r # Err /\ \A x : r # Ebc(x) /\ r # BufErr(x)
  BY <1>2 DEF Err, Ebc, BufErr, Result, Connects
<1>4. \A a, e : r # Udp(a, hash, e)
  BY <1>2, UdpNeverConnects
<1>5. /\ ~(k < PassLen + 9) /\ ~(Len(s) < al + 2) /\ al # 0 /\ b[PassLen + 3] = CMD_CONNECT
      /\ r = NewC(Take(s, al), Drop(s, al + 2), hash)
  BY <1>1, <1>3, <1>4
<1>6. r.a = Take(s, al) /\ r.b = Drop(s, al + 2)
  BY <1>5 DEF NewC, Result
<1>7. QED
  BY <1>5, <1>6 DEF r, s, al

\* A head that asks for a connection is followed by no frames.
LEMMA HeadGiven ==
  ASSUME IInv, pc = "trojan", NEW b \in Seq(Nat), NEW last \in 0..Len(b), NEW rest \in Seq(Nat),
         HeadOf = Take(b, last) \o rest, Connects(HandleHead(b, last))
  PROVE  Given(rest, HandleHead(b, last))
<1> DEFINE r == HandleHead(b, last)
           s == SubSeq(b, PassLen + 4, last)
           al == AddrLen(s)
<1>0. ses.server = "trojan" /\ ses \in Sessions /\ ses.speaks # "http" /\ ses.rbuf \in Nat
  BY SessionsAssumption DEF IInv, PcInv, Servers, ClientInv, Connects
<1>1. AllSent \in Seq(Nat) /\ Count \in 0..Len(ses.script)
  BY AllSentType DEF IInv, Script
<1>2. /\ r.a = Take(s, al) /\ r.b = Drop(s, al + 2)
      /\ ~(last < PassLen + 9) /\ b[PassLen + 3] = CMD_CONNECT /\ al # 0 /\ ~(Len(s) < al + 2)
  BY HeadConnects
<1>3. PassLen \in Nat /\ last \in Nat /\ Len(b) \in Nat /\ last <= Len(b)
  BY TrojanAssumption
<1>4. s \in Seq(Nat) /\ Len(s) \in Nat
  <2>1. PassLen + 4 \in Nat \ {0} /\ PassLen + 4 <= last + 1
    BY <1>2, <1>3
  <2>2. s \in Seq(Nat)
    BY <1>3, <2>1, SubSeqIs
  <2>3. QED
    BY <2>2
<1>s. s = SubSeq(b, PassLen + 4, last) /\ al = AddrLen(s)
  OBVIOUS
<1> HIDE DEF r, s, al
<1>5. al \in Nat
  BY <1>2, <1>4, <1>s, AddrLenIs
<1>6. HeadAccepted(b, last, s, al)
  BY <1>2, <1>3, <1>4, <1>5, <1>s DEF HeadAccepted
<1>7. r.b \in Seq(Nat)
  <2>1. al + 2 \in 0..Len(s)
    BY <1>2, <1>4, <1>5
  <2>2. QED
    BY <1>2, <1>4, <2>1, DropIs
<1>8. RequestOf(ses, HeadOf, r.b \o rest, r.a)
  BY <1>0, <1>2, <1>6, HeadRequest
<1>9. HeadLen \in 1..last /\ HeadLen = PassLen + 3 /\ HeadLen \in Nat
  BY <1>2, <1>3 DEF HeadLen
<1>10. /\ HeadOf \in Seq(Nat) /\ Len(HeadOf) = last + Len(rest) /\ \A i \in 1..last : HeadOf[i] = b[i]
  <2>1. Take(b, last) \in Seq(Nat) /\ Len(Take(b, last)) = last /\ \A i \in 1..last : Take(b, last)[i] = b[i]
    BY TakeIs
  <2>2. ASSUME NEW t \in Seq(Nat), t = Take(b, last)
        PROVE  t \o rest \in Seq(Nat) /\ Len(t \o rest) = Len(t) + Len(rest) /\ \A i \in 1..Len(t) : (t \o rest)[i] = t[i]
    BY ConcatIs
  <2>3. QED
    BY <2>1, <2>2
<1>11. ses.rbuf = 0
  <2>1. ASSUME ses.rbuf > 0 PROVE FALSE
    <3>1. HeadOf = AllSent \/ Alike(HeadOf, AllSent)
      BY <1>0 DEF IInv, BegunInv
    <3>2. Len(AllSent) >= PassLen + 3 /\ AllSent[PassLen + 3] = CMD_CONNECT
      <4>0. HeadOf[PassLen + 3] = CMD_CONNECT /\ Len(HeadOf) >= PassLen + 3
        <5>1. HeadOf[PassLen + 3] = CMD_CONNECT
          BY <1>2, <1>9, <1>10
        <5>2. Len(rest) \in Nat
          OBVIOUS
        <5>3. QED
          BY <1>3, <1>9, <1>10, <5>1, <5>2
      <4>1. CASE HeadOf = AllSent
        BY <4>0, <4>1
      <4>2. CASE Alike(HeadOf, AllSent)
        <5>1. HeadLen <= Len(AllSent) /\ \A i \in 1..HeadLen : HeadOf[i] = AllSent[i]
          BY <4>2 DEF Alike
        <5>2. Len(AllSent) \in Nat /\ HeadLen \in 1..HeadLen
          BY <1>1, <1>9
        <5>3. QED
          BY <1>9, <4>0, <5>1, <5>2
      <4>3. QED
        BY <3>1, <4>1, <4>2
    <3>3. Len(AllSent) >= PassLen + 3 => AllSent[PassLen + 3] # CMD_CONNECT
      BY <1>0, <1>1, <2>1, RequestsAssumption, Zenon DEF AllSent
    <3>4. QED
      BY <3>2, <3>3
  <2>2. QED
    BY <1>0, <2>1
<1>12. HeadOf = AllSent
  BY <1>0, <1>11 DEF IInv, BegunInv, Frames
<1>13. Given(rest, r)
  BY <1>7, <1>8, <1>11, <1>12 DEF Given
<1>14. QED
  BY <1>13 DEF r

LEMMA ReadHeadLeft ==
  ASSUME IInv, JInv, ReadHead, UNCHANGED out
  PROVE  JInv'
<1> DEFINE prev == IF ses.pre # <<>> THEN Len(ses.pre) ELSE n
<1>0. pc = "trojan" /\ UNCHANGED <<ses, clientVars, out, down>> /\ UNCHANGED <<ses, clientVars>> /\ pc # "done"
      /\ UNCHANGED <<ses, clientVars, out>>
  BY DEF ReadHead
<1>1. /\ ses.server = "trojan" /\ buf \in Seq(Nat) /\ n \in 0..Len(buf) /\ (ses.pre # <<>> => buf = ses.pre)
      /\ up \in Seq(Nat) /\ Len(buf) \in Nat
  BY <1>0 DEF IInv, PcInv, Servers, BufInv, UpInv, ClientInv
<1>2. prev \in 0..Len(buf) /\ HeadOf = Take(buf, prev) \o up
  <2>1. CASE ses.pre # <<>>
    <3>1. prev = Len(buf) /\ buf = ses.pre
      BY <1>1, <2>1
    <3>2. Take(buf, Len(buf)) = buf
      BY <1>1 DEF Take
    <3>3. HeadOf = ses.pre \o up
      BY <2>1 DEF HeadOf
    <3> HIDE DEF prev
    <3>4. QED
      BY <1>1, <3>1, <3>2, <3>3
  <2>2. CASE ses.pre = <<>>
    BY <1>1, <2>2 DEF HeadOf
  <2>3. QED
    BY <2>1, <2>2
<1>3. \/ Return(HandleHead(buf, prev)) /\ UNCHANGED <<up, cuts>>
      \/ \E k \in Takes(up, Len(buf) - prev, ClientClosed) :
           /\ Consume(k, Len(buf) - prev)
           /\ Return(HandleHead(ReadInto(buf, prev, k), prev + k)) \/ UNCHANGED <<pc, res>>
  BY Zenon DEF ReadHead
<1> HIDE DEF prev
<1>f. ~Foreign /\ ~Foreign'
  BY <1>0, <1>1 DEF Foreign
<1>4. CASE Return(HandleHead(buf, prev)) /\ UNCHANGED <<up, cuts>>
  <2>1. Connects(HandleHead(buf, prev)) => Given(up', HandleHead(buf, prev))
    BY <1>0, <1>1, <1>2, <1>4, HeadGiven
  <2>2. QED
    BY <1>0, <1>4, <1>f, <2>1, Concludes
<1>5. ASSUME NEW k \in Takes(up, Len(buf) - prev, ClientClosed), Consume(k, Len(buf) - prev),
             Return(HandleHead(ReadInto(buf, prev, k), prev + k)) \/ UNCHANGED <<pc, res>>
      PROVE  JInv'
  <2>0. Len(buf) - prev \in Nat /\ prev \in Nat
    BY <1>1, <1>2
  <2>1. k \in 0..Len(up) /\ k <= Len(buf) - prev /\ up' = Drop(up, k) /\ up' \in Seq(Nat)
    BY <1>0, <1>5, <2>0, Consumed
  <2> DEFINE b == ReadInto(buf, prev, k)
             last == prev + k
  <2>3. prev + k <= Len(buf) /\ last \in 0..Len(buf)
    BY <1>1, <2>0, <2>1
  <2>4. b \in Seq(Nat) /\ Len(b) = Len(buf) /\ Take(b, last) = Take(buf, prev) \o Take(up, k)
    BY <1>1, <1>2, <2>1, <2>3, ReadIntoIs
  <2> HIDE DEF b
  <2>5. HeadOf = Take(b, last) \o up'
    <3>1. Take(buf, prev) \in Seq(Nat) /\ Take(up, k) \in Seq(Nat) /\ Drop(up, k) \in Seq(Nat)
      BY <1>1, <1>2, <2>1, TakeIs, DropIs
    <3>2. (Take(buf, prev) \o Take(up, k)) \o Drop(up, k) = Take(buf, prev) \o (Take(up, k) \o Drop(up, k))
      BY <3>1, Assoc, ZenonT(30)
    <3>3. Take(up, k) \o Drop(up, k) = up
      BY <1>1, <2>1, TakeDrop
    <3>4. QED
      BY <1>2, <2>1, <2>4, <3>2, <3>3
  <2> HIDE DEF last
  <2>6. CASE Return(HandleHead(b, last))
    <3>1. last \in 0..Len(b)
      BY <2>3, <2>4
    <3>2. Connects(HandleHead(b, last)) => Given(up', HandleHead(b, last))
      BY <1>0, <2>1, <2>4, <2>5, <3>1, HeadGiven
    <3>3. QED
      BY <1>0, <1>f, <2>6, <3>2, Concludes
  <2>7. CASE UNCHANGED <<pc, res>>
    <3>1. MuteInv' /\ LeftInv' /\ pc' # "done"
      BY <1>0, <1>f, <2>7 DEF MuteInv, LeftInv
    <3>2. QED
      BY <3>1, Continues
  <2>8. QED
    BY <1>5, <2>6, <2>7 DEF b, last
<1>6. QED
  BY <1>3, <1>4, <1>5

-----------------------------------------------------------------------------
(* ... while the client sends and leaves, and to the end *)

LEMMA SentMore ==
  ASSUME IInv, JInv, UNCHANGED <<ses, pc, buf, n, loc, res>>, NEW x \in Seq(Nat),
         AllSent' = AllSent \o x, up' = up \o x
  PROVE  JInv'
<1>1. AllSent \in Seq(Nat) /\ up \in Seq(Nat)
  BY AllSentType DEF IInv, UpInv
<1>a. \A h \in Seq(Nat) : (h \o up) \o x = h \o up'
  <2>1. ASSUME NEW h \in Seq(Nat) PROVE (h \o up) \o x = h \o up'
    <3>1. (h \o up) \o x = h \o (up \o x)
      BY <1>1, Assoc, ZenonT(30)
    <3>2. QED
      BY <3>1
  <2>2. QED
    BY <2>1
<1>b. Tried' <=> Tried
  BY DEF Tried
<1>2. MuteInv'
  BY DEF JInv, MuteInv, Foreign
<1>c. ASSUME pc = "methods" PROVE LeftInv'
  <2>1. buf \in Seq(Nat) /\ n \in 0..Len(buf)
    BY <1>c DEF IInv, HearInv, Hearing
  <2>2. ASSUME ~Tried PROVE Heard(buf, n, loc.remain, up', AllSent')
    <3>1. Heard(buf, n, loc.remain, up, AllSent)
      BY <1>c, <2>2 DEF JInv, LeftInv
    <3>2. Take(buf, n) \in Seq(Nat)
      BY <2>1, TakeIs
    <3>3. (Take(buf, n) \o up) \o x = Take(buf, n) \o up'
      BY <1>a, <3>2
    <3>4. Take(buf, n) \o up' = AllSent'
      BY <3>1, <3>3 DEF Heard
    <3>5. QED
      BY <3>1, <3>4, Zenon DEF Heard
  <2>3. QED
    BY <1>b, <1>c, <2>2 DEF LeftInv
<1>3. ASSUME pc = "auth" PROVE LeftInv'
  <2>1. buf \in Seq(Nat) /\ n \in 0..Len(buf) /\ loc.remain \in 0..n /\ n \in Nat
    BY <1>3 DEF IInv, HearInv, Hearing
  <2>2. Tried /\ Asked(buf, n, loc.remain, up, AllSent)
    BY <1>3 DEF JInv, LeftInv
  <2> DEFINE h == LastOf(buf, n, loc.remain)
             g == SubSeq(buf, 4, n)
  <2>3. h \in Seq(Nat)
    BY <2>1, LastOfIs
  <2>4. g \in Seq(Nat)
    BY <2>1
  <2>5. 3 <= n /\ buf[1] = VERSION5 /\ g \o up = Drop(AllSent, 3) /\ Greeted(AllSent, h \o up)
    BY <2>2 DEF Asked
  <2> HIDE DEF h, g
  <2>6. Greeted(AllSent', h \o up')
    <3>1. Greeted(AllSent \o x, (h \o up) \o x)
      BY <1>1, <2>5, GreetedAppend
    <3>2. QED
      BY <1>a, <2>3, <3>1
  <2>7. g \o up' = Drop(AllSent', 3)
    <3>1. 3 \in 0..Len(AllSent)
      BY <1>1, <2>5 DEF Greeted
    <3>2. Drop(AllSent \o x, 3) = (g \o up) \o x
      <4>1. Drop(AllSent \o x, 3) = Drop(AllSent, 3) \o x
        BY <1>1, <3>1, DropConcat
      <4>2. QED
        BY <2>5, <4>1, Zenon
    <3>3. QED
      BY <1>a, <2>4, <3>2
  <2>8. Asked(buf, n, loc.remain, up', AllSent')
    BY <2>5, <2>6, <2>7, Zenon DEF Asked, h, g
  <2>9. QED
    BY <1>3, <1>b, <2>2, <2>8 DEF LeftInv
<1>d. ASSUME pc = "read_auth" PROVE LeftInv'
  <2>1. Tried /\ Greeted(AllSent, up)
    BY <1>d DEF JInv, LeftInv
  <2>2. Greeted(AllSent \o x, up \o x)
    BY <1>1, <2>1, GreetedAppend
  <2>3. QED
    BY <1>b, <1>d, <2>1, <2>2 DEF LeftInv
<1>4. ASSUME pc = "command" PROVE LeftInv'
  <2>1. buf \in Seq(Nat) /\ n \in 0..Len(buf)
    BY <1>4 DEF IInv, BufInv, Heading
  <2> DEFINE h == Take(buf, n)
  <2>2. h \in Seq(Nat)
    BY <2>1, TakeIs
  <2>3. Ready(AllSent, h \o up)
    BY <1>4 DEF JInv, LeftInv
  <2> HIDE DEF h
  <2>4. Ready(AllSent', h \o up')
    <3>1. Ready(AllSent \o x, (h \o up) \o x)
      BY <1>1, <2>3, ReadyAppend
    <3>2. QED
      BY <1>a, <2>2, <3>1
  <2>5. QED
    BY <1>4, <2>4 DEF LeftInv, h
<1>5. ASSUME pc = "early" PROVE LeftInv'
  <2>1. RequestOf(ses, AllSent, up, loc.addr) /\ buf = Zeros(Len(buf))
    BY <1>5 DEF JInv, LeftInv
  <2>2. RequestOf(ses, AllSent \o x, up \o x, loc.addr)
    BY <1>1, <2>1, RequestAppend
  <2>3. QED
    BY <1>5, <2>1, <2>2 DEF LeftInv
<1>6. LeftInv'
  <2>1. CASE pc \notin {"methods", "auth", "read_auth", "command", "early"}
    BY <2>1 DEF LeftInv
  <2>2. QED
    BY <1>c, <1>3, <1>d, <1>4, <1>5, <2>1
<1>7. GivenInv'
  <2>1. ASSUME Returned, Connects(res) PROVE Given(up, res)'
    <3>1. Given(up, res)
      BY <2>1 DEF JInv, GivenInv
    <3>2. res.b \in Seq(Nat) /\ (ses.server = "trojan" => ses.rbuf = 0)
      BY <3>1 DEF Given
    <3>3. CASE RequestOf(ses, AllSent, res.b \o up, res.a)
      <4>1. RequestOf(ses, AllSent \o x, (res.b \o up) \o x, res.a)
        BY <1>1, <3>3, RequestAppend
      <4>2. RequestOf(ses, AllSent', res.b \o up', res.a)
        BY <1>a, <3>2, <4>1
      <4>3. QED
        BY <3>2, <4>2 DEF Given
    <3>4. CASE RequestOf(ses, AllSent, up, res.a) /\ res.b = Zeros(Len(res.b))
      <4>1. RequestOf(ses, AllSent \o x, up \o x, res.a)
        BY <1>1, <3>4, RequestAppend
      <4>2. RequestOf(ses, AllSent', up', res.a)
        BY <4>1
      <4>3. QED
        BY <3>2, <3>4, <4>2 DEF Given
    <3>5. QED
      BY <3>1, <3>3, <3>4 DEF Given
  <2>2. QED
    BY <2>1 DEF GivenInv, Connects, Returned, Given
<1>8. QED
  BY <1>2, <1>6, <1>7 DEF JInv

LEMMA Stays ==
  ASSUME JInv, UNCHANGED <<ses, up, pc, buf, n, loc, res>>, AllSent' = AllSent
  PROVE  JInv'
<1>1. MuteInv'
  BY DEF JInv, MuteInv, Foreign
<1>2. LeftInv'
  BY DEF JInv, LeftInv, Tried
<1>3. GivenInv'
  BY DEF JInv, GivenInv, Given, Connects, Returned
<1>4. QED
  BY <1>1, <1>2, <1>3 DEF JInv

\* Where trojan has no connection to give, it does not matter what moves.
LEMMA TrojanMoves ==
  ASSUME IInv, JInv, ses.server = "trojan", UNCHANGED <<ses, pc, res>>, ~(Returned /\ Connects(res))
  PROVE  JInv'
<1>1. MuteInv'
  BY DEF MuteInv, Foreign
<1>2. LeftInv'
  BY DEF IInv, PcInv, LeftInv, Hearing, Heading, Socks
<1>3. GivenInv'
  BY DEF GivenInv, Connects, Returned
<1>4. QED
  BY <1>1, <1>2, <1>3 DEF JInv

LEMMA ReaderLeft ==
  ASSUME IInv, JInv, ReaderStep, UNCHANGED out
  PROVE  JInv'
<1>1. res.c = "udp" /\ ses.server = "trojan" /\ UNCHANGED <<ses, pc, res>>
  BY DEF ReaderStep, ReadBase, ReadBuf, ReadLeftBuf, Reading
<1>2. ~Connects(res)
  BY <1>1 DEF Connects
<1>3. QED
  BY <1>1, <1>2, TrojanMoves

LEMMA ClientSendLeft ==
  ASSUME IInv, JInv, ClientSend, UNCHANGED out
  PROVE  JInv'
<1> DEFINE x == Script[cstep].send
<1>1. /\ ~cwait /\ cstep <= Len(Script) /\ up' = up \o x
      /\ UNCHANGED <<ses, pc, buf, n, loc, res>> /\ UNCHANGED ses
      /\ \/ cstep' = cstep + 1 /\ UNCHANGED cwait
         \/ cwait' = TRUE /\ UNCHANGED cstep
  BY Zenon DEF ClientSend
<1>2. cstep \in 1..Len(Script) + 1 /\ cwait \in BOOLEAN /\ Len(Script) \in Nat
  BY SessionsAssumption DEF IInv, ClientInv, Script
<1>3. Count' = Count + 1
  BY <1>1, <1>2 DEF Count
<1>4. x \in Seq(Nat) /\ AllSent' = AllSent \o x
  BY <1>1, <1>3, NextSent
<1> HIDE DEF x
<1>5. QED
  BY <1>1, <1>4, SentMore

LEMMA ClientReadLeft ==
  ASSUME IInv, JInv, ClientRead, UNCHANGED out
  PROVE  JInv'
<1>0. cstep \in 1..Len(Script) /\ cwait /\ Len(Script) \in Nat
  BY SessionsAssumption DEF IInv, ClientInv, ClientRead, Script
<1>1. (cwait' = FALSE /\ cstep' = cstep + 1) \/ UNCHANGED <<cwait, cstep>>
  BY Zenon DEF ClientRead
<1>2. UNCHANGED <<ses, up, pc, buf, n, loc, res>>
  BY DEF ClientRead
<1>3. Count' = Count
  <2>1. Count = cstep
    BY <1>0 DEF Count
  <2>2. CASE cwait' = FALSE /\ cstep' = cstep + 1
    <3>1. ~cwait'
      BY <2>2
    <3>2. Count' = cstep' - 1
      BY <3>1 DEF Count
    <3>3. cstep' - 1 = cstep
      BY <1>0, <2>2
    <3>4. QED
      BY <2>1, <3>2, <3>3
  <2>3. CASE UNCHANGED <<cwait, cstep>>
    BY <2>3 DEF Count
  <2>4. QED
    BY <1>1, <2>2, <2>3
<1>4. AllSent' = AllSent
  BY <1>2, <1>3 DEF AllSent
<1>5. QED
  BY <1>2, <1>4, Stays

LEMMA RestLeft ==
  ASSUME IInv, JInv, (ClientLeaves \/ RouteResult \/ UNCHANGED allVars)
  PROVE  JInv'
<1>1. UNCHANGED <<ses, up, pc, buf, n, loc, res>> /\ UNCHANGED <<ses, cstep, cwait>>
  BY DEF ClientLeaves, RouteResult, allVars, vars, wireVars, clientVars
<1>2. AllSent' = AllSent
  BY <1>1 DEF AllSent, Count
<1>3. QED
  BY <1>1, <1>2, Stays

\* A write is only cut short where no connection was asked for.
LEMMA ShortWriteLeft ==
  ASSUME IInv, JInv, ShortWrite, UNCHANGED out
  PROVE  JInv'
<1>1. ses.server = "trojan" /\ ses.rbuf > 0 /\ UNCHANGED <<ses, pc, res>>
  BY DEF ShortWrite
<1>2. ~(Returned /\ Connects(res))
  BY <1>1 DEF JInv, GivenInv, Given
<1>3. QED
  BY <1>1, <1>2, TrojanMoves

LEMMA IoErrorLeft ==
  ASSUME IInv, JInv, IoError, UNCHANGED out
  PROVE  JInv'
<1>1. pc' = "done" /\ res' = Err
  BY DEF IoError
<1>2. Err.e # "ok"
  BY DEF Err, BufErr, Result
<1>3. ~Connects(res)'
  BY <1>1, <1>2 DEF Connects
<1>4. MuteInv' /\ LeftInv' /\ GivenInv'
  BY <1>1, <1>3 DEF MuteInv, LeftInv, GivenInv, Returned
<1>5. QED
  BY <1>4 DEF JInv

LEMMA InitLeft ==
  ASSUME InboundInit
  PROVE  JInv
<1>1. pc = ses.server /\ ses \in Sessions
  BY DEF InboundInit, Init
<1>2. ses.server \in Servers
  BY <1>1, SessionsAssumption
<1>3. ~Returned /\ LeftInv /\ MuteInv
  BY <1>1, <1>2 DEF Returned, Servers, LeftInv, MuteInv
<1>4. QED
  BY <1>3 DEF JInv, GivenInv

LEMMA NextLeft ==
  ASSUME IInv, JInv, [Next]_allVars
  PROVE  JInv'
<1>1. CASE Socks5Next /\ UNCHANGED out
  BY <1>1, ReadHelloLeft, MethodLeft, ReadAuthLeft, ReadCommandLeft, EarlyLeft DEF Socks5Next
<1>2. CASE HttpNext /\ UNCHANGED out
  BY <1>2, ReadHttpLeft, ReadFilterLeft DEF HttpNext
<1>3. \/ Socks5Next /\ UNCHANGED out
      \/ HttpNext /\ UNCHANGED out
      \/ ReadHead /\ UNCHANGED out
      \/ ReaderStep /\ UNCHANGED out
      \/ (ClientSend \/ ClientRead \/ ClientLeaves) /\ UNCHANGED out
      \/ ShortWrite /\ UNCHANGED out
      \/ IoError /\ UNCHANGED out
      \/ RouteResult
      \/ UNCHANGED allVars
  BY DEF Next, ServerStep, ClientStep, HandshakeServer, TrojanClientStep
<1>4. QED
  BY <1>1, <1>2, <1>3, ReadHeadLeft, ReaderLeft, ClientSendLeft, ClientReadLeft, RestLeft, ShortWriteLeft, IoErrorLeft

\* What is still to be taken, and what was given, is the end of what was sent.
THEOREM RequestInvariant == Spec => [](IInv /\ JInv)
<1>1. InboundInit => IInv /\ JInv
  BY InitHolds, InitLeft
<1>2. (IInv /\ JInv) /\ [Next]_allVars => (IInv /\ JInv)'
  BY NextKeeps, NextLeft
<1>3. QED
  BY <1>1, <1>2, PTL DEF Spec

\* What is asked for in all that was sent is the client's target, with its payload behind it.
LEMMA RequestIs ==
  ASSUME IInv, ses.speaks # "http", NEW r, NEW a, RequestOf(ses, AllSent, r, a)
  PROVE  a = ses.ta /\ IsPrefix(r, ses.payload)
<1>1. ses \in Sessions /\ Count \in 0..Len(ses.script)
  BY AllSentType DEF IInv, ClientInv, Script
<1>2. PICK i \in 0..Len(AllSent), j \in 0..Len(AllSent) :
        /\ Finds(ses, AllSent, i, j) /\ a = SubSeq(AllSent, i + 1, j)
        /\ EndOf(ses, j) <= Len(AllSent) /\ r = Drop(AllSent, EndOf(ses, j))
  BY Zenon DEF RequestOf
<1>a. Asks(ses, AllSent, i, j)
  <2>1. AllSent \in Seq(Nat)
    BY AllSentType DEF IInv
  <2>2. QED
    BY <1>2, <2>1, FindsAsks
<1>3. /\ SubSeq(AllSent, i + 1, j) = ses.ta
      /\ EndOf(ses, j) <= Len(AllSent) => IsPrefix(Drop(AllSent, EndOf(ses, j)), ses.payload)
  BY <1>1, <1>a, RequestsAssumption, Zenon DEF AllSent
<1>4. QED
  BY <1>2, <1>3

LEMMA TargetHolds ==
  ASSUME IInv, JInv
  PROVE  TargetExact
<1>1. ASSUME Ok, ses.speaks # "http", res.c = "conn" PROVE res.a = ses.ta
  <2>1. Given(up, res)
    BY <1>1 DEF JInv, GivenInv, Connects, Ok
  <2>2. \E r : RequestOf(ses, AllSent, r, res.a)
    BY <2>1 DEF Given
  <2>3. QED
    BY <1>1, <2>2, RequestIs
<1>2. QED
  BY <1>1 DEF TargetExact

LEMMA PayloadHolds ==
  ASSUME IInv, JInv
  PROVE  PayloadWhole
<1>1. ASSUME Ok, ses.speaks # "http", res.c = "conn" PROVE IsPrefix(Handed, ses.payload)
  <2>1. Given(up, res) /\ up \in Seq(Nat)
    BY <1>1 DEF JInv, GivenInv, Connects, Ok, IInv, UpInv
  <2>2. res.b \in Seq(Nat) /\ Len(res.b) \in Nat
    BY <2>1 DEF Given
  <2>3. <<>> \o up = up
    BY <2>1
  <2>4. CASE RequestOf(ses, AllSent, res.b \o up, res.a)
    <3>1. IsPrefix(res.b \o up, ses.payload)
      BY <1>1, <2>4, RequestIs
    <3>2. ~ZerosOnly(res.b)
      <4>1. ASSUME ZerosOnly(res.b) PROVE FALSE
        <5>1. res.b # <<>> /\ res.b = Zeros(Len(res.b))
          BY <4>1 DEF ZerosOnly
        <5>2. 1 \in 1..Len(res.b)
          BY <2>2, <5>1
        <5>3. res.b[1] = 0
          BY <2>2, <5>1, <5>2 DEF Zeros
        <5> DEFINE w == res.b \o up
        <5>4. w \in Seq(Nat) /\ Len(w) = Len(res.b) + Len(up) /\ w[1] = 0
          BY <2>1, <2>2, <5>2, <5>3, ConcatIs
        <5>5. Len(w) \in Nat /\ 1 <= Len(w)
          BY <2>1, <2>2, <5>2, <5>4
        <5>6. IsPrefix(w, ses.payload)
          BY <3>1
        <5> HIDE DEF w
        <5>7. ses.payload \in Seq(Nat) /\ (ses.payload # <<>> => ses.payload[1] # 0)
          BY <1>1, RequestsAssumption DEF IInv, ClientInv
        <5>8. Len(w) <= Len(ses.payload) /\ SubSeq(w, 1, Len(w)) = SubSeq(ses.payload, 1, Len(w))
          BY <5>6 DEF IsPrefix
        <5>9. /\ Len(ses.payload) \in Nat /\ 1 <= Len(ses.payload) /\ ses.payload # <<>>
              /\ Len(w) \in 0..Len(ses.payload) /\ Len(w) \in 0..Len(w) /\ 1 \in 1..Len(w)
          BY <5>5, <5>7, <5>8
        <5>10. Take(w, Len(w))[1] = w[1] /\ Take(ses.payload, Len(w))[1] = ses.payload[1]
          BY <5>4, <5>7, <5>9, TakeIs
        <5>11. w[1] = ses.payload[1]
          BY <5>8, <5>10 DEF Take
        <5>12. QED
          BY <5>4, <5>7, <5>9, <5>11
      <4>2. QED
        BY <4>1
    <3>3. QED
      BY <3>1, <3>2 DEF Handed
  <2>5. CASE RequestOf(ses, AllSent, up, res.a) /\ res.b = Zeros(Len(res.b))
    <3>1. IsPrefix(up, ses.payload)
      BY <1>1, <2>5, RequestIs
    <3>2. (IF ZerosOnly(res.b) THEN <<>> ELSE res.b) = <<>>
      BY <2>5 DEF ZerosOnly
    <3>3. Handed = up
      BY <2>3, <3>2 DEF Handed
    <3>4. QED
      BY <3>1, <3>3
  <2>6. QED
    BY <2>1, <2>4, <2>5 DEF Given
<1>2. QED
  BY <1>1 DEF PayloadWhole

\* TargetExact in every state: for every session, size of the buffer, and way that
\* the messages are cut, the target that a handshake of socks5 or trojan returns is the
\* one the client has asked for.
THEOREM TargetCorrect == Spec => []TargetExact
<1>1. Spec => [](IInv /\ JInv)
  BY RequestInvariant
<1>2. IInv /\ JInv => TargetExact
  BY TargetHolds
<1>3. QED
  BY <1>1, <1>2, PTL

\* PayloadWhole in every state: what such a handshake leaves to the copies, in its early
\* data and in the stream, is what the client has sent behind its request.
THEOREM PayloadCorrect == Spec => []PayloadWhole
<1>1. Spec => [](IInv /\ JInv)
  BY RequestInvariant
<1>2. IInv /\ JInv => PayloadWhole
  BY PayloadHolds
<1>3. QED
  BY <1>1, <1>2, PTL
=============================================================================
