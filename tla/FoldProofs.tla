------------------------------ MODULE FoldProofs ------------------------------
(* What holds of a Fold for any inbounds, streams, chains and scripts. *)
EXTENDS Fold, SequenceTheorems, TLAPS

-----------------------------------------------------------------------------
(* The inductive invariant *)

CidTypes ==
  /\ cid \in [Gens -> Seq(Nat)]
  /\ made \in [Gens -> Nat]
  /\ last_connection_id \in Nat
  /\ parent \in [Streams -> Gens]
  /\ DOMAIN st = Streams
  /\ gen \in [Gens -> {"none", "open", "closed"}]
  /\ genQ \in [Gens -> Seq(Streams)]
  /\ dealQ \in [Inbounds -> Seq(Streams)]

\* The last number that was given below g.
Used(g) == IF g \in Inbounds THEN last_connection_id ELSE made[g]

Numbered(s) == \E n \in 1..Used(parent[s]) : cid[s] = Append(cid[parent[s]], n)

\* Which streams have a cid.
HaveCids ==
  /\ \A i \in Inbounds : cid[i] = <<i>>
  /\ \A s \in Streams :
       /\ st[s] = "unused" => cid[s] = <<>>
       /\ st[s] \notin {"unused", "offered"} => cid[s] # <<>>
       /\ st[s] = "offered" /\ parent[s] \notin Inbounds => cid[s] # <<>>
       /\ cid[s] # <<>> => cid[parent[s]] # <<>> /\ Numbered(s)

\* What waits in the channels was accepted, and a multiplexer was folded.
Channels ==
  /\ \A g \in Gens : \A j \in DOMAIN genQ[g] :
       parent[genQ[g][j]] = g /\ st[genQ[g][j]] # "unused"
  /\ \A i \in Inbounds : \A j \in DOMAIN dealQ[i] :
       st[dealQ[i][j]] \notin {"unused", "offered"}
  /\ \A s \in Streams : gen[s] = "open" => st[s] \notin {"unused", "offered"}

Distinct == \A g, h \in Gens : cid[g] # <<>> /\ cid[g] = cid[h] => g = h

CidInv == CidTypes /\ HaveCids /\ Channels /\ Distinct

cidVars == <<cid, made, last_connection_id, parent>>

-----------------------------------------------------------------------------
(* Sequences *)

LEMMA AppendNat ==
  \A p, q \in Seq(Nat), m, n \in Nat : Append(p, m) = Append(q, n) => p = q /\ m = n
  BY AppendInjective, Z3

\* No cid of one number, an inbound's, is one of a cid with one more.
LEMMA AppendLonger ==
  ASSUME NEW p \in Seq(Nat), p # <<>>, NEW n \in Nat, NEW i \in Nat
  PROVE  Append(p, n) # <<i>> /\ Append(p, n) # <<>>
<1>1. <<>> \in Seq(Nat) /\ <<i>> = Append(<<>>, i)
  OBVIOUS
<1>2. Append(p, n) # Append(<<>>, i)
  BY <1>1, AppendInjective
<1>3. QED
  BY <1>1, <1>2, AppendProperties

-----------------------------------------------------------------------------
LEMMA CidInit == Init => CidInv
  BY IdsAssumption
  DEF Init, CidInv, CidTypes, HaveCids, Channels, Distinct, Numbered, Used, Gens

\* Steps that give no cid, and make nothing less folded than it was.
LEMMA CidsStay ==
  ASSUME CidInv, UNCHANGED cidVars, DOMAIN st' = Streams,
         \A s \in Streams : st'[s] \in {"unused", "offered"} <=> st[s] \in {"unused", "offered"},
         \A s \in Streams : st'[s] = "unused" <=> st[s] = "unused",
         gen' \in [Gens -> {"none", "open", "closed"}],
         \A s \in Streams : gen'[s] = "open" => st'[s] \notin {"unused", "offered"},
         genQ' = genQ, dealQ' \in [Inbounds -> Seq(Streams)],
         \A i \in Inbounds : \A j \in DOMAIN dealQ'[i] : st'[dealQ'[i][j]] \notin {"unused", "offered"}
  PROVE  CidInv'
<1>1. CidTypes'
  BY DEF CidInv, CidTypes, cidVars
<1>2. Distinct'
  BY DEF CidInv, Distinct, cidVars
<1>3. \A s \in Streams : Numbered(s) => Numbered(s)'
  BY DEF Numbered, Used, cidVars
<1>4. HaveCids'
  BY <1>3 DEF CidInv, HaveCids, cidVars
<1>5. \A g \in Gens : \A j \in DOMAIN genQ[g] : genQ[g][j] \in Streams
  BY DEF CidInv, CidTypes
<1>6. Channels'
  BY <1>5 DEF CidInv, Channels, cidVars
<1>7. QED
  BY <1>1, <1>2, <1>4, <1>6 DEF CidInv

\* A cid that is made below g of a number that was not used there is new.
LEMMA NewCid ==
  ASSUME CidInv, NEW g \in Gens, cid[g] # <<>>, NEW n \in Nat, n > Used(g), NEW h \in Gens
  PROVE  cid[h] # Append(cid[g], n)
<1> USE DEF CidInv
<1>1. cid \in [Gens -> Seq(Nat)]
  BY DEF CidTypes
<1>2. CASE h \in Inbounds
  BY <1>1, <1>2, AppendLonger, IdsAssumption DEF HaveCids
<1>3. CASE h \notin Inbounds /\ cid[h] = <<>>
  BY <1>1, <1>3, AppendProperties
<1>4. CASE h \notin Inbounds /\ cid[h] # <<>>
  <2>1. h \in Streams /\ parent[h] \in Gens
    BY <1>4 DEF Gens, CidTypes
  <2>2. cid[parent[h]] # <<>> /\ Numbered(h)
    BY <1>4, <2>1 DEF HaveCids
  <2>3. PICK m \in 1..Used(parent[h]) : cid[h] = Append(cid[parent[h]], m)
    BY <2>2 DEF Numbered
  <2>4. SUFFICES ASSUME cid[h] = Append(cid[g], n) PROVE FALSE
    OBVIOUS
  <2>5. Used(parent[h]) \in Nat
    BY <2>1 DEF Used, CidTypes
  <2>6. cid[parent[h]] = cid[g] /\ m = n
    <3>1. cid[parent[h]] \in Seq(Nat) /\ cid[g] \in Seq(Nat) /\ m \in Nat /\ n \in Nat
      BY <1>1, <2>1, <2>5
    <3>2. Append(cid[parent[h]], m) = Append(cid[g], n)
      BY <2>3, <2>4
    <3>3. Append(cid[parent[h]], m) = Append(cid[g], n) => cid[parent[h]] = cid[g] /\ m = n
      BY <3>1, AppendNat, Zenon
    <3>4. QED
      BY <3>2, <3>3
  <2>7. parent[h] = g
    BY <2>1, <2>2, <2>6 DEF Distinct
  <2>8. QED
    BY <2>3, <2>5, <2>6, <2>7
<1>5. QED
  BY <1>2, <1>3, <1>4

\* Stream s, which has no cid yet, gets one below its generator g.
LEMMA GiveCid ==
  ASSUME CidInv, NEW g \in Gens, cid[g] # <<>>, NEW s \in Streams, cid[s] = <<>>,
         NEW n \in Nat, n = Used(g) + 1,
         cid' = [cid EXCEPT ![s] = Append(cid[g], n)],
         parent' = [parent EXCEPT ![s] = g],
         IF g \in Inbounds THEN last_connection_id' = n /\ made' = made
                           ELSE made' = [made EXCEPT ![g] = n] /\ last_connection_id' = last_connection_id,
         \A t \in Streams \ {s} : st'[t] = st[t],
         st'[s] # "unused"
  PROVE  Distinct' /\ HaveCids'
<1> USE DEF CidInv
<1>1. cid \in [Gens -> Seq(Nat)] /\ s \in Gens /\ s \notin Inbounds /\ g # s
  BY IdsAssumption DEF CidTypes, Gens
<1>2. /\ \A h \in Gens : cid'[h] = IF h = s THEN Append(cid[g], n) ELSE cid[h]
      /\ \A t \in Streams : parent'[t] = IF t = s THEN g ELSE parent[t]
  <2>1. \A h \in Gens : cid'[h] = IF h = s THEN Append(cid[g], n) ELSE cid[h]
    BY <1>1
  <2>2. \A t \in Streams : parent'[t] = IF t = s THEN g ELSE parent[t]
    BY DEF CidTypes
  <2>3. QED
    BY <2>1, <2>2
<1>3. Append(cid[g], n) # <<>> /\ Append(cid[g], n) \in Seq(Nat)
  <2>1. \A q \in Seq(Nat), k \in Nat : Append(q, k) # <<>> /\ Append(q, k) \in Seq(Nat)
    BY AppendProperties
  <2>2. cid[g] \in Seq(Nat)
    BY <1>1
  <2>3. QED
    BY <2>1, <2>2
<1>4. \A h \in Gens : Used(h) \in Nat /\ Used(h)' \in Nat /\ Used(h) <= Used(h)'
  <2>1. last_connection_id \in Nat /\ made \in [Gens -> Nat]
    BY DEF CidTypes
  <2>2. CASE g \in Inbounds
    BY <2>1, <2>2 DEF Used
  <2>3. CASE g \notin Inbounds
    <3>1. \A h \in Gens : made'[h] = IF h = g THEN made[g] + 1 ELSE made[h]
      BY <2>1, <2>3 DEF Used
    <3>2. QED
      BY <2>1, <2>3, <3>1 DEF Used
  <2>4. QED
    BY <2>2, <2>3
<1>5. Distinct'
  <2>1. \A h \in Gens : cid[h] # Append(cid[g], n)
    <3>1. n > Used(g)
      BY <1>4
    <3>2. QED
      BY <3>1, NewCid
  <2>2. SUFFICES ASSUME NEW a \in Gens, NEW b \in Gens, cid'[a] # <<>>, cid'[a] = cid'[b] PROVE a = b
    BY DEF Distinct
  <2>3. CASE a = s \/ b = s
    <3>1. /\ cid'[a] = IF a = s THEN Append(cid[g], n) ELSE cid[a]
          /\ cid'[b] = IF b = s THEN Append(cid[g], n) ELSE cid[b]
      BY <1>2
    <3>2. cid[a] # Append(cid[g], n) /\ cid[b] # Append(cid[g], n)
      BY <2>1
    <3>3. QED
      BY <2>2, <2>3, <3>1, <3>2
  <2>4. CASE a # s /\ b # s
    BY <1>2, <2>2, <2>4 DEF Distinct
  <2>5. QED
    BY <2>3, <2>4
<1>6. \A i \in Inbounds : cid'[i] = <<i>>
  BY <1>1, <1>2 DEF HaveCids, Gens
<1>7. Numbered(s)'
  <2>1. n \in 1..Used(g)'
    BY <1>4 DEF Used, CidTypes
  <2>2. cid'[s] = Append(cid'[g], n) /\ parent'[s] = g
    BY <1>1, <1>2
  <2>3. QED
    BY <2>1, <2>2 DEF Numbered, Used
<1>8. ASSUME NEW t \in Streams, t # s, cid[t] # <<>>
      PROVE  cid'[parent'[t]] # <<>> /\ Numbered(t)'
  <2>1. parent[t] \in Gens /\ cid[parent[t]] # <<>> /\ Numbered(t)
    BY <1>8 DEF HaveCids, CidTypes
  <2>2. parent'[t] = parent[t] /\ cid'[parent[t]] = cid[parent[t]] /\ cid'[t] = cid[t]
    BY <1>2, <1>8, <2>1 DEF Gens
  <2>3. PICK m \in 1..Used(parent[t]) : cid[t] = Append(cid[parent[t]], m)
    BY <2>1 DEF Numbered
  <2>4. m \in 1..Used(parent[t])'
    BY <1>4, <2>1, <2>3
  <2>5. QED
    BY <2>1, <2>2, <2>3, <2>4 DEF Numbered, Used
<1>9. HaveCids'
  <2> SUFFICES ASSUME NEW t \in Streams
               PROVE  /\ st'[t] = "unused" => cid'[t] = <<>>
                      /\ st'[t] \notin {"unused", "offered"} => cid'[t] # <<>>
                      /\ st'[t] = "offered" /\ parent'[t] \notin Inbounds => cid'[t] # <<>>
                      /\ cid'[t] # <<>> => cid'[parent'[t]] # <<>> /\ Numbered(t)'
    BY <1>6 DEF HaveCids
  <2>1. CASE t = s
    BY <1>1, <1>2, <1>3, <1>7, <2>1
  <2>2. CASE t # s
    <3>1. cid'[t] = cid[t] /\ parent'[t] = parent[t] /\ st'[t] = st[t]
      BY <1>2, <2>2 DEF Gens
    <3>2. QED
      BY <1>8, <2>2, <3>1 DEF HaveCids
  <2>3. QED
    BY <2>1, <2>2
<1>10. QED
  BY <1>5, <1>9

-----------------------------------------------------------------------------
(* The steps that give a stream its cid, or accept one that has none yet *)

LEMMA FirstDirectCid ==
  ASSUME CidInv, NEW i \in Inbounds, NEW s \in Streams, FirstDirect(i, s)
  PROVE  CidInv'
<1> USE DEF CidInv
<1>1. i \in Gens /\ s \in Gens /\ s \notin Inbounds
  BY IdsAssumption DEF Gens
<1>2. st[s] = "unused" /\ cid[s] = <<>> /\ cid[i] # <<>>
  <2>1. st[s] = "unused"
    BY DEF FirstDirect, Fresh
  <2>2. cid[s] = <<>>
    BY <2>1 DEF HaveCids
  <2>3. cid[i] = <<i>>
    BY DEF HaveCids
  <2>4. QED
    BY <2>1, <2>2, <2>3
<1>3. /\ last_connection_id + 1 \in Nat
      /\ last_connection_id + 1 = Used(i) + 1
      /\ cid' = [cid EXCEPT ![s] = Append(cid[i], last_connection_id + 1)]
      /\ parent' = [parent EXCEPT ![s] = i]
      /\ last_connection_id' = last_connection_id + 1 /\ UNCHANGED <<genVars, dealVars>>
      /\ st' = [st EXCEPT ![s] = "fold"]
  BY DEF FirstDirect, ClonePush, Used, CidTypes
<1>4. /\ \A t \in Streams \ {s} : st'[t] = st[t]
      /\ st'[s] = "fold"
      /\ DOMAIN st' = Streams
  BY <1>3 DEF CidTypes
<1>5. Distinct' /\ HaveCids'
  BY <1>1, <1>2, <1>3, <1>4, GiveCid DEF genVars
<1>6. CidTypes'
  <2>1. Append(cid[i], last_connection_id + 1) \in Seq(Nat)
    BY <1>1, <1>3 DEF CidTypes
  <2>2. QED
    BY <1>1, <1>3, <1>4, <2>1 DEF CidTypes, genVars, dealVars
<1>7. Channels'
  <2>1. \A t \in Streams \ {s} : parent'[t] = parent[t]
    BY <1>3 DEF CidTypes
  <2>2. \A g \in Gens : \A j \in DOMAIN genQ[g] : genQ[g][j] \in Streams \ {s}
    BY <1>2 DEF CidTypes, Channels
  <2>3. \A h \in Inbounds : \A j \in DOMAIN dealQ[h] : dealQ[h][j] \in Streams
    BY DEF CidTypes
  <2>4. QED
    BY <1>2, <1>3, <1>4, <2>1, <2>2, <2>3 DEF Channels, genVars, dealVars
<1>8. QED
  BY <1>5, <1>6, <1>7

LEMMA ProduceCid ==
  ASSUME CidInv, NEW g \in Gens, NEW s \in Streams, Produce(g, s)
  PROVE  CidInv'
<1> USE DEF CidInv
<1>1. s \in Gens /\ s \notin Inbounds /\ (g \in Streams <=> g \notin Inbounds)
  BY IdsAssumption DEF Gens
<1>2. st[s] = "unused" /\ cid[s] = <<>> /\ gen[g] = "open"
  BY DEF Produce, Fresh, HaveCids
<1>3. cid[g] # <<>>
  BY <1>1, <1>2 DEF HaveCids, Channels
<1>4. /\ st' = [st EXCEPT ![s] = "offered"]
      /\ parent' = [parent EXCEPT ![s] = g]
      /\ genQ' = [genQ EXCEPT ![g] = Append(@, s)]
      /\ UNCHANGED <<gen, dealVars, last_connection_id>>
  BY DEF Produce
<1>5. /\ \A t \in Streams \ {s} : st'[t] = st[t] /\ parent'[t] = parent[t]
      /\ st'[s] = "offered" /\ parent'[s] = g
      /\ DOMAIN st' = Streams
  BY <1>4 DEF CidTypes
<1>6. genQ' \in [Gens -> Seq(Streams)] /\ parent' \in [Streams -> Gens] /\ dealQ' = dealQ
  BY <1>4 DEF CidTypes, dealVars
<1>7. Channels'
  <2>1. \A h \in Gens : \A j \in DOMAIN genQ[h] :
          genQ[h][j] \in Streams \ {s} /\ parent'[genQ[h][j]] = h /\ st'[genQ[h][j]] # "unused"
    <3>1. ASSUME NEW h \in Gens, NEW j \in DOMAIN genQ[h]
          PROVE  genQ[h][j] \in Streams /\ parent[genQ[h][j]] = h /\ st[genQ[h][j]] # "unused"
      <4>1. genQ[h] \in Seq(Streams)
        BY DEF CidTypes
      <4>2. QED
        BY <4>1 DEF Channels
    <3>2. QED
      BY <1>2, <1>5, <3>1
  <2>2. ASSUME NEW h \in Gens, NEW j \in DOMAIN genQ'[h]
        PROVE  parent'[genQ'[h][j]] = h /\ st'[genQ'[h][j]] # "unused"
    <3>1. CASE h # g
      BY <1>4, <2>1, <2>2, <3>1 DEF CidTypes
    <3>2. CASE h = g
      <4>1. genQ'[g] = Append(genQ[g], s) /\ genQ[g] \in Seq(Streams)
        BY <1>4 DEF CidTypes
      <4>2. CASE j \in DOMAIN genQ[g]
        BY <2>1, <3>2, <4>1, <4>2
      <4>3. CASE j \notin DOMAIN genQ[g]
        <5>1. j = Len(genQ[g]) + 1
          BY <2>2, <3>2, <4>1, <4>3
        <5>2. genQ'[h][j] = s
          BY <3>2, <4>1, <5>1
        <5>3. QED
          BY <1>5, <3>2, <5>2
      <4>4. QED
        BY <4>2, <4>3
    <3>3. QED
      BY <3>1, <3>2
  <2>3. \A h \in Inbounds : \A j \in DOMAIN dealQ[h] : dealQ[h][j] \in Streams
    BY DEF CidTypes
  <2>4. ASSUME NEW h \in Inbounds, NEW j \in DOMAIN dealQ'[h]
        PROVE  st'[dealQ'[h][j]] \notin {"unused", "offered"}
    <3>1. j \in DOMAIN dealQ[h] /\ dealQ'[h][j] = dealQ[h][j]
      BY <1>6, <2>4
    <3>2. st[dealQ[h][j]] \notin {"unused", "offered"} /\ dealQ[h][j] \in Streams
      BY <2>3, <3>1 DEF Channels
    <3>3. st'[dealQ[h][j]] = st[dealQ[h][j]]
      BY <1>2, <1>5, <3>2
    <3>4. QED
      BY <3>1, <3>2, <3>3
  <2>5. \A t \in Streams : gen'[t] = "open" => st'[t] \notin {"unused", "offered"}
    BY <1>2, <1>4, <1>5 DEF Channels
  <2>6. QED
    BY <2>2, <2>4, <2>5 DEF Channels
<1>8. CASE g \in Streams
  <2>1. /\ made[g] + 1 \in Nat /\ made[g] + 1 = Used(g) + 1
        /\ cid' = [cid EXCEPT ![s] = Append(cid[g], made[g] + 1)]
        /\ made' = [made EXCEPT ![g] = made[g] + 1]
    <3>1. made[g] + 1 \in Nat /\ made[g] + 1 = Used(g) + 1
      BY <1>1, <1>8 DEF Used, CidTypes
    <3>2. /\ cid' = [cid EXCEPT ![s] = Append(cid[g], made[g] + 1)]
          /\ made' = [made EXCEPT ![g] = made[g] + 1]
      BY <1>1, <1>8 DEF Produce, SubCid
    <3>3. QED
      BY <3>1, <3>2
  <2>2. Distinct' /\ HaveCids'
    BY <1>1, <1>2, <1>3, <1>4, <1>5, <1>8, <2>1, GiveCid
  <2>3. Append(cid[g], made[g] + 1) \in Seq(Nat)
    BY <2>1 DEF CidTypes
  <2>4. CidTypes'
    BY <1>4, <1>5, <1>6, <2>1, <2>3 DEF CidTypes
  <2>5. QED
    BY <1>7, <2>2, <2>4
<1>9. CASE g \in Inbounds
  <2>1. UNCHANGED <<cid, made, last_connection_id>>
    BY <1>1, <1>4, <1>9 DEF Produce
  <2>2. CidTypes'
    BY <1>4, <1>5, <1>6, <2>1 DEF CidTypes
  <2>3. \A t \in Streams \ {s} : Numbered(t) => Numbered(t)'
    BY <1>5, <2>1 DEF Numbered, Used
  <2>4. HaveCids'
    BY <1>2, <1>5, <1>9, <2>1, <2>3 DEF HaveCids
  <2>5. QED
    BY <1>7, <2>1, <2>2, <2>4 DEF Distinct
<1>10. QED
  BY <1>1, <1>8, <1>9

LEMMA TakeCid ==
  ASSUME CidInv, NEW g \in Gens, Take(g)
  PROVE  CidInv'
<1> USE DEF CidInv
<1> DEFINE s == Head(genQ[g])
<1>1. genQ[g] \in Seq(Streams) /\ genQ[g] # <<>>
  BY DEF Take, CidTypes
<1>2. s \in Streams /\ s = genQ[g][1] /\ 1 \in DOMAIN genQ[g]
  BY <1>1
<1>3. parent[s] = g /\ st[s] # "unused"
  BY <1>2 DEF Channels
<1>4. /\ st' = [st EXCEPT ![s] = "fold"]
      /\ genQ' = [genQ EXCEPT ![g] = Tail(@)]
      /\ UNCHANGED <<gen, made, parent, dealVars>>
  BY DEF Take
<1>5. /\ \A t \in Streams \ {s} : st'[t] = st[t]
      /\ st'[s] = "fold"
      /\ DOMAIN st' = Streams
  BY <1>2, <1>4 DEF CidTypes
<1>6. \A h \in Gens : genQ'[h] = IF h = g THEN Tail(genQ[g]) ELSE genQ[h]
  BY <1>4 DEF CidTypes
<1>7. genQ' \in [Gens -> Seq(Streams)] /\ dealQ' = dealQ
  BY <1>1, <1>4 DEF CidTypes, dealVars
<1> HIDE DEF s
<1>8. Channels'
  <2>1. \A h \in Gens : \A j \in DOMAIN genQ[h] :
          parent'[genQ[h][j]] = h /\ st'[genQ[h][j]] # "unused"
    <3>1. ASSUME NEW h \in Gens, NEW j \in DOMAIN genQ[h]
          PROVE  genQ[h][j] \in Streams /\ parent[genQ[h][j]] = h /\ st[genQ[h][j]] # "unused"
      <4>1. genQ[h] \in Seq(Streams)
        BY DEF CidTypes
      <4>2. QED
        BY <4>1 DEF Channels
    <3>2. parent' = parent
      BY <1>4
    <3>3. QED
      BY <1>5, <3>1, <3>2
  <2>2. \A j \in DOMAIN Tail(genQ[g]) :
          j + 1 \in DOMAIN genQ[g] /\ Tail(genQ[g])[j] = genQ[g][j + 1]
    BY <1>1
  <2>3. \A h \in Gens : \A j \in DOMAIN genQ'[h] :
          parent'[genQ'[h][j]] = h /\ st'[genQ'[h][j]] # "unused"
    <3> SUFFICES ASSUME NEW h \in Gens, NEW j \in DOMAIN genQ'[h]
                 PROVE  parent'[genQ'[h][j]] = h /\ st'[genQ'[h][j]] # "unused"
      OBVIOUS
    <3>1. CASE h = g
      <4>1. genQ'[h] = Tail(genQ[g])
        BY <1>6, <3>1
      <4>2. j + 1 \in DOMAIN genQ[g] /\ genQ'[h][j] = genQ[g][j + 1]
        BY <2>2, <4>1
      <4>3. QED
        BY <2>1, <3>1, <4>2
    <3>2. CASE h # g
      <4>1. genQ'[h] = genQ[h]
        BY <1>6, <3>2
      <4>2. QED
        BY <2>1, <4>1
    <3>3. QED
      BY <3>1, <3>2
  <2>4. \A h \in Inbounds : \A j \in DOMAIN dealQ[h] : dealQ[h][j] \in Streams
    BY DEF CidTypes
  <2>5. \A h \in Inbounds : \A j \in DOMAIN dealQ'[h] : st'[dealQ'[h][j]] \notin {"unused", "offered"}
    BY <1>5, <1>7, <2>4 DEF Channels
  <2>6. \A t \in Streams : gen'[t] = "open" => st'[t] \notin {"unused", "offered"}
    BY <1>4, <1>5 DEF Channels
  <2>7. QED
    BY <2>3, <2>5, <2>6 DEF Channels
<1>9. CASE cid[s] = <<>>
  <2>1. g \in Inbounds /\ cid[g] # <<>>
    <3>1. st[s] = "offered" /\ g \in Inbounds
      BY <1>2, <1>3, <1>9 DEF HaveCids
    <3>2. cid[g] = <<g>>
      BY <3>1 DEF HaveCids
    <3>3. QED
      BY <3>1, <3>2
  <2>2. /\ last_connection_id + 1 \in Nat
        /\ last_connection_id + 1 = Used(g) + 1
        /\ cid' = [cid EXCEPT ![s] = Append(cid[g], last_connection_id + 1)]
        /\ last_connection_id' = last_connection_id + 1
    <3>1. last_connection_id + 1 \in Nat /\ Used(g) = last_connection_id
      BY <2>1 DEF Used, CidTypes
    <3>2. /\ cid' = [cid EXCEPT ![s] = Append(cid[g], last_connection_id + 1)]
          /\ last_connection_id' = last_connection_id + 1
      BY <1>9 DEF Take, ClonePush, s
    <3>3. QED
      BY <3>1, <3>2
  <2>3. parent' = [parent EXCEPT ![s] = g]
    BY <1>2, <1>3, <1>4 DEF CidTypes
  <2>4. Distinct' /\ HaveCids'
    <3>1. made' = made
      BY <1>4
    <3>2. QED
      BY <1>2, <1>5, <1>9, <2>1, <2>2, <2>3, <3>1, GiveCid
  <2>5. Append(cid[g], last_connection_id + 1) \in Seq(Nat)
    BY <2>2 DEF CidTypes
  <2>6. CidTypes'
    BY <1>4, <1>5, <1>7, <2>2, <2>5 DEF CidTypes
  <2>7. QED
    BY <1>8, <2>4, <2>6
<1>10. CASE cid[s] # <<>>
  <2>1. UNCHANGED <<cid, last_connection_id>>
    BY <1>10 DEF Take, s
  <2>2. CidTypes'
    BY <1>4, <1>5, <1>7, <2>1 DEF CidTypes
  <2>3. \A t \in Streams : Numbered(t) => Numbered(t)'
    BY <1>4, <2>1 DEF Numbered, Used
  <2>4. HaveCids'
    BY <1>4, <1>5, <1>10, <2>1, <2>3 DEF HaveCids
  <2>5. QED
    BY <1>8, <2>1, <2>2, <2>4 DEF Distinct
<1>11. QED
  BY <1>9, <1>10

-----------------------------------------------------------------------------
(* The steps that give none *)

\* A stream that was folded ends up somewhere else than it was, and no channel
\* is touched.
LEMMA FoldedOn ==
  ASSUME CidInv, UNCHANGED <<cid, made, last_connection_id, parent, genQ, dealQ>>,
         NEW s \in Streams, st[s] \notin {"unused", "offered"},
         \E v \in {"send", "mux", "panicked"} : st' = [st EXCEPT ![s] = v],
         gen' = gen \/ gen' = [gen EXCEPT ![s] = "open"]
  PROVE  CidInv'
<1> PICK v \in {"send", "mux", "panicked"} : st' = [st EXCEPT ![s] = v]
  OBVIOUS
<1>1. DOMAIN st' = Streams /\ \A t \in Streams : st'[t] = IF t = s THEN v ELSE st[t]
  BY DEF CidInv, CidTypes
<1>2. /\ gen' \in [Gens -> {"none", "open", "closed"}]
      /\ \A t \in Streams : t # s => gen'[t] = gen[t]
  BY DEF CidInv, CidTypes, Gens
<1>3. \A t \in Streams : gen'[t] = "open" => st'[t] \notin {"unused", "offered"}
  BY <1>1, <1>2 DEF CidInv, Channels
<1>4. dealQ' \in [Inbounds -> Seq(Streams)]
  BY DEF CidInv, CidTypes
<1>5. \A i \in Inbounds : \A j \in DOMAIN dealQ[i] :
        dealQ[i][j] \in Streams /\ st[dealQ[i][j]] \notin {"unused", "offered"}
  BY DEF CidInv, CidTypes, Channels
<1>6. \A i \in Inbounds : \A j \in DOMAIN dealQ'[i] : st'[dealQ'[i][j]] \notin {"unused", "offered"}
  BY <1>1, <1>5
<1>7. QED
  BY <1>1, <1>2, <1>3, <1>4, <1>6, CidsStay DEF cidVars

LEMMA DealCid ==
  ASSUME CidInv, NEW s \in Streams, Deal(s)
  PROVE  CidInv'
<1>1. /\ st[s] = "send" /\ st' = [st EXCEPT ![s] = "dealt"]
      /\ dealQ' = [dealQ EXCEPT ![owner[s]] = Append(@, s)]
      /\ UNCHANGED <<cid, made, last_connection_id, parent, gen, genQ>>
  BY DEF Deal, genVars
<1>2. DOMAIN st' = Streams /\ \A t \in Streams : st'[t] = IF t = s THEN "dealt" ELSE st[t]
  BY <1>1 DEF CidInv, CidTypes
<1>3. dealQ \in [Inbounds -> Seq(Streams)] /\ dealQ' \in [Inbounds -> Seq(Streams)]
  <2>1. dealQ \in [Inbounds -> Seq(Streams)]
    BY DEF CidInv, CidTypes
  <2>2. CASE owner[s] \in Inbounds
    <3>1. Append(dealQ[owner[s]], s) \in Seq(Streams)
      BY <2>1, <2>2
    <3>2. QED
      BY <1>1, <2>1, <2>2, <3>1
  <2>3. CASE owner[s] \notin Inbounds
    <3>1. dealQ' = dealQ
      BY <1>1, <2>1, <2>3
    <3>2. QED
      BY <2>1, <3>1
  <2>4. QED
    BY <2>2, <2>3
<1>4. ASSUME NEW i \in Inbounds, NEW j \in DOMAIN dealQ[i]
      PROVE  dealQ[i][j] \in Streams /\ st'[dealQ[i][j]] \notin {"unused", "offered"}
  <2>1. dealQ[i] \in Seq(Streams)
    BY <1>3
  <2>2. dealQ[i][j] \in Streams /\ st[dealQ[i][j]] \notin {"unused", "offered"}
    BY <2>1 DEF CidInv, Channels
  <2>3. QED
    BY <1>2, <2>2
<1>5. ASSUME NEW i \in Inbounds, NEW j \in DOMAIN dealQ'[i]
      PROVE  st'[dealQ'[i][j]] \notin {"unused", "offered"}
  <2>1. dealQ'[i] = dealQ[i] \/ dealQ'[i] = Append(dealQ[i], s)
    BY <1>1, <1>3
  <2>2. dealQ[i] \in Seq(Streams)
    BY <1>3
  <2>3. CASE j \in DOMAIN dealQ[i]
    <3>1. dealQ'[i][j] = dealQ[i][j]
      BY <2>1, <2>2, <2>3
    <3>2. QED
      BY <1>4, <2>3, <3>1
  <2>4. CASE j \notin DOMAIN dealQ[i]
    <3>1. dealQ'[i][j] = s
      BY <1>5, <2>1, <2>2, <2>4
    <3>2. QED
      BY <1>2, <3>1
  <2>5. QED
    BY <2>3, <2>4
<1>6. /\ gen' \in [Gens -> {"none", "open", "closed"}]
      /\ \A t \in Streams : gen'[t] = "open" => st'[t] \notin {"unused", "offered"}
  BY <1>1, <1>2 DEF CidInv, CidTypes, Channels
<1>7. QED
  BY <1>1, <1>2, <1>3, <1>5, <1>6, CidsStay DEF cidVars

LEMMA HandleCid ==
  ASSUME CidInv, NEW i \in Inbounds, Handle(i)
  PROVE  CidInv'
<1> DEFINE s == Head(dealQ[i])
<1>1. /\ dealQ[i] # <<>> /\ st' = [st EXCEPT ![s] = "handled"]
      /\ dealQ' = [dealQ EXCEPT ![i] = Tail(@)]
      /\ UNCHANGED <<cid, made, last_connection_id, parent, gen, genQ>>
  BY DEF Handle, genVars
<1>2. dealQ \in [Inbounds -> Seq(Streams)] /\ dealQ' \in [Inbounds -> Seq(Streams)]
  <2>1. dealQ \in [Inbounds -> Seq(Streams)]
    BY DEF CidInv, CidTypes
  <2>2. Tail(dealQ[i]) \in Seq(Streams)
    BY <1>1, <2>1
  <2>3. QED
    BY <1>1, <2>1, <2>2
<1>3. s \in Streams /\ s = dealQ[i][1] /\ 1 \in DOMAIN dealQ[i]
  BY <1>1, <1>2
<1>4. st[s] \notin {"unused", "offered"}
  BY <1>3 DEF CidInv, Channels
<1>5. /\ \A h \in Inbounds : dealQ'[h] = IF h = i THEN Tail(dealQ[i]) ELSE dealQ[h]
      /\ \A j \in DOMAIN Tail(dealQ[i]) :
            j + 1 \in DOMAIN dealQ[i] /\ Tail(dealQ[i])[j] = dealQ[i][j + 1]
  BY <1>1, <1>2
<1> HIDE DEF s
<1>6. DOMAIN st' = Streams /\ \A t \in Streams : st'[t] = IF t = s THEN "handled" ELSE st[t]
  BY <1>1 DEF CidInv, CidTypes
<1>7. ASSUME NEW h \in Inbounds, NEW j \in DOMAIN dealQ[h]
      PROVE  st'[dealQ[h][j]] \notin {"unused", "offered"}
  <2>1. dealQ[h] \in Seq(Streams)
    BY <1>2
  <2>2. dealQ[h][j] \in Streams /\ st[dealQ[h][j]] \notin {"unused", "offered"}
    BY <2>1 DEF CidInv, Channels
  <2>3. QED
    BY <1>6, <2>2
<1>8. ASSUME NEW h \in Inbounds, NEW j \in DOMAIN dealQ'[h]
      PROVE  st'[dealQ'[h][j]] \notin {"unused", "offered"}
  <2>1. CASE h = i
    <3>1. dealQ'[h] = Tail(dealQ[i])
      BY <1>5, <2>1
    <3>2. j + 1 \in DOMAIN dealQ[i] /\ dealQ'[h][j] = dealQ[i][j + 1]
      BY <1>5, <3>1
    <3>3. QED
      BY <1>7, <3>2
  <2>2. CASE h # i
    <3>1. dealQ'[h] = dealQ[h]
      BY <1>5, <2>2
    <3>2. QED
      BY <1>7, <3>1
  <2>3. QED
    BY <2>1, <2>2
<1>9. /\ gen' \in [Gens -> {"none", "open", "closed"}]
      /\ \A t \in Streams : gen'[t] = "open" => st'[t] \notin {"unused", "offered"}
  BY <1>1, <1>6 DEF CidInv, CidTypes, Channels
<1>10. QED
  BY <1>1, <1>2, <1>3, <1>4, <1>6, <1>8, <1>9, CidsStay DEF cidVars

\* The inbounds and the generators that end, or never were one, and a first map
\* that makes a generator.
LEMMA NoStreamCid ==
  ASSUME CidInv, UNCHANGED <<cid, made, last_connection_id, parent, genQ, dealQ, st>>,
         \/ gen' = gen
         \/ \E i \in Inbounds : gen' = [gen EXCEPT ![i] = "open"]
         \/ \E g \in Gens : gen' = [gen EXCEPT ![g] = "closed"]
  PROVE  CidInv'
<1>1. Inbounds \subseteq Gens /\ Streams \subseteq Gens /\ Inbounds \cap Streams = {}
  BY IdsAssumption DEF Gens
<1>2. gen \in [Gens -> {"none", "open", "closed"}]
  BY DEF CidInv, CidTypes
<1>3. gen' \in [Gens -> {"none", "open", "closed"}]
  BY <1>1, <1>2
<1>4. \A t \in Streams : gen'[t] = "open" => gen[t] = "open"
  BY <1>1, <1>2
<1>5. /\ DOMAIN st' = Streams /\ dealQ' \in [Inbounds -> Seq(Streams)]
      /\ \A t \in Streams : gen'[t] = "open" => st'[t] \notin {"unused", "offered"}
      /\ \A i \in Inbounds : \A j \in DOMAIN dealQ'[i] : st'[dealQ'[i][j]] \notin {"unused", "offered"}
  BY <1>4 DEF CidInv, CidTypes, Channels
<1>6. QED
  BY <1>3, <1>5, CidsStay DEF cidVars

-----------------------------------------------------------------------------
LEMMA CidNext == CidInv /\ [Next]_vars => CidInv'
<1> SUFFICES ASSUME CidInv, [Next]_vars PROVE CidInv'
  OBVIOUS
<1> USE DEF genVars, dealVars
<1>1. ASSUME NEW i \in Inbounds, Inbound(i) PROVE CidInv'
  <2>1. CASE FirstErr(i)
    BY <2>1, NoStreamCid DEF FirstErr
  <2>2. CASE FirstNone(i)
    BY <2>2, NoStreamCid DEF FirstNone
  <2>3. CASE FirstGenerator(i)
    BY <2>3, NoStreamCid DEF FirstGenerator
  <2>4. CASE \E s \in Streams : FirstDirect(i, s)
    BY <2>4, FirstDirectCid
  <2>5. CASE Handle(i)
    BY <2>5, HandleCid
  <2>6. CASE LoopAEnd(i)
    BY <2>6, NoStreamCid DEF LoopAEnd
  <2>7. QED
    BY <1>1, <2>1, <2>2, <2>3, <2>4, <2>5, <2>6 DEF Inbound
<1>2. ASSUME NEW g \in Gens, Generator(g) PROVE CidInv'
  <2>1. CASE \E s \in Streams : Produce(g, s)
    BY <2>1, ProduceCid
  <2>2. CASE ProducerEnd(g)
    BY <2>2, NoStreamCid DEF ProducerEnd
  <2>3. CASE Take(g)
    BY <2>3, TakeCid
  <2>4. CASE IterEnd(g)
    BY <2>4, NoStreamCid DEF IterEnd
  <2>5. QED
    BY <1>2, <2>1, <2>2, <2>3, <2>4 DEF Generator
<1>3. ASSUME NEW s \in Streams, Folding(s) PROVE CidInv'
  <2>1. CASE MapOk(s)
    BY <2>1, NoStreamCid DEF MapOk
  <2>2. CASE MapBreak(s)
    <3>1. /\ st[s] = "fold" /\ st' = [st EXCEPT ![s] = "send"] /\ gen' = gen
          /\ UNCHANGED <<cid, made, last_connection_id, parent, genQ, dealQ>>
      BY <2>2 DEF MapBreak, NextMap
    <3>2. QED
      BY <3>1, FoldedOn
  <2>3. CASE MapGenerator(s)
    <3>1. /\ st[s] = "fold"
          /\ UNCHANGED <<cid, made, last_connection_id, parent, genQ, dealQ>>
      BY <2>3 DEF MapGenerator, NextMap
    <3>2. CASE first[owner[s]] = "direct" /\ parent[s] = owner[s]
      <4>1. st' = [st EXCEPT ![s] = "send"] /\ gen' = gen
        BY <2>3, <3>2 DEF MapGenerator
      <4>2. QED
        BY <3>1, <4>1, FoldedOn
    <3>3. CASE ~(first[owner[s]] = "direct" /\ parent[s] = owner[s])
      <4>1. st' = [st EXCEPT ![s] = "mux"] /\ gen' = [gen EXCEPT ![s] = "open"]
        BY <2>3, <3>3 DEF MapGenerator
      <4>2. QED
        BY <3>1, <4>1, FoldedOn
    <3>4. QED
      BY <3>2, <3>3
  <2>4. CASE FoldEnd(s)
    <3>1. /\ st[s] = "fold" /\ st' = [st EXCEPT ![s] = "send"] /\ gen' = gen
          /\ UNCHANGED <<cid, made, last_connection_id, parent, genQ, dealQ>>
      BY <2>4 DEF FoldEnd
    <3>2. QED
      BY <3>1, FoldedOn
  <2>5. CASE FoldPanic(s)
    <3>1. /\ st[s] = "fold" /\ st' = [st EXCEPT ![s] = "panicked"] /\ gen' = gen
          /\ UNCHANGED <<cid, made, last_connection_id, parent, genQ, dealQ>>
      BY <2>5 DEF FoldPanic
    <3>2. QED
      BY <3>1, FoldedOn
  <2>6. CASE Deal(s)
    BY <2>6, DealCid
  <2>7. QED
    BY <1>3, <2>1, <2>2, <2>3, <2>4, <2>5, <2>6 DEF Folding
<1>4. CASE UNCHANGED vars
  BY <1>4, NoStreamCid DEF vars
<1>5. QED
  BY <1>1, <1>2, <1>3, <1>4 DEF Next

LEMMA CidInvImplies == CidInv => CidsDistinct
<1> SUFFICES ASSUME CidInv PROVE CidsDistinct
  OBVIOUS
<1>1. \A s \in Folded : s \in Streams /\ s \in Gens /\ cid[s] # <<>>
  BY DEF Folded, CidInv, HaveCids, Gens
<1>2. \A s, t \in Folded : cid[s] = cid[t] => s = t
  BY <1>1 DEF CidInv, Distinct
<1>3. ASSUME NEW s \in Folded
      PROVE  \E n \in 1..(last_connection_id + made[parent[s]]) : cid[s] = Append(cid[parent[s]], n)
  <2>1. PICK n \in 1..Used(parent[s]) : cid[s] = Append(cid[parent[s]], n)
    BY <1>1 DEF CidInv, HaveCids, Numbered
  <2>2. last_connection_id \in Nat /\ made[parent[s]] \in Nat
    BY <1>1 DEF CidInv, CidTypes
  <2>3. n \in 1..(last_connection_id + made[parent[s]])
    BY <2>1, <2>2 DEF Used
  <2>4. QED
    BY <2>1, <2>3
<1>4. QED
  BY <1>2, <1>3 DEF CidsDistinct

\* For any inbounds, streams, chains and scripts: however the folds and the
\* multiplexers interleave, CID::clone_push and the multiplexers never give the
\* same cid to two streams, and each is one number below its generator.
THEOREM CidsCorrect == Spec => []CidsDistinct
<1>1. CidInv => CidsDistinct
  BY CidInvImplies
<1>2. QED
  BY <1>1, CidInit, CidNext, PTL DEF Spec

-----------------------------------------------------------------------------
(* Where streams and results wait: an inductive invariant for NoResultLost *)

FlowTypes ==
  /\ first \in [Inbounds -> {"pending", "err", "generator", "direct"}]
  /\ iter \in [Gens -> {"none", "run", "ended"}]
  /\ st \in [Streams -> {"unused", "offered", "fold", "send", "mux", "panicked", "dealt", "handled"}]
  /\ owner \in [Gens -> Gens]
  /\ loop_a \in [Inbounds -> {"run", "ended"}]

\* A stream belongs to the inbound that its generator belongs to.
Owners ==
  /\ \A i \in Inbounds : owner[i] = i
  /\ \A s \in Streams : /\ st[s] = "unused" => owner[s] = s
                        /\ st[s] # "unused" => owner[s] \in Inbounds /\ owner[parent[s]] = owner[s]

\* What was run for g is all that ever will be.
Fixed(g) == IF g \in Inbounds THEN first[g] \in {"generator", "direct"} ELSE st[g] = "mux"

\* A generator is taken from until it is closed and empty.
Generators ==
  /\ \A g \in Gens : /\ gen[g] = "open" => iter[g] = "run"
                     /\ genQ[g] # <<>> => iter[g] = "run"
                     /\ iter[g] = "run" => Fixed(g)
  /\ \A s \in Streams : st[s] # "unused" => Fixed(parent[s])

\* What was accepted waits once in the channel of its generator.
Offered ==
  /\ \A g \in Gens : \A j \in DOMAIN genQ[g] : st[genQ[g][j]] = "offered"
  /\ \A g \in Gens : \A j, k \in DOMAIN genQ[g] : genQ[g][j] = genQ[g][k] => j = k
  /\ \A s \in Streams : st[s] = "offered" =>
       \E j \in DOMAIN genQ[parent[s]] : genQ[parent[s]][j] = s

\* What was dealt waits in the channel of its inbound.
Dealt ==
  /\ \A i \in Inbounds : \A j \in DOMAIN dealQ[i] : st[dealQ[i][j]] \in {"dealt", "handled"}
  /\ \A s \in Streams : st[s] = "dealt" =>
       \E j \in DOMAIN dealQ[owner[s]] : dealQ[owner[s]][j] = s

\* Once loop_a has ended, nothing of its inbound can deal any more.
OverForGood ==
  \A i \in Inbounds : loop_a[i] = "ended" =>
    /\ dealQ[i] = <<>> /\ first[i] # "pending"
    /\ \A g \in Gens : owner[g] = i => iter[g] # "run"
    /\ \A s \in Streams : owner[s] = i => st[s] \notin {"fold", "send"}

FlowInv == FlowTypes /\ Owners /\ Generators /\ Offered /\ Dealt /\ OverForGood

FlowSafe == CidInv /\ FlowInv

-----------------------------------------------------------------------------
(* Queues *)

LEMMA AppendElements ==
  ASSUME NEW S, NEW q \in Seq(S), NEW e \in S
  PROVE  /\ Append(q, e) \in Seq(S) /\ Append(q, e) # <<>>
         /\ \A j \in DOMAIN q : j \in DOMAIN Append(q, e) /\ Append(q, e)[j] = q[j]
         /\ \A j \in DOMAIN Append(q, e) \ DOMAIN q : Append(q, e)[j] = e
         /\ \E j \in DOMAIN Append(q, e) : Append(q, e)[j] = e
         /\ \A j, k \in DOMAIN Append(q, e) \ DOMAIN q : j = k
<1>1. Append(q, e)[Len(q) + 1] = e /\ DOMAIN Append(q, e) = 1..(Len(q) + 1) /\ DOMAIN q = 1..Len(q) /\ Len(q) \in Nat
  OBVIOUS
<1>2. QED
  BY <1>1

LEMMA TailElements ==
  ASSUME NEW S, NEW q \in Seq(S), q # <<>>
  PROVE  /\ Tail(q) \in Seq(S) /\ Head(q) \in S /\ 1 \in DOMAIN q /\ Head(q) = q[1]
         /\ \A j \in DOMAIN Tail(q) : j + 1 \in DOMAIN q /\ Tail(q)[j] = q[j + 1] /\ j \in Nat /\ j # 0
         /\ \A j \in DOMAIN q : j # 1 => j - 1 \in DOMAIN Tail(q) /\ Tail(q)[j - 1] = q[j]
<1>1. Len(q) \in Nat \ {0} /\ DOMAIN q = 1..Len(q) /\ DOMAIN Tail(q) = 1..(Len(q) - 1)
  OBVIOUS
<1>2. \A j \in 1..(Len(q) - 1) : Tail(q)[j] = q[j + 1]
  OBVIOUS
<1>3. \A j \in DOMAIN q : j # 1 => j - 1 \in 1..(Len(q) - 1) /\ (j - 1) + 1 = j
  BY <1>1
<1>4. Tail(q) \in Seq(S) /\ Head(q) \in S /\ Head(q) = q[1]
  OBVIOUS
<1>5. QED
  BY <1>1, <1>2, <1>3, <1>4

-----------------------------------------------------------------------------
LEMMA FlowInit == Init => FlowInv
  BY IdsAssumption
  DEF Init, FlowInv, FlowTypes, Owners, Generators, Fixed, Offered, Dealt, OverForGood, Gens

\* Steps of an inbound, and the ends of producers and generators.
LEMMA FlowInbound ==
  ASSUME FlowSafe, NEW i \in Inbounds, FirstErr(i) \/ FirstNone(i) \/ FirstGenerator(i) \/ LoopAEnd(i)
  PROVE  FlowInv'
<1> USE DEF FlowSafe, FlowInv
<1>1. Inbounds \subseteq Gens /\ Streams \subseteq Gens /\ Inbounds \cap Streams = {}
  BY IdsAssumption DEF Gens
<1>2. /\ UNCHANGED <<st, owner, parent, genQ, dealQ>>
      /\ \/ UNCHANGED <<gen, iter>>
            /\ \/ UNCHANGED first /\ first[i] # "pending"
               \/ first[i] = "pending" /\ first' = [first EXCEPT ![i] = "err"]
         \/ /\ first[i] = "pending" /\ first' = [first EXCEPT ![i] = "generator"]
            /\ gen' = [gen EXCEPT ![i] = "open"] /\ iter' = [iter EXCEPT ![i] = "run"]
      /\ UNCHANGED loop_a \/ LoopAEnd(i)
  BY DEF FirstErr, FirstNone, FirstGenerator, LoopAEnd, RunFirst, genVars, dealVars, Dealers
<1>3. \A h \in Inbounds : first'[h] = first[h] \/ (h = i /\ first[i] = "pending" /\ first'[h] \in {"err", "generator"})
  BY <1>2 DEF FlowTypes
<1>4. \A g \in Gens : UNCHANGED <<gen[g], iter[g]>> \/ (g = i /\ iter'[g] = "run" /\ first'[g] = "generator")
  BY <1>1, <1>2 DEF FlowTypes, CidInv, CidTypes
<1>5. FlowTypes'
  BY <1>1, <1>2 DEF FlowTypes, LoopAEnd
<1>6. Owners'
  BY <1>2 DEF Owners
<1>7. \A g \in Gens : Fixed(g) => Fixed(g)'
  BY <1>2, <1>3 DEF Fixed
<1>8. Generators'
  <2>1. \A g \in Gens : /\ gen'[g] = "open" => iter'[g] = "run"
                        /\ genQ'[g] # <<>> => iter'[g] = "run"
                        /\ iter'[g] = "run" => Fixed(g)'
    BY <1>2, <1>4, <1>7 DEF Generators, Fixed
  <2>2. \A s \in Streams : st'[s] # "unused" => Fixed(parent[s])'
    BY <1>2, <1>7 DEF Generators, CidInv, CidTypes
  <2>3. QED
    BY <1>2, <2>1, <2>2 DEF Generators, Fixed
<1>9. Offered' /\ Dealt'
  BY <1>2 DEF Offered, Dealt
<1>10. OverForGood'
  <2>1. CASE UNCHANGED loop_a
    <3>1. first[i] = "pending" => loop_a[i] # "ended"
      BY DEF OverForGood
    <3>2. \A h \in Inbounds : loop_a[h] = "ended" => first'[h] # "pending"
      BY <1>3 DEF OverForGood
    <3>3. \A g \in Gens : iter'[g] = "run" => iter[g] = "run" \/ (g = i /\ first[i] = "pending")
      BY <1>1, <1>2 DEF FlowTypes
    <3>4. QED
      BY <1>2, <2>1, <3>1, <3>2, <3>3 DEF OverForGood, Owners
  <2>2. CASE LoopAEnd(i)
    <3>1. /\ dealQ[i] = <<>> /\ Dealers(i) = {} /\ loop_a' = [loop_a EXCEPT ![i] = "ended"]
          /\ UNCHANGED <<first, iter, st, owner, dealQ>>
      BY <2>2 DEF LoopAEnd, genVars
    <3>2. \A g \in Gens : owner[g] = i => iter[g] # "run" /\ (g \in Streams => st[g] \notin {"fold", "send"})
      BY <3>1 DEF Dealers
    <3>3. first[i] # "pending"
      BY <3>1 DEF Dealers
    <3>4. QED
      BY <1>1, <3>1, <3>2, <3>3 DEF OverForGood, FlowTypes
  <2>3. QED
    BY <1>2, <2>1, <2>2
<1>11. QED
  BY <1>5, <1>6, <1>8, <1>9, <1>10

LEMMA FlowEnd ==
  ASSUME FlowSafe, NEW g \in Gens, ProducerEnd(g) \/ IterEnd(g)
  PROVE  FlowInv'
<1> USE DEF FlowSafe, FlowInv
<1>1. /\ UNCHANGED <<first, st, owner, parent, genQ, dealQ, loop_a>>
      /\ \/ gen' = [gen EXCEPT ![g] = "closed"] /\ UNCHANGED iter
         \/ /\ iter' = [iter EXCEPT ![g] = "ended"] /\ UNCHANGED gen
            /\ gen[g] = "closed" /\ genQ[g] = <<>>
  BY DEF ProducerEnd, IterEnd, dealVars
<1>2. \A h \in Gens : /\ gen'[h] = "open" => gen[h] = "open"
                      /\ iter'[h] = iter[h] \/ (h = g /\ gen[h] = "closed" /\ genQ[h] = <<>> /\ gen' = gen)
                      /\ iter'[h] = "run" => iter[h] = "run"
  BY <1>1 DEF FlowTypes, CidInv, CidTypes
<1>3. FlowTypes' /\ Owners' /\ Offered' /\ Dealt'
  BY <1>1 DEF FlowTypes, Owners, Offered, Dealt
<1>4. Generators'
  BY <1>1, <1>2 DEF Generators, Fixed
<1>5. OverForGood'
  BY <1>1, <1>2 DEF OverForGood
<1>6. QED
  BY <1>3, <1>4, <1>5

\* A fold goes on or comes to its end.
LEMMA FlowFold ==
  ASSUME FlowSafe, NEW s \in Streams,
         MapOk(s) \/ MapBreak(s) \/ MapGenerator(s) \/ FoldEnd(s) \/ FoldPanic(s)
  PROVE  FlowInv'
<1> USE DEF FlowSafe, FlowInv
<1>1. Inbounds \subseteq Gens /\ s \in Gens /\ s \notin Inbounds
  BY IdsAssumption DEF Gens
<1>2. /\ UNCHANGED <<first, owner, parent, genQ, dealQ, loop_a>> /\ st[s] = "fold"
      /\ \/ UNCHANGED <<gen, iter>> /\ UNCHANGED st
         \/ UNCHANGED <<gen, iter>> /\ st' = [st EXCEPT ![s] = "send"]
         \/ UNCHANGED <<gen, iter>> /\ st' = [st EXCEPT ![s] = "panicked"]
         \/ /\ st' = [st EXCEPT ![s] = "mux"]
            /\ gen' = [gen EXCEPT ![s] = "open"] /\ iter' = [iter EXCEPT ![s] = "run"]
  BY DEF MapOk, MapBreak, MapGenerator, FoldEnd, FoldPanic, NextMap, genVars, dealVars
<1>3. /\ \A t \in Streams : st'[t] = st[t] \/ (t = s /\ st'[t] \in {"send", "panicked", "mux"})
      /\ \A g \in Gens : UNCHANGED <<gen[g], iter[g]>> \/ (g = s /\ iter'[g] = "run" /\ st'[s] = "mux")
  BY <1>1, <1>2 DEF FlowTypes, CidInv, CidTypes
<1>4. FlowTypes'
  BY <1>1, <1>2 DEF FlowTypes
<1>5. Owners'
  BY <1>2, <1>3 DEF Owners
<1>6. \A g \in Gens : Fixed(g) => Fixed(g)'
  BY <1>2, <1>3 DEF Fixed, Gens
<1>7. Generators'
  <2>1. \A g \in Gens : /\ gen'[g] = "open" => iter'[g] = "run"
                        /\ genQ'[g] # <<>> => iter'[g] = "run"
                        /\ iter'[g] = "run" => Fixed(g)'
    BY <1>1, <1>2, <1>3, <1>6 DEF Generators, Fixed
  <2>2. \A t \in Streams : st'[t] # "unused" => Fixed(parent[t])'
    BY <1>2, <1>3, <1>6 DEF Generators, CidInv, CidTypes
  <2>3. QED
    BY <1>2, <2>1, <2>2 DEF Generators, Fixed
<1>8. Offered'
  <2>1. \A g \in Gens : \A j \in DOMAIN genQ[g] : genQ[g][j] \in Streams
    BY DEF CidInv, CidTypes
  <2>2. QED
    BY <1>2, <1>3, <2>1 DEF Offered
<1>9. Dealt'
  <2>1. \A i \in Inbounds : \A j \in DOMAIN dealQ[i] : dealQ[i][j] \in Streams
    BY DEF CidInv, CidTypes
  <2>2. QED
    BY <1>2, <1>3, <2>1 DEF Dealt
<1>10. OverForGood'
  <2>1. owner[s] \in Inbounds /\ loop_a[owner[s]] # "ended"
    BY <1>2 DEF Owners, OverForGood
  <2>2. QED
    BY <1>2, <1>3, <2>1 DEF OverForGood
<1>11. QED
  BY <1>4, <1>5, <1>7, <1>8, <1>9, <1>10

LEMMA FlowFirstDirect ==
  ASSUME FlowSafe, NEW i \in Inbounds, NEW s \in Streams, FirstDirect(i, s)
  PROVE  FlowInv'
<1> USE DEF FlowSafe, FlowInv
<1>1. Inbounds \subseteq Gens /\ s \in Gens /\ s \notin Inbounds
  BY IdsAssumption DEF Gens
<1>2. /\ UNCHANGED <<gen, iter, genQ, dealQ, loop_a>> /\ st[s] = "unused" /\ first[i] = "pending"
      /\ st' = [st EXCEPT ![s] = "fold"] /\ owner' = [owner EXCEPT ![s] = i]
      /\ parent' = [parent EXCEPT ![s] = i] /\ first' = [first EXCEPT ![i] = "direct"]
  BY DEF FirstDirect, Fresh, RunFirst, genVars, dealVars
<1>3. /\ \A t \in Streams : t # s => st'[t] = st[t] /\ parent'[t] = parent[t]
      /\ st'[s] = "fold" /\ parent'[s] = i
      /\ \A g \in Gens : owner'[g] = IF g = s THEN i ELSE owner[g]
      /\ \A h \in Inbounds : first'[h] = IF h = i THEN "direct" ELSE first[h]
  BY <1>1, <1>2 DEF FlowTypes, CidInv, CidTypes
<1>4. FlowTypes'
  BY <1>1, <1>2 DEF FlowTypes
<1>5. \A t \in Streams : t # s /\ st[t] # "unused" => parent[t] # s /\ parent[t] \in Gens
  <2>1. owner[s] = s
    BY <1>2 DEF Owners
  <2>2. \A t \in Streams : st[t] # "unused" => owner[t] \in Inbounds /\ owner[parent[t]] = owner[t]
    BY DEF Owners
  <2>3. \A t \in Streams : parent[t] \in Gens
    BY DEF CidInv, CidTypes
  <2>4. QED
    BY <1>1, <2>1, <2>2, <2>3
<1>6. Owners'
  <2>1. owner'[i] = i /\ \A h \in Inbounds : owner'[h] = h
    BY <1>1, <1>3 DEF Owners
  <2>2. ASSUME NEW t \in Streams, t # s
        PROVE  /\ st'[t] = "unused" => owner'[t] = t
               /\ st'[t] # "unused" => owner'[t] \in Inbounds /\ owner'[parent'[t]] = owner'[t]
    <3>1. owner'[t] = owner[t] /\ st'[t] = st[t] /\ parent'[t] = parent[t]
      BY <1>3, <2>2 DEF Gens
    <3>2. st[t] # "unused" => owner'[parent[t]] = owner[parent[t]]
      BY <1>3, <1>5, <2>2
    <3>3. QED
      BY <3>1, <3>2 DEF Owners
  <2>3. st'[s] # "unused" /\ owner'[s] = i /\ parent'[s] = i
    BY <1>1, <1>3
  <2>4. QED
    BY <2>1, <2>2, <2>3 DEF Owners
<1>7. \A g \in Gens : Fixed(g) => Fixed(g)'
  BY <1>1, <1>2, <1>3 DEF Fixed, Gens
<1>8. Generators'
  <2>1. \A g \in Gens : /\ gen'[g] = "open" => iter'[g] = "run"
                        /\ genQ'[g] # <<>> => iter'[g] = "run"
                        /\ iter'[g] = "run" => Fixed(g)'
    BY <1>2, <1>7 DEF Generators
  <2>2. \A t \in Streams : st'[t] # "unused" => Fixed(parent[t])'
    <3>1. Fixed(i)'
      BY <1>3 DEF Fixed
    <3>2. QED
      BY <1>3, <1>5, <1>7, <3>1 DEF Generators
  <2>3. QED
    BY <2>1, <2>2 DEF Generators, Fixed
<1>9. Offered'
  <2>1. \A g \in Gens : \A j \in DOMAIN genQ[g] : genQ[g][j] \in Streams /\ genQ[g][j] # s
    BY <1>2 DEF CidInv, CidTypes, Offered
  <2>2. QED
    BY <1>2, <1>3, <2>1 DEF Offered
<1>10. Dealt'
  <2>1. \A h \in Inbounds : \A j \in DOMAIN dealQ[h] : dealQ[h][j] \in Streams /\ dealQ[h][j] # s
    <3>1. \A h \in Inbounds : dealQ[h] \in Seq(Streams)
      BY DEF CidInv, CidTypes
    <3>2. \A h \in Inbounds : \A j \in DOMAIN dealQ[h] : st[dealQ[h][j]] \in {"dealt", "handled"}
      BY DEF Dealt
    <3>3. QED
      BY <1>2, <3>1, <3>2
  <2>2. \A t \in Streams : t # s => owner'[t] = owner[t]
    BY <1>3 DEF Gens
  <2>3. QED
    BY <1>2, <1>3, <2>1, <2>2 DEF Dealt
<1>11. OverForGood'
  <2>1. loop_a[i] # "ended"
    BY <1>2 DEF OverForGood
  <2>2. \A t \in Streams : t # s => owner'[t] = owner[t]
    BY <1>3 DEF Gens
  <2>3. iter[s] # "run" \/ owner'[s] = i
    BY <1>3, <1>1
  <2>4. QED
    BY <1>1, <1>2, <1>3, <2>1, <2>2 DEF OverForGood
<1>12. QED
  BY <1>4, <1>6, <1>8, <1>9, <1>10, <1>11

LEMMA FlowProduce ==
  ASSUME FlowSafe, NEW g \in Gens, NEW s \in Streams, Produce(g, s)
  PROVE  FlowInv'
<1> USE DEF FlowSafe, FlowInv
<1>1. Inbounds \subseteq Gens /\ s \in Gens /\ s \notin Inbounds
  BY IdsAssumption DEF Gens
<1>2. /\ UNCHANGED <<gen, iter, first, dealQ, loop_a>> /\ st[s] = "unused" /\ gen[g] = "open"
      /\ st' = [st EXCEPT ![s] = "offered"] /\ owner' = [owner EXCEPT ![s] = owner[g]]
      /\ parent' = [parent EXCEPT ![s] = g] /\ genQ' = [genQ EXCEPT ![g] = Append(@, s)]
  BY DEF Produce, Fresh, dealVars
<1>3. /\ \A t \in Streams : t # s => st'[t] = st[t] /\ parent'[t] = parent[t]
      /\ st'[s] = "offered" /\ parent'[s] = g
      /\ \A h \in Gens : owner'[h] = IF h = s THEN owner[g] ELSE owner[h]
      /\ \A h \in Gens : genQ'[h] = IF h = g THEN Append(genQ[g], s) ELSE genQ[h]
      /\ genQ[g] \in Seq(Streams)
  BY <1>1, <1>2 DEF FlowTypes, CidInv, CidTypes
<1>4. FlowTypes'
  <2>1. owner[g] \in Gens
    BY DEF FlowTypes
  <2>2. QED
    BY <1>1, <1>2, <2>1 DEF FlowTypes
<1>5. \A t \in Streams : t # s /\ st[t] # "unused" => parent[t] # s /\ parent[t] \in Gens
  <2>1. owner[s] = s
    BY <1>2 DEF Owners
  <2>2. \A t \in Streams : st[t] # "unused" => owner[t] \in Inbounds /\ owner[parent[t]] = owner[t]
    BY DEF Owners
  <2>3. \A t \in Streams : parent[t] \in Gens
    BY DEF CidInv, CidTypes
  <2>4. QED
    BY <1>1, <2>1, <2>2, <2>3
<1>6. iter[g] = "run" /\ Fixed(g) /\ g # s
  BY <1>1, <1>2 DEF Generators, Fixed
<1>7. owner[g] \in Inbounds
  BY <1>6 DEF Owners, Fixed, Gens
<1>8. Owners'
  <2>1. \A h \in Inbounds : owner'[h] = h
    BY <1>1, <1>3 DEF Owners
  <2>2. ASSUME NEW t \in Streams, t # s
        PROVE  /\ st'[t] = "unused" => owner'[t] = t
               /\ st'[t] # "unused" => owner'[t] \in Inbounds /\ owner'[parent'[t]] = owner'[t]
    <3>1. owner'[t] = owner[t] /\ st'[t] = st[t] /\ parent'[t] = parent[t]
      BY <1>3, <2>2 DEF Gens
    <3>2. st[t] # "unused" => owner'[parent[t]] = owner[parent[t]]
      BY <1>3, <1>5, <2>2
    <3>3. QED
      BY <3>1, <3>2 DEF Owners
  <2>3. st'[s] # "unused" /\ owner'[s] = owner[g] /\ parent'[s] = g /\ owner'[g] = owner[g]
    BY <1>1, <1>3, <1>6
  <2>4. QED
    BY <1>7, <2>1, <2>2, <2>3 DEF Owners
<1>9. \A h \in Gens : Fixed(h) => Fixed(h)'
  BY <1>1, <1>2, <1>3 DEF Fixed, Gens
<1>10. Generators'
  <2>1. \A h \in Gens : /\ gen'[h] = "open" => iter'[h] = "run"
                        /\ genQ'[h] # <<>> => iter'[h] = "run"
                        /\ iter'[h] = "run" => Fixed(h)'
    BY <1>2, <1>3, <1>6, <1>9 DEF Generators
  <2>2. \A t \in Streams : st'[t] # "unused" => Fixed(parent[t])'
    BY <1>3, <1>5, <1>6, <1>9 DEF Generators
  <2>3. QED
    BY <2>1, <2>2 DEF Generators, Fixed
<1>11. Offered'
  <2>1. \A h \in Gens : \A j \in DOMAIN genQ[h] : genQ[h][j] \in Streams /\ genQ[h][j] # s
    BY <1>2 DEF CidInv, CidTypes, Offered
  <2>2. /\ \A j \in DOMAIN genQ[g] : j \in DOMAIN genQ'[g] /\ genQ'[g][j] = genQ[g][j]
        /\ \A j \in DOMAIN genQ'[g] \ DOMAIN genQ[g] : genQ'[g][j] = s
        /\ \E j \in DOMAIN genQ'[g] : genQ'[g][j] = s
        /\ \A j, k \in DOMAIN genQ'[g] \ DOMAIN genQ[g] : j = k
    <3>1. genQ'[g] = Append(genQ[g], s) /\ genQ[g] \in Seq(Streams)
      BY <1>3
    <3>2. QED
      BY <3>1, AppendElements
  <2>3. \A h \in Gens : \A j \in DOMAIN genQ'[h] : st'[genQ'[h][j]] = "offered"
    BY <1>3, <2>1, <2>2 DEF Offered
  <2>4. \A h \in Gens : \A j, k \in DOMAIN genQ'[h] : genQ'[h][j] = genQ'[h][k] => j = k
    <3>1. CASE TRUE
      <4>1. \A j, k \in DOMAIN genQ'[g] : genQ'[g][j] = genQ'[g][k] => j = k
        BY <2>1, <2>2 DEF Offered
      <4>2. QED
        BY <1>3, <4>1 DEF Offered
    <3>2. QED
      BY <3>1
  <2>5. ASSUME NEW t \in Streams, st'[t] = "offered"
        PROVE  \E j \in DOMAIN genQ'[parent'[t]] : genQ'[parent'[t]][j] = t
    <3>1. CASE t = s
      BY <1>3, <2>2, <3>1
    <3>2. CASE t # s
      <4>1. PICK j \in DOMAIN genQ[parent[t]] : genQ[parent[t]][j] = t
        BY <1>3, <2>5, <3>2 DEF Offered
      <4>2. parent'[t] = parent[t] /\ parent[t] \in Gens
        BY <1>3, <1>5, <2>5, <3>2
      <4>3. j \in DOMAIN genQ'[parent[t]] /\ genQ'[parent[t]][j] = t
        BY <1>3, <2>2, <4>1, <4>2
      <4>4. QED
        BY <4>2, <4>3
    <3>3. QED
      BY <3>1, <3>2
  <2>6. QED
    BY <2>3, <2>4, <2>5 DEF Offered
<1>12. Dealt'
  <2>1. \A h \in Inbounds : \A j \in DOMAIN dealQ[h] : dealQ[h][j] \in Streams /\ dealQ[h][j] # s
    <3>1. \A h \in Inbounds : dealQ[h] \in Seq(Streams)
      BY DEF CidInv, CidTypes
    <3>2. \A h \in Inbounds : \A j \in DOMAIN dealQ[h] : st[dealQ[h][j]] \in {"dealt", "handled"}
      BY DEF Dealt
    <3>3. QED
      BY <1>2, <3>1, <3>2
  <2>2. \A t \in Streams : t # s => owner'[t] = owner[t]
    BY <1>3 DEF Gens
  <2>3. \A h \in Inbounds : \A j \in DOMAIN dealQ'[h] : st'[dealQ'[h][j]] \in {"dealt", "handled"}
    BY <1>2, <1>3, <2>1 DEF Dealt
  <2>4. ASSUME NEW t \in Streams, st'[t] = "dealt"
        PROVE  \E j \in DOMAIN dealQ'[owner'[t]] : dealQ'[owner'[t]][j] = t
    <3>1. st[t] = "dealt" /\ owner'[t] = owner[t] /\ dealQ' = dealQ
      BY <1>2, <1>3, <2>2, <2>4
    <3>2. QED
      BY <3>1 DEF Dealt
  <2>5. QED
    BY <2>3, <2>4 DEF Dealt
<1>13. OverForGood'
  <2>1. loop_a[owner[g]] # "ended"
    BY <1>6, <1>7 DEF OverForGood
  <2>2. \A t \in Streams : t # s => owner'[t] = owner[t]
    BY <1>3 DEF Gens
  <2>3. QED
    BY <1>1, <1>2, <1>3, <2>1, <2>2 DEF OverForGood
<1>14. QED
  BY <1>4, <1>8, <1>10, <1>11, <1>12, <1>13

LEMMA FlowTake ==
  ASSUME FlowSafe, NEW g \in Gens, Take(g)
  PROVE  FlowInv'
<1> USE DEF FlowSafe, FlowInv
<1>1. Inbounds \subseteq Gens /\ Inbounds \cap Streams = {}
  BY IdsAssumption DEF Gens
<1>2. genQ[g] \in Seq(Streams) /\ genQ[g] # <<>> /\ iter[g] = "run"
  BY DEF Take, CidInv, CidTypes
<1>3. PICK s \in Streams : s = Head(genQ[g])
  BY <1>2
<1>4. /\ s = genQ[g][1] /\ 1 \in DOMAIN genQ[g]
      /\ \A j \in DOMAIN Tail(genQ[g]) : j + 1 \in DOMAIN genQ[g] /\ Tail(genQ[g])[j] = genQ[g][j + 1] /\ j \in Nat /\ j # 0
      /\ \A j \in DOMAIN genQ[g] : j # 1 => j - 1 \in DOMAIN Tail(genQ[g]) /\ Tail(genQ[g])[j - 1] = genQ[g][j]
  BY <1>2, <1>3, TailElements
<1>5. /\ UNCHANGED <<first, gen, iter, parent, owner, dealQ, loop_a>>
      /\ st' = [st EXCEPT ![s] = "fold"] /\ genQ' = [genQ EXCEPT ![g] = Tail(@)]
  BY <1>3 DEF Take, dealVars
<1>6. /\ \A t \in Streams : st'[t] = IF t = s THEN "fold" ELSE st[t]
      /\ \A h \in Gens : genQ'[h] = IF h = g THEN Tail(genQ[g]) ELSE genQ[h]
  BY <1>5 DEF FlowTypes, CidInv, CidTypes
<1>7. st[s] = "offered" /\ parent[s] = g
  BY <1>4 DEF Offered, CidInv, Channels
<1>8. FlowTypes' /\ Owners'
  <2>1. FlowTypes'
    BY <1>5 DEF FlowTypes
  <2>2. Owners'
    BY <1>5, <1>6, <1>7 DEF Owners
  <2>3. QED
    BY <2>1, <2>2
<1>9. \A h \in Gens : Fixed(h) => Fixed(h)'
  BY <1>5, <1>6, <1>7 DEF Fixed, Gens
<1>10. Generators'
  <2>1. \A h \in Gens : /\ gen'[h] = "open" => iter'[h] = "run"
                        /\ genQ'[h] # <<>> => iter'[h] = "run"
                        /\ iter'[h] = "run" => Fixed(h)'
    BY <1>2, <1>5, <1>6, <1>9 DEF Generators
  <2>2. \A t \in Streams : st'[t] # "unused" => Fixed(parent[t])'
    BY <1>5, <1>6, <1>7, <1>9 DEF Generators, CidInv, CidTypes
  <2>3. QED
    BY <2>1, <2>2 DEF Generators, Fixed
<1>11. Offered'
  <2>1. \A h \in Gens : \A j \in DOMAIN genQ[h] : genQ[h][j] \in Streams
    BY DEF CidInv, CidTypes
  <2>2. \A h \in Gens : h # g => \A j \in DOMAIN genQ[h] : genQ[h][j] # s
    BY <1>7 DEF CidInv, Channels
  <2>3. \A j \in DOMAIN Tail(genQ[g]) : Tail(genQ[g])[j] # s /\ Tail(genQ[g])[j] \in Streams
    BY <1>4, <2>1 DEF Offered
  <2>4. \A h \in Gens : \A j \in DOMAIN genQ'[h] : st'[genQ'[h][j]] = "offered"
    <3> SUFFICES ASSUME NEW h \in Gens, NEW j \in DOMAIN genQ'[h] PROVE st'[genQ'[h][j]] = "offered"
      OBVIOUS
    <3>1. CASE h = g
      <4>1. genQ'[h] = Tail(genQ[g])
        BY <1>6, <3>1
      <4>2. QED
        BY <1>4, <1>6, <2>3, <4>1 DEF Offered
    <3>2. CASE h # g
      <4>1. genQ'[h] = genQ[h]
        BY <1>6, <3>2
      <4>2. QED
        BY <1>6, <2>1, <2>2, <3>2, <4>1 DEF Offered
    <3>3. QED
      BY <3>1, <3>2
  <2>5. \A h \in Gens : \A j, k \in DOMAIN genQ'[h] : genQ'[h][j] = genQ'[h][k] => j = k
    <3> SUFFICES ASSUME NEW h \in Gens, NEW j \in DOMAIN genQ'[h], NEW k \in DOMAIN genQ'[h],
                        genQ'[h][j] = genQ'[h][k]
                 PROVE  j = k
      OBVIOUS
    <3>1. CASE h = g
      <4>1. genQ'[h] = Tail(genQ[g])
        BY <1>6, <3>1
      <4>2. j + 1 = k + 1 /\ j \in Nat /\ k \in Nat
        BY <1>4, <4>1 DEF Offered
      <4>3. QED
        BY <4>2
    <3>2. CASE h # g
      <4>1. genQ'[h] = genQ[h]
        BY <1>6, <3>2
      <4>2. QED
        BY <4>1 DEF Offered
    <3>3. QED
      BY <3>1, <3>2
  <2>6. ASSUME NEW t \in Streams, st'[t] = "offered"
        PROVE  \E j \in DOMAIN genQ'[parent[t]] : genQ'[parent[t]][j] = t
    <3>1. t # s /\ st[t] = "offered" /\ parent[t] \in Gens
      BY <1>6, <2>6 DEF CidInv, CidTypes
    <3>2. PICK j \in DOMAIN genQ[parent[t]] : genQ[parent[t]][j] = t
      BY <3>1 DEF Offered
    <3>3. CASE parent[t] = g
      <4>1. j # 1
        BY <1>4, <3>1, <3>2, <3>3
      <4>2. j - 1 \in DOMAIN Tail(genQ[g]) /\ Tail(genQ[g])[j - 1] = t
        BY <1>4, <3>2, <3>3, <4>1
      <4>3. QED
        BY <1>6, <3>3, <4>2
    <3>4. CASE parent[t] # g
      BY <1>6, <3>1, <3>2, <3>4
    <3>5. QED
      BY <3>3, <3>4
  <2>7. QED
    BY <1>5, <2>4, <2>5, <2>6 DEF Offered
<1>12. Dealt'
  <2>1. \A h \in Inbounds : dealQ[h] \in Seq(Streams)
    BY DEF CidInv, CidTypes
  <2>2. \A h \in Inbounds : \A j \in DOMAIN dealQ[h] : dealQ[h][j] \in Streams /\ dealQ[h][j] # s
    BY <1>7, <2>1 DEF Dealt
  <2>3. QED
    BY <1>5, <1>6, <2>2 DEF Dealt
<1>13. OverForGood'
  <2>1. owner[s] \in Inbounds /\ owner[s] = owner[g] /\ loop_a[owner[s]] # "ended"
    BY <1>2, <1>7 DEF Owners, OverForGood
  <2>2. QED
    BY <1>5, <1>6, <2>1 DEF OverForGood
<1>14. QED
  BY <1>8, <1>10, <1>11, <1>12, <1>13

LEMMA FlowDeal ==
  ASSUME FlowSafe, NEW s \in Streams, Deal(s)
  PROVE  FlowInv'
<1> USE DEF FlowSafe, FlowInv
<1>1. /\ UNCHANGED <<first, gen, iter, genQ, parent, owner, loop_a>> /\ st[s] = "send"
      /\ st' = [st EXCEPT ![s] = "dealt"] /\ dealQ' = [dealQ EXCEPT ![owner[s]] = Append(@, s)]
  BY DEF Deal, genVars
<1>2. owner[s] \in Inbounds /\ loop_a[owner[s]] # "ended"
  BY <1>1 DEF Owners, OverForGood
<1>3. dealQ \in [Inbounds -> Seq(Streams)]
  BY DEF CidInv, CidTypes
<1>4. /\ \A t \in Streams : st'[t] = IF t = s THEN "dealt" ELSE st[t]
      /\ \A h \in Inbounds : dealQ'[h] = IF h = owner[s] THEN Append(dealQ[h], s) ELSE dealQ[h]
  BY <1>1, <1>2, <1>3 DEF FlowTypes
<1>5. FlowTypes' /\ Owners'
  <2>1. FlowTypes'
    BY <1>1 DEF FlowTypes
  <2>2. Owners'
    BY <1>1, <1>4 DEF Owners
  <2>3. QED
    BY <2>1, <2>2
<1>6. \A h \in Gens : Fixed(h) => Fixed(h)'
  BY <1>1, <1>4 DEF Fixed, Gens
<1>7. Generators'
  <2>1. \A t \in Streams : st'[t] # "unused" => Fixed(parent[t])'
    BY <1>1, <1>4, <1>6 DEF Generators, CidInv, CidTypes
  <2>2. QED
    BY <1>1, <1>6, <2>1 DEF Generators
<1>8. Offered'
  <2>1. \A h \in Gens : \A j \in DOMAIN genQ[h] : genQ[h][j] \in Streams
    BY DEF CidInv, CidTypes
  <2>2. QED
    BY <1>1, <1>4, <2>1 DEF Offered
<1>9. Dealt'
  <2>1. \A h \in Inbounds : \A j \in DOMAIN dealQ[h] : dealQ[h][j] \in Streams
    BY <1>3
  <2>2. /\ \A j \in DOMAIN dealQ[owner[s]] : j \in DOMAIN dealQ'[owner[s]] /\ dealQ'[owner[s]][j] = dealQ[owner[s]][j]
        /\ \A j \in DOMAIN dealQ'[owner[s]] \ DOMAIN dealQ[owner[s]] : dealQ'[owner[s]][j] = s
        /\ \E j \in DOMAIN dealQ'[owner[s]] : dealQ'[owner[s]][j] = s
    <3>1. dealQ'[owner[s]] = Append(dealQ[owner[s]], s) /\ dealQ[owner[s]] \in Seq(Streams)
      BY <1>2, <1>3, <1>4
    <3>2. QED
      BY <3>1, AppendElements
  <2>3. \A h \in Inbounds : \A j \in DOMAIN dealQ'[h] : st'[dealQ'[h][j]] \in {"dealt", "handled"}
    <3>1. \A h \in Inbounds : \A j \in DOMAIN dealQ[h] : st'[dealQ[h][j]] \in {"dealt", "handled"}
      BY <1>4, <2>1 DEF Dealt
    <3>2. \A j \in DOMAIN dealQ'[owner[s]] : st'[dealQ'[owner[s]][j]] \in {"dealt", "handled"}
      BY <1>2, <1>4, <2>2, <3>1
    <3>3. QED
      BY <1>4, <3>1, <3>2
  <2>4. ASSUME NEW t \in Streams, st'[t] = "dealt"
        PROVE  \E j \in DOMAIN dealQ'[owner[t]] : dealQ'[owner[t]][j] = t
    <3>1. CASE t = s
      BY <2>2, <3>1
    <3>2. CASE t # s
      <4>1. st[t] = "dealt" /\ owner[t] \in Inbounds
        BY <1>4, <2>4, <3>2 DEF Owners
      <4>2. PICK j \in DOMAIN dealQ[owner[t]] : dealQ[owner[t]][j] = t
        BY <4>1 DEF Dealt
      <4>3. j \in DOMAIN dealQ'[owner[t]] /\ dealQ'[owner[t]][j] = t
        BY <1>4, <2>2, <4>1, <4>2
      <4>4. QED
        BY <4>3
    <3>3. QED
      BY <3>1, <3>2
  <2>5. QED
    BY <1>1, <2>3, <2>4 DEF Dealt
<1>10. OverForGood'
  BY <1>1, <1>2, <1>4 DEF OverForGood
<1>11. QED
  BY <1>5, <1>7, <1>8, <1>9, <1>10

LEMMA FlowHandle ==
  ASSUME FlowSafe, NEW i \in Inbounds, Handle(i)
  PROVE  FlowInv'
<1> USE DEF FlowSafe, FlowInv
<1>1. dealQ \in [Inbounds -> Seq(Streams)] /\ dealQ[i] \in Seq(Streams) /\ dealQ[i] # <<>>
  BY DEF Handle, CidInv, CidTypes
<1>2. PICK s \in Streams : s = Head(dealQ[i])
  BY <1>1
<1>3. /\ s = dealQ[i][1] /\ 1 \in DOMAIN dealQ[i]
      /\ \A j \in DOMAIN Tail(dealQ[i]) : j + 1 \in DOMAIN dealQ[i] /\ Tail(dealQ[i])[j] = dealQ[i][j + 1]
      /\ \A j \in DOMAIN dealQ[i] : j # 1 => j - 1 \in DOMAIN Tail(dealQ[i]) /\ Tail(dealQ[i])[j - 1] = dealQ[i][j]
  BY <1>1, <1>2, TailElements
<1>4. /\ UNCHANGED <<first, gen, iter, genQ, parent, owner, loop_a>>
      /\ st' = [st EXCEPT ![s] = "handled"] /\ dealQ' = [dealQ EXCEPT ![i] = Tail(@)]
  BY <1>2 DEF Handle, genVars
<1>5. st[s] \in {"dealt", "handled"}
  BY <1>3 DEF Dealt
<1>6. /\ \A t \in Streams : st'[t] = IF t = s THEN "handled" ELSE st[t]
      /\ \A h \in Inbounds : dealQ'[h] = IF h = i THEN Tail(dealQ[i]) ELSE dealQ[h]
  BY <1>1, <1>4 DEF FlowTypes
<1>7. FlowTypes' /\ Owners'
  <2>1. FlowTypes'
    BY <1>4 DEF FlowTypes
  <2>2. Owners'
    BY <1>4, <1>5, <1>6 DEF Owners
  <2>3. QED
    BY <2>1, <2>2
<1>8. \A h \in Gens : Fixed(h) => Fixed(h)'
  BY <1>4, <1>5, <1>6 DEF Fixed, Gens
<1>9. Generators'
  <2>1. \A t \in Streams : st'[t] # "unused" => Fixed(parent[t])'
    BY <1>4, <1>5, <1>6, <1>8 DEF Generators, CidInv, CidTypes
  <2>2. QED
    BY <1>4, <1>8, <2>1 DEF Generators
<1>10. Offered'
  <2>1. \A h \in Gens : \A j \in DOMAIN genQ[h] : genQ[h][j] \in Streams
    BY DEF CidInv, CidTypes
  <2>2. QED
    BY <1>4, <1>5, <1>6, <2>1 DEF Offered
<1>11. Dealt'
  <2>1. \A h \in Inbounds : \A j \in DOMAIN dealQ[h] : st'[dealQ[h][j]] \in {"dealt", "handled"}
    BY <1>1, <1>6 DEF Dealt
  <2>2. \A h \in Inbounds : \A j \in DOMAIN dealQ'[h] : st'[dealQ'[h][j]] \in {"dealt", "handled"}
    <3> SUFFICES ASSUME NEW h \in Inbounds, NEW j \in DOMAIN dealQ'[h]
                 PROVE  st'[dealQ'[h][j]] \in {"dealt", "handled"}
      OBVIOUS
    <3>1. CASE h = i
      <4>1. dealQ'[h] = Tail(dealQ[i])
        BY <1>6, <3>1
      <4>2. j + 1 \in DOMAIN dealQ[i] /\ dealQ'[h][j] = dealQ[i][j + 1]
        BY <1>3, <4>1
      <4>3. QED
        BY <2>1, <4>2
    <3>2. CASE h # i
      <4>1. dealQ'[h] = dealQ[h]
        BY <1>6, <3>2
      <4>2. QED
        BY <2>1, <4>1
    <3>3. QED
      BY <3>1, <3>2
  <2>3. ASSUME NEW t \in Streams, st'[t] = "dealt"
        PROVE  \E j \in DOMAIN dealQ'[owner[t]] : dealQ'[owner[t]][j] = t
    <3>1. t # s /\ st[t] = "dealt" /\ owner[t] \in Inbounds
      BY <1>6, <2>3 DEF Owners
    <3>2. PICK j \in DOMAIN dealQ[owner[t]] : dealQ[owner[t]][j] = t
      BY <3>1 DEF Dealt
    <3>3. CASE owner[t] = i
      <4>1. j - 1 \in DOMAIN Tail(dealQ[i]) /\ Tail(dealQ[i])[j - 1] = t
        BY <1>3, <3>1, <3>2, <3>3
      <4>2. QED
        BY <1>6, <3>3, <4>1
    <3>4. CASE owner[t] # i
      BY <1>6, <3>1, <3>2, <3>4
    <3>5. QED
      BY <3>3, <3>4
  <2>4. QED
    BY <1>4, <2>2, <2>3 DEF Dealt
<1>12. OverForGood'
  <2>1. loop_a[i] # "ended"
    BY DEF Handle
  <2>2. QED
    BY <1>4, <1>6, <2>1 DEF OverForGood
<1>13. QED
  BY <1>7, <1>9, <1>10, <1>11, <1>12

LEMMA FlowNext == CidInv /\ FlowInv /\ [Next]_vars => FlowInv'
<1> SUFFICES ASSUME FlowSafe, [Next]_vars PROVE FlowInv'
  BY DEF FlowSafe
<1>1. ASSUME NEW i \in Inbounds, Inbound(i) PROVE FlowInv'
  BY <1>1, FlowInbound, FlowFirstDirect, FlowHandle DEF Inbound
<1>2. ASSUME NEW g \in Gens, Generator(g) PROVE FlowInv'
  BY <1>2, FlowProduce, FlowEnd, FlowTake DEF Generator
<1>3. ASSUME NEW s \in Streams, Folding(s) PROVE FlowInv'
  BY <1>3, FlowFold, FlowDeal DEF Folding
<1>4. CASE UNCHANGED vars
  <2>1. UNCHANGED <<first, gen, iter, genQ, parent, owner, loop_a, st, dealQ>>
    BY <1>4 DEF vars, genVars, dealVars
  <2>2. QED
    BY <2>1 DEF FlowSafe, FlowInv, FlowTypes, Owners, Generators, Fixed, Offered, Dealt, OverForGood
<1>5. QED
  BY <1>1, <1>2, <1>3, <1>4 DEF Next

LEMMA FlowInvImplies == CidInv /\ FlowInv => NoResultLost
<1> SUFFICES ASSUME CidInv, FlowInv, NEW i \in Inbounds, loop_a[i] = "ended",
                    NEW s \in Streams, owner[s] = i
             PROVE  st[s] \in {"handled", "mux", "panicked"}
  BY DEF NoResultLost
<1> USE DEF FlowInv
<1>1. st[s] # "unused"
  BY IdsAssumption DEF Owners
<1>2. st[s] \notin {"fold", "send"}
  BY DEF OverForGood
<1>3. st[s] # "offered"
  <2>1. SUFFICES ASSUME st[s] = "offered" PROVE FALSE
    OBVIOUS
  <2>2. parent[s] \in Gens /\ owner[parent[s]] = i
    BY <1>1 DEF Owners, CidInv, CidTypes
  <2>3. genQ[parent[s]] # <<>>
    BY <2>1 DEF Offered
  <2>4. QED
    BY <2>2, <2>3 DEF Generators, OverForGood
<1>4. st[s] # "dealt"
  BY DEF Dealt, OverForGood
<1>5. QED
  BY <1>1, <1>2, <1>3, <1>4 DEF FlowTypes

\* For any inbounds, streams, chains and scripts, and channels of any size: when
\* Engine::loop_a returns because every sender of the channel of results is gone,
\* none of the tasks that fold for the inbound still has a result to deliver.
THEOREM NoneLost == Spec => []NoResultLost
<1>1. CidInv /\ FlowInv => NoResultLost
  BY FlowInvImplies
<1>2. QED
  BY <1>1, CidInit, CidNext, FlowInit, FlowNext, PTL DEF Spec

-----------------------------------------------------------------------------
(* What was run: an inductive invariant for MapsInOrder *)

PathTypes ==
  /\ kind \in [Inbounds -> Kinds]
  /\ trace \in [Gens -> Seq(DOMAIN Chain)]
  /\ left \in [Gens -> 0..Len(Chain)]

\* Whether anything was run for g.
Placed(g) == IF g \in Inbounds THEN first[g] \in {"generator", "direct"}
                               ELSE st[g] \notin {"unused", "offered"}

\* The maps tr were run one after the other for inbound i, up to index l.
Follows(i, tr, l) ==
  /\ tr # <<>>
  /\ l = tr[Len(tr)]
  /\ \A j \in DOMAIN tr : tr[j] \in Following(i, IF j = 1 THEN 0 ELSE tr[j - 1])

Paths ==
  /\ \A g \in Gens : Placed(g) => Follows(owner[g], trace[g], left[g])
  /\ \A s \in Streams : Placed(s) => IsPrefix(trace[parent[s]], trace[s])

\* A coroutine is that of one stream, and is where the stream is.
Threads ==
  /\ \A c \in DOMAIN thread_map : \E s \in Streams : Placed(s) /\ cid[s] = c /\ kind[owner[s]] = "infinite"
  /\ \A s \in Streams : st[s] = "fold" /\ cid[s] \in DOMAIN thread_map
                          => thread_map[cid[s]] \in {OVER, left[s]}

PathInv == PathTypes /\ Paths /\ Threads

PathSafe == FlowSafe /\ PathInv

-----------------------------------------------------------------------------
LEMMA PathStart ==
  ASSUME NEW i \in Inbounds, NEW k \in DOMAIN Chain, k \in Following(i, 0)
  PROVE  Follows(i, <<k>>, k) /\ <<k>> \in Seq(DOMAIN Chain) /\ k \in 0..Len(Chain)
<1>1. DOMAIN Chain = 1..Len(Chain)
  BY ChainAssumption
<1>2. QED
  BY <1>1 DEF Follows

LEMMA PathStep ==
  ASSUME NEW i \in Inbounds, NEW tr \in Seq(DOMAIN Chain), NEW l, Follows(i, tr, l),
         NEW k \in DOMAIN Chain, k \in Following(i, l)
  PROVE  Follows(i, Append(tr, k), k) /\ Append(tr, k) \in Seq(DOMAIN Chain) /\ k \in 0..Len(Chain)
<1>1. DOMAIN Chain = 1..Len(Chain)
  BY ChainAssumption
<1>2. Len(tr) \in Nat \ {0} /\ DOMAIN tr = 1..Len(tr)
  BY DEF Follows
<1>3. /\ Append(tr, k) \in Seq(DOMAIN Chain) /\ Append(tr, k) # <<>> /\ Len(Append(tr, k)) = Len(tr) + 1
      /\ DOMAIN Append(tr, k) = 1..(Len(tr) + 1)
      /\ Append(tr, k)[Len(tr) + 1] = k
      /\ \A j \in 1..Len(tr) : Append(tr, k)[j] = tr[j]
  OBVIOUS
<1>4. ASSUME NEW j \in 1..(Len(tr) + 1)
      PROVE  Append(tr, k)[j] \in Following(i, IF j = 1 THEN 0 ELSE Append(tr, k)[j - 1])
  <2>1. CASE j = Len(tr) + 1
    <3>1. j # 1 /\ j - 1 = Len(tr) /\ j - 1 \in 1..Len(tr)
      BY <1>2, <2>1
    <3>2. Append(tr, k)[j - 1] = l
      BY <1>3, <3>1 DEF Follows
    <3>3. QED
      BY <1>3, <2>1, <3>1, <3>2
  <2>2. CASE j = 1 /\ j \in 1..Len(tr)
    BY <1>2, <1>3, <2>2 DEF Follows
  <2>3. CASE j # 1 /\ j \in 1..Len(tr)
    <3>1. j - 1 \in 1..Len(tr)
      BY <1>2, <2>3
    <3>2. Append(tr, k)[j] = tr[j] /\ Append(tr, k)[j - 1] = tr[j - 1]
      BY <1>3, <2>3, <3>1
    <3>3. QED
      BY <1>2, <2>3, <3>2 DEF Follows
  <2>4. QED
    BY <1>2, <2>1, <2>2, <2>3
<1>5. \A j \in DOMAIN Append(tr, k) :
        Append(tr, k)[j] \in Following(i, IF j = 1 THEN 0 ELSE Append(tr, k)[j - 1])
  BY <1>3, <1>4
<1>6. k = Append(tr, k)[Len(Append(tr, k))] /\ k \in 0..Len(Chain)
  BY <1>1, <1>3
<1>7. QED
  BY <1>3, <1>5, <1>6 DEF Follows

LEMMA PrefixAppend ==
  ASSUME NEW S, NEW p \in Seq(S), NEW q \in Seq(S), NEW e \in S, IsPrefix(p, q)
  PROVE  IsPrefix(p, Append(q, e))
<1>1. Len(p) \in Nat /\ Len(q) \in Nat /\ Len(p) <= Len(q) /\ Len(Append(q, e)) = Len(q) + 1
  BY DEF IsPrefix
<1>2. SubSeq(Append(q, e), 1, Len(p)) = SubSeq(q, 1, Len(p))
  BY <1>1
<1>3. QED
  BY <1>1, <1>2 DEF IsPrefix

LEMMA PathInit == Init => PathInv
<1> SUFFICES ASSUME Init PROVE PathInv
  OBVIOUS
<1>1. PathTypes
  BY ChainAssumption DEF Init, PathTypes, Gens
<1>2. Paths
  BY IdsAssumption DEF Init, Paths, Placed, Gens
<1>3. Threads
  BY DEF Init, Threads
<1>4. QED
  BY <1>1, <1>2, <1>3 DEF PathInv

\* Steps that run no map.
LEMMA PathQuiet ==
  ASSUME PathSafe, UNCHANGED <<kind, trace, left, thread_map>>,
         \A g \in Gens : Placed(g)' <=> Placed(g),
         \A g \in Gens : Placed(g) => owner'[g] = owner[g] /\ cid'[g] = cid[g],
         \A s \in Streams : Placed(s) => parent'[s] = parent[s],
         \A s \in Streams : st'[s] = "fold" => st[s] = "fold"
  PROVE  PathInv'
<1> USE DEF PathSafe, PathInv
<1>1. PathTypes'
  BY DEF PathTypes
<1>2. Streams \subseteq Gens
  BY DEF Gens
<1>3. \A i, tr, l : Follows(i, tr, l)' <=> Follows(i, tr, l)
  BY DEF Follows, Following
<1>4. Paths'
  <2>1. ASSUME NEW g \in Gens, Placed(g)' PROVE Follows(owner'[g], trace'[g], left'[g])
    BY <2>1 DEF Paths
  <2>2. \A s \in Streams : Placed(s)' => IsPrefix(trace'[parent'[s]], trace'[s])
    BY <1>2 DEF Paths
  <2>3. QED
    BY <1>3, <2>1, <2>2 DEF Paths, Follows, Following
<1>5. Threads'
  <2>1. \A c \in DOMAIN thread_map' : \E s \in Streams : Placed(s)' /\ cid'[s] = c /\ kind'[owner'[s]] = "infinite"
    BY <1>2 DEF Threads
  <2>2. \A s \in Streams : st[s] = "fold" => Placed(s)
    BY IdsAssumption DEF Placed
  <2>3. \A s \in Streams : st'[s] = "fold" /\ cid'[s] \in DOMAIN thread_map'
                             => thread_map'[cid'[s]] \in {OVER, left'[s]}
    BY <1>2, <2>2 DEF Threads
  <2>4. QED
    BY <2>1, <2>3 DEF Threads
<1>6. QED
  BY <1>1, <1>4, <1>5

\* What the first map of an inbound may be, and what the iterator of a stream gives.
LEMMA FirstFollows ==
  ASSUME PathSafe, NEW i \in Inbounds, NEW k \in DOMAIN Chain, RunFirst(i, k)
  PROVE  k \in Following(i, 0) /\ thread_map' = thread_map
<1>1. kind[i] \in {"static", "finite", "infinite"}
  BY ScriptAssumption DEF PathSafe, PathInv, PathTypes
<1>2. CASE kind[i] = "static"
  BY <1>2 DEF RunFirst, Following, luaVars
<1>3. CASE kind[i] # "static"
  BY <1>1, <1>3 DEF RunFirst, Call, Following, luaVars
<1>4. QED
  BY <1>2, <1>3

LEMMA OwnThread ==
  ASSUME PathSafe, NEW s \in Streams, st[s] = "fold"
  PROVE  /\ owner[s] \in Inbounds /\ kind[owner[s]] \in {"static", "finite", "infinite"}
         /\ Placed(s)
         /\ cid[s] \in DOMAIN thread_map => kind[owner[s]] = "infinite" /\ thread_map[cid[s]] \in {OVER, left[s]}
         /\ left[s] # OVER
<1> USE DEF PathSafe, PathInv
<1>1. owner[s] \in Inbounds
  BY DEF FlowSafe, FlowInv, Owners
<1>2. kind[owner[s]] \in {"static", "finite", "infinite"}
  BY <1>1, ScriptAssumption DEF PathTypes
<1>3. s \in Gens /\ s \notin Inbounds /\ Placed(s)
  BY IdsAssumption DEF Placed, Gens
<1>4. left[s] # OVER
  BY <1>3, ChainAssumption DEF PathTypes, OVER
<1>5. ASSUME cid[s] \in DOMAIN thread_map PROVE kind[owner[s]] = "infinite"
  <2>1. PICK t \in Streams : Placed(t) /\ cid[t] = cid[s] /\ kind[owner[t]] = "infinite"
    BY <1>5 DEF Threads
  <2>2. t \in Gens /\ cid[s] # <<>>
    BY DEF Gens, FlowSafe, CidInv, HaveCids
  <2>3. t = s
    BY <1>3, <2>1, <2>2 DEF FlowSafe, CidInv, Distinct
  <2>4. QED
    BY <2>1, <2>3
<1>6. QED
  BY <1>1, <1>2, <1>3, <1>4, <1>5 DEF Threads

LEMMA NextFollows ==
  ASSUME PathSafe, NEW s \in Streams, st[s] = "fold", NEW k \in DOMAIN Chain, Next_with_data(s, k)
  PROVE  /\ k \in Following(owner[s], left[s])
         /\ \A c \in DOMAIN thread_map' : c # cid[s] => c \in DOMAIN thread_map /\ thread_map'[c] = thread_map[c]
         /\ cid[s] \in DOMAIN thread_map'
              => kind[owner[s]] = "infinite" /\ thread_map'[cid[s]] \in {OVER, k}
<1>1. /\ owner[s] \in Inbounds
      /\ cid[s] \in DOMAIN thread_map => kind[owner[s]] = "infinite" /\ thread_map[cid[s]] \in {OVER, left[s]}
  BY OwnThread
<1>2. CASE kind[owner[s]] = "static"
  BY <1>1, <1>2 DEF Next_with_data, Static, Following, luaVars
<1>3. CASE kind[owner[s]] = "finite"
  BY <1>1, <1>3 DEF Next_with_data, Finite, Following, luaVars
<1>4. CASE kind[owner[s]] = "infinite"
  <2>1. Infinite(s, k)
    BY <1>4 DEF Next_with_data
  <2>2. CASE Resume(s, k)
    <3>1. k \in Script[left[s]]
      BY <1>1, <2>2 DEF Resume, HasThread, Thread
    <3>2. PICK at \in {OVER, k} : SetThread(s, at)
      BY <2>2 DEF Resume, After
    <3>3. QED
      BY <1>4, <3>1, <3>2 DEF SetThread, Thread, Following
  <2>3. CASE Start(s, k)
    BY <1>4, <2>3 DEF Start, SetThread, HasThread, Thread, Following
  <2>4. CASE ~HasThread(s) /\ ~HasCreator(s) /\ Call(cid[s], left[s], k)
    BY <1>4, <2>4 DEF Call, HasThread, Thread, Following
  <2>5. QED
    BY <2>1, <2>2, <2>3, <2>4 DEF Infinite
<1>5. QED
  BY <1>2, <1>3, <1>4, OwnThread

LEMMA NoMapThreads ==
  ASSUME PathSafe, NEW s \in Streams, st[s] = "fold", NoMap(s)
  PROVE  /\ \A c \in DOMAIN thread_map' : c # cid[s] => c \in DOMAIN thread_map /\ thread_map'[c] = thread_map[c]
         /\ cid[s] \in DOMAIN thread_map' => kind[owner[s]] = "infinite"
<1>1. /\ kind[owner[s]] \in {"static", "finite", "infinite"}
      /\ cid[s] \in DOMAIN thread_map => kind[owner[s]] = "infinite"
  BY OwnThread
<1>2. CASE kind[owner[s]] # "infinite"
  BY <1>1, <1>2 DEF NoMap, StaticNone, FiniteNone, luaVars
<1>3. CASE kind[owner[s]] = "infinite"
  <2>1. InfiniteNone(s)
    BY <1>3 DEF NoMap
  <2>2. UNCHANGED thread_map \/ DropThread(s) \/ SetThread(s, OVER)
    BY <2>1 DEF InfiniteNone
  <2>3. QED
    BY <1>3, <2>2 DEF DropThread, SetThread, Thread
<1>4. QED
  BY <1>2, <1>3
-----------------------------------------------------------------------------
\* A stream that had no map is given its generator's trace.
LEMMA PathPlace ==
  ASSUME PathSafe, UNCHANGED <<kind, thread_map>>, Distinct',
         NEW g \in Gens, NEW s \in Streams, s # g, ~Placed(s), Placed(s)', Placed(g)',
         parent'[s] = g, owner'[s] = owner[g], owner[g] \in Inbounds, cid'[s] # <<>>,
         NEW tr \in Seq(DOMAIN Chain), NEW l \in 0..Len(Chain), Follows(owner[g], tr, l),
         trace' \in [Gens -> Seq(DOMAIN Chain)], left' \in [Gens -> 0..Len(Chain)],
         trace'[s] = tr, trace'[g] = tr, left'[s] = l, left'[g] = l,
         \A h \in Gens \ {s} : /\ h # g => (Placed(h)' <=> Placed(h))
                               /\ h # g => trace'[h] = trace[h] /\ left'[h] = left[h]
                               /\ owner'[h] = owner[h] /\ cid'[h] = cid[h],
         \A t \in Streams \ {s} : parent'[t] = parent[t] /\ st'[t] = st[t],
         Placed(g) => trace[g] = tr,
         \A t \in Streams : Placed(t) => Placed(parent[t])
  PROVE  PathInv'
<1> USE DEF PathSafe, PathInv
<1>1. PathTypes'
  BY DEF PathTypes
<1>2. Streams \subseteq Gens /\ Inbounds \subseteq Gens /\ Inbounds \cap Streams = {}
  BY IdsAssumption DEF Gens
<1>3. \A i, p, j : Follows(i, p, j)' <=> Follows(i, p, j)
  BY DEF Follows, Following
<1>4. Paths'
  <2>1. ASSUME NEW h \in Gens, Placed(h)' PROVE Follows(owner'[h], trace'[h], left'[h])
    <3>1. CASE h = s
      BY <3>1
    <3>2. CASE h # s /\ h = g
      BY <3>2
    <3>3. CASE h # s /\ h # g
      <4>1. Placed(h) /\ trace'[h] = trace[h] /\ left'[h] = left[h] /\ owner'[h] = owner[h]
        BY <2>1, <3>3
      <4>2. Follows(owner[h], trace[h], left[h])
        BY <4>1 DEF Paths
      <4>3. QED
        BY <4>1, <4>2
    <3>4. QED
      BY <3>1, <3>2, <3>3
  <2>2. ASSUME NEW t \in Streams, Placed(t)' PROVE IsPrefix(trace'[parent'[t]], trace'[t])
    <3>1. CASE t = s
      <4>1. IsPrefix(tr, tr)
        BY DEF IsPrefix
      <4>2. QED
        BY <3>1, <4>1
    <3>2. CASE t # s /\ t # g
      <4>1. parent'[t] = parent[t] /\ Placed(t) /\ trace'[t] = trace[t] /\ Placed(parent[t]) /\ parent[t] \in Gens
        BY <1>2, <2>2, <3>2 DEF FlowSafe, CidInv, CidTypes
      <4>2. trace'[parent[t]] = trace[parent[t]]
        BY <4>1
      <4>3. QED
        BY <4>1, <4>2 DEF Paths
    <3>3. CASE t # s /\ t = g
      <4>1. Placed(t) <=> Placed(t)'
        BY <1>2, <3>3 DEF Placed
      <4>2. parent'[t] = parent[t] /\ Placed(t) /\ trace'[t] = trace[t] /\ Placed(parent[t]) /\ parent[t] \in Gens
        BY <1>2, <2>2, <3>3, <4>1 DEF FlowSafe, CidInv, CidTypes
      <4>3. trace'[parent[t]] = trace[parent[t]]
        BY <4>2
      <4>4. QED
        BY <4>2, <4>3 DEF Paths
    <3>4. QED
      BY <3>1, <3>2, <3>3
  <2>3. QED
    BY <1>3, <2>1, <2>2 DEF Paths, Follows, Following
<1>5. Threads'
  <2>1. ASSUME NEW c \in DOMAIN thread_map
        PROVE  \E t \in Streams \ {s} : Placed(t) /\ Placed(t)' /\ cid[t] = c /\ kind[owner[t]] = "infinite"
    <3>1. PICK t \in Streams : Placed(t) /\ cid[t] = c /\ kind[owner[t]] = "infinite"
      BY DEF Threads
    <3>2. t # s /\ Placed(t)'
      BY <1>2, <3>1 DEF Placed
    <3>3. QED
      BY <3>1, <3>2
  <2>2. \A c \in DOMAIN thread_map' : \E t \in Streams : Placed(t)' /\ cid'[t] = c /\ kind'[owner'[t]] = "infinite"
    <3> SUFFICES ASSUME NEW c \in DOMAIN thread_map
                 PROVE  \E t \in Streams : Placed(t)' /\ cid'[t] = c /\ kind'[owner'[t]] = "infinite"
      OBVIOUS
    <3>1. PICK t \in Streams \ {s} : Placed(t)' /\ cid[t] = c /\ kind[owner[t]] = "infinite"
      BY <2>1
    <3>2. cid'[t] = cid[t] /\ owner'[t] = owner[t] /\ kind' = kind
      BY <1>2
    <3>3. QED
      BY <3>1, <3>2
  <2>3. cid'[s] \notin DOMAIN thread_map
    <3>1. SUFFICES ASSUME cid'[s] \in DOMAIN thread_map PROVE FALSE
      OBVIOUS
    <3>2. PICK t \in Streams \ {s} : cid[t] = cid'[s]
      BY <2>1, <3>1
    <3>3. cid'[t] = cid'[s] /\ t \in Gens /\ s \in Gens /\ t # s
      BY <1>2, <3>2
    <3>4. QED
      BY <3>3 DEF Distinct
  <2>4. ASSUME NEW t \in Streams, st'[t] = "fold", cid'[t] \in DOMAIN thread_map'
        PROVE  thread_map'[cid'[t]] \in {OVER, left'[t]}
    <3>1. t # s
      BY <2>3, <2>4
    <3>2. st[t] = "fold" /\ cid'[t] = cid[t] /\ Placed(t)
      BY <1>2, <2>4, <3>1 DEF Placed
    <3>3. t # g => left'[t] = left[t]
      BY <1>2, <3>1
    <3>4. t = g => left[t] = l
      BY <1>2, <3>2 DEF Paths, Follows
    <3>5. QED
      BY <2>4, <3>2, <3>3, <3>4 DEF Threads
  <2>5. QED
    BY <2>2, <2>4 DEF Threads
<1>6. QED
  BY <1>1, <1>4, <1>5

LEMMA PathFirstGenerator ==
  ASSUME PathSafe, NEW i \in Inbounds, FirstGenerator(i)
  PROVE  PathInv'
<1> USE DEF PathSafe, PathInv
<1>1. PICK k \in DOMAIN Chain : /\ RunFirst(i, k)
                                /\ left' = [left EXCEPT ![i] = k] /\ trace' = [trace EXCEPT ![i] = <<k>>]
  BY DEF FirstGenerator
<1>2. /\ UNCHANGED <<kind, st, parent, owner, cid>> /\ first[i] = "pending"
      /\ first' = [first EXCEPT ![i] = "generator"]
  BY <1>1 DEF FirstGenerator, RunFirst
<1>3. thread_map' = thread_map /\ Follows(i, <<k>>, k) /\ <<k>> \in Seq(DOMAIN Chain) /\ k \in 0..Len(Chain)
  BY <1>1, FirstFollows, PathStart
<1>4. Streams \subseteq Gens /\ Inbounds \subseteq Gens /\ Inbounds \cap Streams = {} /\ owner[i] = i
  BY IdsAssumption DEF Gens, FlowSafe, FlowInv, Owners
<1>5. \A g \in Gens : /\ trace'[g] = IF g = i THEN <<k>> ELSE trace[g]
                      /\ left'[g] = IF g = i THEN k ELSE left[g]
  BY <1>1 DEF PathTypes
<1>6. \A g \in Gens : Placed(g)' <=> Placed(g) \/ g = i
  BY <1>2, <1>4 DEF Placed, FlowSafe, FlowInv, FlowTypes
<1>7. PathTypes'
  BY <1>1, <1>2, <1>3 DEF PathTypes
<1>8. \A j, p, l : Follows(j, p, l)' <=> Follows(j, p, l)
  BY <1>2 DEF Follows, Following
<1>9. Paths'
  <2>1. \A g \in Gens : Placed(g)' => Follows(owner'[g], trace'[g], left'[g])
    BY <1>2, <1>3, <1>4, <1>5, <1>6 DEF Paths
  <2>2. ASSUME NEW t \in Streams, Placed(t)' PROVE IsPrefix(trace'[parent'[t]], trace'[t])
    <3>1. Placed(t) /\ t # i /\ parent[t] \in Gens
      BY <1>4, <1>6, <2>2 DEF FlowSafe, CidInv, CidTypes
    <3>2. parent[t] # i
      BY <1>2, <1>4, <3>1 DEF FlowSafe, FlowInv, Generators, Fixed, Placed
    <3>3. QED
      BY <1>2, <1>4, <1>5, <3>1, <3>2 DEF Paths
  <2>3. QED
    BY <1>2, <1>8, <2>1, <2>2 DEF Paths, Follows, Following
<1>10. Threads'
  <2>1. \A s \in Streams : Placed(s)' <=> Placed(s)
    BY <1>4, <1>6
  <2>2. \A s \in Streams : left'[s] = left[s]
    BY <1>4, <1>5
  <2>3. QED
    BY <1>2, <1>3, <2>1, <2>2 DEF Threads
<1>11. QED
  BY <1>7, <1>9, <1>10

\* What a stream came from was made a generator, so nothing is folded over it.
LEMMA ParentPlaced ==
  ASSUME PathSafe, NEW t \in Streams, Placed(t)
  PROVE  /\ parent[t] \in Gens /\ Placed(parent[t])
         /\ parent[t] \in Streams => st[parent[t]] = "mux"
<1>1. st[t] # "unused" /\ parent[t] \in Gens
  BY IdsAssumption DEF Placed, PathSafe, FlowSafe, CidInv, CidTypes
<1>2. Fixed(parent[t])
  BY <1>1 DEF PathSafe, FlowSafe, FlowInv, Generators
<1>3. QED
  BY <1>1, <1>2, IdsAssumption DEF Fixed, Placed, Gens

LEMMA PathFirstDirect ==
  ASSUME PathSafe, CidInv', NEW i \in Inbounds, NEW s \in Streams, FirstDirect(i, s)
  PROVE  PathInv'
<1> USE DEF PathSafe, PathInv
<1>1. PICK k \in DOMAIN Chain : /\ RunFirst(i, k)
                                /\ left' = [left EXCEPT ![i] = k, ![s] = k]
                                /\ trace' = [trace EXCEPT ![i] = <<k>>, ![s] = <<k>>]
  BY DEF FirstDirect
<1>2. /\ UNCHANGED kind /\ first[i] = "pending" /\ st[s] = "unused"
      /\ first' = [first EXCEPT ![i] = "direct"] /\ st' = [st EXCEPT ![s] = "fold"]
      /\ parent' = [parent EXCEPT ![s] = i] /\ owner' = [owner EXCEPT ![s] = i]
      /\ cid' = [cid EXCEPT ![s] = ClonePush(i)]
  BY <1>1 DEF FirstDirect, RunFirst, Fresh
<1>3. thread_map' = thread_map /\ Follows(i, <<k>>, k) /\ <<k>> \in Seq(DOMAIN Chain) /\ k \in 0..Len(Chain)
  BY <1>1, FirstFollows, PathStart
<1>4. Streams \subseteq Gens /\ Inbounds \subseteq Gens /\ Inbounds \cap Streams = {} /\ owner[i] = i /\ s # i
  BY IdsAssumption DEF Gens, FlowSafe, FlowInv, Owners
<1>5. /\ \A g \in Gens : trace'[g] = IF g \in {i, s} THEN <<k>> ELSE trace[g]
      /\ \A g \in Gens : left'[g] = IF g \in {i, s} THEN k ELSE left[g]
      /\ trace' \in [Gens -> Seq(DOMAIN Chain)] /\ left' \in [Gens -> 0..Len(Chain)]
  BY <1>1, <1>3, <1>4 DEF PathTypes
<1>6. /\ \A g \in Gens \ {s} : owner'[g] = owner[g] /\ cid'[g] = cid[g]
      /\ \A t \in Streams \ {s} : parent'[t] = parent[t] /\ st'[t] = st[t]
      /\ parent'[s] = i /\ owner'[s] = i /\ st'[s] = "fold"
      /\ \A h \in Inbounds \ {i} : first'[h] = first[h]
      /\ first'[i] = "direct"
  BY <1>2, <1>4 DEF FlowSafe, FlowInv, FlowTypes, CidInv, CidTypes
<1>7. /\ ~Placed(s) /\ Placed(s)' /\ ~Placed(i) /\ Placed(i)'
      /\ \A h \in Gens \ {s} : h # i => (Placed(h)' <=> Placed(h))
  BY <1>2, <1>4, <1>6 DEF Placed, Gens
<1>8. cid'[s] # <<>> /\ Distinct'
  BY <1>6 DEF CidInv, HaveCids
<1>9. \A t \in Streams : Placed(t) => Placed(parent[t])
  BY ParentPlaced
<1>10. /\ UNCHANGED <<kind, thread_map>>
       /\ i \in Gens /\ s # i /\ parent'[s] = i /\ owner'[s] = owner[i] /\ owner[i] \in Inbounds
       /\ Follows(owner[i], <<k>>, k)
       /\ trace'[s] = <<k>> /\ trace'[i] = <<k>> /\ left'[s] = k /\ left'[i] = k
  BY <1>2, <1>3, <1>4, <1>5, <1>6
<1>11. \A h \in Gens \ {s} : /\ h # i => (Placed(h)' <=> Placed(h))
                             /\ h # i => trace'[h] = trace[h] /\ left'[h] = left[h]
                             /\ owner'[h] = owner[h] /\ cid'[h] = cid[h]
  BY <1>5, <1>6, <1>7
<1>12. QED
  BY <1>3, <1>5, <1>6, <1>7, <1>8, <1>9, <1>10, <1>11, PathPlace

LEMMA PathTake ==
  ASSUME PathSafe, CidInv', NEW g \in Gens, Take(g)
  PROVE  PathInv'
<1> USE DEF PathSafe, PathInv
<1>1. genQ[g] \in Seq(Streams) /\ genQ[g] # <<>> /\ iter[g] = "run"
  BY DEF Take, FlowSafe, CidInv, CidTypes
<1>2. PICK s \in Streams : s = Head(genQ[g])
  BY <1>1
<1>3. s = genQ[g][1] /\ 1 \in DOMAIN genQ[g]
  BY <1>1, <1>2, TailElements
<1>4. /\ UNCHANGED <<kind, thread_map, first, parent, owner>>
      /\ st' = [st EXCEPT ![s] = "fold"]
      /\ left' = [left EXCEPT ![s] = left[g]] /\ trace' = [trace EXCEPT ![s] = trace[g]]
      /\ cid' = [cid EXCEPT ![s] = ClonePush(g)] \/ UNCHANGED cid
  BY <1>2 DEF Take, luaVars
<1>5. st[s] = "offered" /\ parent[s] = g
  BY <1>3 DEF FlowSafe, FlowInv, Offered, CidInv, Channels
<1>6. Streams \subseteq Gens /\ Inbounds \subseteq Gens /\ Inbounds \cap Streams = {}
  BY IdsAssumption DEF Gens
<1>7. Fixed(g) /\ s # g /\ Placed(g)
  BY <1>1, <1>5, <1>6 DEF FlowSafe, FlowInv, Generators, Fixed, Placed, Gens
<1>8. owner[g] \in Inbounds /\ owner[s] = owner[g]
  BY <1>5 DEF FlowSafe, FlowInv, Owners
<1>9. trace[g] \in Seq(DOMAIN Chain) /\ left[g] \in 0..Len(Chain) /\ Follows(owner[g], trace[g], left[g])
  BY <1>7 DEF PathTypes, Paths
<1>10. /\ \A h \in Gens : trace'[h] = IF h = s THEN trace[g] ELSE trace[h]
       /\ \A h \in Gens : left'[h] = IF h = s THEN left[g] ELSE left[h]
       /\ trace' \in [Gens -> Seq(DOMAIN Chain)] /\ left' \in [Gens -> 0..Len(Chain)]
  BY <1>4, <1>6, <1>9 DEF PathTypes
<1>11. /\ \A t \in Streams \ {s} : st'[t] = st[t]
       /\ st'[s] = "fold"
       /\ \A h \in Gens \ {s} : cid'[h] = cid[h]
  BY <1>4, <1>6 DEF FlowSafe, FlowInv, FlowTypes, CidInv, CidTypes
<1>12. /\ ~Placed(s) /\ Placed(s)' /\ Placed(g)'
       /\ \A h \in Gens \ {s} : Placed(h)' <=> Placed(h)
  BY <1>4, <1>5, <1>6, <1>7, <1>11 DEF Placed, Gens
<1>13. cid'[s] # <<>> /\ Distinct'
  BY <1>11 DEF CidInv, HaveCids
<1>14. \A t \in Streams : Placed(t) => Placed(parent[t])
  BY ParentPlaced
<1>15. \A h \in Gens \ {s} : /\ h # g => (Placed(h)' <=> Placed(h))
                             /\ h # g => trace'[h] = trace[h] /\ left'[h] = left[h]
                             /\ owner'[h] = owner[h] /\ cid'[h] = cid[h]
  BY <1>4, <1>10, <1>11, <1>12
<1>16. /\ UNCHANGED <<kind, thread_map>>
       /\ parent'[s] = g /\ owner'[s] = owner[g]
       /\ trace'[s] = trace[g] /\ trace'[g] = trace[g] /\ left'[s] = left[g] /\ left'[g] = left[g]
       /\ \A t \in Streams \ {s} : parent'[t] = parent[t] /\ st'[t] = st[t]
  BY <1>4, <1>5, <1>6, <1>7, <1>8, <1>10, <1>11
<1>17. QED
  BY <1>7, <1>8, <1>9, <1>10, <1>12, <1>13, <1>14, <1>15, <1>16, PathPlace
\* The steps of a task that folds: it runs a map or none, and nobody else's
\* trace or coroutine is touched.
LEMMA PathFold ==
  ASSUME PathSafe, NEW s \in Streams,
         MapOk(s) \/ MapBreak(s) \/ MapGenerator(s) \/ FoldEnd(s) \/ FoldPanic(s)
  PROVE  PathInv'
<1> USE DEF PathSafe, PathInv
<1>1. Streams \subseteq Gens /\ Inbounds \subseteq Gens /\ Inbounds \cap Streams = {}
  BY IdsAssumption DEF Gens
<1>2. /\ UNCHANGED <<kind, first, parent, owner, cid>> /\ st[s] = "fold"
      /\ \/ UNCHANGED st
         \/ \E x \in {"send", "mux", "panicked"} : st' = [st EXCEPT ![s] = x]
  BY DEF MapOk, MapBreak, MapGenerator, FoldEnd, FoldPanic, NextMap
<1>3. /\ st'[s] \in {"fold", "send", "mux", "panicked"}
      /\ \A t \in Streams \ {s} : st'[t] = st[t]
  BY <1>2 DEF FlowSafe, FlowInv, FlowTypes
<1>4. \A g \in Gens : Placed(g)' <=> Placed(g)
  BY <1>1, <1>2, <1>3 DEF Placed, Gens
<1>5. Placed(s) /\ owner[s] \in Inbounds
  BY <1>2, OwnThread
<1>6. Follows(owner[s], trace[s], left[s]) /\ trace[s] \in Seq(DOMAIN Chain) /\ left[s] \in 0..Len(Chain)
  BY <1>1, <1>5 DEF Paths, PathTypes
<1>7. PICK tr \in Seq(DOMAIN Chain), l \in 0..Len(Chain) :
        /\ trace' = [trace EXCEPT ![s] = tr] /\ left' = [left EXCEPT ![s] = l]
        /\ Follows(owner[s], tr, l) /\ \A p \in Seq(DOMAIN Chain) : IsPrefix(p, trace[s]) => IsPrefix(p, tr)
        /\ \A c \in DOMAIN thread_map' : c # cid[s] => c \in DOMAIN thread_map /\ thread_map'[c] = thread_map[c]
        /\ cid[s] \in DOMAIN thread_map' => kind[owner[s]] = "infinite"
        /\ st'[s] = "fold" /\ cid[s] \in DOMAIN thread_map' => thread_map'[cid[s]] \in {OVER, l}
  <2>1. CASE NextMap(s)
    <3>1. PICK k \in DOMAIN Chain : /\ Next_with_data(s, k)
                                    /\ left' = [left EXCEPT ![s] = k]
                                    /\ trace' = [trace EXCEPT ![s] = Append(trace[s], k)]
      <4>1. \E k \in DOMAIN Chain : /\ Next_with_data(s, k)
                                    /\ left' = [left EXCEPT ![s] = k]
                                    /\ trace' = [trace EXCEPT ![s] = Append(@, k)]
        BY <2>1 DEF NextMap
      <4>2. \A k : [trace EXCEPT ![s] = Append(@, k)] = [trace EXCEPT ![s] = Append(trace[s], k)]
        OBVIOUS
      <4>3. QED
        BY <4>1, <4>2
    <3>2. /\ k \in Following(owner[s], left[s])
          /\ \A c \in DOMAIN thread_map' : c # cid[s] => c \in DOMAIN thread_map /\ thread_map'[c] = thread_map[c]
          /\ cid[s] \in DOMAIN thread_map' => kind[owner[s]] = "infinite" /\ thread_map'[cid[s]] \in {OVER, k}
      BY <1>2, <3>1, NextFollows
    <3>3. Follows(owner[s], Append(trace[s], k), k) /\ Append(trace[s], k) \in Seq(DOMAIN Chain) /\ k \in 0..Len(Chain)
      BY <1>5, <1>6, <3>2, PathStep
    <3>4. \A p \in Seq(DOMAIN Chain) : IsPrefix(p, trace[s]) => IsPrefix(p, Append(trace[s], k))
      BY <1>6, PrefixAppend
    <3>5. QED
      BY <3>1, <3>2, <3>3, <3>4
  <2>2. CASE FoldEnd(s) \/ FoldPanic(s)
    <3>1. trace' = [trace EXCEPT ![s] = trace[s]] /\ left' = [left EXCEPT ![s] = left[s]]
      BY <2>2 DEF FoldEnd, FoldPanic, foldVars, PathTypes
    <3>2. st'[s] # "fold"
      BY <2>2 DEF FoldEnd, FoldPanic, FlowSafe, FlowInv, FlowTypes
    <3>3. /\ \A c \in DOMAIN thread_map' : c # cid[s] => c \in DOMAIN thread_map /\ thread_map'[c] = thread_map[c]
          /\ cid[s] \in DOMAIN thread_map' => kind[owner[s]] = "infinite"
      <4>1. CASE FoldEnd(s)
        BY <4>1, NoMapThreads DEF FoldEnd
      <4>2. CASE FoldPanic(s)
        BY <4>2 DEF FoldPanic, luaVars
      <4>3. QED
        BY <2>2, <4>1, <4>2
    <3>4. QED
      BY <1>6, <3>1, <3>2, <3>3
  <2>3. QED
    BY <2>1, <2>2 DEF MapOk, MapBreak, MapGenerator
<1>8. /\ \A g \in Gens : trace'[g] = IF g = s THEN tr ELSE trace[g]
      /\ \A g \in Gens : left'[g] = IF g = s THEN l ELSE left[g]
  BY <1>1, <1>7 DEF PathTypes
<1>9. PathTypes'
  BY <1>2, <1>7 DEF PathTypes
<1>10. \A i, p, j : Follows(i, p, j)' <=> Follows(i, p, j)
  BY <1>2 DEF Follows, Following
<1>11. Paths'
  <2>1. \A g \in Gens : Placed(g)' => Follows(owner'[g], trace'[g], left'[g])
    BY <1>2, <1>4, <1>7, <1>8 DEF Paths
  <2>2. ASSUME NEW t \in Streams, Placed(t)' PROVE IsPrefix(trace'[parent'[t]], trace'[t])
    <3>1. Placed(t) /\ parent'[t] = parent[t] /\ parent[t] \in Gens /\ parent[t] # s
      BY <1>1, <1>2, <1>4, <2>2, ParentPlaced
    <3>2. trace'[parent'[t]] = trace[parent[t]] /\ trace[parent[t]] \in Seq(DOMAIN Chain)
      BY <1>8, <3>1 DEF PathTypes
    <3>3. IsPrefix(trace[parent[t]], trace[t])
      BY <3>1 DEF Paths
    <3>4. QED
      BY <1>1, <1>7, <1>8, <3>2, <3>3
  <2>3. QED
    BY <1>2, <1>10, <2>1, <2>2 DEF Paths, Follows, Following
<1>12. Threads'
  <2>1. ASSUME NEW c \in DOMAIN thread_map'
        PROVE  \E t \in Streams : Placed(t)' /\ cid'[t] = c /\ kind'[owner'[t]] = "infinite"
    <3>1. CASE c = cid[s]
      BY <1>1, <1>2, <1>4, <1>5, <1>7, <3>1
    <3>2. CASE c # cid[s]
      <4>1. PICK t \in Streams : Placed(t) /\ cid[t] = c /\ kind[owner[t]] = "infinite"
        BY <1>7, <2>1, <3>2 DEF Threads
      <4>2. QED
        BY <1>1, <1>2, <1>4, <4>1
    <3>3. QED
      BY <3>1, <3>2
  <2>2. ASSUME NEW t \in Streams, st'[t] = "fold", cid'[t] \in DOMAIN thread_map'
        PROVE  thread_map'[cid'[t]] \in {OVER, left'[t]}
    <3>1. CASE t = s
      BY <1>1, <1>2, <1>7, <1>8, <2>2, <3>1
    <3>2. CASE t # s
      <4>1. st[t] = "fold" /\ left'[t] = left[t] /\ cid'[t] = cid[t]
        BY <1>1, <1>2, <1>3, <1>8, <2>2, <3>2
      <4>2. Placed(t) /\ cid[t] # <<>> /\ t \in Gens /\ s \in Gens
        BY <1>1, <4>1, OwnThread DEF FlowSafe, CidInv, HaveCids
      <4>3. cid[t] # cid[s]
        BY <3>2, <4>2 DEF FlowSafe, CidInv, Distinct
      <4>4. QED
        BY <1>7, <2>2, <4>1, <4>3 DEF Threads
    <3>3. QED
      BY <3>1, <3>2
  <2>3. QED
    BY <2>1, <2>2 DEF Threads
<1>13. QED
  BY <1>9, <1>11, <1>12

LEMMA PathNext == FlowSafe /\ CidInv' /\ PathInv /\ [Next]_vars => PathInv'
<1> SUFFICES ASSUME PathSafe, CidInv', [Next]_vars PROVE PathInv'
  BY DEF PathSafe
<1>1. Streams \subseteq Gens /\ Inbounds \subseteq Gens /\ Inbounds \cap Streams = {}
  BY IdsAssumption DEF Gens
<1>2. ASSUME NEW i \in Inbounds, Inbound(i) PROVE PathInv'
  <2>1. CASE FirstErr(i) \/ FirstNone(i)
    <3>1. UNCHANGED <<kind, trace, left, thread_map, st, owner, cid, parent>>
      BY <2>1, FirstFollows DEF FirstErr, FirstNone, foldVars, luaVars
    <3>2. first[i] = "pending" /\ first' = [first EXCEPT ![i] = "err"]
      BY <2>1 DEF FirstErr, FirstNone, RunFirst
    <3>3. \A h \in Inbounds : first'[h] = IF h = i THEN "err" ELSE first[h]
      BY <3>2 DEF PathSafe, FlowSafe, FlowInv, FlowTypes
    <3>4. \A g \in Gens : Placed(g)' <=> Placed(g)
      BY <3>1, <3>2, <3>3 DEF Placed
    <3>5. QED
      BY <3>1, <3>4, PathQuiet
  <2>2. CASE Handle(i)
    <3>1. UNCHANGED <<kind, trace, left, thread_map, first, owner, cid, parent>>
      BY <2>2 DEF Handle, foldVars, luaVars
    <3>2. dealQ[i] \in Seq(Streams) /\ dealQ[i] # <<>> /\ st' = [st EXCEPT ![Head(dealQ[i])] = "handled"]
      BY <2>2 DEF Handle, PathSafe, FlowSafe, CidInv, CidTypes
    <3>3. PICK s \in Streams : s = Head(dealQ[i])
      BY <3>2
    <3>4. s = dealQ[i][1] /\ 1 \in DOMAIN dealQ[i]
      BY <3>2, <3>3, TailElements
    <3>5. st[s] \in {"dealt", "handled"} /\ st'[s] = "handled" /\ \A t \in Streams \ {s} : st'[t] = st[t]
      BY <3>2, <3>3, <3>4 DEF PathSafe, FlowSafe, FlowInv, FlowTypes, Dealt
    <3>6. (\A g \in Gens : Placed(g)' <=> Placed(g)) /\ \A t \in Streams : st'[t] = "fold" => st[t] = "fold"
      BY <1>1, <3>1, <3>5 DEF Placed, Gens
    <3>7. QED
      BY <3>1, <3>6, PathQuiet
  <2>3. CASE LoopAEnd(i)
    <3>1. UNCHANGED <<kind, trace, left, thread_map, first, owner, cid, parent, st>>
      BY <2>3 DEF LoopAEnd, foldVars, luaVars
    <3>2. QED
      BY <3>1, PathQuiet DEF Placed
  <2>4. QED
    BY <1>2, <2>1, <2>2, <2>3, PathFirstGenerator, PathFirstDirect DEF Inbound
<1>3. ASSUME NEW g \in Gens, Generator(g) PROVE PathInv'
  <2>1. ASSUME NEW s \in Streams, Produce(g, s) PROVE PathInv'
    <3>1. UNCHANGED <<kind, trace, left, thread_map, first>>
      BY <2>1 DEF Produce, foldVars, luaVars
    <3>2. /\ st[s] = "unused" /\ st' = [st EXCEPT ![s] = "offered"]
          /\ parent' = [parent EXCEPT ![s] = g] /\ owner' = [owner EXCEPT ![s] = owner[g]]
          /\ cid' = [cid EXCEPT ![s] = SubCid(g)] \/ UNCHANGED cid
      BY <2>1 DEF Produce, Fresh
    <3>3. /\ \A t \in Streams \ {s} : st'[t] = st[t] /\ parent'[t] = parent[t]
          /\ st'[s] = "offered"
          /\ \A h \in Gens \ {s} : owner'[h] = owner[h] /\ cid'[h] = cid[h]
      BY <1>1, <3>2 DEF PathSafe, FlowSafe, FlowInv, FlowTypes, CidInv, CidTypes
    <3>4. ~Placed(s) /\ \A h \in Gens : Placed(h)' <=> Placed(h)
      BY <1>1, <3>1, <3>2, <3>3 DEF Placed, Gens
    <3>5. \A t \in Streams : st'[t] = "fold" => st[t] = "fold"
      BY <3>3
    <3>6. /\ \A h \in Gens : Placed(h) => owner'[h] = owner[h] /\ cid'[h] = cid[h]
          /\ \A t \in Streams : Placed(t) => parent'[t] = parent[t]
      BY <3>3, <3>4
    <3>7. QED
      BY <3>1, <3>4, <3>5, <3>6, PathQuiet
  <2>2. CASE ProducerEnd(g) \/ IterEnd(g)
    <3>1. UNCHANGED <<kind, trace, left, thread_map, first, owner, cid, parent, st>>
      BY <2>2 DEF ProducerEnd, IterEnd, foldVars, luaVars
    <3>2. QED
      BY <3>1, PathQuiet DEF Placed
  <2>3. QED
    BY <1>3, <2>1, <2>2, PathTake DEF Generator
<1>4. ASSUME NEW s \in Streams, Folding(s) PROVE PathInv'
  <2>1. CASE Deal(s)
    <3>1. UNCHANGED <<kind, trace, left, thread_map, first, owner, cid, parent>>
      BY <2>1 DEF Deal, foldVars, luaVars
    <3>2. st[s] = "send" /\ st' = [st EXCEPT ![s] = "dealt"]
      BY <2>1 DEF Deal
    <3>3. st'[s] = "dealt" /\ \A t \in Streams \ {s} : st'[t] = st[t]
      BY <3>2 DEF PathSafe, FlowSafe, FlowInv, FlowTypes
    <3>4. (\A g \in Gens : Placed(g)' <=> Placed(g)) /\ \A t \in Streams : st'[t] = "fold" => st[t] = "fold"
      BY <1>1, <3>1, <3>2, <3>3 DEF Placed, Gens
    <3>5. QED
      BY <3>1, <3>4, PathQuiet
  <2>2. QED
    BY <1>4, <2>1, PathFold DEF Folding
<1>5. CASE UNCHANGED vars
  <2>1. UNCHANGED <<kind, trace, left, thread_map, first, owner, cid, parent, st>>
    BY <1>5 DEF vars, foldVars, luaVars
  <2>2. QED
    BY <2>1, PathQuiet DEF Placed
<1>6. QED
  BY <1>2, <1>3, <1>4, <1>5 DEF Next

LEMMA PathInvImplies == FlowSafe /\ PathInv => MapsInOrder
<1> SUFFICES ASSUME FlowSafe, PathInv, NEW s \in Folded
             PROVE  /\ IsPrefix(trace[parent[s]], trace[s])
                    /\ trace[s] # <<>> /\ left[s] = Last(trace[s])
                    /\ \A j \in DOMAIN trace[s] :
                         trace[s][j] \in Following(owner[s], IF j = 1 THEN 0 ELSE trace[s][j - 1])
  BY DEF MapsInOrder
<1>1. s \in Streams /\ s \in Gens /\ Placed(s)
  BY IdsAssumption DEF Folded, Placed, Gens
<1>2. QED
  BY <1>1 DEF PathInv, Paths, Follows, Last

\* For any chains and scripts, whichever coroutines a generator script keeps and
\* whatever is folded at the same time: the maps that were run for a stream are
\* those of its generator and then, one by one, what its own iterator gives.
THEOREM MapsOrdered == Spec => []MapsInOrder
<1>1. Init => FlowSafe /\ PathInv
  BY CidInit, FlowInit, PathInit DEF FlowSafe
<1>2. FlowSafe /\ PathInv /\ [Next]_vars => FlowSafe' /\ PathInv'
  BY CidNext, FlowNext, PathNext DEF FlowSafe
<1>3. FlowSafe /\ PathInv => MapsInOrder
  BY PathInvImplies
<1>4. QED
  BY <1>1, <1>2, <1>3, PTL DEF Spec
=============================================================================
