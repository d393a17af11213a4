----------------------------- MODULE TproxyProofs -----------------------------
(* The theorems about UdpFixedListen and about Tproxy, which extends it: what *)
(* holds of the AddrConns of a listener for any sources and channels; what    *)
(* the tables hold, to which only the steps of an AutoRoute make a            *)
(* difference, whichever commands fail and whenever a process is killed; and  *)
(* what becomes of the datagrams of tproxy.                                   *)
EXTENDS Tproxy, FiniteSetTheorems, WellFoundedInduction, TLAPS

-----------------------------------------------------------------------------
(* UdpFixedListen: the entries of conn_map *)

EntryTypes ==
  /\ conn_map \in [Srcs -> AddrConns \cup {None}]
  /\ src \in [AddrConns -> Srcs \cup {None}]
  /\ stage \in [AddrConns -> Stages]
  /\ down \in [AddrConns -> DownStates]
  /\ queue \in Seq(AddrConns)
  /\ at \in {"recv", "send", "offer", "stopped"}
  /\ Locked => cur.src \in Srcs /\ Target \in AddrConns

Unclosed(c) == down[c] \in {"run", "closing", "parked", "dropped"}

\* EntryIsUnclosed, source by source.
EntryOf(c) == \A s \in Srcs : conn_map[s] = c <=> Unclosed(c) /\ s = src[c]

\* Both halves of such an AddrConn are in one place.
OneTask == {"queued", "dialing", "early", "mixed", "writing"}

\* What has not come to a relay of two tasks has not come to a close either.
Fresh == \A c \in AddrConns :
  /\ stage[c] = "unused" => down[c] = "none"
  /\ stage[c] \in OneTask => down[c] = "run"
  /\ Unclosed(c) => src[c] \in Srcs

\* The listener drops each AddrConn at most once: those that wait are queued, are
\* there once, and the one that is offered is not among them.
Waiting ==
  /\ \A i \in DOMAIN queue : stage[queue[i]] = "queued"
  /\ \A i, j \in DOMAIN queue : queue[i] = queue[j] => i = j
  /\ at = "offer" => /\ stage[Target] = "queued"
                     /\ \A i \in DOMAIN queue : queue[i] # Target

EntryInv == EntryTypes /\ Fresh /\ Waiting /\ \A c \in AddrConns : EntryOf(c)

LEMMA EntryPointwise == EntryInv => EntryIsUnclosed
  BY DEF EntryInv, EntryOf, EntryIsUnclosed, Fresh, Unclosed

LEMMA EntryInit == Init => EntryInv
  BY ConnsAssumption
  DEF Init, EntryInv, EntryTypes, EntryOf, Unclosed, Fresh, Waiting, Stages, DownStates, Locked, OneTask

-----------------------------------------------------------------------------
(* The steps, by what they do to the entries *)

\* Nothing to what waits, nor to what is open.
LEMMA EntriesStay ==
  ASSUME EntryInv, UNCHANGED <<conn_map, queue, src>>,
         stage' \in [AddrConns -> Stages], down' \in [AddrConns -> DownStates],
         \A c \in AddrConns : Unclosed(c)' <=> Unclosed(c),
         \A c \in AddrConns : stage'[c] = "unused" => down'[c] = "none",
         \A c \in AddrConns : stage'[c] \in OneTask => down'[c] = "run",
         \A c \in AddrConns : stage[c] = "queued" /\ stage'[c] # "queued" => at = "offer" /\ c = Target /\ at' # "offer",
         at' \in {"recv", "send", "offer", "stopped"},
         Locked' => UNCHANGED <<at, cur>>
  PROVE  EntryInv'
<1>1. EntryTypes'
  BY DEF EntryInv, EntryTypes, Locked, Target
<1>2. Fresh'
  BY DEF EntryInv, Fresh
<1>3. Waiting'
  BY DEF EntryInv, EntryTypes, Waiting, Locked, Target
<1>4. \A c \in AddrConns : EntryOf(c)'
  BY DEF EntryInv, EntryOf
<1>5. QED
  BY <1>1, <1>2, <1>3, <1>4 DEF EntryInv

\* AddrConns that are open are dropped.
LEMMA DropStates ==
  ASSUME EntryInv, NEW cs, Drop(cs), \A c \in cs \cap AddrConns : down[c] = "run"
  PROVE  /\ stage' \in [AddrConns -> Stages] /\ down' \in [AddrConns -> DownStates]
         /\ \A c \in AddrConns : Unclosed(c)' <=> Unclosed(c)
         /\ \A c \in AddrConns : stage'[c] = "unused" => down'[c] = "none"
         /\ \A c \in AddrConns : stage'[c] \in OneTask => down'[c] = "run"
         /\ \A c \in AddrConns \ cs : stage'[c] = stage[c]
  BY DEF EntryInv, EntryTypes, Fresh, Drop, Unclosed, Stages, DownStates, OneTask

LEMMA RecvKnownStep ==
  ASSUME EntryInv, NEW s \in Srcs, RecvKnown(s)
  PROVE  EntryInv'
<1>1. /\ UNCHANGED <<conn_map, queue, src, stage, down>>
      /\ at' = "send" /\ at = "recv" /\ cur'.src = s /\ conn_map[s] # None
  BY DEF RecvKnown, Arrive
<1>2. EntryTypes'
  BY <1>1 DEF EntryInv, EntryTypes, Target
<1>3. Fresh' /\ Waiting' /\ \A c \in AddrConns : EntryOf(c)'
  BY <1>1 DEF EntryInv, Fresh, Waiting, EntryOf, Unclosed
<1>4. QED
  BY <1>2, <1>3 DEF EntryInv

\* The source has no entry, so nothing that is open was made for it.
LEMMA RecvNewStep ==
  ASSUME EntryInv, NEW s \in Srcs, NEW c \in AddrConns, RecvNew(s, c)
  PROVE  EntryInv'
<1> USE ConnsAssumption DEF EntryInv
<1>1. /\ at' = "offer" /\ at = "recv" /\ cur'.src = s /\ conn_map[s] = None
      /\ stage[c] = "unused" /\ down[c] = "none" /\ UNCHANGED queue
  BY DEF RecvNew, Arrive, Fresh
<1>2. /\ \A t \in Srcs : conn_map'[t] = IF t = s THEN c ELSE conn_map[t]
      /\ \A d \in AddrConns : /\ src'[d] = IF d = c THEN s ELSE src[d]
                              /\ stage'[d] = IF d = c THEN "queued" ELSE stage[d]
                              /\ down'[d] = IF d = c THEN "run" ELSE down[d]
  BY DEF RecvNew, EntryTypes
<1>3. EntryTypes'
  <2>1. Target' = c
    BY <1>1, <1>2 DEF Target
  <2>2. QED
    BY <1>1, <2>1 DEF RecvNew, EntryTypes, Stages, DownStates
<1>4. Fresh'
  BY <1>2 DEF Fresh, Unclosed, OneTask
<1>5. \A d \in AddrConns : EntryOf(d)'
  BY <1>1, <1>2 DEF EntryOf, Unclosed
<1>6. Waiting'
  <2>1. \A i \in DOMAIN queue : queue[i] \in AddrConns /\ queue[i] # c
    BY <1>1 DEF EntryTypes, Waiting
  <2>2. Target' = c
    BY <1>1, <1>2 DEF Target
  <2>3. QED
    BY <1>1, <1>2, <2>1, <2>2 DEF Waiting
<1>7. QED
  BY <1>3, <1>4, <1>5, <1>6

LEMMA OfferOkStep ==
  ASSUME EntryInv, OfferOk
  PROVE  EntryInv'
<1> USE DEF EntryInv
<1>1. at = "offer" /\ at' = "recv" /\ UNCHANGED <<conn_map, src, stage, down>>
  BY DEF OfferOk
<1>2. Target \in AddrConns /\ queue \in Seq(AddrConns) /\ queue' = Append(queue, Target)
  BY DEF OfferOk, EntryTypes, Locked
<1>3. EntryTypes'
  BY <1>1, <1>2 DEF EntryTypes, Locked
<1>4. Fresh' /\ \A c \in AddrConns : EntryOf(c)'
  BY <1>1 DEF Fresh, EntryOf, Unclosed
<1>5. Waiting'
  BY <1>1, <1>2 DEF Waiting
<1>6. QED
  BY <1>3, <1>4, <1>5

LEMMA OfferErrStep ==
  ASSUME EntryInv, OfferErr
  PROVE  EntryInv'
<1>1. at = "offer" /\ Target \in AddrConns /\ stage[Target] = "queued" /\ down[Target] = "run"
  BY DEF OfferErr, EntryInv, EntryTypes, Waiting, Fresh, Locked, OneTask
<1>2. Drop({Target})
  BY DEF OfferErr
<1>3. QED
  BY <1>1, <1>2, DropStates, EntriesStay DEF OfferErr, Locked

LEMMA AcceptStep ==
  ASSUME EntryInv, Accept
  PROVE  EntryInv'
<1> USE DEF EntryInv
<1>1. /\ queue \in Seq(AddrConns) /\ queue # <<>> /\ queue' = Tail(queue)
      /\ UNCHANGED <<at, cur, conn_map, src, down>>
  BY DEF Accept, listenVars, EntryTypes
<1>2. PICK c \in AddrConns : c = queue[1] /\ c = Head(queue)
  BY <1>1
<1>3. \A d \in AddrConns : stage'[d] = IF d = c THEN "dialing" ELSE stage[d]
  BY <1>2 DEF Accept, EntryTypes
<1>4. /\ \A i \in DOMAIN queue' : i + 1 \in DOMAIN queue /\ queue'[i] = queue[i + 1]
      /\ 1 \in DOMAIN queue /\ \A i \in DOMAIN queue : queue[i] \in AddrConns
      /\ \A i \in DOMAIN queue' : i \in Nat /\ i + 1 # 1
  BY <1>1
<1>5. EntryTypes'
  BY <1>1, <1>2 DEF Accept, EntryTypes, Stages, Target, Locked
<1>6. Fresh' /\ \A d \in AddrConns : EntryOf(d)'
  <2>1. stage[c] = "queued"
    BY <1>2, <1>4 DEF Waiting
  <2>2. QED
    BY <1>1, <1>3, <2>1 DEF Fresh, EntryOf, Unclosed, OneTask
<1>7. Waiting'
  <2>1. \A i \in DOMAIN queue' : queue'[i] \in AddrConns /\ queue'[i] # c
    BY <1>2, <1>4 DEF Waiting
  <2>2. \A i, j \in DOMAIN queue' : queue'[i] = queue'[j] => i = j
    BY <1>4 DEF Waiting
  <2>3. at = "offer" => Target \in AddrConns /\ Target # c
    BY <1>2, <1>4 DEF Waiting, EntryTypes, Locked
  <2>4. QED
    BY <1>1, <1>3, <1>4, <2>1, <2>2, <2>3 DEF Waiting, Target
<1>8. QED
  BY <1>5, <1>6, <1>7

LEMMA DropListenerStep ==
  ASSUME EntryInv, DropListener
  PROVE  EntryInv'
<1> DEFINE cs == {queue[i] : i \in DOMAIN queue}
<1>1. \A c \in cs \cap AddrConns : down[c] = "run"
  BY DEF EntryInv, Waiting, Fresh, OneTask
<1>2. Drop(cs) /\ queue' = <<>> /\ UNCHANGED <<at, cur, conn_map, src>>
  BY DEF DropListener
<1>3. /\ stage' \in [AddrConns -> Stages] /\ down' \in [AddrConns -> DownStates]
      /\ \A c \in AddrConns : Unclosed(c)' <=> Unclosed(c)
      /\ \A c \in AddrConns : stage'[c] = "unused" => down'[c] = "none"
      /\ \A c \in AddrConns : stage'[c] \in OneTask => down'[c] = "run"
      /\ \A c \in AddrConns \ cs : stage'[c] = stage[c]
  BY <1>1, <1>2, DropStates
<1>4. EntryTypes'
  BY <1>2, <1>3 DEF EntryInv, EntryTypes, Locked, Target
<1>5. Fresh' /\ \A c \in AddrConns : EntryOf(c)'
  BY <1>2, <1>3 DEF EntryInv, Fresh, EntryOf
<1>6. Waiting'
  <2>1. at = "offer" => Target \in AddrConns \ cs
    BY DEF EntryInv, EntryTypes, Waiting, Locked
  <2>2. QED
    BY <1>2, <1>3, <2>1 DEF EntryInv, Waiting, Target
<1>7. QED
  BY <1>4, <1>5, <1>6 DEF EntryInv

\* It is open, so the entry of its source is its own.
LEMMA CloseStep ==
  ASSUME EntryInv, NEW c \in AddrConns, Close(c)
  PROVE  EntryInv'
<1> USE ConnsAssumption DEF EntryInv
<1>1. /\ down[c] = "closing" /\ ~Locked /\ src[c] \in Srcs /\ conn_map[src[c]] = c
      /\ UNCHANGED <<at, cur, queue, src>>
  BY DEF Close, listenVars, Fresh, EntryOf, Unclosed
<1>2. /\ \A s \in Srcs : conn_map'[s] = IF s = src[c] THEN None ELSE conn_map[s]
      /\ \A d \in AddrConns : down'[d] = IF d = c THEN "closed" ELSE down[d]
      /\ \A d \in AddrConns : stage'[d] = stage[d] \/ (stage'[d] = "gone" /\ stage[d] = "turned")
  BY DEF Close, EntryTypes
<1>3. EntryTypes'
  BY <1>1 DEF Close, EntryTypes, Stages, DownStates, Locked
<1>4. Fresh'
  BY <1>1, <1>2 DEF Fresh, Unclosed, OneTask
<1>5. \A d \in AddrConns : EntryOf(d)'
  BY <1>1, <1>2 DEF EntryOf, Unclosed
<1>6. Waiting'
  BY <1>1, <1>2 DEF Waiting, EntryTypes, Locked
<1>7. QED
  BY <1>3, <1>4, <1>5, <1>6

\* The task that has an AddrConn, before its writer is closed.
LEMMA ServingStep ==
  ASSUME EntryInv, NEW c \in AddrConns, Serving(c), ~Close(c)
  PROVE  EntryInv'
<1> USE DEF EntryInv, EntryTypes, OneTask
<1>1. UNCHANGED <<at, cur, conn_map, queue, src>>
  BY DEF Serving, listenVars, DialFail, SelectNone, StartRelay, EarlyWritten, EarlyFail, Wrote, MixedEnd, Read, UpEnd, DownEnd,
         ClosePending, CpNotice, FarEndWakes
<1>2. /\ stage' \in [AddrConns -> Stages] /\ down' \in [AddrConns -> DownStates]
      /\ \A d \in AddrConns : Unclosed(d)' <=> Unclosed(d)
      /\ \A d \in AddrConns : stage'[d] = "unused" => down'[d] = "none"
      /\ \A d \in AddrConns : stage'[d] \in OneTask => down'[d] = "run"
      /\ \A d \in AddrConns : stage[d] = "queued" => stage'[d] = "queued"
  <2>1. CASE DialFail(c) \/ EarlyFail(c) \/ MixedEnd(c)
    <3>1. Drop({c}) /\ down[c] = "run" /\ stage[c] # "queued"
      BY <2>1 DEF DialFail, EarlyFail, MixedEnd, Fresh
    <3>2. QED
      BY <3>1, DropStates
  <2>2. CASE SelectNone(c)
    BY <2>2 DEF SelectNone, Fresh, Unclosed, Stages, DownStates
  <2>3. CASE StartRelay(c) \/ EarlyWritten(c)
    BY <2>3 DEF StartRelay, EarlyWritten, Fresh, Unclosed, Stages
  <2>4. CASE Read(c) \/ Wrote(c) \/ UpEnd(c)
    BY <2>4 DEF Read, Wrote, UpEnd, Fresh, Unclosed, Stages
  <2>5. CASE DownEnd(c)
    BY <2>5 DEF DownEnd, Fresh, Unclosed, DownStates
  <2>6. CASE ClosePending(c)
    BY <2>6 DEF ClosePending, Fresh, Unclosed, DownStates
  <2>7. CASE CpNotice(c) \/ FarEndWakes(c)
    BY <2>7 DEF CpNotice, FarEndWakes, Woken, Fresh, Unclosed, DownStates
  <2>8. QED
    BY <2>1, <2>2, <2>3, <2>4, <2>5, <2>6, <2>7 DEF Serving
<1>3. QED
  BY <1>1, <1>2, EntriesStay DEF Locked

LEMMA EntryNext == EntryInv /\ [Next]_vars => EntryInv'
<1> SUFFICES ASSUME EntryInv, [Next]_vars PROVE EntryInv'
  OBVIOUS
<1>1. ASSUME NEW s \in Srcs, RecvKnown(s) PROVE EntryInv'
  BY <1>1, RecvKnownStep
<1>2. ASSUME NEW s \in Srcs, NEW c \in AddrConns, RecvNew(s, c) PROVE EntryInv'
  BY <1>2, RecvNewStep
<1>3. CASE SendOk \/ SendErr \/ Stop \/ UNCHANGED vars
  <2>1. /\ UNCHANGED <<conn_map, queue, src, stage, down>>
        /\ at' \in {"recv", "stopped"} \/ UNCHANGED <<at, cur>>
    BY <1>3 DEF SendOk, SendErr, Stop, vars
  <2>2. QED
    BY <2>1, EntriesStay DEF EntryInv, EntryTypes, Fresh, Unclosed, Locked
<1>4. CASE OfferOk
  BY <1>4, OfferOkStep
<1>5. CASE OfferErr
  BY <1>5, OfferErrStep
<1>6. CASE Accept
  BY <1>6, AcceptStep
<1>7. CASE DropListener
  BY <1>7, DropListenerStep
<1>8. ASSUME NEW c \in AddrConns, Serving(c) PROVE EntryInv'
  BY <1>8, CloseStep, ServingStep
<1>9. QED
  BY <1>1, <1>2, <1>3, <1>4, <1>5, <1>6, <1>7, <1>8 DEF Next, Listening

\* conn_map never loses the entry of an AddrConn that was not closed, keeps none of
\* one that was, and two that are open never share a source: for any number of
\* sources and AddrConns, and channels of any size.
THEOREM EntryCorrect == Spec => []EntryIsUnclosed
  BY EntryInit, EntryNext, EntryPointwise, PTL DEF Spec
-----------------------------------------------------------------------------
(* The streams: an inductive invariant for StreamUnbroken *)

All(c) == got[c] \o rx[c]

\* An uninterrupted run of the datagrams of source s.
Unbroken(all, s) ==
  \A i \in 1..Len(all) : all[i].src = s /\ (i > 1 => all[i].n = all[i-1].n + 1)

\* The last datagram of source s that was delivered, if its AddrConn has a Reader.
Delivered(s) == IF at = "send" /\ cur.src = s THEN sent[s] - 1 ELSE sent[s]

StreamTypes ==
  /\ rx \in [AddrConns -> Seq(Datagrams)]
  /\ got \in [AddrConns -> Seq(Datagrams)]
  /\ sent \in [Srcs -> 0..MaxSent]
  /\ DOMAIN up = AddrConns
  /\ at = "send" => cur \in Datagrams /\ cur.n = sent[cur.src]

StreamOf(c) ==
  /\ stage[c] = "unused" => got[c] = <<>> /\ rx[c] = <<>> /\ up[c] # "run"
  /\ stage[c] # "unused" => src[c] \in Srcs
  /\ Unbroken(All(c), src[c])
  /\ up[c] = "run" /\ conn_map[src[c]] = c => All(c) # <<>> /\ All(c)[Len(All(c))].n = Delivered(src[c])

StreamInv == StreamTypes /\ \A c \in AddrConns : StreamOf(c)

LEMMA StreamInit == Init => StreamInv
<1> SUFFICES ASSUME Init PROVE StreamInv
  OBVIOUS
<1>1. StreamTypes
  BY BoundsAssumption DEF Init, StreamTypes
<1>2. \A c \in AddrConns : got[c] = <<>> /\ rx[c] = <<>> /\ up[c] = "none" /\ stage[c] = "unused"
  BY DEF Init
<1>3. \A c \in AddrConns : All(c) = <<>>
  BY <1>2 DEF All
<1>4. \A c \in AddrConns : Unbroken(All(c), src[c])
  BY <1>3 DEF Unbroken
<1>5. QED
  BY <1>1, <1>2, <1>4 DEF StreamInv, StreamOf

LEMMA AllType ==
  ASSUME StreamTypes, NEW c \in AddrConns
  PROVE  All(c) \in Seq(Datagrams) /\ got[c] \in Seq(Datagrams) /\ rx[c] \in Seq(Datagrams)
  BY DEF StreamTypes, All

LEMMA AppendLast ==
  ASSUME NEW S, NEW q \in Seq(S), NEW e \in S
  PROVE  /\ Append(q, e) \in Seq(S) /\ Append(q, e) # <<>>
         /\ Len(Append(q, e)) = Len(q) + 1 /\ Len(q) \in Nat
         /\ Append(q, e)[Len(q) + 1] = e
         /\ \A i \in 1..Len(q) : Append(q, e)[i] = q[i]
  OBVIOUS

LEMMA RunAppend ==
  ASSUME NEW all \in Seq(Datagrams), NEW s, Unbroken(all, s), NEW d \in Datagrams, d.src = s,
         all # <<>> => d.n = all[Len(all)].n + 1
  PROVE  /\ Append(all, d) \in Seq(Datagrams) /\ Unbroken(Append(all, d), s)
         /\ Append(all, d) # <<>> /\ Append(all, d)[Len(Append(all, d))] = d
<1>1. /\ Append(all, d) \in Seq(Datagrams) /\ Append(all, d) # <<>>
      /\ Len(Append(all, d)) = Len(all) + 1 /\ Len(all) \in Nat
      /\ Append(all, d)[Len(all) + 1] = d
      /\ \A i \in 1..Len(all) : Append(all, d)[i] = all[i]
  BY AppendLast
<1>2. ASSUME NEW i \in 1..(Len(all) + 1)
      PROVE  Append(all, d)[i].src = s /\ (i > 1 => Append(all, d)[i].n = Append(all, d)[i-1].n + 1)
  <2>1. CASE i = Len(all) + 1
    <3>1. i > 1 => i - 1 = Len(all) /\ i - 1 \in 1..Len(all) /\ all # <<>>
      BY <1>1, <2>1
    <3>2. QED
      BY <1>1, <2>1, <3>1
  <2>2. CASE i \in 1..Len(all)
    <3>1. i > 1 => i - 1 \in 1..Len(all)
      BY <1>1, <2>2
    <3>2. QED
      BY <1>1, <2>2, <3>1 DEF Unbroken
  <2>3. QED
    BY <1>1, <2>1, <2>2
<1>3. QED
  BY <1>1, <1>2 DEF Unbroken

\* What was read stays when the Reader and its channel are dropped.
LEMMA RunPrefix ==
  ASSUME NEW p \in Seq(Datagrams), NEW q \in Seq(Datagrams), NEW s, Unbroken(p \o q, s)
  PROVE  Unbroken(p \o <<>>, s)
<1>1. p \o <<>> = p /\ Len(p) \in Nat /\ Len(p \o q) = Len(p) + Len(q) /\ Len(q) \in Nat
  OBVIOUS
<1>2. \A i \in 1..Len(p) : (p \o q)[i] = p[i] /\ i \in 1..Len(p \o q) /\ (i > 1 => i - 1 \in 1..Len(p))
  BY <1>1
<1>3. QED
  BY <1>1, <1>2 DEF Unbroken

LEMMA ReadSame ==
  ASSUME NEW p \in Seq(Datagrams), NEW q \in Seq(Datagrams), q # <<>>
  PROVE  Append(p, Head(q)) \o Tail(q) = p \o q
  OBVIOUS

LEMMA SendSame ==
  ASSUME NEW p \in Seq(Datagrams), NEW q \in Seq(Datagrams), NEW d \in Datagrams
  PROVE  p \o Append(q, d) = Append(p \o q, d)
  OBVIOUS

\* Steps of the AddrConns, that bring none a datagram, and none a new entry.
LEMMA StreamsStay ==
  ASSUME EntryInv, StreamInv, UNCHANGED <<src, sent>>, rx' \in [AddrConns -> Seq(Datagrams)],
         got' \in [AddrConns -> Seq(Datagrams)], DOMAIN up' = AddrConns,
         \A s \in Srcs : conn_map'[s] \in {conn_map[s], None},
         UNCHANGED <<at, cur>> \/ (at # "send" /\ at' # "send"),
         \A c \in AddrConns : /\ stage'[c] = "unused" <=> stage[c] = "unused"
                              /\ stage[c] = "unused" => UNCHANGED <<got[c], rx[c]>>
                              /\ up'[c] = "run" => up[c] = "run",
         \A c \in AddrConns : \/ All(c)' = All(c)
                              \/ (got'[c] = got[c] /\ rx'[c] = <<>> /\ up'[c] # "run")
  PROVE  StreamInv'
<1>1. StreamTypes'
  BY DEF StreamInv, StreamTypes
<1>2. ASSUME NEW c \in AddrConns PROVE StreamOf(c)'
  <2>1. /\ stage'[c] = "unused" => got'[c] = <<>> /\ rx'[c] = <<>> /\ up'[c] # "run"
        /\ stage'[c] # "unused" => src'[c] \in Srcs
    BY DEF StreamInv, StreamOf
  <2>2. Unbroken(All(c)', src[c])
    <3>1. CASE All(c)' = All(c)
      BY <3>1 DEF StreamInv, StreamOf
    <3>2. CASE got'[c] = got[c] /\ rx'[c] = <<>>
      <4>1. got[c] \in Seq(Datagrams) /\ rx[c] \in Seq(Datagrams) /\ Unbroken(got[c] \o rx[c], src[c])
        BY DEF StreamInv, StreamOf, StreamTypes, All
      <4>2. Unbroken(got[c] \o <<>>, src[c])
        BY <4>1, RunPrefix
      <4>3. QED
        BY <3>2, <4>2 DEF All
    <3>3. QED
      BY <3>1, <3>2
  <2>3. ASSUME up'[c] = "run", conn_map'[src[c]] = c
        PROVE  All(c)' # <<>> /\ All(c)'[Len(All(c)')].n = Delivered(src[c])'
    <3>1. All(c)' = All(c) /\ up[c] = "run" /\ stage[c] # "unused"
      BY <2>3 DEF StreamInv, StreamOf
    <3>2. src[c] \in Srcs
      BY <3>1 DEF StreamInv, StreamOf
    <3>3. conn_map[src[c]] = c
      BY <2>3, <3>2, ConnsAssumption
    <3>4. Delivered(src[c])' = Delivered(src[c])
      BY DEF Delivered
    <3>5. QED
      BY <3>1, <3>3, <3>4 DEF StreamInv, StreamOf
  <2>4. QED
    BY <2>1, <2>2, <2>3 DEF StreamOf, Unbroken
<1>3. QED
  BY <1>1, <1>2 DEF StreamInv
\* AddrConns that were accepted or wait to be are dropped.
LEMMA StreamsDropped ==
  ASSUME EntryInv, StreamInv, NEW cs, Drop(cs), \A c \in cs \cap AddrConns : stage[c] # "unused",
         UNCHANGED <<src, sent, got, conn_map>>,
         UNCHANGED <<at, cur>> \/ (at # "send" /\ at' # "send")
  PROVE  StreamInv'
<1>1. rx' \in [AddrConns -> Seq(Datagrams)] /\ got' \in [AddrConns -> Seq(Datagrams)] /\ DOMAIN up' = AddrConns
  <2>1. <<>> \in Seq(Datagrams)
    OBVIOUS
  <2>2. QED
    BY <2>1 DEF Drop, StreamInv, StreamTypes
<1>2. \A c \in AddrConns : /\ stage'[c] = "unused" <=> stage[c] = "unused"
                           /\ stage[c] = "unused" => UNCHANGED <<got[c], rx[c]>>
                           /\ up'[c] = "run" => up[c] = "run"
  BY DEF Drop
<1>3. \A c \in AddrConns : \/ All(c)' = All(c)
                           \/ (got'[c] = got[c] /\ rx'[c] = <<>> /\ up'[c] # "run")
  BY DEF Drop, All
<1>4. \A s \in Srcs : conn_map'[s] \in {conn_map[s], None}
  OBVIOUS
<1>5. QED
  BY <1>1, <1>2, <1>3, <1>4, StreamsStay

LEMMA StreamServing ==
  ASSUME EntryInv, StreamInv, NEW c \in AddrConns, Serving(c)
  PROVE  StreamInv'
<1> USE DEF StreamInv
<1>1. UNCHANGED <<src, sent, at, cur>>
  BY DEF Serving, listenVars, DialFail, SelectNone, StartRelay, EarlyWritten, EarlyFail, Wrote, MixedEnd, Read, UpEnd, DownEnd, Close,
         ClosePending, CpNotice, FarEndWakes
<1>2. CASE DialFail(c) \/ EarlyFail(c) \/ MixedEnd(c)
  <2>1. Drop({c}) /\ stage[c] # "unused" /\ UNCHANGED <<got, conn_map>>
    BY <1>2 DEF DialFail, EarlyFail, MixedEnd
  <2>2. QED
    BY <1>1, <2>1, StreamsDropped
<1>3. CASE \/ SelectNone(c) \/ StartRelay(c) \/ EarlyWritten(c) \/ Wrote(c) \/ DownEnd(c)
           \/ ClosePending(c) \/ CpNotice(c) \/ FarEndWakes(c)
  <2>1. UNCHANGED <<got, rx, up, conn_map>>
    BY <1>3 DEF SelectNone, StartRelay, EarlyWritten, Wrote, DownEnd, ClosePending, CpNotice, FarEndWakes
  <2>2. \A d \in AddrConns : stage'[d] = "unused" <=> stage[d] = "unused"
    BY <1>3 DEF SelectNone, StartRelay, EarlyWritten, Wrote, DownEnd, ClosePending, CpNotice, FarEndWakes, EntryInv, EntryTypes
  <2>3. \A d \in AddrConns : All(d)' = All(d)
    BY <2>1 DEF All
  <2>4. QED
    BY <1>1, <2>1, <2>2, <2>3, StreamsStay DEF StreamTypes
<1>4. CASE Read(c)
  <2>1. /\ UNCHANGED <<up, conn_map>> /\ rx[c] # <<>> /\ stage[c] # "unused"
        /\ \A d \in AddrConns : stage'[d] = "unused" <=> stage[d] = "unused"
        /\ got' = [got EXCEPT ![c] = Append(@, Head(rx[c]))] /\ rx' = [rx EXCEPT ![c] = Tail(@)]
    BY <1>4 DEF Read, EntryInv, EntryTypes
  <2>2. got[c] \in Seq(Datagrams) /\ rx[c] \in Seq(Datagrams)
    BY DEF StreamTypes
  <2>3. \A S : \A q \in Seq(S) : q # <<>> => Tail(q) \in Seq(S) /\ Head(q) \in S
    OBVIOUS
  <2>4. Tail(rx[c]) \in Seq(Datagrams) /\ Append(got[c], Head(rx[c])) \in Seq(Datagrams)
    BY <2>1, <2>2, <2>3, AppendLast
  <2>5. /\ \A d \in AddrConns : rx'[d] = IF d = c THEN Tail(rx[c]) ELSE rx[d]
        /\ \A d \in AddrConns : got'[d] = IF d = c THEN Append(got[c], Head(rx[c])) ELSE got[d]
        /\ rx' \in [AddrConns -> Seq(Datagrams)] /\ got' \in [AddrConns -> Seq(Datagrams)]
    BY <2>1, <2>4 DEF StreamTypes
  <2>6. \A d \in AddrConns : All(d)' = All(d)
    <3>1. Append(got[c], Head(rx[c])) \o Tail(rx[c]) = got[c] \o rx[c]
      BY <2>1, <2>2, ReadSame
    <3>2. QED
      BY <2>5, <3>1 DEF All
  <2>7. \A d \in AddrConns : stage[d] = "unused" => d # c
    BY <2>1
  <2>8. QED
    BY <1>1, <2>1, <2>5, <2>6, <2>7, StreamsStay DEF StreamTypes
<1>5. CASE UpEnd(c)
  <2>1. /\ UNCHANGED <<stage, got, conn_map>> /\ stage[c] # "unused"
        /\ rx' = [rx EXCEPT ![c] = <<>>] /\ up' = [up EXCEPT ![c] = "ended"]
    BY <1>5 DEF UpEnd
  <2>2. /\ \A d \in AddrConns : rx'[d] = IF d = c THEN <<>> ELSE rx[d]
        /\ \A d \in AddrConns : up'[d] = IF d = c THEN "ended" ELSE up[d]
        /\ rx' \in [AddrConns -> Seq(Datagrams)] /\ DOMAIN up' = AddrConns
    BY <2>1 DEF StreamTypes
  <2>3. \A d \in AddrConns : \/ All(d)' = All(d)
                             \/ (got'[d] = got[d] /\ rx'[d] = <<>> /\ up'[d] # "run")
    BY <2>1, <2>2 DEF All
  <2>4. QED
    BY <1>1, <2>1, <2>2, <2>3, StreamsStay DEF StreamTypes
<1>6. CASE Close(c)
  <2>1. UNCHANGED got /\ conn_map' = [conn_map EXCEPT ![src[c]] = None] /\ stage[c] # "unused"
    BY <1>6 DEF Close, EntryInv, Fresh
  <2>2. \A s \in Srcs : conn_map'[s] \in {conn_map[s], None}
    BY <2>1 DEF EntryInv, EntryTypes
  <2>3. CASE stage[c] = "turned"
    <3>1. /\ stage' = [stage EXCEPT ![c] = "gone"]
          /\ rx' = [rx EXCEPT ![c] = <<>>] /\ up' = [up EXCEPT ![c] = "ended"]
      BY <1>6, <2>3 DEF Close
    <3>2. /\ \A d \in AddrConns : rx'[d] = IF d = c THEN <<>> ELSE rx[d]
          /\ \A d \in AddrConns : up'[d] = IF d = c THEN "ended" ELSE up[d]
          /\ \A d \in AddrConns : stage'[d] = IF d = c THEN "gone" ELSE stage[d]
          /\ rx' \in [AddrConns -> Seq(Datagrams)] /\ DOMAIN up' = AddrConns
      BY <3>1 DEF StreamTypes, EntryInv, EntryTypes
    <3>3. \A d \in AddrConns : \/ All(d)' = All(d)
                               \/ (got'[d] = got[d] /\ rx'[d] = <<>> /\ up'[d] # "run")
      BY <2>1, <3>2 DEF All
    <3>4. QED
      BY <1>1, <2>1, <2>2, <3>2, <3>3, StreamsStay DEF StreamTypes
  <2>4. CASE stage[c] # "turned"
    <3>1. UNCHANGED <<stage, rx, up>>
      BY <1>6, <2>4 DEF Close
    <3>2. \A d \in AddrConns : All(d)' = All(d)
      BY <2>1, <3>1 DEF All
    <3>3. QED
      BY <1>1, <2>1, <2>2, <3>1, <3>2, StreamsStay DEF StreamTypes
  <2>5. QED
    BY <2>3, <2>4
<1>7. QED
  BY <1>2, <1>3, <1>4, <1>5, <1>6 DEF Serving

\* A datagram that arrives is counted, and is the next of its source.
LEMMA ArriveNext ==
  ASSUME EntryInv, StreamInv, NEW s \in Srcs, Arrive(s)
  PROVE  /\ at = "recv" /\ sent' \in [Srcs -> 0..MaxSent] /\ cur' \in Datagrams
         /\ cur'.src = s /\ cur'.n = sent'[s] /\ sent'[s] = sent[s] + 1
         /\ \A t \in Srcs \ {s} : sent'[t] = sent[t]
         /\ sent[s] \in Nat
  BY BoundsAssumption DEF StreamInv, StreamTypes, Arrive, Datagrams

LEMMA StreamRecvKnown ==
  ASSUME EntryInv, StreamInv, NEW s \in Srcs, RecvKnown(s)
  PROVE  StreamInv'
<1>1. /\ at = "recv" /\ sent' \in [Srcs -> 0..MaxSent] /\ cur' \in Datagrams
      /\ cur'.src = s /\ cur'.n = sent'[s] /\ sent'[s] = sent[s] + 1
      /\ \A t \in Srcs \ {s} : sent'[t] = sent[t]
      /\ sent[s] \in Nat
  BY ArriveNext DEF RecvKnown
<1>2. at' = "send" /\ UNCHANGED <<conn_map, src, stage, rx, got, up>>
  BY DEF RecvKnown
<1>3. StreamTypes'
  BY <1>1, <1>2 DEF StreamInv, StreamTypes
<1>4. \A c \in AddrConns : All(c)' = All(c)
  BY <1>2 DEF All
<1>5. \A t \in Srcs : Delivered(t)' = Delivered(t)
  BY <1>1, <1>2 DEF Delivered
<1>6. ASSUME NEW c \in AddrConns PROVE StreamOf(c)'
  <2>1. Unbroken(All(c)', src'[c])
    BY <1>2, <1>4 DEF StreamInv, StreamOf
  <2>2. ASSUME up[c] = "run", conn_map[src[c]] = c
        PROVE  All(c)' # <<>> /\ All(c)'[Len(All(c)')].n = Delivered(src[c])'
    <3>1. PICK t \in Srcs : t = src[c]
      BY <2>2 DEF StreamInv, StreamOf
    <3>2. All(c) # <<>> /\ All(c)[Len(All(c))].n = Delivered(t)
      BY <2>2, <3>1 DEF StreamInv, StreamOf
    <3>3. Delivered(src[c])' = Delivered(t)'
      BY <1>2, <3>1 DEF Delivered
    <3>4. QED
      BY <1>4, <1>5, <3>2, <3>3
  <2>3. QED
    BY <1>2, <2>1, <2>2 DEF StreamInv, StreamOf, Unbroken
<1>7. QED
  BY <1>3, <1>6 DEF StreamInv
\* The first datagram of a source that has no entry is that of a new AddrConn.
LEMMA StreamRecvNew ==
  ASSUME EntryInv, StreamInv, NEW s \in Srcs, NEW c \in AddrConns, RecvNew(s, c)
  PROVE  StreamInv'
<1>1. /\ at = "recv" /\ sent' \in [Srcs -> 0..MaxSent] /\ cur' \in Datagrams
      /\ cur'.src = s /\ cur'.n = sent'[s] /\ sent'[s] = sent[s] + 1
      /\ \A t \in Srcs \ {s} : sent'[t] = sent[t]
      /\ sent[s] \in Nat
  BY ArriveNext DEF RecvNew
<1>2. at' = "offer" /\ UNCHANGED got /\ conn_map[s] = None /\ stage[c] = "unused"
  BY DEF RecvNew
<1>3. /\ \A d \in AddrConns : src'[d] = IF d = c THEN s ELSE src[d]
      /\ \A d \in AddrConns : stage'[d] = IF d = c THEN "queued" ELSE stage[d]
      /\ \A d \in AddrConns : rx'[d] = IF d = c THEN <<cur'>> ELSE rx[d]
      /\ \A d \in AddrConns : up'[d] = IF d = c THEN "run" ELSE up[d]
      /\ \A t \in Srcs : conn_map'[t] = IF t = s THEN c ELSE conn_map[t]
      /\ DOMAIN up' = AddrConns
  BY DEF RecvNew, EntryInv, EntryTypes, StreamInv, StreamTypes
<1>4. <<cur'>> \in Seq(Datagrams) /\ <<>> \o <<cur'>> = <<cur'>> /\ Len(<<cur'>>) = 1 /\ <<cur'>>[1] = cur' /\ <<cur'>> # <<>>
  BY <1>1
<1>5. StreamTypes'
  <2>1. rx' \in [AddrConns -> Seq(Datagrams)]
    BY <1>4 DEF RecvNew, StreamInv, StreamTypes
  <2>2. QED
    BY <1>1, <1>2, <1>3, <2>1 DEF StreamInv, StreamTypes
<1>6. StreamOf(c)'
  <2>1. All(c)' = <<cur'>>
    <3>1. got[c] = <<>>
      BY <1>2 DEF StreamInv, StreamOf
    <3>2. QED
      BY <1>2, <1>3, <1>4, <3>1 DEF All
  <2>2. Unbroken(All(c)', s)
    BY <1>1, <1>4, <2>1 DEF Unbroken
  <2>3. Delivered(s)' = cur'.n
    BY <1>1, <1>2 DEF Delivered
  <2>4. src'[c] = s /\ stage'[c] = "queued"
    BY <1>3
  <2>5. QED
    BY <1>4, <2>1, <2>2, <2>3, <2>4 DEF StreamOf, Unbroken
<1>7. ASSUME NEW d \in AddrConns, d # c PROVE StreamOf(d)'
  <2>1. All(d)' = All(d) /\ src'[d] = src[d] /\ stage'[d] = stage[d] /\ up'[d] = up[d] /\ got'[d] = got[d] /\ rx'[d] = rx[d]
    BY <1>2, <1>3, <1>7 DEF All
  <2>2. Unbroken(All(d)', src'[d])
    BY <2>1 DEF StreamInv, StreamOf
  <2>3. ASSUME up'[d] = "run", conn_map'[src'[d]] = d
        PROVE  All(d)' # <<>> /\ All(d)'[Len(All(d)')].n = Delivered(src[d])'
    <3>1. up[d] = "run" /\ \E t \in Srcs : t = src[d]
      BY <2>1, <2>3 DEF StreamInv, StreamOf
    <3>2. PICK t \in Srcs : t = src[d]
      BY <3>1
    <3>3. t # s /\ conn_map[t] = d
      BY <1>3, <1>7, <2>1, <2>3, <3>2
    <3>4. Delivered(t)' = Delivered(t)
      BY <1>1, <1>2, <3>3 DEF Delivered
    <3>5. Delivered(src[d])' = Delivered(t)'
      BY <2>1, <3>2 DEF Delivered
    <3>6. All(d) # <<>> /\ All(d)[Len(All(d))].n = Delivered(t)
      BY <3>1, <3>2, <3>3 DEF StreamInv, StreamOf
    <3>7. QED
      BY <2>1, <3>4, <3>5, <3>6
  <2>4. QED
    BY <2>1, <2>2, <2>3 DEF StreamInv, StreamOf, Unbroken
<1>8. QED
  BY <1>5, <1>6, <1>7 DEF StreamInv

\* The datagram goes behind the last that was delivered to the same AddrConn; or
\* its Reader is gone, and then no AddrConn with one has the entry.
LEMMA StreamSend ==
  ASSUME EntryInv, StreamInv, SendOk \/ SendErr
  PROVE  StreamInv'
<1>1. /\ at = "send" /\ at' = "recv" /\ UNCHANGED <<sent, conn_map, src, stage, got, up>>
      /\ cur.src \in Srcs /\ Target \in AddrConns /\ cur \in Datagrams /\ cur.n = sent[cur.src]
  BY DEF SendOk, SendErr, EntryInv, EntryTypes, Locked, StreamInv, StreamTypes
<1>2. src[Target] = cur.src /\ stage[Target] # "unused"
  BY <1>1 DEF EntryInv, EntryOf, Target, Fresh, Unclosed
<1>3. cur.n \in Nat /\ \A t \in Srcs : sent[t] \in Nat
  BY <1>1, BoundsAssumption DEF StreamInv, StreamTypes
<1>4. PICK q \in Seq(Datagrams) : /\ rx' = [rx EXCEPT ![Target] = q]
                                  /\ up[Target] = "run" => q = Append(rx[Target], cur)
                                  /\ up[Target] # "run" => q = rx[Target]
  <2>1. rx[Target] \in Seq(Datagrams)
    BY <1>1 DEF StreamInv, StreamTypes
  <2>2. CASE SendOk
    <3>1. Append(rx[Target], cur) \in Seq(Datagrams)
      BY <1>1, <2>1, AppendLast
    <3>2. QED
      BY <2>2, <3>1 DEF SendOk
  <2>3. CASE SendErr
    BY <2>1, <2>3 DEF SendErr, StreamInv, StreamTypes
  <2>4. QED
    BY <2>2, <2>3
<1>5. \A d \in AddrConns : rx'[d] = IF d = Target THEN q ELSE rx[d]
  BY <1>4 DEF StreamInv, StreamTypes
<1>6. StreamTypes'
  BY <1>1, <1>4 DEF StreamInv, StreamTypes
<1>7. \A t \in Srcs : Delivered(t)' = sent[t] /\ (t # cur.src => Delivered(t) = sent[t])
  BY <1>1 DEF Delivered
<1>8. ASSUME NEW d \in AddrConns, d # Target \/ up[Target] # "run" PROVE StreamOf(d)'
  <2>1. rx'[d] = rx[d] /\ All(d)' = All(d)
    BY <1>1, <1>4, <1>5, <1>8 DEF All
  <2>2. Unbroken(All(d)', src'[d])
    BY <1>1, <2>1 DEF StreamInv, StreamOf
  <2>3. ASSUME up[d] = "run", conn_map[src[d]] = d
        PROVE  All(d)' # <<>> /\ All(d)'[Len(All(d)')].n = Delivered(src[d])'
    <3>1. PICK t \in Srcs : t = src[d]
      BY <2>3 DEF StreamInv, StreamOf
    <3>2. t # cur.src
      BY <1>8, <2>3, <3>1 DEF Target
    <3>3. All(d) # <<>> /\ All(d)[Len(All(d))].n = Delivered(t)
      BY <2>3, <3>1 DEF StreamInv, StreamOf
    <3>4. Delivered(src[d])' = Delivered(t)'
      BY <1>1, <3>1 DEF Delivered
    <3>5. QED
      BY <1>7, <2>1, <3>2, <3>3, <3>4
  <2>4. QED
    BY <1>1, <2>1, <2>2, <2>3 DEF StreamInv, StreamOf, Unbroken
<1>9. ASSUME NEW d \in AddrConns, d = Target, up[Target] = "run" PROVE StreamOf(d)'
  <2>1. d = Target
    BY <1>9
  <2>2. All(d) \in Seq(Datagrams) /\ got[d] \in Seq(Datagrams) /\ rx[d] \in Seq(Datagrams)
    BY AllType DEF StreamInv
  <2>3. rx'[d] = Append(rx[d], cur)
    BY <1>4, <1>5, <1>9, <2>1
  <2>4. All(d)' = Append(All(d), cur)
    <3>1. got[d] \o Append(rx[d], cur) = Append(got[d] \o rx[d], cur)
      BY <1>1, <2>2, SendSame
    <3>2. QED
      BY <1>1, <2>3, <3>1 DEF All
  <2>5. /\ Unbroken(All(d), src[d]) /\ src[d] = cur.src /\ conn_map[src[d]] = d
        /\ All(d) # <<>> /\ All(d)[Len(All(d))].n = sent[cur.src] - 1
    <3>1. src[d] = cur.src /\ conn_map[src[d]] = d /\ up[d] = "run"
      BY <1>2, <1>9, <2>1 DEF Target
    <3>2. QED
      BY <1>1, <3>1 DEF StreamInv, StreamOf, Delivered
  <2>6. cur.n = All(d)[Len(All(d))].n + 1
    BY <1>1, <1>3, <2>5
  <2>7. /\ Unbroken(Append(All(d), cur), src[d])
        /\ Append(All(d), cur) # <<>> /\ Append(All(d), cur)[Len(Append(All(d), cur))] = cur
    BY <1>1, <2>2, <2>5, <2>6, RunAppend
  <2>8. Delivered(src[d])' = cur.n
    BY <1>1, <2>5 DEF Delivered
  <2>9. stage'[d] # "unused" /\ src'[d] \in Srcs /\ src'[d] = src[d]
    BY <1>1, <1>2, <2>1
  <2>10. QED
    BY <2>4, <2>7, <2>8, <2>9 DEF StreamOf, Unbroken
<1>10. ASSUME NEW d \in AddrConns PROVE StreamOf(d)'
  <2>1. CASE d # Target \/ up[Target] # "run"
    BY <1>8, <2>1
  <2>2. CASE d = Target /\ up[Target] = "run"
    BY <1>9, <2>2
  <2>3. QED
    BY <2>1, <2>2
<1>11. QED
  BY <1>6, <1>10 DEF StreamInv

LEMMA StreamNext == EntryInv /\ StreamInv /\ [Next]_vars => StreamInv'
<1> SUFFICES ASSUME EntryInv, StreamInv, [Next]_vars PROVE StreamInv'
  OBVIOUS
<1>1. ASSUME NEW s \in Srcs, RecvKnown(s) PROVE StreamInv'
  BY <1>1, StreamRecvKnown
<1>2. ASSUME NEW s \in Srcs, NEW c \in AddrConns, RecvNew(s, c) PROVE StreamInv'
  BY <1>2, StreamRecvNew
<1>3. CASE SendOk \/ SendErr
  BY <1>3, StreamSend
<1>4. CASE OfferErr
  <2>1. Drop({Target}) /\ UNCHANGED <<src, sent, got, conn_map>> /\ at = "offer" /\ at' # "send"
    BY <1>4 DEF OfferErr
  <2>2. Target \in AddrConns /\ stage[Target] # "unused"
    BY <2>1 DEF EntryInv, EntryTypes, Locked, Waiting
  <2>3. QED
    BY <2>1, <2>2, StreamsDropped
<1>5. CASE DropListener
  <2>1. Drop({queue[i] : i \in DOMAIN queue}) /\ UNCHANGED <<src, sent, got, conn_map, at, cur>>
    BY <1>5 DEF DropListener
  <2>2. \A c \in {queue[i] : i \in DOMAIN queue} \cap AddrConns : stage[c] # "unused"
    BY DEF EntryInv, Waiting
  <2>3. QED
    BY <2>1, <2>2, StreamsDropped
<1>6. CASE OfferOk \/ Stop \/ Accept \/ UNCHANGED vars
  <2>1. /\ UNCHANGED <<src, sent, got, rx, up, conn_map>>
        /\ UNCHANGED <<at, cur>> \/ (at # "send" /\ at' # "send")
    BY <1>6 DEF OfferOk, Stop, Accept, vars, listenVars
  <2>2. \A c \in AddrConns : stage'[c] = "unused" <=> stage[c] = "unused"
    <3>1. CASE Accept
      <4>1. PICK c \in AddrConns : c = Head(queue)
        BY <3>1 DEF Accept, EntryInv, EntryTypes
      <4>2. stage' = [stage EXCEPT ![c] = "dialing"] /\ stage[c] = "queued"
        BY <3>1, <4>1 DEF Accept, EntryInv, EntryTypes, Waiting
      <4>3. QED
        BY <4>2 DEF EntryInv, EntryTypes
    <3>2. QED
      BY <1>6, <3>1 DEF OfferOk, Stop, vars
  <2>3. \A c \in AddrConns : All(c)' = All(c)
    BY <2>1 DEF All
  <2>4. QED
    BY <2>1, <2>2, <2>3, StreamsStay DEF StreamInv, StreamTypes
<1>7. ASSUME NEW c \in AddrConns, Serving(c) PROVE StreamInv'
  BY <1>7, StreamServing
<1>8. QED
  BY <1>1, <1>2, <1>3, <1>4, <1>5, <1>6, <1>7 DEF Next, Listening

LEMMA StreamInvImplies == EntryInv /\ StreamInv => StreamUnbroken
<1> SUFFICES ASSUME EntryInv, StreamInv, NEW c \in AddrConns
             PROVE  /\ \A i \in DOMAIN All(c) : /\ All(c)[i].src = src[c]
                                                /\ i > 1 => All(c)[i].n = All(c)[i-1].n + 1
                    /\ up[c] = "run" /\ conn_map[src[c]] = c
                         => All(c)[Len(All(c))].n =
                              IF at = "send" /\ cur.src = src[c] THEN cur.n - 1 ELSE sent[src[c]]
  BY DEF StreamUnbroken, All
<1>1. DOMAIN All(c) = 1..Len(All(c))
  BY AllType DEF StreamInv
<1>2. Unbroken(All(c), src[c])
  BY DEF StreamInv, StreamOf
<1>3. Delivered(src[c]) = IF at = "send" /\ cur.src = src[c] THEN cur.n - 1 ELSE sent[src[c]]
  BY DEF Delivered, StreamInv, StreamTypes
<1>4. up[c] = "run" /\ conn_map[src[c]] = c => All(c)[Len(All(c))].n = Delivered(src[c])
  BY DEF StreamInv, StreamOf
<1>5. QED
  BY <1>1, <1>2, <1>3, <1>4 DEF Unbroken

\* For any number of sources and AddrConns, and channels of any size: what an
\* AddrConn gives is an uninterrupted run of the datagrams of its own source, and
\* with its entry and its Reader in place the run goes up to the last that arrived.
THEOREM StreamCorrect == Spec => []StreamUnbroken
<1>1. EntryInv /\ StreamInv => StreamUnbroken
  BY StreamInvImplies
<1>2. QED
  BY <1>1, EntryInit, EntryNext, StreamInit, StreamNext, PTL DEF Spec

-----------------------------------------------------------------------------
(* AutoRoute: what -D removes *)

LEMMA LeastOfSet ==
  ASSUME NEW I \in SUBSET Nat, I # {}
  PROVE  Min(I) \in I /\ \A y \in I : Min(I) <= y
<1>1. PICK x \in I : \A y \in I : ~(<<y, x>> \in OpToRel(<, Nat))
  BY WFMin, NatLessThanWellFounded
<1>2. ASSUME NEW y \in I PROVE x <= y
  <2>1. x \in Nat /\ y \in Nat
    OBVIOUS
  <2>2. y < x => <<y, x>> \in OpToRel(<, Nat)
    BY <2>1 DEF OpToRel
  <2>3. ~(y < x)
    BY <1>1, <2>2
  <2>4. QED
    BY <2>1, <2>3
<1>3. \A y \in I : x <= y
  BY <1>2
<1>4. QED
  BY <1>3 DEF Min

NoTwice(s) == \A i, j \in DOMAIN s : s[i] = s[j] => i = j

\* The first entry that is e goes, and the others close up.
LEMMA FirstRemoved ==
  ASSUME NEW S, NEW s \in Seq(S), NEW e, Contains(s, e)
  PROVE  \E i \in 1..Len(s) :
           /\ s[i] = e /\ Len(RemoveFirst(s, e)) = Len(s) - 1 /\ RemoveFirst(s, e) \in Seq(S)
           /\ \A j \in 1..Len(s) - 1 : RemoveFirst(s, e)[j] = IF j < i THEN s[j] ELSE s[j + 1]
<1> DEFINE I == {i \in 1..Len(s) : s[i] = e}
<1>1. I \in SUBSET Nat /\ I # {}
  BY DEF Contains
<1>2. Min(I) \in I
  BY <1>1, LeastOfSet
<1>3. RemoveFirst(s, e) = RemoveAt(s, Min(I))
  BY <1>1 DEF RemoveFirst, SelectInSeq
<1>4. PICK i \in 1..Len(s) : i = Min(I) /\ s[i] = e
  BY <1>2
<1>5. RemoveFirst(s, e) = SubSeq(s, 1, i-1) \o SubSeq(s, i+1, Len(s))
  BY <1>3, <1>4 DEF RemoveAt
<1>6. /\ SubSeq(s, 1, i-1) \in Seq(S) /\ SubSeq(s, i+1, Len(s)) \in Seq(S)
      /\ Len(SubSeq(s, 1, i-1)) = i - 1 /\ Len(SubSeq(s, i+1, Len(s))) = Len(s) - i
      /\ \A j \in 1..i-1 : SubSeq(s, 1, i-1)[j] = s[j]
      /\ \A j \in 1..Len(s) - i : SubSeq(s, i+1, Len(s))[j] = s[i + j]
  OBVIOUS
<1>7. PICK p \in Seq(S), q \in Seq(S) :
        /\ RemoveFirst(s, e) = p \o q /\ Len(p) = i - 1 /\ Len(q) = Len(s) - i
        /\ \A j \in 1..i-1 : p[j] = s[j]
        /\ \A j \in 1..Len(s) - i : q[j] = s[i + j]
  BY <1>5, <1>6
<1>8. /\ p \o q \in Seq(S) /\ Len(p \o q) = Len(p) + Len(q)
      /\ \A j \in 1..Len(p) + Len(q) : (p \o q)[j] = IF j <= Len(p) THEN p[j] ELSE q[j - Len(p)]
  OBVIOUS
<1>9. ASSUME NEW j \in 1..Len(s) - 1 PROVE (p \o q)[j] = IF j < i THEN s[j] ELSE s[j + 1]
  <2>1. j \in 1..Len(p) + Len(q) /\ Len(p) = i - 1
    BY <1>7
  <2>2. CASE j < i
    BY <1>7, <1>8, <2>1, <2>2
  <2>3. CASE ~(j < i)
    <3>1. j - (i - 1) \in 1..Len(s) - i /\ i + (j - (i - 1)) = j + 1 /\ ~(j <= i - 1)
      BY <2>3
    <3>2. (p \o q)[j] = q[j - (i - 1)]
      BY <1>8, <2>1, <3>1
    <3>3. QED
      BY <1>7, <2>3, <3>1, <3>2
  <2>4. QED
    BY <2>2, <2>3
<1>10. Len(p) + Len(q) = Len(s) - 1
  BY <1>7
<1>11. /\ s[i] = e /\ Len(RemoveFirst(s, e)) = Len(s) - 1 /\ RemoveFirst(s, e) \in Seq(S)
       /\ \A j \in 1..Len(s) - 1 : RemoveFirst(s, e)[j] = IF j < i THEN s[j] ELSE s[j + 1]
  BY <1>4, <1>7, <1>8, <1>9, <1>10
<1>12. QED
  BY <1>11

\* Of a chain that has no entry twice: the others stay, and the first of them first.
LEMMA RemovedOnce ==
  ASSUME NEW S, NEW s \in Seq(S), NoTwice(s), NEW e, Contains(s, e)
  PROVE  /\ RemoveFirst(s, e) \in Seq(S) /\ NoTwice(RemoveFirst(s, e))
         /\ ~Contains(RemoveFirst(s, e), e)
         /\ \A x : Contains(RemoveFirst(s, e), x) => Contains(s, x)
         /\ s[1] # e /\ RemoveFirst(s, e) # <<>> => RemoveFirst(s, e)[1] = s[1]
<1>1. PICK i \in 1..Len(s) :
        /\ s[i] = e /\ Len(RemoveFirst(s, e)) = Len(s) - 1 /\ RemoveFirst(s, e) \in Seq(S)
        /\ \A j \in 1..Len(s) - 1 : RemoveFirst(s, e)[j] = IF j < i THEN s[j] ELSE s[j + 1]
  BY FirstRemoved
<1> DEFINE r == RemoveFirst(s, e)
<1>2. r \in Seq(S) /\ Len(r) = Len(s) - 1 /\ DOMAIN r = 1..Len(s) - 1 /\ DOMAIN s = 1..Len(s) /\ Len(s) \in Nat
  BY <1>1
<1>3. \A j \in 1..Len(s) - 1 : r[j] = IF j < i THEN s[j] ELSE s[j + 1]
  BY <1>1
<1> HIDE DEF r
<1>4. NoTwice(r)
  <2> SUFFICES ASSUME NEW j \in 1..Len(s) - 1, NEW k \in 1..Len(s) - 1, r[j] = r[k] PROVE j = k
    BY <1>2 DEF NoTwice
  <2>1. PICK x \in 1..Len(s) : x = (IF j < i THEN j ELSE j + 1) /\ r[j] = s[x]
    BY <1>3
  <2>2. PICK y \in 1..Len(s) : y = (IF k < i THEN k ELSE k + 1) /\ r[k] = s[y]
    BY <1>3
  <2>3. x = y
    BY <1>2, <2>1, <2>2 DEF NoTwice
  <2>4. QED
    BY <2>1, <2>2, <2>3
<1>5. \A j \in 1..Len(s) - 1 : \E x \in 1..Len(s) : x # i /\ r[j] = s[x]
  <2> TAKE j \in 1..Len(s) - 1
  <2>1. CASE j < i
    BY <1>3, <2>1
  <2>2. CASE j >= i
    BY <1>3, <2>2
  <2>3. QED
    BY <2>1, <2>2
<1>6. ~Contains(r, e)
  <2>1. SUFFICES ASSUME NEW j \in 1..Len(s) - 1, r[j] = e PROVE FALSE
    BY <1>2 DEF Contains
  <2>2. PICK x \in 1..Len(s) : x # i /\ r[j] = s[x]
    BY <1>5
  <2>3. QED
    BY <1>1, <1>2, <2>1, <2>2 DEF NoTwice
<1>7. \A x : Contains(r, x) => Contains(s, x)
  BY <1>2, <1>5 DEF Contains
<1>8. s[1] # e /\ r # <<>> => r[1] = s[1]
  <2>1. s[1] # e => 1 < i
    BY <1>1
  <2>2. r # <<>> => 1 \in 1..Len(s) - 1
    BY <1>2
  <2>3. QED
    BY <1>3, <2>1, <2>2
<1>9. QED
  BY <1>2, <1>4, <1>6, <1>7, <1>8 DEF r
-----------------------------------------------------------------------------
(* The lists *)

Ops     == {"set", "unset", "chain", "append", "remove", "flush", "delete"}
Ons     == {"rule", "route", "pre", "out", "rucimp", "rucimp_self"}
Entries == {"", "rucimp", "rucimp_self", "tproxy_tcp", "tproxy_udp", "own", "mark_tcp", "mark_udp"}
Cmds    == [op : Ops, on : Ons, entry : Entries]

\* What is left of a list of which k commands are through.
Rest(list, k) == SubSeq(list, k + 1, Len(list))

LEMMA RestOfList ==
  ASSUME NEW S, NEW list \in Seq(S), NEW k \in 0..Len(list)
  PROVE  /\ Rest(list, 0) = list
         /\ k = Len(list) <=> Rest(list, k) = <<>>
         /\ k # Len(list) => Head(Rest(list, k)) = list[k + 1] /\ Tail(Rest(list, k)) = Rest(list, k + 1)
<1>1. Rest(list, 0) = list
  BY DEF Rest
<1>2. k = Len(list) <=> Rest(list, k) = <<>>
  BY DEF Rest
<1>3. ASSUME k # Len(list)
      PROVE  Head(Rest(list, k)) = list[k + 1] /\ Tail(Rest(list, k)) = Rest(list, k + 1)
  <2>1. Len(list) \in Nat /\ k + 1 \in 1..Len(list)
    BY <1>3
  <2>2. Rest(list, k) \in Seq(S) /\ Len(Rest(list, k)) = Len(list) - k
        /\ \A i \in 1..Len(list) - k : Rest(list, k)[i] = list[k + i]
    BY <2>1 DEF Rest
  <2>3. Rest(list, k + 1) \in Seq(S) /\ Len(Rest(list, k + 1)) = Len(list) - k - 1
        /\ \A i \in 1..Len(list) - k - 1 : Rest(list, k + 1)[i] = list[k + 1 + i]
    BY <2>1 DEF Rest
  <2>4. PICK r \in Seq(S) : r = Rest(list, k)
    BY <2>2
  <2>5. /\ Tail(r) \in Seq(S) /\ Len(Tail(r)) = Len(list) - k - 1 /\ Head(r) = r[1]
        /\ \A i \in 1..Len(list) - k - 1 : Tail(r)[i] = r[i + 1]
    BY <2>1, <2>2, <2>4
  <2>6. \A i \in 1..Len(list) - k - 1 : Tail(r)[i] = Rest(list, k + 1)[i]
    <3> TAKE i \in 1..Len(list) - k - 1
    <3>1. i + 1 \in 1..Len(list) - k /\ k + (i + 1) = k + 1 + i
      BY <2>1
    <3>2. QED
      BY <2>2, <2>3, <2>4, <2>5, <3>1
  <2>7. Tail(r) = Rest(list, k + 1)
    <3>1. \A p, q \in Seq(S) : Len(p) = Len(q) /\ (\A i \in 1..Len(p) : p[i] = q[i]) => p = q
      OBVIOUS
    <3>2. QED
      BY <2>3, <2>5, <2>6, <3>1
  <2>8. QED
    BY <2>1, <2>2, <2>4, <2>5, <2>7
<1>4. QED
  BY <1>1, <1>2, <1>3

LEMMA Thirteen ==
  ASSUME NEW S, NEW a1 \in S, NEW a2 \in S, NEW a3 \in S, NEW a4 \in S, NEW a5 \in S, NEW a6 \in S, NEW a7 \in S,
         NEW a8 \in S, NEW a9 \in S, NEW a10 \in S, NEW a11 \in S, NEW a12 \in S, NEW a13 \in S
  PROVE  <<a1, a2, a3, a4, a5, a6, a7, a8, a9, a10, a11, a12, a13>> \in Seq(S)
  OBVIOUS

LEMMA CmdType ==
  ASSUME NEW op \in Ops, NEW on \in Ons, NEW entry \in Entries
  PROVE  Cmd(op, on, entry) \in Cmds
  BY DEF Cmd, Cmds

LEMMA DownCmds ==
  /\ DownList \in Seq(Cmds) /\ Len(DownList) = 13
  /\ DownList[1] = Cmd("unset", "rule", "") /\ DownList[2] = Cmd("unset", "route", "")
  /\ DownList[3] = Cmd("remove", "rucimp", "tproxy_udp") /\ DownList[4] = Cmd("remove", "rucimp", "tproxy_tcp")
  /\ DownList[5] = Cmd("unset", "pre", "")
  /\ DownList[6] = Cmd("remove", "rucimp_self", "own")
  /\ DownList[7] = Cmd("remove", "rucimp_self", "mark_udp") /\ DownList[8] = Cmd("remove", "rucimp_self", "mark_tcp")
  /\ DownList[9] = Cmd("unset", "out", "")
  /\ DownList[10] = Cmd("flush", "rucimp", "") /\ DownList[11] = Cmd("delete", "rucimp", "")
  /\ DownList[12] = Cmd("flush", "rucimp_self", "") /\ DownList[13] = Cmd("delete", "rucimp_self", "")
<1>1. /\ Cmd("unset", "rule", "") \in Cmds /\ Cmd("unset", "route", "") \in Cmds
      /\ Cmd("remove", "rucimp", "tproxy_udp") \in Cmds /\ Cmd("remove", "rucimp", "tproxy_tcp") \in Cmds
      /\ Cmd("unset", "pre", "") \in Cmds /\ Cmd("remove", "rucimp_self", "own") \in Cmds
      /\ Cmd("remove", "rucimp_self", "mark_udp") \in Cmds /\ Cmd("remove", "rucimp_self", "mark_tcp") \in Cmds
      /\ Cmd("unset", "out", "") \in Cmds /\ Cmd("flush", "rucimp", "") \in Cmds
      /\ Cmd("delete", "rucimp", "") \in Cmds /\ Cmd("flush", "rucimp_self", "") \in Cmds
      /\ Cmd("delete", "rucimp_self", "") \in Cmds
  BY CmdType DEF Ops, Ons, Entries
<1>2. DownList \in Seq(Cmds)
  BY <1>1, Thirteen, Zenon DEF DownList
<1>3. QED
  BY <1>2 DEF DownList

LEMMA UpCmdsIn ==
  /\ Cmd("set", "rule", "") \in Cmds /\ Cmd("set", "route", "") \in Cmds /\ Cmd("chain", "rucimp", "") \in Cmds
  /\ Cmd("append", "rucimp", "tproxy_tcp") \in Cmds /\ Cmd("append", "rucimp", "tproxy_udp") \in Cmds
  /\ Cmd("set", "pre", "rucimp") \in Cmds /\ Cmd("chain", "rucimp_self", "") \in Cmds
  /\ Cmd("append", "rucimp_self", "own") \in Cmds /\ Cmd("append", "rucimp_self", "mark_tcp") \in Cmds
  /\ Cmd("append", "rucimp_self", "mark_udp") \in Cmds /\ Cmd("set", "out", "rucimp_self") \in Cmds
  BY CmdType DEF Ops, Ons, Entries

\* The list of run_auto_route, with the commands for udp,
LEMMA UpCmdsUdp ==
  /\ UpList(TRUE) \in Seq(Cmds) /\ Len(UpList(TRUE)) = 11 /\ UpList(TRUE)[1] = Cmd("set", "rule", "")
  /\ UpList(TRUE)[2] = Cmd("set", "route", "") /\ UpList(TRUE)[3] = Cmd("chain", "rucimp", "")
  /\ UpList(TRUE)[4] = Cmd("append", "rucimp", "tproxy_tcp")
  /\ UpList(TRUE)[5] = Cmd("append", "rucimp", "tproxy_udp") /\ UpList(TRUE)[6] = Cmd("set", "pre", "rucimp")
  /\ UpList(TRUE)[7] = Cmd("chain", "rucimp_self", "") /\ UpList(TRUE)[8] = Cmd("append", "rucimp_self", "own")
  /\ UpList(TRUE)[9] = Cmd("append", "rucimp_self", "mark_tcp")
  /\ UpList(TRUE)[10] = Cmd("append", "rucimp_self", "mark_udp")
  /\ UpList(TRUE)[11] = Cmd("set", "out", "rucimp_self")
<1>1. PICK c1 \in Cmds : c1 = Cmd("set", "rule", "")
  BY UpCmdsIn
<1>2. PICK c2 \in Cmds : c2 = Cmd("set", "route", "")
  BY UpCmdsIn
<1>3. PICK c3 \in Cmds : c3 = Cmd("chain", "rucimp", "")
  BY UpCmdsIn
<1>4. PICK c4 \in Cmds : c4 = Cmd("append", "rucimp", "tproxy_tcp")
  BY UpCmdsIn
<1>5. PICK u \in Cmds : u = Cmd("append", "rucimp", "tproxy_udp")
  BY UpCmdsIn
<1>6. PICK c5 \in Cmds : c5 = Cmd("set", "pre", "rucimp")
  BY UpCmdsIn
<1>7. PICK c6 \in Cmds : c6 = Cmd("chain", "rucimp_self", "")
  BY UpCmdsIn
<1>8. PICK c7 \in Cmds : c7 = Cmd("append", "rucimp_self", "own")
  BY UpCmdsIn
<1>9. PICK c8 \in Cmds : c8 = Cmd("append", "rucimp_self", "mark_tcp")
  BY UpCmdsIn
<1>10. PICK v \in Cmds : v = Cmd("append", "rucimp_self", "mark_udp")
  BY UpCmdsIn
<1>11. PICK c9 \in Cmds : c9 = Cmd("set", "out", "rucimp_self")
  BY UpCmdsIn
<1>12. PICK p1 : p1 = <<c1, c2, c3, c4>>
  OBVIOUS
<1>13. p1 \in Seq(Cmds)
  BY <1>12
<1>14. Len(p1) = 4 /\ p1[1] = c1 /\ p1[2] = c2 /\ p1[3] = c3 /\ p1[4] = c4
  BY <1>12
<1>15. PICK p2 : p2 = p1 \o <<u>>
  OBVIOUS
<1>16. p2 \in Seq(Cmds)
  BY <1>13, <1>15
<1>17. Len(p2) = Len(p1) + 1
  BY <1>13, <1>15
<1>18. p2[Len(p1) + 1] = u /\ \A i \in 1..Len(p1) : p2[i] = p1[i]
  BY <1>13, <1>15
<1>19. Len(p2) = 5 /\ p2[1] = c1 /\ p2[2] = c2 /\ p2[3] = c3 /\ p2[4] = c4 /\ p2[5] = u
  BY <1>14, <1>17, <1>18
<1>20. PICK p3 : p3 = p2 \o <<c5, c6, c7, c8>>
  OBVIOUS
<1>21. p3 \in Seq(Cmds)
  BY <1>16, <1>20
<1>22. Len(p3) = Len(p2) + 4
  BY <1>16, <1>20
<1>23. p3[Len(p2) + 1] = c5 /\ p3[Len(p2) + 2] = c6 /\ p3[Len(p2) + 3] = c7 /\ p3[Len(p2) + 4] = c8 /\ \A i \in 1..Len(p2) : p3[i] = p2[i]
  BY <1>16, <1>20
<1>24. Len(p3) = 9 /\ p3[1] = c1 /\ p3[2] = c2 /\ p3[3] = c3 /\ p3[4] = c4 /\ p3[5] = u /\ p3[6] = c5
       /\ p3[7] = c6 /\ p3[8] = c7 /\ p3[9] = c8
  BY <1>19, <1>22, <1>23
<1>25. PICK p4 : p4 = p3 \o <<v>>
  OBVIOUS
<1>26. p4 \in Seq(Cmds)
  BY <1>21, <1>25
<1>27. Len(p4) = Len(p3) + 1
  BY <1>21, <1>25
<1>28. p4[Len(p3) + 1] = v /\ \A i \in 1..Len(p3) : p4[i] = p3[i]
  BY <1>21, <1>25
<1>29. Len(p4) = 10 /\ p4[1] = c1 /\ p4[2] = c2 /\ p4[3] = c3 /\ p4[4] = c4 /\ p4[5] = u /\ p4[6] = c5
       /\ p4[7] = c6 /\ p4[8] = c7 /\ p4[9] = c8 /\ p4[10] = v
  BY <1>24, <1>27, <1>28
<1>30. PICK p5 : p5 = p4 \o <<c9>>
  OBVIOUS
<1>31. p5 \in Seq(Cmds)
  BY <1>26, <1>30
<1>32. Len(p5) = Len(p4) + 1
  BY <1>26, <1>30
<1>33. p5[Len(p4) + 1] = c9 /\ \A i \in 1..Len(p4) : p5[i] = p4[i]
  BY <1>26, <1>30
<1>34. Len(p5) = 11 /\ p5[1] = c1 /\ p5[2] = c2 /\ p5[3] = c3 /\ p5[4] = c4 /\ p5[5] = u /\ p5[6] = c5
       /\ p5[7] = c6 /\ p5[8] = c7 /\ p5[9] = c8 /\ p5[10] = v /\ p5[11] = c9
  BY <1>29, <1>32, <1>33
<1>35. UpList(TRUE) = <<c1, c2, c3, c4>> \o <<u>> \o <<c5, c6, c7, c8>> \o <<v>> \o <<c9>>
  BY <1>1, <1>2, <1>3, <1>4, <1>5, <1>6, <1>7, <1>8, <1>9, <1>10, <1>11, Zenon DEF UpList, When
<1>36. UpList(TRUE) = p5
  BY <1>35, <1>12, <1>15, <1>20, <1>25, <1>30, Zenon
<1>37. QED
  BY <1>31, <1>34, <1>36, <1>1, <1>2, <1>3, <1>4, <1>5, <1>6, <1>7, <1>8, <1>9, <1>10, <1>11

\* or without.
LEMMA UpCmdsTcp ==
  /\ UpList(FALSE) \in Seq(Cmds) /\ Len(UpList(FALSE)) = 9 /\ UpList(FALSE)[1] = Cmd("set", "rule", "")
  /\ UpList(FALSE)[2] = Cmd("set", "route", "") /\ UpList(FALSE)[3] = Cmd("chain", "rucimp", "")
  /\ UpList(FALSE)[4] = Cmd("append", "rucimp", "tproxy_tcp") /\ UpList(FALSE)[5] = Cmd("set", "pre", "rucimp")
  /\ UpList(FALSE)[6] = Cmd("chain", "rucimp_self", "")
  /\ UpList(FALSE)[7] = Cmd("append", "rucimp_self", "own")
  /\ UpList(FALSE)[8] = Cmd("append", "rucimp_self", "mark_tcp")
  /\ UpList(FALSE)[9] = Cmd("set", "out", "rucimp_self")
<1>1. PICK c1 \in Cmds : c1 = Cmd("set", "rule", "")
  BY UpCmdsIn
<1>2. PICK c2 \in Cmds : c2 = Cmd("set", "route", "")
  BY UpCmdsIn
<1>3. PICK c3 \in Cmds : c3 = Cmd("chain", "rucimp", "")
  BY UpCmdsIn
<1>4. PICK c4 \in Cmds : c4 = Cmd("append", "rucimp", "tproxy_tcp")
  BY UpCmdsIn
<1>5. PICK c5 \in Cmds : c5 = Cmd("set", "pre", "rucimp")
  BY UpCmdsIn
<1>6. PICK c6 \in Cmds : c6 = Cmd("chain", "rucimp_self", "")
  BY UpCmdsIn
<1>7. PICK c7 \in Cmds : c7 = Cmd("append", "rucimp_self", "own")
  BY UpCmdsIn
<1>8. PICK c8 \in Cmds : c8 = Cmd("append", "rucimp_self", "mark_tcp")
  BY UpCmdsIn
<1>9. PICK c9 \in Cmds : c9 = Cmd("set", "out", "rucimp_self")
  BY UpCmdsIn
<1>10. PICK p1 : p1 = <<c1, c2, c3, c4>>
  OBVIOUS
<1>11. p1 \in Seq(Cmds)
  BY <1>10
<1>12. Len(p1) = 4 /\ p1[1] = c1 /\ p1[2] = c2 /\ p1[3] = c3 /\ p1[4] = c4
  BY <1>10
<1>13. PICK p2 : p2 = p1 \o <<>>
  OBVIOUS
<1>14. p2 = p1
  BY <1>11, <1>13
<1>15. p2 \in Seq(Cmds)
  BY <1>11, <1>14
<1>16. Len(p2) = 4 /\ p2[1] = c1 /\ p2[2] = c2 /\ p2[3] = c3 /\ p2[4] = c4
  BY <1>12, <1>14
<1>17. PICK p3 : p3 = p2 \o <<c5, c6, c7, c8>>
  OBVIOUS
<1>18. p3 \in Seq(Cmds)
  BY <1>15, <1>17
<1>19. Len(p3) = Len(p2) + 4
  BY <1>15, <1>17
<1>20. p3[Len(p2) + 1] = c5 /\ p3[Len(p2) + 2] = c6 /\ p3[Len(p2) + 3] = c7 /\ p3[Len(p2) + 4] = c8 /\ \A i \in 1..Len(p2) : p3[i] = p2[i]
  BY <1>15, <1>17
<1>21. Len(p3) = 8 /\ p3[1] = c1 /\ p3[2] = c2 /\ p3[3] = c3 /\ p3[4] = c4 /\ p3[5] = c5 /\ p3[6] = c6
       /\ p3[7] = c7 /\ p3[8] = c8
  BY <1>16, <1>19, <1>20
<1>22. PICK p4 : p4 = p3 \o <<>>
  OBVIOUS
<1>23. p4 = p3
  BY <1>18, <1>22
<1>24. p4 \in Seq(Cmds)
  BY <1>18, <1>23
<1>25. Len(p4) = 8 /\ p4[1] = c1 /\ p4[2] = c2 /\ p4[3] = c3 /\ p4[4] = c4 /\ p4[5] = c5 /\ p4[6] = c6
       /\ p4[7] = c7 /\ p4[8] = c8
  BY <1>21, <1>23
<1>26. PICK p5 : p5 = p4 \o <<c9>>
  OBVIOUS
<1>27. p5 \in Seq(Cmds)
  BY <1>24, <1>26
<1>28. Len(p5) = Len(p4) + 1
  BY <1>24, <1>26
<1>29. p5[Len(p4) + 1] = c9 /\ \A i \in 1..Len(p4) : p5[i] = p4[i]
  BY <1>24, <1>26
<1>30. Len(p5) = 9 /\ p5[1] = c1 /\ p5[2] = c2 /\ p5[3] = c3 /\ p5[4] = c4 /\ p5[5] = c5 /\ p5[6] = c6
       /\ p5[7] = c7 /\ p5[8] = c8 /\ p5[9] = c9
  BY <1>25, <1>28, <1>29
<1>31. UpList(FALSE) = <<c1, c2, c3, c4>> \o <<>> \o <<c5, c6, c7, c8>> \o <<>> \o <<c9>>
  BY <1>1, <1>2, <1>3, <1>4, <1>5, <1>6, <1>7, <1>8, <1>9, Zenon DEF UpList, When
<1>32. UpList(FALSE) = p5
  BY <1>31, <1>10, <1>13, <1>17, <1>22, <1>26, Zenon
<1>33. QED
  BY <1>27, <1>30, <1>32, <1>1, <1>2, <1>3, <1>4, <1>5, <1>6, <1>7, <1>8, <1>9

-----------------------------------------------------------------------------
(* The tables *)

Selfs  == {"own", "mark_tcp", "mark_udp"}
Tables == [rule : BOOLEAN, route : BOOLEAN, pre : BOOLEAN, out : BOOLEAN,
           rucimp : Seq({"tproxy_tcp", "tproxy_udp"}), rucimp_self : Seq(Selfs),
           chains : SUBSET {"rucimp", "rucimp_self"}]

\* A chain that is not there has no entries, and no entry of the other is there twice.
TableOK(t) ==
  /\ t \in Tables
  /\ "rucimp" \notin t.chains => t.rucimp = <<>>
  /\ "rucimp_self" \notin t.chains => t.rucimp_self = <<>>
  /\ NoTwice(t.rucimp_self)

\* Whether a chain marks what the proxy itself sends.
Marked(s) == s # <<>> /\ s[1] # "own"
Loop(t)   == t.out /\ t.rule /\ t.route /\ t.rucimp # <<>> /\ t.pre /\ Marked(t.rucimp_self)
Tame(t)   == ~t.out \/ ~Marked(t.rucimp_self)

\* What is gone when k commands of DownList are through, none of which has failed of itself.
Clean(t, k) ==
  /\ k >= 1 => ~t.rule
  /\ k >= 2 => ~t.route
  /\ k >= 5 => ~t.pre
  /\ k >= 9 => ~t.out
  /\ k >= 10 => t.rucimp = <<>>
  /\ k >= 11 => "rucimp" \notin t.chains
  /\ k >= 12 => t.rucimp_self = <<>>
  /\ k >= 13 => "rucimp_self" \notin t.chains

\* Of the k commands, those that must have failed: of what brings marked packets
\* to the proxy, and of what marks its own.
One(x) == IF x THEN 1 ELSE 0
TurnsLeft(t, k) == One(k >= 1 /\ t.rule) + One(k >= 2 /\ t.route) + One(k >= 5 /\ t.pre)
MarksLeft(t, k) == One(k >= 7 /\ "mark_udp" \in ToSet(t.rucimp_self)) + One(k >= 8 /\ "mark_tcp" \in ToSet(t.rucimp_self))
                   + One(k >= 9 /\ t.out) + One(k >= 12 /\ t.rucimp_self # <<>>)

\* The entries of rucimp_self when k commands of UpList are through.
SelfAfter(udp, k) ==
  LET i == IF udp THEN k - 7 ELSE k - 6
  IN  CASE i = 1 -> <<"own">>
        [] i = 2 -> <<"own", "mark_tcp">>
        [] i = 3 -> <<"own", "mark_tcp", "mark_udp">>
        [] OTHER -> <<>>
SelfThere(udp, k) == k \in IF udp THEN 7..10 ELSE 6..8

RouteTypes ==
  /\ phase \in {"off", "cleaning", "adding", "up", "dropping"} /\ fam \in Families /\ opts \in Opts
  /\ faults \in Nat /\ whole \in BOOLEAN /\ tables \in [Families -> Tables]

Kept     == \A f \in Families : TableOK(tables[f])
Unlooped == faults <= 2 => \A f \in Families : ~Loop(tables[f])

CleanedTo(k) ==
  /\ todo = Rest(DownList, k)
  /\ TurnsLeft(tables[fam], k) <= faults /\ MarksLeft(tables[fam], k) <= faults
  /\ whole => Clean(tables[fam], k)
AddedTo(k) ==
  /\ todo = Rest(UpList(opts.udp), k)
  /\ SelfThere(opts.udp, k) => tables[fam].rucimp_self = SelfAfter(opts.udp, k)

Cleaned == phase \in {"cleaning", "dropping"} => \E k \in 0..13 : CleanedTo(k)
Added   == phase = "adding" => /\ faults <= 2 => Tame(tables[fam])
                               /\ todo = <<>> \/ \E k \in 0..Len(UpList(opts.udp)) - 1 : AddedTo(k)
Idle    == phase \in {"off", "up"} => todo = <<>>

RouteInv == RouteTypes /\ Kept /\ Unlooped /\ Cleaned /\ Added /\ Idle

LEMMA FirstMarks ==
  ASSUME NEW t \in Tables
  PROVE  Marks(t) # {} <=> Marked(t.rucimp_self)
<1> DEFINE s == t.rucimp_self
<1>1. s \in Seq(Selfs)
  BY DEF Tables
<1>2. ASSUME Marked(s) PROVE 1 \in Marks(t)
  BY <1>1, <1>2 DEF Marks, Marked
<1>3. ASSUME NEW i \in Marks(t) PROVE Marked(s)
  <2>1. /\ i \in 1..Len(s) /\ s[i] # "own" /\ \A j \in 1..i-1 : s[j] # "own"
        /\ Len(s) \in Nat
    BY <1>1 DEF Marks
  <2>2. i = 1 \/ 1 \in 1..i-1
    BY <2>1
  <2>3. QED
    BY <1>1, <2>1, <2>2 DEF Marked
<1>4. QED
  BY <1>2, <1>3

LEMMA InSet ==
  ASSUME NEW s, NEW e
  PROVE  Contains(s, e) <=> e \in ToSet(s)
  BY DEF Contains, ToSet

LEMMA NotEmpty ==
  ASSUME NEW s, NEW e, Contains(s, e)
  PROVE  s # <<>>
<1>1. ~Contains(<<>>, e)
  BY DEF Contains
<1>2. QED
  BY <1>1

\* Removing a mark does not make the first of the others one, unless it was.
LEMMA UnmarkedStays ==
  ASSUME NEW s \in Seq(Selfs), NoTwice(s), NEW e \in {"mark_tcp", "mark_udp"}, Contains(s, e)
  PROVE  Marked(RemoveFirst(s, e)) => Marked(s)
<1>1. s[1] # e /\ RemoveFirst(s, e) # <<>> => RemoveFirst(s, e)[1] = s[1]
  BY RemovedOnce
<1>2. s # <<>>
  BY NotEmpty
<1>3. QED
  BY <1>1, <1>2 DEF Marked

\* What the j-th command of DownList undoes, and what it does not bring back.
Gone(u, j) ==
  /\ j = 1 => ~u.rule
  /\ j = 2 => ~u.route
  /\ j = 5 => ~u.pre
  /\ j = 7 => "mark_udp" \notin ToSet(u.rucimp_self)
  /\ j = 8 => "mark_tcp" \notin ToSet(u.rucimp_self)
  /\ j = 9 => ~u.out
  /\ j = 10 => u.rucimp = <<>>
  /\ j = 11 => "rucimp" \notin u.chains
  /\ j = 12 => u.rucimp_self = <<>>
  /\ j = 13 => "rucimp_self" \notin u.chains

NoMore(t, u) ==
  /\ u.rule => t.rule
  /\ u.route => t.route
  /\ u.pre => t.pre
  /\ u.out => t.out
  /\ u.rucimp # <<>> => t.rucimp # <<>>
  /\ u.rucimp_self # <<>> => t.rucimp_self # <<>>
  /\ ToSet(u.rucimp_self) \subseteq ToSet(t.rucimp_self)
  /\ u.chains \subseteq t.chains

Undoes(t, u, j) ==
  /\ TableOK(u) /\ Gone(u, j) /\ NoMore(t, u)
  /\ Marked(u.rucimp_self) => Marked(t.rucimp_self) \/ j = 6

LEMMA Down1 ==
  ASSUME NEW t, TableOK(t)
  PROVE  /\ Works(t, Cmd("unset", "rule", "")) => Undoes(t, After(t, Cmd("unset", "rule", "")), 1)
         /\ ~Works(t, Cmd("unset", "rule", "")) => Gone(t, 1)
<1>1. Works(t, Cmd("unset", "rule", "")) <=> t.rule
  BY DEF Works, Cmd, Jumps
<1>2. ASSUME ~Works(t, Cmd("unset", "rule", "")) PROVE Gone(t, 1)
  <2>1. ~t.rule
    BY <1>1, <1>2
  <2>2. QED
    BY <2>1 DEF Gone
<1>3. ASSUME Works(t, Cmd("unset", "rule", "")), NEW u, u = After(t, Cmd("unset", "rule", "")) PROVE Undoes(t, u, 1)
  <2>1. t \in Tables /\ t.rule
    BY <1>1, <1>3 DEF TableOK
  <2>2. /\ u.rule = FALSE /\ u.route = t.route /\ u.pre = t.pre /\ u.out = t.out
       /\ u.rucimp = t.rucimp /\ u.rucimp_self = t.rucimp_self /\ u.chains = t.chains
    BY <1>3, <2>1 DEF After, Cmd, Tables
  <2>3. u \in Tables
    BY <1>3, <2>1 DEF After, Cmd, Tables
  <2>4. TableOK(u)
    BY <2>1, <2>2, <2>3 DEF TableOK
  <2>5. Gone(u, 1)
    BY <2>2 DEF Gone
  <2>6. NoMore(t, u)
    BY <2>2 DEF NoMore
  <2>7. Marked(u.rucimp_self) => Marked(t.rucimp_self) \/ 1 = 6
    BY <2>2
  <2>8. QED
    BY <2>4, <2>5, <2>6, <2>7 DEF Undoes
<1>4. QED
  BY <1>2, <1>3

LEMMA Down2 ==
  ASSUME NEW t, TableOK(t)
  PROVE  /\ Works(t, Cmd("unset", "route", "")) => Undoes(t, After(t, Cmd("unset", "route", "")), 2)
         /\ ~Works(t, Cmd("unset", "route", "")) => Gone(t, 2)
<1>1. Works(t, Cmd("unset", "route", "")) <=> t.route
  BY DEF Works, Cmd, Jumps
<1>2. ASSUME ~Works(t, Cmd("unset", "route", "")) PROVE Gone(t, 2)
  <2>1. ~t.route
    BY <1>1, <1>2
  <2>2. QED
    BY <2>1 DEF Gone
<1>3. ASSUME Works(t, Cmd("unset", "route", "")), NEW u, u = After(t, Cmd("unset", "route", "")) PROVE Undoes(t, u, 2)
  <2>1. t \in Tables /\ t.route
    BY <1>1, <1>3 DEF TableOK
  <2>2. /\ u.rule = t.rule /\ u.route = FALSE /\ u.pre = t.pre /\ u.out = t.out
       /\ u.rucimp = t.rucimp /\ u.rucimp_self = t.rucimp_self /\ u.chains = t.chains
    BY <1>3, <2>1 DEF After, Cmd, Tables
  <2>3. u \in Tables
    BY <1>3, <2>1 DEF After, Cmd, Tables
  <2>4. TableOK(u)
    BY <2>1, <2>2, <2>3 DEF TableOK
  <2>5. Gone(u, 2)
    BY <2>2 DEF Gone
  <2>6. NoMore(t, u)
    BY <2>2 DEF NoMore
  <2>7. Marked(u.rucimp_self) => Marked(t.rucimp_self) \/ 2 = 6
    BY <2>2
  <2>8. QED
    BY <2>4, <2>5, <2>6, <2>7 DEF Undoes
<1>4. QED
  BY <1>2, <1>3

LEMMA Down3 ==
  ASSUME NEW t, TableOK(t)
  PROVE  /\ Works(t, Cmd("remove", "rucimp", "tproxy_udp")) => Undoes(t, After(t, Cmd("remove", "rucimp", "tproxy_udp")), 3)
         /\ ~Works(t, Cmd("remove", "rucimp", "tproxy_udp")) => Gone(t, 3)
<1>1. Works(t, Cmd("remove", "rucimp", "tproxy_udp")) <=> Contains(t.rucimp, "tproxy_udp")
  BY DEF Works, Cmd, Jumps
<1>2. ASSUME ~Works(t, Cmd("remove", "rucimp", "tproxy_udp")) PROVE Gone(t, 3)
  <2>1. ~Contains(t.rucimp, "tproxy_udp")
    BY <1>1, <1>2
  <2>2. QED
    BY  DEF Gone
<1>3. ASSUME Works(t, Cmd("remove", "rucimp", "tproxy_udp")), NEW u, u = After(t, Cmd("remove", "rucimp", "tproxy_udp")) PROVE Undoes(t, u, 3)
  <2>1. t \in Tables /\ Contains(t.rucimp, "tproxy_udp")
    BY <1>1, <1>3 DEF TableOK
  <2>2. /\ u.rule = t.rule /\ u.route = t.route /\ u.pre = t.pre /\ u.out = t.out
       /\ u.rucimp = RemoveFirst(t.rucimp, "tproxy_udp") /\ u.rucimp_self = t.rucimp_self /\ u.chains = t.chains
    BY <1>3, <2>1 DEF After, Cmd, Tables
  <2>3. t.rucimp \in Seq({"tproxy_tcp", "tproxy_udp"})
    BY <2>1 DEF Tables
  <2>4. RemoveFirst(t.rucimp, "tproxy_udp") \in Seq({"tproxy_tcp", "tproxy_udp"})
    BY <2>1, <2>3, FirstRemoved
  <2>5. t.rucimp # <<>>
    BY <2>1, NotEmpty
  <2>6. u \in Tables
    BY <1>3, <2>1, <2>4 DEF After, Cmd, Tables
  <2>7. TableOK(u)
    BY <2>1, <2>2, <2>5, <2>6 DEF TableOK
  <2>8. Gone(u, 3)
    BY  DEF Gone
  <2>9. NoMore(t, u)
    BY <2>2, <2>5 DEF NoMore
  <2>10. Marked(u.rucimp_self) => Marked(t.rucimp_self) \/ 3 = 6
    BY <2>2
  <2>11. QED
    BY <2>7, <2>8, <2>9, <2>10 DEF Undoes
<1>4. QED
  BY <1>2, <1>3

LEMMA Down4 ==
  ASSUME NEW t, TableOK(t)
  PROVE  /\ Works(t, Cmd("remove", "rucimp", "tproxy_tcp")) => Undoes(t, After(t, Cmd("remove", "rucimp", "tproxy_tcp")), 4)
         /\ ~Works(t, Cmd("remove", "rucimp", "tproxy_tcp")) => Gone(t, 4)
<1>1. Works(t, Cmd("remove", "rucimp", "tproxy_tcp")) <=> Contains(t.rucimp, "tproxy_tcp")
  BY DEF Works, Cmd, Jumps
<1>2. ASSUME ~Works(t, Cmd("remove", "rucimp", "tproxy_tcp")) PROVE Gone(t, 4)
  <2>1. ~Contains(t.rucimp, "tproxy_tcp")
    BY <1>1, <1>2
  <2>2. QED
    BY  DEF Gone
<1>3. ASSUME Works(t, Cmd("remove", "rucimp", "tproxy_tcp")), NEW u, u = After(t, Cmd("remove", "rucimp", "tproxy_tcp")) PROVE Undoes(t, u, 4)
  <2>1. t \in Tables /\ Contains(t.rucimp, "tproxy_tcp")
    BY <1>1, <1>3 DEF TableOK
  <2>2. /\ u.rule = t.rule /\ u.route = t.route /\ u.pre = t.pre /\ u.out = t.out
       /\ u.rucimp = RemoveFirst(t.rucimp, "tproxy_tcp") /\ u.rucimp_self = t.rucimp_self /\ u.chains = t.chains
    BY <1>3, <2>1 DEF After, Cmd, Tables
  <2>3. t.rucimp \in Seq({"tproxy_tcp", "tproxy_udp"})
    BY <2>1 DEF Tables
  <2>4. RemoveFirst(t.rucimp, "tproxy_tcp") \in Seq({"tproxy_tcp", "tproxy_udp"})
    BY <2>1, <2>3, FirstRemoved
  <2>5. t.rucimp # <<>>
    BY <2>1, NotEmpty
  <2>6. u \in Tables
    BY <1>3, <2>1, <2>4 DEF After, Cmd, Tables
  <2>7. TableOK(u)
    BY <2>1, <2>2, <2>5, <2>6 DEF TableOK
  <2>8. Gone(u, 4)
    BY  DEF Gone
  <2>9. NoMore(t, u)
    BY <2>2, <2>5 DEF NoMore
  <2>10. Marked(u.rucimp_self) => Marked(t.rucimp_self) \/ 4 = 6
    BY <2>2
  <2>11. QED
    BY <2>7, <2>8, <2>9, <2>10 DEF Undoes
<1>4. QED
  BY <1>2, <1>3

LEMMA Down5 ==
  ASSUME NEW t, TableOK(t)
  PROVE  /\ Works(t, Cmd("unset", "pre", "")) => Undoes(t, After(t, Cmd("unset", "pre", "")), 5)
         /\ ~Works(t, Cmd("unset", "pre", "")) => Gone(t, 5)
<1>1. Works(t, Cmd("unset", "pre", "")) <=> t.pre
  BY DEF Works, Cmd, Jumps
<1>2. ASSUME ~Works(t, Cmd("unset", "pre", "")) PROVE Gone(t, 5)
  <2>1. ~t.pre
    BY <1>1, <1>2
  <2>2. QED
    BY <2>1 DEF Gone
<1>3. ASSUME Works(t, Cmd("unset", "pre", "")), NEW u, u = After(t, Cmd("unset", "pre", "")) PROVE Undoes(t, u, 5)
  <2>1. t \in Tables /\ t.pre
    BY <1>1, <1>3 DEF TableOK
  <2>2. /\ u.rule = t.rule /\ u.route = t.route /\ u.pre = FALSE /\ u.out = t.out
       /\ u.rucimp = t.rucimp /\ u.rucimp_self = t.rucimp_self /\ u.chains = t.chains
    BY <1>3, <2>1 DEF After, Cmd, Tables
  <2>3. u \in Tables
    BY <1>3, <2>1 DEF After, Cmd, Tables
  <2>4. TableOK(u)
    BY <2>1, <2>2, <2>3 DEF TableOK
  <2>5. Gone(u, 5)
    BY <2>2 DEF Gone
  <2>6. NoMore(t, u)
    BY <2>2 DEF NoMore
  <2>7. Marked(u.rucimp_self) => Marked(t.rucimp_self) \/ 5 = 6
    BY <2>2
  <2>8. QED
    BY <2>4, <2>5, <2>6, <2>7 DEF Undoes
<1>4. QED
  BY <1>2, <1>3

LEMMA Down6 ==
  ASSUME NEW t, TableOK(t)
  PROVE  /\ Works(t, Cmd("remove", "rucimp_self", "own")) => Undoes(t, After(t, Cmd("remove", "rucimp_self", "own")), 6)
         /\ ~Works(t, Cmd("remove", "rucimp_self", "own")) => Gone(t, 6)
<1>1. Works(t, Cmd("remove", "rucimp_self", "own")) <=> Contains(t.rucimp_self, "own")
  BY DEF Works, Cmd, Jumps
<1>2. ASSUME ~Works(t, Cmd("remove", "rucimp_self", "own")) PROVE Gone(t, 6)
  <2>1. ~Contains(t.rucimp_self, "own")
    BY <1>1, <1>2
  <2>2. QED
    BY <2>1 DEF Gone
<1>3. ASSUME Works(t, Cmd("remove", "rucimp_self", "own")), NEW u, u = After(t, Cmd("remove", "rucimp_self", "own")) PROVE Undoes(t, u, 6)
  <2>1. t \in Tables /\ Contains(t.rucimp_self, "own")
    BY <1>1, <1>3 DEF TableOK
  <2>2. /\ u.rule = t.rule /\ u.route = t.route /\ u.pre = t.pre /\ u.out = t.out
       /\ u.rucimp = t.rucimp /\ u.rucimp_self = RemoveFirst(t.rucimp_self, "own") /\ u.chains = t.chains
    BY <1>3, <2>1 DEF After, Cmd, Tables
  <2>3. t.rucimp_self \in Seq(Selfs) /\ NoTwice(t.rucimp_self)
    BY <2>1 DEF TableOK, Tables
  <2>4. /\ RemoveFirst(t.rucimp_self, "own") \in Seq(Selfs) /\ NoTwice(RemoveFirst(t.rucimp_self, "own"))
       /\ "own" \notin ToSet(RemoveFirst(t.rucimp_self, "own"))
       /\ ToSet(RemoveFirst(t.rucimp_self, "own")) \subseteq ToSet(t.rucimp_self)
    <3>1. /\ RemoveFirst(t.rucimp_self, "own") \in Seq(Selfs) /\ NoTwice(RemoveFirst(t.rucimp_self, "own"))
          /\ ~Contains(RemoveFirst(t.rucimp_self, "own"), "own")
          /\ \A x : Contains(RemoveFirst(t.rucimp_self, "own"), x) => Contains(t.rucimp_self, x)
      BY <2>1, <2>3, RemovedOnce
    <3>2. QED
      BY <3>1, InSet
  <2>5. t.rucimp_self # <<>>
    BY <2>1, NotEmpty
  <2>6. u \in Tables
    BY <1>3, <2>1, <2>4 DEF After, Cmd, Tables
  <2>7. TableOK(u)
    BY <2>1, <2>2, <2>4, <2>5, <2>6 DEF TableOK
  <2>8. Gone(u, 6)
    BY <2>2, <2>4, <2>5 DEF Gone
  <2>9. NoMore(t, u)
    BY <2>2, <2>4, <2>5 DEF NoMore
  <2>10. Marked(u.rucimp_self) => Marked(t.rucimp_self) \/ 6 = 6
    BY <2>2
  <2>11. QED
    BY <2>7, <2>8, <2>9, <2>10 DEF Undoes
<1>4. QED
  BY <1>2, <1>3

LEMMA Down7 ==
  ASSUME NEW t, TableOK(t)
  PROVE  /\ Works(t, Cmd("remove", "rucimp_self", "mark_udp")) => Undoes(t, After(t, Cmd("remove", "rucimp_self", "mark_udp")), 7)
         /\ ~Works(t, Cmd("remove", "rucimp_self", "mark_udp")) => Gone(t, 7)
<1>1. Works(t, Cmd("remove", "rucimp_self", "mark_udp")) <=> Contains(t.rucimp_self, "mark_udp")
  BY DEF Works, Cmd, Jumps
<1>2. ASSUME ~Works(t, Cmd("remove", "rucimp_self", "mark_udp")) PROVE Gone(t, 7)
  <2>1. "mark_udp" \notin ToSet(t.rucimp_self)
    BY <1>1, <1>2, InSet
  <2>2. QED
    BY <2>1 DEF Gone
<1>3. ASSUME Works(t, Cmd("remove", "rucimp_self", "mark_udp")), NEW u, u = After(t, Cmd("remove", "rucimp_self", "mark_udp")) PROVE Undoes(t, u, 7)
  <2>1. t \in Tables /\ Contains(t.rucimp_self, "mark_udp")
    BY <1>1, <1>3 DEF TableOK
  <2>2. /\ u.rule = t.rule /\ u.route = t.route /\ u.pre = t.pre /\ u.out = t.out
       /\ u.rucimp = t.rucimp /\ u.rucimp_self = RemoveFirst(t.rucimp_self, "mark_udp") /\ u.chains = t.chains
    BY <1>3, <2>1 DEF After, Cmd, Tables
  <2>3. t.rucimp_self \in Seq(Selfs) /\ NoTwice(t.rucimp_self)
    BY <2>1 DEF TableOK, Tables
  <2>4. /\ RemoveFirst(t.rucimp_self, "mark_udp") \in Seq(Selfs) /\ NoTwice(RemoveFirst(t.rucimp_self, "mark_udp"))
       /\ "mark_udp" \notin ToSet(RemoveFirst(t.rucimp_self, "mark_udp"))
       /\ ToSet(RemoveFirst(t.rucimp_self, "mark_udp")) \subseteq ToSet(t.rucimp_self)
    <3>1. /\ RemoveFirst(t.rucimp_self, "mark_udp") \in Seq(Selfs) /\ NoTwice(RemoveFirst(t.rucimp_self, "mark_udp"))
          /\ ~Contains(RemoveFirst(t.rucimp_self, "mark_udp"), "mark_udp")
          /\ \A x : Contains(RemoveFirst(t.rucimp_self, "mark_udp"), x) => Contains(t.rucimp_self, x)
      BY <2>1, <2>3, RemovedOnce
    <3>2. QED
      BY <3>1, InSet
  <2>5. t.rucimp_self # <<>>
    BY <2>1, NotEmpty
  <2>6. Marked(RemoveFirst(t.rucimp_self, "mark_udp")) => Marked(t.rucimp_self)
    BY <2>1, <2>3, UnmarkedStays
  <2>7. u \in Tables
    BY <1>3, <2>1, <2>4 DEF After, Cmd, Tables
  <2>8. TableOK(u)
    BY <2>1, <2>2, <2>4, <2>5, <2>7 DEF TableOK
  <2>9. Gone(u, 7)
    BY <2>2, <2>4, <2>5 DEF Gone
  <2>10. NoMore(t, u)
    BY <2>2, <2>4, <2>5 DEF NoMore
  <2>11. Marked(u.rucimp_self) => Marked(t.rucimp_self) \/ 7 = 6
    BY <2>2, <2>6
  <2>12. QED
    BY <2>8, <2>9, <2>10, <2>11 DEF Undoes
<1>4. QED
  BY <1>2, <1>3

LEMMA Down8 ==
  ASSUME NEW t, TableOK(t)
  PROVE  /\ Works(t, Cmd("remove", "rucimp_self", "mark_tcp")) => Undoes(t, After(t, Cmd("remove", "rucimp_self", "mark_tcp")), 8)
         /\ ~Works(t, Cmd("remove", "rucimp_self", "mark_tcp")) => Gone(t, 8)
<1>1. Works(t, Cmd("remove", "rucimp_self", "mark_tcp")) <=> Contains(t.rucimp_self, "mark_tcp")
  BY DEF Works, Cmd, Jumps
<1>2. ASSUME ~Works(t, Cmd("remove", "rucimp_self", "mark_tcp")) PROVE Gone(t, 8)
  <2>1. "mark_tcp" \notin ToSet(t.rucimp_self)
    BY <1>1, <1>2, InSet
  <2>2. QED
    BY <2>1 DEF Gone
<1>3. ASSUME Works(t, Cmd("remove", "rucimp_self", "mark_tcp")), NEW u, u = After(t, Cmd("remove", "rucimp_self", "mark_tcp")) PROVE Undoes(t, u, 8)
  <2>1. t \in Tables /\ Contains(t.rucimp_self, "mark_tcp")
    BY <1>1, <1>3 DEF TableOK
  <2>2. /\ u.rule = t.rule /\ u.route = t.route /\ u.pre = t.pre /\ u.out = t.out
       /\ u.rucimp = t.rucimp /\ u.rucimp_self = RemoveFirst(t.rucimp_self, "mark_tcp") /\ u.chains = t.chains
    BY <1>3, <2>1 DEF After, Cmd, Tables
  <2>3. t.rucimp_self \in Seq(Selfs) /\ NoTwice(t.rucimp_self)
    BY <2>1 DEF TableOK, Tables
  <2>4. /\ RemoveFirst(t.rucimp_self, "mark_tcp") \in Seq(Selfs) /\ NoTwice(RemoveFirst(t.rucimp_self, "mark_tcp"))
       /\ "mark_tcp" \notin ToSet(RemoveFirst(t.rucimp_self, "mark_tcp"))
       /\ ToSet(RemoveFirst(t.rucimp_self, "mark_tcp")) \subseteq ToSet(t.rucimp_self)
    <3>1. /\ RemoveFirst(t.rucimp_self, "mark_tcp") \in Seq(Selfs) /\ NoTwice(RemoveFirst(t.rucimp_self, "mark_tcp"))
          /\ ~Contains(RemoveFirst(t.rucimp_self, "mark_tcp"), "mark_tcp")
          /\ \A x : Contains(RemoveFirst(t.rucimp_self, "mark_tcp"), x) => Contains(t.rucimp_self, x)
      BY <2>1, <2>3, RemovedOnce
    <3>2. QED
      BY <3>1, InSet
  <2>5. t.rucimp_self # <<>>
    BY <2>1, NotEmpty
  <2>6. Marked(RemoveFirst(t.rucimp_self, "mark_tcp")) => Marked(t.rucimp_self)
    BY <2>1, <2>3, UnmarkedStays
  <2>7. u \in Tables
    BY <1>3, <2>1, <2>4 DEF After, Cmd, Tables
  <2>8. TableOK(u)
    BY <2>1, <2>2, <2>4, <2>5, <2>7 DEF TableOK
  <2>9. Gone(u, 8)
    BY <2>2, <2>4, <2>5 DEF Gone
  <2>10. NoMore(t, u)
    BY <2>2, <2>4, <2>5 DEF NoMore
  <2>11. Marked(u.rucimp_self) => Marked(t.rucimp_self) \/ 8 = 6
    BY <2>2, <2>6
  <2>12. QED
    BY <2>8, <2>9, <2>10, <2>11 DEF Undoes
<1>4. QED
  BY <1>2, <1>3

LEMMA Down9 ==
  ASSUME NEW t, TableOK(t)
  PROVE  /\ Works(t, Cmd("unset", "out", "")) => Undoes(t, After(t, Cmd("unset", "out", "")), 9)
         /\ ~Works(t, Cmd("unset", "out", "")) => Gone(t, 9)
<1>1. Works(t, Cmd("unset", "out", "")) <=> t.out
  BY DEF Works, Cmd, Jumps
<1>2. ASSUME ~Works(t, Cmd("unset", "out", "")) PROVE Gone(t, 9)
  <2>1. ~t.out
    BY <1>1, <1>2
  <2>2. QED
    BY <2>1 DEF Gone
<1>3. ASSUME Works(t, Cmd("unset", "out", "")), NEW u, u = After(t, Cmd("unset", "out", "")) PROVE Undoes(t, u, 9)
  <2>1. t \in Tables /\ t.out
    BY <1>1, <1>3 DEF TableOK
  <2>2. /\ u.rule = t.rule /\ u.route = t.route /\ u.pre = t.pre /\ u.out = FALSE
       /\ u.rucimp = t.rucimp /\ u.rucimp_self = t.rucimp_self /\ u.chains = t.chains
    BY <1>3, <2>1 DEF After, Cmd, Tables
  <2>3. u \in Tables
    BY <1>3, <2>1 DEF After, Cmd, Tables
  <2>4. TableOK(u)
    BY <2>1, <2>2, <2>3 DEF TableOK
  <2>5. Gone(u, 9)
    BY <2>2 DEF Gone
  <2>6. NoMore(t, u)
    BY <2>2 DEF NoMore
  <2>7. Marked(u.rucimp_self) => Marked(t.rucimp_self) \/ 9 = 6
    BY <2>2
  <2>8. QED
    BY <2>4, <2>5, <2>6, <2>7 DEF Undoes
<1>4. QED
  BY <1>2, <1>3

LEMMA Down10 ==
  ASSUME NEW t, TableOK(t)
  PROVE  /\ Works(t, Cmd("flush", "rucimp", "")) => Undoes(t, After(t, Cmd("flush", "rucimp", "")), 10)
         /\ ~Works(t, Cmd("flush", "rucimp", "")) => Gone(t, 10)
<1>1. Works(t, Cmd("flush", "rucimp", "")) <=> "rucimp" \in t.chains
  BY DEF Works, Cmd, Jumps
<1>2. ASSUME ~Works(t, Cmd("flush", "rucimp", "")) PROVE Gone(t, 10)
  <2>1. t.rucimp = <<>>
    BY <1>1, <1>2 DEF TableOK
  <2>2. QED
    BY <2>1 DEF Gone
<1>3. ASSUME Works(t, Cmd("flush", "rucimp", "")), NEW u, u = After(t, Cmd("flush", "rucimp", "")) PROVE Undoes(t, u, 10)
  <2>1. t \in Tables /\ "rucimp" \in t.chains
    BY <1>1, <1>3 DEF TableOK
  <2>2. /\ u.rule = t.rule /\ u.route = t.route /\ u.pre = t.pre /\ u.out = t.out
       /\ u.rucimp = <<>> /\ u.rucimp_self = t.rucimp_self /\ u.chains = t.chains
    BY <1>3, <2>1 DEF After, Cmd, Tables
  <2>3. <<>> \in Seq({"tproxy_tcp", "tproxy_udp"}) /\ NoTwice(<<>>) /\ ~Marked(<<>>) /\ ToSet(<<>>) = {}
    BY DEF NoTwice, Marked, ToSet
  <2>4. u \in Tables
    BY <1>3, <2>1, <2>3 DEF After, Cmd, Tables
  <2>5. TableOK(u)
    BY <2>1, <2>2, <2>3, <2>4 DEF TableOK
  <2>6. Gone(u, 10)
    BY <2>2, <2>3 DEF Gone
  <2>7. NoMore(t, u)
    BY <2>2, <2>3 DEF NoMore
  <2>8. Marked(u.rucimp_self) => Marked(t.rucimp_self) \/ 10 = 6
    BY <2>2, <2>3
  <2>9. QED
    BY <2>5, <2>6, <2>7, <2>8 DEF Undoes
<1>4. QED
  BY <1>2, <1>3

LEMMA Down11 ==
  ASSUME NEW t, TableOK(t)
  PROVE  /\ Works(t, Cmd("delete", "rucimp", "")) => Undoes(t, After(t, Cmd("delete", "rucimp", "")), 11)
         /\ ~Works(t, Cmd("delete", "rucimp", "")) /\ Clean(t, 10) => Gone(t, 11)
<1>1. Works(t, Cmd("delete", "rucimp", "")) <=> "rucimp" \in t.chains /\ t.rucimp = <<>> /\ ~t.pre
  BY DEF Works, Cmd, Jumps
<1>2. ASSUME ~Works(t, Cmd("delete", "rucimp", "")), Clean(t, 10) PROVE Gone(t, 11)
  <2>1. "rucimp" \notin t.chains
    <3>1. Clean(t, 10) => ~t.pre /\ t.rucimp = <<>>
      BY DEF Clean
    <3>2. ~t.pre /\ t.rucimp = <<>>
      BY <1>2, <3>1, Zenon
    <3>3. QED
      BY <1>1, <1>2, <3>2, Zenon
  <2>2. QED
    BY <2>1 DEF Gone
<1>3. ASSUME Works(t, Cmd("delete", "rucimp", "")), NEW u, u = After(t, Cmd("delete", "rucimp", "")) PROVE Undoes(t, u, 11)
  <2>1. t \in Tables /\ "rucimp" \in t.chains /\ t.rucimp = <<>> /\ ~t.pre
    BY <1>1, <1>3 DEF TableOK
  <2>2. /\ u.rule = t.rule /\ u.route = t.route /\ u.pre = t.pre /\ u.out = t.out
       /\ u.rucimp = t.rucimp /\ u.rucimp_self = t.rucimp_self /\ u.chains = t.chains \ {"rucimp"}
    BY <1>3, <2>1 DEF After, Cmd, Tables
  <2>3. u \in Tables
    BY <1>3, <2>1 DEF After, Cmd, Tables
  <2>4. TableOK(u)
    BY <2>1, <2>2, <2>3 DEF TableOK
  <2>5. Gone(u, 11)
    BY <2>2 DEF Gone
  <2>6. NoMore(t, u)
    BY <2>2 DEF NoMore
  <2>7. Marked(u.rucimp_self) => Marked(t.rucimp_self) \/ 11 = 6
    BY <2>2
  <2>8. QED
    BY <2>4, <2>5, <2>6, <2>7 DEF Undoes
<1>4. QED
  BY <1>2, <1>3

LEMMA Down12 ==
  ASSUME NEW t, TableOK(t)
  PROVE  /\ Works(t, Cmd("flush", "rucimp_self", "")) => Undoes(t, After(t, Cmd("flush", "rucimp_self", "")), 12)
         /\ ~Works(t, Cmd("flush", "rucimp_self", "")) => Gone(t, 12)
<1>1. Works(t, Cmd("flush", "rucimp_self", "")) <=> "rucimp_self" \in t.chains
  BY DEF Works, Cmd, Jumps
<1>2. ASSUME ~Works(t, Cmd("flush", "rucimp_self", "")) PROVE Gone(t, 12)
  <2>1. t.rucimp_self = <<>>
    BY <1>1, <1>2 DEF TableOK
  <2>2. QED
    BY <2>1 DEF Gone
<1>3. ASSUME Works(t, Cmd("flush", "rucimp_self", "")), NEW u, u = After(t, Cmd("flush", "rucimp_self", "")) PROVE Undoes(t, u, 12)
  <2>1. t \in Tables /\ "rucimp_self" \in t.chains
    BY <1>1, <1>3 DEF TableOK
  <2>2. /\ u.rule = t.rule /\ u.route = t.route /\ u.pre = t.pre /\ u.out = t.out
       /\ u.rucimp = t.rucimp /\ u.rucimp_self = <<>> /\ u.chains = t.chains
    BY <1>3, <2>1 DEF After, Cmd, Tables
  <2>3. <<>> \in Seq(Selfs) /\ NoTwice(<<>>) /\ ~Marked(<<>>) /\ ToSet(<<>>) = {}
    BY DEF NoTwice, Marked, ToSet
  <2>4. u \in Tables
    BY <1>3, <2>1, <2>3 DEF After, Cmd, Tables
  <2>5. TableOK(u)
    BY <2>1, <2>2, <2>3, <2>4 DEF TableOK
  <2>6. Gone(u, 12)
    BY <2>2, <2>3 DEF Gone
  <2>7. NoMore(t, u)
    BY <2>2, <2>3 DEF NoMore
  <2>8. Marked(u.rucimp_self) => Marked(t.rucimp_self) \/ 12 = 6
    BY <2>2, <2>3
  <2>9. QED
    BY <2>5, <2>6, <2>7, <2>8 DEF Undoes
<1>4. QED
  BY <1>2, <1>3

LEMMA Down13 ==
  ASSUME NEW t, TableOK(t)
  PROVE  /\ Works(t, Cmd("delete", "rucimp_self", "")) => Undoes(t, After(t, Cmd("delete", "rucimp_self", "")), 13)
         /\ ~Works(t, Cmd("delete", "rucimp_self", "")) /\ Clean(t, 12) => Gone(t, 13)
<1>1. Works(t, Cmd("delete", "rucimp_self", "")) <=> "rucimp_self" \in t.chains /\ t.rucimp_self = <<>> /\ ~t.out
  BY DEF Works, Cmd, Jumps
<1>2. ASSUME ~Works(t, Cmd("delete", "rucimp_self", "")), Clean(t, 12) PROVE Gone(t, 13)
  <2>1. "rucimp_self" \notin t.chains
    <3>1. Clean(t, 12) => ~t.out /\ t.rucimp_self = <<>>
      BY DEF Clean
    <3>2. ~t.out /\ t.rucimp_self = <<>>
      BY <1>2, <3>1, Zenon
    <3>3. QED
      BY <1>1, <1>2, <3>2, Zenon
  <2>2. QED
    BY <2>1 DEF Gone
<1>3. ASSUME Works(t, Cmd("delete", "rucimp_self", "")), NEW u, u = After(t, Cmd("delete", "rucimp_self", "")) PROVE Undoes(t, u, 13)
  <2>1. t \in Tables /\ "rucimp_self" \in t.chains /\ t.rucimp_self = <<>> /\ ~t.out
    BY <1>1, <1>3 DEF TableOK
  <2>2. /\ u.rule = t.rule /\ u.route = t.route /\ u.pre = t.pre /\ u.out = t.out
       /\ u.rucimp = t.rucimp /\ u.rucimp_self = t.rucimp_self /\ u.chains = t.chains \ {"rucimp_self"}
    BY <1>3, <2>1 DEF After, Cmd, Tables
  <2>3. u \in Tables
    BY <1>3, <2>1 DEF After, Cmd, Tables
  <2>4. TableOK(u)
    BY <2>1, <2>2, <2>3 DEF TableOK
  <2>5. Gone(u, 13)
    BY <2>2 DEF Gone
  <2>6. NoMore(t, u)
    BY <2>2 DEF NoMore
  <2>7. Marked(u.rucimp_self) => Marked(t.rucimp_self) \/ 13 = 6
    BY <2>2
  <2>8. QED
    BY <2>4, <2>5, <2>6, <2>7 DEF Undoes
<1>4. QED
  BY <1>2, <1>3

LEMMA DownStep ==
  ASSUME NEW t, TableOK(t), NEW k \in 0..12
  PROVE  /\ Works(t, DownList[k + 1]) => Undoes(t, After(t, DownList[k + 1]), k + 1)
         /\ ~Works(t, DownList[k + 1]) /\ Clean(t, k) => Gone(t, k + 1)
         /\ ~Works(t, DownList[k + 1]) /\ k # 10 /\ k # 12 => Gone(t, k + 1)
<1>1. CASE k = 0
  <2>1. DownList[k + 1] = Cmd("unset", "rule", "") /\ k + 1 = 1
    <3>1. k + 1 = 1
      BY <1>1
    <3>2. QED
      BY <3>1, DownCmds, Zenon
  <2>2. QED
    BY <1>1, <2>1, Down1
<1>2. CASE k = 1
  <2>1. DownList[k + 1] = Cmd("unset", "route", "") /\ k + 1 = 2
    <3>1. k + 1 = 2
      BY <1>2
    <3>2. QED
      BY <3>1, DownCmds, Zenon
  <2>2. QED
    BY <1>2, <2>1, Down2
<1>3. CASE k = 2
  <2>1. DownList[k + 1] = Cmd("remove", "rucimp", "tproxy_udp") /\ k + 1 = 3
    <3>1. k + 1 = 3
      BY <1>3
    <3>2. QED
      BY <3>1, DownCmds, Zenon
  <2>2. QED
    BY <1>3, <2>1, Down3
<1>4. CASE k = 3
  <2>1. DownList[k + 1] = Cmd("remove", "rucimp", "tproxy_tcp") /\ k + 1 = 4
    <3>1. k + 1 = 4
      BY <1>4
    <3>2. QED
      BY <3>1, DownCmds, Zenon
  <2>2. QED
    BY <1>4, <2>1, Down4
<1>5. CASE k = 4
  <2>1. DownList[k + 1] = Cmd("unset", "pre", "") /\ k + 1 = 5
    <3>1. k + 1 = 5
      BY <1>5
    <3>2. QED
      BY <3>1, DownCmds, Zenon
  <2>2. QED
    BY <1>5, <2>1, Down5
<1>6. CASE k = 5
  <2>1. DownList[k + 1] = Cmd("remove", "rucimp_self", "own") /\ k + 1 = 6
    <3>1. k + 1 = 6
      BY <1>6
    <3>2. QED
      BY <3>1, DownCmds, Zenon
  <2>2. QED
    BY <1>6, <2>1, Down6
<1>7. CASE k = 6
  <2>1. DownList[k + 1] = Cmd("remove", "rucimp_self", "mark_udp") /\ k + 1 = 7
    <3>1. k + 1 = 7
      BY <1>7
    <3>2. QED
      BY <3>1, DownCmds, Zenon
  <2>2. QED
    BY <1>7, <2>1, Down7
<1>8. CASE k = 7
  <2>1. DownList[k + 1] = Cmd("remove", "rucimp_self", "mark_tcp") /\ k + 1 = 8
    <3>1. k + 1 = 8
      BY <1>8
    <3>2. QED
      BY <3>1, DownCmds, Zenon
  <2>2. QED
    BY <1>8, <2>1, Down8
<1>9. CASE k = 8
  <2>1. DownList[k + 1] = Cmd("unset", "out", "") /\ k + 1 = 9
    <3>1. k + 1 = 9
      BY <1>9
    <3>2. QED
      BY <3>1, DownCmds, Zenon
  <2>2. QED
    BY <1>9, <2>1, Down9
<1>10. CASE k = 9
  <2>1. DownList[k + 1] = Cmd("flush", "rucimp", "") /\ k + 1 = 10
    <3>1. k + 1 = 10
      BY <1>10
    <3>2. QED
      BY <3>1, DownCmds, Zenon
  <2>2. QED
    BY <1>10, <2>1, Down10
<1>11. CASE k = 10
  <2>1. DownList[k + 1] = Cmd("delete", "rucimp", "") /\ k + 1 = 11
    <3>1. k + 1 = 11
      BY <1>11
    <3>2. QED
      BY <3>1, DownCmds, Zenon
  <2>2. QED
    BY <1>11, <2>1, Down11
<1>12. CASE k = 11
  <2>1. DownList[k + 1] = Cmd("flush", "rucimp_self", "") /\ k + 1 = 12
    <3>1. k + 1 = 12
      BY <1>12
    <3>2. QED
      BY <3>1, DownCmds, Zenon
  <2>2. QED
    BY <1>12, <2>1, Down12
<1>13. CASE k = 12
  <2>1. DownList[k + 1] = Cmd("delete", "rucimp_self", "") /\ k + 1 = 13
    <3>1. k + 1 = 13
      BY <1>13
    <3>2. QED
      BY <3>1, DownCmds, Zenon
  <2>2. QED
    BY <1>13, <2>1, Down13
<1>14. QED
  BY <1>1, <1>2, <1>3, <1>4, <1>5, <1>6, <1>7, <1>8, <1>9, <1>10, <1>11, <1>12, <1>13

-----------------------------------------------------------------------------
(* What is left when some commands have failed of themselves *)

LEMMA OneOf ==
  ASSUME NEW x \in BOOLEAN
  PROVE  One(x) \in {0, 1} /\ (One(x) = 1 <=> x)
  BY DEF One

LEMMA OneMonotone ==
  ASSUME NEW x \in BOOLEAN, NEW y \in BOOLEAN, x => y
  PROVE  One(x) <= One(y)
  BY DEF One

\* The truth of each summand, for the arithmetic of the counts.
LEMMA Summands ==
  ASSUME NEW t, TableOK(t), NEW k \in 0..13
  PROVE  /\ (k >= 1 /\ t.rule) \in BOOLEAN /\ (k >= 2 /\ t.route) \in BOOLEAN /\ (k >= 5 /\ t.pre) \in BOOLEAN
         /\ (k >= 7 /\ "mark_udp" \in ToSet(t.rucimp_self)) \in BOOLEAN
         /\ (k >= 8 /\ "mark_tcp" \in ToSet(t.rucimp_self)) \in BOOLEAN
         /\ (k >= 9 /\ t.out) \in BOOLEAN /\ (k >= 12 /\ t.rucimp_self # <<>>) \in BOOLEAN
  OBVIOUS

LEMMA CountsOver ==
  ASSUME NEW t, NEW u, NEW j \in 1..13, NoMore(t, u), Gone(u, j)
  PROVE  TurnsLeft(u, j) <= TurnsLeft(t, j - 1) /\ MarksLeft(u, j) <= MarksLeft(t, j - 1)
<1>1. /\ (j >= 1 /\ u.rule) => (j - 1 >= 1 /\ t.rule)
      /\ (j >= 2 /\ u.route) => (j - 1 >= 2 /\ t.route)
      /\ (j >= 5 /\ u.pre) => (j - 1 >= 5 /\ t.pre)
  BY DEF NoMore, Gone
<1>2. /\ (j >= 7 /\ "mark_udp" \in ToSet(u.rucimp_self)) => (j - 1 >= 7 /\ "mark_udp" \in ToSet(t.rucimp_self))
      /\ (j >= 8 /\ "mark_tcp" \in ToSet(u.rucimp_self)) => (j - 1 >= 8 /\ "mark_tcp" \in ToSet(t.rucimp_self))
      /\ (j >= 9 /\ u.out) => (j - 1 >= 9 /\ t.out)
      /\ (j >= 12 /\ u.rucimp_self # <<>>) => (j - 1 >= 12 /\ t.rucimp_self # <<>>)
  BY DEF NoMore, Gone
<1>3. TurnsLeft(u, j) <= TurnsLeft(t, j - 1)
  BY <1>1 DEF TurnsLeft, One
<1>4. MarksLeft(u, j) <= MarksLeft(t, j - 1)
  BY <1>2 DEF MarksLeft, One
<1>5. QED
  BY <1>3, <1>4

LEMMA CountsFault ==
  ASSUME NEW t, NEW j \in 1..13
  PROVE  /\ TurnsLeft(t, j) <= TurnsLeft(t, j - 1) + 1 /\ MarksLeft(t, j) <= MarksLeft(t, j - 1) + 1
         /\ j \in {11, 13} => TurnsLeft(t, j) = TurnsLeft(t, j - 1) /\ MarksLeft(t, j) = MarksLeft(t, j - 1)
         /\ TurnsLeft(t, j) \in Nat /\ MarksLeft(t, j) \in Nat
<1>1. /\ TurnsLeft(t, j) <= TurnsLeft(t, j - 1) + 1 /\ TurnsLeft(t, j) \in Nat
      /\ j \in {11, 13} => TurnsLeft(t, j) = TurnsLeft(t, j - 1)
  BY DEF TurnsLeft, One
<1>2. /\ MarksLeft(t, j) <= MarksLeft(t, j - 1) + 1 /\ MarksLeft(t, j) \in Nat
      /\ j \in {11, 13} => MarksLeft(t, j) = MarksLeft(t, j - 1)
  BY DEF MarksLeft, One
<1>3. QED
  BY <1>1, <1>2

LEMMA CountsStart ==
  ASSUME NEW t
  PROVE  TurnsLeft(t, 0) = 0 /\ MarksLeft(t, 0) = 0 /\ Clean(t, 0)
  BY DEF TurnsLeft, MarksLeft, One, Clean

LEMMA CleanOver ==
  ASSUME NEW t, NEW u, NEW j \in 1..13, NoMore(t, u), Gone(u, j), Clean(t, j - 1)
  PROVE  Clean(u, j)
  BY DEF NoMore, Gone, Clean

LEMMA MoreIsNoMore ==
  ASSUME NEW t
  PROVE  NoMore(t, t)
  BY DEF NoMore

\* Three commands must have failed when all that brings a marked packet to the proxy is still there,
LEMMA ThreeTurns ==
  ASSUME NEW t, t.rule, t.route, t.pre, NEW k \in 5..13
  PROVE  TurnsLeft(t, k) = 3
  BY DEF TurnsLeft, One

\* or what the proxy sends is still marked.
LEMMA ThreeMarks ==
  ASSUME NEW t, TableOK(t), ~Tame(t)
  PROVE  MarksLeft(t, 13) >= 3
<1>1. t.out /\ t.rucimp_self # <<>> /\ t.rucimp_self[1] # "own" /\ t.rucimp_self \in Seq(Selfs)
  BY DEF Tame, Marked, TableOK, Tables
<1>2. 1 \in 1..Len(t.rucimp_self) /\ t.rucimp_self[1] \in {"mark_tcp", "mark_udp"}
  BY <1>1 DEF Selfs
<1>3. "mark_udp" \in ToSet(t.rucimp_self) \/ "mark_tcp" \in ToSet(t.rucimp_self)
  BY <1>1, <1>2 DEF ToSet
<1>4. QED
  BY <1>1, <1>3 DEF MarksLeft, One

-----------------------------------------------------------------------------
(* Adding *)

\* A command that touches neither rucimp_self nor what jumps to it.
Beside(t, u) == TableOK(u) /\ u.rucimp_self = t.rucimp_self /\ u.out = t.out

LEMMA UpSets ==
  ASSUME NEW t, TableOK(t), NEW on \in {"rule", "route", "pre"}, NEW e, NEW u, u = After(t, Cmd("set", on, e))
  PROVE  Beside(t, u)
<1>1. u = [t EXCEPT ![on] = TRUE] /\ t \in Tables
  BY DEF After, Cmd, TableOK
<1>2. CASE on = "rule"
  BY <1>1, <1>2 DEF Beside, TableOK, Tables
<1>3. CASE on = "route"
  BY <1>1, <1>3 DEF Beside, TableOK, Tables
<1>4. CASE on = "pre"
  BY <1>1, <1>4 DEF Beside, TableOK, Tables
<1>5. QED
  BY <1>2, <1>3, <1>4

LEMMA UpChain ==
  ASSUME NEW t, TableOK(t), NEW u, u = After(t, Cmd("chain", "rucimp", ""))
  PROVE  Beside(t, u)
<1>1. u = [t EXCEPT !.chains = @ \cup {"rucimp"}] /\ t \in Tables
  BY DEF After, Cmd, TableOK
<1>2. u \in Tables /\ u.rucimp = t.rucimp /\ u.rucimp_self = t.rucimp_self /\ u.out = t.out
      /\ u.chains = t.chains \cup {"rucimp"}
  BY <1>1 DEF Tables
<1>3. QED
  BY <1>2 DEF Beside, TableOK

LEMMA UpTproxy ==
  ASSUME NEW t, TableOK(t), NEW e \in {"tproxy_tcp", "tproxy_udp"}, Works(t, Cmd("append", "rucimp", e)),
         NEW u, u = After(t, Cmd("append", "rucimp", e))
  PROVE  Beside(t, u)
<1>1. u = [t EXCEPT !.rucimp = Append(@, e)] /\ t \in Tables /\ "rucimp" \in t.chains
  BY DEF After, Cmd, TableOK, Works
<1>2. Append(t.rucimp, e) \in Seq({"tproxy_tcp", "tproxy_udp"})
  BY <1>1 DEF Tables
<1>3. u \in Tables /\ u.rucimp_self = t.rucimp_self /\ u.out = t.out /\ u.chains = t.chains
  BY <1>1, <1>2 DEF Tables
<1>4. QED
  BY <1>1, <1>3 DEF Beside, TableOK

\* A chain that is new has no entries.
LEMMA UpSelf ==
  ASSUME NEW t, TableOK(t), Works(t, Cmd("chain", "rucimp_self", "")),
         NEW u, u = After(t, Cmd("chain", "rucimp_self", ""))
  PROVE  TableOK(u) /\ u.rucimp_self = <<>>
<1>1. u = [t EXCEPT !.chains = @ \cup {"rucimp_self"}] /\ t \in Tables /\ "rucimp_self" \notin t.chains
  BY DEF After, Cmd, TableOK, Works
<1>2. u \in Tables /\ u.rucimp = t.rucimp /\ u.rucimp_self = t.rucimp_self
      /\ u.chains = t.chains \cup {"rucimp_self"}
  BY <1>1 DEF Tables
<1>3. QED
  BY <1>1, <1>2 DEF TableOK

LEMMA UpMark ==
  ASSUME NEW t, TableOK(t), NEW e \in Selfs, Works(t, Cmd("append", "rucimp_self", e)),
         NEW u, u = After(t, Cmd("append", "rucimp_self", e)),
         NEW s \in Seq(Selfs), NoTwice(s), Append(t.rucimp_self, e) = s
  PROVE  TableOK(u) /\ u.rucimp_self = s
<1>1. u = [t EXCEPT !.rucimp_self = Append(@, e)] /\ t \in Tables /\ "rucimp_self" \in t.chains
  BY DEF After, Cmd, TableOK, Works
<1>2. u \in Tables /\ u.rucimp = t.rucimp /\ u.rucimp_self = s /\ u.chains = t.chains
  BY <1>1 DEF Tables
<1>3. QED
  BY <1>1, <1>2 DEF TableOK

LEMMA UpOut ==
  ASSUME NEW t, TableOK(t), NEW u, u = After(t, Cmd("set", "out", "rucimp_self"))
  PROVE  TableOK(u) /\ u.rucimp_self = t.rucimp_self
<1>1. u = [t EXCEPT !.out = TRUE] /\ t \in Tables
  BY DEF After, Cmd, TableOK
<1>2. QED
  BY <1>1 DEF TableOK, Tables

LEMMA SameSeq ==
  ASSUME NEW S, NEW p \in Seq(S), NEW q \in Seq(S), Len(p) = Len(q), \A i \in 1..Len(p) : p[i] = q[i]
  PROVE  p = q
  OBVIOUS

LEMMA AppendTwo ==
  ASSUME NEW a, NEW b
  PROVE  Append(<<a>>, b) = <<a, b>>
<1>0. \E S : a \in S /\ b \in S
  <2> WITNESS {a, b}
  <2> QED
    OBVIOUS
<1>s. PICK S : a \in S /\ b \in S
  BY <1>0
<1>1. PICK p : p = <<a>>
  OBVIOUS
<1>2. p \in Seq(S)
  BY <1>1, <1>s
<1>3. Len(p) = 1 /\ p[1] = a
  BY <1>1
<1>4. PICK q : q = <<a, b>>
  OBVIOUS
<1>5. q \in Seq(S)
  BY <1>4, <1>s
<1>6. Len(q) = 2 /\ q[1] = a /\ q[2] = b
  BY <1>4
<1>7. PICK r : r = Append(p, b)
  OBVIOUS
<1>8. r \in Seq(S) /\ Len(r) = Len(p) + 1
  BY <1>2, <1>7, <1>s
<1>9. r[Len(p) + 1] = b /\ \A i \in 1..Len(p) : r[i] = p[i]
  BY <1>2, <1>7, <1>s
<1>10. Len(r) = 2 /\ r[1] = a /\ r[2] = b
  BY <1>3, <1>8, <1>9
<1>11. \A i \in 1..Len(r) : r[i] = q[i]
  BY <1>6, <1>10
<1>12. Len(r) = Len(q)
  BY <1>6, <1>10
<1>13. r = q
  BY <1>5, <1>8, <1>11, <1>12, SameSeq
<1>14. QED
  BY <1>1, <1>4, <1>7, <1>13

LEMMA AppendThree ==
  ASSUME NEW a, NEW b, NEW c
  PROVE  Append(<<a, b>>, c) = <<a, b, c>>
<1>0. \E S : a \in S /\ b \in S /\ c \in S
  <2> WITNESS {a, b, c}
  <2> QED
    OBVIOUS
<1>s. PICK S : a \in S /\ b \in S /\ c \in S
  BY <1>0
<1>1. PICK p : p = <<a, b>>
  OBVIOUS
<1>2. p \in Seq(S)
  BY <1>1, <1>s
<1>3. Len(p) = 2 /\ p[1] = a /\ p[2] = b
  BY <1>1
<1>4. PICK q : q = <<a, b, c>>
  OBVIOUS
<1>5. q \in Seq(S)
  BY <1>4, <1>s
<1>6. Len(q) = 3 /\ q[1] = a /\ q[2] = b /\ q[3] = c
  BY <1>4
<1>7. PICK r : r = Append(p, c)
  OBVIOUS
<1>8. r \in Seq(S) /\ Len(r) = Len(p) + 1
  BY <1>2, <1>7, <1>s
<1>9. r[Len(p) + 1] = c /\ \A i \in 1..Len(p) : r[i] = p[i]
  BY <1>2, <1>7, <1>s
<1>10. Len(r) = 3 /\ r[1] = a /\ r[2] = b /\ r[3] = c
  BY <1>3, <1>8, <1>9
<1>11. \A i \in 1..Len(r) : r[i] = q[i]
  BY <1>6, <1>10
<1>12. Len(r) = Len(q)
  BY <1>6, <1>10
<1>13. r = q
  BY <1>5, <1>8, <1>11, <1>12, SameSeq
<1>14. QED
  BY <1>1, <1>4, <1>7, <1>13

\* The chain as the list builds it: what is the proxy's own is spared before anything is marked.
LEMMA OwnFirst ==
  /\ <<"own">> \in Seq(Selfs) /\ NoTwice(<<"own">>) /\ ~Marked(<<"own">>) /\ ~Marked(<<>>)
  /\ Append(<<>>, "own") = <<"own">>
  /\ <<"own", "mark_tcp">> \in Seq(Selfs) /\ NoTwice(<<"own", "mark_tcp">>) /\ ~Marked(<<"own", "mark_tcp">>)
  /\ Append(<<"own">>, "mark_tcp") = <<"own", "mark_tcp">>
  /\ <<"own", "mark_tcp", "mark_udp">> \in Seq(Selfs) /\ NoTwice(<<"own", "mark_tcp", "mark_udp">>)
  /\ ~Marked(<<"own", "mark_tcp", "mark_udp">>)
  /\ Append(<<"own", "mark_tcp">>, "mark_udp") = <<"own", "mark_tcp", "mark_udp">>
<1>1. /\ <<"own">> \in Seq(Selfs) /\ <<"own", "mark_tcp">> \in Seq(Selfs) /\ <<"own", "mark_tcp", "mark_udp">> \in Seq(Selfs)
  BY DEF Selfs
<1>2. ~Marked(<<>>) /\ ~Marked(<<"own">>) /\ ~Marked(<<"own", "mark_tcp">>) /\ ~Marked(<<"own", "mark_tcp", "mark_udp">>)
  BY DEF Marked
<1>3. NoTwice(<<"own">>) /\ NoTwice(<<"own", "mark_tcp">>)
  BY DEF NoTwice
<1>4. NoTwice(<<"own", "mark_tcp", "mark_udp">>)
  BY DEF NoTwice
<1>5. Append(<<>>, "own") = <<"own">>
  OBVIOUS
<1>6. Append(<<"own">>, "mark_tcp") = <<"own", "mark_tcp">>
  BY AppendTwo
<1>7. Append(<<"own", "mark_tcp">>, "mark_udp") = <<"own", "mark_tcp", "mark_udp">>
  BY AppendThree
<1>8. QED
  BY <1>1, <1>2, <1>3, <1>4, <1>5, <1>6, <1>7

Adds(t, u, udp, j) ==
  /\ TableOK(u)
  /\ Tame(t) => Tame(u)
  /\ SelfThere(udp, j) => u.rucimp_self = SelfAfter(udp, j)

LEMMA BesideAdds ==
  ASSUME NEW t, NEW u, NEW udp, NEW j, Beside(t, u), ~SelfThere(udp, j)
  PROVE  Adds(t, u, udp, j)
  BY DEF Beside, Adds, Tame

LEMMA UnmarkedAdds ==
  ASSUME NEW t, NEW u, NEW udp, NEW j, TableOK(u), ~Marked(u.rucimp_self),
         SelfThere(udp, j) => u.rucimp_self = SelfAfter(udp, j)
  PROVE  Adds(t, u, udp, j)
  BY DEF Adds, Tame

LEMMA UpStepUdp ==
  ASSUME NEW t, TableOK(t), NEW k \in 0..10, Works(t, UpList(TRUE)[k + 1]),
         SelfThere(TRUE, k) => t.rucimp_self = SelfAfter(TRUE, k)
  PROVE  Adds(t, After(t, UpList(TRUE)[k + 1]), TRUE, k + 1)
<1>1. CASE k = 0
  <2>1. k + 1 = 1
    BY <1>1
  <2>2. UpList(TRUE)[k + 1] = Cmd("set", "rule", "")
    BY <2>1, UpCmdsUdp, Zenon
  <2>3. PICK u : u = After(t, Cmd("set", "rule", ""))
    OBVIOUS
  <2>4. Works(t, Cmd("set", "rule", ""))
    BY <2>2
  <2>5. Beside(t, u)
    BY <2>3, <2>4, UpSets
  <2>6. ~SelfThere(TRUE, 1)
    BY DEF SelfThere
  <2>7. Adds(t, u, TRUE, 1)
    BY <2>5, <2>6, BesideAdds
  <2>8. QED
    BY <2>1, <2>2, <2>3, <2>7
<1>2. CASE k = 1
  <2>1. k + 1 = 2
    BY <1>2
  <2>2. UpList(TRUE)[k + 1] = Cmd("set", "route", "")
    BY <2>1, UpCmdsUdp, Zenon
  <2>3. PICK u : u = After(t, Cmd("set", "route", ""))
    OBVIOUS
  <2>4. Works(t, Cmd("set", "route", ""))
    BY <2>2
  <2>5. Beside(t, u)
    BY <2>3, <2>4, UpSets
  <2>6. ~SelfThere(TRUE, 2)
    BY DEF SelfThere
  <2>7. Adds(t, u, TRUE, 2)
    BY <2>5, <2>6, BesideAdds
  <2>8. QED
    BY <2>1, <2>2, <2>3, <2>7
<1>3. CASE k = 2
  <2>1. k + 1 = 3
    BY <1>3
  <2>2. UpList(TRUE)[k + 1] = Cmd("chain", "rucimp", "")
    BY <2>1, UpCmdsUdp, Zenon
  <2>3. PICK u : u = After(t, Cmd("chain", "rucimp", ""))
    OBVIOUS
  <2>4. Works(t, Cmd("chain", "rucimp", ""))
    BY <2>2
  <2>5. Beside(t, u)
    BY <2>3, <2>4, UpChain
  <2>6. ~SelfThere(TRUE, 3)
    BY DEF SelfThere
  <2>7. Adds(t, u, TRUE, 3)
    BY <2>5, <2>6, BesideAdds
  <2>8. QED
    BY <2>1, <2>2, <2>3, <2>7
<1>4. CASE k = 3
  <2>1. k + 1 = 4
    BY <1>4
  <2>2. UpList(TRUE)[k + 1] = Cmd("append", "rucimp", "tproxy_tcp")
    BY <2>1, UpCmdsUdp, Zenon
  <2>3. PICK u : u = After(t, Cmd("append", "rucimp", "tproxy_tcp"))
    OBVIOUS
  <2>4. Works(t, Cmd("append", "rucimp", "tproxy_tcp"))
    BY <2>2
  <2>5. Beside(t, u)
    BY <2>3, <2>4, UpTproxy
  <2>6. ~SelfThere(TRUE, 4)
    BY DEF SelfThere
  <2>7. Adds(t, u, TRUE, 4)
    BY <2>5, <2>6, BesideAdds
  <2>8. QED
    BY <2>1, <2>2, <2>3, <2>7
<1>5. CASE k = 4
  <2>1. k + 1 = 5
    BY <1>5
  <2>2. UpList(TRUE)[k + 1] = Cmd("append", "rucimp", "tproxy_udp")
    BY <2>1, UpCmdsUdp, Zenon
  <2>3. PICK u : u = After(t, Cmd("append", "rucimp", "tproxy_udp"))
    OBVIOUS
  <2>4. Works(t, Cmd("append", "rucimp", "tproxy_udp"))
    BY <2>2
  <2>5. Beside(t, u)
    BY <2>3, <2>4, UpTproxy
  <2>6. ~SelfThere(TRUE, 5)
    BY DEF SelfThere
  <2>7. Adds(t, u, TRUE, 5)
    BY <2>5, <2>6, BesideAdds
  <2>8. QED
    BY <2>1, <2>2, <2>3, <2>7
<1>6. CASE k = 5
  <2>1. k + 1 = 6
    BY <1>6
  <2>2. UpList(TRUE)[k + 1] = Cmd("set", "pre", "rucimp")
    BY <2>1, UpCmdsUdp, Zenon
  <2>3. PICK u : u = After(t, Cmd("set", "pre", "rucimp"))
    OBVIOUS
  <2>4. Works(t, Cmd("set", "pre", "rucimp"))
    BY <2>2
  <2>5. Beside(t, u)
    BY <2>3, <2>4, UpSets
  <2>6. ~SelfThere(TRUE, 6)
    BY DEF SelfThere
  <2>7. Adds(t, u, TRUE, 6)
    BY <2>5, <2>6, BesideAdds
  <2>8. QED
    BY <2>1, <2>2, <2>3, <2>7
<1>7. CASE k = 6
  <2>1. k + 1 = 7
    BY <1>7
  <2>2. UpList(TRUE)[k + 1] = Cmd("chain", "rucimp_self", "")
    BY <2>1, UpCmdsUdp, Zenon
  <2>3. PICK u : u = After(t, Cmd("chain", "rucimp_self", ""))
    OBVIOUS
  <2>4. Works(t, Cmd("chain", "rucimp_self", ""))
    BY <2>2
  <2>5. TableOK(u) /\ u.rucimp_self = <<>>
    BY <2>3, <2>4, UpSelf
  <2>6. SelfAfter(TRUE, 7) = <<>>
    BY DEF SelfAfter
  <2>7. Adds(t, u, TRUE, 7)
    BY <2>5, <2>6, OwnFirst, UnmarkedAdds
  <2>8. QED
    BY <2>1, <2>2, <2>3, <2>7
<1>8. CASE k = 7
  <2>1. k + 1 = 8
    BY <1>8
  <2>2. UpList(TRUE)[k + 1] = Cmd("append", "rucimp_self", "own")
    BY <2>1, UpCmdsUdp, Zenon
  <2>3. PICK u : u = After(t, Cmd("append", "rucimp_self", "own"))
    OBVIOUS
  <2>4. Works(t, Cmd("append", "rucimp_self", "own"))
    BY <2>2
  <2>5. SelfThere(TRUE, 7) /\ SelfAfter(TRUE, 7) = <<>> /\ SelfAfter(TRUE, 8) = <<"own">>
    BY DEF SelfThere, SelfAfter
  <2>6. t.rucimp_self = <<>>
    BY <1>8, <2>5
  <2>7. TableOK(u) /\ u.rucimp_self = <<"own">>
    <3>1. PICK s : s = <<"own">>
      OBVIOUS
    <3>2. Append(t.rucimp_self, "own") = s
      BY <2>6, <3>1, OwnFirst, Zenon
    <3>3. s \in Seq(Selfs) /\ NoTwice(s)
      BY <3>1, OwnFirst, Zenon
    <3>4. "own" \in Selfs
      BY DEF Selfs
    <3>5. TableOK(u) /\ u.rucimp_self = s
      BY <2>3, <2>4, <3>2, <3>3, <3>4, UpMark
    <3>6. QED
      BY <3>1, <3>5, Zenon
  <2>8. Adds(t, u, TRUE, 8)
    BY <2>5, <2>7, OwnFirst, UnmarkedAdds
  <2>9. QED
    BY <2>1, <2>2, <2>3, <2>8
<1>9. CASE k = 8
  <2>1. k + 1 = 9
    BY <1>9
  <2>2. UpList(TRUE)[k + 1] = Cmd("append", "rucimp_self", "mark_tcp")
    BY <2>1, UpCmdsUdp, Zenon
  <2>3. PICK u : u = After(t, Cmd("append", "rucimp_self", "mark_tcp"))
    OBVIOUS
  <2>4. Works(t, Cmd("append", "rucimp_self", "mark_tcp"))
    BY <2>2
  <2>5. SelfThere(TRUE, 8) /\ SelfAfter(TRUE, 8) = <<"own">> /\ SelfAfter(TRUE, 9) = <<"own", "mark_tcp">>
    BY DEF SelfThere, SelfAfter
  <2>6. t.rucimp_self = <<"own">>
    BY <1>9, <2>5
  <2>7. TableOK(u) /\ u.rucimp_self = <<"own", "mark_tcp">>
    <3>1. PICK s : s = <<"own", "mark_tcp">>
      OBVIOUS
    <3>2. Append(t.rucimp_self, "mark_tcp") = s
      BY <2>6, <3>1, OwnFirst, Zenon
    <3>3. s \in Seq(Selfs) /\ NoTwice(s)
      BY <3>1, OwnFirst, Zenon
    <3>4. "mark_tcp" \in Selfs
      BY DEF Selfs
    <3>5. TableOK(u) /\ u.rucimp_self = s
      BY <2>3, <2>4, <3>2, <3>3, <3>4, UpMark
    <3>6. QED
      BY <3>1, <3>5, Zenon
  <2>8. Adds(t, u, TRUE, 9)
    BY <2>5, <2>7, OwnFirst, UnmarkedAdds
  <2>9. QED
    BY <2>1, <2>2, <2>3, <2>8
<1>10. CASE k = 9
  <2>1. k + 1 = 10
    BY <1>10
  <2>2. UpList(TRUE)[k + 1] = Cmd("append", "rucimp_self", "mark_udp")
    BY <2>1, UpCmdsUdp, Zenon
  <2>3. PICK u : u = After(t, Cmd("append", "rucimp_self", "mark_udp"))
    OBVIOUS
  <2>4. Works(t, Cmd("append", "rucimp_self", "mark_udp"))
    BY <2>2
  <2>5. SelfThere(TRUE, 9) /\ SelfAfter(TRUE, 9) = <<"own", "mark_tcp">> /\ SelfAfter(TRUE, 10) = <<"own", "mark_tcp", "mark_udp">>
    BY DEF SelfThere, SelfAfter
  <2>6. t.rucimp_self = <<"own", "mark_tcp">>
    BY <1>10, <2>5
  <2>7. TableOK(u) /\ u.rucimp_self = <<"own", "mark_tcp", "mark_udp">>
    <3>1. PICK s : s = <<"own", "mark_tcp", "mark_udp">>
      OBVIOUS
    <3>2. Append(t.rucimp_self, "mark_udp") = s
      BY <2>6, <3>1, OwnFirst, Zenon
    <3>3. s \in Seq(Selfs) /\ NoTwice(s)
      BY <3>1, OwnFirst, Zenon
    <3>4. "mark_udp" \in Selfs
      BY DEF Selfs
    <3>5. TableOK(u) /\ u.rucimp_self = s
      BY <2>3, <2>4, <3>2, <3>3, <3>4, UpMark
    <3>6. QED
      BY <3>1, <3>5, Zenon
  <2>8. Adds(t, u, TRUE, 10)
    BY <2>5, <2>7, OwnFirst, UnmarkedAdds
  <2>9. QED
    BY <2>1, <2>2, <2>3, <2>8
<1>11. CASE k = 10
  <2>1. k + 1 = 11
    BY <1>11
  <2>2. UpList(TRUE)[k + 1] = Cmd("set", "out", "rucimp_self")
    BY <2>1, UpCmdsUdp, Zenon
  <2>3. PICK u : u = After(t, Cmd("set", "out", "rucimp_self"))
    OBVIOUS
  <2>4. Works(t, Cmd("set", "out", "rucimp_self"))
    BY <2>2
  <2>5. SelfThere(TRUE, 10) /\ SelfAfter(TRUE, 10) = <<"own", "mark_tcp", "mark_udp">> /\ ~SelfThere(TRUE, 11)
    BY DEF SelfThere, SelfAfter
  <2>6. t.rucimp_self = <<"own", "mark_tcp", "mark_udp">>
    BY <1>11, <2>5
  <2>7. TableOK(u) /\ u.rucimp_self = <<"own", "mark_tcp", "mark_udp">>
    BY <2>3, <2>6, UpOut
  <2>8. Adds(t, u, TRUE, 11)
    BY <2>5, <2>7, OwnFirst, UnmarkedAdds
  <2>9. QED
    BY <2>1, <2>2, <2>3, <2>8
<1>12. k = 0 \/ k = 1 \/ k = 2 \/ k = 3 \/ k = 4 \/ k = 5 \/ k = 6 \/ k = 7 \/ k = 8 \/ k = 9 \/ k = 10
  OBVIOUS
<1>13. QED
  BY <1>1, <1>2, <1>3, <1>4, <1>5, <1>6, <1>7, <1>8, <1>9, <1>10, <1>11, <1>12, Zenon

LEMMA UpStepTcp ==
  ASSUME NEW t, TableOK(t), NEW k \in 0..8, Works(t, UpList(FALSE)[k + 1]),
         SelfThere(FALSE, k) => t.rucimp_self = SelfAfter(FALSE, k)
  PROVE  Adds(t, After(t, UpList(FALSE)[k + 1]), FALSE, k + 1)
<1>1. CASE k = 0
  <2>1. k + 1 = 1
    BY <1>1
  <2>2. UpList(FALSE)[k + 1] = Cmd("set", "rule", "")
    BY <2>1, UpCmdsTcp, Zenon
  <2>3. PICK u : u = After(t, Cmd("set", "rule", ""))
    OBVIOUS
  <2>4. Works(t, Cmd("set", "rule", ""))
    BY <2>2
  <2>5. Beside(t, u)
    BY <2>3, <2>4, UpSets
  <2>6. ~SelfThere(FALSE, 1)
    BY DEF SelfThere
  <2>7. Adds(t, u, FALSE, 1)
    BY <2>5, <2>6, BesideAdds
  <2>8. QED
    BY <2>1, <2>2, <2>3, <2>7
<1>2. CASE k = 1
  <2>1. k + 1 = 2
    BY <1>2
  <2>2. UpList(FALSE)[k + 1] = Cmd("set", "route", "")
    BY <2>1, UpCmdsTcp, Zenon
  <2>3. PICK u : u = After(t, Cmd("set", "route", ""))
    OBVIOUS
  <2>4. Works(t, Cmd("set", "route", ""))
    BY <2>2
  <2>5. Beside(t, u)
    BY <2>3, <2>4, UpSets
  <2>6. ~SelfThere(FALSE, 2)
    BY DEF SelfThere
  <2>7. Adds(t, u, FALSE, 2)
    BY <2>5, <2>6, BesideAdds
  <2>8. QED
    BY <2>1, <2>2, <2>3, <2>7
<1>3. CASE k = 2
  <2>1. k + 1 = 3
    BY <1>3
  <2>2. UpList(FALSE)[k + 1] = Cmd("chain", "rucimp", "")
    BY <2>1, UpCmdsTcp, Zenon
  <2>3. PICK u : u = After(t, Cmd("chain", "rucimp", ""))
    OBVIOUS
  <2>4. Works(t, Cmd("chain", "rucimp", ""))
    BY <2>2
  <2>5. Beside(t, u)
    BY <2>3, <2>4, UpChain
  <2>6. ~SelfThere(FALSE, 3)
    BY DEF SelfThere
  <2>7. Adds(t, u, FALSE, 3)
    BY <2>5, <2>6, BesideAdds
  <2>8. QED
    BY <2>1, <2>2, <2>3, <2>7
<1>4. CASE k = 3
  <2>1. k + 1 = 4
    BY <1>4
  <2>2. UpList(FALSE)[k + 1] = Cmd("append", "rucimp", "tproxy_tcp")
    BY <2>1, UpCmdsTcp, Zenon
  <2>3. PICK u : u = After(t, Cmd("append", "rucimp", "tproxy_tcp"))
    OBVIOUS
  <2>4. Works(t, Cmd("append", "rucimp", "tproxy_tcp"))
    BY <2>2
  <2>5. Beside(t, u)
    BY <2>3, <2>4, UpTproxy
  <2>6. ~SelfThere(FALSE, 4)
    BY DEF SelfThere
  <2>7. Adds(t, u, FALSE, 4)
    BY <2>5, <2>6, BesideAdds
  <2>8. QED
    BY <2>1, <2>2, <2>3, <2>7
<1>5. CASE k = 4
  <2>1. k + 1 = 5
    BY <1>5
  <2>2. UpList(FALSE)[k + 1] = Cmd("set", "pre", "rucimp")
    BY <2>1, UpCmdsTcp, Zenon
  <2>3. PICK u : u = After(t, Cmd("set", "pre", "rucimp"))
    OBVIOUS
  <2>4. Works(t, Cmd("set", "pre", "rucimp"))
    BY <2>2
  <2>5. Beside(t, u)
    BY <2>3, <2>4, UpSets
  <2>6. ~SelfThere(FALSE, 5)
    BY DEF SelfThere
  <2>7. Adds(t, u, FALSE, 5)
    BY <2>5, <2>6, BesideAdds
  <2>8. QED
    BY <2>1, <2>2, <2>3, <2>7
<1>6. CASE k = 5
  <2>1. k + 1 = 6
    BY <1>6
  <2>2. UpList(FALSE)[k + 1] = Cmd("chain", "rucimp_self", "")
    BY <2>1, UpCmdsTcp, Zenon
  <2>3. PICK u : u = After(t, Cmd("chain", "rucimp_self", ""))
    OBVIOUS
  <2>4. Works(t, Cmd("chain", "rucimp_self", ""))
    BY <2>2
  <2>5. TableOK(u) /\ u.rucimp_self = <<>>
    BY <2>3, <2>4, UpSelf
  <2>6. SelfAfter(FALSE, 6) = <<>>
    BY DEF SelfAfter
  <2>7. Adds(t, u, FALSE, 6)
    BY <2>5, <2>6, OwnFirst, UnmarkedAdds
  <2>8. QED
    BY <2>1, <2>2, <2>3, <2>7
<1>7. CASE k = 6
  <2>1. k + 1 = 7
    BY <1>7
  <2>2. UpList(FALSE)[k + 1] = Cmd("append", "rucimp_self", "own")
    BY <2>1, UpCmdsTcp, Zenon
  <2>3. PICK u : u = After(t, Cmd("append", "rucimp_self", "own"))
    OBVIOUS
  <2>4. Works(t, Cmd("append", "rucimp_self", "own"))
    BY <2>2
  <2>5. SelfThere(FALSE, 6) /\ SelfAfter(FALSE, 6) = <<>> /\ SelfAfter(FALSE, 7) = <<"own">>
    BY DEF SelfThere, SelfAfter
  <2>6. t.rucimp_self = <<>>
    BY <1>7, <2>5
  <2>7. TableOK(u) /\ u.rucimp_self = <<"own">>
    <3>1. PICK s : s = <<"own">>
      OBVIOUS
    <3>2. Append(t.rucimp_self, "own") = s
      BY <2>6, <3>1, OwnFirst, Zenon
    <3>3. s \in Seq(Selfs) /\ NoTwice(s)
      BY <3>1, OwnFirst, Zenon
    <3>4. "own" \in Selfs
      BY DEF Selfs
    <3>5. TableOK(u) /\ u.rucimp_self = s
      BY <2>3, <2>4, <3>2, <3>3, <3>4, UpMark
    <3>6. QED
      BY <3>1, <3>5, Zenon
  <2>8. Adds(t, u, FALSE, 7)
    BY <2>5, <2>7, OwnFirst, UnmarkedAdds
  <2>9. QED
    BY <2>1, <2>2, <2>3, <2>8
<1>8. CASE k = 7
  <2>1. k + 1 = 8
    BY <1>8
  <2>2. UpList(FALSE)[k + 1] = Cmd("append", "rucimp_self", "mark_tcp")
    BY <2>1, UpCmdsTcp, Zenon
  <2>3. PICK u : u = After(t, Cmd("append", "rucimp_self", "mark_tcp"))
    OBVIOUS
  <2>4. Works(t, Cmd("append", "rucimp_self", "mark_tcp"))
    BY <2>2
  <2>5. SelfThere(FALSE, 7) /\ SelfAfter(FALSE, 7) = <<"own">> /\ SelfAfter(FALSE, 8) = <<"own", "mark_tcp">>
    BY DEF SelfThere, SelfAfter
  <2>6. t.rucimp_self = <<"own">>
    BY <1>8, <2>5
  <2>7. TableOK(u) /\ u.rucimp_self = <<"own", "mark_tcp">>
    <3>1. PICK s : s = <<"own", "mark_tcp">>
      OBVIOUS
    <3>2. Append(t.rucimp_self, "mark_tcp") = s
      BY <2>6, <3>1, OwnFirst, Zenon
    <3>3. s \in Seq(Selfs) /\ NoTwice(s)
      BY <3>1, OwnFirst, Zenon
    <3>4. "mark_tcp" \in Selfs
      BY DEF Selfs
    <3>5. TableOK(u) /\ u.rucimp_self = s
      BY <2>3, <2>4, <3>2, <3>3, <3>4, UpMark
    <3>6. QED
      BY <3>1, <3>5, Zenon
  <2>8. Adds(t, u, FALSE, 8)
    BY <2>5, <2>7, OwnFirst, UnmarkedAdds
  <2>9. QED
    BY <2>1, <2>2, <2>3, <2>8
<1>9. CASE k = 8
  <2>1. k + 1 = 9
    BY <1>9
  <2>2. UpList(FALSE)[k + 1] = Cmd("set", "out", "rucimp_self")
    BY <2>1, UpCmdsTcp, Zenon
  <2>3. PICK u : u = After(t, Cmd("set", "out", "rucimp_self"))
    OBVIOUS
  <2>4. Works(t, Cmd("set", "out", "rucimp_self"))
    BY <2>2
  <2>5. SelfThere(FALSE, 8) /\ SelfAfter(FALSE, 8) = <<"own", "mark_tcp">> /\ ~SelfThere(FALSE, 9)
    BY DEF SelfThere, SelfAfter
  <2>6. t.rucimp_self = <<"own", "mark_tcp">>
    BY <1>9, <2>5
  <2>7. TableOK(u) /\ u.rucimp_self = <<"own", "mark_tcp">>
    BY <2>3, <2>6, UpOut
  <2>8. Adds(t, u, FALSE, 9)
    BY <2>5, <2>7, OwnFirst, UnmarkedAdds
  <2>9. QED
    BY <2>1, <2>2, <2>3, <2>8
<1>10. k = 0 \/ k = 1 \/ k = 2 \/ k = 3 \/ k = 4 \/ k = 5 \/ k = 6 \/ k = 7 \/ k = 8
  OBVIOUS
<1>11. QED
  BY <1>1, <1>2, <1>3, <1>4, <1>5, <1>6, <1>7, <1>8, <1>9, <1>10, Zenon

-----------------------------------------------------------------------------
(* Steps *)

LEMMA DownRest ==
  ASSUME NEW k \in 0..13
  PROVE  /\ Rest(DownList, 0) = DownList
         /\ k = 13 <=> Rest(DownList, k) = <<>>
         /\ k # 13 => Head(Rest(DownList, k)) = DownList[k + 1] /\ Tail(Rest(DownList, k)) = Rest(DownList, k + 1)
<1>1. PICK d \in Seq(Cmds) : d = DownList /\ Len(d) = 13
  BY DownCmds
<1>2. k \in 0..Len(d)
  BY <1>1
<1>3. /\ Rest(d, 0) = d
      /\ k = Len(d) <=> Rest(d, k) = <<>>
      /\ k # Len(d) => Head(Rest(d, k)) = d[k + 1] /\ Tail(Rest(d, k)) = Rest(d, k + 1)
  BY <1>2, RestOfList, Zenon
<1>4. QED
  BY <1>1, <1>3

LEMMA UpRest ==
  ASSUME NEW udp \in BOOLEAN, NEW k \in 0..Len(UpList(udp)) - 1
  PROVE  /\ Rest(UpList(udp), 0) = UpList(udp) /\ Len(UpList(udp)) = IF udp THEN 11 ELSE 9
         /\ Head(Rest(UpList(udp), k)) = UpList(udp)[k + 1]
         /\ Tail(Rest(UpList(udp), k)) = Rest(UpList(udp), k + 1)
         /\ k + 1 = Len(UpList(udp)) => Rest(UpList(udp), k + 1) = <<>>
<1>1. UpList(udp) \in Seq(Cmds) /\ Len(UpList(udp)) = IF udp THEN 11 ELSE 9
  BY UpCmdsUdp, UpCmdsTcp
<1>2. PICK d \in Seq(Cmds) : d = UpList(udp) /\ Len(d) = IF udp THEN 11 ELSE 9
  BY <1>1
<1>3. k \in 0..Len(d) /\ k + 1 \in 0..Len(d) /\ k # Len(d)
  BY <1>2
<1>4. /\ Rest(d, 0) = d
      /\ k # Len(d) => Head(Rest(d, k)) = d[k + 1] /\ Tail(Rest(d, k)) = Rest(d, k + 1)
  BY <1>3, RestOfList, Zenon
<1>5. k + 1 = Len(d) <=> Rest(d, k + 1) = <<>>
  BY <1>3, RestOfList, Zenon
<1>6. QED
  BY <1>2, <1>3, <1>4, <1>5

LEMMA EmptyOK == TableOK(Empty) /\ ~Loop(Empty) /\ Empty \in Tables
<1>1. Empty \in Tables
  BY DEF Empty, Tables
<1>2. NoTwice(<<>>)
  BY DEF NoTwice
<1>3. TableOK(Empty)
  BY <1>1, <1>2 DEF TableOK, Empty
<1>4. ~Loop(Empty)
  BY DEF Loop, Empty
<1>5. QED
  BY <1>1, <1>3, <1>4

LEMMA RouteInitInv == RouteInit => RouteInv
<1> SUFFICES ASSUME RouteInit PROVE RouteInv
  OBVIOUS
<1>1. phase = "off" /\ fam = 4 /\ todo = <<>> /\ opts \in Opts /\ whole = TRUE /\ faults = 0
      /\ tables = [f \in Families |-> Empty]
  BY DEF RouteInit
<1>2. \A f \in Families : tables[f] = Empty
  BY <1>1
<1>3. tables \in [Families -> Tables]
  BY <1>1, EmptyOK
<1>4. RouteTypes
  BY <1>1, <1>3 DEF RouteTypes, Families
<1>5. Kept /\ Unlooped
  BY <1>2, EmptyOK DEF Kept, Unlooped
<1>6. Cleaned /\ Added /\ Idle
  BY <1>1 DEF Cleaned, Added, Idle
<1>7. QED
  BY <1>4, <1>5, <1>6 DEF RouteInv

\* A list begins.
LEMMA ListStarts ==
  ASSUME RouteInv, opts' \in Opts, faults' = faults, whole' = TRUE, tables' = tables, fam' \in Families,
         \/ phase' \in {"cleaning", "dropping"} /\ todo' = DownList
         \/ phase' = "adding" /\ todo' = UpList(opts'.udp) /\ (faults <= 2 => Tame(tables[fam']))
         \/ phase' \in {"off", "up"} /\ todo' = <<>>
  PROVE  RouteInv'
<1>1. RouteTypes'
  BY DEF RouteInv, RouteTypes
<1>2. Kept' /\ Unlooped'
  BY DEF RouteInv, Kept, Unlooped
<1>3. ASSUME phase' \in {"cleaning", "dropping"}, todo' = DownList PROVE CleanedTo(0)'
  <2>1. todo' = Rest(DownList, 0)
    BY <1>3, DownRest
  <2>2. faults \in Nat
    BY DEF RouteInv, RouteTypes
  <2>3. QED
    BY <2>1, <2>2, CountsStart DEF CleanedTo
<1>4. Cleaned'
  BY <1>3 DEF Cleaned
<1>5. ASSUME phase' = "adding", todo' = UpList(opts'.udp) PROVE AddedTo(0)' /\ 0 \in 0..Len(UpList(opts'.udp)) - 1
  <2>1. opts'.udp \in BOOLEAN
    BY OptsAssumption
  <2>2. Len(UpList(opts'.udp)) = IF opts'.udp THEN 11 ELSE 9
    BY <2>1, UpCmdsUdp, UpCmdsTcp
  <2>3. 0 \in 0..Len(UpList(opts'.udp)) - 1
    BY <2>1, <2>2
  <2>4. todo' = Rest(UpList(opts'.udp), 0)
    BY <1>5, <2>1, <2>3, UpRest
  <2>5. ~SelfThere(opts'.udp, 0)
    BY DEF SelfThere
  <2>6. AddedTo(0)'
    BY <2>4, <2>5 DEF AddedTo
  <2>7. QED
    BY <2>3, <2>6
<1>6. Added'
  BY <1>5 DEF Added
<1>7. Idle'
  BY DEF Idle
<1>8. QED
  BY <1>1, <1>2, <1>4, <1>6, <1>7 DEF RouteInv

\* A command of DownList is through.
LEMMA CleanedOn ==
  ASSUME RouteInv, phase \in {"cleaning", "dropping"}, phase' = phase, fam' = fam, opts' = opts,
         NEW k \in 0..12, todo' = Rest(DownList, k + 1), whole' \in BOOLEAN, faults' \in Nat, faults' >= faults,
         NEW u, tables' = [tables EXCEPT ![fam] = u], TableOK(u), faults' <= 2 => ~Loop(u),
         TurnsLeft(u, k + 1) <= faults', MarksLeft(u, k + 1) <= faults', whole' => Clean(u, k + 1)
  PROVE  RouteInv'
<1>1. fam \in Families /\ tables \in [Families -> Tables] /\ u \in Tables /\ faults \in Nat
  BY DEF RouteInv, RouteTypes, TableOK
<1>2. /\ tables' \in [Families -> Tables] /\ tables'[fam'] = u
      /\ \A f \in Families : tables'[f] = u \/ tables'[f] = tables[f]
  BY <1>1
<1>3. RouteTypes'
  BY <1>1, <1>2 DEF RouteInv, RouteTypes
<1>4. Kept'
  BY <1>2 DEF RouteInv, Kept
<1>5. Unlooped'
  BY <1>1, <1>2 DEF RouteInv, Unlooped
<1>6. CleanedTo(k + 1)'
  BY <1>2 DEF CleanedTo
<1>7. Cleaned'
  BY <1>6 DEF Cleaned
<1>8. Added' /\ Idle'
  BY DEF Added, Idle
<1>9. QED
  BY <1>3, <1>4, <1>5, <1>7, <1>8 DEF RouteInv

LEMMA CommandCleans ==
  ASSUME RouteInv, Command, phase # "adding"
  PROVE  RouteInv'
<1> DEFINE t == tables[fam]
<1>1. phase \in {"cleaning", "dropping"} /\ todo # <<>>
  BY DEF RouteInv, RouteTypes, Idle, Command
<1>2. fam \in Families /\ TableOK(t) /\ faults \in Nat /\ whole \in BOOLEAN /\ (faults <= 2 => ~Loop(t))
      /\ tables \in [Families -> Tables]
  BY DEF RouteInv, RouteTypes, Kept, Unlooped
<1>3. PICK k \in 0..13 : CleanedTo(k)
  BY <1>1 DEF RouteInv, Cleaned
<1>4. todo = Rest(DownList, k) /\ TurnsLeft(t, k) <= faults /\ MarksLeft(t, k) <= faults /\ (whole => Clean(t, k))
  BY <1>3 DEF CleanedTo
<1>5. k \in 0..12 /\ Head(todo) = DownList[k + 1] /\ Tail(todo) = Rest(DownList, k + 1)
  <2>1. k \in 0..13
    BY <1>3
  <2>2. /\ k = 13 <=> Rest(DownList, k) = <<>>
        /\ k # 13 => Head(Rest(DownList, k)) = DownList[k + 1] /\ Tail(Rest(DownList, k)) = Rest(DownList, k + 1)
    BY <2>1, DownRest
  <2>3. k # 13
    BY <1>1, <1>4, <2>2
  <2>4. k \in 0..12
    BY <2>1, <2>3
  <2>5. QED
    BY <1>4, <2>2, <2>3, <2>4
<1> DEFINE c == DownList[k + 1]
<1>6. /\ phase' = phase /\ fam' = fam /\ opts' = opts /\ todo' = Rest(DownList, k + 1)
      /\ \/ Works(t, c) /\ tables' = [tables EXCEPT ![fam] = After(t, c)] /\ whole' = whole /\ faults' = faults
         \/ ~Works(t, c) /\ tables' = tables /\ whole' = whole /\ faults' = faults
         \/ Works(t, c) /\ tables' = tables /\ whole' = FALSE /\ faults' = faults + 1
  BY <1>1, <1>5 DEF Command, Enter
<1>7. tables = [tables EXCEPT ![fam] = t]
  BY <1>2
<1>8. /\ Works(t, c) => Undoes(t, After(t, c), k + 1)
      /\ ~Works(t, c) /\ Clean(t, k) => Gone(t, k + 1)
      /\ ~Works(t, c) /\ k # 10 /\ k # 12 => Gone(t, k + 1)
  BY <1>2, <1>5, DownStep
<1>9. k + 1 \in 1..13 /\ (k + 1) - 1 = k
  BY <1>5
<1>10. /\ TurnsLeft(t, k + 1) <= TurnsLeft(t, k) + 1 /\ MarksLeft(t, k + 1) <= MarksLeft(t, k) + 1
       /\ k + 1 \in {11, 13} => TurnsLeft(t, k + 1) = TurnsLeft(t, k) /\ MarksLeft(t, k + 1) = MarksLeft(t, k)
       /\ TurnsLeft(t, k + 1) \in Nat /\ MarksLeft(t, k + 1) \in Nat
  BY <1>9, CountsFault
<1> HIDE DEF c, t
<1>11. TurnsLeft(t, k) \in Nat /\ MarksLeft(t, k) \in Nat
  BY DEF TurnsLeft, MarksLeft, One
<1>12. CASE Works(t, c) /\ tables' = [tables EXCEPT ![fam] = After(t, c)] /\ whole' = whole /\ faults' = faults
  <2>1. PICK u : u = After(t, c)
    OBVIOUS
  <2>2. TableOK(u) /\ Gone(u, k + 1) /\ NoMore(t, u) /\ (Marked(u.rucimp_self) => Marked(t.rucimp_self) \/ k + 1 = 6)
    BY <1>8, <1>12, <2>1 DEF Undoes
  <2>3. TurnsLeft(u, k + 1) <= TurnsLeft(t, k) /\ MarksLeft(u, k + 1) <= MarksLeft(t, k)
    BY <1>9, <2>2, CountsOver
  <2>4. TurnsLeft(u, k + 1) \in Nat /\ MarksLeft(u, k + 1) \in Nat
    BY <1>9, CountsFault
  <2>5. TurnsLeft(u, k + 1) <= faults' /\ MarksLeft(u, k + 1) <= faults'
    BY <1>2, <1>4, <1>11, <1>12, <2>3, <2>4
  <2>6. whole' => Clean(u, k + 1)
    BY <1>4, <1>9, <1>12, <2>2, CleanOver
  <2>7. ASSUME faults' <= 2, Loop(u) PROVE FALSE
    <3>1. u.rule /\ u.route /\ u.pre /\ Marked(u.rucimp_self)
      BY <2>7 DEF Loop
    <3>2. CASE k + 1 = 6
      <4>1. TurnsLeft(u, k + 1) = 3
        BY <3>1, <3>2, ThreeTurns
      <4>2. QED
        BY <1>2, <1>12, <2>5, <2>7, <4>1
    <3>3. CASE k + 1 # 6
      <4>1. Loop(t)
        BY <2>2, <2>7, <3>3 DEF Loop, NoMore
      <4>2. QED
        BY <1>2, <1>12, <2>7, <4>1 DEF t
    <3>4. QED
      BY <3>2, <3>3
  <2>8. tables' = [tables EXCEPT ![fam] = u] /\ whole' \in BOOLEAN /\ faults' \in Nat /\ faults' >= faults
    BY <1>2, <1>12, <2>1
  <2>9. QED
    BY <1>1, <1>5, <1>6, <2>2, <2>5, <2>6, <2>7, <2>8, CleanedOn
<1>13. CASE ~Works(t, c) /\ tables' = tables /\ whole' = whole /\ faults' = faults
  <2>1. k # 10 /\ k # 12 => TurnsLeft(t, k + 1) <= TurnsLeft(t, k) /\ MarksLeft(t, k + 1) <= MarksLeft(t, k)
    BY <1>8, <1>9, <1>13, MoreIsNoMore, CountsOver
  <2>2. TurnsLeft(t, k + 1) <= TurnsLeft(t, k) /\ MarksLeft(t, k + 1) <= MarksLeft(t, k)
    BY <1>5, <1>10, <1>11, <2>1
  <2>3. TurnsLeft(t, k + 1) <= faults' /\ MarksLeft(t, k + 1) <= faults'
    BY <1>2, <1>4, <1>10, <1>11, <1>13, <2>2 DEF t
  <2>4. whole' => Clean(t, k + 1)
    BY <1>4, <1>8, <1>9, <1>13, MoreIsNoMore, CleanOver DEF t
  <2>5. /\ tables' = [tables EXCEPT ![fam] = t] /\ whole' \in BOOLEAN /\ faults' \in Nat /\ faults' >= faults
        /\ TableOK(t) /\ (faults' <= 2 => ~Loop(t))
    BY <1>2, <1>7, <1>13 DEF t
  <2>6. QED
    BY <1>1, <1>5, <1>6, <2>3, <2>4, <2>5, CleanedOn
<1>14. CASE Works(t, c) /\ tables' = tables /\ whole' = FALSE /\ faults' = faults + 1
  <2>1. TurnsLeft(t, k + 1) <= faults' /\ MarksLeft(t, k + 1) <= faults'
    BY <1>2, <1>4, <1>10, <1>11, <1>14 DEF t
  <2>a. ~whole' /\ whole' \in BOOLEAN
    BY <1>14
  <2>2. faults' \in Nat /\ faults' >= faults /\ (faults' <= 2 => faults <= 2)
    BY <1>2, <1>14
  <2>3. tables' = [tables EXCEPT ![fam] = t]
    BY <1>7, <1>14
  <2>4. TableOK(t) /\ (faults' <= 2 => ~Loop(t))
    BY <1>2, <2>2 DEF t
  <2>5. QED
    BY <1>1, <1>5, <1>6, <2>1, <2>a, <2>2, <2>3, <2>4, CleanedOn
<1>15. QED
  BY <1>6, <1>12, <1>13, <1>14 DEF t, c

LEMMA CommandAdds ==
  ASSUME RouteInv, Command, phase = "adding"
  PROVE  RouteInv'
<1> DEFINE t == tables[fam]
           L == UpList(opts.udp)
<1>1. todo # <<>>
  BY DEF Command
<1>2. fam \in Families /\ TableOK(t) /\ faults \in Nat /\ whole \in BOOLEAN /\ opts \in Opts
      /\ tables \in [Families -> Tables]
  BY DEF RouteInv, RouteTypes, Kept
<1>3. opts.udp \in BOOLEAN
  BY <1>2, OptsAssumption
<1>4. faults <= 2 => Tame(t)
  BY DEF RouteInv, Added
<1>5. PICK k \in 0..Len(L) - 1 : AddedTo(k)
  BY <1>1 DEF RouteInv, Added
<1>6. todo = Rest(L, k) /\ (SelfThere(opts.udp, k) => t.rucimp_self = SelfAfter(opts.udp, k))
  BY <1>5 DEF AddedTo
<1>7. /\ Len(L) = IF opts.udp THEN 11 ELSE 9
      /\ Head(Rest(L, k)) = L[k + 1] /\ Tail(Rest(L, k)) = Rest(L, k + 1)
      /\ k + 1 = Len(L) => Rest(L, k + 1) = <<>>
  BY <1>3, <1>5, UpRest
<1> DEFINE c == L[k + 1]
<1>8. Head(todo) = c /\ Tail(todo) = Rest(L, k + 1)
  BY <1>6, <1>7
<1> HIDE DEF c, L
<1>9. /\ opts' = opts
      /\ \/ /\ Works(t, c) /\ tables' = [tables EXCEPT ![fam] = After(t, c)] /\ whole' = whole /\ faults' = faults
            /\ phase' = phase /\ fam' = fam /\ todo' = Rest(L, k + 1)
         \/ /\ tables' = tables /\ todo' = <<>> /\ fam' \in {4, fam}
            /\ phase' = "off" \/ (phase' = "adding" /\ fam' = fam)
            /\ \/ whole' = whole /\ faults' = faults
               \/ whole' = FALSE /\ faults' = faults + 1
  BY <1>8 DEF Command, Enter
<1>10. CASE /\ Works(t, c) /\ tables' = [tables EXCEPT ![fam] = After(t, c)] /\ whole' = whole /\ faults' = faults
            /\ phase' = phase /\ fam' = fam /\ todo' = Rest(L, k + 1)
  <2>1. PICK u : u = After(t, c)
    OBVIOUS
  <2>2. Adds(t, u, opts.udp, k + 1)
    <3>1. CASE opts.udp = TRUE
      <4>1. k \in 0..10
        BY <1>5, <1>7, <3>1 DEF L
      <4>2. QED
        BY <1>2, <1>6, <1>10, <2>1, <3>1, <4>1, UpStepUdp DEF c, L
    <3>2. CASE opts.udp = FALSE
      <4>1. k \in 0..8
        BY <1>5, <1>7, <3>2 DEF L
      <4>2. QED
        BY <1>2, <1>6, <1>10, <2>1, <3>2, <4>1, UpStepTcp DEF c, L
    <3>3. QED
      BY <1>3, <3>1, <3>2
  <2>3. TableOK(u) /\ u \in Tables /\ (Tame(t) => Tame(u))
        /\ (SelfThere(opts.udp, k + 1) => u.rucimp_self = SelfAfter(opts.udp, k + 1))
    BY <2>2 DEF Adds, TableOK
  <2>4. faults <= 2 => Tame(u) /\ ~Loop(u)
    BY <1>4, <2>3 DEF Tame, Loop
  <2>5. /\ tables' \in [Families -> Tables] /\ tables'[fam'] = u
        /\ \A f \in Families : tables'[f] = u \/ tables'[f] = tables[f]
    BY <1>2, <1>10, <2>1, <2>3
  <2>6. RouteTypes'
    BY <1>2, <1>9, <1>10, <2>5 DEF RouteTypes
  <2>7. Kept'
    BY <2>3, <2>5 DEF RouteInv, Kept
  <2>8. Unlooped'
    BY <1>10, <2>4, <2>5 DEF RouteInv, Unlooped
  <2>9. Cleaned' /\ Idle'
    BY <1>10 DEF Cleaned, Idle
  <2>10. Added'
    <3>1. CASE k + 1 = Len(L)
      BY <1>7, <1>10, <2>4, <2>5, <3>1 DEF Added
    <3>2. CASE k + 1 # Len(L)
      <4>1. k + 1 \in 0..Len(L) - 1
        BY <1>3, <1>5, <1>7, <3>2 DEF L
      <4>2. k + 1 \in 0..Len(UpList(opts'.udp)) - 1 /\ todo' = Rest(UpList(opts'.udp), k + 1)
        BY <1>9, <1>10, <4>1 DEF L
      <4>3. SelfThere(opts'.udp, k + 1) => tables'[fam'].rucimp_self = SelfAfter(opts'.udp, k + 1)
        BY <1>9, <2>3, <2>5
      <4>4. AddedTo(k + 1)'
        BY <4>2, <4>3 DEF AddedTo
      <4>5. QED
        BY <1>10, <2>4, <2>5, <4>2, <4>4 DEF Added
    <3>3. QED
      BY <3>1, <3>2
  <2>11. QED
    BY <2>6, <2>7, <2>8, <2>9, <2>10 DEF RouteInv
<1>11. CASE /\ tables' = tables /\ todo' = <<>> /\ fam' \in {4, fam}
            /\ phase' = "off" \/ (phase' = "adding" /\ fam' = fam)
            /\ \/ whole' = whole /\ faults' = faults
               \/ whole' = FALSE /\ faults' = faults + 1
  <2>1. faults' \in Nat /\ (faults' <= 2 => faults <= 2)
    BY <1>2, <1>11
  <2>2. whole' \in BOOLEAN /\ fam' \in Families /\ phase' \in {"off", "adding"}
    BY <1>2, <1>11 DEF Families
  <2>3. RouteTypes'
    BY <1>2, <1>9, <1>11, <2>1, <2>2 DEF RouteTypes
  <2>4. Kept' /\ Unlooped'
    BY <1>11, <2>1 DEF RouteInv, Kept, Unlooped
  <2>5. Cleaned' /\ Idle'
    BY <1>11, <2>2 DEF Cleaned, Idle
  <2>6. phase' = "adding" => fam' = fam /\ tables'[fam'] = t
    BY <1>11
  <2>7. Added'
    BY <1>4, <1>11, <2>1, <2>6 DEF Added
  <2>8. QED
    BY <2>3, <2>4, <2>5, <2>7 DEF RouteInv
<1>12. QED
  BY <1>9, <1>10, <1>11

LEMMA Listing ==
  ASSUME RouteInv, NextList
  PROVE  RouteInv'
<1>1. /\ opts \in Opts /\ fam \in Families /\ TableOK(tables[fam]) /\ faults \in Nat
      /\ opts' = opts /\ tables' = tables /\ faults' = faults /\ whole' = TRUE /\ todo = <<>>
      /\ phase \in {"cleaning", "adding", "dropping"}
  BY DEF RouteInv, RouteTypes, Kept, NextList
<1>2. opts.v6 \in BOOLEAN
  BY <1>1, OptsAssumption
<1>3. CASE phase = "cleaning"
  <2>1. Enter("adding", fam, UpList(opts.udp))
    BY <1>3 DEF NextList
  <2>2. PICK k \in 0..13 : CleanedTo(k)
    BY <1>3 DEF RouteInv, Cleaned
  <2>3. k = 13
    BY <1>1, <2>2, DownRest DEF CleanedTo
  <2>4. MarksLeft(tables[fam], 13) <= faults
    BY <2>2, <2>3 DEF CleanedTo
  <2>5. MarksLeft(tables[fam], 13) \in Nat
    BY CountsFault
  <2>6. faults <= 2 => Tame(tables[fam])
    BY <1>1, <2>4, <2>5, ThreeMarks
  <2>7. phase' = "adding" /\ fam' = fam /\ todo' = UpList(opts'.udp)
    BY <1>1, <2>1 DEF Enter
  <2>8. QED
    BY <1>1, <2>6, <2>7, ListStarts
<1>4. CASE phase = "adding" /\ fam = 4 /\ opts.v6
  <2>1. Enter("cleaning", 6, DownList)
    BY <1>4 DEF NextList
  <2>2. QED
    BY <1>1, <2>1, ListStarts DEF Enter, Families
<1>5. CASE phase = "adding" /\ (fam = 6 \/ ~opts.v6)
  <2>1. Enter("up", 4, <<>>)
    <3>1. ~(fam = 4 /\ opts.v6)
      BY <1>5
    <3>2. QED
      BY <1>5, <3>1 DEF NextList
  <2>2. QED
    BY <1>1, <2>1, ListStarts DEF Enter, Families
<1>6. CASE phase = "dropping" /\ fam = 4 /\ opts.v6
  <2>1. Enter("dropping", 6, DownList)
    BY <1>6 DEF NextList
  <2>2. QED
    BY <1>1, <2>1, ListStarts DEF Enter, Families
<1>7. CASE phase = "dropping" /\ (fam = 6 \/ ~opts.v6)
  <2>1. Enter("off", 4, <<>>)
    <3>1. ~(fam = 4 /\ opts.v6)
      BY <1>7
    <3>2. QED
      BY <1>7, <3>1 DEF NextList
  <2>2. QED
    BY <1>1, <2>1, ListStarts DEF Enter, Families
<1>8. QED
  BY <1>1, <1>2, <1>3, <1>4, <1>5, <1>6, <1>7 DEF Families

\* The inductive step, of a new process, of one that goes and of one that is killed too.
LEMMA RouteStep ==
  RouteInv /\ (RouteNext \/ DropResolver \/ Killed \/ UNCHANGED routeVars) => RouteInv'
<1> SUFFICES ASSUME RouteInv, RouteNext \/ DropResolver \/ Killed \/ UNCHANGED routeVars PROVE RouteInv'
  OBVIOUS
<1>1. CASE New
  BY <1>1, ListStarts DEF New, Enter, Families
<1>2. CASE Command
  BY <1>2, CommandCleans, CommandAdds
<1>3. CASE NextList
  BY <1>3, Listing
<1>4. CASE DropResolver
  <2>1. opts' \in Opts
    BY <1>4 DEF DropResolver, RouteInv, RouteTypes
  <2>2. QED
    BY <1>4, <2>1, ListStarts DEF DropResolver, Enter, Families
<1>5. CASE Killed
  <2>1. opts' \in Opts
    BY <1>5 DEF Killed, RouteInv, RouteTypes
  <2>2. QED
    BY <1>5, <2>1, ListStarts DEF Killed, Enter, Families
<1>6. CASE UNCHANGED routeVars
  BY <1>6 DEF routeVars, RouteInv, RouteTypes, Kept, Unlooped, Cleaned, CleanedTo, Added, AddedTo, Idle
<1>7. QED
  BY <1>1, <1>2, <1>3, <1>4, <1>5, <1>6 DEF RouteNext

LEMMA InvRestores == RouteInv => ListRestores
<1> SUFFICES ASSUME RouteInv, phase \in {"cleaning", "dropping"}, todo = <<>>, whole PROVE tables[fam] = Empty
  BY DEF ListRestores
<1> DEFINE t == tables[fam]
<1>1. TableOK(t)
  BY DEF RouteInv, RouteTypes, Kept
<1>2. PICK k \in 0..13 : CleanedTo(k)
  BY DEF RouteInv, Cleaned
<1>3. k = 13
  BY <1>2, DownRest DEF CleanedTo
<1>4. Clean(t, 13)
  BY <1>2, <1>3 DEF CleanedTo
<1>5. /\ ~t.rule /\ ~t.route /\ ~t.pre /\ ~t.out /\ t.rucimp = <<>> /\ t.rucimp_self = <<>>
      /\ "rucimp" \notin t.chains /\ "rucimp_self" \notin t.chains
  BY <1>4 DEF Clean
<1>6. t \in Tables
  BY <1>1 DEF TableOK
<1>7. t.chains = {} /\ t.rule = FALSE /\ t.route = FALSE /\ t.pre = FALSE /\ t.out = FALSE
  BY <1>5, <1>6 DEF Tables
<1>8. t = [rule |-> t.rule, route |-> t.route, pre |-> t.pre, out |-> t.out,
           rucimp |-> t.rucimp, rucimp_self |-> t.rucimp_self, chains |-> t.chains]
  BY <1>6 DEF Tables
<1>9. QED
  BY <1>5, <1>7, <1>8 DEF Empty

LEMMA InvNeverLoops == RouteInv => (faults <= 2 => OwnTrafficNeverLoops)
<1> SUFFICES ASSUME RouteInv, faults <= 2, NEW f \in Families
             PROVE  LET t == tables[f]
                    IN  ~(t.out /\ t.rule /\ t.route /\ t.rucimp # <<>> /\ t.pre /\ Marks(t) # {})
  BY DEF OwnTrafficNeverLoops
<1> DEFINE t == tables[f]
<1>1. t \in Tables /\ ~Loop(t)
  BY DEF RouteInv, RouteTypes, Unlooped
<1>2. Marks(t) # {} <=> Marked(t.rucimp_self)
  BY <1>1, FirstMarks
<1>3. QED
  BY <1>1, <1>2 DEF Loop

-----------------------------------------------------------------------------
(* What is not of an AutoRoute *)

\* What is not a step of an AutoRoute leaves its tables alone.
LEMMA StepsOfRoute ==
  [TproxyNext]_tvars => RouteNext \/ DropResolver \/ Killed \/ UNCHANGED routeVars
<1> SUFFICES ASSUME [TproxyNext]_tvars
             PROVE  RouteNext \/ DropResolver \/ Killed \/ UNCHANGED routeVars
  OBVIOUS
<1>1. CASE Routing
  BY <1>1 DEF Routing
<1>2. CASE Drops
  BY <1>2 DEF Drops
<1>3. CASE Dies
  BY <1>3 DEF Dies
<1>4. CASE Start
  BY <1>4 DEF Start
<1>5. CASE Reading
  BY <1>5 DEF Reading, Recv
<1>6. CASE Tasks
  <2>1. CASE ThreadEnd
    BY <2>1 DEF ThreadEnd
  <2>2. CASE TakeKnown \/ \E c \in AddrConns : TakeNew(c)
    BY <2>2 DEF TakeKnown, TakeNew, Take
  <2>3. CASE TaskSend \/ TaskOffer
    BY <2>3 DEF TaskSend, TaskOffer, Keep
  <2>4. CASE SendErrRemoves
    BY <2>4 DEF SendErrRemoves
  <2>5. CASE TaskOfferErr \/ TaskStop
    BY <2>5 DEF TaskOfferErr, TaskStop
  <2>6. CASE ListenerAccept \/ Pass \/ PassErr
    BY <2>6 DEF ListenerAccept, Pass, PassErr
  <2>7. CASE Shutdown
    BY <2>7 DEF Shutdown, Keep
  <2>8. CASE \E c \in AddrConns : Reader(c) \/ Writer(c) \/ Relaying(c)
    BY <2>8 DEF Reader, Writer, Relaying, Keep
  <2>9. QED
    BY <1>6, <2>1, <2>2, <2>3, <2>4, <2>5, <2>6, <2>7, <2>8 DEF Tasks
<1>7. CASE UNCHANGED tvars
  BY <1>7 DEF tvars
<1>8. QED
  BY <1>1, <1>2, <1>3, <1>4, <1>5, <1>6, <1>7 DEF TproxyNext

LEMMA RouteInvAlways == TproxySpec => []RouteInv
<1>1. TproxyInit => RouteInv
  BY RouteInitInv DEF TproxyInit
<1>2. RouteInv /\ [TproxyNext]_tvars => RouteInv'
  BY StepsOfRoute, RouteStep
<1>3. QED
  BY <1>1, <1>2, PTL DEF TproxySpec

\* down_auto_route leaves nothing of a family, whichever options were in force
\* before, however often a process was killed and wherever a list has ended,
\* unless a command of this very list fails of itself.
THEOREM RestoreCorrect == TproxySpec => []ListRestores
<1>1. RouteInv => ListRestores
  BY InvRestores
<1>2. QED
  BY <1>1, RouteInvAlways, PTL

\* What the proxy sends is not turned to it again, in any state between two
\* commands, as long as no more than two commands, of all processes so far,
\* have failed of themselves.  (Three are enough for a loop: when taking down the
\* mark, the jump and the rest of rucimp_self fails, only the exception before
\* the mark is gone, and the next run_auto_route closes the loop.)
THEOREM NoLoops == TproxySpec => [](faults <= 2 => OwnTrafficNeverLoops)
<1>1. RouteInv => (faults <= 2 => OwnTrafficNeverLoops)
  BY InvNeverLoops
<1>2. QED
  BY <1>1, RouteInvAlways, PTL

-----------------------------------------------------------------------------
(* The datagrams: the greatest length *)

\* A finite set of numbers has a greatest one, which is MTU for that of lengths:
\* the smallest of the sets of greater lengths is empty.
LEMMA LargestLen == MTU \in Lens /\ \A l \in Lens : l <= MTU
<1> DEFINE above(m) == {l \in Lens : l > m}
           family == {above(m) : m \in Lens}
<1>1. IsFiniteSet(Lens) /\ Lens # {} /\ Lens \subseteq Nat
  BY BufferAssumption
<1>2. family \subseteq FiniteSubsetsOf(Lens) /\ family # {}
  <2>1. \A m \in Lens : above(m) \in SUBSET Lens
    OBVIOUS
  <2>2. FiniteSubsetsOf(Lens) = SUBSET Lens
    BY <1>1, FS_FiniteSubsetsOfFinite
  <2>3. family \subseteq SUBSET Lens
    BY <2>1
  <2>4. PICK m \in Lens : TRUE
    BY <1>1
  <2>5. above(m) \in family
    OBVIOUS
  <2> QED
    BY <2>2, <2>3, <2>5
<1>3. PICK least \in family : \A x \in family : <<x, least>> \notin StrictSubsetOrdering(Lens)
  <2>1. IsWellFoundedOn(StrictSubsetOrdering(Lens), FiniteSubsetsOf(Lens))
    BY FS_StrictSubsetOrderingWellFounded
  <2> HIDE DEF family
  <2> QED
    BY <1>2, <2>1, WFMin
<1>4. PICK m \in Lens : least = above(m)
  OBVIOUS
<1>5. \A l \in Lens : l <= m
  <2> SUFFICES ASSUME NEW l \in Lens, ~(l <= m) PROVE FALSE
    OBVIOUS
  <2>1. l \in Nat /\ m \in Nat /\ l > m
    BY <1>1
  <2>2. l \in above(m) /\ l \notin above(l)
    BY <2>1
  <2>3. above(l) \subseteq above(m)
    <3> SUFFICES ASSUME NEW x \in Lens, x > l PROVE x > m
      OBVIOUS
    <3> QED
      BY <1>1, <2>1
  <2>4. <<above(l), above(m)>> \in StrictSubsetOrdering(Lens)
    BY <2>2, <2>3 DEF StrictSubsetOrdering
  <2> QED
    BY <1>3, <1>4, <2>4
<1> QED
  BY <1>5 DEF MTU

-----------------------------------------------------------------------------
(* Types *)

Msgs == [src : Srcs, n : 1..MaxSent, buf : {0, 1}, lb : Nat, rb : Nat, ok : BOOLEAN]

ListenerTypes ==
  /\ at \in {"recv", "send", "offer", "stopped"}
  /\ cur \in Datagrams \cup {None}
  /\ at \in {"send", "offer"} => cur \in Datagrams /\ conn_map[cur.src] # None
  /\ sent \in [Srcs -> 0..MaxSent]
  /\ conn_map \in [Srcs -> AddrConns \cup {None}]
  /\ queue \in Seq(AddrConns) /\ held \in AddrConns \cup {None}
ConnTypes ==
  /\ src \in [AddrConns -> Srcs \cup {None}] /\ stage \in [AddrConns -> Stages]
  /\ rx \in [AddrConns -> Seq(Datagrams)] /\ got \in [AddrConns -> Seq(Datagrams)]
  /\ DOMAIN up = AddrConns
ThreadTypes ==
  /\ thread \in {"off", "recv", "ended"}
  /\ pos \in {0, 1} \X (0..BufLen - MTU)
  /\ msgs \in Seq(Msgs) /\ Len(msgs) <= MsgCap
TTypes == ListenerTypes /\ ConnTypes /\ ThreadTypes

LEMMA EmptyTyped == <<>> \in Seq(Datagrams) /\ <<>> \in Seq(Msgs) /\ <<>> \in Seq(AddrConns)
  OBVIOUS

\* A process that has not listened yet.
Blank ==
  /\ at = "recv" /\ cur = None /\ queue = <<>>
  /\ sent = [s \in Srcs |-> 0] /\ conn_map = [s \in Srcs |-> None]
  /\ src = [c \in AddrConns |-> None] /\ stage = [c \in AddrConns |-> "unused"]
  /\ rx = [c \in AddrConns |-> <<>>] /\ got = [c \in AddrConns |-> <<>>]
  /\ up = [c \in AddrConns |-> "none"]
  /\ thread = "off" /\ pos = <<0, 0>> /\ msgs = <<>> /\ held = None

LEMMA InitBlank == TproxyInit => Blank
  BY DEF TproxyInit, Init, Blank

LEMMA ResetBlank == Reset => Blank'
  BY DEF Reset, Blank

LEMMA BlankTypes == Blank => TTypes
<1> SUFFICES ASSUME Blank PROVE TTypes
  OBVIOUS
<1>1. <<0, 0>> \in {0, 1} \X (0..BufLen - MTU) /\ Len(<<>>) <= MsgCap
  <2>1. MTU \in Nat /\ MsgCap \in Nat /\ BufLen \in Nat /\ BufLen >= MTU
    BY LargestLen, BufferAssumption
  <2> QED
    BY <2>1
<1>2. ListenerTypes
  BY EmptyTyped, BoundsAssumption DEF Blank, ListenerTypes
<1>3. ConnTypes
  BY EmptyTyped DEF Blank, ConnTypes, Stages
<1>4. ThreadTypes
  BY <1>1, EmptyTyped DEF Blank, ThreadTypes
<1> QED
  BY <1>2, <1>3, <1>4 DEF TTypes

\* What the queue is after the thread has read a datagram: what it was, but for
\* what was overwritten, and the new one behind it if the channel took it.
Reread(i, b, lb, rb) == [msgs[i] EXCEPT !.ok = @ /\ ~Overlap(msgs[i], b, lb, rb)]

LEMMA RereadType ==
  ASSUME msgs \in Seq(Msgs), NEW i \in DOMAIN msgs, NEW b, NEW lb, NEW rb
  PROVE  /\ Reread(i, b, lb, rb) \in Msgs
         /\ Reread(i, b, lb, rb).src = msgs[i].src /\ Reread(i, b, lb, rb).n = msgs[i].n
<1>1. msgs[i] \in Msgs
  OBVIOUS
<1>2. \A m \in Msgs : \A k \in BOOLEAN : [m EXCEPT !.ok = k] \in Msgs
                         /\ [m EXCEPT !.ok = k].src = m.src /\ [m EXCEPT !.ok = k].n = m.n
  BY DEF Msgs
<1>3. (msgs[i].ok /\ ~Overlap(msgs[i], b, lb, rb)) \in BOOLEAN
  OBVIOUS
<1>4. Reread(i, b, lb, rb) = [msgs[i] EXCEPT !.ok = msgs[i].ok /\ ~Overlap(msgs[i], b, lb, rb)]
  BY <1>1 DEF Reread, Msgs
<1> QED
  BY <1>1, <1>2, <1>3, <1>4

LEMMA AdvanceType ==
  ASSUME pos \in {0, 1} \X (0..BufLen - MTU), NEW len \in Lens
  PROVE  /\ Advance(pos[1], pos[2] + len) \in {0, 1} \X (0..BufLen - MTU)
         /\ pos[1] \in {0, 1} /\ pos[2] \in Nat /\ pos[2] + len \in Nat
<1>1. MTU \in Nat /\ len \in Nat /\ BufLen \in Nat /\ BufLen >= MTU
  BY LargestLen, BufferAssumption
<1>2. pos[1] \in {0, 1} /\ pos[2] \in 0..BufLen - MTU
  OBVIOUS
<1>3. pos[2] \in Nat /\ pos[2] + len \in Nat
  BY <1>1, <1>2
<1>4. CASE pos[2] + len + MTU > BufLen
  BY <1>1, <1>2, <1>3, <1>4 DEF Advance
<1>5. CASE ~(pos[2] + len + MTU > BufLen)
  <2>1. pos[2] + len \in 0..BufLen - MTU
    BY <1>1, <1>3, <1>5
  <2> QED
    BY <1>2, <1>3, <1>5, <2>1 DEF Advance
<1> QED
  BY <1>2, <1>3, <1>4, <1>5

LEMMA RecvShape ==
  ASSUME TTypes, NEW s \in Srcs, NEW len \in Lens, Recv(s, len)
  PROVE  /\ msgs' \in Seq(Msgs)
         /\ \A i \in 1..Len(msgs) : msgs'[i].src = msgs[i].src /\ msgs'[i].n = msgs[i].n
         /\ \/ Len(msgs') = Len(msgs) /\ sent' = sent /\ thread' = "ended"
            \/ /\ Len(msgs') = Len(msgs) + 1 /\ Len(msgs) < MsgCap /\ at # "stopped"
               /\ thread' = thread
               /\ sent' = [sent EXCEPT ![s] = @ + 1] /\ sent[s] + 1 \in 1..MaxSent
               /\ msgs'[Len(msgs) + 1].src = s /\ msgs'[Len(msgs) + 1].n = sent[s] + 1
<1> DEFINE b == pos[1]
           lb == pos[2]
           m == [src |-> s, n |-> sent[s] + 1, buf |-> b, lb |-> lb, rb |-> lb + len, ok |-> TRUE]
           old == [i \in DOMAIN msgs |-> Reread(i, b, lb, lb + len)]
<1>1. \/ msgs' = Append(old, m) /\ sent' = [sent EXCEPT ![s] = @ + 1]
         /\ thread' = thread /\ Len(msgs) < MsgCap /\ at # "stopped"
      \/ msgs' = old /\ thread' = "ended" /\ sent' = sent
  BY DEF Recv, Reread
<1>2. msgs \in Seq(Msgs) /\ Len(msgs) \in Nat /\ DOMAIN msgs = 1..Len(msgs)
  BY DEF TTypes, ThreadTypes
<1>3. \A i \in 1..Len(msgs) : /\ old[i] \in Msgs
                              /\ old[i].src = msgs[i].src /\ old[i].n = msgs[i].n
  BY <1>2, RereadType
<1>4. old \in Seq(Msgs) /\ Len(old) = Len(msgs)
  <2>1. old \in [1..Len(msgs) -> Msgs]
    BY <1>2, <1>3
  <2> HIDE DEF old
  <2> QED
    BY <1>2, <2>1
<1>5. sent[s] + 1 \in 1..MaxSent
  <2>1. sent[s] \in 0..MaxSent /\ MaxSent \in Nat /\ MaxSentAfter \in 0..MaxSent
    BY BoundsAssumption, BufferAssumption DEF TTypes, ListenerTypes
  <2>2. sent[s] < MaxSent \/ sent[s] < MaxSentAfter
    BY DEF Recv
  <2> QED
    BY <2>1, <2>2
<1>6. m \in Msgs /\ m.src = s /\ m.n = sent[s] + 1
  <2>1. pos \in {0, 1} \X (0..BufLen - MTU)
    BY DEF TTypes, ThreadTypes
  <2>2. b \in {0, 1} /\ lb \in Nat /\ lb + len \in Nat
    BY <2>1, AdvanceType
  <2> QED
    BY <1>5, <2>2 DEF Msgs
<1> HIDE DEF old, m
<1>7. /\ Append(old, m) \in Seq(Msgs) /\ Len(Append(old, m)) = Len(msgs) + 1
      /\ Append(old, m)[Len(msgs) + 1] = m
      /\ \A i \in 1..Len(msgs) : Append(old, m)[i] = old[i]
  BY <1>2, <1>4, <1>6, AppendLast
<1> QED
  BY <1>1, <1>3, <1>4, <1>5, <1>6, <1>7

LEMMA QueueTypes ==
  ASSUME NEW S, NEW q \in Seq(S), q # <<>>
  PROVE  /\ Head(q) \in S /\ Tail(q) \in Seq(S) /\ Len(Tail(q)) = Len(q) - 1 /\ Len(q) \in Nat
         /\ Head(q) = q[1] /\ 1 \in DOMAIN q /\ DOMAIN q = 1..Len(q)
         /\ \A i \in 1..Len(q) - 1 : Tail(q)[i] = q[i + 1] /\ i + 1 \in DOMAIN q
  OBVIOUS

LEMMA DropTypes ==
  ASSUME TTypes, NEW cs, Drop(cs), src' = src, got' = got
  PROVE  ConnTypes'
  BY EmptyTyped DEF TTypes, ConnTypes, Drop, Stages

LEMMA RecvTypes ==
  ASSUME TTypes, NEW s \in Srcs, NEW len \in Lens, Recv(s, len)
  PROVE  TTypes'
<1>1. pos' = Advance(pos[1], pos[2] + len) /\ pos \in {0, 1} \X (0..BufLen - MTU)
  BY DEF Recv, TTypes, ThreadTypes
<1>2. pos' \in {0, 1} \X (0..BufLen - MTU)
  BY <1>1, AdvanceType
<1>3. /\ msgs' \in Seq(Msgs) /\ Len(msgs') <= MsgCap
      /\ thread' \in {"off", "recv", "ended"}
  <2>1. Len(msgs) \in Nat /\ Len(msgs) <= MsgCap /\ thread \in {"off", "recv", "ended"}
    BY DEF TTypes, ThreadTypes
  <2> QED
    BY <2>1, RecvShape, BufferAssumption
<1>4. sent' \in [Srcs -> 0..MaxSent]
  <2>1. sent \in [Srcs -> 0..MaxSent] /\ MaxSent \in Nat
    BY BoundsAssumption DEF TTypes, ListenerTypes
  <2> QED
    BY <2>1, RecvShape
<1>5. ListenerTypes' /\ ConnTypes'
  BY <1>4 DEF Recv, TTypes, ListenerTypes, ConnTypes
<1> QED
  BY <1>2, <1>3, <1>5 DEF TTypes, ThreadTypes

\* What the task takes is the datagram at the head of the queue.
LEMMA TakeShape ==
  ASSUME TTypes, Take
  PROVE  /\ msgs \in Seq(Msgs) /\ msgs # <<>> /\ msgs' = Tail(msgs) /\ msgs' \in Seq(Msgs)
         /\ Len(msgs') <= MsgCap
         /\ cur' = [src |-> msgs[1].src, n |-> msgs[1].n] /\ cur' \in Datagrams
         /\ cur'.src = msgs[1].src /\ cur'.n = msgs[1].n
<1>1. msgs \in Seq(Msgs) /\ msgs # <<>> /\ msgs' = Tail(msgs) /\ cur' = Datagram(Head(msgs))
      /\ Len(msgs) <= MsgCap /\ MsgCap \in Nat
  BY BufferAssumption DEF Take, TTypes, ThreadTypes
<1>2. Head(msgs) = msgs[1] /\ msgs[1] \in Msgs /\ Tail(msgs) \in Seq(Msgs)
      /\ Len(Tail(msgs)) = Len(msgs) - 1 /\ Len(msgs) \in Nat
  BY <1>1, QueueTypes
<1>3. Len(msgs') <= MsgCap
  BY <1>1, <1>2
<1> QED
  BY <1>1, <1>2, <1>3 DEF Datagram, Datagrams, Msgs

LEMMA TaskTypes ==
  ASSUME TTypes,
         \/ TakeKnown \/ (\E c \in AddrConns : TakeNew(c)) \/ TaskSend \/ SendErrRemoves
         \/ TaskOffer \/ TaskOfferErr \/ TaskStop
  PROVE  TTypes'
<1>t. at \in {"send", "offer"} => cur \in Datagrams /\ cur.src \in Srcs /\ Target \in AddrConns
  BY DEF TTypes, ListenerTypes, Target, Datagrams
<1>1. CASE TakeKnown
  <2>1. Take /\ conn_map[cur'.src] # None /\ at' = "send"
        /\ UNCHANGED <<conn_map, src, stage, rx, got, up, sent, queue, held, thread, pos>>
    BY <1>1 DEF TakeKnown, Take, threadVars
  <2>2. cur' \in Datagrams /\ msgs' \in Seq(Msgs) /\ Len(msgs') <= MsgCap
    BY <2>1, TakeShape
  <2> QED
    BY <2>1, <2>2 DEF TTypes, ListenerTypes, ConnTypes, ThreadTypes
<1>2. ASSUME NEW c \in AddrConns, TakeNew(c) PROVE TTypes'
  <2>1. /\ Take /\ at' = "offer"
        /\ conn_map' = [conn_map EXCEPT ![cur'.src] = c] /\ src' = [src EXCEPT ![c] = cur'.src]
        /\ stage' = [stage EXCEPT ![c] = "queued"] /\ rx' = [rx EXCEPT ![c] = <<cur'>>]
        /\ up' = [up EXCEPT ![c] = "run"]
        /\ UNCHANGED <<got, sent, queue, held, thread, pos>>
    BY <1>2 DEF TakeNew, Take, threadVars
  <2>2. cur' \in Datagrams /\ msgs' \in Seq(Msgs) /\ Len(msgs') <= MsgCap
    BY <2>1, TakeShape
  <2>3. cur'.src \in Srcs /\ <<cur'>> \in Seq(Datagrams)
    BY <2>2 DEF Datagrams
  <2>4. ListenerTypes'
    BY <2>1, <2>2, <2>3, ConnsAssumption DEF TTypes, ListenerTypes
  <2>5. ConnTypes'
    BY <2>1, <2>3 DEF TTypes, ConnTypes, Stages
  <2> QED
    BY <2>1, <2>2, <2>4, <2>5 DEF TTypes, ThreadTypes
<1>3. CASE TaskSend
  <2>1. /\ at = "send" /\ at' = "recv" /\ cur' = None
        /\ rx' = [rx EXCEPT ![Target] = Append(@, cur)]
        /\ UNCHANGED <<sent, conn_map, queue, src, stage, got, up, thread, pos, msgs, held>>
    BY <1>3 DEF TaskSend, Keep, SendOk, tproxyVars
  <2>2. rx[Target] \in Seq(Datagrams) /\ cur \in Datagrams
    BY <1>t, <2>1 DEF TTypes, ConnTypes
  <2>3. Append(rx[Target], cur) \in Seq(Datagrams)
    BY <2>2
  <2> QED
    BY <2>1, <2>3 DEF TTypes, ListenerTypes, ConnTypes, ThreadTypes
<1>4. CASE SendErrRemoves
  BY <1>4 DEF SendErrRemoves, tproxyVars, TTypes, ListenerTypes, ConnTypes, ThreadTypes
<1>5. CASE TaskOffer
  <2>1. /\ at = "offer" /\ at' = "recv" /\ cur' = None /\ queue' = Append(queue, Target)
        /\ UNCHANGED <<sent, conn_map, src, stage, rx, got, up, thread, pos, msgs, held>>
    BY <1>5 DEF TaskOffer, Keep, OfferOk, tproxyVars
  <2>2. queue' \in Seq(AddrConns)
    BY <1>t, <2>1 DEF TTypes, ListenerTypes
  <2> QED
    BY <2>1, <2>2 DEF TTypes, ListenerTypes, ConnTypes, ThreadTypes
<1>6. CASE TaskOfferErr
  <2>1. /\ at' = "stopped" /\ cur' = None /\ msgs' = <<>> /\ Drop({Target})
        /\ UNCHANGED <<sent, conn_map, queue, src, got, thread, pos, held>>
    BY <1>6 DEF TaskOfferErr, OfferErr, threadVars
  <2>2. ConnTypes'
    BY <2>1, DropTypes
  <2>3. Len(<<>>) <= MsgCap
    BY BufferAssumption
  <2> QED
    BY <2>1, <2>2, <2>3, EmptyTyped DEF TTypes, ListenerTypes, ThreadTypes
<1>7. CASE TaskStop
  <2>1. /\ at' = "stopped" /\ msgs' = <<>>
        /\ UNCHANGED <<cur, sent, conn_map, queue, src, stage, rx, got, up, thread, pos, held>>
    BY <1>7 DEF TaskStop, Stop, threadVars
  <2>2. Len(<<>>) <= MsgCap
    BY BufferAssumption
  <2> QED
    BY <2>1, <2>2, EmptyTyped DEF TTypes, ListenerTypes, ConnTypes, ThreadTypes
<1> QED
  BY <1>1, <1>2, <1>3, <1>4, <1>5, <1>6, <1>7

LEMMA AcceptTypes ==
  ASSUME TTypes, ListenerAccept \/ Pass \/ PassErr \/ Shutdown
  PROVE  TTypes'
<1>1. CASE ListenerAccept
  <2>1. /\ queue # <<>> /\ held' = Head(queue) /\ queue' = Tail(queue)
        /\ UNCHANGED <<at, cur, sent, conn_map, src, stage, rx, got, up, thread, pos, msgs>>
    BY <1>1 DEF ListenerAccept, listenVars, threadVars
  <2>2. held' \in AddrConns /\ queue' \in Seq(AddrConns)
    BY <2>1, QueueTypes DEF TTypes, ListenerTypes
  <2> QED
    BY <2>1, <2>2 DEF TTypes, ListenerTypes, ConnTypes, ThreadTypes
<1>2. CASE Pass
  BY <1>2 DEF Pass, listenVars, threadVars, TTypes, ListenerTypes, ConnTypes, ThreadTypes, Stages
<1>3. ASSUME NEW cs, Drop(cs), queue' = <<>>, held' \in {held, None},
             UNCHANGED <<at, cur, sent, conn_map, src, got, thread, pos, msgs>>
      PROVE  TTypes'
  <2>1. ConnTypes'
    BY <1>3, DropTypes
  <2> QED
    BY <1>3, <2>1, EmptyTyped DEF TTypes, ListenerTypes, ThreadTypes
<1>4. CASE PassErr
  BY <1>3, <1>4 DEF PassErr, threadVars
<1>5. CASE Shutdown
  BY <1>3, <1>5 DEF Shutdown, Keep, DropListener, tproxyVars
<1> QED
  BY <1>1, <1>2, <1>4, <1>5

LEMMA ConnStepTypes ==
  ASSUME TTypes, NEW c \in AddrConns, Reader(c) \/ Writer(c) \/ Relaying(c)
  PROVE  TTypes'
<1>k. UNCHANGED <<at, cur, sent, queue, src, thread, pos, msgs, held>>
  BY DEF Reader, Writer, Relaying, Keep, Read, Close, ClosePending, SelectNone,
         StartRelay, EarlyWritten, EarlyFail, Wrote, MixedEnd, UpEnd, DownEnd, CpNotice, FarEndWakes, DialFail, listenVars, tproxyVars
<1>1. ASSUME ConnTypes', conn_map' \in [Srcs -> AddrConns \cup {None}],
             at \in {"send", "offer"} => conn_map' = conn_map
      PROVE  TTypes'
  BY <1>1, <1>k DEF TTypes, ListenerTypes, ThreadTypes
<1>2. CASE Reader(c)
  <2>1. /\ rx[c] # <<>> /\ got' = [got EXCEPT ![c] = Append(@, Head(rx[c]))]
        /\ rx' = [rx EXCEPT ![c] = Tail(@)] /\ UNCHANGED <<conn_map, src, up>>
        /\ stage' = [stage EXCEPT ![c] = IF @ = "mixed" THEN "writing" ELSE @]
    BY <1>2 DEF Reader, Keep, Read
  <2>2. rx[c] \in Seq(Datagrams) /\ got[c] \in Seq(Datagrams)
    BY DEF TTypes, ConnTypes
  <2>3. Tail(rx[c]) \in Seq(Datagrams) /\ Append(got[c], Head(rx[c])) \in Seq(Datagrams)
    BY <2>1, <2>2
  <2>4. ConnTypes'
    BY <2>1, <2>3 DEF TTypes, ConnTypes, Stages
  <2> QED
    BY <1>1, <2>1, <2>4 DEF TTypes, ListenerTypes
<1>3. CASE Writer(c)
  <2>1. CASE Close(c)
    <3>1. ConnTypes'
      BY <2>1, <1>k, EmptyTyped DEF Close, TTypes, ConnTypes, Stages
    <3> QED
      BY <1>1, <2>1, <3>1 DEF Close, Locked, TTypes, ListenerTypes
  <2>2. CASE ClosePending(c)
    BY <1>1, <2>2 DEF ClosePending, TTypes, ConnTypes, ListenerTypes
  <2> QED
    BY <1>3, <2>1, <2>2 DEF Writer, Keep
<1>4. CASE Relaying(c)
  <2>1. CASE DialFail(c) \/ EarlyFail(c) \/ MixedEnd(c)
    <3>1. Drop({c}) /\ src' = src /\ got' = got /\ conn_map' = conn_map
      BY <2>1 DEF DialFail, EarlyFail, MixedEnd
    <3>2. ConnTypes'
      BY <3>1, DropTypes
    <3> QED
      BY <1>1, <3>1, <3>2 DEF TTypes, ListenerTypes
  <2>2. CASE \/ SelectNone(c) \/ StartRelay(c) \/ EarlyWritten(c) \/ Wrote(c) \/ DownEnd(c)
             \/ CpNotice(c) \/ FarEndWakes(c)
    <3>1. ConnTypes' /\ conn_map' = conn_map
      BY <2>2 DEF SelectNone, StartRelay, EarlyWritten, Wrote, DownEnd, CpNotice, FarEndWakes, TTypes, ConnTypes, Stages
    <3> QED
      BY <1>1, <3>1 DEF TTypes, ListenerTypes
  <2>3. CASE UpEnd(c)
    <3>1. ConnTypes' /\ conn_map' = conn_map
      BY <2>3, EmptyTyped DEF UpEnd, TTypes, ConnTypes
    <3> QED
      BY <1>1, <3>1 DEF TTypes, ListenerTypes
  <2> QED
    BY <1>4, <2>1, <2>2, <2>3 DEF Relaying, Keep
<1> QED
  BY <1>2, <1>3, <1>4

-----------------------------------------------------------------------------
(* The order of the datagrams *)

\* Datagram k of key s was read and has not reached an AddrConn: it is queued for
\* the task, or the task has it.
InQueue(s, k) == \E j \in DOMAIN msgs : msgs[j].src = s /\ msgs[j].n = k
InHand(s, k)  == at = "send" /\ cur.src = s /\ cur.n = k
Pending(s, k) == InQueue(s, k) \/ InHand(s, k)

\* Who has an entry, was queued or is held is in use; who is not has nothing.
Owned ==
  /\ \A s \in Srcs : conn_map[s] # None => stage[conn_map[s]] # "unused" /\ src[conn_map[s]] = s
  /\ \A i \in DOMAIN queue : stage[queue[i]] # "unused"
  /\ held # None => stage[held] # "unused"
  /\ \A c \in AddrConns : IF stage[c] = "unused"
                          THEN got[c] = <<>> /\ rx[c] = <<>> /\ up[c] # "run"
                          ELSE src[c] \in Srcs

Sorted == \A i, j \in DOMAIN msgs :
            i < j /\ msgs[i].src = msgs[j].src => msgs[i].n < msgs[j].n

\* From the first datagram of s that is pending, all are, up to the last read,
\* and the one the task has is the first.
Numbered(s) ==
  /\ \A k \in Nat : Pending(s, k) =>
       k <= sent[s] /\ \A l \in Nat : k < l /\ l <= sent[s] => InQueue(s, l)
  /\ \A k, l \in Nat : InHand(s, k) /\ InQueue(s, l) => k < l

\* What c was given is an uninterrupted run, behind which all that is pending
\* comes; and nothing is missing between the two while c has its entry.
Runs(c) ==
  /\ Unbroken(All(c), src[c])
  /\ \A i \in 1..Len(All(c)) : /\ All(c)[i].n <= sent[src[c]]
                               /\ \A k \in Nat : Pending(src[c], k) => All(c)[i].n < k
  /\ at # "stopped" /\ up[c] = "run" /\ conn_map[src[c]] = c =>
       /\ All(c) # <<>>
       /\ \A k \in Nat : All(c)[Len(All(c))].n < k /\ k <= sent[src[c]] => Pending(src[c], k)

\* All of c came before all of d; the one with the entry is the last of its key.
Before(c, d) == \A x \in 1..Len(All(c)), y \in 1..Len(All(d)) : All(c)[x].n < All(d)[y].n
Succeed(c, d) ==
  c # d /\ src[c] = src[d] /\ src[c] \in Srcs =>
    /\ Before(c, d) \/ Before(d, c)
    /\ conn_map[src[c]] = c => Before(d, c)

OrderInv ==
  /\ TTypes /\ Owned /\ Sorted /\ (at = "stopped" => msgs = <<>>)
  /\ \A s \in Srcs : Numbered(s)
  /\ \A c \in AddrConns : Runs(c)
  /\ \A c, d \in AddrConns : Succeed(c, d)

LEMMA BlankOrder == Blank => OrderInv
<1> SUFFICES ASSUME Blank PROVE OrderInv
  OBVIOUS
<1>1. /\ at = "recv" /\ msgs = <<>> /\ DOMAIN msgs = {} /\ queue = <<>> /\ DOMAIN queue = {}
      /\ held = None
      /\ \A s \in Srcs : conn_map[s] = None
      /\ \A c \in AddrConns : stage[c] = "unused" /\ got[c] = <<>> /\ rx[c] = <<>> /\ up[c] = "none"
  BY DEF Blank
<1>2. \A c \in AddrConns : All(c) = <<>> /\ Len(All(c)) = 0
  <2>1. <<>> \o <<>> = <<>> /\ Len(<<>>) = 0
    OBVIOUS
  <2> QED
    BY <1>1, <2>1 DEF All
<1>3. \A s, k : ~Pending(s, k)
  BY <1>1 DEF Pending, InQueue, InHand
<1>4. \A s \in Srcs : Numbered(s)
  BY <1>3 DEF Numbered, Pending
<1>5. \A c \in AddrConns : Runs(c)
  BY <1>1, <1>2 DEF Runs, Unbroken
<1>6. \A c, d \in AddrConns : Succeed(c, d)
  BY <1>2 DEF Succeed, Before
<1>7. Owned /\ Sorted
  BY <1>1 DEF Owned, Sorted
<1> QED
  BY <1>1, <1>4, <1>5, <1>6, <1>7, BlankTypes DEF OrderInv

LEMMA AllTyped ==
  ASSUME TTypes, NEW c \in AddrConns
  PROVE  /\ All(c) \in Seq(Datagrams) /\ got[c] \in Seq(Datagrams) /\ rx[c] \in Seq(Datagrams)
         /\ Len(All(c)) \in Nat
         /\ \A i \in 1..Len(All(c)) : All(c)[i].n \in 1..MaxSent /\ All(c)[i].n \in Nat
<1>1. got[c] \in Seq(Datagrams) /\ rx[c] \in Seq(Datagrams)
  BY DEF TTypes, ConnTypes
<1>2. All(c) \in Seq(Datagrams)
  BY <1>1 DEF All
<1>3. Len(All(c)) \in Nat /\ \A i \in 1..Len(All(c)) : All(c)[i] \in Datagrams
  BY <1>2
<1>4. \A d \in Datagrams : d.n \in 1..MaxSent /\ d.n \in Nat
  BY BoundsAssumption DEF Datagrams
<1> QED
  BY <1>1, <1>2, <1>3, <1>4

\* What is left of an AddrConn that loses its Reader is what was read from it.
LEMMA AllShrinks ==
  ASSUME TTypes, NEW c \in AddrConns,
         All(c)' = All(c) \/ (got'[c] = got[c] /\ rx'[c] = <<>>)
  PROVE  /\ Len(All(c)') \in Nat /\ Len(All(c)') <= Len(All(c))
         /\ \A i \in 1..Len(All(c)') : All(c)'[i] = All(c)[i] /\ i \in 1..Len(All(c))
<1>1. All(c) \in Seq(Datagrams) /\ got[c] \in Seq(Datagrams) /\ rx[c] \in Seq(Datagrams)
  BY AllTyped
<1>2. CASE All(c)' = All(c)
  BY <1>1, <1>2
<1>3. CASE got'[c] = got[c] /\ rx'[c] = <<>>
  <2>1. All(c)' = got[c]
    BY <1>1, <1>3 DEF All
  <2>2. \A p, q \in Seq(Datagrams) : /\ Len(p) \in Nat /\ Len(p) <= Len(p \o q)
                                     /\ \A i \in 1..Len(p) : (p \o q)[i] = p[i] /\ i \in 1..Len(p \o q)
    OBVIOUS
  <2>3. All(c) = got[c] \o rx[c]
    BY DEF All
  <2>4. /\ Len(got[c]) \in Nat /\ Len(got[c]) <= Len(All(c))
        /\ \A i \in 1..Len(got[c]) : All(c)[i] = got[c][i] /\ i \in 1..Len(All(c))
    <3>1. /\ Len(got[c]) \in Nat /\ Len(got[c]) <= Len(got[c] \o rx[c])
          /\ \A i \in 1..Len(got[c]) : (got[c] \o rx[c])[i] = got[c][i] /\ i \in 1..Len(got[c] \o rx[c])
      BY <1>1, <2>2
    <3> QED
      BY <2>3, <3>1
  <2> QED
    BY <2>1, <2>4
<1> QED
  BY <1>2, <1>3

LEMMA OwnedStays ==
  ASSUME TTypes, Owned, src' = src,
         \A s \in Srcs : conn_map'[s] \in {conn_map[s], None},
         \A c \in AddrConns : /\ stage'[c] = "unused" <=> stage[c] = "unused"
                              /\ stage[c] = "unused" => got'[c] = got[c] /\ rx'[c] = <<>>
                              /\ up'[c] = "run" => up[c] = "run",
         \A i \in DOMAIN queue' : queue'[i] \in AddrConns /\ stage[queue'[i]] # "unused",
         held' # None => held' \in AddrConns /\ stage[held'] # "unused"
  PROVE  Owned'
<1>1. ASSUME NEW s \in Srcs, conn_map'[s] # None
      PROVE  stage'[conn_map'[s]] # "unused" /\ src'[conn_map'[s]] = s
  <2>1. conn_map'[s] = conn_map[s] /\ conn_map[s] \in AddrConns
    BY <1>1 DEF TTypes, ListenerTypes
  <2> QED
    BY <1>1, <2>1 DEF Owned
<1>2. ASSUME NEW c \in AddrConns
      PROVE  IF stage'[c] = "unused" THEN got'[c] = <<>> /\ rx'[c] = <<>> /\ up'[c] # "run"
                                     ELSE src'[c] \in Srcs
  BY DEF Owned
<1> QED
  BY <1>1, <1>2 DEF Owned

\* Steps that bring no AddrConn a datagram, nor an entry to one without.
LEMMA NothingComes ==
  ASSUME OrderInv, TTypes', Owned', src' = src, sent' = sent,
         \A s \in Srcs : conn_map'[s] \in {conn_map[s], None},
         msgs' \in {msgs, <<>>}, at' = "stopped" => msgs' = <<>>,
         at' = "send" => at = "send" /\ cur' = cur /\ msgs' = msgs,
         \A s \in Srcs : conn_map'[s] # None /\ at' # "stopped" =>
           at # "stopped" /\ msgs' = msgs /\ (at = "send" /\ cur.src = s => at' = "send"),
         \A c \in AddrConns : /\ up'[c] = "run" => up[c] = "run"
                              /\ \/ All(c)' = All(c)
                                 \/ got'[c] = got[c] /\ rx'[c] = <<>> /\ up'[c] # "run"
  PROVE  OrderInv'
<1> USE DEF OrderInv
<1>1. \A s, k : InQueue(s, k)' => InQueue(s, k) /\ msgs' = msgs
  <2>1. CASE msgs' = msgs
    BY <2>1 DEF InQueue
  <2>2. CASE msgs' = <<>>
    BY <2>2 DEF InQueue
  <2> QED
    BY <2>1, <2>2
<1>2. \A s, k : InHand(s, k)' => InHand(s, k) /\ msgs' = msgs
  BY DEF InHand
<1>3. \A s, k : msgs' = msgs => (InQueue(s, k)' <=> InQueue(s, k))
  BY DEF InQueue
<1>4. Sorted'
  <2>1. CASE msgs' = msgs
    BY <2>1 DEF Sorted
  <2>2. CASE msgs' = <<>>
    BY <2>2 DEF Sorted
  <2> QED
    BY <2>1, <2>2
<1>5. ASSUME NEW s \in Srcs PROVE Numbered(s)'
  <2>1. ASSUME NEW k \in Nat, Pending(s, k)'
        PROVE  k <= sent[s] /\ \A l \in Nat : k < l /\ l <= sent[s] => InQueue(s, l)'
    <3>1. Pending(s, k) /\ msgs' = msgs
      BY <1>1, <1>2, <2>1 DEF Pending
    <3>2. k <= sent[s] /\ \A l \in Nat : k < l /\ l <= sent[s] => InQueue(s, l)
      BY <3>1 DEF Numbered
    <3> QED
      BY <1>3, <3>1, <3>2
  <2>2. ASSUME NEW k \in Nat, NEW l \in Nat, InHand(s, k)', InQueue(s, l)' PROVE k < l
    BY <1>1, <1>2, <2>2 DEF Numbered
  <2> QED
    BY <2>1, <2>2 DEF Numbered
<1>6. ASSUME NEW c \in AddrConns PROVE Runs(c)'
  <2>1. /\ Len(All(c)') \in Nat /\ Len(All(c)') <= Len(All(c))
        /\ \A i \in 1..Len(All(c)') : All(c)'[i] = All(c)[i] /\ i \in 1..Len(All(c))
    BY AllShrinks
  <2>2. Unbroken(All(c)', src[c])
    <3> SUFFICES ASSUME NEW i \in 1..Len(All(c)')
                 PROVE  All(c)'[i].src = src[c] /\ (i > 1 => All(c)'[i].n = All(c)'[i-1].n + 1)
      BY DEF Unbroken
    <3>1. All(c)[i].src = src[c] /\ (i > 1 => All(c)[i].n = All(c)[i-1].n + 1)
      BY <2>1 DEF Runs, Unbroken
    <3>2. i > 1 => i - 1 \in 1..Len(All(c)')
      BY <2>1
    <3> QED
      BY <2>1, <3>1, <3>2
  <2>3. ASSUME NEW i \in 1..Len(All(c)')
        PROVE  /\ All(c)'[i].n <= sent[src[c]]
               /\ \A k \in Nat : Pending(src[c], k)' => All(c)'[i].n < k
    <3>1. /\ All(c)[i].n <= sent[src[c]]
          /\ \A k \in Nat : Pending(src[c], k) => All(c)[i].n < k
      BY <2>1 DEF Runs
    <3>2. \A k : Pending(src[c], k)' => Pending(src[c], k)
      BY <1>1, <1>2 DEF Pending
    <3> QED
      BY <2>1, <3>1, <3>2
  <2>4. ASSUME at' # "stopped", up'[c] = "run", conn_map'[src[c]] = c
        PROVE  /\ All(c)' # <<>>
               /\ \A k \in Nat : All(c)'[Len(All(c)')].n < k /\ k <= sent[src[c]] => Pending(src[c], k)'
    <3>1. All(c)' = All(c) /\ up[c] = "run" /\ src[c] \in Srcs /\ c # None
      BY <2>4, ConnsAssumption DEF Owned
    <3>2. conn_map[src[c]] = c /\ at # "stopped" /\ msgs' = msgs
          /\ (at = "send" /\ cur.src = src[c] => at' = "send")
      BY <2>4, <3>1
    <3>3. \A k \in Nat : Pending(src[c], k) => Pending(src[c], k)'
      BY <1>3, <3>2 DEF Pending, InHand
    <3> QED
      BY <3>1, <3>2, <3>3 DEF Runs
  <2> QED
    BY <2>2, <2>3, <2>4 DEF Runs, Unbroken
<1>7. ASSUME NEW c \in AddrConns, NEW d \in AddrConns PROVE Succeed(c, d)'
  <2>1. \A x, y \in AddrConns : Before(x, y) => Before(x, y)'
    <3> SUFFICES ASSUME NEW x \in AddrConns, NEW y \in AddrConns, Before(x, y),
                        NEW i \in 1..Len(All(x)'), NEW j \in 1..Len(All(y)')
                 PROVE  All(x)'[i].n < All(y)'[j].n
      BY DEF Before
    <3>1. All(x)'[i] = All(x)[i] /\ i \in 1..Len(All(x))
      BY AllShrinks
    <3>2. All(y)'[j] = All(y)[j] /\ j \in 1..Len(All(y))
      BY AllShrinks
    <3> QED
      BY <3>1, <3>2 DEF Before
  <2>2. src[c] \in Srcs /\ conn_map'[src[c]] = c => conn_map[src[c]] = c
    BY ConnsAssumption
  <2> QED
    BY <2>1, <2>2 DEF Succeed
<1> QED
  BY <1>4, <1>5, <1>6, <1>7

LEMMA SucceedSame ==
  ASSUME OrderInv, UNCHANGED <<conn_map, src>>, \A c \in AddrConns : All(c)' = All(c)
  PROVE  \A c, d \in AddrConns : Succeed(c, d)'
<1> SUFFICES ASSUME NEW c \in AddrConns, NEW d \in AddrConns PROVE Succeed(c, d)'
  OBVIOUS
<1>1. Succeed(c, d)
  BY DEF OrderInv
<1>2. All(c)' = All(c) /\ All(d)' = All(d) /\ conn_map' = conn_map /\ src' = src
  OBVIOUS
<1>3. (Before(c, d)' <=> Before(c, d)) /\ (Before(d, c)' <=> Before(d, c))
  BY <1>2 DEF Before
<1> QED
  BY <1>1, <1>2, <1>3 DEF Succeed

\* The thread queues the next datagram of its key, or loses it.
LEMMA RecvOrder ==
  ASSUME OrderInv, NEW s \in Srcs, NEW len \in Lens, Recv(s, len)
  PROVE  OrderInv'
<1> USE DEF OrderInv
<1>t. TTypes'
  BY RecvTypes
<1>k. UNCHANGED <<at, cur, conn_map, queue, src, stage, rx, got, up, held>>
  BY DEF Recv
<1>o. Owned'
  BY <1>k DEF Owned
<1>a. \A c \in AddrConns : All(c)' = All(c)
  BY <1>k DEF All
<1>h. \A x, k : InHand(x, k)' <=> InHand(x, k)
  BY <1>k DEF InHand
<1>m. msgs \in Seq(Msgs) /\ Len(msgs) \in Nat /\ DOMAIN msgs = 1..Len(msgs)
  BY DEF TTypes, ThreadTypes
<1>n. /\ msgs' \in Seq(Msgs) /\ DOMAIN msgs' = 1..Len(msgs')
      /\ \A i \in 1..Len(msgs) : msgs'[i].src = msgs[i].src /\ msgs'[i].n = msgs[i].n
  BY RecvShape
<1>1. CASE Len(msgs') = Len(msgs) /\ sent' = sent
  <2>1. \A x, k : InQueue(x, k)' <=> InQueue(x, k)
    BY <1>1, <1>m, <1>n DEF InQueue
  <2>2. Sorted'
    BY <1>1, <1>m, <1>n DEF Sorted
  <2>3. at' = "stopped" => msgs' = <<>>
    BY <1>k, <1>1, <1>m, <1>n
  <2>4. \A x, k : Pending(x, k)' <=> Pending(x, k)
    BY <1>h, <2>1 DEF Pending
  <2>5. \A x \in Srcs : Numbered(x)'
    BY <1>1, <1>h, <2>1, <2>4 DEF Numbered
  <2>6. \A c \in AddrConns : Runs(c)'
    BY <1>1, <1>k, <1>a, <2>4 DEF Runs, Unbroken
  <2>7. \A c, d \in AddrConns : Succeed(c, d)'
    BY <1>k, <1>a, SucceedSame
  <2> QED
    BY <1>t, <1>o, <2>2, <2>3, <2>5, <2>6, <2>7
<1>2. CASE /\ Len(msgs') = Len(msgs) + 1 /\ at # "stopped"
           /\ sent' = [sent EXCEPT ![s] = @ + 1]
           /\ msgs'[Len(msgs) + 1].src = s /\ msgs'[Len(msgs) + 1].n = sent[s] + 1
  <2>s. /\ sent \in [Srcs -> 0..MaxSent] /\ sent[s] \in Nat
        /\ \A x \in Srcs : sent[x] \in Nat /\ sent'[x] = IF x = s THEN sent[s] + 1 ELSE sent[x]
    BY <1>2, BoundsAssumption DEF TTypes, ListenerTypes
  <2>1. \A x, k : InQueue(x, k)' <=> InQueue(x, k) \/ (x = s /\ k = sent[s] + 1)
    <3> SUFFICES ASSUME NEW x, NEW k
                 PROVE  InQueue(x, k)' <=> InQueue(x, k) \/ (x = s /\ k = sent[s] + 1)
      OBVIOUS
    <3>1. DOMAIN msgs' = 1..(Len(msgs) + 1)
      BY <1>2, <1>n
    <3>2. \A j \in 1..(Len(msgs) + 1) : j \in 1..Len(msgs) \/ j = Len(msgs) + 1
      BY <1>m
    <3>3. Len(msgs) + 1 \in 1..(Len(msgs) + 1) /\ \A j \in 1..Len(msgs) : j \in 1..(Len(msgs) + 1)
      BY <1>m
    <3> QED
      BY <1>2, <1>m, <1>n, <3>1, <3>2, <3>3 DEF InQueue
  <2>2. Sorted'
    <3> SUFFICES ASSUME NEW i \in DOMAIN msgs', NEW j \in DOMAIN msgs',
                        i < j, msgs'[i].src = msgs'[j].src
                 PROVE  msgs'[i].n < msgs'[j].n
      BY DEF Sorted
    <3>1. i \in 1..Len(msgs) /\ (j \in 1..Len(msgs) \/ j = Len(msgs) + 1)
      BY <1>2, <1>m, <1>n
    <3>2. CASE j \in 1..Len(msgs)
      BY <1>m, <1>n, <3>1, <3>2 DEF Sorted
    <3>3. CASE j = Len(msgs) + 1
      <4>1. msgs[i].src = s /\ msgs[i] \in Msgs
        BY <1>2, <1>m, <1>n, <3>1, <3>3
      <4>2. msgs[i].n \in Nat
        BY <4>1, BoundsAssumption DEF Msgs
      <4>3. Pending(s, msgs[i].n)
        BY <1>m, <3>1, <4>1 DEF Pending, InQueue
      <4>4. msgs[i].n <= sent[s]
        BY <4>2, <4>3 DEF Numbered
      <4> QED
        BY <1>2, <1>n, <2>s, <3>1, <3>3, <4>2, <4>4
    <3> QED
      BY <3>1, <3>2, <3>3
  <2>3. ASSUME NEW x \in Srcs PROVE Numbered(x)'
    <3>1. ASSUME NEW k \in Nat, Pending(x, k)'
          PROVE  k <= sent'[x] /\ \A l \in Nat : k < l /\ l <= sent'[x] => InQueue(x, l)'
      <4>1. CASE Pending(x, k)
        <5>1. k <= sent[x] /\ \A l \in Nat : k < l /\ l <= sent[x] => InQueue(x, l)
          BY <4>1 DEF Numbered
        <5>2. k <= sent'[x]
          BY <2>s, <5>1
        <5>3. ASSUME NEW l \in Nat, k < l, l <= sent'[x] PROVE InQueue(x, l)'
          <6>1. l <= sent[x] \/ (x = s /\ l = sent[s] + 1)
            BY <2>s, <5>3
          <6> QED
            BY <2>1, <5>1, <5>3, <6>1
        <5> QED
          BY <5>2, <5>3
      <4>2. CASE ~Pending(x, k)
        <5>1. x = s /\ k = sent[s] + 1
          BY <1>h, <2>1, <3>1, <4>2 DEF Pending
        <5> QED
          BY <2>s, <5>1
      <4> QED
        BY <4>1, <4>2
    <3>2. ASSUME NEW k \in Nat, NEW l \in Nat, InHand(x, k)', InQueue(x, l)' PROVE k < l
      <4>1. InHand(x, k) /\ k <= sent[x]
        BY <1>h, <3>2 DEF Numbered, Pending
      <4>2. CASE InQueue(x, l)
        BY <4>1, <4>2 DEF Numbered
      <4>3. CASE x = s /\ l = sent[s] + 1
        BY <2>s, <4>1, <4>3
      <4> QED
        BY <2>1, <3>2, <4>2, <4>3
    <3> QED
      BY <3>1, <3>2 DEF Numbered
  <2>4. \A x, k : Pending(x, k)' <=> Pending(x, k) \/ (x = s /\ k = sent[s] + 1)
    BY <1>h, <2>1 DEF Pending
  <2>5. ASSUME NEW c \in AddrConns PROVE Runs(c)'
    <3>1. Unbroken(All(c), src[c])
      BY DEF Runs
    <3>2. Len(All(c)) \in Nat /\ \A i \in 1..Len(All(c)) : All(c)[i].n \in Nat
      BY AllTyped
    <3>3. ASSUME NEW i \in 1..Len(All(c))
          PROVE  /\ All(c)[i].n <= sent'[src[c]]
                 /\ \A k \in Nat : Pending(src[c], k)' => All(c)[i].n < k
      <4>1. All(c)[i].n <= sent[src[c]] /\ \A k \in Nat : Pending(src[c], k) => All(c)[i].n < k
        BY DEF Runs
      <4>2. src[c] \in Srcs
        <5>1. stage[c] = "unused" => All(c) = <<>>
          BY DEF Owned, All
        <5>2. Len(<<>>) = 0
          OBVIOUS
        <5> QED
          BY <5>1, <5>2 DEF Owned
      <4>3. All(c)[i].n <= sent'[src[c]]
        BY <2>s, <3>2, <4>1, <4>2
      <4>4. src[c] = s => All(c)[i].n < sent[s] + 1
        BY <2>s, <3>2, <4>1
      <4> QED
        BY <1>k, <2>4, <4>1, <4>3, <4>4
    <3>4. ASSUME at # "stopped", up[c] = "run", conn_map[src[c]] = c
          PROVE  /\ All(c) # <<>>
                 /\ \A k \in Nat : All(c)[Len(All(c))].n < k /\ k <= sent'[src[c]] => Pending(src[c], k)'
      <4>1. /\ All(c) # <<>>
            /\ \A k \in Nat : All(c)[Len(All(c))].n < k /\ k <= sent[src[c]] => Pending(src[c], k)
        BY <3>4 DEF Runs
      <4>2. src[c] \in Srcs
        BY <3>4 DEF Owned
      <4>3. \A k \in Nat : k <= sent'[src[c]] => k <= sent[src[c]] \/ (src[c] = s /\ k = sent[s] + 1)
        BY <2>s, <4>2
      <4> QED
        BY <1>k, <2>4, <4>1, <4>3
    <3> QED
      BY <1>a, <1>k, <3>1, <3>3, <3>4 DEF Runs, Unbroken
  <2>6. \A c, d \in AddrConns : Succeed(c, d)'
    BY <1>k, <1>a, SucceedSame
  <2> QED
    BY <1>t, <1>o, <1>k, <1>2, <2>2, <2>3, <2>5, <2>6
<1> QED
  BY <1>1, <1>2, RecvShape

\* The queue is what it was without its head, the first of its key.
LEMMA TakeQueue ==
  ASSUME OrderInv, Take
  PROVE  /\ \A s \in Srcs : \A k \in Nat :
              InQueue(s, k) <=> InQueue(s, k)' \/ (s = cur'.src /\ k = cur'.n)
         /\ \A s \in Srcs : \A k \in Nat : s = cur'.src /\ InQueue(s, k)' => cur'.n < k
         /\ cur'.src \in Srcs /\ cur'.n \in Nat /\ Sorted'
<1> USE DEF OrderInv
<1>1. /\ msgs \in Seq(Msgs) /\ msgs # <<>> /\ msgs' = Tail(msgs)
      /\ cur' \in Datagrams /\ cur'.src = msgs[1].src /\ cur'.n = msgs[1].n
  BY TakeShape
<1>2. /\ Len(msgs) \in Nat /\ Len(msgs') = Len(msgs) - 1 /\ 1 \in DOMAIN msgs
      /\ DOMAIN msgs = 1..Len(msgs)
      /\ \A i \in 1..Len(msgs) - 1 : msgs'[i] = msgs[i + 1] /\ i + 1 \in DOMAIN msgs
  BY <1>1, QueueTypes
<1>3. DOMAIN msgs' = 1..Len(msgs) - 1
  <2>1. msgs' \in Seq(Msgs)
    BY <1>1, QueueTypes
  <2> QED
    BY <1>2, <2>1
<1>4. cur'.src \in Srcs /\ cur'.n \in Nat
  BY <1>1, BoundsAssumption DEF Datagrams
<1>5. ASSUME NEW s \in Srcs, NEW k \in Nat
      PROVE  InQueue(s, k) <=> InQueue(s, k)' \/ (s = cur'.src /\ k = cur'.n)
  <2>1. ASSUME InQueue(s, k) PROVE InQueue(s, k)' \/ (s = cur'.src /\ k = cur'.n)
    <3>1. PICK j \in 1..Len(msgs) : msgs[j].src = s /\ msgs[j].n = k
      BY <1>2, <2>1 DEF InQueue
    <3>2. CASE j = 1
      BY <1>1, <3>1, <3>2
    <3>3. CASE j # 1
      <4>1. j - 1 \in 1..Len(msgs) - 1 /\ (j - 1) + 1 = j
        BY <1>2, <3>3
      <4>2. msgs'[j - 1] = msgs[j] /\ j - 1 \in DOMAIN msgs'
        BY <1>2, <1>3, <4>1
      <4> QED
        BY <3>1, <4>2 DEF InQueue
    <3> QED
      BY <3>2, <3>3
  <2>2. ASSUME InQueue(s, k)' PROVE InQueue(s, k)
    BY <1>2, <1>3, <2>2 DEF InQueue
  <2>3. ASSUME s = cur'.src, k = cur'.n PROVE InQueue(s, k)
    BY <1>1, <1>2, <2>3 DEF InQueue
  <2> QED
    BY <2>1, <2>2, <2>3
<1>6. ASSUME NEW s \in Srcs, NEW k \in Nat, s = cur'.src, InQueue(s, k)' PROVE cur'.n < k
  <2>1. PICK j \in 1..Len(msgs) - 1 : msgs'[j].src = s /\ msgs'[j].n = k
    BY <1>3, <1>6 DEF InQueue
  <2>2. msgs[j + 1].src = msgs[1].src /\ msgs[j + 1].n = k /\ j + 1 \in DOMAIN msgs /\ 1 < j + 1
    BY <1>1, <1>2, <1>6, <2>1
  <2> QED
    BY <1>1, <1>2, <2>2 DEF Sorted
<1>7. Sorted'
  <2> SUFFICES ASSUME NEW i \in 1..Len(msgs) - 1, NEW j \in 1..Len(msgs) - 1,
                      i < j, msgs'[i].src = msgs'[j].src
               PROVE  msgs'[i].n < msgs'[j].n
    BY <1>3 DEF Sorted
  <2>1. /\ msgs'[i] = msgs[i + 1] /\ i + 1 \in DOMAIN msgs
        /\ msgs'[j] = msgs[j + 1] /\ j + 1 \in DOMAIN msgs /\ i + 1 < j + 1
    BY <1>2
  <2> QED
    BY <2>1 DEF Sorted
<1> QED
  BY <1>4, <1>5, <1>6, <1>7

\* What an AddrConn that has been given anything serves is a key.
LEMMA KnownKey ==
  ASSUME OrderInv, NEW c \in AddrConns
  PROVE  Len(All(c)) = 0 \/ src[c] \in Srcs
<1>1. stage[c] = "unused" => All(c) = <<>>
  BY DEF OrderInv, Owned, All
<1>2. Len(<<>>) = 0
  OBVIOUS
<1> QED
  BY <1>1, <1>2 DEF OrderInv, Owned

LEMMA TakeKnownOrder == OrderInv /\ TakeKnown => OrderInv'
<1> SUFFICES ASSUME OrderInv, TakeKnown PROVE OrderInv'
  OBVIOUS
<1> USE DEF OrderInv
<1>1. /\ Take /\ at = "recv" /\ at' = "send"
      /\ UNCHANGED <<conn_map, src, stage, rx, got, up, sent, queue, held>>
  BY DEF TakeKnown, Take
<1>t. TTypes'
  BY TaskTypes
<1>2. /\ \A s \in Srcs : \A k \in Nat : InQueue(s, k) <=> InQueue(s, k)' \/ (s = cur'.src /\ k = cur'.n)
      /\ \A s \in Srcs : \A k \in Nat : s = cur'.src /\ InQueue(s, k)' => cur'.n < k
      /\ cur'.src \in Srcs /\ cur'.n \in Nat /\ Sorted'
  BY <1>1, TakeQueue
<1>3. \A s, k : ~InHand(s, k) /\ (InHand(s, k)' <=> s = cur'.src /\ k = cur'.n)
  BY <1>1 DEF InHand
<1>4. \A s \in Srcs : \A k \in Nat : Pending(s, k)' <=> Pending(s, k)
  BY <1>2, <1>3 DEF Pending
<1>5. ASSUME NEW s \in Srcs PROVE Numbered(s)'
  <2>1. ASSUME NEW k \in Nat, Pending(s, k)', NEW l \in Nat, k < l, l <= sent[s]
        PROVE  InQueue(s, l)'
    <3>1. Pending(s, k) /\ InQueue(s, k) /\ InQueue(s, l)
      BY <1>3, <1>4, <2>1 DEF Numbered, Pending
    <3>2. s = cur'.src => cur'.n <= k
      BY <1>2, <3>1
    <3>3. ~(s = cur'.src /\ l = cur'.n)
      BY <1>2, <2>1, <3>2
    <3> QED
      BY <1>2, <3>1, <3>3
  <2>2. \A k \in Nat : Pending(s, k)' => k <= sent[s]
    BY <1>4 DEF Numbered
  <2>3. \A k, l \in Nat : InHand(s, k)' /\ InQueue(s, l)' => k < l
    BY <1>2, <1>3
  <2> QED
    BY <1>1, <2>1, <2>2, <2>3 DEF Numbered
<1>6. \A c \in AddrConns : All(c)' = All(c)
  BY <1>1 DEF All
<1>7. ASSUME NEW c \in AddrConns PROVE Runs(c)'
  <2>1. Len(All(c)) = 0 \/ src[c] \in Srcs
    BY KnownKey
  <2>2. up[c] = "run" => src[c] \in Srcs
    BY DEF Owned
  <2>3. /\ \A i \in 1..Len(All(c)) : \A k \in Nat : Pending(src[c], k)' => All(c)[i].n < k
        /\ \A k \in Nat : up[c] = "run" => (Pending(src[c], k)' <=> Pending(src[c], k))
    BY <1>1, <1>4, <2>1, <2>2 DEF Runs
  <2> QED
    BY <1>1, <1>6, <2>3 DEF Runs, Unbroken
<1>8. \A c, d \in AddrConns : Succeed(c, d)'
  BY <1>1, <1>6, SucceedSame
<1>9. Owned'
  BY <1>1 DEF Owned
<1> QED
  BY <1>1, <1>t, <1>2, <1>5, <1>7, <1>8, <1>9

LEMMA TakeNewOrder ==
  ASSUME OrderInv, NEW n \in AddrConns, TakeNew(n)
  PROVE  OrderInv'
<1> USE DEF OrderInv
<1>1. /\ Take /\ at = "recv" /\ at' = "offer" /\ conn_map[cur'.src] = None /\ stage[n] = "unused"
      /\ UNCHANGED <<got, sent, queue, held>>
  BY DEF TakeNew, Take
<1>t. TTypes'
  BY TaskTypes
<1>2. /\ \A s \in Srcs : \A k \in Nat : InQueue(s, k) <=> InQueue(s, k)' \/ (s = cur'.src /\ k = cur'.n)
      /\ \A s \in Srcs : \A k \in Nat : s = cur'.src /\ InQueue(s, k)' => cur'.n < k
      /\ cur'.src \in Srcs /\ cur'.n \in Nat /\ Sorted' /\ cur' \in Datagrams
  BY <1>1, TakeQueue, TakeShape
<1>n. /\ \A s \in Srcs : conn_map'[s] = IF s = cur'.src THEN n ELSE conn_map[s]
      /\ \A c \in AddrConns : /\ src'[c] = IF c = n THEN cur'.src ELSE src[c]
                              /\ stage'[c] = IF c = n THEN "queued" ELSE stage[c]
                              /\ rx'[c] = IF c = n THEN <<cur'>> ELSE rx[c]
                              /\ up'[c] = IF c = n THEN "run" ELSE up[c]
  BY DEF TakeNew, TTypes, ListenerTypes, ConnTypes
<1>3. \A s, k : ~InHand(s, k) /\ ~InHand(s, k)'
  BY <1>1 DEF InHand
<1>4. \A s, k : (Pending(s, k) <=> InQueue(s, k)) /\ (Pending(s, k)' <=> InQueue(s, k)')
  BY <1>3 DEF Pending
<1>5. ASSUME NEW s \in Srcs PROVE Numbered(s)'
  <2>1. ASSUME NEW k \in Nat, Pending(s, k)', NEW l \in Nat, k < l, l <= sent[s]
        PROVE  InQueue(s, l)'
    <3>1. InQueue(s, k)' /\ Pending(s, k)
      BY <1>2, <1>4, <2>1
    <3>2. InQueue(s, l)
      BY <2>1, <3>1 DEF Numbered
    <3>3. ~(s = cur'.src /\ l = cur'.n)
      BY <1>2, <2>1, <3>1
    <3> QED
      BY <1>2, <3>2, <3>3
  <2>2. \A k \in Nat : Pending(s, k)' => k <= sent[s]
    BY <1>2, <1>4 DEF Numbered
  <2> QED
    BY <1>1, <1>3, <2>1, <2>2 DEF Numbered
<1>6. /\ All(n)' = <<cur'>> /\ Len(All(n)') = 1 /\ All(n)'[1] = cur'
      /\ \A c \in AddrConns : c # n => All(c)' = All(c)
  <2>1. got'[n] = <<>> /\ rx'[n] = <<cur'>>
    BY <1>1, <1>n DEF Owned
  <2>2. \A d : <<>> \o <<d>> = <<d>> /\ Len(<<d>>) = 1 /\ <<d>>[1] = d
    OBVIOUS
  <2>3. \A c \in AddrConns : c # n => got'[c] = got[c] /\ rx'[c] = rx[c]
    BY <1>1, <1>n
  <2> QED
    BY <2>1, <2>2, <2>3 DEF All
<1>7. InQueue(cur'.src, cur'.n) /\ cur'.n <= sent[cur'.src]
  BY <1>2, <1>4 DEF Numbered
<1>8. ASSUME NEW c \in AddrConns, c # n PROVE Runs(c)'
  <2>1. Len(All(c)) = 0 \/ src[c] \in Srcs
    BY KnownKey
  <2>2. up[c] = "run" => src[c] \in Srcs
    BY DEF Owned
  <2>3. src'[c] = src[c] /\ up'[c] = up[c] /\ All(c)' = All(c)
    BY <1>n, <1>6, <1>8
  <2>4. \A i \in 1..Len(All(c)) : \A k \in Nat : Pending(src[c], k)' => All(c)[i].n < k
    <3> SUFFICES ASSUME NEW i \in 1..Len(All(c)), NEW k \in Nat, Pending(src[c], k)'
                 PROVE  All(c)[i].n < k
      OBVIOUS
    <3>1. src[c] \in Srcs
      BY <2>1
    <3>2. Pending(src[c], k)
      BY <1>2, <1>4, <2>3, <3>1
    <3> QED
      BY <3>2 DEF Runs
  <2>5. ASSUME up[c] = "run", conn_map'[src[c]] = c
        PROVE  /\ conn_map[src[c]] = c
               /\ \A k \in Nat : Pending(src[c], k) => Pending(src[c], k)'
    <3>1. src[c] # cur'.src /\ conn_map[src[c]] = c /\ src[c] \in Srcs
      BY <1>n, <1>8, <2>2, <2>5
    <3> QED
      BY <1>2, <1>4, <2>3, <3>1
  <2> QED
    BY <1>1, <2>3, <2>4, <2>5 DEF Runs, Unbroken
<1>9. Runs(n)'
  <2>1. src'[n] = cur'.src /\ cur'.src \in Srcs
    BY <1>n, <1>2
  <2>2. Unbroken(All(n)', cur'.src)
    <3>1. \A i \in 1..1 : i = 1
      OBVIOUS
    <3> QED
      BY <1>6, <3>1 DEF Unbroken
  <2>3. ASSUME NEW k \in Nat, NEW x \in Srcs, x = cur'.src
        PROVE  /\ Pending(x, k)' => cur'.n < k
               /\ cur'.n < k /\ k <= sent[x] => Pending(x, k)'
    <3>1. Pending(x, k)' => cur'.n < k
      BY <1>2, <1>4, <2>3
    <3>2. ASSUME cur'.n < k, k <= sent[x] PROVE Pending(x, k)'
      <4>1. InQueue(x, k)
        BY <1>2, <1>4, <1>7, <2>3, <3>2 DEF Numbered
      <4>2. k # cur'.n
        BY <1>2, <3>2
      <4> QED
        BY <1>2, <1>4, <4>1, <4>2
    <3> QED
      BY <3>1, <3>2
  <2>4. \A i \in 1..Len(All(n)') : All(n)'[i] = cur'
    <3>1. \A i \in 1..1 : i = 1
      OBVIOUS
    <3> QED
      BY <1>6, <3>1
  <2>5. All(n)' # <<>> /\ All(n)'[Len(All(n)')] = cur' /\ sent' = sent
    <3>1. <<cur'>> # <<>>
      OBVIOUS
    <3> QED
      BY <1>1, <1>6, <3>1
  <2> HIDE DEF OrderInv
  <2>6. Unbroken(All(n), src[n])'
    BY <2>1, <2>2 DEF Unbroken
  <2>7. PICK x \in Srcs : x = cur'.src
    BY <2>1
  <2>8. \A i \in 1..Len(All(n)') : /\ All(n)'[i].n <= sent'[x]
                                   /\ \A k \in Nat : Pending(x, k)' => All(n)'[i].n < k
    <3>1. cur'.n <= sent'[x] /\ \A k \in Nat : Pending(x, k)' => cur'.n < k
      BY <1>7, <2>3, <2>5, <2>7
    <3> QED
      BY <2>4, <3>1
  <2>9. \A k \in Nat : All(n)'[Len(All(n)')].n < k /\ k <= sent'[x] => Pending(x, k)'
    BY <2>3, <2>5, <2>7
  <2>10. src'[n] = x
    BY <2>1, <2>7
  <2> QED
    BY <2>5, <2>6, <2>8, <2>9, <2>10 DEF Runs
<1>10. ASSUME NEW c \in AddrConns, NEW d \in AddrConns PROVE Succeed(c, d)'
  <2>1. ASSUME NEW x \in AddrConns, x # n, src[x] = cur'.src PROVE Before(x, n)'
    <3>1. \A i \in 1..Len(All(x)) : All(x)[i].n < cur'.n
      BY <1>2, <1>4, <1>7, <2>1 DEF Runs
    <3>2. All(x)' = All(x) /\ \A j \in 1..1 : j = 1
      BY <1>6, <2>1
    <3> QED
      BY <1>6, <3>1, <3>2 DEF Before
  <2>2. CASE c # n /\ d # n
    <3>1. src'[c] = src[c] /\ src'[d] = src[d] /\ All(c)' = All(c) /\ All(d)' = All(d)
      BY <1>6, <1>n, <2>2
    <3>2. src[c] \in Srcs /\ conn_map'[src[c]] = c => conn_map[src[c]] = c
      BY <1>n, <2>2
    <3> QED
      BY <3>1, <3>2 DEF Succeed, Before
  <2>3. CASE c = n /\ d # n
    BY <1>n, <2>1, <2>3 DEF Succeed
  <2>4. CASE c # n /\ d = n
    <3>1. src'[c] = src'[d] => src[c] = cur'.src /\ conn_map'[src'[c]] # c
      BY <1>2, <1>n, <2>4
    <3> QED
      BY <2>1, <2>4, <3>1 DEF Succeed
  <2> QED
    BY <2>2, <2>3, <2>4 DEF Succeed
<1>11. Owned'
  <2>1. ASSUME NEW s \in Srcs, conn_map'[s] # None
        PROVE  stage'[conn_map'[s]] # "unused" /\ src'[conn_map'[s]] = s
    <3>1. s # cur'.src => conn_map[s] \in AddrConns /\ conn_map[s] # n
      BY <1>1, <1>n, <2>1 DEF Owned, TTypes, ListenerTypes
    <3> QED
      BY <1>n, <2>1, <3>1 DEF Owned
  <2>2. \A i \in DOMAIN queue : queue[i] \in AddrConns
    BY DEF TTypes, ListenerTypes
  <2>3. held # None => held \in AddrConns
    BY DEF TTypes, ListenerTypes
  <2>4. (\A i \in DOMAIN queue' : stage'[queue'[i]] # "unused") /\ (held' # None => stage'[held'] # "unused")
    BY <1>1, <1>n, <2>2, <2>3 DEF Owned
  <2>5. \A c \in AddrConns : IF stage'[c] = "unused"
                          THEN got'[c] = <<>> /\ rx'[c] = <<>> /\ up'[c] # "run"
                          ELSE src'[c] \in Srcs
    BY <1>1, <1>2, <1>n DEF Owned
  <2> QED
    BY <2>1, <2>4, <2>5 DEF Owned
<1> QED
  BY <1>1, <1>t, <1>2, <1>5, <1>8, <1>9, <1>10, <1>11

LEMMA SendOrder ==
  ASSUME OrderInv, TaskSend, NEW s, s = cur.src, NEW t, t = Target
  PROVE  OrderInv'
<1> USE DEF OrderInv
<1> DEFINE m == All(t)[Len(All(t))].n
<1>1. /\ at = "send" /\ at' = "recv" /\ up[t] = "run" /\ rx' = [rx EXCEPT ![t] = Append(@, cur)]
      /\ UNCHANGED <<sent, conn_map, queue, src, stage, got, up, msgs, held>>
  BY DEF TaskSend, Keep, SendOk, tproxyVars
<1>t. TTypes'
  BY TaskTypes
<1>2. cur \in Datagrams /\ s \in Srcs /\ cur.n \in Nat /\ t \in AddrConns /\ conn_map[s] = t /\ src[t] = s
  <2>1. cur \in Datagrams /\ conn_map[s] # None /\ conn_map[s] = t
    BY <1>1 DEF TTypes, ListenerTypes, Target
  <2>2. s \in Srcs /\ cur.n \in Nat
    BY <2>1, BoundsAssumption DEF Datagrams
  <2>3. conn_map[s] \in AddrConns
    BY <2>1, <2>2 DEF TTypes, ListenerTypes
  <2> QED
    BY <2>1, <2>2, <2>3 DEF Owned
<1>a. /\ All(t)' = Append(All(t), cur)
      /\ \A c \in AddrConns : c # t => All(c)' = All(c)
  <2>1. got[t] \in Seq(Datagrams) /\ rx[t] \in Seq(Datagrams) /\ rx'[t] = Append(rx[t], cur)
    BY <1>1, <1>2 DEF TTypes, ConnTypes
  <2>2. got[t] \o Append(rx[t], cur) = Append(got[t] \o rx[t], cur)
    BY <1>2, <2>1, SendSame
  <2>3. \A c \in AddrConns : c # t => rx'[c] = rx[c]
    BY <1>1 DEF TTypes, ConnTypes
  <2> QED
    BY <1>1, <2>1, <2>2, <2>3 DEF All
<1>3. /\ \A x, k : InHand(x, k) <=> x = s /\ k = cur.n
      /\ \A x, k : ~InHand(x, k)' /\ (InQueue(x, k)' <=> InQueue(x, k))
      /\ \A x, k : Pending(x, k)' <=> InQueue(x, k)
  BY <1>1 DEF InHand, InQueue, Pending
<1>4. Pending(s, cur.n) /\ InHand(s, cur.n) /\ cur.n <= sent[s]
      /\ (\A k \in Nat : cur.n < k /\ k <= sent[s] => InQueue(s, k))
      /\ (\A l \in Nat : InQueue(s, l) => cur.n < l)
  <2>1. Pending(s, cur.n) /\ InHand(s, cur.n)
    BY <1>3 DEF Pending
  <2> QED
    BY <1>2, <2>1 DEF Numbered
<1>5. All(t) # <<>> /\ All(t) \in Seq(Datagrams) /\ cur.n = m + 1
  <2>1. /\ All(t) # <<>> /\ All(t) \in Seq(Datagrams)
        /\ \A k \in Nat : m < k /\ k <= sent[s] => Pending(s, k)
    BY <1>1, <1>2, AllTyped DEF Runs
  <2>2. Len(All(t)) \in 1..Len(All(t)) /\ m \in Nat
    <3>1. Len(All(t)) \in 1..Len(All(t))
      BY <2>1
    <3> QED
      BY <1>2, <3>1, AllTyped
  <2>3. m < cur.n
    BY <1>2, <1>4, <2>2 DEF Runs
  <2>4. sent[s] \in Nat
    BY <1>2, BoundsAssumption DEF TTypes, ListenerTypes
  <2> HIDE DEF m
  <2>5. ASSUME m + 1 # cur.n PROVE FALSE
    <3>1. m + 1 \in Nat /\ m < m + 1 /\ m + 1 <= sent[s] /\ ~(cur.n < m + 1)
      BY <1>2, <1>4, <2>2, <2>3, <2>4, <2>5
    <3>2. Pending(s, m + 1)
      BY <2>1, <3>1
    <3>3. InQueue(s, m + 1)
      BY <1>3, <2>5, <3>2 DEF Pending
    <3> QED
      BY <1>4, <3>1, <3>3
  <2> QED
    BY <2>1, <2>5
<1>6. ASSUME NEW x \in Srcs PROVE Numbered(x)'
  <2>1. \A k : Pending(x, k)' => Pending(x, k)
    BY <1>3 DEF Pending
  <2> QED
    BY <1>1, <1>3, <2>1 DEF Numbered
<1>7. ASSUME NEW c \in AddrConns, c # t PROVE Runs(c)'
  <2>1. \A k : Pending(src[c], k)' => Pending(src[c], k)
    BY <1>1, <1>3 DEF Pending
  <2>2. ASSUME up[c] = "run", conn_map[src[c]] = c PROVE \A k : Pending(src[c], k) => Pending(src[c], k)'
    <3>1. src[c] # s
      BY <1>2, <1>7, <2>2
    <3> QED
      BY <1>1, <1>3, <3>1 DEF Pending
  <2>3. All(c)' = All(c)
    BY <1>a, <1>7
  <2> QED
    BY <1>1, <2>1, <2>2, <2>3 DEF Runs, Unbroken
<1>8. Runs(t)'
  <2>1. /\ Append(All(t), cur) \in Seq(Datagrams) /\ Unbroken(Append(All(t), cur), s)
        /\ Append(All(t), cur) # <<>> /\ Append(All(t), cur)[Len(Append(All(t), cur))] = cur
    <3>1. Unbroken(All(t), s) /\ cur.src = s
      BY <1>2 DEF Runs
    <3> QED
      BY <1>2, <1>5, <3>1, RunAppend
  <2>2. ASSUME NEW i \in 1..Len(All(t)')
        PROVE  All(t)'[i].n <= sent[s] /\ \A k \in Nat : Pending(s, k)' => All(t)'[i].n < k
    <3>1. /\ Len(All(t)') = Len(All(t)) + 1 /\ All(t)'[Len(All(t)) + 1] = cur /\ Len(All(t)) \in Nat
          /\ \A j \in 1..Len(All(t)) : All(t)'[j] = All(t)[j]
      BY <1>2, <1>5, <1>a, AppendLast
    <3>2. CASE i = Len(All(t)) + 1
      BY <1>3, <1>4, <3>1, <3>2
    <3>3. CASE i # Len(All(t)) + 1
      <4>1. i \in 1..Len(All(t))
        BY <3>1, <3>3
      <4>2. All(t)[i].n <= sent[s] /\ \A k \in Nat : Pending(s, k) => All(t)[i].n < k
        BY <1>2, <4>1 DEF Runs
      <4> QED
        BY <1>3, <3>1, <4>1, <4>2 DEF Pending
    <3> QED
      BY <3>2, <3>3
  <2>3. \A k \in Nat : cur.n < k /\ k <= sent[s] => Pending(s, k)'
    BY <1>3, <1>4
  <2>4. src'[t] = s
    BY <1>1, <1>2
  <2> QED
    BY <1>1, <1>a, <2>1, <2>2, <2>3, <2>4 DEF Runs, Unbroken
<1>9. ASSUME NEW c \in AddrConns, NEW d \in AddrConns PROVE Succeed(c, d)'
  <2>1. ASSUME NEW x \in AddrConns, x # t, src[x] = s PROVE Before(x, t)'
    <3>1. \A i \in 1..Len(All(x)) : All(x)[i].n < cur.n
      BY <1>2, <1>4, <2>1 DEF Runs
    <3>2. Before(x, t)
      BY <1>2, <2>1 DEF Succeed
    <3>3. /\ Len(All(t)') = Len(All(t)) + 1 /\ All(t)'[Len(All(t)) + 1] = cur /\ Len(All(t)) \in Nat
          /\ \A j \in 1..Len(All(t)) : All(t)'[j] = All(t)[j]
      BY <1>2, <1>5, <1>a, AppendLast
    <3>4. \A j \in 1..Len(All(t)') : j \in 1..Len(All(t)) \/ j = Len(All(t)) + 1
      BY <3>3
    <3>5. All(x)' = All(x)
      BY <1>a, <2>1
    <3> QED
      BY <3>1, <3>2, <3>3, <3>4, <3>5 DEF Before
  <2>2. CASE c # t /\ d # t
    <3>1. All(c)' = All(c) /\ All(d)' = All(d)
      BY <1>a, <2>2
    <3> QED
      BY <1>1, <3>1 DEF Succeed, Before
  <2>3. CASE c = t /\ d # t
    BY <1>1, <1>2, <2>1, <2>3 DEF Succeed
  <2>4. CASE c # t /\ d = t
    <3>1. src'[c] = src'[d] => src[c] = s /\ conn_map'[src'[c]] # c
      BY <1>1, <1>2, <2>4
    <3> QED
      BY <2>1, <2>4, <3>1 DEF Succeed
  <2> QED
    BY <2>2, <2>3, <2>4 DEF Succeed
<1>10. Owned'
  <2>1. rx'[t] = rx'[t] /\ stage[t] # "unused" /\ \A c \in AddrConns : c # t => rx'[c] = rx[c]
    BY <1>1, <1>2 DEF Owned, TTypes, ConnTypes
  <2> QED
    BY <1>1, <2>1 DEF Owned
<1>11. Sorted'
  BY <1>1 DEF Sorted
<1> QED
  BY <1>1, <1>t, <1>6, <1>7, <1>8, <1>9, <1>10, <1>11

LEMMA DropOrder ==
  ASSUME OrderInv, TTypes', NEW cs \in SUBSET AddrConns, Drop(cs), \A c \in cs : stage[c] # "unused",
         UNCHANGED <<src, got, sent, conn_map>>, queue' \in {queue, <<>>}, held' \in {held, None},
         UNCHANGED <<at, cur, msgs>> \/ (at' = "stopped" /\ msgs' = <<>>)
  PROVE  OrderInv'
<1> USE DEF OrderInv
<1>1. \A c \in AddrConns :
        /\ stage'[c] = IF c \in cs THEN "gone" ELSE stage[c]
        /\ rx'[c] = IF c \in cs THEN <<>> ELSE rx[c]
        /\ up'[c] = IF c \in cs THEN "ended" ELSE up[c]
  BY DEF Drop
<1>2. Owned'
  <2>1. \A i \in DOMAIN queue' : queue'[i] \in AddrConns /\ stage[queue'[i]] # "unused"
    <3>1. DOMAIN <<>> = {}
      OBVIOUS
    <3> QED
      BY <3>1 DEF Owned, TTypes, ListenerTypes
  <2>2. held' # None => held' \in AddrConns /\ stage[held'] # "unused"
    BY DEF Owned, TTypes, ListenerTypes
  <2>3. \A c \in AddrConns : /\ stage'[c] = "unused" <=> stage[c] = "unused"
                             /\ stage[c] = "unused" => got'[c] = got[c] /\ rx'[c] = <<>>
                             /\ up'[c] = "run" => up[c] = "run"
    BY <1>1 DEF Owned
  <2> QED
    BY <2>1, <2>2, <2>3, OwnedStays
<1>3. ASSUME NEW c \in AddrConns
      PROVE  /\ up'[c] = "run" => up[c] = "run"
             /\ \/ All(c)' = All(c)
                \/ got'[c] = got[c] /\ rx'[c] = <<>> /\ up'[c] # "run"
  BY <1>1 DEF All
<1>4. /\ \A s \in Srcs : conn_map'[s] \in {conn_map[s], None}
      /\ msgs' \in {msgs, <<>>} /\ (at' = "stopped" => msgs' = <<>>)
      /\ (at' = "send" => at = "send" /\ cur' = cur /\ msgs' = msgs)
      /\ \A s \in Srcs : conn_map'[s] # None /\ at' # "stopped" =>
           at # "stopped" /\ msgs' = msgs /\ (at = "send" /\ cur.src = s => at' = "send")
  OBVIOUS
<1> HIDE DEF OrderInv
<1> QED
  BY <1>2, <1>3, <1>4, NothingComes

\* Steps that drop no AddrConn, nor read from one or send to it.
LEMMA KeptOrder ==
  ASSUME OrderInv, TTypes', UNCHANGED <<src, got, sent>>,
         \A s \in Srcs : conn_map'[s] \in {conn_map[s], None},
         \A c \in AddrConns : /\ stage'[c] = "unused" <=> stage[c] = "unused"
                              /\ up'[c] = "run" => up[c] = "run"
                              /\ rx'[c] = rx[c] \/ (rx'[c] = <<>> /\ up'[c] # "run"),
         \A i \in DOMAIN queue' : queue'[i] \in AddrConns /\ stage[queue'[i]] # "unused",
         held' # None => held' \in AddrConns /\ stage[held'] # "unused",
         msgs' \in {msgs, <<>>}, at' = "stopped" => msgs' = <<>>,
         at' = "send" => at = "send" /\ cur' = cur /\ msgs' = msgs,
         \A s \in Srcs : conn_map'[s] # None /\ at' # "stopped" =>
           at # "stopped" /\ msgs' = msgs /\ (at = "send" /\ cur.src = s => at' = "send")
  PROVE  OrderInv'
<1>1. \A c \in AddrConns : stage[c] = "unused" => got'[c] = got[c] /\ rx'[c] = <<>>
  BY DEF OrderInv, Owned
<1>2. TTypes /\ Owned
  BY DEF OrderInv
<1>3. Owned'
  BY <1>1, <1>2, OwnedStays
<1>4. \A c \in AddrConns : All(c)' = All(c) \/ (got'[c] = got[c] /\ rx'[c] = <<>> /\ up'[c] # "run")
  BY DEF All
<1> QED
  BY <1>3, <1>4, NothingComes

\* Steps that leave what the order is about alone.
LEMMA SameOrder ==
  ASSUME OrderInv, TTypes',
         UNCHANGED <<at, cur, sent, conn_map, queue, src, stage, rx, got, up, msgs, held>>
  PROVE  OrderInv'
<1>1. /\ \A i \in DOMAIN queue : queue[i] \in AddrConns /\ stage[queue[i]] # "unused"
      /\ held # None => held \in AddrConns /\ stage[held] # "unused"
      /\ at = "stopped" => msgs = <<>>
  BY DEF OrderInv, Owned, TTypes, ListenerTypes
<1> QED
  BY <1>1, KeptOrder

LEMMA TaskOrder ==
  ASSUME OrderInv, SendErrRemoves \/ TaskOffer \/ TaskOfferErr \/ TaskStop
  PROVE  OrderInv'
<1>t. TTypes' /\ TTypes
  BY TaskTypes DEF OrderInv
<1>1. /\ \A i \in DOMAIN queue : queue[i] \in AddrConns /\ stage[queue[i]] # "unused"
      /\ held # None => held \in AddrConns /\ stage[held] # "unused"
      /\ queue \in Seq(AddrConns)
      /\ at \in {"send", "offer"} => /\ cur.src \in Srcs /\ Target \in AddrConns
                                     /\ stage[Target] # "unused"
  BY DEF OrderInv, Owned, TTypes, ListenerTypes, Target, Datagrams
<1>2. CASE SendErrRemoves
  <2>1. /\ at = "send" /\ at' = "recv" /\ conn_map' = [conn_map EXCEPT ![cur.src] = None]
        /\ UNCHANGED <<sent, queue, src, stage, rx, got, up, msgs, held>>
    BY <1>2 DEF SendErrRemoves, tproxyVars
  <2>2. \A s \in Srcs : conn_map'[s] = IF s = cur.src THEN None ELSE conn_map[s]
    BY <1>t, <2>1 DEF TTypes, ListenerTypes
  <2> QED
    BY <1>t, <1>1, <2>1, <2>2, KeptOrder
<1>3. CASE TaskOffer
  <2>1. /\ at = "offer" /\ at' = "recv" /\ queue' = Append(queue, Target)
        /\ UNCHANGED <<sent, conn_map, src, stage, rx, got, up, msgs, held>>
    BY <1>3 DEF TaskOffer, Keep, OfferOk, tproxyVars
  <2>2. ASSUME NEW i \in DOMAIN queue' PROVE queue'[i] \in AddrConns /\ stage[queue'[i]] # "unused"
    <3>1. /\ queue' \in Seq(AddrConns) /\ Len(queue') = Len(queue) + 1 /\ Len(queue) \in Nat
          /\ queue'[Len(queue) + 1] = Target /\ \A j \in 1..Len(queue) : queue'[j] = queue[j]
      BY <1>1, <2>1, AppendLast
    <3>2. i \in 1..Len(queue) \/ i = Len(queue) + 1
      BY <3>1
    <3>3. DOMAIN queue = 1..Len(queue)
      BY <1>1
    <3> QED
      BY <1>1, <2>1, <3>1, <3>2, <3>3
  <2> QED
    BY <1>t, <1>1, <2>1, <2>2, KeptOrder
<1>4. CASE TaskOfferErr
  <2>1. /\ at = "offer" /\ at' = "stopped" /\ msgs' = <<>> /\ Drop({Target})
        /\ UNCHANGED <<sent, conn_map, queue, src, got, held>>
    BY <1>4 DEF TaskOfferErr, OfferErr
  <2>2. {Target} \in SUBSET AddrConns /\ \A c \in {Target} : stage[c] # "unused"
    BY <1>1, <2>1
  <2> QED
    BY <1>t, <2>1, <2>2, DropOrder
<1>5. CASE TaskStop
  <2>1. /\ at' = "stopped" /\ msgs' = <<>>
        /\ UNCHANGED <<sent, conn_map, queue, src, stage, rx, got, up, held>>
    BY <1>5 DEF TaskStop, Stop
  <2> QED
    BY <1>t, <1>1, <2>1, KeptOrder
<1> QED
  BY <1>2, <1>3, <1>4, <1>5

LEMMA AcceptOrder ==
  ASSUME OrderInv, ListenerAccept \/ Pass \/ PassErr \/ Shutdown
  PROVE  OrderInv'
<1>t. TTypes' /\ TTypes
  BY AcceptTypes DEF OrderInv
<1>1. /\ \A i \in DOMAIN queue : queue[i] \in AddrConns /\ stage[queue[i]] # "unused"
      /\ held # None => held \in AddrConns /\ stage[held] # "unused"
      /\ queue \in Seq(AddrConns) /\ (at = "stopped" => msgs = <<>>)
  BY DEF OrderInv, Owned, TTypes, ListenerTypes
<1>2. CASE ListenerAccept
  <2>1. /\ queue # <<>> /\ held' = Head(queue) /\ queue' = Tail(queue)
        /\ UNCHANGED <<at, cur, sent, conn_map, src, stage, rx, got, up, msgs>>
    BY <1>2 DEF ListenerAccept, listenVars
  <2>2. /\ Head(queue) = queue[1] /\ 1 \in DOMAIN queue
        /\ \A i \in DOMAIN Tail(queue) : Tail(queue)[i] = queue[i + 1] /\ i + 1 \in DOMAIN queue
    BY <1>1, <2>1
  <2>3. \A i \in DOMAIN queue' : queue'[i] \in AddrConns /\ stage[queue'[i]] # "unused"
    BY <1>1, <2>1, <2>2
  <2>4. held' # None => held' \in AddrConns /\ stage[held'] # "unused"
    BY <1>1, <2>1, <2>2
  <2> QED
    BY <1>t, <1>1, <2>1, <2>3, <2>4, KeptOrder
<1>3. CASE Pass
  <2>1. /\ held # None /\ stage' = [stage EXCEPT ![held] = "dialing"] /\ held' = None
        /\ UNCHANGED <<at, cur, sent, conn_map, queue, src, rx, got, up, msgs>>
    BY <1>3 DEF Pass, listenVars
  <2>2. \A c \in AddrConns : stage'[c] = "unused" <=> stage[c] = "unused"
    BY <1>t, <1>1, <2>1 DEF TTypes, ConnTypes
  <2> QED
    BY <1>t, <1>1, <2>1, <2>2, KeptOrder
<1>4. CASE PassErr
  <2> DEFINE cs == {held} \cup {queue[i] : i \in DOMAIN queue}
  <2>1. /\ held # None /\ Drop(cs) /\ queue' = <<>> /\ held' = None
        /\ UNCHANGED <<at, cur, sent, conn_map, src, got, msgs>>
    BY <1>4 DEF PassErr
  <2>2. cs \in SUBSET AddrConns /\ \A c \in cs : stage[c] # "unused"
    BY <1>1, <2>1
  <2> HIDE DEF cs
  <2> QED
    BY <1>t, <2>1, <2>2, DropOrder
<1>5. CASE Shutdown
  <2> DEFINE cs == {queue[i] : i \in DOMAIN queue}
  <2>1. /\ Drop(cs) /\ queue' = <<>>
        /\ UNCHANGED <<at, cur, sent, conn_map, src, got, msgs, held>>
    BY <1>5 DEF Shutdown, Keep, DropListener, tproxyVars
  <2>2. cs \in SUBSET AddrConns /\ \A c \in cs : stage[c] # "unused"
    BY <1>1, <2>1
  <2> HIDE DEF cs
  <2> QED
    BY <1>t, <2>1, <2>2, DropOrder
<1> QED
  BY <1>2, <1>3, <1>4, <1>5

LEMMA ReadOrder ==
  ASSUME OrderInv, NEW c \in AddrConns, Reader(c)
  PROVE  OrderInv'
<1>t. TTypes' /\ TTypes /\ Owned
  BY ConnStepTypes DEF OrderInv
<1>1. /\ stage[c] \in {"mixed", "paired"} /\ rx[c] # <<>>
      /\ got' = [got EXCEPT ![c] = Append(@, Head(rx[c]))] /\ rx' = [rx EXCEPT ![c] = Tail(@)]
      /\ stage' = [stage EXCEPT ![c] = IF @ = "mixed" THEN "writing" ELSE @]
      /\ UNCHANGED <<at, cur, sent, conn_map, queue, src, up, msgs, held>>
  BY DEF Reader, Keep, Read, listenVars, tproxyVars
<1>2. \A d \in AddrConns : d # c => got'[d] = got[d] /\ rx'[d] = rx[d]
  BY <1>t, <1>1 DEF TTypes, ConnTypes
<1>3. All(c)' = All(c)
  <2>1. /\ got[c] \in Seq(Datagrams) /\ rx[c] \in Seq(Datagrams)
        /\ got'[c] = Append(got[c], Head(rx[c])) /\ rx'[c] = Tail(rx[c])
    BY <1>t, <1>1 DEF TTypes, ConnTypes
  <2> QED
    BY <1>1, <2>1, ReadSame DEF All
<1>4. \A d \in AddrConns : All(d)' = All(d)
  BY <1>2, <1>3 DEF All
<1>s. \A d \in AddrConns : stage'[d] = "unused" <=> stage[d] = "unused"
  BY <1>t, <1>1 DEF TTypes, ConnTypes
<1>5. Owned'
  BY <1>t, <1>1, <1>2, <1>s DEF Owned, TTypes, ListenerTypes
<1>6. at = "stopped" => msgs = <<>>
  BY DEF OrderInv
<1> QED
  BY <1>t, <1>1, <1>4, <1>5, <1>6, NothingComes

LEMMA ConnOrder ==
  ASSUME OrderInv, NEW c \in AddrConns, Writer(c) \/ Relaying(c)
  PROVE  OrderInv'
<1>t. TTypes' /\ TTypes
  BY ConnStepTypes DEF OrderInv
<1>1. /\ \A i \in DOMAIN queue : queue[i] \in AddrConns /\ stage[queue[i]] # "unused"
      /\ held # None => held \in AddrConns /\ stage[held] # "unused"
      /\ at = "stopped" => msgs = <<>>
  BY DEF OrderInv, Owned, TTypes, ListenerTypes
<1>k. UNCHANGED <<at, cur, sent, queue, src, got, msgs, held>>
  BY DEF Writer, Relaying, Keep, Close, ClosePending, SelectNone, StartRelay, EarlyWritten, EarlyFail, Wrote, MixedEnd,
         UpEnd, DownEnd, CpNotice, FarEndWakes, DialFail, listenVars, tproxyVars
<1>2. CASE Close(c)
  <2>1. at # "send" /\ conn_map' = [conn_map EXCEPT ![src[c]] = None]
    BY <1>2 DEF Close, Locked
  <2>2. \/ UNCHANGED <<stage, rx, up>>
        \/ /\ stage[c] = "turned" /\ stage' = [stage EXCEPT ![c] = "gone"]
           /\ up' = [up EXCEPT ![c] = "ended"] /\ rx' = [rx EXCEPT ![c] = <<>>]
    BY <1>2 DEF Close
  <2>3. \A s \in Srcs : conn_map'[s] \in {conn_map[s], None}
    BY <1>t, <2>1 DEF TTypes, ListenerTypes
  <2>4. \A d \in AddrConns : /\ stage'[d] = "unused" <=> stage[d] = "unused"
                             /\ up'[d] = "run" => up[d] = "run"
                             /\ rx'[d] = rx[d] \/ (rx'[d] = <<>> /\ up'[d] # "run")
    BY <1>t, <2>2 DEF TTypes, ConnTypes
  <2> QED
    BY <1>t, <1>1, <1>k, <2>1, <2>3, <2>4, KeptOrder
<1>3. CASE DialFail(c) \/ EarlyFail(c) \/ MixedEnd(c)
  <2>1. Drop({c}) /\ conn_map' = conn_map /\ \A d \in {c} : stage[d] # "unused"
    BY <1>3 DEF DialFail, EarlyFail, MixedEnd
  <2> QED
    BY <1>t, <1>k, <2>1, DropOrder
<1>4. CASE SelectNone(c) \/ StartRelay(c) \/ EarlyWritten(c) \/ Wrote(c)
  <2>1. /\ stage[c] \in {"dialing", "early", "writing"} /\ UNCHANGED <<conn_map, rx, up>>
        /\ \E k \in {"turned", "early", "mixed", "paired"} : stage' = [stage EXCEPT ![c] = k]
    BY <1>4 DEF SelectNone, StartRelay, EarlyWritten, Wrote
  <2>2. \A d \in AddrConns : stage'[d] = "unused" <=> stage[d] = "unused"
    BY <1>t, <2>1 DEF TTypes, ConnTypes
  <2> QED
    BY <1>t, <1>1, <1>k, <2>1, <2>2, KeptOrder
<1>5. CASE UpEnd(c)
  <2>1. /\ UNCHANGED <<conn_map, stage>>
        /\ up' = [up EXCEPT ![c] = "ended"] /\ rx' = [rx EXCEPT ![c] = <<>>]
    BY <1>5 DEF UpEnd
  <2>2. \A d \in AddrConns : /\ up'[d] = "run" => up[d] = "run"
                             /\ rx'[d] = rx[d] \/ (rx'[d] = <<>> /\ up'[d] # "run")
    BY <1>t, <2>1 DEF TTypes, ConnTypes
  <2> QED
    BY <1>t, <1>1, <1>k, <2>1, <2>2, KeptOrder
<1>6. CASE ClosePending(c) \/ DownEnd(c) \/ CpNotice(c) \/ FarEndWakes(c)
  <2>1. UNCHANGED <<conn_map, stage, rx, up>>
    BY <1>6 DEF ClosePending, DownEnd, CpNotice, FarEndWakes
  <2> QED
    BY <1>t, <1>k, <2>1, SameOrder
<1> QED
  BY <1>2, <1>3, <1>4, <1>5, <1>6 DEF Writer, Relaying, Keep

LEMMA OrderStep == OrderInv /\ [TproxyNext]_tvars => OrderInv'
<1> SUFFICES ASSUME OrderInv, [TproxyNext]_tvars PROVE OrderInv'
  OBVIOUS
<1>t. TTypes
  BY DEF OrderInv
<1>b. Blank' => OrderInv'
  BY BlankOrder, PTL
<1>1. CASE Drops \/ Dies
  BY <1>1, <1>b, ResetBlank DEF Drops, Dies
<1>2. CASE Routing \/ UNCHANGED tvars
  <2>1. UNCHANGED <<at, cur, sent, conn_map, queue, src, stage, rx, got, up, thread, pos, msgs, held>>
    BY <1>2 DEF Routing, tvars, vars, listenVars, tproxyVars, threadVars
  <2>2. TTypes'
    BY <1>t, <2>1 DEF TTypes, ListenerTypes, ConnTypes, ThreadTypes
  <2> QED
    BY <2>1, <2>2, SameOrder
<1>3. CASE Start \/ ThreadEnd
  <2>1. /\ UNCHANGED <<at, cur, sent, conn_map, queue, src, stage, rx, got, up, pos, msgs, held>>
        /\ thread' \in {"recv", "ended"}
    BY <1>3 DEF Start, ThreadEnd, vars, listenVars
  <2>2. TTypes'
    BY <1>t, <2>1 DEF TTypes, ListenerTypes, ConnTypes, ThreadTypes
  <2> QED
    BY <2>1, <2>2, SameOrder
<1>4. CASE Reading
  BY <1>4, RecvOrder DEF Reading
<1>5. CASE TakeKnown
  BY <1>5, TakeKnownOrder
<1>6. CASE \E c \in AddrConns : TakeNew(c)
  BY <1>6, TakeNewOrder
<1>7. CASE TaskSend
  BY <1>7, SendOrder
<1>8. CASE SendErrRemoves \/ TaskOffer \/ TaskOfferErr \/ TaskStop
  BY <1>8, TaskOrder
<1>9. CASE ListenerAccept \/ Pass \/ PassErr \/ Shutdown
  BY <1>9, AcceptOrder
<1>10. CASE \E c \in AddrConns : Reader(c) \/ Writer(c) \/ Relaying(c)
  BY <1>10, ReadOrder, ConnOrder
<1> QED
  BY <1>1, <1>2, <1>3, <1>4, <1>5, <1>6, <1>7, <1>8, <1>9, <1>10 DEF TproxyNext, Tasks

LEMMA OrderAlways == TproxySpec => []OrderInv
<1>1. TproxyInit => OrderInv
  BY InitBlank, BlankOrder
<1> QED
  BY <1>1, OrderStep, PTL DEF TproxySpec

LEMMA InvTypeOK == OrderInv /\ RouteInv => TproxyTypeOK
<1> SUFFICES ASSUME OrderInv, RouteInv PROVE TproxyTypeOK
  OBVIOUS
<1> USE DEF OrderInv, TTypes
<1>1. Taken = Datagrams
  BY DEF Taken, Datagrams
<1>2. \A i \in DOMAIN msgs : Datagram(msgs[i]) \in Taken
  <2>1. \A m \in Msgs : Datagram(m) \in Datagrams
    BY DEF Msgs, Datagram, Datagrams
  <2>2. \A i \in DOMAIN msgs : msgs[i] \in Msgs
    BY DEF ThreadTypes
  <2> QED
    BY <1>1, <2>1, <2>2
<1>3. \A c \in AddrConns : \A i \in DOMAIN got[c] : got[c][i] \in Taken
  <2>1. \A c \in AddrConns : got[c] \in Seq(Datagrams)
    BY DEF ConnTypes
  <2> QED
    BY <1>1, <2>1
<1>4. phase \in {"off", "cleaning", "adding", "up", "dropping"} /\ fam \in Families
  BY DEF RouteInv, RouteTypes
<1> QED
  BY <1>1, <1>2, <1>3, <1>4 DEF TproxyTypeOK, ListenerTypes, ThreadTypes

LEMMA InvInOrder == OrderInv => DatagramsInOrder
<1> SUFFICES ASSUME OrderInv PROVE DatagramsInOrder
  OBVIOUS
<1> DEFINE all == [c \in AddrConns |-> got[c] \o rx[c]]
           queued(s) == {msgs[i].n : i \in {j \in DOMAIN msgs : msgs[j].src = s}}
                        \cup (IF at = "send" /\ cur.src = s THEN {cur.n} ELSE {})
           Earlier(c, d) == \A x \in DOMAIN all[c], y \in DOMAIN all[d] : all[c][x].n < all[d][y].n
<1>1. \A c \in AddrConns : all[c] = All(c) /\ DOMAIN all[c] = 1..Len(All(c))
  <2>1. \A c \in AddrConns : all[c] = All(c)
    BY DEF All
  <2>2. \A c \in AddrConns : DOMAIN All(c) = 1..Len(All(c))
    BY AllTyped DEF OrderInv
  <2> QED
    BY <2>1, <2>2
<1>2. \A c, d \in AddrConns : Before(c, d) => Earlier(c, d)
  BY <1>1 DEF Before
<1>3. \A s : \A k \in Nat : Pending(s, k) => k \in queued(s)
  BY DEF Pending, InQueue, InHand
<1> HIDE DEF all, queued
<1>4. ASSUME NEW c \in AddrConns
      PROVE  \A i \in DOMAIN all[c] : /\ all[c][i].src = src[c]
                                      /\ i > 1 => all[c][i].n = all[c][i-1].n + 1
  BY <1>1 DEF OrderInv, Runs, Unbroken
<1>5. ASSUME NEW c \in AddrConns, NEW d \in AddrConns, c # d, src[c] = src[d]
      PROVE  Earlier(c, d) \/ Earlier(d, c)
  <2>1. CASE src[c] \in Srcs
    BY <1>2, <1>5, <2>1 DEF OrderInv, Succeed
  <2>2. CASE Len(All(c)) = 0
    BY <1>1, <2>2
  <2> QED
    BY <2>1, <2>2, KnownKey
<1>6. ASSUME NEW c \in AddrConns, at # "stopped", up[c] = "run", conn_map[src[c]] = c,
             NEW k \in 1..sent[src[c]]
      PROVE  k \in queued(src[c]) \/ k <= all[c][Len(all[c])].n
  <2>1. /\ All(c) # <<>> /\ src[c] \in Srcs /\ TTypes
        /\ \A l \in Nat : All(c)[Len(All(c))].n < l /\ l <= sent[src[c]] => Pending(src[c], l)
    BY <1>6 DEF OrderInv, Runs, Owned
  <2>2. sent[src[c]] \in Nat
    BY <2>1, BoundsAssumption DEF TTypes, ListenerTypes
  <2>3. All(c)[Len(All(c))].n \in Nat
    <3>1. All(c) \in Seq(Datagrams)
      BY <2>1, AllTyped
    <3>2. Len(All(c)) \in 1..Len(All(c))
      BY <2>1, <3>1
    <3> QED
      BY <2>1, <3>2, AllTyped
  <2>4. k \in Nat /\ k <= sent[src[c]]
    BY <2>2
  <2>5. k <= All(c)[Len(All(c))].n \/ All(c)[Len(All(c))].n < k
    BY <2>3, <2>4
  <2> QED
    BY <1>1, <1>3, <2>1, <2>4, <2>5
<1>7. \A c \in AddrConns :
        /\ \A i \in DOMAIN all[c] : /\ all[c][i].src = src[c]
                                    /\ i > 1 => all[c][i].n = all[c][i-1].n + 1
        /\ \A d \in AddrConns : c # d /\ src[c] = src[d] => Earlier(c, d) \/ Earlier(d, c)
        /\ at # "stopped" /\ up[c] = "run" /\ conn_map[src[c]] = c
             => \A n \in 1..sent[src[c]] : n \in queued(src[c]) \/ n <= all[c][Len(all[c])].n
  <2> HIDE DEF Earlier
  <2> QED
    BY <1>4, <1>5, <1>6
<1> QED
  BY <1>7, Zenon DEF DatagramsInOrder, all, queued

\* The buffers, the queues and the entries are what they are declared to be,
\* the position of the thread always leaves room for the longest datagram, and
\* the channel to the task never holds more than its capacity.
THEOREM TproxyTypeCorrect == TproxySpec => []TproxyTypeOK
<1>1. OrderInv /\ RouteInv => TproxyTypeOK
  BY InvTypeOK
<1> QED
  BY <1>1, OrderAlways, RouteInvAlways, PTL

\* What the AddrConns of a key give is what the thread read for it, in order:
\* none of a run is missing or doubled, runs of successive AddrConns do not
\* overlap, and up to the last one the task took nothing is missing as long as
\* the AddrConn has its entry and its Reader.
THEOREM OrderCorrect == TproxySpec => []DatagramsInOrder
<1>1. OrderInv => DatagramsInOrder
  BY InvInOrder
<1> QED
  BY <1>1, OrderAlways, PTL

-----------------------------------------------------------------------------
(* The buffers *)

\* What x datagrams can take at most, and how many of full length a buffer holds.
Span(x) == x * MTU
Full == BufLen \div MTU

\* With as many more the queue may have overwritten a datagram.
Bound == Full + (IF Full = 1 THEN 1 ELSE Full - 1)

LEMMA ProductNat == \A x, m \in Nat : x * m \in Nat /\ 0 * m = 0 /\ 1 * m = m
  OBVIOUS
LEMMA ProductSum == \A x, y, m \in Nat : (x + y) * m = x * m + y * m
  OBVIOUS
LEMMA ProductLess == \A x, y, m \in Nat : x <= y => x * m <= y * m
<1> SUFFICES ASSUME NEW x \in Nat, NEW y \in Nat, NEW m \in Nat, x <= y PROVE x * m <= y * m
  OBVIOUS
<1>1. y - x \in Nat /\ y = x + (y - x)
  OBVIOUS
<1>2. y * m = x * m + (y - x) * m
  BY <1>1, ProductSum
<1>3. (y - x) * m \in Nat /\ x * m \in Nat
  BY <1>1, ProductNat
<1> QED
  BY <1>2, <1>3

LEMMA Sizes == MTU \in Nat /\ MTU > 0 /\ BufLen \in Nat /\ Full \in Nat /\ Full >= 1
<1>1. MTU \in Nat /\ MTU > 0 /\ BufLen \in Nat /\ BufLen >= MTU
  BY LargestLen, BufferAssumption
<1>2. \A b, m \in Nat : m > 0 /\ b >= m => (b \div m) \in Nat /\ b \div m >= 1
  OBVIOUS
<1> QED
  BY <1>1, <1>2 DEF Full

LEMMA SpanNat == Span(0) = 0 /\ \A x \in Nat : Span(x) \in Nat
  BY Sizes, ProductNat DEF Span

LEMMA SpanSum ==
  ASSUME NEW x \in Nat, NEW y \in Nat
  PROVE  Span(x + y) = Span(x) + Span(y)
  BY Sizes, ProductSum DEF Span

LEMMA SpanNext ==
  ASSUME NEW x \in Nat
  PROVE  x + 1 \in Nat /\ Span(x + 1) = Span(x) + MTU
<1>1. Span(1) = MTU
  BY Sizes, ProductNat DEF Span
<1> QED
  BY <1>1, SpanSum

\* What is more than a buffer holds is more than Full.
LEMMA SpanMore ==
  ASSUME NEW x \in Nat, Span(x) > BufLen
  PROVE  x >= Full + 1
<1>1. BufLen < (Full + 1) * MTU
  <2>1. \A b, m \in Nat : m > 0 => b < ((b \div m) + 1) * m
    OBVIOUS
  <2> QED
    BY Sizes, <2>1 DEF Full
<1>2. Full + 1 \in Nat /\ Full \in Nat /\ BufLen \in Nat /\ MTU \in Nat
  BY Sizes
<1>3. Full * MTU <= BufLen
  <2>1. \A b, m \in Nat : m > 0 => (b \div m) * m <= b
    OBVIOUS
  <2> QED
    BY Sizes, <2>1 DEF Full
<1> SUFFICES ASSUME x <= Full PROVE FALSE
  BY <1>2
<1>4. x * MTU <= Full * MTU
  BY <1>2, ProductLess
<1>5. x * MTU \in Nat /\ Full * MTU \in Nat
  BY <1>2, ProductNat
<1> QED
  BY <1>2, <1>3, <1>4, <1>5 DEF Span

\* Where the thread is when it has read k datagrams behind m, x being its place:
\* further on in the buffer of m, ...
SamePass(m, k, x) == m.ok /\ m.buf = x[1] /\ m.rb <= x[2] /\ x[2] <= m.rb + Span(k)

\* ... in the other one, p of them being read when it left that of m, ...
LeftWith(m, p) == m.rb + Span(p + 1) > BufLen
OtherPass(m, k, x) ==
  /\ m.ok /\ m.buf # x[1]
  /\ \E p \in Nat : \E q \in Nat : k = p + q /\ LeftWith(m, p) /\ x[2] <= Span(q)

\* ... or back in that of m, where the q last ones have overwritten it or not.
NextPass(m, k, x) ==
  /\ m.buf = x[1]
  /\ \E p \in Nat : \E r \in Nat : \E q \in Nat :
       /\ k = p + r + q /\ LeftWith(m, p) /\ r >= Full /\ x[2] <= Span(q)
       /\ m.ok \/ Span(q) > m.lb

Since(m, k, x) == \/ SamePass(m, k, x) \/ OtherPass(m, k, x) \/ NextPass(m, k, x)
                  \/ k >= Full + Full

Sized(m) == m.lb \in Nat /\ m.rb \in Nat /\ m.buf \in {0, 1} /\ m.lb < m.rb /\ m.rb <= m.lb + MTU

\* Each queued datagram, while the thread reads and once it has ended.
BufferInv ==
  /\ \A i \in DOMAIN msgs : Sized(msgs[i])
  /\ thread = "off" => msgs = <<>>
  /\ thread = "recv" => \A i \in DOMAIN msgs : Since(msgs[i], Len(msgs) - i, pos)
  /\ thread = "ended" => \A i \in DOMAIN msgs : msgs[i].ok \/ Len(msgs) - i + 1 >= Bound

\* It is overwritten only with Bound datagrams behind it.
LEMMA OverwrittenLate ==
  ASSUME NEW m, Sized(m), NEW k \in Nat, NEW x, Since(m, k, x)
  PROVE  m.ok \/ k >= Bound
<1>1. Full \in Nat /\ Full >= 1 /\ MTU \in Nat /\ BufLen \in Nat
  BY Sizes
<1>2. CASE k >= Full + Full
  BY <1>1, <1>2 DEF Bound
<1>3. CASE NextPass(m, k, x) /\ ~m.ok
  <2>1. PICK p \in Nat : \E r \in Nat : \E q \in Nat :
          /\ k = p + r + q /\ LeftWith(m, p) /\ r >= Full /\ Span(q) > m.lb
    BY <1>3 DEF NextPass
  <2>2. PICK r \in Nat : \E q \in Nat :
          /\ k = p + r + q /\ LeftWith(m, p) /\ r >= Full /\ Span(q) > m.lb
    BY <2>1
  <2>3. PICK q \in Nat : k = p + r + q /\ LeftWith(m, p) /\ r >= Full /\ Span(q) > m.lb
    BY <2>2
  <2>4. q >= 1
    <3>1. q = 0 => Span(q) = 0
      BY SpanNat
    <3> QED
      BY <2>3, <3>1 DEF Sized
  <2>5. p + q + 2 >= Full + 1
    <3>1. Span(p) \in Nat /\ Span(q) \in Nat /\ Span(p + 1) = Span(p) + MTU
      BY SpanNat, SpanNext
    <3>2. Span(p + q) = Span(p) + Span(q) /\ p + q \in Nat
      BY SpanSum
    <3>3. Span((p + q) + 1) = Span(p + q) + MTU /\ (p + q) + 1 \in Nat
      BY <3>2, SpanNext
    <3>4. Span(((p + q) + 1) + 1) = Span((p + q) + 1) + MTU /\ ((p + q) + 1) + 1 \in Nat
      BY <3>3, SpanNext
    <3>5. m.rb + Span(p) + MTU > BufLen /\ m.rb <= m.lb + MTU /\ m.lb \in Nat /\ m.rb \in Nat
      BY <1>1, <2>3, <3>1 DEF LeftWith, Sized
    <3>6. Span(((p + q) + 1) + 1) > BufLen
      BY <1>1, <2>3, <3>1, <3>2, <3>3, <3>4, <3>5
    <3>7. ((p + q) + 1) + 1 >= Full + 1
      BY <3>4, <3>6, SpanMore
    <3> QED
      BY <3>7
  <2> QED
    BY <1>1, <2>3, <2>4, <2>5 DEF Bound
<1> QED
  BY <1>2, <1>3 DEF Since, SamePass, OtherPass

\* The next datagram is read at x, over what is there.
LEMMA SinceRead ==
  ASSUME NEW m, Sized(m), NEW k \in Nat, NEW x, x[1] \in {0, 1}, x[2] \in Nat, Since(m, k, x),
         NEW len \in Lens,
         NEW w, w.buf = m.buf, w.lb = m.lb, w.rb = m.rb,
         w.ok <=> m.ok /\ ~Overlap(m, x[1], x[2], x[2] + len)
  PROVE  Since(w, k + 1, Advance(x[1], x[2] + len))
<1> DEFINE y == x[2] + len
           z == Advance(x[1], y)
<1>1. /\ Full \in Nat /\ Full >= 1 /\ MTU \in Nat /\ BufLen \in Nat /\ len \in Nat /\ len <= MTU
      /\ y \in Nat /\ y = x[2] + len
  BY Sizes, LargestLen, BufferAssumption
<1>2. y + MTU > BufLen => z[1] = 1 - x[1] /\ z[2] = 0 /\ z[1] # x[1]
  BY DEF Advance
<1>3. ~(y + MTU > BufLen) => z[1] = x[1] /\ z[2] = y
  BY DEF Advance
<1>4. m.lb \in Nat /\ m.rb \in Nat /\ m.buf \in {0, 1}
  BY DEF Sized
<1>5. \A p : LeftWith(m, p) <=> LeftWith(w, p)
  BY DEF LeftWith
<1>o. Overlap(m, x[1], x[2], y) => m.buf = x[1] /\ m.lb < y /\ x[2] < m.rb
  BY DEF Overlap
<1> HIDE DEF y, z
<1>6. CASE SamePass(m, k, x)
  <2>1. w.ok /\ m.buf = x[1] /\ m.rb <= x[2] /\ x[2] <= m.rb + Span(k)
    BY <1>1, <1>4, <1>6, <1>o DEF SamePass, y
  <2>2. Span(k + 1) = Span(k) + MTU /\ Span(k) \in Nat
    BY SpanNext, SpanNat
  <2>3. y <= m.rb + Span(k + 1) /\ m.rb <= y
    BY <1>1, <1>4, <2>1, <2>2
  <2>4. CASE y + MTU > BufLen
    <3>1. LeftWith(w, k + 1)
      <4>1. Span((k + 1) + 1) = Span(k + 1) + MTU /\ Span(k + 1) \in Nat
        BY SpanNext, SpanNat
      <4>2. m.rb + Span((k + 1) + 1) > BufLen
        BY <1>1, <1>4, <2>3, <2>4, <4>1
      <4> QED
        BY <4>2 DEF LeftWith
    <3>2. k + 1 = (k + 1) + 0 /\ 0 \in Nat /\ k + 1 \in Nat /\ z[2] <= Span(0)
      BY <1>2, <2>4, SpanNat
    <3>3. OtherPass(w, k + 1, z)
      BY <1>2, <2>1, <2>4, <3>1, <3>2 DEF OtherPass
    <3> QED
      BY <3>3 DEF Since, y, z
  <2>5. CASE ~(y + MTU > BufLen)
    <3>1. SamePass(w, k + 1, z)
      BY <1>3, <2>1, <2>3, <2>5 DEF SamePass
    <3> QED
      BY <3>1 DEF Since, y, z
  <2> QED
    BY <2>4, <2>5
<1>7. CASE OtherPass(m, k, x)
  <2>1. PICK p \in Nat : \E q \in Nat : k = p + q /\ LeftWith(m, p) /\ x[2] <= Span(q)
    BY <1>7 DEF OtherPass
  <2>2. PICK q \in Nat : k = p + q /\ LeftWith(m, p) /\ x[2] <= Span(q)
    BY <2>1
  <2>3. w.ok /\ m.buf # x[1]
    BY <1>7, <1>o DEF OtherPass, y
  <2>4. Span(q + 1) = Span(q) + MTU /\ Span(q) \in Nat /\ q + 1 \in Nat
    BY SpanNext, SpanNat
  <2>5. y <= Span(q + 1) /\ k + 1 = p + (q + 1)
    BY <1>1, <2>2, <2>4
  <2>6. CASE y + MTU > BufLen
    <3>1. Span((q + 1) + 1) = Span(q + 1) + MTU /\ (q + 1) + 1 \in Nat
      BY <2>4, SpanNext
    <3>2. Span((q + 1) + 1) > BufLen
      BY <1>1, <2>4, <2>5, <2>6, <3>1
    <3>3. (q + 1) + 1 >= Full + 1
      BY <3>1, <3>2, SpanMore
    <3>4. q + 1 >= Full /\ k + 1 = p + (q + 1) + 0
      BY <1>1, <2>5, <3>3
    <3>5. w.buf = z[1] /\ z[2] <= Span(0) /\ 0 \in Nat
      BY <1>2, <1>4, <2>3, <2>6, SpanNat
    <3>6. LeftWith(w, p)
      BY <1>5, <2>2
    <3>7. NextPass(w, k + 1, z)
      BY <2>3, <2>4, <3>4, <3>5, <3>6 DEF NextPass
    <3> QED
      BY <3>7 DEF Since, y, z
  <2>7. CASE ~(y + MTU > BufLen)
    <3>1. OtherPass(w, k + 1, z)
      BY <1>3, <1>5, <2>2, <2>3, <2>4, <2>5, <2>7 DEF OtherPass
    <3> QED
      BY <3>1 DEF Since, y, z
  <2> QED
    BY <2>6, <2>7
<1>8. CASE NextPass(m, k, x)
  <2>1. PICK p \in Nat : \E r \in Nat : \E q \in Nat :
          /\ k = p + r + q /\ LeftWith(m, p) /\ r >= Full /\ x[2] <= Span(q)
          /\ m.ok \/ Span(q) > m.lb
    BY <1>8 DEF NextPass
  <2>2. PICK r \in Nat : \E q \in Nat :
          /\ k = p + r + q /\ LeftWith(m, p) /\ r >= Full /\ x[2] <= Span(q)
          /\ m.ok \/ Span(q) > m.lb
    BY <2>1
  <2>3. PICK q \in Nat :
          /\ k = p + r + q /\ LeftWith(m, p) /\ r >= Full /\ x[2] <= Span(q)
          /\ m.ok \/ Span(q) > m.lb
    BY <2>2
  <2>4. Span(q + 1) = Span(q) + MTU /\ Span(q) \in Nat /\ q + 1 \in Nat
    BY SpanNext, SpanNat
  <2>5. y <= Span(q + 1) /\ k + 1 = p + r + (q + 1)
    BY <1>1, <2>3, <2>4
  <2>6. CASE y + MTU > BufLen
    <3>1. Span((q + 1) + 1) = Span(q + 1) + MTU /\ (q + 1) + 1 \in Nat
      BY <2>4, SpanNext
    <3>2. Span((q + 1) + 1) > BufLen
      BY <1>1, <2>4, <2>5, <2>6, <3>1
    <3>3. (q + 1) + 1 >= Full + 1
      BY <3>1, <3>2, SpanMore
    <3>4. k + 1 >= Full + Full
      BY <1>1, <2>3, <2>5, <3>3
    <3> QED
      BY <3>4 DEF Since
  <2>7. CASE ~(y + MTU > BufLen)
    <3>1. w.ok \/ Span(q + 1) > w.lb
      <4>1. CASE m.ok /\ ~w.ok
        BY <1>1, <1>4, <1>o, <2>4, <2>5, <4>1 DEF y
      <4>2. CASE ~m.ok
        BY <1>1, <1>4, <2>3, <2>4, <4>2
      <4> QED
        BY <4>1, <4>2
    <3>2. w.buf = z[1] /\ z[2] <= Span(q + 1) /\ LeftWith(w, p)
      BY <1>3, <1>5, <1>8, <2>3, <2>5, <2>7 DEF NextPass
    <3>3. NextPass(w, k + 1, z)
      BY <2>3, <2>4, <2>5, <3>1, <3>2 DEF NextPass
    <3> QED
      BY <3>3 DEF Since, y, z
  <2> QED
    BY <2>6, <2>7
<1>9. CASE k >= Full + Full
  BY <1>1, <1>9 DEF Since
<1> QED
  BY <1>6, <1>7, <1>8, <1>9 DEF Since

\* The datagram that was just read is whole.
LEMMA SinceNew ==
  ASSUME NEW x, x[1] \in {0, 1}, x[2] \in Nat, NEW len \in Lens,
         NEW w, w.buf = x[1], w.rb = x[2] + len, w.ok
  PROVE  Since(w, 0, Advance(x[1], x[2] + len))
<1> DEFINE y == x[2] + len
           z == Advance(x[1], y)
<1>1. MTU \in Nat /\ BufLen \in Nat /\ len \in Nat /\ y \in Nat
  BY Sizes, BufferAssumption
<1>2. 0 \in Nat /\ 0 = 0 + 0 /\ Span(0) = 0
  BY SpanNat
<1>3. CASE y + MTU > BufLen
  <2>1. z[1] # x[1] /\ z[2] = 0
    BY <1>3 DEF Advance
  <2>2. 0 + 1 \in Nat /\ Span(0 + 1) = Span(0) + MTU
    BY <1>2, SpanNext
  <2>3. LeftWith(w, 0)
    BY <1>1, <1>2, <1>3, <2>2 DEF LeftWith
  <2>4. OtherPass(w, 0, z)
    BY <1>2, <2>1, <2>3 DEF OtherPass
  <2> QED
    BY <2>4 DEF Since
<1>4. CASE ~(y + MTU > BufLen)
  <2>1. z[1] = x[1] /\ z[2] = y
    BY <1>4 DEF Advance
  <2>2. SamePass(w, 0, z)
    BY <1>1, <1>2, <2>1 DEF SamePass
  <2> QED
    BY <2>2 DEF Since
<1> QED
  BY <1>3, <1>4

LEMMA RecvBuffers ==
  ASSUME TTypes, NEW s \in Srcs, NEW len \in Lens, Recv(s, len)
  PROVE  /\ pos' = Advance(pos[1], pos[2] + len) /\ thread = "recv"
         /\ \A i \in 1..Len(msgs) : msgs'[i] = Reread(i, pos[1], pos[2], pos[2] + len)
         /\ \/ Len(msgs') = Len(msgs) /\ thread' = "ended"
            \/ /\ Len(msgs') = Len(msgs) + 1 /\ thread' = "recv"
               /\ LET w == msgs'[Len(msgs) + 1]
                  IN  w.buf = pos[1] /\ w.lb = pos[2] /\ w.rb = pos[2] + len /\ w.ok
<1> DEFINE b == pos[1]
           lb == pos[2]
           m == [src |-> s, n |-> sent[s] + 1, buf |-> b, lb |-> lb, rb |-> lb + len, ok |-> TRUE]
           old == [i \in DOMAIN msgs |-> Reread(i, b, lb, lb + len)]
<1>1. /\ pos' = Advance(pos[1], pos[2] + len) /\ thread = "recv"
      /\ \/ msgs' = Append(old, m) /\ thread' = "recv"
         \/ msgs' = old /\ thread' = "ended"
  BY DEF Recv, Reread
<1>2. msgs \in Seq(Msgs) /\ Len(msgs) \in Nat /\ DOMAIN msgs = 1..Len(msgs)
  BY DEF TTypes, ThreadTypes
<1>3. old \in Seq(Msgs) /\ Len(old) = Len(msgs) /\ \A i \in 1..Len(msgs) : old[i] = Reread(i, b, lb, lb + len)
  <2>1. \A i \in 1..Len(msgs) : Reread(i, b, lb, lb + len) \in Msgs
    BY <1>2, RereadType
  <2>2. old \in [1..Len(msgs) -> Msgs] /\ \A i \in 1..Len(msgs) : old[i] = Reread(i, b, lb, lb + len)
    BY <1>2, <2>1
  <2> HIDE DEF old
  <2> QED
    BY <1>2, <2>2
<1>4. m.buf = b /\ m.lb = lb /\ m.rb = lb + len /\ m.ok
  OBVIOUS
<1> HIDE DEF old, m
<1>5. /\ Len(Append(old, m)) = Len(msgs) + 1 /\ Append(old, m)[Len(msgs) + 1] = m
      /\ \A i \in 1..Len(msgs) : Append(old, m)[i] = old[i]
  <2>1. \A q \in Seq(Msgs) : \A e : /\ Len(Append(q, e)) = Len(q) + 1 /\ Append(q, e)[Len(q) + 1] = e
                                    /\ \A i \in 1..Len(q) : Append(q, e)[i] = q[i]
    OBVIOUS
  <2> QED
    BY <1>3, <2>1
<1> QED
  BY <1>1, <1>3, <1>4, <1>5

LEMMA RereadSized ==
  ASSUME TTypes, NEW i \in DOMAIN msgs, NEW b, NEW lb, NEW rb
  PROVE  LET m == msgs[i]
             w == Reread(i, b, lb, rb)
         IN  /\ w.buf = m.buf /\ w.lb = m.lb /\ w.rb = m.rb
             /\ w.ok <=> m.ok /\ ~Overlap(m, b, lb, rb)
<1>1. msgs[i] \in Msgs
  BY DEF TTypes, ThreadTypes
<1> QED
  BY <1>1 DEF Reread, Msgs

LEMMA BlankBuffers == Blank => BufferInv
<1>1. DOMAIN <<>> = {}
  OBVIOUS
<1> QED
  BY <1>1 DEF Blank, BufferInv

LEMMA RecvBuffered ==
  ASSUME TTypes, BufferInv, NEW s \in Srcs, NEW len \in Lens, Recv(s, len)
  PROVE  BufferInv'
<1> DEFINE N == Len(msgs)
<1>1. /\ pos' = Advance(pos[1], pos[2] + len) /\ thread = "recv"
      /\ \A i \in 1..N : msgs'[i] = Reread(i, pos[1], pos[2], pos[2] + len)
      /\ \/ Len(msgs') = N /\ thread' = "ended"
         \/ /\ Len(msgs') = N + 1 /\ thread' = "recv"
            /\ LET w == msgs'[N + 1]
               IN  w.buf = pos[1] /\ w.lb = pos[2] /\ w.rb = pos[2] + len /\ w.ok
  BY RecvBuffers
<1>2. /\ N \in Nat /\ DOMAIN msgs = 1..N /\ pos[1] \in {0, 1} /\ pos[2] \in Nat
      /\ len \in Nat /\ len > 0 /\ len <= MTU /\ MTU \in Nat
  <2>1. pos \in {0, 1} \X (0..BufLen - MTU)
    BY DEF TTypes, ThreadTypes
  <2>2. pos[1] \in {0, 1} /\ pos[2] \in Nat
    BY <2>1, AdvanceType
  <2> QED
    BY <2>2, LargestLen, BufferAssumption DEF TTypes, ThreadTypes
<1>3. msgs' \in Seq(Msgs) /\ DOMAIN msgs' = 1..Len(msgs')
  BY RecvShape
<1>4. ASSUME NEW i \in 1..N
      PROVE  Sized(msgs'[i]) /\ Since(msgs'[i], N - i + 1, pos')
  <2>1. Sized(msgs[i]) /\ Since(msgs[i], N - i, pos)
    BY <1>1, <1>2 DEF BufferInv
  <2>2. /\ msgs'[i].buf = msgs[i].buf /\ msgs'[i].lb = msgs[i].lb /\ msgs'[i].rb = msgs[i].rb
        /\ msgs'[i].ok <=> msgs[i].ok /\ ~Overlap(msgs[i], pos[1], pos[2], pos[2] + len)
    BY <1>1, <1>2, RereadSized
  <2>3. N - i \in Nat
    BY <1>2
  <2>4. Since(msgs'[i], (N - i) + 1, pos')
    <3>1. pos[1] \in {0, 1} /\ pos[2] \in Nat
      BY <1>2
    <3>2. Since(msgs'[i], (N - i) + 1, Advance(pos[1], pos[2] + len))
      BY <2>1, <2>2, <2>3, <3>1, SinceRead
    <3> QED
      BY <1>1, <3>2
  <2> QED
    BY <2>1, <2>2, <2>4 DEF Sized
<1>5. CASE Len(msgs') = N /\ thread' = "ended"
  <2>1. ASSUME NEW i \in 1..N PROVE msgs'[i].ok \/ Len(msgs') - i + 1 >= Bound
    <3>1. N - i + 1 \in Nat
      BY <1>2
    <3> QED
      BY <1>4, <1>5, <3>1, OverwrittenLate
  <2> QED
    BY <1>3, <1>4, <1>5, <2>1 DEF BufferInv
<1>6. CASE /\ Len(msgs') = N + 1 /\ thread' = "recv"
           /\ LET w == msgs'[N + 1]
              IN  w.buf = pos[1] /\ w.lb = pos[2] /\ w.rb = pos[2] + len /\ w.ok
  <2>1. Since(msgs'[N + 1], 0, pos')
    BY <1>1, <1>2, <1>6, SinceNew
  <2>2. Sized(msgs'[N + 1])
    BY <1>2, <1>6 DEF Sized
  <2>3. ASSUME NEW i \in 1..(N + 1) PROVE Sized(msgs'[i]) /\ Since(msgs'[i], Len(msgs') - i, pos')
    <3>1. CASE i = N + 1
      <4>1. Len(msgs') - i = 0
        BY <1>2, <1>6, <3>1
      <4> QED
        BY <2>1, <2>2, <3>1, <4>1
    <3>2. CASE i # N + 1
      <4>1. i \in 1..N /\ Len(msgs') - i = N - i + 1
        BY <1>2, <1>6, <3>2
      <4> QED
        BY <1>4, <4>1
    <3> QED
      BY <3>1, <3>2
  <2> QED
    BY <1>3, <1>6, <2>3 DEF BufferInv
<1> QED
  BY <1>1, <1>5, <1>6

\* What is taken from the queue leaves each of the others as many behind it.
LEMMA BuffersStay ==
  ASSUME TTypes, BufferInv, pos' = pos, thread' = thread,
         msgs' \in {msgs, <<>>} \/ (msgs # <<>> /\ msgs' = Tail(msgs))
  PROVE  BufferInv'
<1>1. CASE msgs' = msgs
  BY <1>1 DEF BufferInv
<1>2. CASE msgs' = <<>>
  <2>1. DOMAIN msgs' = {}
    BY <1>2
  <2> QED
    BY <1>2, <2>1 DEF BufferInv
<1>3. CASE msgs # <<>> /\ msgs' = Tail(msgs)
  <2>1. /\ msgs' \in Seq(Msgs) /\ Len(msgs') = Len(msgs) - 1 /\ Len(msgs) \in Nat
        /\ \A i \in 1..Len(msgs) - 1 : msgs'[i] = msgs[i + 1] /\ i + 1 \in DOMAIN msgs
    BY <1>3, QueueTypes DEF TTypes, ThreadTypes
  <2>2. \A i \in DOMAIN msgs' : /\ msgs'[i] = msgs[i + 1] /\ i + 1 \in DOMAIN msgs
                                /\ Len(msgs') - i = Len(msgs) - (i + 1)
    BY <2>1
  <2>3. \A i \in DOMAIN msgs' : Sized(msgs'[i])
    BY <2>2 DEF BufferInv
  <2>4. thread' # "off"
    BY <1>3 DEF BufferInv
  <2>5. thread' = "recv" => \A i \in DOMAIN msgs' : Since(msgs'[i], Len(msgs') - i, pos')
    BY <2>2 DEF BufferInv
  <2>6. thread' = "ended" => \A i \in DOMAIN msgs' : msgs'[i].ok \/ Len(msgs') - i + 1 >= Bound
    BY <2>2 DEF BufferInv
  <2> QED
    BY <2>3, <2>4, <2>5, <2>6 DEF BufferInv
<1> QED
  BY <1>1, <1>2, <1>3

LEMMA ThreadEnds == TTypes /\ BufferInv /\ ThreadEnd => BufferInv'
<1> SUFFICES ASSUME TTypes, BufferInv, ThreadEnd PROVE BufferInv'
  OBVIOUS
<1>1. thread = "recv" /\ thread' = "ended" /\ msgs' = msgs
  BY DEF ThreadEnd
<1>2. ASSUME NEW i \in DOMAIN msgs PROVE msgs[i].ok \/ Len(msgs) - i + 1 >= Bound
  <2>1. Len(msgs) \in Nat /\ i \in 1..Len(msgs)
    BY DEF TTypes, ThreadTypes
  <2>2. Sized(msgs[i]) /\ Since(msgs[i], Len(msgs) - i, pos) /\ Len(msgs) - i \in Nat
    BY <1>1, <2>1 DEF BufferInv
  <2>3. msgs[i].ok \/ Len(msgs) - i >= Bound
    BY <2>2, OverwrittenLate
  <2>4. Bound \in Nat
    BY Sizes DEF Bound
  <2> QED
    BY <2>1, <2>3, <2>4
<1> QED
  BY <1>1, <1>2 DEF BufferInv

LEMMA BufferStep == TTypes /\ BufferInv /\ [TproxyNext]_tvars => BufferInv'
<1> SUFFICES ASSUME TTypes, BufferInv, [TproxyNext]_tvars PROVE BufferInv'
  OBVIOUS
<1>b. Blank' => BufferInv'
  BY BlankBuffers, PTL
<1>1. CASE Drops \/ Dies
  BY <1>1, <1>b, ResetBlank DEF Drops, Dies
<1>2. CASE Reading
  BY <1>2, RecvBuffered DEF Reading
<1>3. CASE ThreadEnd
  BY <1>3, ThreadEnds
<1>4. CASE Start
  <2>1. thread = "off" /\ thread' = "recv" /\ msgs' = msgs
    BY <1>4 DEF Start
  <2>2. msgs = <<>> /\ DOMAIN msgs' = {}
    BY <2>1 DEF BufferInv
  <2> QED
    BY <2>1, <2>2 DEF BufferInv
<1>5. CASE Routing \/ UNCHANGED tvars
  BY <1>5, BuffersStay DEF Routing, tvars, tproxyVars, threadVars
<1>6. CASE TakeKnown \/ \E c \in AddrConns : TakeNew(c)
  BY <1>6, BuffersStay DEF TakeKnown, TakeNew, Take, threadVars
<1>7. CASE TaskSend \/ TaskOffer \/ SendErrRemoves \/ Shutdown
  BY <1>7, BuffersStay DEF TaskSend, TaskOffer, SendErrRemoves, Shutdown, Keep, tproxyVars, threadVars
<1>8. CASE TaskOfferErr \/ TaskStop
  BY <1>8, BuffersStay DEF TaskOfferErr, TaskStop, threadVars
<1>9. CASE ListenerAccept \/ Pass \/ PassErr
  BY <1>9, BuffersStay DEF ListenerAccept, Pass, PassErr, threadVars
<1>10. CASE \E c \in AddrConns : Reader(c) \/ Writer(c) \/ Relaying(c)
  BY <1>10, BuffersStay DEF Reader, Writer, Relaying, Keep, tproxyVars, threadVars
<1> QED
  BY <1>1, <1>2, <1>3, <1>4, <1>5, <1>6, <1>7, <1>8, <1>9, <1>10 DEF TproxyNext, Tasks

LEMMA InvIntact == OrderInv /\ BufferInv => QueuedIntact
<1> SUFFICES ASSUME TTypes, BufferInv PROVE QueuedIntact
  BY DEF OrderInv
<1>1. ASSUME NEW i \in DOMAIN msgs, Len(msgs) - i + (IF thread = "ended" THEN 1 ELSE 0) < Bound
      PROVE  msgs[i].ok
  <2>1. Len(msgs) \in Nat /\ i \in 1..Len(msgs) /\ thread \in {"off", "recv", "ended"}
    BY DEF TTypes, ThreadTypes
  <2>2. Bound \in Nat
    BY Sizes DEF Bound
  <2>3. CASE thread = "recv"
    <3>1. Sized(msgs[i]) /\ Since(msgs[i], Len(msgs) - i, pos) /\ Len(msgs) - i \in Nat
      BY <2>1, <2>3 DEF BufferInv
    <3>2. msgs[i].ok \/ Len(msgs) - i >= Bound
      BY <3>1, OverwrittenLate
    <3> QED
      BY <1>1, <2>1, <2>2, <2>3, <3>2
  <2>4. CASE thread = "ended"
    <3>1. msgs[i].ok \/ Len(msgs) - i + 1 >= Bound
      BY <2>4 DEF BufferInv
    <3> QED
      BY <1>1, <2>1, <2>2, <2>4, <3>1
  <2>5. CASE thread = "off"
    <3>1. msgs = <<>>
      BY <2>5 DEF BufferInv
    <3> QED
      BY <2>1, <3>1
  <2> QED
    BY <2>1, <2>3, <2>4, <2>5
<1> QED
  BY <1>1 DEF QueuedIntact, Bound, Full

LEMMA BufferAlways == TproxySpec => []BufferInv
<1>1. TproxyInit => BufferInv
  BY InitBlank, BlankBuffers
<1>2. OrderInv => TTypes
  BY DEF OrderInv
<1> QED
  BY <1>1, <1>2, BufferStep, OrderAlways, PTL DEF TproxySpec

\* For any lengths of datagrams and any size of the buffers: a datagram that
\* waits for the task is overwritten only behind as many newer ones as the other
\* buffer holds at full length, and the rest of its own.
THEOREM IntactCorrect == TproxySpec => []QueuedIntact
<1>1. OrderInv /\ BufferInv => QueuedIntact
  BY InvIntact
<1> QED
  BY <1>1, OrderAlways, BufferAlways, PTL
=============================================================================
