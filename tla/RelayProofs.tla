----------------------------- MODULE RelayProofs -----------------------------
(***************************************************************************)
(* Theorems about Relay, for every finite set of connections and every     *)
(* bound on their traffic.                                                 *)
(***************************************************************************)
EXTENDS Relay, FiniteSetTheorems, TLAPS

\* A task that waits for its second direction knows which one came first.
FirstKnown == \A c \in Conns : pc[c] = "wait" => first[c] \in Dirs

\* TypeOK alone is not inductive: the totals CopyResult adds to gtr have a type
\* only because first is a direction when the task waits.
TInv == TypeOK /\ FirstKnown

USE DEF Sides, Dirs, Kinds, Stages, EdStates, HalfStates, DirStates

LEMMA TypeInit == Init => TInv
  BY BoundsAssumption DEF Init, TInv, TypeOK, FirstKnown

LEMMA DropType ==
  ASSUME half \in [Conns -> [Sides -> HalfStates]], NEW c \in Conns, DropBoth(c)
  PROVE  half' \in [Conns -> [Sides -> HalfStates]]
<1>1. [s \in Sides |-> Dropped(half[c][s])] \in [Sides -> HalfStates]
  BY DEF Dropped
<1> QED
  BY <1>1 DEF DropBoth

GtrType == [alive : Int, ub : Nat, db : Nat]

LEMMA GtrUp ==
  ASSUME gtr \in GtrType, gtr' = [gtr EXCEPT !.alive = @ + 1]
  PROVE  gtr' \in GtrType /\ gtr'.alive = gtr.alive + 1
  BY DEF GtrType

LEMMA GtrDown ==
  ASSUME gtr \in GtrType, gtr' = [gtr EXCEPT !.alive = @ - 1]
  PROVE  gtr' \in GtrType /\ gtr'.alive = gtr.alive - 1
  BY DEF GtrType

LEMMA GtrBytes ==
  ASSUME gtr \in GtrType, NEW n \in Nat,
         gtr' = [gtr EXCEPT !.ub = @ + n] \/ gtr' = [gtr EXCEPT !.db = @ + n]
  PROVE  gtr' \in GtrType /\ gtr'.alive = gtr.alive
  BY DEF GtrType

LEMMA GtrTotals ==
  ASSUME gtr \in GtrType, NEW m \in Nat, NEW n \in Nat,
         gtr' = [alive |-> gtr.alive, ub |-> gtr.ub + m, db |-> gtr.db + n]
  PROVE  gtr' \in GtrType /\ gtr'.alive = gtr.alive
  BY DEF GtrType

\* The type of a connection's own state survives the steps of its task that
\* set up the relay.
LEMMA TypeSetup == ASSUME TInv, NEW c \in Conns, Setup(c) PROVE TInv'
<1>d. DropBoth(c) => half' \in [Conns -> [Sides -> HalfStates]]
  BY DropType DEF TInv, TypeOK
<1> USE DEF TInv, TypeOK, FirstKnown, relayVars, streamVars, chanVars, Goto
<1>1. CASE InFold(c)
  BY <1>1 DEF InFold
<1>2. CASE SelectOut(c)
  BY <1>2 DEF SelectOut
<1>3. CASE SelectNone(c)
  BY <1>3 DEF SelectNone
<1>4. CASE DialFail(c)
  BY <1>4, <1>d DEF DialFail
<1>5. CASE DialOk(c)
  BY <1>5 DEF DialOk
<1>6. CASE Record(c)
  BY <1>6, BoundsAssumption DEF Record
<1>7. CASE RecordFail(c)
  BY <1>7, <1>d DEF RecordFail
<1>8. CASE CpStream(c)
  <2>1. half' \in [Conns -> [Sides -> HalfStates]]
    BY <1>8, <1>d DEF CpStream
  <2>2. PICK s \in {"end", "ed", "spawn", "count"} : pc' = [pc EXCEPT ![c] = s]
    BY <1>8 DEF CpStream, Begin
  <2>3. UNCHANGED <<streamVars, relayVars, gtr, chanVars>>
    BY <1>8 DEF CpStream
  <2> QED
    BY <2>1, <2>2, <2>3
<1>9. CASE WriteEd(c)
  <2>1. gtr' = gtr \/ gtr' = [gtr EXCEPT !.ub = @ + 1]
    BY <1>9 DEF WriteEd
  <2>2. gtr' \in GtrType
    BY <2>1, GtrBytes DEF GtrType
  <2> QED
    BY <1>9, <2>2 DEF WriteEd, Begin, GtrType
<1>10. CASE WriteEdFail(c)
  <2>1. half' \in [Conns -> [Sides -> HalfStates]]
    <3>1. CASE ShutBoth(c)
      BY <3>1 DEF ShutBoth
    <3>2. CASE half' = [half EXCEPT ![c]["in"] = "dropped", ![c]["out"] = "shut"]
      BY <3>2
    <3> QED
      BY <1>10, <1>d, <3>1, <3>2 DEF WriteEdFail
  <2> QED
    BY <1>10, <2>1 DEF WriteEdFail
<1> QED
  BY <1>1, <1>2, <1>3, <1>4, <1>5, <1>6, <1>7, <1>8, <1>9, <1>10 DEF Setup

\* ... and the steps of its copy loops.
LEMMA TypeRelaying == ASSUME TInv, NEW c \in Conns, Relaying(c) PROVE TInv'
<1>d. DropBoth(c) => half' \in [Conns -> [Sides -> HalfStates]]
  BY DropType DEF TInv, TypeOK
<1> USE DEF TInv, TypeOK, FirstKnown, relayVars, streamVars, chanVars, Goto
<1>1. CASE Spawn(c)
  BY <1>1 DEF Spawn, Run
<1>2. CASE Count(c)
  <2>1. gtr' \in GtrType
    BY <1>2, GtrUp DEF Count, GtrType
  <2>2. dir' \in [Conns -> [Dirs -> DirStates]]
    BY <1>2 DEF Count, Run
  <2> QED
    BY <1>2, <2>1, <2>2 DEF Count, GtrType
<1>3. CASE CpNotice(c)
  BY <1>3 DEF CpNotice
<1>4. CASE Uncount(c)
  <2>1. gtr' \in GtrType
    BY <1>4, GtrDown DEF Uncount, GtrType
  <2> QED
    BY <1>4, <2>1 DEF Uncount, GtrType
<1>5. CASE MixedEnd(c)
  <2>1. gtr' \in GtrType
    BY <1>5, GtrDown DEF MixedEnd, GtrType
  <2> QED
    BY <1>5, <1>d, <2>1 DEF MixedEnd, GtrType
<1>6. CASE AddrPanic(c)
  BY <1>6 DEF AddrPanic, SetDir
<1>7. CASE StreamError(c)
  BY <1>7, <1>d DEF StreamError
<1>8. CASE SelectFirst(c)
  BY <1>8 DEF SelectFirst
<1>9. CASE StreamEnd(c)
  <2>1. CopyResult(c)[1] \in Nat /\ CopyResult(c)[2] \in Nat
    BY <1>9, BoundsAssumption DEF StreamEnd, CopyResult, Other
  <2>2. gtr' \in GtrType
    BY <1>9, <2>1, GtrTotals DEF StreamEnd, GtrType
  <2> QED
    BY <1>9, <1>d, <2>2 DEF StreamEnd, GtrType
<1> QED
  BY <1>1, <1>2, <1>3, <1>4, <1>5, <1>6, <1>7, <1>8, <1>9 DEF Relaying

LEMMA TypeCopying ==
  ASSUME TInv, NEW c \in Conns, NEW d \in Dirs, Copying(c, d)
  PROVE  TInv'
<1> USE DEF TInv, TypeOK, FirstKnown, relayVars, streamVars, chanVars, SetDir
<1>1. CASE Forward(c, d)
  BY <1>1, BoundsAssumption DEF Forward
<1>2. CASE AddrBreak(c, d)
  BY <1>2 DEF AddrBreak
<1>3. CASE AddrAdd(c, d)
  <2>1. moved[c][d] \in Nat
    BY BoundsAssumption
  <2>2. gtr' \in GtrType
    BY <1>3, <2>1, GtrBytes DEF AddrAdd, GtrType
  <2> QED
    BY <1>3, <2>2 DEF AddrAdd, GtrType
<1>4. CASE AddrClose(c, d)
  BY <1>4 DEF AddrClose, Sink
<1>5. CASE StreamEof(c, d)
  BY <1>5 DEF StreamEof, Sink
<1> QED
  BY <1>1, <1>2, <1>3, <1>4, <1>5 DEF Copying

LEMMA TypeStep == TInv /\ [Next]_vars => TInv'
<1> SUFFICES ASSUME TInv, [Next]_vars PROVE TInv'
  OBVIOUS
<1>1. CASE RecorderRecv \/ RecorderGone
  BY <1>1, BoundsAssumption
     DEF RecorderRecv, RecorderGone, TInv, TypeOK, FirstKnown, relayVars, streamVars
<1>2. CASE UNCHANGED vars
  BY <1>2 DEF vars, TInv, TypeOK, FirstKnown
<1> QED
  BY <1>1, <1>2, TypeSetup, TypeRelaying, TypeCopying DEF Next

\* Every variable of the relays keeps its type, for any number of connections.
THEOREM TypeCorrect == Spec => []TypeOK
<1>1. TInv => TypeOK
  BY DEF TInv
<1> QED
  BY <1>1, TypeInit, TypeStep, PTL DEF Spec

-----------------------------------------------------------------------------
(* The count of live connections *)

\* A step leaves the set of counted connections and the count alone, or one
\* connection enters and the count grows, or one leaves and it shrinks.
Entered(c) == c \notin Counted /\ Counted' = Counted \cup {c} /\ gtr'.alive = gtr.alive + 1
Left(c)    == c \in Counted /\ Counted' = Counted \ {c} /\ gtr'.alive = gtr.alive - 1
Kept       == Counted' = Counted /\ gtr'.alive = gtr.alive

LEMMA GotoCounted ==
  ASSUME TypeOK, NEW c \in Conns, NEW s \in Stages, Goto(c, s)
  PROVE  Counted' = IF s \in CountedStages THEN Counted \cup {c} ELSE Counted \ {c}
  BY DEF TypeOK, Goto, Counted

LEMMA SetupCounts == ASSUME TInv, NEW c \in Conns, Setup(c) PROVE Kept
<1>t. TypeOK /\ gtr \in GtrType
  BY DEF TInv, TypeOK, GtrType
<1>1. gtr'.alive = gtr.alive
  <2>1. CASE WriteEd(c)
    <3>1. gtr' = gtr \/ gtr' = [gtr EXCEPT !.ub = @ + 1]
      BY <2>1 DEF WriteEd
    <3> QED
      BY <1>t, <3>1, GtrBytes
  <2>2. CASE ~WriteEd(c)
    BY <2>2 DEF Setup, InFold, SelectOut, SelectNone, DialFail, DialOk, Record,
                RecordFail, CpStream, WriteEdFail
  <2> QED
    BY <2>1, <2>2
<1>2. pc[c] \notin CountedStages
  BY DEF Setup, InFold, SelectOut, SelectNone, DialFail, DialOk, Record, RecordFail,
         CpStream, WriteEd, WriteEdFail, CountedStages
<1>3. PICK s \in Stages \ CountedStages : Goto(c, s)
  BY DEF Setup, InFold, SelectOut, SelectNone, DialFail, DialOk, Record, RecordFail,
         CpStream, Begin, WriteEd, WriteEdFail, CountedStages, Goto
<1> QED
  BY <1>t, <1>1, <1>2, <1>3, GotoCounted DEF Kept, Counted

LEMMA RelayingCounts ==
  ASSUME TInv, NEW c \in Conns, Relaying(c)
  PROVE  Kept \/ Entered(c) \/ Left(c)
<1>t. TypeOK /\ gtr \in GtrType
  BY DEF TInv, TypeOK, GtrType
<1> USE DEF CountedStages
<1>1. CASE Count(c)
  <2>1. pc[c] = "count" /\ Goto(c, "copy") /\ gtr'.alive = gtr.alive + 1
    BY <1>1, <1>t, GtrUp DEF Count
  <2> QED
    BY <2>1, <1>t, GotoCounted DEF Entered, Counted
<1>2. CASE Uncount(c)
  <2>1. pc[c] = "uncount" /\ Goto(c, "end") /\ gtr'.alive = gtr.alive - 1
    BY <1>2, <1>t, GtrDown DEF Uncount
  <2> QED
    BY <2>1, <1>t, GotoCounted DEF Left, Counted
<1>3. CASE MixedEnd(c)
  <2>1. pc[c] = "copy" /\ Goto(c, "end") /\ gtr'.alive = gtr.alive - 1
    BY <1>3, <1>t, GtrDown DEF MixedEnd
  <2> QED
    BY <2>1, <1>t, GotoCounted DEF Left, Counted
<1>4. CASE StreamEnd(c)
  <2>1. CopyResult(c)[1] \in Nat /\ CopyResult(c)[2] \in Nat
    BY <1>4, BoundsAssumption DEF StreamEnd, CopyResult, Other, TInv, TypeOK, FirstKnown
  <2>2. gtr'.alive = gtr.alive
    BY <1>4, <1>t, <2>1, GtrTotals DEF StreamEnd
  <2>3. pc[c] \in CountedStages /\ Goto(c, "uncount")
    BY <1>4 DEF StreamEnd
  <2> QED
    BY <2>2, <2>3, <1>t, GotoCounted DEF Kept, Counted
<1>5. CASE CpNotice(c) \/ StreamError(c) \/ SelectFirst(c)
  <2>1. PICK s \in {"uncount", "wait"} : Goto(c, s)
    BY <1>5 DEF CpNotice, StreamError, SelectFirst
  <2>2. pc[c] = "copy" /\ gtr' = gtr
    BY <1>5 DEF CpNotice, StreamError, SelectFirst
  <2> QED
    BY <2>1, <2>2, <1>t, GotoCounted DEF Kept, Counted
<1>6. CASE Spawn(c)
  <2>1. pc[c] = "spawn" /\ Goto(c, "count") /\ gtr' = gtr
    BY <1>6 DEF Spawn
  <2> QED
    BY <2>1, <1>t, GotoCounted DEF Kept, Counted
<1>7. CASE AddrPanic(c)
  BY <1>7 DEF AddrPanic, Kept, Counted
<1> QED
  BY <1>1, <1>2, <1>3, <1>4, <1>5, <1>6, <1>7 DEF Relaying

LEMMA CopyingCounts ==
  ASSUME TInv, NEW c \in Conns, NEW d \in Dirs, Copying(c, d)
  PROVE  Kept
<1>1. CASE AddrAdd(c, d)
  <2>1. gtr \in GtrType /\ moved[c][d] \in Nat
    BY BoundsAssumption DEF TInv, TypeOK, GtrType
  <2>2. gtr'.alive = gtr.alive
    BY <1>1, <2>1, GtrBytes DEF AddrAdd
  <2> QED
    BY <1>1, <2>2 DEF AddrAdd, Kept, Counted
<1>2. CASE ~AddrAdd(c, d)
  BY <1>2 DEF Copying, Forward, AddrBreak, AddrClose, StreamEof, Kept, Counted
<1> QED
  BY <1>1, <1>2

LEMMA StepCounts ==
  ASSUME TInv, [Next]_vars
  PROVE  Kept \/ \E c \in Conns : Entered(c) \/ Left(c)
<1>1. CASE RecorderRecv \/ RecorderGone \/ UNCHANGED vars
  BY <1>1 DEF RecorderRecv, RecorderGone, vars, Kept, Counted
<1> QED
  BY <1>1, SetupCounts, RelayingCounts, CopyingCounts DEF Next

AInv == TInv /\ AliveExact

LEMMA AliveInit == Init => AliveExact
<1> SUFFICES ASSUME Init PROVE AliveExact
  OBVIOUS
<1>1. Counted = {}
  BY DEF Init, Counted, CountedStages
<1> QED
  BY <1>1, FS_EmptySet DEF Init, AliveExact

LEMMA AliveStep == AInv /\ [Next]_vars => AInv'
<1> SUFFICES ASSUME AInv, [Next]_vars PROVE AliveExact'
  BY TypeStep DEF AInv
<1>1. IsFiniteSet(Counted)
  BY ConnsAssumption, FS_Subset DEF Counted
<1>2. CASE Kept
  BY <1>2 DEF Kept, AInv, AliveExact
<1>3. ASSUME NEW c \in Conns, Entered(c) PROVE AliveExact'
  BY <1>1, <1>3, FS_AddElement DEF Entered, AInv, AliveExact
<1>4. ASSUME NEW c \in Conns, Left(c) PROVE AliveExact'
  BY <1>1, <1>4, FS_RemoveElement DEF Left, AInv, AliveExact
<1> QED
  BY <1>2, <1>3, <1>4, StepCounts DEF AInv

\* alive_connection_count is the number of connections between fetch_add and
\* fetch_sub in every reachable state, for any number of connections.
THEOREM AliveCorrect == Spec => []AliveExact
<1>1. Init => AInv
  BY TypeInit, AliveInit DEF AInv
<1>2. AInv => AliveExact
  BY DEF AInv
<1> QED
  BY <1>1, <1>2, AliveStep, PTL DEF Spec

-----------------------------------------------------------------------------
(* The registry of connections *)

\* A step of the task of c moves c between the stages "before the count",
\* "counted" and "over", in that order, and no other connection.
LEMMA GotoPhase ==
  ASSUME TypeOK, NEW c \in Conns, NEW s \in Stages, Goto(c, s)
  PROVE  Phase' = [Phase EXCEPT ![c] = IF s \in CountedStages THEN "live"
                                       ELSE IF s = "end" THEN "gone" ELSE "pending"]
<1>1. \A x \in Conns : pc'[x] = IF x = c THEN s ELSE pc[x]
  BY DEF TypeOK, Goto
<1>2. \A x \in Conns : x \in Counted' <=> pc'[x] \in CountedStages
  BY DEF Counted
<1>3. \A x \in Conns : x \in Counted <=> pc[x] \in CountedStages
  BY DEF Counted
<1> QED
  BY <1>1, <1>2, <1>3 DEF Phase

PhaseOf(s) == IF s \in CountedStages THEN "live" ELSE IF s = "end" THEN "gone" ELSE "pending"

LEMMA PhaseAt == ASSUME NEW c \in Conns PROVE Phase[c] = PhaseOf(pc[c])
  BY DEF Phase, PhaseOf, Counted

LEMMA PhaseUnchanged == ASSUME pc' = pc PROVE Phase' = Phase
<1>1. Counted' = Counted
  BY DEF Counted
<1> QED
  BY <1>1 DEF Phase

\* What a step whose task goes to stage s is to the registry.
LEMMA RegistryMove ==
  ASSUME TypeOK, NEW c \in Conns, NEW s \in Stages, Goto(c, s),
         \/ PhaseOf(pc[c]) = PhaseOf(s) /\ gtr'.alive = gtr.alive
         \/ PhaseOf(pc[c]) = "pending" /\ PhaseOf(s) = "gone" /\ gtr'.alive = gtr.alive
         \/ PhaseOf(pc[c]) = "pending" /\ PhaseOf(s) = "live" /\ gtr'.alive = gtr.alive + 1
         \/ PhaseOf(pc[c]) = "live" /\ PhaseOf(s) = "gone" /\ gtr'.alive = gtr.alive - 1
  PROVE  [Registry!Next]_(Registry!vars)
<1>1. Phase' = [Phase EXCEPT ![c] = PhaseOf(s)]
  BY GotoPhase DEF PhaseOf
<1>2. Phase[c] = PhaseOf(pc[c])
  BY PhaseAt
<1>3. CASE PhaseOf(pc[c]) = PhaseOf(s) /\ gtr'.alive = gtr.alive
  <2>1. Phase' = Phase
    BY <1>1, <1>2, <1>3 DEF Phase
  <2> QED
    BY <2>1, <1>3 DEF Registry!vars
<1>4. CASE PhaseOf(pc[c]) = "pending" /\ PhaseOf(s) = "gone" /\ gtr'.alive = gtr.alive
  BY <1>1, <1>2, <1>4 DEF Registry!Next, Registry!TurnAway, Registry!Move
<1>5. CASE PhaseOf(pc[c]) = "pending" /\ PhaseOf(s) = "live" /\ gtr'.alive = gtr.alive + 1
  BY <1>1, <1>2, <1>5 DEF Registry!Next, Registry!Enter, Registry!Move
<1>6. CASE PhaseOf(pc[c]) = "live" /\ PhaseOf(s) = "gone" /\ gtr'.alive = gtr.alive - 1
  BY <1>1, <1>2, <1>6 DEF Registry!Next, Registry!Leave, Registry!Move
<1> QED
  BY <1>3, <1>4, <1>5, <1>6

LEMMA RegistryStep ==
  ASSUME TInv, [Next]_vars
  PROVE  [Registry!Next]_(Registry!vars)
<1>t. TypeOK /\ gtr \in GtrType
  BY DEF TInv, TypeOK, GtrType
<1>s. ASSUME pc' = pc, gtr'.alive = gtr.alive PROVE [Registry!Next]_(Registry!vars)
  BY <1>s, PhaseUnchanged DEF Registry!vars
<1>1. ASSUME NEW c \in Conns, Setup(c) PROVE [Registry!Next]_(Registry!vars)
  <2>1. gtr'.alive = gtr.alive
    BY <1>1, SetupCounts DEF Kept
  <2>2. PhaseOf(pc[c]) = "pending"
    BY <1>1 DEF Setup, InFold, SelectOut, SelectNone, DialFail, DialOk, Record,
                RecordFail, CpStream, WriteEd, WriteEdFail, CountedStages, PhaseOf
  <2>3. PICK s \in Stages \ CountedStages : Goto(c, s)
    BY <1>1 DEF Setup, InFold, SelectOut, SelectNone, DialFail, DialOk, Record, RecordFail,
                CpStream, Begin, WriteEd, WriteEdFail, CountedStages, Goto
  <2>4. PhaseOf(s) \in {"pending", "gone"}
    BY <2>3 DEF PhaseOf
  <2> QED
    BY <1>t, <2>1, <2>2, <2>3, <2>4, RegistryMove
<1>2. ASSUME NEW c \in Conns, Relaying(c) PROVE [Registry!Next]_(Registry!vars)
  <2> USE DEF CountedStages, PhaseOf
  <2>1. CASE Count(c)
    <3>1. pc[c] = "count" /\ Goto(c, "copy") /\ gtr'.alive = gtr.alive + 1
      BY <2>1, <1>t, GtrUp DEF Count
    <3> QED
      BY <3>1, <1>t, RegistryMove
  <2>2. CASE Uncount(c)
    <3>1. pc[c] = "uncount" /\ Goto(c, "end") /\ gtr'.alive = gtr.alive - 1
      BY <2>2, <1>t, GtrDown DEF Uncount
    <3> QED
      BY <3>1, <1>t, RegistryMove
  <2>3. CASE MixedEnd(c)
    <3>1. pc[c] = "copy" /\ Goto(c, "end") /\ gtr'.alive = gtr.alive - 1
      BY <2>3, <1>t, GtrDown DEF MixedEnd
    <3> QED
      BY <3>1, <1>t, RegistryMove
  <2>4. CASE StreamEnd(c)
    <3>1. CopyResult(c)[1] \in Nat /\ CopyResult(c)[2] \in Nat
      BY <2>4, BoundsAssumption DEF StreamEnd, CopyResult, Other, TInv, TypeOK, FirstKnown
    <3>2. gtr'.alive = gtr.alive
      BY <2>4, <1>t, <3>1, GtrTotals DEF StreamEnd
    <3>3. pc[c] \in {"copy", "wait"} /\ Goto(c, "uncount")
      BY <2>4 DEF StreamEnd
    <3> QED
      BY <3>2, <3>3, <1>t, RegistryMove
  <2>5. CASE CpNotice(c) \/ StreamError(c) \/ SelectFirst(c)
    <3>1. PICK s \in {"uncount", "wait"} : Goto(c, s)
      BY <2>5 DEF CpNotice, StreamError, SelectFirst
    <3>2. pc[c] = "copy" /\ gtr' = gtr
      BY <2>5 DEF CpNotice, StreamError, SelectFirst
    <3> QED
      BY <3>1, <3>2, <1>t, RegistryMove
  <2>6. CASE Spawn(c)
    <3>1. pc[c] = "spawn" /\ Goto(c, "count") /\ gtr' = gtr
      BY <2>6 DEF Spawn
    <3> QED
      BY <3>1, <1>t, RegistryMove
  <2>7. CASE AddrPanic(c)
    BY <2>7, <1>s DEF AddrPanic
  <2> QED
    BY <1>2, <2>1, <2>2, <2>3, <2>4, <2>5, <2>6, <2>7 DEF Relaying
<1>3. ASSUME NEW c \in Conns, NEW d \in Dirs, Copying(c, d)
      PROVE  [Registry!Next]_(Registry!vars)
  <2>1. pc' = pc
    BY <1>3 DEF Copying, Forward, AddrBreak, AddrAdd, AddrClose, StreamEof
  <2> QED
    BY <1>3, <1>s, <2>1, CopyingCounts DEF Kept
<1>4. CASE RecorderRecv \/ RecorderGone \/ UNCHANGED vars
  BY <1>4, <1>s DEF RecorderRecv, RecorderGone, vars
<1> QED
  BY <1>1, <1>2, <1>3, <1>4 DEF Next

LEMMA RegistryInit == Init => Registry!Init
<1> SUFFICES ASSUME Init PROVE Registry!Init
  OBVIOUS
<1>1. Phase = [c \in Conns |-> "pending"]
  BY DEF Init, Phase, Counted, CountedStages
<1> QED
  BY <1>1 DEF Init, Registry!Init

\* Relay implements RelayRegistry: whatever its streams are and however it
\* ends, a connection enters the count at most once and leaves it once.
THEOREM RegistryRefined == Spec => RegistrySpec
<1>1. Init /\ [][Next]_vars => []TInv
  BY TypeInit, TypeStep, PTL
<1>2. TInv /\ [Next]_vars => [Registry!Next]_(Registry!vars)
  BY RegistryStep
<1> QED
  BY <1>1, <1>2, RegistryInit, PTL DEF Spec, RegistrySpec, Registry!Spec

-----------------------------------------------------------------------------
(* The traffic *)

\* Until its copies start, both directions of a connection are idle; only those
\* of a datagram relay wait between their loop and their end; early data comes
\* with the outbound stream and is written while it is left.
IdleBefore == \A c \in Conns :
  pc[c] \in {"accepted", "select", "dial", "record", "cp_stream", "ed", "spawn"} =>
    \A d \in Dirs : dir[c][d] = "idle"
AddOfDatagrams == \A c \in Conns : \A d \in Dirs :
  dir[c][d] \in {"add", "close"} => DatagramRelay(c)
EdKnown == \A c \in Conns : /\ pc[c] \in {"accepted", "select", "dial"} => ed[c] = "none"
                            /\ pc[c] = "ed" => ed[c] = "left"
SInv == IdleBefore /\ AddOfDatagrams /\ EdKnown

LEMMA SidesInit == Init => SInv
  BY DEF Init, SInv, IdleBefore, AddOfDatagrams, EdKnown, DatagramRelay, IsPair

\* The stages of the tasks move on, and kinds are set, before any copy starts.
LEMMA SidesSetup == ASSUME TInv, SInv, NEW c \in Conns, Setup(c) PROVE SInv'
<1> USE DEF TInv, TypeOK, relayVars, streamVars, chanVars, Goto
<1>1. dir' = dir /\ \A x \in Conns \ {c} : pc'[x] = pc[x] /\ kind'[x] = kind[x] /\ ed'[x] = ed[x]
  BY DEF Setup, InFold, SelectOut, SelectNone, DialFail, DialOk, Record, RecordFail,
         CpStream, Begin, WriteEd, WriteEdFail
<1>2. \A d \in Dirs : dir[c][d] = "idle"
  BY DEF SInv, IdleBefore, Setup, InFold, SelectOut, SelectNone, DialFail, DialOk, Record,
         RecordFail, CpStream, Begin, WriteEd, WriteEdFail
<1>3. /\ pc'[c] \in {"accepted", "select", "dial"} => ed'[c] = "none"
      /\ pc'[c] = "ed" => ed'[c] = "left"
  BY DEF Setup, InFold, SelectOut, SelectNone, DialFail, DialOk, Record, RecordFail,
         CpStream, Begin, WriteEd, WriteEdFail, SInv, EdKnown
<1>4. IdleBefore'
  BY <1>1, <1>2 DEF SInv, IdleBefore
<1>5. AddOfDatagrams'
  <2> SUFFICES ASSUME NEW x \in Conns, NEW d \in Dirs, dir'[x][d] \in {"add", "close"}
               PROVE  DatagramRelay(x)'
    BY DEF AddOfDatagrams
  <2>1. x # c /\ dir[x][d] \in {"add", "close"}
    BY <1>1, <1>2
  <2>2. DatagramRelay(x) /\ kind'[x] = kind[x]
    BY <1>1, <2>1 DEF SInv, AddOfDatagrams
  <2> QED
    BY <2>2 DEF DatagramRelay, IsPair
<1>6. EdKnown'
  BY <1>1, <1>3 DEF SInv, EdKnown
<1> QED
  BY <1>4, <1>5, <1>6 DEF SInv

LEMMA SidesRelaying == ASSUME TInv, SInv, NEW c \in Conns, Relaying(c) PROVE SInv'
<1> USE DEF TInv, TypeOK, relayVars, streamVars, chanVars, Goto
<1>1. kind' = kind /\ ed' = ed
  BY DEF Relaying, Spawn, Count, CpNotice, Uncount, MixedEnd, AddrPanic, StreamError,
         SelectFirst, StreamEnd
<1>2. \A x \in Conns \ {c} : pc'[x] = pc[x] /\ dir'[x] = dir[x]
  BY DEF Relaying, Spawn, Count, CpNotice, Uncount, MixedEnd, AddrPanic, StreamError,
         SelectFirst, StreamEnd, Run, SetDir
<1>3. \A d \in Dirs : dir'[c][d] = dir[c][d] \/ dir'[c][d] \in {"run", "lost"}
  BY DEF Relaying, Spawn, Count, CpNotice, Uncount, MixedEnd, AddrPanic, StreamError,
         SelectFirst, StreamEnd, Run, SetDir
<1>4. pc'[c] \notin {"accepted", "select", "dial", "record", "cp_stream", "ed", "spawn"}
  <2>1. CASE AddrPanic(c)
    BY <2>1 DEF AddrPanic, SInv, IdleBefore
  <2> QED
    BY <2>1 DEF Relaying, Spawn, Count, CpNotice, Uncount, MixedEnd, StreamError,
                SelectFirst, StreamEnd
<1>5. IdleBefore'
  <2> SUFFICES ASSUME NEW x \in Conns, NEW d \in Dirs,
                      pc'[x] \in {"accepted", "select", "dial", "record", "cp_stream", "ed", "spawn"}
               PROVE  dir'[x][d] = "idle"
    BY DEF IdleBefore
  <2>1. x # c
    BY <1>4
  <2>2. pc'[x] = pc[x] /\ dir'[x] = dir[x]
    BY <1>2, <2>1
  <2> QED
    BY <2>2 DEF SInv, IdleBefore
<1>6. AddOfDatagrams'
  BY <1>1, <1>2, <1>3 DEF SInv, AddOfDatagrams, DatagramRelay, IsPair
<1>7. EdKnown'
  BY <1>1, <1>2, <1>4 DEF SInv, EdKnown
<1> QED
  BY <1>5, <1>6, <1>7 DEF SInv

LEMMA SidesCopying ==
  ASSUME TInv, SInv, NEW c \in Conns, NEW d \in Dirs, Copying(c, d)
  PROVE  SInv'
<1> USE DEF TInv, TypeOK, relayVars, streamVars, chanVars, SetDir
<1>1. pc' = pc /\ kind' = kind /\ ed' = ed
  BY DEF Copying, Forward, AddrBreak, AddrAdd, AddrClose, StreamEof
<1>2. dir[c][d] # "idle"
  BY DEF Copying, Forward, AddrBreak, AddrAdd, AddrClose, StreamEof
<1>3. \A x \in Conns, e \in Dirs : x # c \/ e # d => dir'[x][e] = dir[x][e]
  BY DEF Copying, Forward, AddrBreak, AddrAdd, AddrClose, StreamEof
<1>4. dir'[c][d] \in {"add", "close"} => DatagramRelay(c)
  BY DEF Copying, Forward, AddrBreak, AddrAdd, AddrClose, StreamEof, SInv, AddOfDatagrams
<1>5. IdleBefore'
  BY <1>1, <1>2, <1>3 DEF SInv, IdleBefore
<1>6. AddOfDatagrams'
  BY <1>1, <1>3, <1>4 DEF SInv, AddOfDatagrams, DatagramRelay, IsPair
<1>7. EdKnown'
  BY <1>1 DEF SInv, EdKnown
<1> QED
  BY <1>5, <1>6, <1>7 DEF SInv

LEMMA SidesStep == ASSUME TInv, SInv, [Next]_vars PROVE SInv'
<1>1. CASE RecorderRecv \/ RecorderGone \/ UNCHANGED vars
  BY <1>1 DEF RecorderRecv, RecorderGone, vars, relayVars, streamVars, SInv, IdleBefore,
              AddOfDatagrams, EdKnown, DatagramRelay, IsPair
<1> QED
  BY <1>1, SidesSetup, SidesRelaying, SidesCopying DEF Next

-----------------------------------------------------------------------------
\* The chunks 1 to m of a direction.
Span(c, d, m) == {<<c, d, n>> : n \in 1..m}

\* What one step puts into the recorder: nothing, early data, the chunks of one
\* direction of a datagram relay, or of both directions of a stream relay.
More(T) == \A c \in Conns, d \in Dirs, n \in 0..MaxChunks :
             IsRecorded(c, d, n)' <=> IsRecorded(c, d, n) \/ <<c, d, n>> \in T
New(T)  == \A x \in T : ~IsRecorded(x[1], x[2], x[3])
Grows(u, d) == gtr'.ub = gtr.ub + u /\ gtr'.db = gtr.db + d

RecordsNone == More({}) /\ Grows(0, 0)
RecordsEd(c) == /\ More({<<c, "u", 0>>}) /\ ~IsRecorded(c, "u", 0)
                /\ Grows(1, 0)
RecordsDir(c, d) == /\ More(Span(c, d, moved[c][d])) /\ New(Span(c, d, moved[c][d]))
                    /\ IF d = "u" THEN Grows(moved[c][d], 0) ELSE Grows(0, moved[c][d])
RecordsBoth(c) ==
  LET T == Span(c, "u", moved[c]["u"]) \cup Span(c, "d", moved[c]["d"])
  IN  /\ More(T) /\ New(T)
      /\ gtr'.ub + gtr'.db = gtr.ub + gtr.db + moved[c]["u"] + moved[c]["d"]
      /\ ~trace => gtr'.ub = gtr.ub + moved[c]["u"]

\* Whether a chunk is recorded hangs on the state of its own connection alone.
LEMMA RecordedKept ==
  ASSUME NEW c \in Conns, NEW d \in Dirs, NEW n \in 0..MaxChunks,
         ed'[c] = ed[c], moved'[c][d] = moved[c][d], dir'[c][d] = dir[c][d],
         kind'[c] = kind[c], pc'[c] \in {"uncount", "end"} <=> pc[c] \in {"uncount", "end"}
  PROVE  IsRecorded(c, d, n)' <=> IsRecorded(c, d, n)
  BY DEF IsRecorded, DatagramRelay, IsPair

\* No chunk of a direction that is not over is recorded, whatever else changes.
LEMMA NotYet ==
  ASSUME NEW c \in Conns, NEW d \in Dirs, NEW n \in 0..MaxChunks, n # 0,
         dir[c][d] \notin {"close", "done"}
  PROVE  ~IsRecorded(c, d, n)
  BY DEF IsRecorded

LEMMA NotYetPrime ==
  ASSUME NEW c \in Conns, NEW d \in Dirs, NEW n \in 0..MaxChunks, n # 0,
         dir'[c][d] \notin {"close", "done"}
  PROVE  ~IsRecorded(c, d, n)'
  BY DEF IsRecorded

LEMMA EdKept ==
  ASSUME NEW c \in Conns, NEW d \in Dirs, ed'[c] = "counted" <=> ed[c] = "counted"
  PROVE  IsRecorded(c, d, 0)' <=> IsRecorded(c, d, 0)
  BY DEF IsRecorded

LEMMA SetupRecords ==
  ASSUME TInv, SInv, NEW c \in Conns, Setup(c)
  PROVE  RecordsNone \/ RecordsEd(c)
<1> USE DEF TInv, TypeOK, relayVars, streamVars, chanVars, Goto
<1>1. dir' = dir /\ moved' = moved
      /\ \A x \in Conns \ {c} : pc'[x] = pc[x] /\ kind'[x] = kind[x] /\ ed'[x] = ed[x]
  BY DEF Setup, InFold, SelectOut, SelectNone, DialFail, DialOk, Record, RecordFail,
         CpStream, Begin, WriteEd, WriteEdFail
<1>2. \A d \in Dirs : dir[c][d] = "idle"
  BY DEF SInv, IdleBefore, Setup, InFold, SelectOut, SelectNone, DialFail, DialOk, Record,
         RecordFail, CpStream, Begin, WriteEd, WriteEdFail
<1>3. ASSUME NEW x \in Conns, NEW d \in Dirs, NEW n \in 0..MaxChunks, n # 0 \/ x # c
      PROVE  IsRecorded(x, d, n)' <=> IsRecorded(x, d, n)
  <2>1. CASE x # c
    <3>1. ed'[x] = ed[x] /\ moved'[x][d] = moved[x][d] /\ dir'[x][d] = dir[x][d]
          /\ kind'[x] = kind[x] /\ pc'[x] = pc[x]
      BY <1>1, <2>1
    <3> QED
      BY <3>1, RecordedKept
  <2>2. CASE x = c
    <3>1. n # 0 /\ dir[x][d] = "idle" /\ dir'[x][d] = "idle"
      BY <1>1, <1>2, <1>3, <2>2
    <3> QED
      BY <3>1, NotYet, NotYetPrime
  <2> QED
    BY <2>1, <2>2
<1>4. CASE WriteEd(c) /\ StreamRelay(c)
  <2>1. ed[c] = "left" /\ ed'[c] = "counted"
    BY <1>4 DEF WriteEd, SInv, EdKnown
  <2>2. More({<<c, "u", 0>>}) /\ ~IsRecorded(c, "u", 0)
    <3>1. ~IsRecorded(c, "u", 0) /\ IsRecorded(c, "u", 0)'
      BY <2>1 DEF IsRecorded
    <3>2. ~IsRecorded(c, "d", 0) /\ ~IsRecorded(c, "d", 0)'
      BY DEF IsRecorded
    <3> QED
      BY <1>3, <3>1, <3>2 DEF More
  <2>3. Grows(1, 0)
    BY <1>4 DEF WriteEd, Grows
  <2> QED
    BY <2>2, <2>3 DEF RecordsEd
<1>5. CASE ~(WriteEd(c) /\ StreamRelay(c))
  <2>1. gtr' = gtr
    BY <1>5 DEF Setup, InFold, SelectOut, SelectNone, DialFail, DialOk, Record, RecordFail,
         CpStream, Begin, WriteEd, WriteEdFail
  <2>2. ed'[c] = "counted" <=> ed[c] = "counted"
    <3>1. CASE DialOk(c)
      <4>1. ed[c] = "none" /\ ed'[c] \in {"none", "left"}
        BY <3>1 DEF DialOk, SInv, EdKnown
      <4> QED
        BY <4>1
    <3>2. CASE WriteEd(c)
      BY <1>5, <3>2 DEF WriteEd, SInv, EdKnown
    <3> QED
      BY <3>1, <3>2 DEF Setup, InFold, SelectOut, SelectNone, DialFail, Record, RecordFail,
         CpStream, Begin, WriteEdFail
  <2>3. More({})
    BY <1>3, <2>2, EdKept DEF More
  <2>4. Grows(0, 0)
    BY <2>1 DEF Grows
  <2> QED
    BY <2>3, <2>4 DEF RecordsNone
<1> QED
  BY <1>4, <1>5

\* A relay that is not one of datagrams shows its totals when it stops counting.
LEMMA NotCopied ==
  ASSUME NEW c \in Conns, NEW d \in Dirs, NEW n \in 0..MaxChunks, n # 0,
         ~DatagramRelay(c), pc[c] \notin {"uncount", "end"}
  PROVE  ~IsRecorded(c, d, n)
  BY DEF IsRecorded

LEMMA OthersRelaying ==
  ASSUME TInv, NEW c \in Conns, Relaying(c),
         NEW x \in Conns, x # c, NEW d \in Dirs, NEW n \in 0..MaxChunks
  PROVE  IsRecorded(x, d, n)' <=> IsRecorded(x, d, n)
<1>1. /\ ed'[x] = ed[x] /\ moved'[x] = moved[x] /\ dir'[x] = dir[x]
      /\ kind'[x] = kind[x] /\ pc'[x] = pc[x]
  BY DEF TInv, TypeOK, relayVars, streamVars, chanVars, Goto, Relaying, Spawn, Count,
         CpNotice, Uncount, MixedEnd, AddrPanic, StreamError, SelectFirst, StreamEnd, Run, SetDir
<1> QED
  BY <1>1, RecordedKept

\* The end of a stream relay with both totals.
LEMMA StreamEndRecords ==
  ASSUME TInv, SInv, NEW c \in Conns, StreamEnd(c)
  PROVE  RecordsBoth(c)
<1> USE DEF TInv, TypeOK, relayVars, streamVars, chanVars, Goto
<1> DEFINE T == Span(c, "u", moved[c]["u"]) \cup Span(c, "d", moved[c]["d"])
<1>1. \A d \in Dirs : dir[c][d] = "done" /\ dir'[c][d] = "done" /\ moved'[c][d] = moved[c][d]
  BY DEF StreamEnd
<1>2. ~DatagramRelay(c) /\ pc[c] \in {"wait", "copy"} /\ pc'[c] = "uncount" /\ ed' = ed
  BY DEF StreamEnd, StreamRelay, DatagramRelay, IsPair
<1>3. \A d \in Dirs : moved[c][d] \in 0..MaxChunks
  OBVIOUS
<1>4. \A x \in Conns, d \in Dirs, n \in 0..MaxChunks :
        <<x, d, n>> \in T <=> x = c /\ n # 0 /\ n <= moved[c][d]
  BY <1>3, BoundsAssumption DEF Span
<1>5. More(T)
  <2> SUFFICES ASSUME NEW x \in Conns, NEW d \in Dirs, NEW n \in 0..MaxChunks
               PROVE  IsRecorded(x, d, n)' <=> IsRecorded(x, d, n) \/ <<x, d, n>> \in T
    BY DEF More
  <2>1. CASE x # c
    BY <2>1, <1>4, OthersRelaying DEF Relaying
  <2>2. CASE x = c /\ n = 0
    <3>1. IsRecorded(x, d, n)' <=> IsRecorded(x, d, n)
      BY <2>2, <1>2, EdKept
    <3> QED
      BY <3>1, <2>2, <1>4
  <2>3. CASE x = c /\ n # 0
    <3>1. ~IsRecorded(x, d, n)
      BY <2>3, <1>2, NotCopied
    <3>2. IsRecorded(x, d, n)' <=> n <= moved[c][d]
      BY <2>3, <1>1, <1>2 DEF IsRecorded
    <3> QED
      BY <3>1, <3>2, <2>3, <1>4
  <2> QED
    BY <2>1, <2>2, <2>3
<1>6. New(T)
  <2> SUFFICES ASSUME NEW x \in T PROVE ~IsRecorded(x[1], x[2], x[3])
    BY DEF New
  <2>1. PICK d \in Dirs : \E n \in 1..moved[c][d] : x = <<c, d, n>>
    BY DEF Span
  <2> PICK n \in 1..moved[c][d] : x = <<c, d, n>>
    BY <2>1
  <2>2. n \in 0..MaxChunks /\ n # 0
    BY <2>1, <1>3, BoundsAssumption
  <2>3. ~IsRecorded(c, d, n)
    BY <2>2, <1>2, NotCopied
  <2> QED
    BY <2>3
<1>7. \A d \in Dirs : moved[c][d] \in Nat
  BY <1>3, BoundsAssumption
<1>8. gtr'.ub = gtr.ub + CopyResult(c)[1] /\ gtr'.db = gtr.db + CopyResult(c)[2]
  BY DEF StreamEnd
<1>9. CopyResult(c)[1] + CopyResult(c)[2] = moved[c]["u"] + moved[c]["d"]
  <2>1. CASE trace
    <3>1. first[c] \in Dirs
      BY <2>1 DEF StreamEnd, FirstKnown
    <3>2. CopyResult(c) = <<moved[c][first[c]], moved[c][Other(first[c])]>>
      BY <2>1 DEF CopyResult
    <3>3. CASE first[c] = "u"
      BY <3>2, <3>3, <1>7 DEF Other
    <3>4. CASE first[c] = "d"
      BY <3>2, <3>4, <1>7 DEF Other
    <3> QED
      BY <3>1, <3>3, <3>4
  <2>2. CASE ~trace
    BY <2>2 DEF CopyResult
  <2> QED
    BY <2>1, <2>2
<1>10. CopyResult(c)[1] \in Nat /\ CopyResult(c)[2] \in Nat
  BY <1>7 DEF StreamEnd, CopyResult, Other, FirstKnown
<1>11. gtr.ub \in Nat /\ gtr.db \in Nat
  OBVIOUS
<1>12. gtr'.ub + gtr'.db = gtr.ub + gtr.db + moved[c]["u"] + moved[c]["d"]
  <2> HIDE DEF TInv, TypeOK
  <2>1. \A a, b, x, y, u, d \in Nat : x + y = u + d => (a + x) + (b + y) = a + b + u + d
    OBVIOUS
  <2>2. moved[c]["u"] \in Nat /\ moved[c]["d"] \in Nat
    BY <1>7
  <2> QED
    BY <1>8, <1>9, <1>10, <1>11, <2>1, <2>2
<1>13. ~trace => gtr'.ub = gtr.ub + moved[c]["u"]
  BY <1>8 DEF CopyResult
<1> QED
  BY <1>5, <1>6, <1>12, <1>13 DEF RecordsBoth

LEMMA RelayingRecords ==
  ASSUME TInv, SInv, NEW c \in Conns, Relaying(c)
  PROVE  RecordsNone \/ RecordsBoth(c)
<1> USE DEF TInv, TypeOK, relayVars, streamVars, chanVars, Goto
<1>1. ASSUME ~StreamEnd(c) PROVE RecordsNone
  <2>1. /\ moved' = moved /\ kind' = kind /\ ed' = ed
        /\ gtr'.ub = gtr.ub /\ gtr'.db = gtr.db
    BY <1>1 DEF Relaying, Spawn, Count, CpNotice, Uncount, MixedEnd, AddrPanic,
                StreamError, SelectFirst
  <2>2. ASSUME NEW d \in Dirs, NEW n \in 0..MaxChunks, n # 0
        PROVE  IsRecorded(c, d, n)' <=> IsRecorded(c, d, n)
    <3>1. CASE Spawn(c)
      <4>1. dir[c][d] = "idle" /\ dir'[c][d] = "run"
        BY <3>1 DEF Spawn, Run, SInv, IdleBefore
      <4> QED
        BY <2>2, <4>1, NotYet, NotYetPrime
    <3>2. CASE Count(c) /\ ~DatagramRelay(c)
      <4>1. pc[c] = "count" /\ dir'[c][d] = "run"
        BY <3>2 DEF Count, Run
      <4> QED
        BY <2>2, <3>2, <4>1, NotCopied, NotYetPrime
    <3>3. CASE (Count(c) /\ DatagramRelay(c)) \/ CpNotice(c)
      <4>1. dir' = dir /\ DatagramRelay(c) /\ DatagramRelay(c)'
        BY <2>1, <3>3 DEF Count, CpNotice, DatagramRelay, IsPair
      <4> QED
        BY <2>1, <2>2, <4>1 DEF IsRecorded
    <3>4. CASE Uncount(c) \/ SelectFirst(c)
      <4>1. dir' = dir /\ (pc'[c] \in {"uncount", "end"} <=> pc[c] \in {"uncount", "end"})
        BY <3>4 DEF Uncount, SelectFirst
      <4> QED
        BY <2>1, <4>1, RecordedKept
    <3>5. CASE MixedEnd(c) \/ StreamError(c)
      <4>1. pc[c] = "copy" /\ dir'[c][d] = "lost"
        BY <3>5 DEF MixedEnd, StreamError
      <4>2. ~DatagramRelay(c)
        BY <3>5 DEF MixedEnd, StreamError, MixedRelay, StreamRelay, DatagramRelay, IsPair
      <4> QED
        BY <2>2, <4>1, <4>2, NotCopied, NotYetPrime
    <3>6. CASE AddrPanic(c) /\ d = "u"
      <4>1. dir[c][d] = "run" /\ dir'[c][d] = "lost"
        BY <3>6 DEF AddrPanic, SetDir
      <4> QED
        BY <2>2, <4>1, NotYet, NotYetPrime
    <3>7. CASE AddrPanic(c) /\ d = "d"
      <4>1. dir'[c][d] = dir[c][d] /\ pc' = pc
        BY <3>7 DEF AddrPanic, SetDir
      <4> QED
        BY <2>1, <4>1, RecordedKept
    <3> QED
      BY <1>1, <3>1, <3>2, <3>3, <3>4, <3>5, <3>6, <3>7 DEF Relaying
  <2>3. More({})
    <3> SUFFICES ASSUME NEW x \in Conns, NEW d \in Dirs, NEW n \in 0..MaxChunks
                 PROVE  IsRecorded(x, d, n)' <=> IsRecorded(x, d, n)
      BY DEF More
    <3>1. CASE x = c /\ n = 0
      BY <2>1, <3>1, EdKept
    <3> QED
      BY <2>2, <3>1, OthersRelaying
  <2>4. Grows(0, 0)
    BY <2>1 DEF Grows
  <2> QED
    BY <2>3, <2>4 DEF RecordsNone
<1> QED
  BY <1>1, StreamEndRecords

LEMMA CopyingRecords ==
  ASSUME TInv, SInv, NEW c \in Conns, NEW d \in Dirs, Copying(c, d)
  PROVE  RecordsNone \/ RecordsDir(c, d)
<1> USE DEF TInv, TypeOK, relayVars, streamVars, chanVars, SetDir
<1>1. pc' = pc /\ kind' = kind /\ ed' = ed
  BY DEF Copying, Forward, AddrBreak, AddrAdd, AddrClose, StreamEof
<1>2. ASSUME NEW x \in Conns, NEW e \in Dirs, NEW n \in 0..MaxChunks, n = 0 \/ x # c \/ e # d
      PROVE  IsRecorded(x, e, n)' <=> IsRecorded(x, e, n)
  <2>1. CASE n = 0
    BY <1>1, <2>1, EdKept
  <2>2. CASE x # c \/ e # d
    <3>1. dir'[x][e] = dir[x][e] /\ moved'[x][e] = moved[x][e]
      BY <2>2 DEF Copying, Forward, AddrBreak, AddrAdd, AddrClose, StreamEof
    <3> QED
      BY <1>1, <3>1, RecordedKept
  <2> QED
    BY <1>2, <2>1, <2>2
<1>3. CASE AddrAdd(c, d)
  <2>1. dir[c][d] = "add" /\ dir'[c][d] = "close" /\ moved' = moved /\ moved[c][d] \in 0..MaxChunks
    BY <1>3 DEF AddrAdd
  <2>2. DatagramRelay(c)'
    BY <1>1, <2>1 DEF SInv, AddOfDatagrams, DatagramRelay, IsPair
  <2>3. \A x \in Conns, e \in Dirs, n \in 0..MaxChunks :
          <<x, e, n>> \in Span(c, d, moved[c][d]) <=> x = c /\ e = d /\ n # 0 /\ n <= moved[c][d]
    BY <2>1, BoundsAssumption DEF Span
  <2>4. ASSUME NEW n \in 0..MaxChunks, n # 0
        PROVE  ~IsRecorded(c, d, n) /\ (IsRecorded(c, d, n)' <=> n <= moved[c][d])
    BY <2>1, <2>2, <2>4, NotYet DEF IsRecorded
  <2>5. More(Span(c, d, moved[c][d]))
    <3> SUFFICES ASSUME NEW x \in Conns, NEW e \in Dirs, NEW n \in 0..MaxChunks
                 PROVE  IsRecorded(x, e, n)' <=>
                          IsRecorded(x, e, n) \/ <<x, e, n>> \in Span(c, d, moved[c][d])
      BY DEF More
    <3>1. CASE n = 0 \/ x # c \/ e # d
      BY <3>1, <1>2, <2>3
    <3>2. CASE n # 0 /\ x = c /\ e = d
      BY <3>2, <2>3, <2>4
    <3> QED
      BY <3>1, <3>2
  <2>6. New(Span(c, d, moved[c][d]))
    <3> SUFFICES ASSUME NEW x \in Span(c, d, moved[c][d]) PROVE ~IsRecorded(x[1], x[2], x[3])
      BY DEF New
    <3>1. PICK n \in 1..moved[c][d] : x = <<c, d, n>>
      BY DEF Span
    <3>2. n \in 0..MaxChunks /\ n # 0
      BY <2>1, <3>1, BoundsAssumption
    <3> QED
      BY <2>4, <3>1, <3>2
  <2>7. moved[c][d] \in Nat /\ gtr.ub \in Nat /\ gtr.db \in Nat
    BY BoundsAssumption
  <2>8. IF d = "u" THEN Grows(moved[c][d], 0) ELSE Grows(0, moved[c][d])
    BY <1>3, <2>7 DEF AddrAdd, Grows
  <2> QED
    BY <2>5, <2>6, <2>8 DEF RecordsDir
<1>4. CASE ~AddrAdd(c, d)
  <2>1. gtr' = gtr
    BY <1>4 DEF Copying, Forward, AddrBreak, AddrClose, StreamEof
  <2>2. ASSUME NEW n \in 0..MaxChunks, n # 0
        PROVE  IsRecorded(c, d, n)' <=> IsRecorded(c, d, n)
    <3>1. CASE Forward(c, d) \/ AddrBreak(c, d)
      <4>1. dir[c][d] = "run" /\ dir'[c][d] \in {"run", "add"}
        BY <3>1 DEF Forward, AddrBreak
      <4> QED
        BY <2>2, <4>1, NotYet, NotYetPrime
    <3>2. CASE AddrClose(c, d)
      <4>1. dir[c][d] = "close" /\ dir'[c][d] = "done" /\ moved' = moved
        BY <3>2 DEF AddrClose
      <4>2. DatagramRelay(c)' <=> DatagramRelay(c)
        BY <1>1 DEF DatagramRelay, IsPair
      <4> QED
        BY <1>1, <2>2, <4>1, <4>2 DEF IsRecorded
    <3>3. CASE StreamEof(c, d)
      <4>1. ~DatagramRelay(c) /\ ~DatagramRelay(c)' /\ pc[c] \in {"copy", "wait"}
        BY <1>1, <3>3 DEF StreamEof, Polled, StreamRelay, DatagramRelay, IsPair
      <4> QED
        BY <1>1, <2>2, <4>1 DEF IsRecorded
    <3> QED
      BY <1>4, <3>1, <3>2, <3>3 DEF Copying
  <2>3. More({})
    BY <1>2, <2>2 DEF More
  <2>4. Grows(0, 0)
    BY <2>1 DEF Grows
  <2> QED
    BY <2>3, <2>4 DEF RecordsNone
<1> QED
  BY <1>3, <1>4

LEMMA StepRecords ==
  ASSUME TInv, SInv, [Next]_vars
  PROVE  \/ RecordsNone
         \/ \E c \in Conns : RecordsEd(c) \/ RecordsBoth(c)
         \/ \E c \in Conns, d \in Dirs : RecordsDir(c, d)
<1>1. CASE RecorderRecv \/ RecorderGone \/ UNCHANGED vars
  <2>1. /\ ed' = ed /\ moved' = moved /\ dir' = dir /\ kind' = kind /\ pc' = pc /\ gtr' = gtr
    BY <1>1 DEF RecorderRecv, RecorderGone, vars, relayVars, streamVars
  <2>2. More({})
    BY <2>1, RecordedKept DEF More
  <2>3. Grows(0, 0)
    BY <2>1 DEF Grows, TInv, TypeOK
  <2> QED
    BY <2>2, <2>3 DEF RecordsNone
<1> QED
  BY <1>1, SetupRecords, RelayingRecords, CopyingRecords DEF Next

-----------------------------------------------------------------------------
\* The chunks 1 to m of a direction are m chunks.
LEMMA SpanSize ==
  ASSUME NEW c, NEW d, NEW m \in Nat
  PROVE  IsFiniteSet(Span(c, d, m)) /\ Cardinality(Span(c, d, m)) = m
<1> DEFINE f == [n \in 1..m |-> <<c, d, n>>]
<1>1. f \in Bijection(1..m, Span(c, d, m))
  BY DEF Span, Bijection, Injection, Surjection, IsInjective
<1>2. ExistsBijection(1..m, Span(c, d, m))
  BY <1>1 DEF ExistsBijection
<1>3. IsFiniteSet(1..m) /\ Cardinality(1..m) = m
  BY FS_Interval
<1> QED
  BY <1>2, <1>3, FS_Bijection

\* A set that gets elements it did not have grows by their number.
LEMMA DisjointSize ==
  ASSUME NEW S, NEW T, IsFiniteSet(S), IsFiniteSet(T), S \cap T = {}
  PROVE  /\ IsFiniteSet(S \cup T)
         /\ Cardinality(S \cup T) = Cardinality(S) + Cardinality(T)
<1>1. Cardinality({}) = 0 /\ Cardinality(S) \in Nat /\ Cardinality(T) \in Nat
  BY FS_EmptySet, FS_CardinalityType
<1>2. Cardinality(S \cup T) = Cardinality(S) + Cardinality(T) - Cardinality(S \cap T)
  BY FS_Union
<1> QED
  BY <1>1, <1>2, FS_Union

\* What T, of new chunks, does to the recorded chunks of the directions in D.
LEMMA RecordedGrows ==
  ASSUME NEW D \in SUBSET Dirs, NEW T, More(T), New(T),
         T \subseteq Conns \X Dirs \X (0..MaxChunks),
         NEW U, IsFiniteSet(U), U = {x \in T : x[2] \in D},
         IsFiniteSet(Recorded(D))
  PROVE  /\ IsFiniteSet(Recorded(D)')
         /\ Cardinality(Recorded(D)') = Cardinality(Recorded(D)) + Cardinality(U)
<1>1. Recorded(D)' = Recorded(D) \cup U
  <2>1. ASSUME NEW x \in Conns \X D \X (0..MaxChunks)
        PROVE  x \in Recorded(D)' <=> x \in Recorded(D) \cup U
    <3>1. PICK c \in Conns : \E d \in D : \E n \in 0..MaxChunks : x = <<c, d, n>>
      <4>1. /\ x = <<x[1], x[2], x[3]>>
            /\ x[1] \in Conns /\ x[2] \in D /\ x[3] \in 0..MaxChunks
        OBVIOUS
      <4> QED
        BY <4>1
    <3>2. PICK d \in D : \E n \in 0..MaxChunks : x = <<c, d, n>>
      BY <3>1
    <3>3. PICK n \in 0..MaxChunks : x = <<c, d, n>>
      BY <3>2
    <3>4. IsRecorded(c, d, n)' <=> IsRecorded(c, d, n) \/ <<c, d, n>> \in T
      BY <3>3 DEF More
    <3>5. x \in Recorded(D)' <=> IsRecorded(c, d, n)'
      BY <3>3 DEF Recorded
    <3>6. x \in Recorded(D) <=> IsRecorded(c, d, n)
      BY <3>3 DEF Recorded
    <3>7. x \in U <=> x \in T
      BY <3>3
    <3> QED
      BY <3>3, <3>4, <3>5, <3>6, <3>7
  <2>2. Recorded(D)' \subseteq Conns \X D \X (0..MaxChunks)
    BY DEF Recorded
  <2>3. Recorded(D) \subseteq Conns \X D \X (0..MaxChunks)
    BY DEF Recorded
  <2>4. U \subseteq Conns \X D \X (0..MaxChunks)
    OBVIOUS
  <2> QED
    BY <2>1, <2>2, <2>3, <2>4
<1>2. Recorded(D) \cap U = {}
  BY DEF Recorded, New
<1> QED
  BY <1>1, <1>2, DisjointSize

Up == {"u"}

\* The recorder's totals against the chunks recorded, in both directions and up.
Balanced == /\ IsFiniteSet(Recorded(Dirs)) /\ TrafficConserved
            /\ IsFiniteSet(Recorded(Up)) /\ (~trace => gtr.ub = Cardinality(Recorded(Up)))
RInv == TInv /\ SInv /\ Balanced

LEMMA BalancedInit == Init => Balanced
<1> SUFFICES ASSUME Init PROVE Balanced
  OBVIOUS
<1>1. \A c \in Conns, d \in Dirs, n \in 0..MaxChunks : ~IsRecorded(c, d, n)
  BY DEF Init, IsRecorded
<1>2. Recorded(Dirs) = {} /\ Recorded(Up) = {}
  BY <1>1 DEF Recorded, Up
<1>3. IsFiniteSet({}) /\ Cardinality({}) = 0
  BY FS_EmptySet
<1>4. gtr.ub = 0 /\ gtr.db = 0
  BY DEF Init
<1> QED
  BY <1>2, <1>3, <1>4 DEF Balanced, TrafficConserved

LEMMA TraceKept == ASSUME [Next]_vars PROVE trace' = trace
<1> USE DEF chanVars
<1>1. \A c \in Conns : Setup(c) => trace' = trace
  BY DEF Setup, InFold, SelectOut, SelectNone, DialFail, DialOk, Record, RecordFail,
         CpStream, WriteEd, WriteEdFail
<1>2. \A c \in Conns : Relaying(c) => trace' = trace
  BY DEF Relaying, Spawn, Count, CpNotice, Uncount, MixedEnd, AddrPanic, StreamError,
         SelectFirst, StreamEnd
<1>3. \A c \in Conns, d \in Dirs : Copying(c, d) => trace' = trace
  BY DEF Copying, Forward, AddrBreak, AddrAdd, AddrClose, StreamEof
<1> QED
  BY <1>1, <1>2, <1>3 DEF Next, vars, RecorderRecv, RecorderGone

\* m chunks of both directions, k of them up, on either side of the balance.
LEMMA StaysBalanced ==
  ASSUME TInv, Balanced, trace' = trace, NEW T, More(T), New(T),
         T \subseteq Conns \X Dirs \X (0..MaxChunks), IsFiniteSet(T),
         NEW U, IsFiniteSet(U), U = {x \in T : x[2] \in Up},
         gtr'.ub + gtr'.db = gtr.ub + gtr.db + Cardinality(T),
         ~trace => gtr'.ub = gtr.ub + Cardinality(U)
  PROVE  Balanced'
<1>1. T = {x \in T : x[2] \in Dirs}
  OBVIOUS
<1>2. /\ IsFiniteSet(Recorded(Dirs)')
      /\ Cardinality(Recorded(Dirs)') = Cardinality(Recorded(Dirs)) + Cardinality(T)
  BY <1>1, RecordedGrows DEF Balanced
<1>3. /\ IsFiniteSet(Recorded(Up)')
      /\ Cardinality(Recorded(Up)') = Cardinality(Recorded(Up)) + Cardinality(U)
  BY RecordedGrows DEF Balanced, Up
<1>4. gtr'.ub + gtr'.db = Cardinality(Recorded(Dirs)')
  BY <1>2 DEF Balanced, TrafficConserved
<1>5. ~trace' => gtr'.ub = Cardinality(Recorded(Up)')
  BY <1>3 DEF Balanced
<1> QED
  BY <1>2, <1>3, <1>4, <1>5 DEF Balanced, TrafficConserved

LEMMA SpanUp ==
  ASSUME NEW c \in Conns, NEW m \in 0..MaxChunks
  PROVE  /\ Span(c, "u", m) \subseteq Conns \X Dirs \X (0..MaxChunks)
         /\ Span(c, "d", m) \subseteq Conns \X Dirs \X (0..MaxChunks)
         /\ {x \in Span(c, "u", m) : x[2] \in Up} = Span(c, "u", m)
         /\ {x \in Span(c, "d", m) : x[2] \in Up} = {}
<1>1. \A n \in 1..m : n \in 0..MaxChunks
  BY BoundsAssumption
<1> QED
  BY <1>1 DEF Span, Up

LEMMA BalancedStep == ASSUME RInv, [Next]_vars PROVE Balanced'
<1> USE DEF RInv
<1>t. trace' = trace
  BY TraceKept
<1>m. \A c \in Conns, d \in Dirs : moved[c][d] \in 0..MaxChunks /\ moved[c][d] \in Nat
  BY BoundsAssumption DEF TInv, TypeOK
<1>g. gtr.ub \in Nat /\ gtr.db \in Nat
  BY DEF TInv, TypeOK
<1>e. IsFiniteSet({}) /\ Cardinality({}) = 0
  BY FS_EmptySet
<1>1. CASE RecordsNone
  <2>1. More({}) /\ gtr'.ub = gtr.ub + 0 /\ gtr'.db = gtr.db + 0
    BY <1>1 DEF RecordsNone, Grows
  <2>2. New({}) /\ {x \in {} : x[2] \in Up} = {}
    BY DEF New
  <2>3. gtr'.ub + gtr'.db = gtr.ub + gtr.db + Cardinality({})
    BY <1>g, <1>e, <2>1
  <2>4. gtr'.ub = gtr.ub + Cardinality({})
    BY <1>e, <2>1
  <2> QED
    BY <1>t, <1>e, <2>1, <2>2, <2>3, <2>4, StaysBalanced
<1>2. ASSUME NEW c \in Conns, RecordsEd(c) PROVE Balanced'
  <2> DEFINE T == {<<c, "u", 0>>}
  <2>1. More(T) /\ New(T) /\ gtr'.ub = gtr.ub + 1 /\ gtr'.db = gtr.db + 0
    BY <1>2 DEF RecordsEd, Grows, New
  <2>2. T \subseteq Conns \X Dirs \X (0..MaxChunks) /\ T = {x \in T : x[2] \in Up}
    BY BoundsAssumption DEF Up
  <2>3. IsFiniteSet(T) /\ Cardinality(T) = 1
    BY FS_Singleton
  <2> HIDE DEF T
  <2>4. gtr'.ub + gtr'.db = gtr.ub + gtr.db + Cardinality(T)
    BY <1>g, <2>1, <2>3
  <2>5. gtr'.ub = gtr.ub + Cardinality(T)
    BY <2>1, <2>3
  <2> QED
    BY <1>t, <2>1, <2>2, <2>3, <2>4, <2>5, StaysBalanced
<1>3. ASSUME NEW c \in Conns, NEW d \in Dirs, RecordsDir(c, d) PROVE Balanced'
  <2> DEFINE m == moved[c][d]
             T == Span(c, d, m)
  <2>1. More(T) /\ New(T) /\ IF d = "u" THEN Grows(m, 0) ELSE Grows(0, m)
    BY <1>3 DEF RecordsDir
  <2>2. m \in 0..MaxChunks /\ m \in Nat
    BY <1>m
  <2>3. IsFiniteSet(T) /\ Cardinality(T) = m
    BY <2>2, SpanSize
  <2>4. T \subseteq Conns \X Dirs \X (0..MaxChunks)
    BY <2>2, SpanUp
  <2>5. CASE d = "u"
    <3>1. gtr'.ub = gtr.ub + m /\ gtr'.db = gtr.db + 0 /\ T = {x \in T : x[2] \in Up}
      BY <2>1, <2>2, <2>5, SpanUp DEF Grows
    <3> HIDE DEF T, m
    <3>2. gtr'.ub + gtr'.db = gtr.ub + gtr.db + Cardinality(T)
      BY <1>g, <2>2, <2>3, <3>1
    <3>3. gtr'.ub = gtr.ub + Cardinality(T)
      BY <2>3, <3>1
    <3> QED
      BY <1>t, <2>1, <2>3, <2>4, <3>1, <3>2, <3>3, StaysBalanced
  <2>6. CASE d = "d"
    <3>1. gtr'.ub = gtr.ub + 0 /\ gtr'.db = gtr.db + m /\ {} = {x \in T : x[2] \in Up}
      BY <2>1, <2>2, <2>6, SpanUp DEF Grows
    <3> HIDE DEF T, m
    <3>2. gtr'.ub + gtr'.db = gtr.ub + gtr.db + Cardinality(T)
      BY <1>g, <2>2, <2>3, <3>1
    <3>3. gtr'.ub = gtr.ub + Cardinality({})
      BY <1>e, <3>1
    <3> QED
      BY <1>t, <1>e, <2>1, <2>3, <2>4, <3>1, <3>2, <3>3, StaysBalanced
  <2> QED
    BY <2>5, <2>6
<1>4. ASSUME NEW c \in Conns, RecordsBoth(c) PROVE Balanced'
  <2> DEFINE m == moved[c]["u"]
             k == moved[c]["d"]
             A == Span(c, "u", m)
             B == Span(c, "d", k)
             T == A \cup B
  <2>1. /\ More(T) /\ New(T)
        /\ gtr'.ub + gtr'.db = gtr.ub + gtr.db + m + k
        /\ ~trace => gtr'.ub = gtr.ub + m
    BY <1>4 DEF RecordsBoth
  <2>2. m \in 0..MaxChunks /\ m \in Nat /\ k \in 0..MaxChunks /\ k \in Nat
    BY <1>m
  <2>3. /\ IsFiniteSet(A) /\ Cardinality(A) = m
        /\ IsFiniteSet(B) /\ Cardinality(B) = k
    BY <2>2, SpanSize
  <2>4. A \cap B = {}
    BY DEF Span
  <2>5. /\ T \subseteq Conns \X Dirs \X (0..MaxChunks)
        /\ {x \in A : x[2] \in Up} = A /\ {x \in B : x[2] \in Up} = {}
    BY <2>2, SpanUp
  <2> HIDE DEF A, B, m, k
  <2>6. A = {x \in T : x[2] \in Up}
    BY <2>5
  <2>7. IsFiniteSet(T) /\ Cardinality(T) = m + k
    BY <2>3, <2>4, DisjointSize
  <2> HIDE DEF T
  <2>8. gtr'.ub + gtr'.db = gtr.ub + gtr.db + Cardinality(T)
    BY <1>g, <2>1, <2>2, <2>7
  <2>9. ~trace => gtr'.ub = gtr.ub + Cardinality(A)
    BY <2>1, <2>3
  <2> QED
    BY <1>t, <2>1, <2>3, <2>5, <2>6, <2>7, <2>8, <2>9, StaysBalanced
<1> QED
  BY <1>1, <1>2, <1>3, <1>4, StepRecords

LEMMA RecordsAlways == Spec => []RInv
<1>1. Init => RInv
  BY TypeInit, SidesInit, BalancedInit DEF RInv
<1>2. RInv /\ [Next]_vars => RInv'
  BY TypeStep, SidesStep, BalancedStep DEF RInv
<1> QED
  BY <1>1, <1>2, PTL DEF Spec

\* For any number of connections and chunks: ub + db of the GlobalTrafficRecorder
\* is the number of chunks that the relays which report totals have delivered,
\* each once, on every way out of cp_conn and cp_addr.
THEOREM TrafficCorrect == Spec => []TrafficConserved
<1>1. RInv => TrafficConserved
  BY DEF RInv, Balanced
<1> QED
  BY <1>1, RecordsAlways, PTL

\* Without an updater, ub is what went up from the inbound side, early data
\* included, and nothing else, for any number of connections and chunks.
THEOREM UploadCorrect == Spec => []UbIsUploadUntraced
<1>1. RInv => UbIsUploadUntraced
  BY DEF RInv, Balanced, UbIsUploadUntraced, UbIsUpload, Up
<1> QED
  BY <1>1, RecordsAlways, PTL
=============================================================================
