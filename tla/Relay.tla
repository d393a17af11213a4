-------------------------------- MODULE Relay --------------------------------
(***************************************************************************)
(* The life of an accepted connection once its inbound chain has been      *)
(* folded: relay::handle_in_fold_result selects an outbound, folds it,     *)
(* reports the connection and hands the two streams to cp_stream, which    *)
(* copies both directions until the relay ends.  Every connection is a     *)
(* task of its own; a datagram relay has two more, one per direction.  All *)
(* of them share one GlobalTrafficRecorder.                                *)
(*                                                                         *)
(* A stream is abstracted to its kind and to the fate of its write half; a *)
(* chunk of payload to a unit.                                             *)
(***************************************************************************)
EXTENDS Integers, FiniteSets

CONSTANTS
  Conns,      \* the accepted connections
  MaxChunks,  \* chunks a peer of a relay has to send (a bound)
  RecCap      \* capacity of the new-connection channel

ASSUME ConnsAssumption  == IsFiniteSet(Conns)
ASSUME BoundsAssumption == MaxChunks \in Nat /\ RecCap \in Nat \ {0}

VARIABLES
  pc,        \* where the task of a connection stands
  kind,      \* kind of its inbound and outbound stream
  half,      \* fate of the write half of either stream
  ed,        \* early data: left by the outbound fold, written, counted
  dir,       \* the two copy directions: "u" in to out, "d" out to in
  moved,     \* chunks a direction has delivered
  first,     \* the direction select_f saw end first
  stop,      \* tx1 and tx2 of addr_conn::cp have been sent
  gtr,       \* GlobalTrafficRecorder
  recorder,  \* new_conn_recorder: absent, open, or its receiver dropped
  recQ,      \* messages in that channel
  trace      \* the trace feature is on and an updater is installed

vars == <<pc, kind, half, ed, dir, moved, first, stop,
          gtr, recorder, recQ, trace>>

Sides == {"in", "out"}
Dirs  == {"u", "d"}
Kinds == {"None", "Conn", "AddrConn"}

Other(d) == IF d = "u" THEN "d" ELSE "u"
\* The side whose write half direction d writes to.
Sink(d)  == IF d = "u" THEN "out" ELSE "in"

Stages == {"accepted", "select", "dial", "record", "cp_stream", "ed", "spawn",
           "count", "copy", "wait", "uncount", "end"}
EdStates   == {"none", "left", "written", "counted"}
HalfStates == {"none", "open", "shut", "dropped"}
\* idle: not started.  run: copying.  add: the loop is left, the total not yet
\* recorded.  close: recorded, w.shutdown() pending.  done: over.  lost: over,
\* its total is recorded by nobody.
DirStates  == {"idle", "run", "add", "close", "done", "lost"}

IsPair(c, i, o) == kind[c]["in"] = i /\ kind[c]["out"] = o
StreamRelay(c)   == IsPair(c, "Conn", "Conn")
DatagramRelay(c) == IsPair(c, "AddrConn", "AddrConn")
MixedRelay(c)    == IsPair(c, "Conn", "AddrConn") \/ IsPair(c, "AddrConn", "Conn")

Goto(c, s) == pc' = [pc EXCEPT ![c] = s]

\* Both streams of c go out of scope: what was not shut down is dropped.
Dropped(h)  == IF h = "open" THEN "dropped" ELSE h
DropBoth(c) == half' = [half EXCEPT ![c] = [s \in Sides |-> Dropped(@[s])]]
ShutBoth(c) == half' = [half EXCEPT ![c] = [s \in Sides |-> "shut"]]

relayVars  == <<dir, moved, first, stop>>
streamVars == <<kind, ed>>
chanVars   == <<recorder, recQ, trace>>

Init ==
  /\ pc = [c \in Conns |-> "accepted"]
  /\ kind = [c \in Conns |-> [s \in Sides |-> "None"]]
  /\ half = [c \in Conns |-> [s \in Sides |-> "none"]]
  /\ ed = [c \in Conns |-> "none"]
  /\ dir = [c \in Conns |-> [d \in Dirs |-> "idle"]]
  /\ moved = [c \in Conns |-> [d \in Dirs |-> 0]]
  /\ first = [c \in Conns |-> "none"]
  /\ stop = [c \in Conns |-> FALSE]
  /\ gtr = [alive |-> 0, ub |-> 0, db |-> 0]
  /\ recorder \in {"absent", "open"}
  /\ recQ = 0
  /\ trace \in BOOLEAN

-----------------------------------------------------------------------------
(* handle_in_fold_result, up to the call of cp_stream *)

\* The inbound fold hands over (a, c, e).  Without a target address and
\* without a stream there is nothing to relay: a failure that cannot fall back,
\* or a stream some map consumed.
InFold(c) ==
  /\ pc[c] = "accepted"
  /\ \E hasTarget \in BOOLEAN, k \in Kinds :
       /\ kind' = [kind EXCEPT ![c]["in"] = k]
       /\ half' = [half EXCEPT ![c]["in"] = IF k = "None" THEN "none" ELSE "open"]
       /\ Goto(c, IF hasTarget \/ k # "None" THEN "select" ELSE "end")
  /\ UNCHANGED <<ed, relayVars, gtr, chanVars>>

SelectOut(c) ==
  /\ pc[c] = "select"
  /\ Goto(c, "dial")
  /\ UNCHANGED <<half, streamVars, relayVars, gtr, chanVars>>

\* select() returned None: the inbound stream is shut down.
SelectNone(c) ==
  /\ pc[c] = "select"
  /\ half' = [half EXCEPT ![c]["in"] = IF @ = "open" THEN "shut" ELSE @]
  /\ Goto(c, "end")
  /\ UNCHANGED <<streamVars, relayVars, gtr, chanVars>>

\* The outbound fold times out, fails, or consumes its stream: the inbound
\* stream is only dropped.
DialFail(c) ==
  /\ pc[c] = "dial"
  /\ DropBoth(c)
  /\ Goto(c, "end")
  /\ UNCHANGED <<streamVars, relayVars, gtr, chanVars>>

DialOk(c) ==
  /\ pc[c] = "dial"
  /\ \E k \in Kinds \ {"None"}, e \in {"none", "left"} :
       /\ kind' = [kind EXCEPT ![c]["out"] = k]
       /\ half' = [half EXCEPT ![c]["out"] = "open"]
       /\ ed' = [ed EXCEPT ![c] = e]
  /\ Goto(c, IF recorder = "absent" THEN "cp_stream" ELSE "record")
  /\ UNCHANGED <<relayVars, gtr, chanVars>>

\* Mutant: the channel does not hold its senders back.
RecordUnbounded(c) ==
  /\ pc[c] = "record"
  /\ recorder = "open"
  /\ recQ' = recQ + 1
  /\ Goto(c, "cp_stream")
  /\ UNCHANGED <<half, streamVars, relayVars, gtr, recorder, trace>>

\* r.send(NewConnInfo).await waits for room in the channel ...
Record(c) ==
  /\ pc[c] = "record"
  /\ recorder = "open" /\ recQ < RecCap
  /\ recQ' = recQ + 1
  /\ Goto(c, "cp_stream")
  /\ UNCHANGED <<half, streamVars, relayVars, gtr, recorder, trace>>

\* ... and its error, the receiver being gone, ends the connection (`?`).
RecordFail(c) ==
  /\ pc[c] = "record"
  /\ recorder = "closed"
  /\ DropBoth(c)
  /\ Goto(c, "end")
  /\ UNCHANGED <<streamVars, relayVars, gtr, chanVars>>

-----------------------------------------------------------------------------
(* cp_stream, early data and the accounting of the relay *)

Begin(c) == Goto(c, IF DatagramRelay(c) THEN "spawn" ELSE "count")

\* cp_stream picks the copier by the kinds of the two streams; a stream that
\* was consumed cannot be relayed and the other one is dropped with it.
CpStream(c) ==
  /\ pc[c] = "cp_stream"
  /\ \/ /\ kind[c]["in"] = "None"
        /\ DropBoth(c)
        /\ Goto(c, "end")
     \/ /\ kind[c]["in"] # "None"
        /\ IF ed[c] = "left" THEN Goto(c, "ed") ELSE Begin(c)
        /\ UNCHANGED half
  /\ UNCHANGED <<streamVars, relayVars, gtr, chanVars>>

\* Early data goes to the outbound stream first, whichever the two kinds are.
\* Only gtr_ed adds it to ub.
WriteEd(c) ==
  /\ pc[c] = "ed"
  /\ ed' = [ed EXCEPT ![c] = IF StreamRelay(c) THEN "counted" ELSE "written"]
  /\ gtr' = IF StreamRelay(c) THEN [gtr EXCEPT !.ub = @ + 1] ELSE gtr
  /\ Begin(c)
  /\ UNCHANGED <<half, kind, relayVars, chanVars>>

WriteEdFail(c) ==
  /\ pc[c] = "ed"
  /\ \/ StreamRelay(c) /\ ShutBoth(c)
     \/ DatagramRelay(c) /\ half' = [half EXCEPT ![c]["in"] = "dropped", ![c]["out"] = "shut"]
     \/ MixedRelay(c) /\ DropBoth(c)
  /\ Goto(c, "end")
  /\ UNCHANGED <<streamVars, relayVars, gtr, chanVars>>

Run(c) == dir' = [dir EXCEPT ![c] = [d \in Dirs |-> "run"]]

\* addr_conn::cp spawns both directions before it counts the relay.
Spawn(c) ==
  /\ pc[c] = "spawn"
  /\ Run(c)
  /\ Goto(c, "count")
  /\ UNCHANGED <<half, streamVars, moved, first, stop, gtr, chanVars>>

Count(c) ==
  /\ pc[c] = "count"
  /\ gtr' = [gtr EXCEPT !.alive = @ + 1]
  /\ IF DatagramRelay(c) THEN UNCHANGED dir ELSE Run(c)
  /\ Goto(c, "copy")
  /\ UNCHANGED <<half, streamVars, moved, first, stop, chanVars>>

\* Mutant: the task dials again instead of returning.
UncountRedials(c) ==
  /\ pc[c] = "uncount"
  /\ gtr' = [gtr EXCEPT !.alive = @ - 1]
  /\ Goto(c, "dial")
  /\ UNCHANGED <<half, streamVars, relayVars, chanVars>>

Uncount(c) ==
  /\ pc[c] = "uncount"
  /\ gtr' = [gtr EXCEPT !.alive = @ - 1]
  /\ Goto(c, "end")
  /\ UNCHANGED <<half, streamVars, relayVars, chanVars>>

-----------------------------------------------------------------------------
(* Copying.  The directions of a datagram relay are tasks; those of the other
   relays are futures that only run while their task awaits them. *)

Polled(c) == DatagramRelay(c) \/ pc[c] \in {"copy", "wait"}
\* The peers of c have sent all they will ever send.
Silent(c) == \A d \in Dirs : moved[c][d] = MaxChunks
SetDir(c, d, s) == dir' = [dir EXCEPT ![c][d] = s]

Forward(c, d) ==
  /\ dir[c][d] = "run" /\ Polled(c)
  /\ moved[c][d] < MaxChunks
  /\ moved' = [moved EXCEPT ![c][d] = @ + 1]
  /\ UNCHANGED <<pc, half, streamVars, dir, first, stop, gtr, chanVars>>

\* cp_addr leaves its loop on an error of a read or a write (or on
\* CP_UDP_TIMEOUT, in a pause of the peers) ...
AddrBreak(c, d) ==
  /\ DatagramRelay(c) /\ dir[c][d] = "run"
  /\ SetDir(c, d, "add")
  /\ UNCHANGED <<pc, half, streamVars, moved, first, stop, gtr, chanVars>>

\* ... on CP_UDP_TIMEOUT, at the latest when no peer sends any more ...
AddrTimeout(c, d) == Silent(c) /\ AddrBreak(c, d)

\* ... and because cp told it to.
AddrStop(c, d) == stop[c] /\ AddrBreak(c, d)

\* Mutant: the total of a direction told to stop is not recorded.
AddrAddUnlessStopped(c, d) ==
  /\ dir[c][d] = "add"
  /\ gtr' = IF stop[c] THEN gtr
            ELSE IF d = "d" THEN [gtr EXCEPT !.db = @ + moved[c][d]]
                            ELSE [gtr EXCEPT !.ub = @ + moved[c][d]]
  /\ SetDir(c, d, "close")
  /\ UNCHANGED <<pc, half, streamVars, moved, first, stop, chanVars>>

AddrAdd(c, d) ==
  /\ dir[c][d] = "add"
  /\ gtr' = IF d = "d" THEN [gtr EXCEPT !.db = @ + moved[c][d]]
                       ELSE [gtr EXCEPT !.ub = @ + moved[c][d]]
  /\ SetDir(c, d, "close")
  /\ UNCHANGED <<pc, half, streamVars, moved, first, stop, chanVars>>

AddrClose(c, d) ==
  /\ dir[c][d] = "close"
  /\ half' = [half EXCEPT ![c][Sink(d)] = "shut"]
  /\ SetDir(c, d, "done")
  /\ UNCHANGED <<pc, streamVars, moved, first, stop, gtr, chanVars>>

\* The reader of udp_fixed_listen may return a length beyond the buffer;
\* rw_once slices with it and the task panics.
AddrPanic(c) ==
  /\ DatagramRelay(c) /\ dir[c]["u"] = "run"
  /\ SetDir(c, "u", "lost")
  /\ half' = [half EXCEPT ![c]["out"] = "dropped"]
  /\ UNCHANGED <<pc, streamVars, moved, first, stop, gtr, chanVars>>

Over(c, d) == dir[c][d] \in {"done", "lost"}

\* Mutant: cp returns without sending on tx1 and tx2.
CpNoticeUntold(c) ==
  /\ DatagramRelay(c) /\ pc[c] = "copy"
  /\ \E d \in Dirs : Over(c, d)
  /\ Goto(c, "uncount")
  /\ UNCHANGED <<half, streamVars, dir, moved, first, stop, gtr, chanVars>>

\* The select! of addr_conn::cp: either direction is over.  (Its other two
\* branches wait for shutdown receivers, which no map of the repository sets.)
CpNotice(c) ==
  /\ DatagramRelay(c) /\ pc[c] = "copy"
  /\ \E d \in Dirs : Over(c, d)
  /\ stop' = [stop EXCEPT ![c] = TRUE]
  /\ Goto(c, "uncount")
  /\ UNCHANGED <<half, streamVars, dir, moved, first, gtr, chanVars>>

\* Mutant: the count is only taken back on the path that returns an error.
MixedEndUncounted(c) ==
  /\ MixedRelay(c) /\ pc[c] = "copy"
  /\ dir' = [dir EXCEPT ![c] = [d \in Dirs |-> "lost"]]
  /\ DropBoth(c)
  /\ Goto(c, "end")
  /\ UNCHANGED <<streamVars, moved, first, stop, gtr, chanVars>>

\* cp_ac_and_c: the first direction to end drops the other with it; nobody
\* shuts a writer down and the traffic is not recorded.
MixedEnd(c) ==
  /\ MixedRelay(c) /\ pc[c] = "copy"
  /\ dir' = [dir EXCEPT ![c] = [d \in Dirs |-> "lost"]]
  /\ DropBoth(c)
  /\ gtr' = [gtr EXCEPT !.alive = @ - 1]
  /\ Goto(c, "end")
  /\ UNCHANGED <<streamVars, moved, first, stop, chanVars>>

\* Mutant: the timeout guards the wrong direction when the stream is inbound.
MixedTimeoutInbound(c) == kind[c]["in"] = "AddrConn" /\ Silent(c) /\ MixedEnd(c)

\* Only cp_ac_to_c, which reads the datagram side, has the timeout.
MixedTimeout(c) == Silent(c) /\ MixedEnd(c)

\* A direction of a stream relay reaches the end of its input, or an error.
\* With an updater both count alike and the other side learns nothing;
\* copy_bidirectional passes the end of input on ...
StreamEof(c, d) ==
  /\ StreamRelay(c) /\ Polled(c) /\ dir[c][d] = "run"
  /\ SetDir(c, d, "done")
  /\ half' = IF trace THEN half ELSE [half EXCEPT ![c][Sink(d)] = "shut"]
  /\ UNCHANGED <<pc, streamVars, moved, first, stop, gtr, chanVars>>

\* ... and returns an error at once, with no totals.
StreamError(c) ==
  /\ StreamRelay(c) /\ pc[c] = "copy" /\ ~trace
  /\ \E d \in Dirs : dir[c][d] = "run"
  /\ dir' = [dir EXCEPT ![c] = [d \in Dirs |-> "lost"]]
  /\ DropBoth(c)
  /\ Goto(c, "uncount")
  /\ UNCHANGED <<streamVars, moved, first, stop, gtr, chanVars>>

\* select_f sees one direction end (either, if both have) and awaits the other.
SelectFirst(c) ==
  /\ StreamRelay(c) /\ pc[c] = "copy" /\ trace
  /\ \E d \in Dirs : dir[c][d] = "done" /\ first' = [first EXCEPT ![c] = d]
  /\ Goto(c, "wait")
  /\ UNCHANGED <<half, streamVars, dir, moved, stop, gtr, chanVars>>

\* Mutant: both variants answer with the download first.
CopyResultSwapped(c) == <<moved[c]["d"], moved[c]["u"]>>

\* (u, d) as the copy returns it: select_f puts the total of the direction
\* that ended first in front.
CopyResult(c) ==
  IF trace THEN <<moved[c][first[c]], moved[c][Other(first[c])]>>
           ELSE <<moved[c]["u"], moved[c]["d"]>>

StreamEnd(c) ==
  /\ StreamRelay(c)
  /\ pc[c] = IF trace THEN "wait" ELSE "copy"
  /\ \A d \in Dirs : dir[c][d] = "done"
  /\ gtr' = [alive |-> gtr.alive, ub |-> gtr.ub + CopyResult(c)[1],
                               db |-> gtr.db + CopyResult(c)[2]]
  /\ DropBoth(c)
  /\ Goto(c, "uncount")
  /\ UNCHANGED <<streamVars, dir, moved, first, stop, chanVars>>

-----------------------------------------------------------------------------
(* The environment *)

\* The task that collects NewConnInfo takes one, or is gone.
RecorderRecv ==
  /\ recorder = "open" /\ recQ > 0
  /\ recQ' = recQ - 1
  /\ UNCHANGED <<pc, half, streamVars, relayVars, gtr, recorder, trace>>

RecorderGone ==
  /\ recorder = "open"
  /\ recorder' = "closed" /\ recQ' = 0
  /\ UNCHANGED <<pc, half, streamVars, relayVars, gtr, trace>>

-----------------------------------------------------------------------------
Setup(c) == InFold(c) \/ SelectOut(c) \/ SelectNone(c) \/ DialFail(c) \/ DialOk(c)
            \/ Record(c) \/ RecordFail(c) \/ CpStream(c) \/ WriteEd(c) \/ WriteEdFail(c)
Relaying(c) == Spawn(c) \/ Count(c) \/ CpNotice(c) \/ Uncount(c) \/ MixedEnd(c)
               \/ AddrPanic(c) \/ StreamError(c) \/ SelectFirst(c) \/ StreamEnd(c)
Copying(c, d) == Forward(c, d) \/ AddrBreak(c, d) \/ AddrAdd(c, d) \/ AddrClose(c, d)
                 \/ StreamEof(c, d)

Next ==
  \/ \E c \in Conns : Setup(c) \/ Relaying(c)
  \/ \E c \in Conns, d \in Dirs : Copying(c, d)
  \/ RecorderRecv \/ RecorderGone

Spec == Init /\ [][Next]_vars

\* tokio runs every task that is ready, every future a select! awaits included;
\* timers expire.  Peers and the recorder owe nothing.  That AddrClose is fair
\* assumes a writer whose w.shutdown() returns; UdpFixedListen has one that may
\* not.
Fairness ==
  \A c \in Conns :
    /\ WF_vars(Spawn(c)) /\ WF_vars(Count(c)) /\ WF_vars(Uncount(c))
    /\ WF_vars(CpNotice(c)) /\ WF_vars(MixedTimeout(c))
    /\ WF_vars(SelectFirst(c)) /\ WF_vars(StreamEnd(c))
    /\ \A d \in Dirs : /\ WF_vars(AddrTimeout(c, d)) /\ WF_vars(AddrStop(c, d))
                       /\ WF_vars(AddrAdd(c, d)) /\ WF_vars(AddrClose(c, d))

FairSpec == Spec /\ Fairness

-----------------------------------------------------------------------------
(* Properties *)

TypeOK ==
  /\ pc \in [Conns -> Stages]
  /\ kind \in [Conns -> [Sides -> Kinds]]
  /\ half \in [Conns -> [Sides -> HalfStates]]
  /\ ed \in [Conns -> EdStates]
  /\ dir \in [Conns -> [Dirs -> DirStates]]
  /\ moved \in [Conns -> [Dirs -> 0..MaxChunks]]
  /\ first \in [Conns -> Dirs \cup {"none"}]
  /\ stop \in [Conns -> BOOLEAN]
  /\ gtr \in [alive : Int, ub : Nat, db : Nat]
  /\ recorder \in {"absent", "open", "closed"}
  /\ recQ \in 0..RecCap
  /\ trace \in BOOLEAN

\* The tasks that have added themselves to alive_connection_count and have not
\* taken themselves off again.
CountedStages == {"copy", "wait", "uncount"}
Counted == {c \in Conns : pc[c] \in CountedStages}

\* alive_connection_count is the number of relays between their fetch_add and
\* their fetch_sub, on every path through cp_conn, cp_ac_and_c and
\* addr_conn::cp: it neither leaks nor wraps below zero.
AliveExact == gtr.alive = Cardinality(Counted)

\* The traffic the relays have put into the recorder: chunk n of direction d of c
\* is <<c, d, n>>, and its early data, which goes up, is <<c, "u", 0>>.
IsRecorded(c, d, n) ==
  IF n = 0 THEN d = "u" /\ ed[c] = "counted"
  ELSE /\ n <= moved[c][d] /\ dir[c][d] \in {"close", "done"}
       /\ DatagramRelay(c) \/ pc[c] \in {"uncount", "end"}
Recorded(D) == {x \in Conns \X D \X (0..MaxChunks) : IsRecorded(x[1], x[2], x[3])}

\* ub + db is what the relays that report totals delivered: each chunk once,
\* from detached directions and from either order of ending.
TrafficConserved == gtr.ub + gtr.db = Cardinality(Recorded(Dirs))

\* ub counts what went from the inbound to the outbound side and nothing else.
UbIsUpload == gtr.ub = Cardinality(Recorded({"u"}))

\* Without an updater copy_bidirectional returns the totals in a fixed order,
\* and ub is the upload on every path.
UbIsUploadUntraced == ~trace => UbIsUpload

Ended(c) == pc[c] = "end" /\ \A d \in Dirs : Over(c, d)

\* As a recorder of live connections sees it: see RelayRegistry.
Phase == [c \in Conns |-> IF c \in Counted THEN "live"
                         ELSE IF pc[c] = "end" THEN "gone" ELSE "pending"]
Registry == INSTANCE RelayRegistry WITH phase <- Phase, alive <- gtr.alive

\* Relay implements RelayRegistry: each connection enters the count at most
\* once, leaves it once, and a connection that is over never comes back.
RegistrySpec == Registry!Spec

\* Once one direction of a datagram relay is over - ended, timed out, or
\* panicked - the other one ends too, and neither write half stays open.
OneEndsBothEnd ==
  \A c \in Conns :
    (DatagramRelay(c) /\ \E d \in Dirs : Over(c, d))
      ~> (Ended(c) /\ \A s \in Sides : half[c][s] # "open")

\* When its peers fall silent, a relay with a datagram side ends: no
\* outbound map asks for no_timeout.
SilentRelayEnds ==
  \A c \in Conns :
    (pc[c] = "copy" /\ Silent(c) /\ (DatagramRelay(c) \/ MixedRelay(c)))
      ~> Ended(c)
=============================================================================
