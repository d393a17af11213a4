--------------------------- MODULE UdpFixedListen ---------------------------
(***************************************************************************)
(* net::udp_fixed_listen: one UDP socket whose datagrams are sorted by     *)
(* their source into AddrConns.  The listener task keeps conn_map, from a  *)
(* source to the sending end of its AddrConn, behind a mutex, and awaits   *)
(* two bounded channels while it holds that mutex.  The AddrConns are      *)
(* accepted, dialled for and relayed by tasks of their own, and the writer *)
(* of an AddrConn takes its entry out of conn_map when it is closed.       *)
(*                                                                         *)
(* A datagram is its source and its number.  The far ends of the relays    *)
(* are the environment.                                                    *)
(***************************************************************************)
EXTENDS Integers, Sequences, FiniteSets

CONSTANTS
  Srcs,      \* source addresses
  AddrConns, \* the AddrConns the run may make (a bound)
  MaxSent,   \* datagrams that arrive from a source (a bound)
  RxCap,     \* capacity of the channel of an AddrConn
  AcceptCap, \* capacity of the channel of accepted AddrConns
  None

ASSUME ConnsAssumption == /\ IsFiniteSet(AddrConns) /\ None \notin AddrConns
                          /\ None \notin Srcs
ASSUME BoundsAssumption == MaxSent \in Nat /\ RxCap \in Nat \ {0} /\ AcceptCap \in Nat \ {0}

VARIABLES
  at,       \* what the listener task does: recv, send, offer, or stopped
  cur,      \* the datagram it sends, or the first of the AddrConn it offers
  sent,     \* how many datagrams of a source have arrived
  conn_map, \* source -> AddrConn whose sender is stored
  accepting,\* FixedTargetAddrUDPListener still exists
  queue,    \* AddrConns waiting for accept()
  src,      \* the source an AddrConn was made for
  stage,    \* who has the AddrConn
  rx,       \* last_buf and the channel of its Reader
  got,      \* what was read from it
  up,       \* the task that reads it
  down,     \* the task that writes, then closes it
  told      \* addr_conn::cp has told both to stop

listenVars == <<at, cur, sent, accepting>>
vars == <<at, cur, sent, conn_map, accepting, queue, src, stage, rx, got, up, down, told>>

Datagrams == [src : Srcs, n : 1..MaxSent]

\* queued: in the accept channel.  dialing: in the inbound fold, the selection
\* or the outbound fold.  turned: in try_shutdown, nothing was selected.
\* early: dialled for, and the record of the connection or the early data is
\* being written.  mixed: cp_ac_and_c or a map such as Echo has it; writing: it
\* writes a datagram to its stream, or flushes it.  paired: addr_conn::cp.
Stages == {"unused", "queued", "dialing", "turned", "early", "mixed", "writing", "paired", "gone"}
\* closing: poll_close_addr is about to be polled.  parked: it was pending.
DownStates == {"none", "run", "closing", "parked", "closed", "dropped"}

Locked == at \in {"send", "offer"}

Init ==
  /\ at = "recv" /\ cur = None
  /\ sent = [s \in Srcs |-> 0]
  /\ conn_map = [s \in Srcs |-> None]
  /\ accepting = TRUE
  /\ queue = <<>>
  /\ src = [c \in AddrConns |-> None]
  /\ stage = [c \in AddrConns |-> "unused"]
  /\ rx = [c \in AddrConns |-> <<>>]
  /\ got = [c \in AddrConns |-> <<>>]
  /\ up = [c \in AddrConns |-> "none"]
  /\ down = [c \in AddrConns |-> "none"]
  /\ told = [c \in AddrConns |-> FALSE]

-----------------------------------------------------------------------------
(* The listener task *)

Arrive(s) == /\ at = "recv" /\ sent[s] < MaxSent
             /\ sent' = [sent EXCEPT ![s] = @ + 1]
             /\ cur' = [src |-> s, n |-> sent'[s]]

\* A datagram of a source with an entry: the lock is taken for the send.
RecvKnown(s) ==
  /\ Arrive(s)
  /\ conn_map[s] # None
  /\ at' = "send"
  /\ UNCHANGED <<conn_map, accepting, queue, src, stage, rx, got, up, down, told>>

\* A datagram of a source without one: its AddrConn is made and stored, the
\* datagram as its first, and the lock kept until accept() has room for it.
RecvNew(s, c) ==
  /\ Arrive(s)
  /\ conn_map[s] = None
  /\ stage[c] = "unused"
  /\ conn_map' = [conn_map EXCEPT ![s] = c]
  /\ src' = [src EXCEPT ![c] = s]
  /\ stage' = [stage EXCEPT ![c] = "queued"]
  /\ rx' = [rx EXCEPT ![c] = <<cur'>>]
  /\ up' = [up EXCEPT ![c] = "run"]
  /\ down' = [down EXCEPT ![c] = "run"]
  /\ at' = "offer"
  /\ UNCHANGED <<accepting, queue, got, told>>

Target == conn_map[cur.src]
\* The first datagram waits in last_buf, beside the channel.
HasRoom(c) == Len(rx[c]) < IF got[c] = <<>> THEN RxCap + 1 ELSE RxCap

\* Mutant: try_send, which drops the datagram when the channel is full.
SendOrDrop ==
  /\ at = "send"
  /\ up[Target] = "run"
  /\ rx' = [rx EXCEPT ![Target] = IF HasRoom(Target) THEN Append(@, cur) ELSE @]
  /\ at' = "recv" /\ cur' = None
  /\ UNCHANGED <<sent, conn_map, accepting, queue, src, stage, got, up, down, told>>

SendOk ==
  /\ at = "send"
  /\ up[Target] = "run" /\ HasRoom(Target)
  /\ rx' = [rx EXCEPT ![Target] = Append(@, cur)]
  /\ at' = "recv" /\ cur' = None
  /\ UNCHANGED <<sent, conn_map, accepting, queue, src, stage, got, up, down, told>>

\* Mutant: a failed send takes the entry out.
SendErrForgets ==
  /\ at = "send"
  /\ up[Target] # "run"
  /\ conn_map' = [conn_map EXCEPT ![cur.src] = None]
  /\ at' = "recv" /\ cur' = None
  /\ UNCHANGED <<sent, accepting, queue, src, stage, rx, got, up, down, told>>

\* The Reader is gone: the datagram is lost, the entry stays.
SendErr ==
  /\ at = "send"
  /\ up[Target] # "run"
  /\ at' = "recv" /\ cur' = None
  /\ UNCHANGED <<sent, conn_map, accepting, queue, src, stage, rx, got, up, down, told>>

OfferOk ==
  /\ at = "offer"
  /\ accepting /\ Len(queue) < AcceptCap
  /\ queue' = Append(queue, Target)
  /\ at' = "recv" /\ cur' = None
  /\ UNCHANGED <<sent, conn_map, accepting, src, stage, rx, got, up, down, told>>

\* The AddrConns cs are dropped, and not closed.
Drop(cs) ==
  /\ stage' = [c \in AddrConns |-> IF c \in cs THEN "gone" ELSE stage[c]]
  /\ rx' = [c \in AddrConns |-> IF c \in cs THEN <<>> ELSE rx[c]]
  /\ up' = [c \in AddrConns |-> IF c \in cs THEN "ended" ELSE up[c]]
  /\ down' = [c \in AddrConns |-> IF c \in cs THEN "dropped" ELSE down[c]]

OfferErr ==
  /\ at = "offer"
  /\ ~accepting
  /\ Drop({Target})
  /\ at' = "stopped" /\ cur' = None
  /\ UNCHANGED <<sent, conn_map, accepting, queue, src, got, told>>

\* recv_from fails, or the shutdown is seen: only between two datagrams.
Stop ==
  /\ at = "recv"
  /\ at' = "stopped"
  /\ UNCHANGED <<cur, sent, conn_map, accepting, queue, src, stage, rx, got, up, down, told>>

SeeShutdown == ~accepting /\ Stop

-----------------------------------------------------------------------------
(* The accept loop *)

Accept ==
  /\ accepting /\ queue # <<>>
  /\ stage' = [stage EXCEPT ![Head(queue)] = "dialing"]
  /\ queue' = Tail(queue)
  /\ UNCHANGED <<listenVars, conn_map, src, rx, got, up, down, told>>

\* The loop is stopped, or its own receiver is gone: the listener is dropped,
\* which signals the shutdown, and what was not accepted with it.
DropListener ==
  /\ accepting
  /\ accepting' = FALSE
  /\ Drop({queue[i] : i \in DOMAIN queue})
  /\ queue' = <<>>
  /\ UNCHANGED <<at, cur, sent, conn_map, src, got, told>>

-----------------------------------------------------------------------------
(* The task of an accepted AddrConn *)

\* The folds or the dial fail.
DialFail(c) ==
  /\ stage[c] = "dialing"
  /\ Drop({c})
  /\ UNCHANGED <<listenVars, conn_map, queue, src, got, told>>

SelectNone(c) ==
  /\ stage[c] = "dialing"
  /\ stage' = [stage EXCEPT ![c] = "turned"]
  /\ down' = [down EXCEPT ![c] = "closing"]
  /\ UNCHANGED <<listenVars, conn_map, queue, src, rx, got, up, told>>

StartRelay(c) ==
  /\ stage[c] = "dialing"
  /\ \E k \in {"early", "mixed", "paired"} : stage' = [stage EXCEPT ![c] = k]
  /\ UNCHANGED <<listenVars, conn_map, queue, src, rx, got, up, down, told>>

\* What is written before the copies start has no timeout, and is not told of a
\* shutdown either.
EarlyWritten(c) ==
  /\ stage[c] = "early"
  /\ \E k \in {"mixed", "paired"} : stage' = [stage EXCEPT ![c] = k]
  /\ UNCHANGED <<listenVars, conn_map, queue, src, rx, got, up, down, told>>

EarlyFail(c) ==
  /\ stage[c] = "early"
  /\ Drop({c})
  /\ UNCHANGED <<listenVars, conn_map, queue, src, got, told>>

\* cp_ac_and_c, or Echo: both halves are one task, which closes nothing.  What
\* its other copy or a shutdown ends, they end in the middle of a write too.
MixedEnd(c) ==
  /\ stage[c] \in {"mixed", "writing"}
  /\ Drop({c})
  /\ UNCHANGED <<listenVars, conn_map, queue, src, got, told>>

\* CP_UDP_TIMEOUT is one branch of the select and the read the other: the write
\* of what was read is behind the select, and nothing bounds it.
MixedTimeout(c) == stage[c] = "mixed" /\ rx[c] = <<>> /\ MixedEnd(c)

\* Mutant: a mixed relay copies towards its datagram side only.
ReadPaired(c) ==
  /\ stage[c] = "paired" /\ up[c] = "run"
  /\ rx[c] # <<>>
  /\ got' = [got EXCEPT ![c] = Append(@, Head(rx[c]))]
  /\ rx' = [rx EXCEPT ![c] = Tail(@)]
  /\ UNCHANGED <<listenVars, conn_map, queue, src, stage, up, down, told>>

Read(c) ==
  /\ stage[c] \in {"mixed", "paired"} /\ up[c] = "run"
  /\ rx[c] # <<>>
  /\ got' = [got EXCEPT ![c] = Append(@, Head(rx[c]))]
  /\ rx' = [rx EXCEPT ![c] = Tail(@)]
  /\ stage' = [stage EXCEPT ![c] = IF @ = "mixed" THEN "writing" ELSE @]
  /\ UNCHANGED <<listenVars, conn_map, queue, src, up, down, told>>

Wrote(c) ==
  /\ stage[c] = "writing"
  /\ stage' = [stage EXCEPT ![c] = "mixed"]
  /\ UNCHANGED <<listenVars, conn_map, queue, src, rx, got, up, down, told>>

\* The reading task of addr_conn::cp leaves its loop, and drops the Reader; its
\* writes are under the timeout, with the reads.
UpEnd(c) ==
  /\ stage[c] = "paired" /\ up[c] = "run"
  /\ up' = [up EXCEPT ![c] = "ended"]
  /\ rx' = [rx EXCEPT ![c] = <<>>]
  /\ UNCHANGED <<listenVars, conn_map, queue, src, stage, got, down, told>>

UpTold(c) == told[c] /\ UpEnd(c)

\* The writing task leaves its loop, on a timeout or an error of either side.
DownEnd(c) ==
  /\ stage[c] = "paired" /\ down[c] = "run"
  /\ down' = [down EXCEPT ![c] = "closing"]
  /\ UNCHANGED <<listenVars, conn_map, queue, src, stage, rx, got, up, told>>

DownTold(c) == told[c] /\ DownEnd(c)

\* poll_close_addr gets the lock at once ...
Close(c) ==
  /\ down[c] = "closing" /\ ~Locked
  /\ conn_map' = [conn_map EXCEPT ![src[c]] = None]
  /\ down' = [down EXCEPT ![c] = "closed"]
  /\ IF stage[c] = "turned"
     THEN /\ stage' = [stage EXCEPT ![c] = "gone"]
          /\ up' = [up EXCEPT ![c] = "ended"]
          /\ rx' = [rx EXCEPT ![c] = <<>>]
     ELSE UNCHANGED <<stage, rx, up>>
  /\ UNCHANGED <<listenVars, queue, src, got, told>>

\* ... or drops the future that would have woken its task.
ClosePending(c) ==
  /\ down[c] = "closing" /\ Locked
  /\ down' = [down EXCEPT ![c] = "parked"]
  /\ UNCHANGED <<listenVars, conn_map, queue, src, stage, rx, got, up, told>>

Woken(c) == IF down[c] = "parked" THEN "closing" ELSE down[c]

\* addr_conn::cp: one task is over, both are told.  A writing task that has
\* left its loop still has its receiver, and is woken by that.
CpNotice(c) ==
  /\ stage[c] = "paired" /\ ~told[c]
  /\ up[c] = "ended" \/ down[c] = "closed"
  /\ told' = [told EXCEPT ![c] = TRUE]
  /\ down' = [down EXCEPT ![c] = Woken(c)]
  /\ UNCHANGED <<listenVars, conn_map, queue, src, stage, rx, got, up>>

\* A late datagram of the far end wakes the task that used to read it.
FarEndWakes(c) ==
  /\ stage[c] = "paired" /\ down[c] = "parked"
  /\ down' = [down EXCEPT ![c] = "closing"]
  /\ UNCHANGED <<listenVars, conn_map, queue, src, stage, rx, got, up, told>>

-----------------------------------------------------------------------------
Listening == \/ \E s \in Srcs : RecvKnown(s) \/ \E c \in AddrConns : RecvNew(s, c)
             \/ SendOk \/ SendErr \/ OfferOk \/ OfferErr \/ Stop
Serving(c) == DialFail(c) \/ SelectNone(c) \/ StartRelay(c) \/ EarlyWritten(c) \/ EarlyFail(c)
              \/ MixedEnd(c) \/ Read(c) \/ Wrote(c) \/ UpEnd(c) \/ DownEnd(c)
              \/ Close(c) \/ ClosePending(c) \/ CpNotice(c) \/ FarEndWakes(c)

Next == Listening \/ Accept \/ DropListener \/ \E c \in AddrConns : Serving(c)

Spec == Init /\ [][Next]_vars

\* tokio runs the tasks that are ready; the outbound fold has a timeout, and so
\* has each round of a paired copy and each read of a mixed one.  Sources and far
\* ends owe nothing, so nothing is asked of Wrote and EarlyWritten.
Fairness ==
  /\ WF_vars(SendOk) /\ WF_vars(SendErr) /\ WF_vars(OfferOk) /\ WF_vars(OfferErr)
  /\ WF_vars(SeeShutdown) /\ WF_vars(Accept)
  /\ \A c \in AddrConns :
       /\ WF_vars(DialFail(c) \/ SelectNone(c) \/ StartRelay(c))
       /\ WF_vars(Read(c) \/ UpEnd(c)) /\ WF_vars(MixedTimeout(c))
       /\ WF_vars(UpTold(c)) /\ WF_vars(DownTold(c))
       /\ WF_vars(Close(c) \/ ClosePending(c)) /\ WF_vars(CpNotice(c))

FairSpec == Spec /\ Fairness

-----------------------------------------------------------------------------
(* Properties *)

\* conn_map has exactly the AddrConns that were never closed: a closing writer
\* takes out its own entry and never that of a successor on the same source,
\* and two unclosed AddrConns never share a source.
EntryIsUnclosed ==
  \A c \in AddrConns :
    {s \in Srcs : conn_map[s] = c} =
      IF down[c] \in {"run", "closing", "parked", "dropped"} THEN {src[c]} ELSE {}

\* What an AddrConn has given, and holds ready, is an uninterrupted run of the
\* datagrams of its own source: none from another, none twice, none out of
\* order; and as long as it has its entry and its Reader, the run goes up to the
\* last one that arrived, however often the listener waited for room.
StreamUnbroken ==
  \A c \in AddrConns :
    LET all == got[c] \o rx[c]
        arrived == IF at = "send" /\ cur.src = src[c] THEN cur.n - 1 ELSE sent[src[c]]
    IN /\ \A i \in DOMAIN all : /\ all[i].src = src[c]
                                /\ i > 1 => all[i].n = all[i-1].n + 1
       /\ up[c] = "run" /\ conn_map[src[c]] = c => all[Len(all)].n = arrived

\* The task that turns c away waits for the lock of a listener that waits for
\* room in c.
Deadlocked(c) == at = "send" /\ Target = c /\ stage[c] = "turned" /\ ~HasRoom(c)

\* What is written outside any timeout is taken in the end, or refused: no stream
\* stays open and takes nothing for good.
StreamsMove == \A c \in AddrConns : []<>(stage[c] \notin {"early", "writing"})

\* The listener, which awaits two channels with conn_map locked, comes back to
\* its socket, unless a stream it relays to stalls for good, or it waits for an
\* AddrConn that is being turned away.
ListenerReturns == StreamsMove => (Locked ~> (~Locked \/ \E c \in AddrConns : Deadlocked(c)))

\* "For every connection from a new source port a Stream::AddrConn is made":
\* the listener comes back to its socket, whatever becomes of the others, as long
\* as every stream moves.
ListenerServes == StreamsMove => (Locked ~> ~Locked)
=============================================================================
