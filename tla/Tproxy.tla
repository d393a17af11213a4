------------------------------- MODULE Tproxy -------------------------------
(***************************************************************************)
(* rucimp's map::tproxy: UDPListener beside TcpResolver, whose commands    *)
(* decide what the kernel brings to its socket.                            *)
(*                                                                         *)
(* A thread reads the datagrams round two static buffers and tries to send *)
(* their bounds to a task, which copies them out and sorts them by their   *)
(* destination and source ("key") into AddrConns, as udp_fixed_listen      *)
(* does; the accept loop passes these on.  The AddrConns fare as in        *)
(* UdpFixedListen, whose variables and actions are used for them.          *)
(*                                                                         *)
(* Of a buffer there is whether the range of a queued datagram still holds *)
(* it.  The copying of a range and the reading into it do not exclude each *)
(* other: what is copied while it is overwritten is not what was queued.   *)
(***************************************************************************)
EXTENDS UdpFixedListen, AutoRoute

CONSTANTS
  Lens,     \* lengths of datagrams
  BufLen,   \* MAX_DATAGRAM_SIZE
  MsgCap,   \* capacity of the channel from the thread to the task
  MaxSentAfter \* MaxSent once a command has failed or a process was killed

MTU == CHOOSE m \in Lens : \A l \in Lens : l <= m

ASSUME BufferAssumption == /\ IsFiniteSet(Lens) /\ Lens # {} /\ Lens \subseteq Nat \ {0}
                           /\ BufLen \in Nat /\ BufLen >= MTU
                           /\ MsgCap \in Nat \ {0} /\ MaxSentAfter \in 0..MaxSent

VARIABLES
  thread,   \* "off", "recv" or "ended"
  pos,      \* current_buf_i and left_bound
  msgs,     \* what is queued for the task
  held      \* the AddrConn the accept loop is sending on

threadVars == <<thread, pos>>
tproxyVars == <<thread, pos, msgs, held>>
tvars == <<vars, routeVars, tproxyVars>>

TproxyInit ==
  /\ Init /\ RouteInit
  /\ thread = "off" /\ pos = <<0, 0>> /\ msgs = <<>> /\ held = None

\* The variables are those of a process that has not listened yet.
Reset ==
  /\ at' = "recv" /\ cur' = None /\ accepting' = TRUE /\ queue' = <<>>
  /\ sent' = [s \in Srcs |-> 0] /\ conn_map' = [s \in Srcs |-> None]
  /\ src' = [c \in AddrConns |-> None] /\ stage' = [c \in AddrConns |-> "unused"]
  /\ rx' = [c \in AddrConns |-> <<>>] /\ got' = [c \in AddrConns |-> <<>>]
  /\ up' = [c \in AddrConns |-> "none"] /\ down' = [c \in AddrConns |-> "none"]
  /\ told' = [c \in AddrConns |-> FALSE]
  /\ thread' = "off" /\ pos' = <<0, 0>> /\ msgs' = <<>> /\ held' = None

-----------------------------------------------------------------------------
(* loop_accept_udp *)

Overlap(m, b, lb, rb) == m.buf = b /\ m.lb < rb /\ lb < m.rb

\* Mutant: the last range of a buffer may end one behind it.
AdvanceLate(b, rb) == IF rb + MTU > BufLen + 1 THEN <<1 - b, 0>> ELSE <<b, rb>>

\* Mutant: the thread goes round in one buffer.
AdvanceOne(b, rb) == IF rb + MTU > BufLen THEN <<b, 0>> ELSE <<b, rb>>

Advance(b, rb) == IF rb + MTU > BufLen THEN <<1 - b, 0>> ELSE <<b, rb>>

\* A datagram is read over what its range held.  A full or a closed channel
\* loses it and ends the thread.
Recv(s, len) ==
  /\ thread = "recv" /\ accepting /\ Intercepts(tables[4])
  /\ sent[s] < IF faults + crashes = 0 THEN MaxSent ELSE MaxSentAfter
  /\ LET b == pos[1]
         lb == pos[2]
         m == [src |-> s, n |-> sent[s] + 1, buf |-> b, lb |-> lb, rb |-> lb + len, ok |-> TRUE]
         old == [i \in DOMAIN msgs |-> [msgs[i] EXCEPT !.ok = @ /\ ~Overlap(msgs[i], b, lb, lb + len)]]
     IN  /\ pos' = Advance(b, lb + len)
         /\ IF Len(msgs) < MsgCap /\ at # "stopped"
            THEN msgs' = Append(old, m) /\ sent' = [sent EXCEPT ![s] = @ + 1] /\ UNCHANGED thread
            ELSE msgs' = old /\ thread' = "ended" /\ UNCHANGED sent
  /\ UNCHANGED <<at, cur, conn_map, accepting, queue, src, stage, rx, got, up, down, told, held, routeVars>>

\* Reading fails, or the thread sees shutdown_thread_atomic.
ThreadEnd ==
  /\ thread = "recv" /\ thread' = "ended"
  /\ UNCHANGED <<vars, routeVars, pos, msgs, held>>

ThreadSees == ~accepting /\ ThreadEnd

-----------------------------------------------------------------------------
(* The task of Listener::new *)

Keep(A) == A /\ UNCHANGED <<routeVars, tproxyVars>>

Datagram(m) == [src |-> m.src, n |-> m.n]

Take ==
  /\ at = "recv" /\ msgs # <<>>
  /\ cur' = Datagram(Head(msgs)) /\ msgs' = Tail(msgs)
  /\ UNCHANGED <<sent, accepting, queue, got, told, threadVars, held, routeVars>>

TakeKnown ==
  /\ Take
  /\ conn_map[cur'.src] # None
  /\ at' = "send"
  /\ UNCHANGED <<conn_map, src, stage, rx, up, down>>

\* The first datagram goes along as first_buf, and is relayed as early data.
TakeNew(c) ==
  /\ Take
  /\ conn_map[cur'.src] = None /\ stage[c] = "unused"
  /\ conn_map' = [conn_map EXCEPT ![cur'.src] = c]
  /\ src' = [src EXCEPT ![c] = cur'.src]
  /\ stage' = [stage EXCEPT ![c] = "queued"]
  /\ rx' = [rx EXCEPT ![c] = <<cur'>>]
  /\ up' = [up EXCEPT ![c] = "run"] /\ down' = [down EXCEPT ![c] = "run"]
  /\ at' = "offer"

TaskSend == Keep(SendOk)
TaskOffer == Keep(OfferOk)

\* The Reader is gone: the datagram is lost, the entry is removed.
SendErrRemoves ==
  /\ at = "send" /\ up[Target] # "run"
  /\ conn_map' = [conn_map EXCEPT ![cur.src] = None]
  /\ at' = "recv" /\ cur' = None
  /\ UNCHANGED <<sent, accepting, queue, src, stage, rx, got, up, down, told, tproxyVars, routeVars>>

\* Mutant: the end of the thread is not an end of the task.
TaskStopTold ==
  /\ ~accepting
  /\ Stop
  /\ msgs' = <<>> /\ UNCHANGED <<threadVars, held, routeVars>>

\* Told to shut down, or the thread is gone and its channel drained.
TaskStop ==
  /\ ~accepting \/ (thread = "ended" /\ msgs = <<>>)
  /\ Stop
  /\ msgs' = <<>> /\ UNCHANGED <<threadVars, held, routeVars>>

TaskOfferErr == OfferErr /\ msgs' = <<>> /\ UNCHANGED <<threadVars, held, routeVars>>

-----------------------------------------------------------------------------
(* UDPListener::start_listen: the accept loop *)

Start ==
  /\ phase = "up" /\ thread = "off"
  /\ thread' = "recv"
  /\ UNCHANGED <<vars, routeVars, pos, msgs, held>>

ListenerAccept ==
  /\ accepting /\ held = None /\ queue # <<>>
  /\ held' = Head(queue) /\ queue' = Tail(queue)
  /\ UNCHANGED <<listenVars, conn_map, src, stage, rx, got, up, down, told, threadVars, msgs, routeVars>>

Pass ==
  /\ held # None
  /\ stage' = [stage EXCEPT ![held] = "dialing"] /\ held' = None
  /\ UNCHANGED <<listenVars, conn_map, queue, src, rx, got, up, down, told, threadVars, msgs, routeVars>>

\* shutdown_rx, and Listener::shutdown with it; or nothing more to accept,
\* and the same by the Drop of the Listener.
Shutdown == thread # "off" /\ held = None /\ Keep(DropListener)
AcceptErr == at = "stopped" /\ queue = <<>> /\ Shutdown

\* The receiver of the loop is gone.
PassErr ==
  /\ held # None /\ accepting
  /\ Drop({held} \cup {queue[i] : i \in DOMAIN queue})
  /\ accepting' = FALSE /\ queue' = <<>> /\ held' = None
  /\ UNCHANGED <<at, cur, sent, conn_map, src, got, told, threadVars, msgs, routeVars>>

-----------------------------------------------------------------------------
\* poll_read_addr and poll_close_addr are those of udp_fixed_listen.
Reader(c) == Keep(Read(c))
Writer(c) == Keep(Close(c) \/ ClosePending(c))

Relaying(c) == Keep(DialFail(c) \/ SelectNone(c) \/ StartRelay(c) \/ EarlyWritten(c)
                    \/ EarlyFail(c) \/ MixedEnd(c) \/ Wrote(c) \/ UpEnd(c) \/ DownEnd(c) \/ CpNotice(c) \/ FarEndWakes(c))

Reading == thread # "off" /\ \E s \in Srcs, len \in Lens : Recv(s, len)
Tasks == \/ ThreadEnd
         \/ TakeKnown \/ \E c \in AddrConns : TakeNew(c)
         \/ TaskSend \/ SendErrRemoves \/ TaskOffer \/ TaskOfferErr \/ TaskStop
         \/ ListenerAccept \/ Pass \/ PassErr \/ Shutdown
         \/ \E c \in AddrConns : Reader(c) \/ Writer(c) \/ Relaying(c)

\* The engine stops its inbounds before it lets go of its maps.
Drops == DropResolver /\ (thread = "off" \/ ~accepting) /\ Reset
Dies == Killed /\ Reset
Routing == RouteNext /\ UNCHANGED <<vars, tproxyVars>>

TproxyNext == Routing \/ Drops \/ Dies \/ Start \/ Reading \/ Tasks

TproxySpec == TproxyInit /\ [][TproxyNext]_tvars

\* Less than in UdpFixedListen: what ends an AddrConn is not needed, only that
\* its dial ends and its Reader reads or is dropped.  Shutting the socket down ends the
\* thread's wait.
TproxyFairness ==
  /\ WF_tvars(ThreadSees) /\ WF_tvars(TakeKnown) /\ WF_tvars(\E c \in AddrConns : TakeNew(c))
  /\ WF_tvars(TaskSend) /\ WF_tvars(SendErrRemoves)
  /\ WF_tvars(TaskOffer) /\ WF_tvars(TaskOfferErr) /\ WF_tvars(TaskStop)
  /\ WF_tvars(ListenerAccept) /\ WF_tvars(Pass) /\ WF_tvars(AcceptErr)
  /\ \A c \in AddrConns :
       /\ WF_tvars(Keep(DialFail(c) \/ SelectNone(c) \/ StartRelay(c)))
       /\ WF_tvars(Reader(c) \/ Keep(UpEnd(c)))

TproxyFairSpec == TproxySpec /\ TproxyFairness

-----------------------------------------------------------------------------
(* Properties *)

Taken == [src : Srcs, n : 1..MaxSent]

TproxyTypeOK ==
  /\ thread \in {"off", "recv", "ended"}
  /\ pos \in {0, 1} \X (0..BufLen - MTU)
  /\ Len(msgs) <= MsgCap /\ \A i \in DOMAIN msgs : Datagram(msgs[i]) \in Taken
  /\ held \in AddrConns \cup {None}
  /\ cur \in Taken \cup {None}
  /\ conn_map \in [Srcs -> AddrConns \cup {None}]
  /\ \A c \in AddrConns : \A i \in DOMAIN got[c] : got[c][i] \in Taken
  /\ phase \in {"off", "cleaning", "adding", "up", "dropping"} /\ fam \in Families

\* What an AddrConn has given and holds ready is an uninterrupted run of the
\* datagrams of its own key; as long as it has its entry and its Reader, and
\* the task goes on, the run goes up to the last one the task took; and
\* AddrConns that follow each other on a key, when a send has failed or the
\* close of one has taken the entry of the next, share none and are in order.
DatagramsInOrder ==
  LET all == [c \in AddrConns |-> got[c] \o rx[c]]
      queued(s) == {msgs[i].n : i \in {j \in DOMAIN msgs : msgs[j].src = s}}
                   \cup (IF at = "send" /\ cur.src = s THEN {cur.n} ELSE {})
      Before(c, d) == \A x \in DOMAIN all[c], y \in DOMAIN all[d] : all[c][x].n < all[d][y].n
  IN  \A c \in AddrConns :
        /\ \A i \in DOMAIN all[c] : /\ all[c][i].src = src[c]
                                    /\ i > 1 => all[c][i].n = all[c][i-1].n + 1
        /\ \A d \in AddrConns : c # d /\ src[c] = src[d] => Before(c, d) \/ Before(d, c)
        /\ at # "stopped" /\ up[c] = "run" /\ conn_map[src[c]] = c
             => \A n \in 1..sent[src[c]] : n \in queued(src[c]) \/ n <= all[c][Len(all[c])].n

\* A queued datagram is overwritten only when so many newer ones were read behind
\* it as the other buffer holds at their full length, and the rest of its own:
\* nothing that fits is lost, however the lengths share the buffers out.  (The
\* newest may not be queued: the one that found the channel full.)
QueuedIntact ==
  LET full == BufLen \div MTU
      newer(i) == Len(msgs) - i + (IF thread = "ended" THEN 1 ELSE 0)
  IN  \A i \in DOMAIN msgs : newer(i) < full + (IF full = 1 THEN 1 ELSE full - 1) => msgs[i].ok

\* The model has no AddrConn left for the next datagram.
Exhausted == /\ at = "recv" /\ msgs # <<>> /\ conn_map[Head(msgs).src] = None
             /\ \A c \in AddrConns : stage[c] # "unused"

AllOver == thread = "ended" /\ at = "stopped" /\ ~accepting

\* The thread, the task and the accept loop end together: when the inbound is
\* shut down all are over, and when the thread gives up, for a full channel or
\* an error of its socket, the inbound does not go on deaf; unless the task
\* waits, with the lock, for an AddrConn that waits for the lock, or for one whose
\* stream takes nothing for good: the task sees a shutdown only between two
\* datagrams.
EndTogether ==
  StreamsMove =>
    ((thread = "ended" \/ (thread # "off" /\ ~accepting))
      ~> (AllOver \/ thread = "off" \/ Exhausted \/ \E c \in AddrConns : Deadlocked(c)))
=============================================================================
