# A TLA+ model of ruci

ruci is a proxy framework in Rust.  A connection is carried through an
*inbound chain* of maps (listener, TLS, WebSocket, trojan, socks5, ...) which
decode it and find a target address, an *outbound* is selected for it, the
outbound chain encodes it towards the next hop, and then bytes or datagrams are
copied between the two ends until the relay is over.  Everything runs as tokio
tasks that share a few counters, maps and channels.

The modules here model the core of that: how the socks5, http and trojan servers
make a target, a user and early data of the bytes of a client, and a rule picks
an outbound for it; how streams are folded through their chains; how an accepted
connection is relayed and counted; how one UDP socket serves many sources, and
how the transparent proxy and its firewall rules do; how an engine is run,
stopped and reset; and how streams travel over h2, QUIC and WebSocket.  Paths
below are relative to the repository.

## 1. Inventory

| Part | Source | State | Operations | What makes it correct |
|---|---|---|---|---|
| fold | `src/map/fold.rs` | per task: the iterator of the chain, trace, cid; the channels of generators and of results | `fold`, `fold_from_start`, `in_iter_fold_forever`, `spawn_fold_forever` | each stream sees the whole chain, in order; ids are distinct; no result is lost; the inbound ends when its producers have |
| relay | `src/relay/*.rs`, `src/net/cp.rs`, `src/net/addr_conn.rs` | per connection: kinds and write halves of two streams, early data, the two copies; shared: `GlobalTrafficRecorder`, the new-connection channel | `handle_in_fold_result`, `cp_stream`, `cp_conn`, `cp_ac`, `cp_ac_and_c`, `addr_conn::cp` | live relays are counted exactly on every way out; totals are recorded once and on the right side; both halves end |
| fixed-target UDP listener | `src/net/udp_fixed_listen.rs` | `conn_map` (source to channel) behind a mutex, the accept channel, a channel per `AddrConn` | receive, accept, read, close | datagrams reach the stream of their source in order; the listener always comes back to its socket; a closed writer removes its own entry |
| accept loops | `src/map/network/accept.rs`, `network/mod.rs`, `net/listen.rs` | a bound listener, a shutdown receiver | `loop_accept` | a listener that is told to stop does and frees its address |
| chain engine | `rucimp/src/modes/chain/engine.rs` | configuration, `running`, `gtr` | `init_*`, `run`, `stop`, `reset` | stop, run, reset and init can follow each other |
| selectors | `src/relay/route.rs`, `rucimp/src/route` | read-only tables | `select` | the first rule that matches wins; what a rule gives to some users is only theirs |
| dynamic chains | `rucimp/src/modes/chain/config/{dynamic,lua/mod}.rs` | an index; for infinite chains a Lua state shared by all clones, with `thread_map` and `create_thread_func_map` by cid | `next_with_data` | ends on an index out of range; each stream goes on with its own coroutine |
| h2, QUIC | `rucimp/src/map/h2`, `quinn`, `quic` | clients: one cached connection behind a mutex that is held over awaits; servers: an accept loop per connection | `handshake` | concurrent dials share one connection and do not lose it; no dial hangs; one bad request does not end the others |
| h2 streams | `rucimp/src/map/h2/{mod,grpc}.rs`, `grpc/zero_rtt.rs` | a buffer of what was received, the length left of a grpc message, the capacity the h2 library grants | `poll_read`, `poll_write`, `poll_shutdown`, drop | a byte pipe: nothing lost, added or reordered, no early end, no standstill |
| tproxy | `rucimp/src/map/tproxy` | a reader thread with two static buffers, a channel to a task, `conn_map`; the kernel's rules, routes and chains | as the UDP listener; `run_auto_route`, `down_auto_route` | as the UDP listener, no buffer is reused before it is read; the proxy's own traffic is never turned to it; what was set up is taken down |
| socks5, http proxy, socks5http, http filter | `src/map/socks5`, `http_proxy.rs`, `socks5http.rs`, `http_filter.rs` | the buffer that was read and how far | handshakes of both ends, UDP associate | nobody passes without a user; target and payload are exact however the bytes come; a fallback gets all of them |
| trojan | `src/map/trojan` | as above; a reader of datagram frames with `left_data_len` and `old_ad` | handshakes of both ends, `poll_read_addr` | as above; datagrams stay whole and in order |
| WebSocket | `rucimp/src/map/ws` | `EarlyConn`: not dialled, dialling, established; `left_first_w_data`; `r_buf` | `poll_read`, `poll_write`, `poll_flush`, `poll_shutdown` | a byte pipe across the early data of the header and the messages |
| TLS, datagram sockets, test maps | `src/map`, `rucimp/src/map`, `src/net/udp.rs` | per connection | handshakes | the protocol |
| suit engine | `rucimp/src/modes/suit` | as the chain engine | `run`, `stop` | as the chain engine |
| command line, API | `crates/ruci-cmd` | maps of connections and traffic | `run_engine`, the API | what it shows is what happened |

How they interact: `Engine::run` spawns, for every inbound, `fold_from_start`
and `loop_a`.  The first map of the chain is a *generator*: an accept loop that
sends streams into a channel.  `in_iter_fold_forever` takes each, gives it an id
and spawns a task that folds the rest of the chain over it; a multiplexer in the
middle of the chain is a generator again.  The result goes through a bounded
channel to `loop_a`, which spawns `handle_in_fold_result`.  That selects, dials
(folding the outbound chain under a timeout), reports the connection to a
recorder through another bounded channel and starts the copies.  All relays add
to one `GlobalTrafficRecorder`.  The engine ends an inbound through a oneshot
that only the accept loop looks at.

What is hard here: tasks that outlive the function that counts them; a mutex
held across two bounded channels; select! that drops futures; ways of ending
that skip a step of the others; order of ending as an input; stragglers of an
earlier run.  `PROJECT.json` lists these as hazards, each at its line.

## 2. Modules

| Module | Models | State and actions |
|---|---|---|
| `Relay` | `handle_in_fold_result` to the end of both copies, for any number of connections | `pc` is where the task of a connection stands, `dir` the two copies, `half` the write halves, `gtr` the recorder; an action per await and per way of leaving it |
| `RelayRegistry` | the abstract promise of `alive_connection_count` | a connection is pending, live or gone |
| `Handshake` | what the servers of an inbound share: a client with its script, the two byte streams, the buffer that is read into, the `MapResult` | `pc` is where the map stands, `buf`, `n` and `loc` its locals, `res` its result; `Takes` is what a read may return |
| `Socks5`, `HttpProxy`, `Trojan` | the servers of these protocols, socks5http, the http filter, ruci's own clients, UDP associate, the reader of trojan datagrams | an action per read of the server; the parsing between two reads is a function of the buffer |
| `Route` | the four kinds of outbound selectors | `Select`, a function of the selector and the connection |
| `Inbound` | the four above together: any session of a client with a server, then the selection | `RouteResult` is the select of `handle_in_fold_result`, `out` its answer |
| `UdpFixedListen` | the listener task, the accept loop, and the tasks that own an `AddrConn` | `at`/`cur` is the listener task (in `send` and `offer` it holds the mutex), `conn_map`, a channel `rx` per `AddrConn`, the `stage` of its relay (in `early` and `writing` it awaits a stream that has no timeout), and its reading (`up`) and writing (`down`) task |
| `AutoRoute` | `run_auto_route` and `down_auto_route`, for IPv4 and IPv6, command by command | `todo` is what is left of the list, `tables` the kernel's |
| `Tproxy` | tproxy's UDP listener, started by a `TcpResolver` whose `AutoRoute` decides whether datagrams come | `thread`, `pos` the reader thread and its buffers, `msgs` its channel; the `AddrConn`s are those of `UdpFixedListen`, with its actions |
| `Fold` | the folding tasks of inbounds with multiplexers, over static and Lua-driven chains, and `loop_a` | `iter` is an `in_iter_fold_forever`, `st` what became of a stream, `left`, `trace`, `cid` what its task carries; `Static`, `Finite`, `Infinite`, `Call`, `Start`, `Resume` are the cases of `next_with_data` |
| `Engine` | init, run, stop, reset and the tasks and addresses of the inbounds | `task` is `fold_from_start` and its listener, `port` who has an address, `conn` the task of a connection, `alive` the count of each recorder there has been |
| `MuxConn` | the clients and servers of h2, grpc and QUIC as owners of one connection with many streams | `pc` is where a dial stands, `holder` has the mutex, `cache` and `real` the connection, `on` and `gone` its streams; `serving` is the accept loop of a connection |
| `H2Stream` | one direction of the three kinds of h2 streams, with the frames and the window of the h2 library | `writer` and `reader` are the two ends, `wire` the DATA frames between them, `conn` the connection, `single` which end is a `SingleClient`'s, `buffer` and `next_data_len` the fields of the reading end; an action per kind of stream and branch of `poll_read` and `poll_write` |
| `WsStream` | the way up through a WebSocket, with and without early data, under the four ways a relay writes first | `conn` is the `EarlyConn`, `left`, `header`, `unsent` where bytes wait, `wire` the messages |
| `BytePipe` | the abstract promise of a stream | what was sent, what was read, how the writing end ended |
| `RelayProofs`, `EngineProofs`, `FoldProofs`, `MuxConnProofs`, `InboundProofs`, `TproxyProofs`, `WsStreamProofs`, `H2StreamProofs` | theorems about the modules they are named after and those they join: `TproxyProofs` has those about `AutoRoute` and `UdpFixedListen` too, `InboundProofs` those about the protocols and `Route` | |
| `MC*` | the instances that are model-checked | |

Composition.  `Inbound` joins the protocol modules (which EXTEND `Handshake`)
with `Route`; `Tproxy` joins `AutoRoute` with the `AddrConn`s of
`UdpFixedListen`, replacing its listener; `H2Stream` and `WsStream` both refine
`BytePipe`.

Abstractions.  A stream is its kind (`Conn`, `AddrConn`, none) and the fate of
its write half; a chunk is a unit, a datagram its source and number.  What a map
or a peer does to a stream is a choice of the environment.  In `Fold` a map is
its place in the chain, the data and tags that maps pass on are left out; a
multiplexer numbers its streams 1, 2, ... where h2 takes the stream id of the
protocol, distinct and increasing too; a coroutine in `thread_map` is the index
it is at, or `OVER`, and what a script answers is any index of `Script`.  Relays
run with a recorder, as the engine always gives one.  No map of the repository
sets `no_timeout` or the `shutdown_rx` of a result, so the arms of `select!` that
wait for them never fire and are left out; in particular, stopping an engine
does not end a relay.  In `Engine` a recorder is a number, 0 the first and one
more with every `reset`; how an inbound comes to a connection is `Fold`'s affair.
There `clean` is a history variable: the addresses
that were free, with no task about to bind them, when a run was started.

In `Handshake` and the protocols a byte is a number, but what a protocol does not
look into is one number: a line of an http request, a CRLF, a hash in trojan is
`PassLen` numbers.  An address in socks5 and trojan is its bytes, as lengths and
offsets matter there.  `ses` holds everything that is fixed when a client meets
a server: configuration, script, what the client means.  `Route` matches
networks, addresses and countries as members of sets.

In `H2Stream` byte i of the payload is the number i, and every byte of the head
of a message of n bytes is -(n + 1): the head's 6 bytes and varint are
`HeadLen` bytes that carry the length.  The h2 library is external: a
`send_data` becomes DATA frames of at most `MaxFrame` bytes, released capacity
is back in the writer's window at once, and a write is granted any part of what
it asked for and the window has (exactly that if the stream is a `SingleClient`'s
and has the connection to itself, `single`).  A connection that is lost, because
the transport breaks or the task of a `SingleClient` ends once it was told, loses
any part of what was not read.  `grpc::Stream` and `zero_rtt::Stream` are the same
code but for the response the second waits for.  In `WsStream` the tungstenite
library is external: it sends what it was given when it is flushed.

In `AutoRoute` a command either does to the tables what `ip` and `iptables` do,
fails as they fail (deleting what is not there, a chain that is not empty), or
fails for a reason of its own, `MaxFaults` times.  The entries that spare local
networks are left out: they do not bear on what is checked.  In `Tproxy` a
buffer is the ranges of it that queued datagrams stand in: a range that is
written again makes the datagram not `ok`.

Definitions whose comment starts with "Mutant" are not part of any
specification: each is a slip that the code could have had, and the property it
is listed with in `PROJECT.json` fails when it takes the place of the original.

## 3. What the runs check

Runs that pass:

| Run | Instance | Shows |
|---|---|---|
| `Relay` | 2 connections, 1 chunk per direction, a channel of 1 | `AliveExact`: the count is right at every moment, on every way out.  `TrafficConserved`: ub + db is what was delivered, each chunk once, from detached tasks too.  `UbIsUploadUntraced`: without an updater ub is the upload |
| `RelayLive` | 1 connection, 2 chunks, fair | `OneEndsBothEnd`: one task of a datagram relay over, by a panic even, ends the other and closes both write halves.  `SilentRelayEnds`: the timeouts end every relay with a datagram side.  `RegistrySpec`: refinement of `RelayRegistry` |
| `Inbound` | 51 sessions, of clients some of whom a map before has authenticated, any 2 messages cut anywhere, 4 selectors, fair | `AuthBeforeTarget`: nobody passes a server with users but as one of them.  `TargetExact`, `PayloadWhole`, `FallbackWhole`: in whatever pieces the bytes come, the target is the client's, its payload is handed on from the first byte, and a fallback gets everything.  `WholeMessagesServed`: who speaks the protocol is served.  `ReservedRoute`: an outbound that a rule reserves for lists of users is taken only by who has proved to be exactly one of the lists, from the handshakes to the selection, with a target and without.  `DatagramsIntact`: trojan's datagrams, in buffers of the caller longer than they are, shorter, and just as long.  `HandshakeEnds` |
| `UdpFixedListen` | 2 sources, 2 `AddrConn`s, 3 datagrams each, channels of 1, fair | `EntryIsUnclosed`: `conn_map` holds exactly what was never closed; closing never removes a successor.  `StreamUnbroken`: a stream is an uninterrupted run of its source's datagrams.  `ListenerReturns`: while the streams it relays to move, the listener gets out of its critical section, but for one deadlock |
| `Tproxy` | 1 key, 2 `AddrConn`s, 4 datagrams of length 1 or 2 in buffers of 3, a channel of 3, 2 configurations, 1 failing command, 1 kill, fair | `DatagramsInOrder`: as `StreamUnbroken`, though entries are removed on failed sends too.  `QueuedIntact`: how far behind the task may fall before a datagram is overwritten.  `OwnTrafficNeverLoops`: at no moment, with one failing command and whatever a kill left over, is the proxy's own traffic turned to it.  `ListRestores`: the cleaning list removes what any earlier process left.  `EndTogether`: thread, task and accept loop end together, while the streams move |
| `Fold` | 1 inbound, chain of listener, multiplexer and two proxies; static and finite with 3 streams, infinite with 2; channels of 1, fair | `CidsDistinct`, `MapsInOrder`: concurrent folds stay apart, across multiplexers, and each coroutine goes on with its own stream.  `NoResultLost`, `LoopEnds`: `loop_a` ends neither early nor never |
| `Engine` | a UDP inbound, whose steps include those of a TCP one, 2 runs, 2 connections, fair | `RecordersCountTheirRuns`: every recorder counts the relays of the runs that were given it, those that outlive their run and its reset too.  `CleanRunServes`: a run whose addresses were free is served.  `ListenersStop`: a `Listener` that is told to stop does |
| `MuxConn` | 3 dials, 2 connections of 2 streams at once, 1 timeout, one dial refused, fair | `SubCidsDistinct`: no two streams have one id.  `ConnectionKept`: racing and cancelled dials do not lose the connection.  `DialsEnd`: no dial hangs, but for one thing, the limit of QUIC's streams.  `GoodStreamsServed`: a refused request does not harm the others, a reset one does |
| `H2Stream` | 8 bytes, writes of 3, reads of 2, heads of 2, frames of 3, a window of 6, fair | `PipeSpec`: the three streams refine `BytePipe`.  `AllArrives`: while the connection is there no stream comes to a standstill, and no reader fails but for want of a response; for `H2Stream`, which gives back less than it reads, this is not obvious |
| `WsStream` | 7 bytes, a first write of up to 5, of which 3 fit into the request, writes of 3, reads of 2, fair | `PipeSpec`: header, rest and messages refine `BytePipe`.  `WrittenArrives`: what was written arrives although nothing follows it |

Runs that find a disagreement of the code with what it says of itself (the
quotations are in `PROJECT.json`):

| Run | Violated | What happens |
|---|---|---|
| `UdpFixedListenServes` | `ListenerServes` | the listener waits for room in the channel of an `AddrConn` with `conn_map` locked, and the task that turns this `AddrConn` away waits for the lock; every stream moves meanwhile |
| `InboundEarly` | `EarlyDataWasSent` | a socks5 client that sends nothing for 100ms after its reply has a buffer of zeros relayed to its target as early data |

Other ways in which the code does less than one would expect.  The models have
them, the properties say so where they make an exception, and no run is about
them:

- `net::cp::select_f` puts the total of the direction that ended first in front;
  with an updater, a download that ends first is counted as upload
  (`UbIsUploadUntraced` is about relays without one).
- A close of the fixed-target UDP listener that finds the lock taken drops the
  future that would wake it; `cp_addr` does not return unless a late datagram
  wakes it (`FarEndWakes`).
- `cp_ac_to_c` has its timeout on the read; the write and the flush of what was read
  are behind the select!, and so is the early data before it (`cp_ac.rs:120`, `228`,
  `235`).  A stream that stays open and takes nothing stops the reading for good, the
  channel of the `AddrConn` fills, and the listener waits for room with `conn_map`
  locked: a second standstill, for as long as the stream stalls.  tproxy's task waits
  in the same way and does not see a shutdown meanwhile.  `StreamsMove`, the premise of
  `ListenerReturns`, `ListenerServes` and `EndTogether`, is that no stream does this.
- `reset` replaces the engine's recorder, but the API server has its own `Arc` of the
  first (`ruci-cmd`'s `mode/chain/mod.rs:101`) and shows that for good.  It takes away
  the inbounds, outbounds and `tag_routes`, but leaves `fallback_routes` and
  `rule_sets` (`engine.rs:50-65`); `conf` has them.
- `run` right after `stop` may find an address still bound; the inbound is then
  dead while `running` says otherwise (`CleanRunServes` is about the others).  The
  QUIC servers do not look at the shutdown receiver.  An `accept` that fails ends
  an inbound for good.
- A grpc write that finds room for no more than the head of its message panics,
  or returns 0.
- A QUIC client puts a connection back that has failed; a dead one is never
  replaced.  An h2 client whose cached connection is gone, while the script
  thinks it made one, fails every dial.
- A QUIC dial waits for the server to allow one more stream with the mutex held
  (`quinn/client.rs:79`, `quic/client/mod.rs:80`).  While all streams are taken every
  dial hangs, and ends by the timeout of its outbound (`DialsEnd` makes the exception).
- An h2 server answers a request that was reset in the meantime, fails, and ends the
  loop (`h2/server.rs:150-153`): one dial that gave up takes the connection and all its
  streams with it (`GoodStreamsServed` makes the exception).
- An error of the connection is to the readers of h2 streams the clean end of the
  stream (`grpc.rs:256`, `h2/mod.rs:87`).  So is the end of the connection which
  a `SingleClient` brings about itself: its `poll_shutdown` tells the task of the
  connection to end (`client.rs:117`), though frames may be unsent.  `PipeSpec` allows the early end then,
  and what was read up to it is a beginning of what was sent.
- tproxy's reader thread overwrites what is queued once the task is some ninety
  datagrams behind (two buffers of 65507 bytes and an MTU of 1500), while the channel
  takes 4096.
- `gtr_ed` writes early data without a flush (`LeftUnflushed`).
- A Lua coroutine that returns -1, or whose stream ends before it does, stays in
  `thread_map`.
- trojan's reader of datagrams loses the frames it has read behind a datagram
  whose last piece just fills the caller's buffer (`trojan/udp.rs:198-200`, `233-236`;
  line 90 says that it handles what sticks together).  What it takes for no frame is an error of
  kind `Other`, with which `cp_addr` goes on: the next read is looked at as if a
  frame began there (`DatagramsIntact` names the first, and is about streams that no
  read cuts in a frame).
- A connection without a target, a fallback for one, is routed as one to
  `tcp://0.0.0.0:0` (`relay/mod.rs:119`, `138`), which a rule for networks may match.
- The http proxy hands on of a plain request fewer bytes than its head has, by
  the length of the request line, and nothing that was read behind it; it drops
  what was read behind a CONNECT; it refuses every user.  trojan does not give
  the hash to its fallback.
- The http filter reads for itself and drops what the map before it has read
  (`FallbackWhole` makes the exception).

Three places where a model is coarser than the code, without a property that could
tell: `Tproxy`'s `Take` is both the receiving of a range and, once the lock of
`conn_map` was waited for (`tproxy/udp.rs:187`), its copying; a second jump in
`AutoRoute` is a command that fails, though with `-N` failing first none is ever
reached; a length of socks5's name and password that runs below zero is a panic in
`Socks5`, where a release build wraps.

Why the bounds are enough.  Two connections are what the shared counter needs
to mix them up; chunks only matter as none, some, all.  Channels hold 100 or
more in the code and 1 here, so that they are full and empty within reach.  Two
sources and two `AddrConn`s give both two at once and one after the other on the
same source; three datagrams fill the first buffer and the channel and leave one
to wait.  `Tproxy` has one source, as two are told apart in `UdpFixedListen`, and
four datagrams: a buffer holds one at full length, so the third comes back to the
first buffer, where the first may still be queued, and the fourth may find the
channel full; both happen, and the bound of `QueuedIntact` is reached.  After a
failure or a kill there is one datagram, as the tables are then in question.  In `Inbound` two cuts are enough to have any
message come in three parts or any two in two; the buffer (48) holds each
handshake whole, with and without its payload; the caller's buffer for datagrams of at
most 3 bytes holds 9, 2 and 3; two lists of one user and one of two tell apart
what an earlier map and the last server have found.  In `Fold` three streams
make a multiplexer's connection, its stream, and one beside it; an infinite chain
has two, as its coroutines multiply the states (its invariants were also checked
with three: nearly two million states).  In `MuxConn` three dials are one that
makes the connection and two that race for it; two connections are the lost one
and its successor; with two streams at once the third dial waits; dials are interchangeable, so the liveness is asked of one of
them and `Wrongs` has one dial that is it and one that is not (the
run with none refused was checked apart, on 205,902 states).  In `H2Stream` the
payload is longer than the window, so that it has to be given back; the longest
message (5) takes two frames, and a head (2) is longer than what a read or a
write may leave.  In `WsStream` the first write may be longer than the request
holds, and base64 of the most that fits (4) is just what the server accepts, as in the
code (2731 of 2732).  Two runs of an
engine are the earlier and the later one, and two connections may relay for one of
them or for both; a UDP inbound has all that a TCP one has, and the close of its
address behind the relays besides.  The runs say `CHECK_DEADLOCK FALSE`:
bounded connections, datagrams and runs come to an end.

## 4. Fairness

tokio runs every task that is ready and timers expire, so the steps of tasks
that wait for nothing but themselves, for a timer, or for room made by another
fair task are weakly fair (in `H2Stream` `Write`, `Read` and `Respond`: the
copies of a relay poll both ends).  Peers, sources, the callers of the engine and the
recorder owe nothing.  Points to note:

- `Relay` assumes that `w.shutdown()` returns (`AddrClose`).  For the writer of
  the fixed-target listener this is false (see above).  The two are separate
  modules so that the general claim and the exception both stand.
- In `UdpFixedListen` `FarEndWakes` is not fair: a late datagram may wake a
  parked writer and need not.  Nor are `EarlyWritten` and `Wrote`, as nothing bounds a
  write of a mixed relay to its stream: what needs them says so in its premise,
  `StreamsMove`.  In a relay of two datagram sides the timeout is around read and write, so its reading
  task reads on or ends.
- The fold of an inbound has no timeout in the chain engine (`fold.rs:444`),
  only the dial has.  So the maps, their failures and the scripts are not fair in
  `Fold`, and `LoopEnds` says what holds: `loop_a` ends unless a peer keeps a fold
  waiting.
- In `MuxConn` the dials are strongly fair: tokio's mutex is handed on in the
  order of asking, so a dial that is able to take it again and again does.
  Servers are weakly fair.  Timeouts, the network, the receiver of the streams and
  who has a stream owe nothing, so no dial ends thanks to its timeout and no stream
  need be given back.
- In `Inbound` the server goes on and its timers run out; no client owes a byte.
  `HandshakeEnds` is therefore about clients that leave: a silent one is waited
  for.
- In `Tproxy` the thread has to see that its socket was shut down, the task takes,
  sends, offers and removes, `loop_accept` and the fold pass on what they are given,
  and for each `AddrConn` the relay gets to dial and its Reader runs or is dropped.  Nothing else is fair: neither the
  commands nor the end of a process, nor datagrams, nor the timeouts, writers and notices of a relay, so
  `EndTogether` does not wait for any of them.  In `WsStream` the tasks of both ends run,
  and `Shutdown` is not fair: nobody owes an end.

## 5. Proofs

TLAPS proves, for every value of the constants under the assumptions the
modules name:

- `RelayProofs!TypeCorrect`, `AliveCorrect` and `RegistryRefined`.  `TypeOK` is
  not inductive: what `StreamEnd` adds to ub and db is `CopyResult`, which is a
  pair of numbers only because a relay that waits for its second direction knows
  the first (`FirstKnown`); `TInv` is the two together.  `AliveExact` is inductive
  with `TInv`: each action either leaves the set `Counted` and the counter alone,
  or adds or removes one connection and one count (`StepCounts`); the rest is the
  cardinality of a finite set with an element more or less.  That `Conns` is
  finite is the assumption it needs.  The refinement of `RelayRegistry` follows
  action by action: the steps that move `pc` across the borders of
  `CountedStages` are `Enter`, `Leave` or `TurnAway`, the rest stutter.
- `RelayProofs!TrafficCorrect` and `UploadCorrect`: `TrafficConserved` and
  `UbIsUploadUntraced` for any finite set of connections and any number of
  chunks.  `Recorded` is the set of the (connection, direction, chunk) that the
  recorder has been told of; `Balanced` says that it is finite and how many it
  has.  Each action leaves it alone, or adds early data, the
  chunks of one direction or those of both, none of which were in it, and adds
  as much to ub and db (`RecordsNone` to `RecordsBoth`).  `SInv` is why none were in it: until
  its copies start a connection has nothing recorded, and only
  datagram relays report a direction on its own.
- `EngineProofs!TypeCorrect`, `CountCorrect` and `CleanCorrect`.  `CountInv` of
  `CountCorrect` adds to `RecordersCountTheirRuns` that a connection belongs to a
  run there has been (`Given`): a later run is given a recorder without moving
  those of the earlier ones.  The rest is the cardinality of a finite set with a
  relay more or less, which also gives `TypeOK` that no count is negative.
  `CleanRunServes` alone is not
  inductive, as it says nothing of stragglers; `CleanInv` adds that while a clean
  inbound of the current run waits to be polled for the first time, its address
  is free and no other run has a task that could take it (`Reserved`).
- `FoldProofs!CidsCorrect`: `CidsDistinct` for any inbounds, streams, chains and
  scripts.  `CidInv` has the types, `HaveCids` (every cid is that of its
  generator with a number that the generator's counter has reached, and who has
  a cid yet), `Channels` (what waits was accepted from where it waits, and only
  a folded stream is an open generator) and `Distinct`.  A new cid is new
  (`NewCid`) because `Append` is injective, the generators' cids are distinct by
  induction, and its number is above the counter.  The counters are natural
  numbers in the proof; in the code they are 32 bits wide, and what it says ends
  where the first of them wraps.
- `FoldProofs!NoneLost`: `NoResultLost`, for channels of any size.  `FlowInv`
  follows a stream: what was accepted waits exactly once in the channel of its
  generator (`Offered`), what was dealt in that of its inbound (`Dealt`), a
  generator is taken from while its channel is open or not empty
  (`Generators`), and once `loop_a` has ended no generator and no fold
  of its inbound is left (`OverForGood`), which holds because each of them keeps
  a sender.
- `FoldProofs!MapsOrdered`: `MapsInOrder` for static chains, finite and infinite
  ones and any script.  `PathInv` has `Paths`, the property for inbounds
  too, with the trace of a generator a prefix of those of its streams, and
  `Threads`: a coroutine that is kept is at the index where the stream of its cid
  is, or over.  The last needs `CidsDistinct`: with a cid twice, one stream would
  go on with the coroutine of another.
- `MuxConnProofs!CidsCorrect`: `SubCidsDistinct` for any dials and connections.
  `IdInv` adds that the numbers of connections are distinct and below `next_no`
  and that each id was issued from its connection's number and a count it has
  reached.  What was said of the width holds here too.
- `MuxConnProofs!KeptCorrect`: the action property `ConnectionKept`, for any
  dials, connections, failures and timeouts.  `HandInv` is what the mutex is for: a dial past the lock is
  its holder and the cache is empty meanwhile, and only such a dial has a
  connection in its hands.
- `TproxyProofs!EntryCorrect`: `EntryIsUnclosed` for any sources,
  `AddrConn`s and capacities.  `EntryInv` adds that an `AddrConn` that was not
  relayed yet was not closed, and `Waiting`: those that wait are in the queue
  once and the one being offered is not among them, so the end of the listener
  drops each at most once.  It assumes that `None` is not an `AddrConn`.
- `TproxyProofs!StreamCorrect`: `StreamUnbroken`.  `StreamInv` says of
  what an `AddrConn` was given, read or still in its channel, that it is a run of its
  source's datagrams and, while entry and Reader stand, reaches to the last that was delivered
  (`Delivered`: the one the listener holds is not yet).
- `TproxyProofs!TproxyTypeCorrect` and `OrderCorrect`: the types, and
  `DatagramsInOrder`.  In `OrderInv` every datagram of a key has its place: those
  that are pending (with the task, or in the channel) are numbered
  on up to the last that was read (`Numbered`, `Sorted`), behind all that an
  `AddrConn` was given (`Runs`), and the `AddrConn`s of a key come one wholly after
  the other, the one with the entry last (`Succeed`).
- `TproxyProofs!IntactCorrect`: `QueuedIntact`, for any set of lengths, any
  buffer that holds the longest datagram and any capacity of the channel.
  `BufferInv` says where the thread is when it has read k datagrams
  behind a queued one: further on in the same buffer, in the other one, back in
  the first, or 2n datagrams on, where n of full length fit into a buffer
  (`SamePass`, `OtherPass`, `NextPass`).  A pass over a whole buffer takes n at
  least, so it is back over the datagram with 2n - 1 behind it at the earliest (2 for
  n = 1).  It rests on the buffer not being shorter than the longest datagram
  (`BufferAssumption`), which is how the code sizes it.
- `TproxyProofs!RestoreCorrect` and `NoLoops`, for both families, any options, any
  number of kills.  `RouteInv` says how far the list of commands is
  and what the tables must be there: of what k commands of `DownList` should have
  removed, no more is left than commands have failed (`TurnsLeft`,
  `MarksLeft`), and nothing if none did (`Clean`); while rules are
  added, `rucimp_self` has what was added in order (`SelfAfter`), its own exception before its marks.
  `NoLoops` is `OwnTrafficNeverLoops` as long as no more
  than two commands, of all processes so far, failed of themselves.  That is
  all there is: when removing the mark, the jump and the entries of the chain
  fails, one each, the exception before the mark is gone and the mark is not, and
  the next run turns its own traffic to itself as soon as it sets the jump to `rucimp`.
  The run has one failure, for which the property holds as it stands.
- `WsStreamProofs!PipeRefined`: `WsStream` refines `BytePipe`, for any sizes of
  writes, messages, reads and of the part that fits into the request.
  In `WsInv` what was read, what is in `r_buf` and the messages that can still
  arrive (`Coming`) are one run of bytes, with Close only as its last message
  (`InOrder`), and while nothing is lost whatever was written is in the request, in what did
  not fit into it, or in the messages (`NoneMissing`).  It rests on base64 of
  the most that the client puts into the header being no longer than the server
  accepts (`HeaderAssumption`; 2731 characters of 2732 with the constants of the
  code): the server passes over a longer header, and the bytes would be lost.
- `H2StreamProofs!PipeRefined`: `H2Stream` refines `BytePipe`, for any writes, frames,
  heads, windows and reads.  A point of the stream is how much of the payload is before it and
  how much of a message is still to come; `Flows` says that a sequence of frames
  leads from one point to another, frame by frame, as plain bytes, as more of a
  message, or as a head with its first bytes.  `H2Inv` has that what is
  buffered leads from the bytes read to some point and the wire from
  there to all that was sent (`OneStream`), unless a reset or the loss of the connection has cut it, be the writer
  shut by then or not.  The
  cut is the reason for the points, and that a head is always whole in the first frame
  of its message is why the reader, which looks for heads in whatever bytes it has, finds no
  half ones: it rests on a frame being longer than a head (`FramesAssumption`).  A message with nothing in it, which is the end of the stream
  to the reader, is sent only by a write that fails (`Headed`).

- `InboundProofs!AuthCorrect`, `RouteCorrect` and `FallbackCorrect`:
  `AuthBeforeTarget`, `ReservedRoute` and `FallbackWhole`, for any sessions, any
  size of the buffer, any number of cuts, any selectors.  `AllSent` is what the server has been
  sent so far, with what the map before it had read.  In `IInv` the stream still to be
  read is the end of it (`UpInv`); what socks5 has read behind its methods, and
  turns to for the name and password, occurs in it (`HearInv`); a head of trojan is
  its beginning (`BegunInv`); so whom a parser finds in a buffer the client has named
  (`AuthMessage`, `OccursNames`, `HeadGood`), and the user goes along in `loc` and into the
  result (`UserInv`).  For the fallback `QuietInv` says that until a reply is sent
  the buffer and the stream together are all that was sent, also while socks5http
  takes the buffer from one map to the other.  `ChosenInv` ties the outbound
  to the selector; that a reserved one needs one of its lists of users, with any target and with the
  default address of what has none, is then a fact about `Select` (`ReservedFor`).
  `SessionsAssumption` states what the clients are: nowhere in what a client
  sends is the name and password (or, at its beginning, the hash) of a user of this
  server but itself, and a trojan client that sends datagrams sends the hash and the command
  with its first message.  `SelectorsAssumption` states what reserving is: no default is
  the reserved outbound, and a rule or an info that leads there names lists of its users.
  What was sent is a fold over the script (`FlattenSeq`); the proofs need only that
  a message more is a message behind (`SentByNext`), which follows from the fold's
  least counterexample, so no induction theorem is needed.

- `InboundProofs!TargetCorrect` and `PayloadCorrect`: `TargetExact` and
  `PayloadWhole`, for the same parameters.  A point of the stream is given by what is
  still behind it.  `LeftInv` of `JInv` says, for each stage of socks5, that buffer and stream
  together are all that was sent (`Heard`, in the methods), or what was sent behind the first method
  (`Asked`, where the name and password are looked for), behind the methods
  (`Greeted`, where they are read), or behind a place where a command may begin (`Ready`).
  The difficult case is the password, which socks5 looks for in the same buffer
  again and again; `Tried` has that this is done for one method at most.  `GivenInv`
  says of what is returned that it is a request of the stream with
  what comes behind it (`RequestOf`, `Given`), also where the rest of a buffer is zeros that were
  never sent (`EarlyDataWasSent`, above).  `MuteInv` says that a client
  that does not speak http never shows one of its methods to the http proxy.
  `RequestsAssumption` states what such a client is: wherever the server may look for
  a message (`Begins`) it has no method of http; wherever a command of
  socks5 may begin (`CommandAt`), or behind the head of trojan, an address that
  is asked for is the client's target, and what follows is its payload, which does not begin with a
  zero; a trojan client that sends datagrams asks for no
  connection.  The assumption speaks of the uncut stream and of
  addresses as the protocol has them (`AddrSize`); that the server finds no others
  and looks nowhere else, for every cut, is the proof (`FindsAsks`, `TurnsBegins`).  Clients
  of http are in neither property.

Only model-checked: liveness (fairness is out of the prover's reach), and of
`Inbound` `WholeMessagesServed` and `DatagramsIntact`.  The first says that a
well-formed client is not turned away, the second that its frames are
what `next_frame` makes of them: both would need to know of every session how its
script is put together, message by message; the run has the sessions one by one
and cuts them in every way.

## 6. Not modelled, and the plan

Not modelled because there is little to check: the TLS wrappers, the parsing and
formatting of addresses and configuration, the utility and test maps, the HTTP
API.  Not modelled although it has state: the suit engine (the life of the chain
engine over again, with `handle_in_stream`), the datagrams of the socks5 client,
`EarlyDataWrapper`, the writer of trojan's frames (it is the input of
`DatagramsIntact`), the h2 library's own limit of requests that wait to be
accepted, the sockets with
which tproxy answers in the name of a target, and the lookup of countries.

Parts whose status is "partly" in `PROJECT.json` lack what their note says.

Open, in this order:

1. The client's datagrams of socks5 and `EarlyDataWrapper`, which is another
   `BytePipe`.
2. A connection of `MuxConn` with the streams of `H2Stream` on it, for the window
   they share.
