------------------------------- MODULE Engine -------------------------------
(***************************************************************************)
(* modes::chain::engine: the life of an Engine.  It is initialised, run,   *)
(* stopped, reset and initialised again by its caller; each run starts a   *)
(* task for every inbound (fold_from_start), which binds the address of    *)
(* the inbound the first time it is polled and gives it back some time     *)
(* after it was told to stop.  How an inbound folds what it accepts is     *)
(* Fold's affair; here a connection is dialled for and relayed by a task   *)
(* of its own, which neither a stop nor a reset is told to, and which      *)
(* counts on the recorder that its run was given.                          *)
(***************************************************************************)
EXTENDS Integers, FiniteSets

CONSTANTS
  Inbounds,  \* the inbounds of the configuration
  Kind,      \* the first map of an inbound: tcp or udp (Listener), or quic
  Routes,    \* the kinds of routes that the configurations use
  MaxRuns,   \* how often the caller calls run (a bound)
  Conns      \* connections that are accepted (a bound)

ASSUME KindAssumption == Kind \in [Inbounds -> {"tcp", "udp", "quic"}]
ASSUME RoutesAssumption == Routes \subseteq {"tag_routes", "fallback_routes", "rule_sets"}
ASSUME RunsAssumption == MaxRuns \in Nat
ASSUME ConnsAssumption == IsFiniteSet(Conns)

Runs == 1..MaxRuns

VARIABLES
  running,   \* 0, or the run whose shutdown senders the engine holds
  runs,      \* how often run has succeeded
  conf,      \* which parts of the configuration are set
  gtr,       \* the GlobalTrafficRecorder of the engine, by its number
  run_gtr,   \* the one the relays of a run use
  selector,  \* the OutSelector of the last run
  task,      \* fold_from_start of an inbound, and the listener it made
  told,      \* the shutdown receiver of an inbound is ready
  port,      \* the run whose socket has the address of an inbound, or 0
  clean,     \* the address was free, and nobody about to bind it, at run
  joined,    \* the caller still has the JoinSet of a run
  conn,      \* how far the task of a connection is
  by,        \* the run that accepted it
  alive      \* alive_connection_count of a recorder

connVars == <<conn, by, alive>>
vars == <<running, runs, conf, gtr, run_gtr, selector, task, told, port, clean, joined, connVars>>

Parts == {"inbounds", "outbounds", "tag_routes", "fallback_routes", "rule_sets"}
NoConf == [p \in Parts |-> FALSE]

Init ==
  /\ running = 0 /\ runs = 0
  /\ conf = NoConf
  /\ gtr = 0
  /\ run_gtr = [r \in Runs |-> 0]
  /\ selector = "none"
  /\ task = [r \in Runs |-> [i \in Inbounds |-> "none"]]
  /\ told = [r \in Runs |-> FALSE]
  /\ port = [i \in Inbounds |-> 0]
  /\ clean = [r \in Runs |-> {}]
  /\ joined = [r \in Runs |-> FALSE]
  /\ conn = [x \in Conns |-> "none"]
  /\ by = [x \in Conns |-> 0]
  /\ alive = [g \in 0..MaxRuns |-> 0]

-----------------------------------------------------------------------------
(* The caller *)

runVars == <<running, runs, run_gtr, selector, task, told, port, clean, joined>>
callVars == <<runVars, conf, gtr>>

\* init_static and init_lua_finite_dynamic, which end in load_routes_from.
InitStatic ==
  /\ \E rs \in SUBSET Routes :
       conf' = [p \in Parts |-> p \in {"inbounds", "outbounds"} \cup rs]
  /\ UNCHANGED <<gtr, runVars, connVars>>

\* init_lua_infinite_dynamic sets no routes.
InitInfinite ==
  /\ conf' = [conf EXCEPT !["inbounds"] = TRUE, !["outbounds"] = TRUE]
  /\ UNCHANGED <<gtr, runVars, connVars>>

\* get_out_selector
SelectorOf(cf) == IF cf["rule_sets"] THEN "rule_sets"
                  ELSE IF cf["tag_routes"] \/ cf["fallback_routes"] THEN "tag_routes"
                  ELSE "fixed"

Bound(r, i) == task[r][i] \in {"created", "listening"}

\* start_with_tasks, under the lock of running, and the spawn of its tasks.
Run ==
  /\ runs < MaxRuns
  /\ running = 0
  /\ conf["inbounds"] /\ conf["outbounds"]
  /\ runs' = runs + 1
  /\ running' = runs'
  /\ run_gtr' = [run_gtr EXCEPT ![runs'] = gtr]
  /\ selector' = SelectorOf(conf)
  /\ task' = [task EXCEPT ![runs'] = [i \in Inbounds |-> "created"]]
  /\ clean' = [clean EXCEPT ![runs'] =
                 {i \in Inbounds : port[i] = 0 /\ \A r \in Runs : ~Bound(r, i)}]
  /\ joined' = [joined EXCEPT ![runs'] = TRUE]
  /\ UNCHANGED <<conf, gtr, told, port, connVars>>

\* The senders are taken out of running and used.
Stop ==
  /\ running # 0
  /\ told' = [told EXCEPT ![running] = TRUE]
  /\ running' = 0
  /\ UNCHANGED <<runs, conf, gtr, run_gtr, selector, task, port, clean, joined, connVars>>

\* Mutant: the recorder is cleared in its place.
ResetInPlace ==
  /\ running = 0
  /\ conf' = [conf EXCEPT !["inbounds"] = FALSE, !["outbounds"] = FALSE, !["tag_routes"] = FALSE]
  /\ alive' = [alive EXCEPT ![gtr] = 0]
  /\ UNCHANGED <<gtr, runVars, conn, by>>

\* reset refuses while running is set.  The recorder is replaced by a new one;
\* whoever was given the old one keeps it.  (The bound on gtr is MaxRuns.)
Reset ==
  /\ running = 0
  /\ conf' = [conf EXCEPT !["inbounds"] = FALSE, !["outbounds"] = FALSE, !["tag_routes"] = FALSE]
  /\ gtr < MaxRuns /\ gtr' = gtr + 1
  /\ UNCHANGED <<runVars, connVars>>

\* JoinSet::shutdown: the tasks of a run that are still going are dropped.  A
\* listener is a task of its own and only loses the receiver it sends to.
DropJoinSet(r) ==
  /\ joined[r]
  /\ joined' = [joined EXCEPT ![r] = FALSE]
  /\ task' = [task EXCEPT ![r] = [i \in Inbounds |-> IF @[i] = "created" THEN "aborted" ELSE @[i]]]
  /\ UNCHANGED <<running, runs, conf, gtr, run_gtr, selector, told, port, clean, connVars>>

-----------------------------------------------------------------------------
(* The tasks of the inbounds *)

taskVars == <<running, runs, conf, gtr, run_gtr, selector, told, clean, joined, connVars>>

\* Mutant: an inbound that has ended is started again.
BindAgain(r, i) ==
  /\ task[r][i] \in {"created", "stopped"}
  /\ IF port[i] = 0 THEN /\ port' = [port EXCEPT ![i] = r]
                         /\ task' = [task EXCEPT ![r][i] = "listening"]
                    ELSE /\ task' = [task EXCEPT ![r][i] = "failed"]
                         /\ UNCHANGED port
  /\ UNCHANGED taskVars

\* fold_from_start runs the first map, which binds; it does not look at the
\* shutdown receiver before.
Bind(r, i) ==
  /\ task[r][i] = "created"
  /\ IF port[i] = 0 THEN /\ port' = [port EXCEPT ![i] = r]
                         /\ task' = [task EXCEPT ![r][i] = "listening"]
                    ELSE /\ task' = [task EXCEPT ![r][i] = "failed"]
                         /\ UNCHANGED port
  /\ UNCHANGED taskVars

\* The accept loop ends and drops its listener.  The relays of a UDP listener
\* share its socket and keep the address.
Unbind(r, i) ==
  /\ task[r][i] = "listening"
  /\ task' = [task EXCEPT ![r][i] = "stopped"]
  /\ \/ port' = [port EXCEPT ![i] = 0]
     \/ Kind[i] = "udp" /\ UNCHANGED port
  /\ UNCHANGED taskVars

\* Mutant: the accept loop does not watch the receiver it was given.
SeeShutdownJoined(r, i) ==
  /\ told[r] /\ joined[r] /\ Kind[i] # "quic"
  /\ Unbind(r, i)

\* loop_accept watches the receiver; start_listen of a QUIC server drops it.
SeeShutdown(r, i) ==
  /\ told[r] /\ Kind[i] # "quic"
  /\ Unbind(r, i)

\* accept fails, or what it accepted cannot be sent any more.
AcceptErr(r, i) == Kind[i] # "quic" /\ Unbind(r, i)

\* The last relay of a UDP listener is over.
RelaysEnd(r, i) ==
  /\ Kind[i] = "udp" /\ task[r][i] = "stopped" /\ port[i] = r
  /\ port' = [port EXCEPT ![i] = 0]
  /\ UNCHANGED <<task, taskVars>>

-----------------------------------------------------------------------------
(* The tasks of the connections *)

\* loop_a takes what an inbound has accepted, also after the inbound has ended,
\* and spawns a task that is not in the JoinSet.
LoopTakes(r, x) ==
  /\ joined[r] /\ \E i \in Inbounds : task[r][i] \in {"listening", "stopped"}
  /\ conn[x] = "none"
  /\ conn' = [conn EXCEPT ![x] = "dialing"]
  /\ by' = [by EXCEPT ![x] = r]
  /\ UNCHANGED <<callVars, alive>>

DialFails(x) ==
  /\ conn[x] = "dialing"
  /\ conn' = [conn EXCEPT ![x] = "over"]
  /\ UNCHANGED <<callVars, by, alive>>

RelayStarts(x) ==
  /\ conn[x] = "dialing"
  /\ conn' = [conn EXCEPT ![x] = "relaying"]
  /\ alive' = [alive EXCEPT ![run_gtr[by[x]]] = @ + 1]
  /\ UNCHANGED <<callVars, by>>

\* Mutant: the end of a relay looks the recorder up in the engine.
RelayOverOnEngine(x) ==
  /\ conn[x] = "relaying"
  /\ conn' = [conn EXCEPT ![x] = "over"]
  /\ alive' = [alive EXCEPT ![gtr] = @ - 1]
  /\ UNCHANGED <<callVars, by>>

RelayOver(x) ==
  /\ conn[x] = "relaying"
  /\ conn' = [conn EXCEPT ![x] = "over"]
  /\ alive' = [alive EXCEPT ![run_gtr[by[x]]] = @ - 1]
  /\ UNCHANGED <<callVars, by>>

-----------------------------------------------------------------------------
Calls == InitStatic \/ InitInfinite \/ Run \/ Stop \/ Reset \/ \E r \in Runs : DropJoinSet(r)
Tasks == \E r \in Runs, i \in Inbounds :
           Bind(r, i) \/ SeeShutdown(r, i) \/ AcceptErr(r, i) \/ RelaysEnd(r, i)

Relaying == \E x \in Conns : \/ \E r \in Runs : LoopTakes(r, x)
                            \/ DialFails(x) \/ RelayStarts(x) \/ RelayOver(x)

Next == Calls \/ Tasks \/ Relaying

Spec == Init /\ [][Next]_vars

\* tokio runs the tasks that are ready; the caller owes nothing.
Fairness == \A r \in Runs, i \in Inbounds : WF_vars(Bind(r, i)) /\ WF_vars(SeeShutdown(r, i))

FairSpec == Spec /\ Fairness

-----------------------------------------------------------------------------
(* Properties *)

TypeOK ==
  /\ running \in 0..MaxRuns /\ runs \in 0..MaxRuns
  /\ conf \in [Parts -> BOOLEAN]
  /\ gtr \in 0..MaxRuns
  /\ run_gtr \in [Runs -> 0..MaxRuns]
  /\ selector \in {"none", "fixed", "tag_routes", "rule_sets"}
  /\ task \in [Runs -> [Inbounds -> {"none", "created", "listening", "failed", "stopped",
                                     "aborted"}]]
  /\ told \in [Runs -> BOOLEAN]
  /\ port \in [Inbounds -> 0..MaxRuns]
  /\ clean \in [Runs -> SUBSET Inbounds]
  /\ joined \in [Runs -> BOOLEAN]
  /\ conn \in [Conns -> {"none", "dialing", "relaying", "over"}]
  /\ by \in [Conns -> 0..MaxRuns]
  /\ alive \in [0..MaxRuns -> Nat]

\* A recorder shows as alive exactly the relays that go on of the runs that were
\* given it: a stop leaves those that go on in the count and a later run adds to
\* it, and after a reset the ends of older relays, or the late starts of
\* connections that were dialled for when it came, leave the new count alone.
RecordersCountTheirRuns ==
  \A g \in 0..MaxRuns :
    alive[g] = Cardinality({x \in Conns : conn[x] = "relaying" /\ run_gtr[by[x]] = g})

\* An inbound whose address was given back before run was called does come to
\* listen: while the run lasts, no straggler of an earlier one is in its way.
CleanRunServes ==
  running # 0 => \A i \in clean[running] : task[running][i] # "failed"

\* A Listener that is told to stop does, even if it had not bound by then and
\* even if the tasks behind it are gone.
ListenersStop ==
  \A r \in Runs, i \in Inbounds :
    (told[r] /\ Bound(r, i) /\ Kind[i] # "quic") ~> ~Bound(r, i)
=============================================================================
