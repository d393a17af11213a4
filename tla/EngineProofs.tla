---------------------------- MODULE EngineProofs ----------------------------
(* What holds of an Engine for any set of inbounds and any number of runs. *)
EXTENDS Engine, FiniteSetTheorems, TLAPS

-----------------------------------------------------------------------------
(* Types *)

TaskStates == {"none", "created", "listening", "failed", "stopped", "aborted"}

\* TypeOK, where a count may be below zero: that none is rests on what it counts.
BaseTypes ==
  /\ running \in 0..MaxRuns /\ runs \in 0..MaxRuns
  /\ conf \in [Parts -> BOOLEAN]
  /\ gtr \in 0..MaxRuns
  /\ run_gtr \in [Runs -> 0..MaxRuns]
  /\ selector \in {"none", "fixed", "tag_routes", "rule_sets"}
  /\ task \in [Runs -> [Inbounds -> {"none", "created", "listening", "failed", "stopped",
                                     "aborted"}]]
  /\ told \in [Runs -> BOOLEAN]
  /\ port \in [Inbounds -> 0..MaxRuns]
  /\ clean \in [Runs -> SUBSET Inbounds]
  /\ joined \in [Runs -> BOOLEAN]
  /\ conn \in [Conns -> {"none", "dialing", "relaying", "over"}]
  /\ by \in [Conns -> 0..MaxRuns]
  /\ alive \in [0..MaxRuns -> Int]

LEMMA TypeInit == Init => BaseTypes
  BY RunsAssumption DEF Init, BaseTypes, NoConf, Runs

LEMMA SetTask ==
  ASSUME NEW S, NEW f \in [Runs -> [Inbounds -> S]], NEW r \in Runs, NEW i \in Inbounds, NEW v \in S
  PROVE  [f EXCEPT ![r][i] = v] \in [Runs -> [Inbounds -> S]]
  OBVIOUS

LEMMA TypeNext == BaseTypes /\ [Next]_vars => BaseTypes'
<1> SUFFICES ASSUME BaseTypes, [Next]_vars PROVE BaseTypes'
  OBVIOUS
<1> USE RunsAssumption, RoutesAssumption DEF BaseTypes, Runs, connVars
<1>1. CASE InitStatic
  <2>1. conf' \in [Parts -> BOOLEAN]
    BY <1>1 DEF InitStatic, Parts
  <2>2. QED
    BY <1>1, <2>1 DEF InitStatic, runVars
<1>2. CASE InitInfinite
  <2>1. conf' \in [Parts -> BOOLEAN]
    BY <1>2 DEF InitInfinite, Parts
  <2>2. QED
    BY <1>2, <2>1 DEF InitInfinite, runVars
<1>3. CASE Run
  <2>1. runs' \in Runs /\ runs' = runs + 1
    BY <1>3 DEF Run
  <2>2. run_gtr' \in [Runs -> 0..MaxRuns] /\ task' \in [Runs -> [Inbounds -> {"none", "created",
          "listening", "failed", "stopped", "aborted"}]]
    BY <1>3, <2>1 DEF Run
  <2>3. clean' \in [Runs -> SUBSET Inbounds] /\ joined' \in [Runs -> BOOLEAN]
    BY <1>3, <2>1 DEF Run
  <2>4. selector' \in {"none", "fixed", "tag_routes", "rule_sets"}
    BY <1>3 DEF Run, SelectorOf
  <2>5. running' \in 0..MaxRuns /\ runs' \in 0..MaxRuns
    BY <1>3, <2>1 DEF Run
  <2>6. UNCHANGED <<conf, gtr, told, port, connVars>>
    BY <1>3 DEF Run
  <2>7. QED
    BY <2>2, <2>3, <2>4, <2>5, <2>6
<1>4. CASE Stop
  <2>1. told' \in [Runs -> BOOLEAN] /\ running' \in 0..MaxRuns
    BY <1>4 DEF Stop
  <2>2. UNCHANGED <<runs, conf, gtr, run_gtr, selector, task, port, clean, joined, connVars>>
    BY <1>4 DEF Stop
  <2>3. QED
    BY <2>1, <2>2
<1>5. CASE Reset
  <2>1. conf' \in [Parts -> BOOLEAN]
    BY <1>5 DEF Reset, Parts
  <2>2. gtr' \in 0..MaxRuns
    BY <1>5 DEF Reset
  <2>3. UNCHANGED <<runVars, connVars>>
    BY <1>5 DEF Reset
  <2>4. QED
    BY <2>1, <2>2, <2>3 DEF runVars
<1>6. ASSUME NEW r \in Runs, DropJoinSet(r) PROVE BaseTypes'
  <2>1. [i \in Inbounds |-> IF task[r][i] = "created" THEN "aborted" ELSE task[r][i]]
          \in [Inbounds -> {"none", "created", "listening", "failed", "stopped", "aborted"}]
    OBVIOUS
  <2>2. QED
    BY <1>6, <2>1 DEF DropJoinSet
<1>7. ASSUME NEW r \in Runs, NEW i \in Inbounds, Bind(r, i) PROVE BaseTypes'
  <2>1. task' \in [Runs -> [Inbounds -> TaskStates]]
    <3>1. /\ task \in [Runs -> [Inbounds -> TaskStates]]
          /\ "listening" \in TaskStates /\ "failed" \in TaskStates
      BY DEF TaskStates
    <3>2. PICK v \in TaskStates : task' = [task EXCEPT ![r][i] = v]
      BY <1>7, <3>1 DEF Bind
    <3>3. QED
      BY <3>1, <3>2, SetTask, Zenon
  <2>2. port' \in [Inbounds -> 0..MaxRuns]
    <3>1. port' = [port EXCEPT ![i] = r] \/ port' = port
      BY <1>7 DEF Bind
    <3>2. r \in 0..MaxRuns
      OBVIOUS
    <3>3. QED
      BY <3>1, <3>2
  <2>3. UNCHANGED taskVars
    BY <1>7 DEF Bind
  <2>4. QED
    BY <2>1, <2>2, <2>3 DEF taskVars, TaskStates
<1>8. ASSUME NEW r \in Runs, NEW i \in Inbounds, Unbind(r, i) PROVE BaseTypes'
  <2>1. task' \in [Runs -> [Inbounds -> TaskStates]]
    <3>1. task \in [Runs -> [Inbounds -> TaskStates]] /\ "stopped" \in TaskStates
      BY DEF TaskStates
    <3>2. task' = [task EXCEPT ![r][i] = "stopped"]
      BY <1>8 DEF Unbind
    <3>3. QED
      BY <3>1, <3>2, SetTask, Zenon
  <2>2. port' \in [Inbounds -> 0..MaxRuns]
    <3>1. port' = [port EXCEPT ![i] = 0] \/ port' = port
      BY <1>8 DEF Unbind
    <3>2. 0 \in 0..MaxRuns
      OBVIOUS
    <3>3. QED
      BY <3>1, <3>2
  <2>3. UNCHANGED taskVars
    BY <1>8 DEF Unbind
  <2>4. QED
    BY <2>1, <2>2, <2>3 DEF taskVars, TaskStates
<1>9. ASSUME NEW r \in Runs, NEW i \in Inbounds, RelaysEnd(r, i) PROVE BaseTypes'
  <2>1. port' \in [Inbounds -> 0..MaxRuns]
    <3>1. port' = [port EXCEPT ![i] = 0]
      BY <1>9 DEF RelaysEnd
    <3>2. 0 \in 0..MaxRuns
      OBVIOUS
    <3>3. QED
      BY <3>1, <3>2
  <2>2. UNCHANGED <<task, taskVars>>
    BY <1>9 DEF RelaysEnd
  <2>3. QED
    BY <2>1, <2>2 DEF taskVars
<1>10. CASE UNCHANGED vars
  BY <1>10 DEF vars
<1>11. CASE Relaying
  <2>1. UNCHANGED callVars
    BY <1>11 DEF Relaying, LoopTakes, DialFails, RelayStarts, RelayOver
  <2>2. conn' \in [Conns -> {"none", "dialing", "relaying", "over"}]
    BY <1>11 DEF Relaying, LoopTakes, DialFails, RelayStarts, RelayOver
  <2>4. by' \in [Conns -> 0..MaxRuns]
    <3>1. ASSUME NEW x \in Conns, NEW q \in Runs, LoopTakes(q, x) PROVE by' \in [Conns -> 0..MaxRuns]
      BY <3>1 DEF LoopTakes
    <3> QED
      BY <1>11, <3>1 DEF Relaying, DialFails, RelayStarts, RelayOver
  <2>3. alive' \in [0..MaxRuns -> Int]
    BY <1>11 DEF Relaying, LoopTakes, DialFails, RelayStarts, RelayOver
  <2> QED
    BY <2>1, <2>2, <2>3, <2>4 DEF callVars, runVars
<1>12. QED
  BY <1>1, <1>2, <1>3, <1>4, <1>5, <1>6, <1>7, <1>8, <1>9, <1>10, <1>11
     DEF Next, Calls, Tasks, SeeShutdown, AcceptErr

-----------------------------------------------------------------------------
(* The recorders *)

RelaysOn(g) == {x \in Conns : conn[x] = "relaying" /\ run_gtr[by[x]] = g}

\* A connection has a run that was begun, whose recorder stays what it is.
Given == /\ \A r \in Runs : joined[r] => r <= runs
         /\ \A x \in Conns : conn[x] \in {"dialing", "relaying"} => by[x] \in Runs /\ by[x] <= runs

CountInv == Given /\ RecordersCountTheirRuns

\* A step that leaves the recorders of the runs begun, and the connections.
LEMMA CountsStay ==
  ASSUME BaseTypes, CountInv, UNCHANGED connVars, runs' \in Nat, runs <= runs',
         \A r \in Runs : r <= runs => run_gtr'[r] = run_gtr[r],
         \A r \in Runs : joined'[r] => joined[r] \/ r <= runs'
  PROVE  CountInv'
<1> USE RunsAssumption DEF CountInv, BaseTypes, Runs
<1>1. Given'
  <2>1. \A r \in Runs : r \in Int /\ (joined'[r] => r <= runs')
    BY DEF Given
  <2>2. \A x \in Conns : conn'[x] \in {"dialing", "relaying"} => by'[x] \in Runs /\ by'[x] <= runs'
    BY DEF Given, connVars
  <2> QED
    BY <2>1, <2>2 DEF Given
<1>2. ASSUME NEW g \in 0..MaxRuns PROVE RelaysOn(g)' = RelaysOn(g)
  BY DEF RelaysOn, Given, connVars
<1> QED
  BY <1>1, <1>2 DEF RecordersCountTheirRuns, RelaysOn, connVars

LEMMA RelaysFinite == \A g : IsFiniteSet(RelaysOn(g)) /\ Cardinality(RelaysOn(g)) \in Nat
<1>1. \A g : RelaysOn(g) \subseteq Conns
  BY DEF RelaysOn
<1> QED
  BY <1>1, ConnsAssumption, FS_Subset, FS_CardinalityType

LEMMA ConnCounts ==
  ASSUME BaseTypes, CountInv, NEW x \in Conns,
         DialFails(x) \/ RelayStarts(x) \/ RelayOver(x) \/ \E r \in Runs : LoopTakes(r, x)
  PROVE  CountInv'
<1> USE RunsAssumption DEF CountInv, BaseTypes, Runs
<1>1. UNCHANGED <<runs, run_gtr, joined>>
  BY DEF DialFails, RelayStarts, RelayOver, LoopTakes, callVars, runVars
<1>2. Given'
  BY <1>1 DEF Given, DialFails, RelayStarts, RelayOver, LoopTakes
<1>3. \A y \in Conns : y # x => conn'[y] = conn[y] /\ by'[y] = by[y]
  BY DEF DialFails, RelayStarts, RelayOver, LoopTakes
<1>4. CASE DialFails(x) \/ \E r \in Runs : LoopTakes(r, x)
  <2>1. conn[x] # "relaying" /\ conn'[x] # "relaying" /\ alive' = alive
    BY <1>4 DEF DialFails, LoopTakes
  <2>2. \A g \in 0..MaxRuns : RelaysOn(g)' = RelaysOn(g)
    BY <1>1, <1>3, <2>1 DEF RelaysOn
  <2> QED
    BY <1>2, <2>1, <2>2 DEF RecordersCountTheirRuns, RelaysOn
<1>5. CASE RelayStarts(x)
  <2>h. PICK h \in 0..MaxRuns : h = run_gtr[by[x]]
    BY <1>5 DEF RelayStarts, Given
  <2>1. /\ conn[x] = "dialing" /\ conn'[x] = "relaying" /\ by' = by
        /\ \A g \in 0..MaxRuns : alive'[g] = IF g = h THEN alive[g] + 1 ELSE alive[g]
    BY <1>5, <2>h DEF RelayStarts
  <2>2. x \notin RelaysOn(h) /\ RelaysOn(h)' = RelaysOn(h) \cup {x}
    <3>1. \A y \in Conns : run_gtr'[by'[y]] = run_gtr[by[y]]
      BY <1>1, <2>1
    <3>2. \A y \in Conns : (conn'[y] = "relaying" /\ run_gtr'[by'[y]] = h)
                              <=> ((conn[y] = "relaying" /\ run_gtr[by[y]] = h) \/ y = x)
      BY <1>3, <2>1, <2>h, <3>1
    <3>3. x \notin RelaysOn(h)
      BY <2>1, <2>h DEF RelaysOn
    <3>4. RelaysOn(h)' = RelaysOn(h) \cup {x}
      BY <3>2 DEF RelaysOn
    <3> QED
      BY <3>3, <3>4
  <2>3. ASSUME NEW g \in 0..MaxRuns, g # h PROVE RelaysOn(g)' = RelaysOn(g)
    <3>1. \A y \in Conns : run_gtr'[by'[y]] = run_gtr[by[y]]
      BY <1>1, <2>1
    <3>2. \A y \in Conns : (conn'[y] = "relaying" /\ run_gtr'[by'[y]] = g)
                              <=> (conn[y] = "relaying" /\ run_gtr[by[y]] = g)
      BY <1>3, <2>1, <2>3, <2>h, <3>1
    <3> QED
      BY <3>2 DEF RelaysOn
  <2>4. Cardinality(RelaysOn(h)') = Cardinality(RelaysOn(h)) + 1
    BY <2>2, RelaysFinite, FS_AddElement
  <2>5. ASSUME NEW g \in 0..MaxRuns PROVE alive'[g] = Cardinality(RelaysOn(g)')
    <3>1. alive[g] = Cardinality(RelaysOn(g)) /\ alive[h] = Cardinality(RelaysOn(h))
      BY <2>1 DEF RecordersCountTheirRuns, RelaysOn
    <3> QED
      BY <2>1, <2>3, <2>4, <3>1
  <2> QED
    BY <1>2, <2>5 DEF RecordersCountTheirRuns, RelaysOn
<1>6. CASE RelayOver(x)
  <2>h. PICK h \in 0..MaxRuns : h = run_gtr[by[x]]
    BY <1>6 DEF RelayOver, Given
  <2>1. /\ conn[x] = "relaying" /\ conn'[x] = "over" /\ by' = by
        /\ \A g \in 0..MaxRuns : alive'[g] = IF g = h THEN alive[g] - 1 ELSE alive[g]
    BY <1>6, <2>h DEF RelayOver
  <2>2. x \in RelaysOn(h) /\ RelaysOn(h)' = RelaysOn(h) \ {x}
    <3>1. \A y \in Conns : run_gtr'[by'[y]] = run_gtr[by[y]]
      BY <1>1, <2>1
    <3>2. \A y \in Conns : (conn'[y] = "relaying" /\ run_gtr'[by'[y]] = h)
                              <=> (conn[y] = "relaying" /\ run_gtr[by[y]] = h /\ y # x)
      BY <1>3, <2>1, <2>h, <3>1
    <3>3. x \in RelaysOn(h)
      BY <2>1, <2>h DEF RelaysOn
    <3>4. RelaysOn(h)' = RelaysOn(h) \ {x}
      BY <3>2 DEF RelaysOn
    <3> QED
      BY <3>3, <3>4
  <2>3. ASSUME NEW g \in 0..MaxRuns, g # h PROVE RelaysOn(g)' = RelaysOn(g)
    <3>1. \A y \in Conns : run_gtr'[by'[y]] = run_gtr[by[y]]
      BY <1>1, <2>1
    <3>2. \A y \in Conns : (conn'[y] = "relaying" /\ run_gtr'[by'[y]] = g)
                              <=> (conn[y] = "relaying" /\ run_gtr[by[y]] = g)
      BY <1>3, <2>1, <2>3, <2>h, <3>1
    <3> QED
      BY <3>2 DEF RelaysOn
  <2>4. Cardinality(RelaysOn(h)') = Cardinality(RelaysOn(h)) - 1
    <3>1. IsFiniteSet(RelaysOn(h))
      BY RelaysFinite
    <3>2. Cardinality(RelaysOn(h) \ {x}) = Cardinality(RelaysOn(h)) - 1
      BY <2>2, <3>1, FS_RemoveElement
    <3> QED
      BY <2>2, <3>2
  <2>5. ASSUME NEW g \in 0..MaxRuns PROVE alive'[g] = Cardinality(RelaysOn(g)')
    <3>1. alive[g] = Cardinality(RelaysOn(g)) /\ alive[h] = Cardinality(RelaysOn(h))
      BY <2>1 DEF RecordersCountTheirRuns, RelaysOn
    <3> QED
      BY <2>1, <2>3, <2>4, <3>1
  <2> QED
    BY <1>2, <2>5 DEF RecordersCountTheirRuns, RelaysOn
<1> QED
  BY <1>4, <1>5, <1>6

LEMMA CountNext == BaseTypes /\ CountInv /\ [Next]_vars => CountInv'
<1> SUFFICES ASSUME BaseTypes, CountInv, [Next]_vars PROVE CountInv'
  OBVIOUS
<1> USE RunsAssumption
<1>t. BaseTypes' /\ runs' \in Nat
  <2>1. BaseTypes'
    BY TypeNext
  <2>2. runs' \in 0..MaxRuns
    BY <2>1, Zenon DEF BaseTypes
  <2> QED
    BY <2>1, <2>2
<1>1. CASE Run
  <2>1. runs \in Nat /\ runs' = runs + 1 /\ run_gtr' = [run_gtr EXCEPT ![runs'] = gtr]
        /\ joined' = [joined EXCEPT ![runs'] = TRUE] /\ UNCHANGED connVars
    BY <1>1 DEF Run, BaseTypes
  <2>2. \A r \in Runs : r <= runs => run_gtr'[r] = run_gtr[r]
    BY <2>1 DEF BaseTypes, Runs
  <2>3. \A r \in Runs : joined'[r] => joined[r] \/ r <= runs'
    BY <2>1 DEF BaseTypes, Runs
  <2> QED
    BY <1>t, <2>1, <2>2, <2>3, CountsStay
<1>2. CASE UNCHANGED <<runs, run_gtr, joined, connVars>>
  <2>1. runs <= runs'
    BY <1>2 DEF BaseTypes
  <2> QED
    BY <1>2, <1>t, <2>1, CountsStay
<1>3. ASSUME NEW r \in Runs, DropJoinSet(r) PROVE CountInv'
  BY <1>3, <1>t, CountsStay DEF DropJoinSet, BaseTypes
<1>4. CASE Relaying
  BY <1>4, ConnCounts DEF Relaying
<1>5. CASE InitStatic \/ InitInfinite \/ Stop \/ Reset \/ Tasks \/ UNCHANGED vars
  <2>1. UNCHANGED <<runs, run_gtr, joined, connVars>>
    BY <1>5 DEF InitStatic, InitInfinite, Stop, Reset, runVars, Tasks, Bind, SeeShutdown, AcceptErr,
       Unbind, RelaysEnd, taskVars, vars
  <2> QED
    BY <1>2, <2>1
<1> QED
  BY <1>1, <1>3, <1>4, <1>5 DEF Next, Calls

LEMMA CountAlways == Spec => [](BaseTypes /\ CountInv)
<1>1. Init => CountInv
  <2> SUFFICES ASSUME Init PROVE CountInv
    OBVIOUS
  <2>1. \A g : RelaysOn(g) = {}
    BY DEF Init, RelaysOn
  <2>2. Given
    BY DEF Init, Given
  <2> QED
    BY <2>1, <2>2, FS_EmptySet DEF CountInv, RecordersCountTheirRuns, RelaysOn, Init
<1> QED
  BY <1>1, TypeInit, TypeNext, CountNext, PTL DEF Spec

\* A recorder counts exactly the relays that go on of the runs it was given to,
\* for any number of runs, resets and connections.
THEOREM CountCorrect == Spec => []RecordersCountTheirRuns
<1>1. CountInv => RecordersCountTheirRuns
  BY DEF CountInv
<1> QED
  BY <1>1, CountAlways, PTL

\* Every variable of Engine keeps its type, and no count falls below zero.
THEOREM TypeCorrect == Spec => []TypeOK
<1>1. BaseTypes /\ CountInv => TypeOK
  <2> SUFFICES ASSUME BaseTypes, CountInv PROVE alive \in [0..MaxRuns -> Nat]
    BY DEF BaseTypes, TypeOK
  <2>1. \A g \in 0..MaxRuns : alive[g] = Cardinality(RelaysOn(g))
    BY DEF CountInv, RecordersCountTheirRuns, RelaysOn
  <2> QED
    BY <2>1, RelaysFinite DEF BaseTypes
<1> QED
  BY <1>1, CountAlways, PTL

-----------------------------------------------------------------------------
(* A run after a release *)

\* While the clean inbound i of the current run waits to be polled, its address
\* is free and no other run has a task that could take it.
Reserved(i) ==
  task[running][i] = "created" =>
    port[i] = 0 /\ \A r \in Runs : r # running => ~Bound(r, i)

CleanInv ==
  running # 0 => \A i \in clean[running] : task[running][i] # "failed" /\ Reserved(i)

LEMMA CleanNext == BaseTypes /\ CleanInv /\ [Next]_vars => CleanInv'
<1> SUFFICES ASSUME BaseTypes, CleanInv, [Next]_vars, running' # 0,
                    NEW i \in clean'[running']
             PROVE  task'[running'][i] # "failed" /\ Reserved(i)'
  BY DEF CleanInv
<1> USE RunsAssumption
<1>0. running' \in Runs /\ i \in Inbounds
  <2>1. BaseTypes'
    BY TypeNext
  <2>2. QED
    BY <2>1 DEF BaseTypes, Runs
<1>1. CASE Run
  <2>1. runs' \in Runs /\ running' = runs'
    BY <1>1 DEF Run, BaseTypes, Runs
  <2>2. port[i] = 0 /\ \A r \in Runs : ~Bound(r, i)
    BY <1>1, <2>1 DEF Run, BaseTypes
  <2>3. task'[running'][i] = "created"
    BY <1>0, <1>1, <2>1 DEF Run, BaseTypes
  <2>4. \A r \in Runs : r # running' => task'[r][i] = task[r][i]
    BY <1>1, <2>1 DEF Run, BaseTypes
  <2>5. QED
    BY <1>1, <2>2, <2>3, <2>4 DEF Run, Reserved, Bound
<1>2. CASE Stop
  BY <1>2 DEF Stop
<1> DEFINE Same == running' = running /\ clean' = clean
<1>3. CASE Same /\ UNCHANGED <<task, port>>
  BY <1>0, <1>3 DEF CleanInv, Reserved, Bound
<1>4. ASSUME NEW r \in Runs, DropJoinSet(r) PROVE task'[running'][i] # "failed" /\ Reserved(i)'
  <2>1. \A q \in Runs : task'[q][i] = IF q = r /\ task[q][i] = "created" THEN "aborted"
                                      ELSE task[q][i]
    BY <1>0, <1>4 DEF DropJoinSet, BaseTypes
  <2>2. Same /\ port' = port
    BY <1>4 DEF DropJoinSet
  <2>3. QED
    BY <1>0, <2>1, <2>2 DEF CleanInv, Reserved, Bound
<1>5. ASSUME NEW r \in Runs, NEW j \in Inbounds, Bind(r, j)
      PROVE  task'[running'][i] # "failed" /\ Reserved(i)'
  <2>1. Same
    BY <1>5 DEF Bind, taskVars
  <2>2. CASE j # i
    <3>1. port'[i] = port[i] /\ \A q \in Runs : task'[q][i] = task[q][i]
      BY <1>0, <1>5, <2>2 DEF Bind, BaseTypes
    <3>2. QED
      BY <1>0, <2>1, <3>1 DEF CleanInv, Reserved, Bound
  <2>3. CASE j = i /\ r = running
    <3>1. port[i] = 0
      BY <1>0, <1>5, <2>1, <2>3 DEF Bind, CleanInv, Reserved
    <3>2. task'[running'][i] = "listening"
      BY <1>0, <1>5, <2>1, <2>3, <3>1 DEF Bind, BaseTypes
    <3>3. QED
      BY <3>2 DEF Reserved
  <2>4. CASE j = i /\ r # running
    <3>1. task[r][i] = "created" /\ task'[running][i] = task[running][i]
      BY <1>0, <1>5, <2>1, <2>4 DEF Bind, BaseTypes
    <3>2. task[running][i] # "created"
      BY <1>0, <2>1, <2>4, <3>1 DEF CleanInv, Reserved, Bound
    <3>3. QED
      BY <1>0, <2>1, <3>1, <3>2 DEF CleanInv, Reserved
  <2>5. QED
    BY <2>2, <2>3, <2>4
<1>6. ASSUME NEW r \in Runs, NEW j \in Inbounds, Unbind(r, j)
      PROVE  task'[running'][i] # "failed" /\ Reserved(i)'
  <2>1. Same
    BY <1>6 DEF Unbind, taskVars
  <2>2. \A q \in Runs : task'[q][i] = IF q = r /\ j = i THEN "stopped" ELSE task[q][i]
    BY <1>0, <1>6 DEF Unbind, BaseTypes
  <2>3. port'[i] = 0 \/ port'[i] = port[i]
    BY <1>0, <1>6 DEF Unbind, BaseTypes
  <2>4. QED
    BY <1>0, <2>1, <2>2, <2>3 DEF CleanInv, Reserved, Bound
<1>7. ASSUME NEW r \in Runs, NEW j \in Inbounds, RelaysEnd(r, j)
      PROVE  task'[running'][i] # "failed" /\ Reserved(i)'
  <2>1. Same /\ task' = task
    BY <1>7 DEF RelaysEnd, taskVars
  <2>2. port'[i] = 0 \/ port'[i] = port[i]
    BY <1>0, <1>7 DEF RelaysEnd, BaseTypes
  <2>3. QED
    BY <1>0, <2>1, <2>2 DEF CleanInv, Reserved, Bound
<1>8. CASE InitStatic \/ InitInfinite \/ Reset \/ UNCHANGED vars
  BY <1>3, <1>8 DEF InitStatic, InitInfinite, Reset, runVars, vars
<1>r. CASE Relaying
  <2>1. Same /\ UNCHANGED <<task, port>>
    BY <1>r DEF Relaying, LoopTakes, DialFails, RelayStarts, RelayOver, callVars, runVars
  <2> QED
    BY <1>3, <2>1
<1>9. QED
  BY <1>1, <1>2, <1>4, <1>5, <1>6, <1>7, <1>8, <1>r DEF Next, Calls, Tasks, SeeShutdown, AcceptErr

\* A run that begins when the address of an inbound has been given back gets
\* that address, whatever the tasks of earlier runs and the caller do.
THEOREM CleanCorrect == Spec => []CleanRunServes
<1>1. Init => CleanInv
  BY DEF Init, CleanInv
<1>2. CleanInv => CleanRunServes
  BY DEF CleanInv, CleanRunServes
<1>3. QED
  BY <1>1, <1>2, TypeInit, TypeNext, CleanNext, PTL DEF Spec
=============================================================================
