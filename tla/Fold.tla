-------------------------------- MODULE Fold --------------------------------
(***************************************************************************)
(* map::fold: how the inbound chains of an engine turn what they accept    *)
(* into results.  The first map of a chain makes a generator of streams;   *)
(* a task folds the rest of the chain over each of them, one map after the *)
(* other, until the chain is at its end, a map fails or consumes the       *)
(* stream, or a map makes a generator of its own (a multiplexer), whose    *)
(* streams are folded over what is left of the chain.  The results of an   *)
(* inbound go through one bounded channel to Engine::loop_a.               *)
(*                                                                         *)
(* The next map is given by the iterator of the chain: the next of a list  *)
(* (static), the one whose index a Lua selector returns (finite), or one   *)
(* that a Lua generator makes, which may keep a coroutine for each stream  *)
(* (infinite).                                                             *)
(*                                                                         *)
(* A map is its index, counted from 1 (0 is the -1 that the iterators      *)
(* start from); what it does to a stream, and what a script answers, is    *)
(* the choice of the environment.                                          *)
(***************************************************************************)
EXTENDS Integers, Sequences, FiniteSets, SequencesExt

CONSTANTS
  Inbounds,  \* the inbounds, by their index: the root of their cids
  Streams,   \* the streams that may be accepted (a bound)
  Chain,     \* the maps of a chain, TRUE for a multiplexer
  Kinds,     \* the iterators there may be
  MaxStreams,\* streams with each of them (a bound)
  Script,    \* the indices that a script may answer with at each index; one
             \* that is not of the chain ends it
  DealCap,   \* capacity of the channel of results
  GenCap     \* capacity of the channel of a generator

ASSUME ChainAssumption  == Chain \in Seq(BOOLEAN) /\ Chain # <<>>
ASSUME ScriptAssumption == Kinds \subseteq {"static", "finite", "infinite"}
                           /\ Script \in [0..Len(Chain) -> SUBSET Int]
ASSUME IdsAssumption    == Inbounds \cup Streams \subseteq Nat /\ Inbounds \cap Streams = {} /\ IsFiniteSet(Streams)
ASSUME BoundsAssumption == MaxStreams \in [Kinds -> Nat] /\ DealCap \in Nat \ {0} /\ GenCap \in Nat \ {0}

\* A generator is an inbound or the stream that a multiplexer made one of.
Gens == Inbounds \cup Streams

VARIABLES
  kind,     \* the iterator of an inbound
  thread_map,             \* by cid: the index a coroutine is at, or OVER
  create_thread_func_map, \* the cids of generators that came with a new_thread_fn
  first,    \* what the first map of an inbound gave
  gen,      \* whether the producer of a generator still has its sender
  genQ,     \* the channel of a generator
  made,     \* how many streams a multiplexer has made
  iter,     \* in_iter_fold_forever on a generator
  st,       \* what became of a stream
  parent,   \* the generator it came from
  owner,    \* the inbound it belongs to
  cid,      \* its cid, and that of an inbound
  left,     \* the iterator of a generator or a stream: the index it is at
  trace,    \* the maps that were run for it, from the first
  dealQ,    \* the channel of results of an inbound
  loop_a,   \* its loop_a
  last_connection_id

genVars  == <<gen, genQ, made, iter>>
foldVars == <<left, trace>>
dealVars == <<dealQ, loop_a>>
luaVars  == <<thread_map, create_thread_func_map>>
vars == <<kind, luaVars, first, genVars, st, parent, owner, cid, foldVars, dealVars, last_connection_id>>

\* A coroutine that gives no more maps, whether or not it can be resumed, and
\* what one may be at once it has given map k.
OVER == -1
After(k) == {OVER} \cup (IF Script[k] = {} THEN {} ELSE {k})

Init ==
  /\ kind \in [Inbounds -> Kinds]
  /\ thread_map = <<>>
  /\ create_thread_func_map = {}
  /\ first = [i \in Inbounds |-> "pending"]
  /\ gen = [g \in Gens |-> "none"]
  /\ genQ = [g \in Gens |-> <<>>]
  /\ made = [g \in Gens |-> 0]
  /\ iter = [g \in Gens |-> "none"]
  /\ st = [s \in Streams |-> "unused"]
  /\ parent = [s \in Streams |-> s]
  /\ owner = [g \in Gens |-> g]
  /\ cid = [g \in Gens |-> IF g \in Inbounds THEN <<g>> ELSE <<>>]
  /\ left = [g \in Gens |-> 0]
  /\ trace = [g \in Gens |-> <<>>]
  /\ dealQ = [i \in Inbounds |-> <<>>]
  /\ loop_a = [i \in Inbounds |-> "run"]
  /\ last_connection_id = 0

\* The streams are numbered in the order in which they are accepted.
Fresh(s, i) ==
  /\ st[s] = "unused" /\ \A t \in Streams : st[t] = "unused" => s <= t
  /\ Cardinality({t \in Streams : st[t] # "unused"}) < MaxStreams[kind[i]]

\* CID::clone_push, with the counter of the GlobalTrafficRecorder.
ClonePush(g) == Append(cid[g], last_connection_id + 1)

-----------------------------------------------------------------------------
(* The iterators *)

\* A generator script may give a function for the threads of a generator.
NewThreadFn(c, k) ==
  create_thread_func_map' \in
    {create_thread_func_map} \cup
      (IF Chain[k] THEN {create_thread_func_map \cup {c}} ELSE {})

\* The script is called as a function, for the map after index at.
Call(c, at, k) ==
  /\ k \in Script[at]
  /\ NewThreadFn(c, k)
  /\ UNCHANGED thread_map

\* Mutant: a coroutine is kept for all streams of a generator.
ThreadOfGenerator(s) == Front(cid[s])

\* The key of the coroutine of a stream.
Thread(s) == cid[s]

HasThread(s)  == Thread(s) \in DOMAIN thread_map
HasCreator(s) == Front(cid[s]) \in create_thread_func_map

SetThread(s, at) ==
  thread_map' = [c \in DOMAIN thread_map \cup {Thread(s)} |->
                   IF c = Thread(s) THEN at ELSE thread_map[c]]
DropThread(s) ==
  thread_map' = [c \in DOMAIN thread_map \ {Thread(s)} |-> thread_map[c]]

\* The coroutine goes on from where it was, whatever index the stream is at.
Resume(s, k) ==
  /\ HasThread(s) /\ thread_map[Thread(s)] # OVER
  /\ k \in Script[thread_map[Thread(s)]]
  /\ \E at \in After(k) : SetThread(s, at)
  /\ NewThreadFn(cid[s], k)

\* The generator of the stream came with a new_thread_fn: a coroutine is made,
\* and kept if it can be resumed.
Start(s, k) ==
  /\ ~HasThread(s) /\ HasCreator(s)
  /\ k \in Script[left[s]]
  /\ (k \in After(k) /\ SetThread(s, k)) \/ UNCHANGED thread_map
  /\ NewThreadFn(cid[s], k)

\* IndexInfinite::next_with_data gives map k ...
Infinite(s, k) ==
  \/ Resume(s, k)
  \/ Start(s, k)
  \/ ~HasThread(s) /\ ~HasCreator(s) /\ Call(cid[s], left[s], k)

\* ... or none: an error, no index of a map, or no map.  A coroutine that is
\* over or gave no map is removed; one that gave a negative index, or failed,
\* stays.  (A new_thread_fn that comes with a generator that cannot be made has
\* no streams and is left out.)
InfiniteNone(s) ==
  /\ UNCHANGED create_thread_func_map
  /\ \/ HasThread(s) /\ DropThread(s)
     \/ HasThread(s) /\ thread_map[Thread(s)] # OVER /\ SetThread(s, OVER)
     \/ ~HasThread(s) /\ HasCreator(s) /\ (SetThread(s, OVER) \/ UNCHANGED thread_map)
     \/ ~HasThread(s) /\ ~HasCreator(s) /\ UNCHANGED thread_map

\* Finite::next_with_data: the map whose index the selector returns, none if
\* the selector fails or the index is out of range.
Finite(s, k)  == k \in Script[left[s]] /\ UNCHANGED luaVars
FiniteNone(s) == UNCHANGED luaVars

\* A vec::IntoIter.
Static(s, k)  == k = left[s] + 1 /\ UNCHANGED luaVars
StaticNone(s) == left[s] = Len(Chain) /\ UNCHANGED luaVars

Next_with_data(s, k) == CASE kind[owner[s]] = "static"   -> Static(s, k)
                          [] kind[owner[s]] = "finite"   -> Finite(s, k)
                          [] kind[owner[s]] = "infinite" -> Infinite(s, k)

NoMap(s) == CASE kind[owner[s]] = "static"   -> StaticNone(s)
              [] kind[owner[s]] = "finite"   -> FiniteNone(s)
              [] kind[owner[s]] = "infinite" -> InfiniteNone(s)

-----------------------------------------------------------------------------
(* fold_from_start *)

\* The first map: a coroutine is not there yet, so a generator script is
\* called as a function.
RunFirst(i, k) ==
  /\ first[i] = "pending"
  /\ CASE kind[i] = "static"   -> k = 1 /\ UNCHANGED luaVars
       [] kind[i] = "finite"   -> k \in Script[0] /\ UNCHANGED luaVars
       [] kind[i] = "infinite" -> Call(<<i>>, 0, k)

FirstErr(i) ==
  /\ \E k \in DOMAIN Chain : RunFirst(i, k)
  /\ first' = [first EXCEPT ![i] = "err"]
  /\ UNCHANGED <<kind, genVars, st, parent, owner, cid, foldVars, dealVars, last_connection_id>>

\* A script that has no first map panics the task of the inbound.
FirstNone(i) ==
  /\ first[i] = "pending" /\ kind[i] # "static"
  /\ first' = [first EXCEPT ![i] = "err"]
  /\ UNCHANGED <<kind, luaVars, genVars, st, parent, owner, cid, foldVars, dealVars,
                 last_connection_id>>

FirstGenerator(i) ==
  /\ \E k \in DOMAIN Chain : /\ RunFirst(i, k)
                             /\ left' = [left EXCEPT ![i] = k]
                             /\ trace' = [trace EXCEPT ![i] = <<k>>]
  /\ first' = [first EXCEPT ![i] = "generator"]
  /\ gen' = [gen EXCEPT ![i] = "open"]
  /\ iter' = [iter EXCEPT ![i] = "run"]
  /\ UNCHANGED <<kind, genQ, made, st, parent, owner, cid, dealVars, last_connection_id>>

\* Not a generator: what it gave, a stream or none, is folded directly.
FirstDirect(i, s) ==
  /\ Fresh(s, i)
  /\ first' = [first EXCEPT ![i] = "direct"]
  /\ st' = [st EXCEPT ![s] = "fold"]
  /\ parent' = [parent EXCEPT ![s] = i]
  /\ owner' = [owner EXCEPT ![s] = i]
  /\ cid' = [cid EXCEPT ![s] = ClonePush(i)]
  /\ last_connection_id' = last_connection_id + 1
  /\ \E k \in DOMAIN Chain : /\ RunFirst(i, k)
                             /\ left' = [left EXCEPT ![i] = k, ![s] = k]
                             /\ trace' = [trace EXCEPT ![i] = <<k>>, ![s] = <<k>>]
  /\ UNCHANGED <<kind, genVars, dealVars>>

-----------------------------------------------------------------------------
(* The producer of a generator: a listener, or a multiplexer's connection *)

\* Mutant: a multiplexer numbers its streams below the inbound.
SubCidOfInbound(g) == Append(cid[owner[g]], made[g] + 1)

\* A multiplexer gives its streams new ids itself.
SubCid(g) == Append(cid[g], made[g] + 1)

Produce(g, s) ==
  /\ gen[g] = "open" /\ Len(genQ[g]) < GenCap
  /\ Fresh(s, owner[g])
  /\ st' = [st EXCEPT ![s] = "offered"]
  /\ parent' = [parent EXCEPT ![s] = g]
  /\ owner' = [owner EXCEPT ![s] = owner[g]]
  /\ IF g \in Streams THEN /\ cid' = [cid EXCEPT ![s] = SubCid(g)]
                           /\ made' = [made EXCEPT ![g] = @ + 1]
                      ELSE UNCHANGED <<cid, made>>
  /\ genQ' = [genQ EXCEPT ![g] = Append(@, s)]
  /\ UNCHANGED <<kind, luaVars, first, gen, iter, foldVars, dealVars, last_connection_id>>

\* A shutdown or an error stops the producer, at any time.
ProducerEnd(g) ==
  /\ gen[g] = "open"
  /\ gen' = [gen EXCEPT ![g] = "closed"]
  /\ UNCHANGED <<kind, luaVars, first, genQ, made, iter, st, parent, owner, cid, foldVars, dealVars,
                 last_connection_id>>

-----------------------------------------------------------------------------
(* in_iter_fold_forever *)

\* A stream is folded by a task of its own, with clones of the iterator
\* and the trace.
Take(g) ==
  /\ iter[g] = "run" /\ genQ[g] # <<>>
  /\ LET s == Head(genQ[g]) IN
       /\ st' = [st EXCEPT ![s] = "fold"]
       /\ left' = [left EXCEPT ![s] = left[g]]
       /\ trace' = [trace EXCEPT ![s] = trace[g]]
       /\ IF cid[s] = <<>>
          THEN /\ cid' = [cid EXCEPT ![s] = ClonePush(g)]
               /\ last_connection_id' = last_connection_id + 1
          ELSE UNCHANGED <<cid, last_connection_id>>
  /\ genQ' = [genQ EXCEPT ![g] = Tail(@)]
  /\ UNCHANGED <<kind, luaVars, first, gen, made, iter, parent, owner, dealVars>>

IterEnd(g) ==
  /\ iter[g] = "run" /\ gen[g] = "closed" /\ genQ[g] = <<>>
  /\ iter' = [iter EXCEPT ![g] = "ended"]
  /\ UNCHANGED <<kind, luaVars, first, gen, genQ, made, st, parent, owner, cid, foldVars, dealVars,
                 last_connection_id>>

-----------------------------------------------------------------------------
(* fold *)

\* The next map of the chain is run.
NextMap(s) ==
  /\ st[s] = "fold"
  /\ \E k \in DOMAIN Chain : /\ Next_with_data(s, k)
                             /\ left' = [left EXCEPT ![s] = k]
                             /\ trace' = [trace EXCEPT ![s] = Append(@, k)]

\* It gives a stream to go on with ...
MapOk(s) ==
  /\ NextMap(s)
  /\ UNCHANGED <<kind, first, genVars, st, parent, owner, cid, dealVars, last_connection_id>>

\* ... fails or consumes it ...
MapBreak(s) ==
  /\ NextMap(s)
  /\ st' = [st EXCEPT ![s] = "send"]
  /\ UNCHANGED <<kind, first, genVars, parent, owner, cid, dealVars, last_connection_id>>

\* ... or makes a generator: this task goes on as its in_iter_fold_forever.
\* (Of a chain that started without a generator, the result is sent as it is.)
MapGenerator(s) ==
  /\ NextMap(s)
  /\ Chain[left'[s]]
  /\ IF first[owner[s]] = "direct" /\ parent[s] = owner[s]
     THEN st' = [st EXCEPT ![s] = "send"] /\ UNCHANGED <<gen, iter>>
     ELSE /\ st' = [st EXCEPT ![s] = "mux"]
          /\ gen' = [gen EXCEPT ![s] = "open"]
          /\ iter' = [iter EXCEPT ![s] = "run"]
  /\ UNCHANGED <<kind, first, genQ, made, parent, owner, cid, dealVars, last_connection_id>>

\* The iterator has no more maps.
FoldEnd(s) ==
  /\ st[s] = "fold" /\ NoMap(s)
  /\ st' = [st EXCEPT ![s] = "send"]
  /\ UNCHANGED <<kind, first, genVars, parent, owner, cid, foldVars, dealVars, last_connection_id>>

\* A generator script answers with what is no map, or with a map object it has
\* given before: the task panics and has no result.
FoldPanic(s) ==
  /\ st[s] = "fold" /\ kind[owner[s]] = "infinite"
  /\ HasThread(s) => thread_map[Thread(s)] # OVER
  /\ st' = [st EXCEPT ![s] = "panicked"]
  /\ UNCHANGED <<kind, luaVars, first, genVars, parent, owner, cid, foldVars, dealVars, last_connection_id>>

Deal(s) ==
  /\ st[s] = "send" /\ Len(dealQ[owner[s]]) < DealCap
  /\ st' = [st EXCEPT ![s] = "dealt"]
  /\ dealQ' = [dealQ EXCEPT ![owner[s]] = Append(@, s)]
  /\ UNCHANGED <<kind, luaVars, first, genVars, parent, owner, cid, foldVars, loop_a, last_connection_id>>

-----------------------------------------------------------------------------
(* Engine::loop_a *)

Handle(i) ==
  /\ loop_a[i] = "run" /\ dealQ[i] # <<>>
  /\ st' = [st EXCEPT ![Head(dealQ[i])] = "handled"]
  /\ dealQ' = [dealQ EXCEPT ![i] = Tail(@)]
  /\ UNCHANGED <<kind, luaVars, first, genVars, parent, owner, cid, foldVars, loop_a, last_connection_id>>

\* Mutant: only the in_iter_fold_forever of the inbound keeps the channel open.
DealersOfInbound(i) == IF first[i] = "pending" \/ iter[i] = "run" THEN {i} ELSE {}

\* Mutant: the engine keeps a sender for itself.
DealersAndEngine(i) == {i}

\* The tasks that own a sender of the results of i.
Dealers(i) ==
  {g \in Gens : owner[g] = i /\ (iter[g] = "run" \/ (g \in Streams /\ st[g] \in {"fold", "send"}))}
    \cup (IF first[i] = "pending" THEN {i} ELSE {})

LoopAEnd(i) ==
  /\ loop_a[i] = "run" /\ dealQ[i] = <<>>
  /\ Dealers(i) = {}
  /\ loop_a' = [loop_a EXCEPT ![i] = "ended"]
  /\ UNCHANGED <<kind, luaVars, first, genVars, st, parent, owner, cid, foldVars, dealQ, last_connection_id>>

-----------------------------------------------------------------------------
Inbound(i) == FirstErr(i) \/ FirstNone(i) \/ FirstGenerator(i) \/ (\E s \in Streams : FirstDirect(i, s))
              \/ Handle(i) \/ LoopAEnd(i)
Generator(g) == (\E s \in Streams : Produce(g, s)) \/ ProducerEnd(g) \/ Take(g) \/ IterEnd(g)
Folding(s) == MapOk(s) \/ MapBreak(s) \/ MapGenerator(s) \/ FoldEnd(s) \/ FoldPanic(s) \/ Deal(s)

Next == \/ \E i \in Inbounds : Inbound(i)
        \/ \E g \in Gens : Generator(g)
        \/ \E s \in Streams : Folding(s)

Spec == Init /\ [][Next]_vars

\* tokio runs the tasks that are ready.  What a map waits for is the peer's
\* affair: no timeout bounds the fold of an inbound.
Fairness ==
  /\ \A g \in Gens : WF_vars(Take(g)) /\ WF_vars(IterEnd(g))
  /\ \A s \in Streams : WF_vars(Deal(s))
  /\ \A i \in Inbounds : WF_vars(Handle(i)) /\ WF_vars(LoopAEnd(i))

FairSpec == Spec /\ Fairness

-----------------------------------------------------------------------------
(* Properties *)

Folded == {s \in Streams : st[s] \notin {"unused", "offered"}}

\* No two streams have the same cid, whichever inbound and whichever
\* multiplexer they came through, and the cid of a stream is that of its
\* generator with one number more.
CidsDistinct ==
  /\ \A s, t \in Folded : cid[s] = cid[t] => s = t
  /\ \A s \in Folded : \E n \in 1..(last_connection_id + made[parent[s]]) :
       cid[s] = Append(cid[parent[s]], n)

\* The indices that may follow index k in the chain of inbound i.
Following(i, k) == IF kind[i] = "static" THEN {k + 1} ELSE Script[k]

\* Whatever else is being folded at the same time, and whichever coroutines are
\* kept, the maps run for a stream are those of its generator and then, one by
\* one, what its own iterator gives at the index it is at.
MapsInOrder ==
  \A s \in Folded :
    /\ IsPrefix(trace[parent[s]], trace[s])
    /\ trace[s] # <<>> /\ left[s] = Last(trace[s])
    /\ \A j \in DOMAIN trace[s] :
         trace[s][j] \in Following(owner[s], IF j = 1 THEN 0 ELSE trace[s][j - 1])

\* loop_a only ends when every stream accepted for the inbound was handled or
\* became a generator, or its task panicked: no result is left with a task
\* that cannot deliver it.
NoResultLost ==
  \A i \in Inbounds : loop_a[i] = "ended" =>
    \A s \in Streams : owner[s] = i => st[s] \in {"handled", "mux", "panicked"}

Quiet(i) == /\ first[i] # "pending"
            /\ \A g \in Gens : owner[g] = i => gen[g] # "open"
            /\ \A s \in Streams : owner[s] = i => st[s] # "fold"

\* Engine::block_run returns: once the producers of an inbound have ended, its
\* loop_a ends, unless a peer keeps a fold waiting.
LoopEnds ==
  \A i \in Inbounds : Quiet(i) ~> (loop_a[i] = "ended" \/ ~Quiet(i))
=============================================================================
