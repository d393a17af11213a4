------------------------------ MODULE AutoRoute ------------------------------
(***************************************************************************)
(* rucimp's map::tproxy::route: the commands by which TcpResolver turns    *)
(* the traffic of the machine to tproxy, and back.  Each command is one    *)
(* step and changes the kernel's tables, which outlive the process.        *)
(*                                                                         *)
(* Of the tables there is what decides whether a packet is turned: the ip  *)
(* rule and route of the mark, the chains and what jumps to them.  The     *)
(* entries that spare the local nets are left out.                         *)
(***************************************************************************)
EXTENDS Integers, Sequences, SequencesExt

CONSTANTS
  Opts,       \* the Options a configuration may have: [udp, v6]
  MaxFaults,  \* bound: commands that fail for no reason of ours
  MaxCrashes  \* bound: processes killed

ASSUME OptsAssumption == Opts \subseteq [udp : BOOLEAN, v6 : BOOLEAN]

VARIABLES
  phase,      \* "off", "cleaning", "adding", "up" or "dropping"
  opts,       \* the options of this process
  fam,        \* the family of addresses whose commands run
  todo,       \* the commands that are left
  tables,     \* of each family
  whole,      \* none of this list has failed for no reason of ours
  faults,     \* commands that have, of any list
  crashes

routeVars == <<phase, opts, fam, todo, tables, whole, faults, crashes>>

Families == {4, 6}
Empty == [rule |-> FALSE, route |-> FALSE, pre |-> FALSE, out |-> FALSE,
          rucimp |-> <<>>, rucimp_self |-> <<>>, chains |-> {}]

-----------------------------------------------------------------------------
(* Commands *)

Cmd(op, on, entry) == [op |-> op, on |-> on, entry |-> entry]
When(cond, cmds)     == IF cond THEN cmds ELSE <<>>

\* Mutant: the proxy's own traffic is spared after all traffic is marked.
UpListOwnLast(udp) ==
  <<Cmd("set", "rule", ""), Cmd("set", "route", ""),
    Cmd("chain", "rucimp", ""), Cmd("append", "rucimp", "tproxy_tcp")>>
  \o When(udp, <<Cmd("append", "rucimp", "tproxy_udp")>>)
  \o <<Cmd("set", "pre", "rucimp"), Cmd("chain", "rucimp_self", ""), Cmd("append", "rucimp_self", "mark_tcp")>>
  \o When(udp, <<Cmd("append", "rucimp_self", "mark_udp")>>)
  \o <<Cmd("append", "rucimp_self", "own"), Cmd("set", "out", "rucimp_self")>>

\* run_auto_route after its down_auto_route, and run_auto_route6
UpList(udp) ==
  <<Cmd("set", "rule", ""), Cmd("set", "route", ""),
    Cmd("chain", "rucimp", ""), Cmd("append", "rucimp", "tproxy_tcp")>>
  \o When(udp, <<Cmd("append", "rucimp", "tproxy_udp")>>)
  \o <<Cmd("set", "pre", "rucimp"), Cmd("chain", "rucimp_self", ""),
       Cmd("append", "rucimp_self", "own"), Cmd("append", "rucimp_self", "mark_tcp")>>
  \o When(udp, <<Cmd("append", "rucimp_self", "mark_udp")>>)
  \o <<Cmd("set", "out", "rucimp_self")>>

\* Mutant: the chains are not emptied before they are deleted.
DownListNoFlush ==
  <<Cmd("unset", "rule", ""), Cmd("unset", "route", ""),
    Cmd("remove", "rucimp", "tproxy_tcp"), Cmd("unset", "pre", ""),
    Cmd("remove", "rucimp_self", "own"), Cmd("remove", "rucimp_self", "mark_tcp"), Cmd("unset", "out", ""),
    Cmd("delete", "rucimp", ""), Cmd("delete", "rucimp_self", "")>>

\* down_auto_route and down_auto_route6: the same whatever was added
DownList ==
  <<Cmd("unset", "rule", ""), Cmd("unset", "route", ""),
    Cmd("remove", "rucimp", "tproxy_udp"), Cmd("remove", "rucimp", "tproxy_tcp"), Cmd("unset", "pre", ""),
    Cmd("remove", "rucimp_self", "own"), Cmd("remove", "rucimp_self", "mark_udp"),
    Cmd("remove", "rucimp_self", "mark_tcp"), Cmd("unset", "out", ""),
    Cmd("flush", "rucimp", ""), Cmd("delete", "rucimp", ""),
    Cmd("flush", "rucimp_self", ""), Cmd("delete", "rucimp_self", "")>>

Jumps(t, chain) == (chain = "rucimp" /\ t.pre) \/ (chain = "rucimp_self" /\ t.out)

\* Whether the kernel accepts a command, and the tables after it.
Works(t, c) ==
  CASE c.op = "set"    -> ~t[c.on] /\ (c.entry # "" => c.entry \in t.chains)
    [] c.op = "unset"  -> t[c.on]
    [] c.op = "chain"  -> c.on \notin t.chains
    [] c.op = "append" -> c.on \in t.chains
    [] c.op = "remove" -> Contains(t[c.on], c.entry)
    [] c.op = "flush"  -> c.on \in t.chains
    [] c.op = "delete" -> c.on \in t.chains /\ t[c.on] = <<>> /\ ~Jumps(t, c.on)

After(t, c) ==
  CASE c.op = "set"    -> [t EXCEPT ![c.on] = TRUE]
    [] c.op = "unset"  -> [t EXCEPT ![c.on] = FALSE]
    [] c.op = "chain"  -> [t EXCEPT !.chains = @ \cup {c.on}]
    [] c.op = "append" -> [t EXCEPT ![c.on] = Append(@, c.entry)]
    [] c.op = "remove" -> [t EXCEPT ![c.on] = RemoveFirst(@, c.entry)]
    [] c.op = "flush"  -> [t EXCEPT ![c.on] = <<>>]
    [] c.op = "delete" -> [t EXCEPT !.chains = @ \ {c.on}]

-----------------------------------------------------------------------------
Enter(s, f, cmds) == phase' = s /\ fam' = f /\ todo' = cmds

\* TcpResolver::new
New ==
  /\ phase = "off"
  /\ \E o \in Opts : opts' = o
  /\ Enter("cleaning", 4, DownList) /\ whole' = TRUE
  /\ UNCHANGED <<tables, faults, crashes>>

\* Drop of the TcpResolver
DropResolver ==
  /\ phase = "up"
  /\ Enter("dropping", 4, DownList) /\ whole' = TRUE
  /\ UNCHANGED <<opts, tables, faults, crashes>>

\* A command that fails ends the list of run_auto_route: an error of the
\* configuration, which panics, or, of ip6, a warning.  down_auto_route goes on.
Command ==
  /\ todo # <<>>
  /\ LET c == Head(todo)
         t == tables[fam]
         Fails == IF phase = "adding" /\ fam = 4 THEN Enter("off", 4, <<>>)
                  ELSE Enter(phase, fam, IF phase = "adding" THEN <<>> ELSE Tail(todo))
     IN  \/ /\ Works(t, c)
            /\ tables' = [tables EXCEPT ![fam] = After(t, c)]
            /\ Enter(phase, fam, Tail(todo)) /\ UNCHANGED <<whole, faults>>
         \/ ~Works(t, c) /\ Fails /\ UNCHANGED <<tables, whole, faults>>
         \/ /\ Works(t, c) /\ faults < MaxFaults
            /\ Fails /\ faults' = faults + 1 /\ whole' = FALSE /\ UNCHANGED tables
  /\ UNCHANGED <<opts, crashes>>

\* The list is through.
NextList ==
  /\ phase \in {"cleaning", "adding", "dropping"} /\ todo = <<>>
  /\ CASE phase = "cleaning"                         -> Enter("adding", fam, UpList(opts.udp))
       [] phase = "adding" /\ fam = 4 /\ opts.v6     -> Enter("cleaning", 6, DownList)
       [] phase = "adding" /\ (fam = 6 \/ ~opts.v6)  -> Enter("up", 4, <<>>)
       [] phase = "dropping" /\ fam = 4 /\ opts.v6   -> Enter("dropping", 6, DownList)
       [] phase = "dropping" /\ (fam = 6 \/ ~opts.v6) -> Enter("off", 4, <<>>)
  /\ whole' = TRUE
  /\ UNCHANGED <<opts, tables, faults, crashes>>

\* The process is killed; the tables stay.
Killed ==
  /\ phase # "off" /\ crashes < MaxCrashes
  /\ crashes' = crashes + 1
  /\ Enter("off", 4, <<>>) /\ whole' = TRUE
  /\ UNCHANGED <<opts, tables, faults>>

RouteNext == New \/ Command \/ NextList

RouteInit ==
  /\ phase = "off" /\ fam = 4 /\ todo = <<>>
  /\ opts \in Opts
  /\ tables = [f \in Families |-> Empty]
  /\ whole = TRUE /\ faults = 0 /\ crashes = 0

-----------------------------------------------------------------------------
(* Properties *)

\* Whether udp from elsewhere comes to the proxy.
Intercepts(t) == t.rule /\ t.route /\ t.pre /\ Contains(t.rucimp, "tproxy_udp")

Marks(t) == {i \in DOMAIN t.rucimp_self :
               t.rucimp_self[i] # "own" /\ \A j \in 1..i-1 : t.rucimp_self[j] # "own"}

\* What the proxy itself sends is never marked and turned to it again: not
\* between two commands, not with what another process has left, not when one
\* or two commands have failed of themselves.  (Three may be enough: the marks
\* and what jumps to them can outlive the exception before them, and the next
\* run_auto_route then brings its traffic back to the proxy.)
OwnTrafficNeverLoops ==
  \A f \in Families : LET t == tables[f]
                      IN  ~(t.out /\ t.rule /\ t.route /\ t.rucimp # <<>> /\ t.pre /\ Marks(t) # {})

\* The commands that clean up leave nothing of a family, whatever other
\* options, a process that was killed, or a list that failed halfway have put
\* there, unless one of them fails of itself.
ListRestores == phase \in {"cleaning", "dropping"} /\ todo = <<>> /\ whole => tables[fam] = Empty
=============================================================================
