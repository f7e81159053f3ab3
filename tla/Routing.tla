------------------------------- MODULE Routing -------------------------------
(***************************************************************************)
(* The routing experiments a4q2a, a4q2b, a4q2c and partb: a network of     *)
(* routers whose links a script tears down and sets up again, naming a     *)
(* link by the number its interface has at either end.  The experiments    *)
(* run on the simulator of TrafficApp; the routing protocol is ns-3's and  *)
(* is left out: what is followed is the topology it has to work with.      *)
(***************************************************************************)
EXTENDS TrafficApp

VARIABLES down,    \* <<node, interface>> pairs that are down
          seen,    \* history: the values of down during which time passed
          printed  \* history: those at which the tables were printed

linkVars == <<down, seen, printed>>

nets == experiment.nets
Nodes == UNION {{nets[k][1], nets[k][2]} : k \in DOMAIN nets}
On(n, k) == n \in {nets[k][1], nets[k][2]}

\* A node's interfaces are numbered in the order of its networks; number 0 is
\* the loopback.  The variant forgets that.
InterfaceFromZero(n, k) == Cardinality({j \in 1 .. (k - 1) : On(n, j)})
Interface(n, k) == Cardinality({j \in 1 .. k : On(n, j)})

\* The ends of network k.
End(k, side) == <<nets[k][side], Interface(nets[k][side], k)>>
Up(k) == End(k, 1) \notin down /\ End(k, 2) \notin down

Link(nodeA, nodeB, interfaceA, interfaceB) ==
  {<<nodeA, interfaceA>>, <<nodeB, interfaceB>>}

-----------------------------------------------------------------------------
OnTime(e, kind) == IsNext(e) /\ e.kind = kind /\ now' = e.at /\ events' = events \ {e}

TearDownLink(e) ==
  /\ OnTime(e, "tear")
  /\ down' = down \cup experiment.links[e.app]
  /\ UNCHANGED printed

RecreateLink(e) ==
  /\ OnTime(e, "recreate")
  /\ down' = down \ experiment.links[e.app]
  /\ UNCHANGED printed

PrintRoutingTables(e) ==
  /\ OnTime(e, "print")
  /\ printed' = printed \cup {down}
  /\ UNCHANGED down

Simulate ==
  /\ \/ \E e \in events :
          /\ TearDownLink(e) \/ RecreateLink(e) \/ PrintRoutingTables(e)
          /\ UNCHANGED <<experiment, nextUid, running, rate, sendEvent, sent,
                         refused, open, connected>>
     \/ AppNext /\ UNCHANGED <<down, printed>>
  /\ seen' = IF now' > now THEN seen \cup {down} ELSE seen

RoutingInit == down = {} /\ seen = {} /\ printed = {}

-----------------------------------------------------------------------------
\* Whatever the script does to links at the same time or one after the other,
\* no network is left with one end up and the other down, which is what a wrong
\* interface number does.
LinkEndsMatch ==
  /\ \A k \in DOMAIN nets : End(k, 1) \in down <=> End(k, 2) \in down
  /\ \A x \in down : \E k \in DOMAIN nets, side \in 1 .. 2 : x = End(k, side)

\* There is a path over networks that are up.
Reaches(n, m) ==
  \A S \in SUBSET Nodes : n \in S /\ m \notin S =>
    \E k \in DOMAIN nets : Up(k) /\ \E x \in S, y \in Nodes \ S : On(x, k) /\ On(y, k)

\* Between routers; the networks of the hosts stay up.
Core(k) == ~On("src", k) /\ ~On("dst", k)
Isolated(n) == \A k \in DOMAIN nets : Core(k) /\ On(n, k) => ~Up(k)
NextTo(host) == {n \in Nodes \ {host} : \E k \in DOMAIN nets : On(n, k) /\ On(host, k)}

\* There is a path between the hosts until a router next to one of them has
\* lost all its links, and as soon as it has one of them again.
PathUnlessIsolated ==
  nets # << >> =>
    (Reaches("src", "dst") <=> \A n \in NextTo("src") \cup NextTo("dst") : ~Isolated(n))

\* Every topology that lasted shows in a print of the tables, though prints and
\* changes are scheduled separately and some at equal times.
EveryPhasePrinted == events = {} /\ nets # << >> => seen \subseteq printed
=============================================================================
