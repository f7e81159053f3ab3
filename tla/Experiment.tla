----------------------------- MODULE Experiment ------------------------------
(***************************************************************************)
(* The ns-3 experiments with MyApp and those on routing, each with the     *)
(* numbers of its main program, and the congestion window of a connection  *)
(* with TcpNewRenoPlus.                                                    *)
(* Times are in units of which Unit make a second, chosen per experiment   *)
(* so that the time a packet takes is a whole number.                      *)
(***************************************************************************)
EXTENDS Routing, NewRenoPlus

\* ScheduleTx: m_packetSize * 8 / bit rate, in seconds.
Interval(size, bitRate, unit) == (size * 8 * unit) \div bitRate

Source(socket, peer, size, packets, bitRate, start, stop, unit) ==
  [socket |-> socket, peer |-> peer, packets |-> packets,
   interval |-> Interval(size, bitRate, unit), start |-> start * unit,
   stop |-> stop * unit]

Steady(apps, end) ==
  [apps |-> apps, script |-> << >>, newRate |-> 0, nets |-> << >>, links |-> << >>,
   end |-> end]

A3q1 == Steady(<<Source("tcp", "inet", 2000, 50000, 2000000, 1, 25, 1000)>>, 25 * 1000)

A3q2(bitRate) ==
  Steady(<<Source("tcp", "inet", 3000, 100000, bitRate, 1, 40, 10000)>>, 40 * 10000)

\* The two UDP applications are given the same socket, and all three as a peer
\* an address without a port.
UDPAppLowRate == Source("udp", "ipv4", 1040, 100000, 250000, 20, 30, 100000)
UDPAppHighRate == Source("udp", "ipv4", 1040, 100000, 500000, 30, 100, 100000)
TCPApp == Source("tcp", "ipv4", 1040, 100000, 250000, 1, 100, 100000)

A3q3 == Steady(<<TCPApp, UDPAppLowRate, UDPAppHighRate>>, 100 * 100000)

A4q1 ==
  Steady(<<Source("tcp1", "inet", 3000, 100000, 1500000, 1, 20, 1000),
           Source("tcp2", "inet", 3000, 100000, 1500000, 5, 25, 1000),
           Source("tcp3", "inet", 3000, 100000, 1500000, 15, 30, 1000)>>, 30 * 1000)

\* app2, the UDP source, is on node 0 and so comes first.
PartA ==
  [apps |-> <<Source("udp", "inet", 1040, 100000, 300000, 30, 100, 30000),
              Source("tcp", "inet", 1040, 100000, 300000, 0, 100, 30000)>>,
   script |-> <<[at |-> 60 * 30000, kind |-> "rate", arg |-> 1]>>,
   newRate |-> Interval(1040, 600000, 30000),
   nets |-> << >>, links |-> << >>,
   end |-> 100 * 30000]

-----------------------------------------------------------------------------
\* The routing experiments, in seconds: when tables are printed and when links
\* are torn down or set up again.  Pings change nothing and are left out.
Prints(times) == [i \in DOMAIN times |-> [at |-> times[i], kind |-> "print", arg |-> 0]]
OnLinks(times, kinds) ==
  [i \in DOMAIN times |-> [at |-> times[i], kind |-> kinds[i], arg |-> i]]

Routed(networks, script, links, end) ==
  [apps |-> << >>, script |-> script, newRate |-> 0, nets |-> networks,
   links |-> links, end |-> end]

Triangle == <<<<"src", "a">>, <<"a", "b">>, <<"b", "c">>, <<"a", "c">>, <<"c", "dst">>>>

LinkAB == Link("a", "b", 2, 1)
LinkAC == Link("a", "c", 3, 2)

A4q2a == Routed(Triangle, Prints(<<0, 10, 50, 100, 500>>), << >>, 501)

A4q2b ==
  Routed(Triangle,
         Prints(<<49, 51, 60, 119, 121, 150, 180>>) \o OnLinks(<<50, 120>>, <<"tear", "tear">>),
         <<LinkAB, LinkAC>>, 200)

A4q2c ==
  Routed(Triangle,
         Prints(<<70, 119, 121, 140, 180, 200>>)
           \o OnLinks(<<50, 50, 120, 120>>, <<"tear", "tear", "recreate", "recreate">>),
         <<LinkAB, LinkAC, LinkAB, LinkAC>>, 201)

LinkBD == Link("b", "d", 3, 2)
LinkCD == Link("c", "d", 3, 1)

PartB ==
  Routed(<<<<"src", "a">>, <<"a", "b">>, <<"a", "c">>, <<"b", "c">>, <<"c", "d">>,
           <<"b", "d">>, <<"d", "dst">>>>,
         Prints(<<29, 79, 149, 280>>)
           \o OnLinks(<<30, 30, 80, 150>>, <<"tear", "tear", "recreate", "recreate">>),
         <<LinkBD, LinkCD, LinkCD, LinkBD>>, 300)

-----------------------------------------------------------------------------
\* Bounds: a4q1 with sources that last seconds at a packet a second, so that
\* the window can be followed at the same time, and one that runs out of
\* packets before its time.
Short ==
  Steady(<<Source("tcp1", "inet", 1, 9, 8, 1, 4, 1), Source("tcp2", "inet", 1, 2, 8, 2, 5, 1)>>, 5)

Experiments ==
  {A3q1, A3q3, A4q1, PartA, Short, A4q2a, A4q2b, A4q2c, PartB}
    \cup {A3q2(mbps * 1000000) : mbps \in {1, 2, 4, 5, 8, 12}}

vars == <<appVars, linkVars, windowVars>>

Init == AppInit(Experiments) /\ RoutingInit /\ WindowInit

\* The connection of the first source is open from its start on.
Followed == experiment = Short /\ running[1]

Next ==
  \/ Simulate /\ UNCHANGED windowVars
  \/ Followed /\ WindowNext /\ UNCHANGED <<appVars, linkVars>>

Spec == Init /\ [][Next]_vars

-----------------------------------------------------------------------------
\* The values of the variables; the clock never runs backwards.
TypeOK ==
  /\ experiment \in Experiments
  /\ AppTypeOK
  /\ cWnd \in Nat /\ ssThresh \in Nat

\* The books of the simulation: one packet of an application at most is under
\* way in the scheduler, and it can be cancelled; a segment fits the window.
BooksConsistent == TypeOK /\ OneSendPending /\ WindowFits

\* A script of link changes does what it is meant to show: the hosts lose their
\* path only with the last link of a router next to them, no link is left with
\* one end down, and every topology is printed before it is gone.
RoutesAsScripted == LinkEndsMatch /\ PathUnlessIsolated /\ EveryPhasePrinted
=============================================================================
