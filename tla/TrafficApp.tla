----------------------------- MODULE TrafficApp ------------------------------
(***************************************************************************)
(* MyApp of the ns-3 experiments (assignments 3 and 4), a source that      *)
(* sends packets at a constant rate from its start to its stop, and of     *)
(* ns-3 what it relies on: the simulator runs events in the order of their *)
(* times and, at equal times, in the order in which they were scheduled; a *)
(* socket takes packets when it is bound, not closed since, and connected; *)
(* Connect fails if the address it is given has no port.                   *)
(*                                                                         *)
(* An application is a record of what Setup, SetStartTime and SetStopTime  *)
(* are given, with of the peer only the type of its address, an experiment *)
(* a record of its applications, in the order in which they are            *)
(* initialised, its script (changes of rate, of links, ..) and its end.    *)
(***************************************************************************)
EXTENDS Integers, Sequences, FiniteSets, Functions

VARIABLES experiment,
          now,        \* Simulator::Now()
          events,     \* what the simulator has yet to run
          nextUid,
          running,    \* m_running of each application
          rate,       \* m_dataRate, as the time one packet takes
          sendEvent,  \* m_sendEvent: its uid, or NoEvent
          sent,       \* m_packetsSent
          refused,    \* packets the socket did not take
          open,       \* sockets bound and not closed since
          connected   \* sockets whose Connect has succeeded

appVars == <<experiment, now, events, nextUid, running, rate, sendEvent, sent,
             refused, open, connected>>

NoEvent == -1
Apps == DOMAIN experiment.apps
App(a) == experiment.apps[a]

\* IsMatchingType: the peer is an InetSocketAddress, not a bare Ipv4Address.
HasPort(a) == App(a).peer = "inet"

\* The app of an event that is not of an application is its argument.
Event(at, uid, kind, a) == [at |-> at, uid |-> uid, kind |-> kind, app |-> a]

\* The event the simulator runs next.
Precedes(e, f) == e.at < f.at \/ (e.at = f.at /\ e.uid < f.uid)
IsNext(e) == e \in events /\ \A f \in events \ {e} : Precedes(e, f)

-----------------------------------------------------------------------------
\* m_packetsSent is counted before it is compared.
Remaining(a, n) == n < App(a).packets

\* SendPacket, and ScheduleTx, which does nothing once the application has
\* stopped, run at the time of event e.
SendPacketNow(e, a, isRunning, sockets) ==
  /\ sent' = [sent EXCEPT ![a] = @ + 1]
  /\ refused' = [refused EXCEPT ![a] =
                   IF App(a).socket \in sockets THEN @ ELSE @ + 1]
  /\ IF isRunning /\ Remaining(a, sent[a] + 1)
     THEN /\ events' = (events \ {e})
                         \cup {Event(e.at + rate[a], nextUid, "send", a)}
          /\ sendEvent' = [sendEvent EXCEPT ![a] = nextUid]
          /\ nextUid' = nextUid + 1
     ELSE /\ events' = events \ {e}
          /\ UNCHANGED <<sendEvent, nextUid>>

\* Bind, or Bind6 for a peer that is no InetSocketAddress, opens the socket in
\* either case.  What Connect returns is not looked at.
Connect(a) == connected \cup (IF HasPort(a) THEN {App(a).socket} ELSE {})

StartApplication(e) ==
  /\ IsNext(e) /\ e.kind = "start"
  /\ now' = e.at
  /\ running' = [running EXCEPT ![e.app] = TRUE]
  /\ open' = open \cup {App(e.app).socket}
  /\ connected' = Connect(e.app)
  /\ SendPacketNow(e, e.app, TRUE, open' \cap connected')
  /\ UNCHANGED <<experiment, rate>>

SendPacket(e) ==
  /\ IsNext(e) /\ e.kind = "send"
  /\ now' = e.at
  /\ SendPacketNow(e, e.app, running[e.app], open \cap connected)
  /\ UNCHANGED <<experiment, running, rate, open, connected>>

\* StopApplication cancels the event if it has not run.  The variant leaves it.
LeftAlone(a) == {}
Cancelled(a) == {e \in events : e.uid = sendEvent[a]}

StopApplication(e) ==
  /\ IsNext(e) /\ e.kind = "stop"
  /\ now' = e.at
  /\ running' = [running EXCEPT ![e.app] = FALSE]
  /\ events' = events \ ({e} \cup Cancelled(e.app))
  /\ open' = open \ {App(e.app).socket}
  /\ UNCHANGED <<experiment, nextUid, rate, sendEvent, sent, refused, connected>>

\* IncRate calls ChangeRate, which leaves the packet already scheduled where it
\* is.  The variant schedules anew without cancelling.
Rescheduled(e, interval) ==
  {Event(e.at + interval, nextUid, "send", e.app)}
NothingScheduled(e, interval) == {}

ChangeRate(e) ==
  /\ IsNext(e) /\ e.kind = "rate"
  /\ now' = e.at
  /\ rate' = [rate EXCEPT ![e.app] = experiment.newRate]
  /\ events' = (events \ {e}) \cup NothingScheduled(e, experiment.newRate)
  /\ UNCHANGED <<experiment, nextUid, running, sendEvent, sent, refused, open,
                 connected>>

\* Simulator::Stop(): whatever is left is not run.
StopSimulation(e) ==
  /\ IsNext(e) /\ e.kind = "end"
  /\ now' = e.at
  /\ events' = {}
  /\ UNCHANGED <<experiment, nextUid, running, rate, sendEvent, sent, refused,
                 open, connected>>

-----------------------------------------------------------------------------
(***************************************************************************)
(* main schedules its script and then the end; Run initialises the         *)
(* applications, which schedules the start and the stop of each.           *)
(***************************************************************************)
InitialEvents(x) ==
  LET n == Len(x.script) IN
  {Event(x.script[i].at, i - 1, x.script[i].kind, x.script[i].arg) : i \in 1 .. n}
    \cup {Event(x.end, n, "end", 0)}
    \cup {Event(x.apps[a].start, n + 2 * a - 1, "start", a) : a \in DOMAIN x.apps}
    \cup {Event(x.apps[a].stop, n + 2 * a, "stop", a) : a \in DOMAIN x.apps}

AppInit(experiments) ==
  /\ experiment \in experiments
  /\ now = 0
  /\ events = InitialEvents(experiment)
  /\ nextUid = Len(experiment.script) + 2 * Len(experiment.apps) + 1
  /\ running = [a \in Apps |-> FALSE]
  /\ rate = [a \in Apps |-> App(a).interval]
  /\ sendEvent = [a \in Apps |-> NoEvent]
  /\ sent = [a \in Apps |-> 0]
  /\ refused = [a \in Apps |-> 0]
  /\ open = {} /\ connected = {}

AppNext ==
  \E e \in events :
    \/ StartApplication(e) \/ SendPacket(e) \/ StopApplication(e)
    \/ ChangeRate(e) \/ StopSimulation(e)

-----------------------------------------------------------------------------
AppTypeOK ==
  /\ now \in 0 .. experiment.end
  /\ \A e \in events : e.at >= now /\ e.uid \in 0 .. (nextUid - 1)
  /\ running \in [Apps -> BOOLEAN]
  /\ sendEvent \in [Apps -> NoEvent .. (nextUid - 1)]
  /\ \A a \in Apps : sent[a] \in 0 .. App(a).packets /\ refused[a] \in 0 .. sent[a]

\* An application has one packet scheduled at most, and it is the one that
\* m_sendEvent, and hence StopApplication, knows of.
OneSendPending ==
  \A e \in events : e.kind = "send" =>
    /\ running[e.app] /\ e.uid = sendEvent[e.app]
    /\ \A f \in events : f.kind = "send" /\ f.app = e.app => f = e

\* No packet to a peer with a port is refused: applications that share a socket
\* take turns, though the one stops, and closes it, at the very time the other
\* starts.  A source whose peer has none sends nothing that is taken.
TakenIfAddressed == \A a \in Apps : refused[a] = IF HasPort(a) THEN 0 ELSE sent[a]

\* Packets an application sends from time s until just before t, one each
\* interval.
Planned(s, t, interval) == IF t <= s THEN 0 ELSE (t - s + interval - 1) \div interval

(***************************************************************************)
(* What an application whose rate is constant promises by its times and    *)
(* its rate: a packet that falls on the very time of the stop is not sent. *)
(* If the rate is changed, the packet scheduled at that time still keeps   *)
(* the old interval.                                                       *)
(***************************************************************************)
Changes == {c \in Range(experiment.script) : c.kind = "rate"}
Until(a) == IF App(a).stop < experiment.end THEN App(a).stop ELSE experiment.end
BeforeChange(a, c) == Planned(App(a).start, c.at, App(a).interval)

Promised(a) ==
  IF \E c \in Changes : c.arg = a
  THEN LET c == CHOOSE x \in Changes : x.arg = a
           k == BeforeChange(a, c)
       IN k + Planned(App(a).start + k * App(a).interval, Until(a), experiment.newRate)
  ELSE Planned(App(a).start, Until(a), App(a).interval)

\* When the simulation has ended, each application has sent what it promised,
\* and the socket has taken all of it, or nothing if the peer has no port.
SentAsPlanned ==
  /\ TakenIfAddressed
  /\ events = {} => \A a \in Apps :
       sent[a] = IF Promised(a) < App(a).packets THEN Promised(a) ELSE App(a).packets
=============================================================================
