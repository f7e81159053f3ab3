-------------------------- MODULE ExperimentProofs --------------------------
(***************************************************************************)
(* Proofs about the experiments, in five parts.                            *)
(*   - The congestion window, for every segment size, any number of        *)
(*     segments an acknowledgement covers, and any order of losses and     *)
(*     acknowledgements.  The run looks at segments of 10 bytes; in the    *)
(*     experiments they have 536 and more.                                 *)
(*   - The applications, for every list of them, with whatever times,      *)
(*     rates and numbers of packets, that is well timed (WellTimed).       *)
(*   - That the experiments of the repository are well timed.              *)
(*   - The links of any network, and that the scripts name them right.     *)
(*   - The order in which a script runs, what is down and what has been    *)
(*     printed at any time of it, and the paths that are left.             *)
(***************************************************************************)
EXTENDS Experiment, FiniteSetTheorems, TLAPS

WindowTypeOK == cWnd \in Nat /\ ssThresh \in Nat

\* Inductive: a segment fits the window, without a loss the window has not left
\* the range in which Growth dies out, and it is below the initial threshold.
WInv == WindowTypeOK /\ WindowFits /\ SlowStartStalls /\ cWnd < Infinity

\* Integer division without the operator: the quotient, and what is left.
LEMMA Divided ==
  ASSUME NEW n \in Nat, NEW c \in Nat \ {0}
  PROVE  /\ n \div c \in Nat
         /\ (n \div c) * c <= n
<1>1. n \div c \in Nat /\ n % c \in Nat /\ n = (n \div c) * c + (n % c)
  OBVIOUS
<1>2. (n \div c) * c \in Nat
  BY <1>1
<1> QED
  BY <1>1, <1>2

\* Slow start adds at most a segment, and comes to rest at Power + 1.
LEMMA GrowthBounds ==
  ASSUME NEW c \in Nat, c >= SegmentSize
  PROVE  /\ Growth(c) \in 0 .. SegmentSize
         /\ c <= Power + 1 => c + Growth(c) <= Power + 1
         /\ Growth(c) * c <= Power
<1>1. /\ SegmentSize \in Nat /\ SegmentSize > 0 /\ Power \in Nat
      /\ Power <= SegmentSize * SegmentSize
  BY NewRenoPlusAssumption
<1> DEFINE d == Growth(c)
<1>2. d \in Nat /\ d * c <= Power
  BY <1>1, Divided DEF Growth
<1> HIDE DEF d
<1>3. d <= SegmentSize
  <2> SUFFICES ASSUME d > SegmentSize PROVE FALSE
    BY <1>1, <1>2
  <2>1. PICK x \in Nat : d = SegmentSize + 1 + x
    <3>1. d - SegmentSize - 1 \in Nat /\ d = SegmentSize + 1 + (d - SegmentSize - 1)
      BY <1>1, <1>2
    <3> QED
      BY <3>1
  <2>2. PICK y \in Nat : c = SegmentSize + y
    <3>1. c - SegmentSize \in Nat /\ c = SegmentSize + (c - SegmentSize)
      BY <1>1
    <3> QED
      BY <3>1
  <2>3. d * c = SegmentSize * SegmentSize + SegmentSize * y
                  + (1 + x) * SegmentSize + (1 + x) * y
    BY <1>1, <2>1, <2>2
  <2>4. /\ SegmentSize * SegmentSize \in Nat /\ SegmentSize * y \in Nat
        /\ (1 + x) * y \in Nat /\ (1 + x) * SegmentSize \in Nat
        /\ (1 + x) * SegmentSize > 0
    BY <1>1
  <2> QED
    BY <1>1, <1>2, <2>3, <2>4
<1>4. ASSUME c <= Power + 1 PROVE c + d <= Power + 1
  <2>1. CASE d = 0
    BY <1>1, <1>4, <2>1
  <2>2. CASE d > 0
    <3>1. PICK x \in Nat : d = 1 + x
      <4>1. d - 1 \in Nat /\ d = 1 + (d - 1)
        BY <1>2, <2>2
      <4> QED
        BY <4>1
    <3>2. PICK y \in Nat : c = 1 + y
      <4>1. c - 1 \in Nat /\ c = 1 + (c - 1)
        BY <1>1
      <4> QED
        BY <4>1
    <3>3. d * c = 1 + x + y + x * y /\ x * y \in Nat
      BY <3>1, <3>2
    <3> QED
      BY <1>1, <1>2, <3>1, <3>2, <3>3
  <2> QED
    BY <1>2, <2>1, <2>2
<1> QED
  BY <1>1, <1>2, <1>3, <1>4 DEF d

\* What congestion avoidance adds.
LEMMA AvoidanceBounds ==
  ASSUME NEW c \in Nat, NEW n \in Nat
  PROVE  /\ AfterAvoidance(c, n) \in Nat
         /\ c <= AfterAvoidance(c, n)
         /\ 100 * AfterAvoidance(c, n) <= 100 * c + 51 * SegmentSize
<1>1. SegmentSize \in Nat
  BY NewRenoPlusAssumption
<1>2. (51 * SegmentSize) \div 100 \in Nat
  BY <1>1
<1>3. ((51 * SegmentSize) \div 100) * 100 <= 51 * SegmentSize
  BY <1>1
<1> QED
  BY <1>1, <1>2, <1>3 DEF AfterAvoidance

LEMMA Hundredths ==
  ASSUME NEW a \in Nat, NEW c \in Nat, NEW d \in Nat, NEW s \in Nat,
         100 * d <= 49 * s
  PROVE  /\ 100 * a <= 100 * (c + d) + 51 * s => a <= c + s
         /\ 100 * a <= 100 * c + 51 * s => a <= c + s
OBVIOUS

\* What an acknowledgement makes of the window: growth by slow start, and then
\* by avoidance if the threshold is reached, or by avoidance alone.
LEMMA AckCases ==
  ASSUME WindowTypeOK, NEW k \in 1 .. MaxAcked
  PROVE  \/ /\ cWnd < ssThresh /\ cWnd + Growth(cWnd) < ssThresh
            /\ AfterAck(cWnd, k) = cWnd + Growth(cWnd)
         \/ /\ cWnd < ssThresh /\ ~ (cWnd + Growth(cWnd) < ssThresh)
            /\ AfterAck(cWnd, k) = AfterAvoidance(cWnd + Growth(cWnd), k - 1)
         \/ /\ ~ (cWnd < ssThresh)
            /\ AfterAck(cWnd, k) = AfterAvoidance(cWnd, k)
<1>1. k >= 1
  BY NewRenoPlusAssumption
<1> QED
  BY <1>1 DEF AfterAck, InSlowStart, AfterSlowStart, LeftOver

LEMMA AckInv ==
  ASSUME WInv, NEW k \in 1 .. MaxAcked, Ack(k)
  PROVE  WInv'
<1>0. /\ cWnd \in Nat /\ ssThresh \in Nat /\ cWnd >= SegmentSize
      /\ ssThresh >= 2 * SegmentSize /\ WindowTypeOK
      /\ ssThresh = Infinity => cWnd <= Power + 1
  BY DEF WInv, WindowTypeOK, WindowFits, SlowStartStalls
<1>1. /\ SegmentSize \in Nat /\ Power \in Nat /\ MaxWindow \in Nat
      /\ MaxWindow + Power + 2 * SegmentSize < Infinity /\ MaxAcked \in Nat
      /\ SegmentSize > 0
  BY NewRenoPlusAssumption
<1>2. cWnd' = AfterAck(cWnd, k) /\ ssThresh' = ssThresh /\ cWnd <= MaxWindow
  BY DEF Ack
<1>3. /\ Growth(cWnd) \in 0 .. SegmentSize
      /\ cWnd <= Power + 1 => cWnd + Growth(cWnd) <= Power + 1
  BY <1>0, GrowthBounds
<1>4. k \in Nat /\ k - 1 \in Nat
  BY <1>1
<1>5. CASE /\ cWnd < ssThresh /\ cWnd + Growth(cWnd) < ssThresh
           /\ AfterAck(cWnd, k) = cWnd + Growth(cWnd)
  BY <1>0, <1>1, <1>2, <1>3, <1>5
  DEF WInv, WindowTypeOK, WindowFits, SlowStartStalls, Infinity
<1>6. CASE /\ cWnd < ssThresh /\ ~ (cWnd + Growth(cWnd) < ssThresh)
           /\ AfterAck(cWnd, k) = AfterAvoidance(cWnd + Growth(cWnd), k - 1)
  <2>1. ssThresh # Infinity
    BY <1>0, <1>1, <1>2, <1>3, <1>6 DEF Infinity
  <2>2. cWnd + Growth(cWnd) \in Nat
    BY <1>0, <1>1, <1>3
  <2>3. /\ cWnd' \in Nat /\ cWnd + Growth(cWnd) <= cWnd'
        /\ 100 * cWnd' <= 100 * (cWnd + Growth(cWnd)) + 51 * SegmentSize
    BY <1>2, <1>4, <1>6, <2>2, AvoidanceBounds
  <2>4. cWnd' < Infinity
    BY <1>0, <1>1, <1>2, <1>3, <2>3 DEF Infinity
  <2> QED
    BY <1>0, <1>1, <1>2, <1>3, <2>1, <2>3, <2>4
    DEF WInv, WindowTypeOK, WindowFits, SlowStartStalls
<1>7. CASE ~ (cWnd < ssThresh) /\ AfterAck(cWnd, k) = AfterAvoidance(cWnd, k)
  <2>1. ssThresh # Infinity
    BY <1>0, <1>1, <1>2, <1>7 DEF Infinity
  <2>2. /\ cWnd' \in Nat /\ cWnd <= cWnd'
        /\ 100 * cWnd' <= 100 * cWnd + 51 * SegmentSize
    BY <1>0, <1>2, <1>4, <1>7, AvoidanceBounds
  <2>3. cWnd' < Infinity
    BY <1>0, <1>1, <1>2, <2>2 DEF Infinity
  <2> QED
    BY <1>0, <1>1, <1>2, <2>1, <2>2, <2>3
    DEF WInv, WindowTypeOK, WindowFits, SlowStartStalls
<1> QED
  BY <1>0, <1>5, <1>6, <1>7, AckCases

LEMMA LostInv ==
  ASSUME WInv, NEW b \in 0 .. cWnd, Lost(b)
  PROVE  WInv'
<1>1. /\ SegmentSize \in Nat /\ SegmentSize > 0 /\ Power \in Nat
      /\ Power >= SegmentSize /\ MaxWindow \in Nat
      /\ MaxWindow + Power + 2 * SegmentSize < Infinity
  BY NewRenoPlusAssumption
<1>2. b \in Nat /\ b < Infinity /\ b \div 2 \in Nat /\ b \div 2 < Infinity
  <2>1. b \in Nat /\ b < Infinity
    BY DEF WInv, WindowTypeOK, Infinity
  <2> QED
    BY <2>1 DEF Infinity
<1>3. ssThresh' \in Nat /\ ssThresh' >= 2 * SegmentSize /\ ssThresh' < Infinity
  BY <1>1, <1>2 DEF Lost, GetSsThresh, Larger, Infinity
<1>4. cWnd' = ssThresh' \/ cWnd' = SegmentSize
  BY DEF Lost
<1> QED
  BY <1>1, <1>3, <1>4
  DEF WInv, WindowTypeOK, WindowFits, SlowStartStalls, Infinity

LEMMA WindowInvariant == WindowSpec => []WInv
<1>1. WindowInit => WInv
  BY NewRenoPlusAssumption
  DEF WindowInit, WInv, WindowTypeOK, WindowFits, SlowStartStalls, Infinity
<1>2. WInv /\ [WindowNext]_windowVars => WInv'
  <2> SUFFICES ASSUME WInv, [WindowNext]_windowVars PROVE WInv'
    OBVIOUS
  <2>1. CASE UNCHANGED windowVars
    BY <2>1 DEF windowVars, WInv, WindowTypeOK, WindowFits, SlowStartStalls
  <2> QED
    BY <2>1, AckInv, LostInv DEF WindowNext
<1> QED
  BY <1>1, <1>2, PTL DEF WindowSpec

-----------------------------------------------------------------------------
\* A segment always fits the window, and the threshold is two of them at least:
\* no sequence of losses shuts the connection.
THEOREM SegmentAlwaysFits == WindowSpec => []WindowFits
<1>1. WInv => WindowFits
  BY DEF WInv
<1> QED
  BY <1>1, WindowInvariant, PTL

\* Without a loss the window never exceeds Power + 1, however many segments are
\* acknowledged: slow start stalls at about SegmentSize^1.91.
THEOREM SlowStartDiesOut == WindowSpec => []SlowStartStalls
<1>1. WInv => SlowStartStalls
  BY DEF WInv
<1> QED
  BY <1>1, WindowInvariant, PTL

\* The window of an experiment's connection is such a window: the experiment
\* decides when it moves, and does not touch it otherwise.
THEOREM ExperimentsHaveIt == Spec => WindowSpec
<1>1. Init => WindowInit
  BY DEF Init
<1>2. [Next]_vars => [WindowNext]_windowVars
  BY DEF Next, vars, windowVars
<1> QED
  BY <1>1, <1>2, PTL DEF Spec, WindowSpec

PowerModerate == 10000 * Power <= 7399 * (SegmentSize * SegmentSize)

\* No acknowledgement adds more than one segment, for every segment size whose
\* Power is at most 0.7399 of its square, as it is from 29 bytes on.  Above that
\* an acknowledgement that crosses the threshold could add 1.51 segments.
THEOREM GrowsByASegment ==
  ASSUME PowerModerate
  PROVE  WindowSpec => AtMostOneSegment
<1>1. ASSUME WInv, NEW k \in 1 .. MaxAcked, Ack(k)
      PROVE  cWnd' <= cWnd + SegmentSize
  <2>1. /\ SegmentSize \in Nat /\ SegmentSize > 0 /\ Power \in Nat /\ MaxAcked \in Nat
    BY NewRenoPlusAssumption
  <2>2. /\ cWnd \in Nat /\ ssThresh \in Nat /\ cWnd >= SegmentSize
        /\ ssThresh >= 2 * SegmentSize /\ WindowTypeOK
    BY <1>1 DEF WInv, WindowTypeOK, WindowFits
  <2>3. /\ Growth(cWnd) \in 0 .. SegmentSize /\ Growth(cWnd) * cWnd <= Power
    BY <2>2, GrowthBounds
  <2>4. cWnd' = AfterAck(cWnd, k) /\ k \in Nat /\ k - 1 \in Nat
    BY <1>1, <2>1 DEF Ack
  <2>5. CASE AfterAck(cWnd, k) = cWnd + Growth(cWnd)
    BY <2>1, <2>2, <2>3, <2>4, <2>5
  <2>6. CASE AfterAck(cWnd, k) = AfterAvoidance(cWnd, k)
    <3>1. cWnd' \in Nat /\ 100 * cWnd' <= 100 * cWnd + 51 * SegmentSize
      BY <2>2, <2>4, <2>6, AvoidanceBounds
    <3>2. 100 * 0 <= 49 * SegmentSize
      BY <2>1
    <3> QED
      BY <2>1, <2>2, <3>1, <3>2, Hundredths
  <2>7. CASE /\ ~ (cWnd + Growth(cWnd) < ssThresh)
             /\ AfterAck(cWnd, k) = AfterAvoidance(cWnd + Growth(cWnd), k - 1)
    <3> DEFINE d == Growth(cWnd)
               s == SegmentSize
    <3>1. d \in Nat /\ d <= s /\ d * cWnd <= Power /\ s \in Nat /\ s > 0
      BY <2>1, <2>3
    <3>2. cWnd + d \in Nat /\ cWnd + d >= 2 * s
      BY <2>2, <2>7, <3>1
    <3>3. cWnd' \in Nat /\ 100 * cWnd' <= 100 * (cWnd + d) + 51 * s
      BY <2>4, <2>7, <3>2, AvoidanceBounds
    <3> HIDE DEF d, s
    <3>4. 100 * d <= 49 * s
      <4> SUFFICES ASSUME 100 * d > 49 * s PROVE FALSE
        BY <3>1
      <4>1. PICK u \in Nat : u = s - d
        BY <3>1
      <4>2. cWnd >= s + u
        BY <2>2, <3>1, <3>2, <4>1
      <4>3. PICK v \in Nat : cWnd = s + u + v
        <5>1. cWnd - (s + u) \in Nat /\ cWnd = s + u + (cWnd - (s + u))
          BY <2>2, <3>1, <4>1, <4>2
        <5> QED
          BY <5>1
      <4>4. d = s - u /\ s - u \in Nat
        BY <3>1, <4>1
      <4>5. d * cWnd = d * (s + u) + d * v /\ d * v \in Nat
        BY <3>1, <4>1, <4>3
      <4>6. d * (s + u) = s * s - u * u
        BY <3>1, <4>1, <4>4
      <4>7. PICK w \in Nat : 51 * s = 100 * u + w /\ w > 0
        <5>1. 100 * u < 51 * s
          BY <3>1, <4>4
        <5>2. 51 * s - 100 * u \in Nat /\ 51 * s = 100 * u + (51 * s - 100 * u)
          BY <3>1, <4>1, <5>1
        <5> QED
          BY <4>1, <5>1, <5>2
      <4>8. (51 * s) * (51 * s) = (100 * u) * (100 * u) + 2 * (100 * u) * w + w * w
        BY <3>1, <4>1, <4>7
      <4>9. 2601 * (s * s) = 10000 * (u * u) + 200 * (u * w) + w * w
        <5>1. (51 * s) * (51 * s) = 2601 * (s * s)
          BY <3>1
        <5>2. (100 * u) * (100 * u) = 10000 * (u * u)
          BY <4>1
        <5>3. 2 * (100 * u) * w = 200 * (u * w)
          BY <4>1, <4>7
        <5> QED
          BY <4>8, <5>1, <5>2, <5>3
      <4>10. w * w > 0 /\ u * w \in Nat /\ u * u \in Nat /\ s * s \in Nat
             /\ w * w \in Nat
        BY <3>1, <4>1, <4>7
      <4>11. 10000 * Power <= 7399 * (s * s)
        BY DEF s, PowerModerate
      <4> QED
        BY <2>1, <3>1, <4>5, <4>6, <4>9, <4>10, <4>11
    <3>5. cWnd' <= cWnd + s
      BY <2>2, <3>1, <3>3, <3>4, Hundredths
    <3> QED
      BY <3>5 DEF s
  <2> QED
    BY <2>2, <2>5, <2>6, <2>7, AckCases
<1>2. ASSUME WInv, NEW b \in 0 .. cWnd, Lost(b)
      PROVE  ssThresh' = ssThresh => cWnd' <= cWnd + SegmentSize
  <2>1. CASE cWnd' = SegmentSize
    BY <1>2, <2>1, NewRenoPlusAssumption DEF WInv, WindowTypeOK, WindowFits
  <2>2. CASE cWnd' = ssThresh' /\ cWnd' # SegmentSize
    <3>1. /\ SegmentSize \in Nat /\ cWnd \in Nat /\ cWnd >= SegmentSize
          /\ b \in Nat /\ b <= cWnd
      BY <1>2, NewRenoPlusAssumption DEF WInv, WindowTypeOK, WindowFits
    <3>2. b \div 2 <= b /\ b \div 2 \in Nat
      BY <3>1
    <3>3. ssThresh' = Larger(2 * SegmentSize, b \div 2)
      BY <1>2 DEF Lost, GetSsThresh
    <3> QED
      BY <2>2, <3>1, <3>2, <3>3 DEF Larger
  <2> QED
    BY <1>2, <2>1, <2>2 DEF Lost
<1>3. WInv /\ [WindowNext]_windowVars =>
        [cWnd' <= cWnd + SegmentSize \/ ssThresh' # ssThresh]_windowVars
  BY <1>1, <1>2 DEF WindowNext
<1> QED
  BY <1>3, WindowInvariant, PTL DEF WindowSpec, AtMostOneSegment

(***************************************************************************)
(* Which experiments the results are about.                                *)
(***************************************************************************)
Entry == [at : Nat, kind : {"rate", "tear", "recreate", "print"}, arg : Nat]

\* Entry i of the script of x changes the rate of application a.
Changing(x, i, a) ==
  i \in DOMAIN x.script /\ x.script[i].kind = "rate" /\ x.script[i].arg = a

\* Application a is over before b begins; at equal times the order of the list
\* decides.
Before(x, a, b) ==
  \/ x.apps[a].stop < x.apps[b].start
  \/ x.apps[a].stop = x.apps[b].start /\ a < b

\* Applications send for some time, those with a common socket take turns and
\* have peers of the same type, and a rate is changed once at most, before its
\* application or the simulation ends.
WellTimed(x) ==
  /\ x.script \in Seq(Entry) /\ x.end \in Nat
  /\ Len(x.apps) \in Nat /\ DOMAIN x.apps = 1 .. Len(x.apps)
  /\ \A a \in DOMAIN x.apps :
       /\ x.apps[a].packets \in Nat \ {0} /\ x.apps[a].interval \in Nat \ {0}
       /\ x.apps[a].start \in Nat /\ x.apps[a].stop \in Nat
       /\ x.apps[a].start < x.apps[a].stop
  /\ \A a, b \in DOMAIN x.apps :
       a # b /\ x.apps[a].socket = x.apps[b].socket =>
         x.apps[a].peer = x.apps[b].peer /\ (Before(x, a, b) \/ Before(x, b, a))
  /\ \A i \in DOMAIN x.script : x.script[i].kind = "rate" =>
       /\ x.script[i].arg \in DOMAIN x.apps /\ x.newRate \in Nat \ {0}
       /\ x.script[i].at <= x.apps[x.script[i].arg].stop /\ x.script[i].at <= x.end
  /\ \A a \in DOMAIN x.apps, i, j \in DOMAIN x.script :
       Changing(x, i, a) /\ Changing(x, j, a) => i = j

\* The events there are from the start.
FirstUid(x) == Len(x.script) + 2 * Len(x.apps) + 1
ScriptEvent(x, i) == Event(x.script[i].at, i - 1, x.script[i].kind, x.script[i].arg)
EndEvent(x) == Event(x.end, Len(x.script), "end", 0)
StartEvent(x, a) == Event(x.apps[a].start, Len(x.script) + 2 * a - 1, "start", a)
StopEvent(x, a) == Event(x.apps[a].stop, Len(x.script) + 2 * a, "stop", a)

\* Packets before the change of rate in entry i.
SentBefore(x, i, a) == Planned(x.apps[a].start, x.script[i].at, x.apps[a].interval)

\* When application a sends packet m, counted from 0.
TimeOf(x, a, m) ==
  IF \E i \in DOMAIN x.script : Changing(x, i, a)
  THEN LET i == CHOOSE j \in DOMAIN x.script : Changing(x, j, a)
           k == SentBefore(x, i, a)
       IN IF m <= k THEN x.apps[a].start + m * x.apps[a].interval
          ELSE x.apps[a].start + k * x.apps[a].interval + (m - k) * x.newRate
  ELSE x.apps[a].start + m * x.apps[a].interval

EndOf(x, a) == IF x.apps[a].stop < x.end THEN x.apps[a].stop ELSE x.end

(***************************************************************************)
(* The inductive invariant.                                                *)
(***************************************************************************)
PacketEvent(a) == Event(TimeOf(experiment, a, sent[a]), sendEvent[a], "send", a)

\* Nothing but this is ever scheduled.
KnownEvent(e) ==
  \/ \E i \in DOMAIN experiment.script : e = ScriptEvent(experiment, i)
  \/ e = EndEvent(experiment)
  \/ \E a \in Apps : e = StartEvent(experiment, a) \/ e = StopEvent(experiment, a)
  \/ \E a \in Apps : /\ e = PacketEvent(a) /\ running[a]
                     /\ sent[a] < App(a).packets /\ sendEvent[a] # NoEvent

AllSent(a) ==
  sent[a] = App(a).packets \/ TimeOf(experiment, a, sent[a]) >= EndOf(experiment, a)

Waiting(a) ==
  /\ StartEvent(experiment, a) \in events /\ StopEvent(experiment, a) \in events
  /\ ~running[a] /\ sent[a] = 0
Active(a) ==
  /\ StartEvent(experiment, a) \notin events /\ StopEvent(experiment, a) \in events
  /\ running[a]
  /\ sent[a] < App(a).packets => PacketEvent(a) \in events
Stopped(a) ==
  /\ StartEvent(experiment, a) \notin events /\ StopEvent(experiment, a) \notin events
  /\ ~running[a] /\ AllSent(a)

Refused(a) == IF HasPort(a) THEN 0 ELSE sent[a]

\* An application is before its start, between, or after its stop, and has sent
\* its packets in time, on a connected socket if its peer has a port.
AppBooks(a) ==
  /\ sent[a] \in 0 .. App(a).packets /\ refused[a] = Refused(a)
  /\ sendEvent[a] \in {NoEvent} \cup (FirstUid(experiment) .. (nextUid - 1))
  /\ sent[a] > 0 => TimeOf(experiment, a, sent[a] - 1) < EndOf(experiment, a)
  /\ running[a] => /\ sent[a] > 0 /\ App(a).socket \in open
                   /\ HasPort(a) => App(a).socket \in connected
  /\ IF events = {} THEN AllSent(a) ELSE Waiting(a) \/ Active(a) \/ Stopped(a)

\* Before its rate is changed, an application sends at the old one; what it has
\* sent then, it has sent before, and what it has not, it sends after.
RateBooks(i) ==
  LET a == experiment.script[i].arg
      at == experiment.script[i].at
  IN IF ScriptEvent(experiment, i) \in events
     THEN /\ rate[a] = App(a).interval
          /\ sent[a] > 0 => TimeOf(experiment, a, sent[a] - 1) < at
     ELSE /\ rate[a] = experiment.newRate
          /\ sent[a] < App(a).packets => TimeOf(experiment, a, sent[a]) >= at

AInv ==
  /\ WellTimed(experiment)
  /\ now \in 0 .. experiment.end /\ nextUid \in Nat /\ nextUid >= FirstUid(experiment)
  /\ running \in [Apps -> BOOLEAN] /\ rate \in [Apps -> Nat] /\ sendEvent \in [Apps -> Int]
  /\ sent \in [Apps -> Nat] /\ refused \in [Apps -> Nat]
  /\ \A e \in events : e.at >= now /\ KnownEvent(e)
  /\ events # {} => EndEvent(experiment) \in events
  /\ \A a \in Apps : AppBooks(a) /\ (App(a).socket \in connected => HasPort(a))
  /\ \A a, b \in Apps : a # b /\ sendEvent[a] # NoEvent => sendEvent[a] # sendEvent[b]
  /\ events # {} => \A i \in DOMAIN experiment.script :
       experiment.script[i].kind = "rate" => RateBooks(i)
  /\ events # {} => \A a \in Apps :
       (\A i \in DOMAIN experiment.script : ~Changing(experiment, i, a))
       => rate[a] = App(a).interval
  /\ \A a, b \in Apps :
       /\ a # b /\ App(a).socket = App(b).socket /\ Before(experiment, b, a) /\ running[a]
       => StopEvent(experiment, b) \notin events

-----------------------------------------------------------------------------
(***************************************************************************)
(* When packets are sent.                                                  *)
(***************************************************************************)
LEMMA Multiples ==
  ASSUME NEW a \in Nat, NEW b \in Nat, NEW d \in Nat, a <= b
  PROVE  a * d \in Nat /\ a * d <= b * d
<1>1. PICK z \in Nat : b = a + z
  <2>1. b - a \in Nat /\ b = a + (b - a)
    OBVIOUS
  <2> QED
    BY <2>1
<1>2. b * d = a * d + z * d /\ z * d \in Nat /\ a * d \in Nat
  BY <1>1
<1> QED
  BY <1>2

\* Planned counts the packets that are sent from s on, one every d, before t.
LEMMA PlannedCount ==
  ASSUME NEW s \in Nat, NEW t \in Nat, NEW d \in Nat \ {0}
  PROVE  /\ Planned(s, t, d) \in Nat
         /\ \A m \in Nat : m < Planned(s, t, d) <=> s + m * d < t
<1>1. CASE t <= s
  <2>1. \A m \in Nat : m * d \in Nat
    OBVIOUS
  <2> QED
    BY <1>1, <2>1 DEF Planned
<1>2. CASE ~ (t <= s)
  <2> DEFINE u == t - s
             q == (u + d - 1) \div d
  <2>1. u \in Nat /\ u > 0 /\ u + d - 1 \in Nat /\ Planned(s, t, d) = q
    BY <1>2 DEF Planned
  <2>2. q \in Nat /\ q * d <= u + d - 1 /\ u + d - 1 < q * d + d
    <3> DEFINE n == u + d - 1
    <3>1. n \in Nat
      BY <2>1
    <3> HIDE DEF n
    <3>2. n \div d \in Nat /\ d * (n \div d) <= n /\ n < d * (n \div d) + d
      BY <3>1
    <3>3. d * (n \div d) = (n \div d) * d
      BY <3>2
    <3> QED
      BY <3>2, <3>3 DEF n
  <2> HIDE DEF q
  <2>3. ASSUME NEW m \in Nat PROVE m < q <=> s + m * d < t
    <3>1. m * d \in Nat /\ q * d \in Nat /\ (m + 1) * d = m * d + d
      BY <2>2
    <3>2. CASE m < q
      <4>1. (m + 1) * d <= q * d
        BY <2>2, <3>2, Multiples
      <4> QED
        BY <2>1, <2>2, <3>1, <3>2, <4>1
    <3>3. CASE ~ (m < q)
      <4>1. q * d <= m * d
        BY <2>2, <3>3, Multiples
      <4> QED
        BY <2>1, <2>2, <3>1, <3>3, <4>1
    <3> QED
      BY <3>2, <3>3
  <2> QED
    BY <2>1, <2>2, <2>3
<1> QED
  BY <1>1, <1>2

\* The times of an application whose rate changes: k is the first packet at the
\* new one.
LEMMA TimeWithChange ==
  ASSUME NEW x, WellTimed(x), NEW a \in DOMAIN x.apps,
         NEW i \in DOMAIN x.script, Changing(x, i, a)
  PROVE  LET k == SentBefore(x, i, a)
             base == x.apps[a].start + k * x.apps[a].interval
         IN /\ k \in Nat /\ base \in Nat /\ x.script[i].at \in Nat
            /\ \A m \in Nat :
                 m < k <=> x.apps[a].start + m * x.apps[a].interval < x.script[i].at
            /\ \A m \in Nat :
                 m <= k => TimeOf(x, a, m) = x.apps[a].start + m * x.apps[a].interval
            /\ \A m \in Nat : m >= k => TimeOf(x, a, m) = base + (m - k) * x.newRate
<1> DEFINE k == SentBefore(x, i, a)
           base == x.apps[a].start + k * x.apps[a].interval
<1>1. /\ x.apps[a].start \in Nat /\ x.apps[a].interval \in Nat \ {0}
      /\ x.newRate \in Nat \ {0}
  BY DEF WellTimed, Changing
<1>2. x.script[i].at \in Nat
  <2>1. x.script \in Seq(Entry)
    BY DEF WellTimed
  <2>2. x.script[i] \in Entry
    BY <2>1
  <2> QED
    BY <2>2 DEF Entry
<1>3. /\ k \in Nat
      /\ \A m \in Nat :
                 m < k <=> x.apps[a].start + m * x.apps[a].interval < x.script[i].at
  BY <1>1, <1>2, PlannedCount DEF SentBefore
<1>4. base \in Nat
  <2>1. k \in Nat
    BY <1>3
  <2> HIDE DEF k
  <2>2. k * x.apps[a].interval \in Nat
    BY <1>1, <2>1
  <2> QED
    BY <1>1, <2>2
<1>5. (CHOOSE j \in DOMAIN x.script : Changing(x, j, a)) = i
  BY DEF WellTimed
<1>6. \A m : TimeOf(x, a, m) = IF m <= k THEN x.apps[a].start + m * x.apps[a].interval
                               ELSE base + (m - k) * x.newRate
  BY <1>5 DEF TimeOf
<1>7. ASSUME NEW m \in Nat, m >= k PROVE TimeOf(x, a, m) = base + (m - k) * x.newRate
  <2>1. CASE m = k
    <3>1. (m - k) * x.newRate = 0
      BY <1>1, <1>3, <2>1
    <3>2. TimeOf(x, a, m) = base
      BY <1>3, <1>6, <2>1
    <3> HIDE DEF base
    <3> QED
      BY <1>4, <3>1, <3>2
  <2>2. CASE m # k
    BY <1>3, <1>6, <1>7, <2>2
  <2> QED
    BY <2>1, <2>2
<1> HIDE DEF base
<1>8. \A m \in Nat :
                 m <= k => TimeOf(x, a, m) = x.apps[a].start + m * x.apps[a].interval
  BY <1>6
<1> QED
  BY <1>2, <1>3, <1>4, <1>7, <1>8 DEF base

\* What there is to know about the times: the first packet is sent at the start,
\* and each of the others an interval after the one before it, which is the old
\* one if that was before the change.
LEMMA TimeFacts ==
  ASSUME NEW x, WellTimed(x), NEW a \in DOMAIN x.apps
  PROVE  /\ \A m \in Nat : TimeOf(x, a, m) \in Nat
         /\ TimeOf(x, a, 0) = x.apps[a].start
         /\ \A i \in DOMAIN x.script : Changing(x, i, a) => \A m \in Nat :
              TimeOf(x, a, m + 1) = TimeOf(x, a, m) +
                (IF TimeOf(x, a, m) < x.script[i].at THEN x.apps[a].interval ELSE x.newRate)
         /\ (\A i \in DOMAIN x.script : ~Changing(x, i, a)) => \A m \in Nat :
              TimeOf(x, a, m + 1) = TimeOf(x, a, m) + x.apps[a].interval
<1>1. x.apps[a].start \in Nat /\ x.apps[a].interval \in Nat \ {0}
  BY DEF WellTimed
<1> DEFINE s == x.apps[a].start
           d == x.apps[a].interval
<1>2. CASE \A i \in DOMAIN x.script : ~Changing(x, i, a)
  <2>1. \A m : TimeOf(x, a, m) = s + m * d
    BY <1>2 DEF TimeOf
  <2>2. s \in Nat /\ d \in Nat
    BY <1>1
  <2> HIDE DEF s, d
  <2>3. \A m \in Nat : m * d \in Nat /\ (m + 1) * d = m * d + d /\ 0 * d = 0
    BY <2>2
  <2>4. \A m \in Nat : TimeOf(x, a, m) \in Nat /\ TimeOf(x, a, m + 1) = TimeOf(x, a, m) + d
    BY <2>1, <2>2, <2>3
  <2>5. TimeOf(x, a, 0) = s
    BY <2>1, <2>2, <2>3
  <2> QED
    BY <1>2, <2>4, <2>5 DEF s, d
<1>3. ASSUME NEW i \in DOMAIN x.script, Changing(x, i, a)
      PROVE  /\ \A m \in Nat : TimeOf(x, a, m) \in Nat
             /\ TimeOf(x, a, 0) = s
             /\ \A m \in Nat : TimeOf(x, a, m + 1) = TimeOf(x, a, m) +
                   (IF TimeOf(x, a, m) < x.script[i].at THEN d ELSE x.newRate)
  <2> DEFINE k == SentBefore(x, i, a)
             base == s + k * d
             r == x.newRate
             at == x.script[i].at
  <2>1. s \in Nat /\ d \in Nat \ {0} /\ r \in Nat \ {0}
    BY <1>1, <1>3 DEF WellTimed, Changing
  <2>2. /\ k \in Nat /\ base \in Nat /\ at \in Nat
        /\ \A m \in Nat : m < k <=> s + m * d < at
        /\ \A m \in Nat : m <= k => TimeOf(x, a, m) = s + m * d
        /\ \A m \in Nat : m >= k => TimeOf(x, a, m) = base + (m - k) * r
    BY <1>3, TimeWithChange
  <2>3. ~ (base < at)
    BY <2>2
  <2> HIDE DEF s, d, k, base, r, at
  <2>4. \A m \in Nat : m * d \in Nat /\ (m + 1) * d = m * d + d /\ 0 * d = 0
    BY <2>1
  <2>5. \A m \in Nat : m >= k => (m - k) * r \in Nat /\ ((m + 1) - k) * r = (m - k) * r + r
    BY <2>1, <2>2
  <2>6. ASSUME NEW m \in Nat
        PROVE  /\ TimeOf(x, a, m) \in Nat
               /\ TimeOf(x, a, m + 1) = TimeOf(x, a, m) +
                    (IF TimeOf(x, a, m) < at THEN d ELSE r)
    <3>1. CASE m < k
      <4>1. TimeOf(x, a, m) = s + m * d /\ TimeOf(x, a, m + 1) = s + (m + 1) * d
        BY <2>2, <3>1
      <4>2. s + m * d < at
        BY <2>2, <3>1
      <4> QED
        BY <2>1, <2>4, <4>1, <4>2
    <3>2. CASE m >= k
      <4>1. /\ TimeOf(x, a, m) = base + (m - k) * r
            /\ TimeOf(x, a, m + 1) = base + ((m + 1) - k) * r
        BY <2>2, <3>2
      <4>2. (m - k) * r \in Nat /\ ((m + 1) - k) * r = (m - k) * r + r
        BY <2>5, <3>2
      <4>3. base \in Nat /\ at \in Nat /\ r \in Nat /\ ~ (base < at)
        BY <2>1, <2>2, <2>3
      <4> DEFINE z == (m - k) * r
                 y == ((m + 1) - k) * r
      <4>4. z \in Nat /\ y = z + r
                      /\ TimeOf(x, a, m) = base + z /\ TimeOf(x, a, m + 1) = base + y
        BY <4>1, <4>2
      <4> HIDE DEF z, y
      <4> QED
        BY <4>3, <4>4
    <3>3. m < k \/ m >= k
      BY <2>2
    <3> QED
      BY <3>1, <3>2, <3>3
  <2>7. TimeOf(x, a, 0) = s
    BY <2>1, <2>2, <2>4
  <2> QED
    BY <2>6, <2>7 DEF s, d, r, at
<1>4. ASSUME NEW i \in DOMAIN x.script, Changing(x, i, a)
      PROVE  ~ \A j \in DOMAIN x.script : ~Changing(x, j, a)
  BY <1>4
<1> QED
  BY <1>2, <1>3, <1>4

\* What an application promises is the number of packets whose times come
\* before its end.
LEMMA PromisedTime ==
  ASSUME WellTimed(experiment), NEW a \in Apps
  PROVE  /\ Promised(a) \in Nat
         /\ \A m \in Nat :
              m < Promised(a) <=> TimeOf(experiment, a, m) < EndOf(experiment, a)
<1> DEFINE x == experiment
           s == App(a).start
           d == App(a).interval
           u == Until(a)
<1>1. /\ a \in DOMAIN x.apps /\ x.apps[a] = App(a) /\ s \in Nat /\ d \in Nat \ {0}
      /\ u \in Nat /\ u = EndOf(x, a)
  BY DEF WellTimed, Apps, App, Until, EndOf
<1>2. CASE \A i \in DOMAIN x.script : ~Changing(x, i, a)
  <2>1. ~ \E c \in Changes : c.arg = a
    BY <1>2 DEF Changes, Changing, Range
  <2>2. Promised(a) = Planned(s, u, d)
    BY <2>1 DEF Promised
  <2>3. \A m : TimeOf(x, a, m) = s + m * d
    BY <1>2 DEF TimeOf, App
  <2> QED
    BY <1>1, <2>2, <2>3, PlannedCount
<1>3. ASSUME NEW i \in DOMAIN x.script, Changing(x, i, a)
      PROVE  /\ Promised(a) \in Nat
             /\ \A m \in Nat : m < Promised(a) <=> TimeOf(x, a, m) < u
  <2> DEFINE k == SentBefore(x, i, a)
             base == s + k * d
             r == x.newRate
             at == x.script[i].at
             p == Planned(base, u, r)
  <2>1. \A j \in DOMAIN x.script : Changing(x, j, a) => j = i
    BY <1>1, <1>3 DEF WellTimed
  <2>2. x.script[i] \in Changes /\ x.script[i].arg = a
    BY <1>3 DEF Changes, Changing, Range
  <2>3. \A c \in Changes : c.arg = a => c = x.script[i]
    BY <2>1 DEF Changes, Changing, Range
  <2>4. (CHOOSE c \in Changes : c.arg = a) = x.script[i]
    BY <2>2, <2>3
  <2>5. Promised(a) = k + p
    BY <2>2, <2>4 DEF Promised, BeforeChange, SentBefore, App
  <2>6. /\ k \in Nat /\ base \in Nat /\ at \in Nat
        /\ \A m \in Nat : m < k <=> s + m * d < at
        /\ \A m \in Nat : m <= k => TimeOf(x, a, m) = s + m * d
        /\ \A m \in Nat : m >= k => TimeOf(x, a, m) = base + (m - k) * r
    BY <1>1, <1>3, TimeWithChange
  <2>7. r \in Nat \ {0} /\ at <= u
    BY <1>3 DEF WellTimed, Changing, Until, App
  <2> HIDE DEF k, base, r, at, u, s, d, x
  <2>8. p \in Nat /\ \A m \in Nat : m < p <=> base + m * r < u
    BY <1>1, <2>6, <2>7, PlannedCount
  <2> HIDE DEF p
  <2>9. ASSUME NEW m \in Nat PROVE m < k + p <=> TimeOf(x, a, m) < u
    <3>1. CASE m < k
      <4>1. TimeOf(x, a, m) = s + m * d /\ s + m * d < at /\ m * d \in Nat
        BY <1>1, <2>6, <3>1
      <4> QED
        BY <1>1, <2>6, <2>7, <2>8, <3>1, <4>1
    <3>2. CASE ~ (m < k)
      <4>1. m - k \in Nat /\ TimeOf(x, a, m) = base + (m - k) * r
        BY <2>6, <3>2
      <4>2. m - k < p <=> base + (m - k) * r < u
        BY <2>8, <4>1
      <4>3. m < k + p <=> m - k < p
        BY <2>6, <2>8, <3>2
      <4> QED
        BY <4>1, <4>2, <4>3
    <3> QED
      BY <3>1, <3>2
  <2> QED
    BY <2>5, <2>6, <2>8, <2>9
<1> QED
  BY <1>1, <1>2, <1>3

-----------------------------------------------------------------------------
(***************************************************************************)
(* The events.                                                             *)
(***************************************************************************)
\* The constants of an experiment in one place.
LEMMA WellTimedFacts ==
  ASSUME NEW x, WellTimed(x)
  PROVE  /\ Len(x.script) \in Nat /\ DOMAIN x.script = 1 .. Len(x.script)
         /\ Len(x.apps) \in Nat /\ DOMAIN x.apps = 1 .. Len(x.apps) /\ x.end \in Nat
         /\ FirstUid(x) = Len(x.script) + 2 * Len(x.apps) + 1 /\ FirstUid(x) \in Nat
         /\ \A i \in DOMAIN x.script :
              /\ x.script[i].at \in Nat
              /\ x.script[i].kind \in {"rate", "tear", "recreate", "print"}
         /\ \A a \in DOMAIN x.apps :
              /\ x.apps[a].packets \in Nat /\ x.apps[a].packets > 0
              /\ x.apps[a].interval \in Nat
              /\ x.apps[a].start \in Nat /\ x.apps[a].stop \in Nat
              /\ x.apps[a].start < x.apps[a].stop
              /\ EndOf(x, a) \in Nat /\ EndOf(x, a) <= x.apps[a].stop /\ EndOf(x, a) <= x.end
              /\ \A t \in Nat : t < x.apps[a].stop /\ t < x.end => t < EndOf(x, a)
<1>1. x.script \in Seq(Entry) /\ x.end \in Nat
      /\ Len(x.apps) \in Nat /\ DOMAIN x.apps = 1 .. Len(x.apps)
  BY DEF WellTimed
<1>2. Len(x.script) \in Nat /\ DOMAIN x.script = 1 .. Len(x.script)
  BY <1>1
<1>3. \A i \in DOMAIN x.script : x.script[i] \in Entry
  BY <1>1
<1>4. \A i \in DOMAIN x.script :
        /\ x.script[i].at \in Nat
        /\ x.script[i].kind \in {"rate", "tear", "recreate", "print"}
  BY <1>3 DEF Entry
<1>5. FirstUid(x) = Len(x.script) + 2 * Len(x.apps) + 1 /\ FirstUid(x) \in Nat
  <2> DEFINE n == Len(x.script)
             m == Len(x.apps)
  <2>1. n \in Nat /\ m \in Nat /\ FirstUid(x) = n + 2 * m + 1
    BY <1>1, <1>2 DEF FirstUid
  <2> HIDE DEF n, m
  <2>2. FirstUid(x) \in Nat
    BY <2>1
  <2> QED
    BY <2>1, <2>2 DEF n, m
<1>6. ASSUME NEW a \in DOMAIN x.apps
      PROVE  /\ x.apps[a].packets \in Nat /\ x.apps[a].packets > 0
             /\ x.apps[a].interval \in Nat
             /\ x.apps[a].start \in Nat /\ x.apps[a].stop \in Nat
             /\ x.apps[a].start < x.apps[a].stop
             /\ EndOf(x, a) \in Nat /\ EndOf(x, a) <= x.apps[a].stop /\ EndOf(x, a) <= x.end
             /\ \A t \in Nat : t < x.apps[a].stop /\ t < x.end => t < EndOf(x, a)
  BY <1>1 DEF WellTimed, EndOf
<1> QED
  BY <1>1, <1>2, <1>4, <1>5, <1>6

\* What kind an event has says which one it is.
LEMMA WhichEvent ==
  ASSUME AInv, NEW e \in events
  PROVE  /\ e.at \in Nat /\ e.uid \in Nat /\ e.uid < nextUid
         /\ e.kind = "start" => e.app \in Apps /\ e = StartEvent(experiment, e.app)
         /\ e.kind = "stop" => e.app \in Apps /\ e = StopEvent(experiment, e.app)
         /\ e.kind = "send" => /\ e.app \in Apps /\ e = PacketEvent(e.app)
                               /\ running[e.app] /\ sent[e.app] < App(e.app).packets
                               /\ sendEvent[e.app] # NoEvent
         /\ e.kind = "end" => e = EndEvent(experiment)
         /\ e.kind \notin {"start", "stop", "send", "end"} =>
              \E i \in DOMAIN experiment.script : e = ScriptEvent(experiment, i)
<1> DEFINE x == experiment
<1>1. WellTimed(x) /\ Apps = DOMAIN x.apps /\ KnownEvent(e)
      /\ nextUid \in Nat /\ nextUid >= FirstUid(x)
  BY DEF AInv, Apps
<1> DEFINE n == Len(x.script)
           m == Len(x.apps)
           u == FirstUid(x)
<1>n. /\ n \in Nat /\ m \in Nat /\ u = n + 2 * m + 1 /\ x.end \in Nat
      /\ DOMAIN x.script = 1 .. n /\ DOMAIN x.apps = 1 .. m
      /\ nextUid \in Nat /\ nextUid >= u
  BY <1>1, WellTimedFacts
<1>2. CASE \E i \in DOMAIN x.script : e = ScriptEvent(x, i)
  <2>1. PICK i \in DOMAIN x.script : e = ScriptEvent(x, i)
    BY <1>2
  <2>2. /\ e.at = x.script[i].at /\ e.uid = i - 1 /\ e.kind = x.script[i].kind
    BY <2>1 DEF ScriptEvent, Event
  <2>3. e.kind \in {"rate", "tear", "recreate", "print"}
    BY <1>1, <2>2, WellTimedFacts
  <2>4. e.at \in Nat /\ e.uid \in Nat /\ e.uid < nextUid
    <3>1. i \in 1 .. n /\ e.at \in Nat
      BY <1>1, <1>n, <2>2, WellTimedFacts
    <3> HIDE DEF n, m, u
    <3> QED
      BY <1>n, <2>2, <3>1
  <2> QED
    BY <1>2, <2>3, <2>4
<1>3. CASE e = EndEvent(x)
  <2>1. e.at = x.end /\ e.uid = n /\ e.kind = "end"
    BY <1>3 DEF EndEvent, Event
  <2> HIDE DEF n, m, u
  <2>2. e.at \in Nat /\ e.uid \in Nat /\ e.uid < nextUid
    BY <1>n, <2>1
  <2> QED
    BY <1>3, <2>1, <2>2
<1>4. ASSUME NEW a \in Apps, e = StartEvent(x, a) \/ e = StopEvent(x, a)
      PROVE  /\ e.at \in Nat /\ e.uid \in Nat /\ e.uid < nextUid /\ e.app = a
             /\ \/ e.kind = "start" /\ e = StartEvent(x, a)
                \/ e.kind = "stop" /\ e = StopEvent(x, a)
  <2>1. a \in 1 .. m /\ x.apps[a].start \in Nat /\ x.apps[a].stop \in Nat
    BY <1>1, <1>n, WellTimedFacts
  <2>2. CASE e = StartEvent(x, a)
    <3>1. /\ e.at = x.apps[a].start /\ e.uid = n + 2 * a - 1
          /\ e.kind = "start" /\ e.app = a
      BY <2>2 DEF StartEvent, Event
    <3>2. a \in 1 .. m /\ n \in Nat /\ m \in Nat /\ nextUid \in Nat /\ nextUid >= n + 2 * m + 1
      BY <1>n, <2>1
    <3> HIDE DEF n, m, u
    <3>3. n + 2 * a - 1 \in Nat /\ n + 2 * a - 1 < nextUid
      BY <3>2
    <3> QED
      BY <2>1, <2>2, <3>1, <3>3
  <2>3. CASE e = StopEvent(x, a)
    <3>1. /\ e.at = x.apps[a].stop /\ e.uid = n + 2 * a
          /\ e.kind = "stop" /\ e.app = a
      BY <2>3 DEF StopEvent, Event
    <3> HIDE DEF n, m, u
    <3> QED
      BY <1>n, <2>1, <2>3, <3>1
  <2> QED
    BY <1>4, <2>2, <2>3
<1>5. ASSUME NEW a \in Apps, e = PacketEvent(a), running[a],
             sent[a] < App(a).packets, sendEvent[a] # NoEvent
      PROVE  e.at \in Nat /\ e.uid \in Nat /\ e.uid < nextUid /\ e.app = a /\ e.kind = "send"
  <2>1. e.at = TimeOf(x, a, sent[a]) /\ e.uid = sendEvent[a] /\ e.app = a /\ e.kind = "send"
    BY <1>5 DEF PacketEvent, Event
  <2>2. /\ sent[a] \in 0 .. App(a).packets /\ App(a).packets \in Nat
        /\ sendEvent[a] \in FirstUid(x) .. (nextUid - 1) /\ FirstUid(x) \in Nat
    BY <1>1, <1>5, WellTimedFacts DEF AInv, AppBooks, App
  <2>3. TimeOf(x, a, sent[a]) \in Nat
    <3>1. sent[a] \in Nat
      BY <2>2
    <3> QED
      BY <1>1, <3>1, TimeFacts
  <2> QED
    BY <1>1, <2>1, <2>2, <2>3
<1> HIDE DEF x, n, m, u
<1>6. \/ \E i \in DOMAIN x.script : e = ScriptEvent(x, i)
      \/ e = EndEvent(x)
      \/ \E a \in Apps : e = StartEvent(x, a) \/ e = StopEvent(x, a)
      \/ \E a \in Apps : /\ e = PacketEvent(a) /\ running[a]
                         /\ sent[a] < App(a).packets /\ sendEvent[a] # NoEvent
  BY <1>1 DEF KnownEvent, x
<1>7. CASE \E a \in Apps : e = StartEvent(x, a) \/ e = StopEvent(x, a)
  BY <1>4, <1>7 DEF x
<1>8. CASE \E a \in Apps : /\ e = PacketEvent(a) /\ running[a]
                           /\ sent[a] < App(a).packets /\ sendEvent[a] # NoEvent
  BY <1>5, <1>8
<1> QED
  BY <1>2, <1>3, <1>6, <1>7, <1>8 DEF x

\* The fields of the events, and that those there are from the start differ.
LEMMA EventFields ==
  ASSUME NEW x, WellTimed(x)
  PROVE  /\ \A i \in DOMAIN x.script :
              /\ ScriptEvent(x, i).at = x.script[i].at /\ ScriptEvent(x, i).uid = i - 1
              /\ ScriptEvent(x, i).kind = x.script[i].kind
              /\ ScriptEvent(x, i).app = x.script[i].arg
              /\ i - 1 < Len(x.script) /\ i \in Nat
         /\ EndEvent(x).at = x.end
         /\ EndEvent(x).uid = Len(x.script) /\ EndEvent(x).kind = "end"
         /\ \A a \in DOMAIN x.apps :
              /\ StartEvent(x, a).at = x.apps[a].start
              /\ StartEvent(x, a).uid = Len(x.script) + 2 * a - 1
              /\ StartEvent(x, a).kind = "start" /\ StartEvent(x, a).app = a
              /\ StopEvent(x, a).at = x.apps[a].stop
              /\ StopEvent(x, a).uid = Len(x.script) + 2 * a
              /\ StopEvent(x, a).kind = "stop" /\ StopEvent(x, a).app = a
              /\ a \in Nat /\ a > 0
              /\ Len(x.script) + 2 * a < FirstUid(x)
<1>1. \A i \in DOMAIN x.script : i - 1 < Len(x.script) /\ i \in Nat
  BY WellTimedFacts
<1>2. \A a \in DOMAIN x.apps : a \in Nat /\ a > 0 /\ Len(x.script) + 2 * a < FirstUid(x)
  <2>1. /\ Len(x.script) \in Nat /\ DOMAIN x.apps = 1 .. Len(x.apps) /\ Len(x.apps) \in Nat
        /\ FirstUid(x) = Len(x.script) + 2 * Len(x.apps) + 1
    BY WellTimedFacts
  <2> DEFINE n == Len(x.script)
             m == Len(x.apps)
  <2>2. n \in Nat /\ m \in Nat /\ DOMAIN x.apps = 1 .. m /\ FirstUid(x) = n + 2 * m + 1
    BY <2>1
  <2> HIDE DEF n, m
  <2>3. \A a \in DOMAIN x.apps : a \in Nat /\ a > 0 /\ n + 2 * a < FirstUid(x)
    BY <2>2
  <2> QED
    BY <2>3 DEF n
<1> QED
  BY <1>1, <1>2 DEF ScriptEvent, EndEvent, StartEvent, StopEvent, Event

\* The same for one application.
LEMMA AppFacts ==
  ASSUME NEW x, WellTimed(x), NEW a \in DOMAIN x.apps
  PROVE  /\ Len(x.script) \in Nat /\ a \in Nat /\ a > 0
         /\ Len(x.script) + 2 * a < FirstUid(x) /\ FirstUid(x) \in Nat
         /\ StartEvent(x, a).at = x.apps[a].start
         /\ StartEvent(x, a).uid = Len(x.script) + 2 * a - 1
         /\ StartEvent(x, a).kind = "start" /\ StartEvent(x, a).app = a
         /\ StopEvent(x, a).at = x.apps[a].stop
         /\ StopEvent(x, a).uid = Len(x.script) + 2 * a
         /\ StopEvent(x, a).kind = "stop" /\ StopEvent(x, a).app = a
         /\ x.apps[a].packets \in Nat /\ x.apps[a].packets > 0
         /\ x.apps[a].start \in Nat /\ x.apps[a].stop \in Nat
         /\ x.apps[a].start < x.apps[a].stop /\ x.end \in Nat
         /\ EndOf(x, a) \in Nat /\ EndOf(x, a) <= x.apps[a].stop /\ EndOf(x, a) <= x.end
         /\ TimeOf(x, a, 0) = x.apps[a].start
<1>1. FirstUid(x) \in Nat /\ Len(x.script) \in Nat /\ x.end \in Nat
  BY WellTimedFacts
<1>2. /\ x.apps[a].packets \in Nat /\ x.apps[a].packets > 0
      /\ x.apps[a].start \in Nat /\ x.apps[a].stop \in Nat
      /\ x.apps[a].start < x.apps[a].stop
      /\ EndOf(x, a) \in Nat /\ EndOf(x, a) <= x.apps[a].stop /\ EndOf(x, a) <= x.end
  BY WellTimedFacts
<1>3. /\ StartEvent(x, a).at = x.apps[a].start
      /\ StartEvent(x, a).uid = Len(x.script) + 2 * a - 1
      /\ StartEvent(x, a).kind = "start" /\ StartEvent(x, a).app = a
      /\ StopEvent(x, a).at = x.apps[a].stop
      /\ StopEvent(x, a).uid = Len(x.script) + 2 * a
      /\ StopEvent(x, a).kind = "stop" /\ StopEvent(x, a).app = a
      /\ a \in Nat /\ a > 0 /\ Len(x.script) + 2 * a < FirstUid(x)
  BY EventFields
<1>4. TimeOf(x, a, 0) = x.apps[a].start
  BY TimeFacts
<1> QED
  BY <1>1, <1>2, <1>3, <1>4

LEMMA UidOrder ==
  ASSUME NEW n \in Nat, NEW a \in Nat, a > 0, NEW u, u = n + 2 * a - 1
  PROVE  u \in Nat /\ u > n /\ \A c \in Nat : c < a => n + 2 * c < u
OBVIOUS

\* The event that is run comes before all others, and before those of an earlier
\* number strictly.
LEMMA NextEvent ==
  ASSUME AInv, NEW e, IsNext(e)
  PROVE  /\ e \in events /\ EndEvent(experiment) \in events
         /\ e.at \in Nat /\ now <= e.at /\ e.at <= experiment.end
         /\ \A f \in events : e.at <= f.at /\ (f.uid < e.uid => e.at < f.at)
         /\ e.uid > Len(experiment.script) => e.at < experiment.end
<1>1. e \in events /\ EndEvent(experiment) \in events
  BY DEF IsNext, AInv
<1>2. WellTimed(experiment) /\ now \in Nat /\ experiment.end \in Nat
  BY DEF AInv, WellTimed
<1>3. \A f \in events : f.at \in Nat /\ f.uid \in Nat
  BY WhichEvent
<1>4. ASSUME NEW f \in events
      PROVE  e.at <= f.at /\ (f.uid < e.uid => e.at < f.at)
  <2>1. CASE f = e
    BY <1>1, <1>3, <2>1
  <2>2. CASE f # e
    <3>1. Precedes(e, f)
      BY <2>2 DEF IsNext
    <3>2. e.at \in Nat /\ f.at \in Nat /\ e.uid \in Nat /\ f.uid \in Nat
      BY <1>1, <1>3
    <3> QED
      BY <3>1, <3>2 DEF Precedes
  <2> QED
    BY <2>1, <2>2
<1>5. now <= e.at
  BY <1>1 DEF AInv
<1>6. EndEvent(experiment).at = experiment.end
      /\ EndEvent(experiment).uid = Len(experiment.script)
  BY <1>2, EventFields
<1> QED
  BY <1>1, <1>2, <1>3, <1>4, <1>5, <1>6

-----------------------------------------------------------------------------
(***************************************************************************)
(* What a step that is about something else leaves as it is.               *)
(***************************************************************************)
LEMMA OtherBooks ==
  ASSUME AInv, NEW b \in Apps, AppBooks(b), events # {}, events' # {},
         experiment' = experiment, refused'[b] = refused[b], connected \subseteq connected',
         running'[b] = running[b], sent'[b] = sent[b], sendEvent'[b] = sendEvent[b],
         rate'[b] \in Nat, nextUid' \in Nat, nextUid' >= nextUid,
         running[b] => App(b).socket \in open',
         StartEvent(experiment, b) \in events' <=> StartEvent(experiment, b) \in events,
         StopEvent(experiment, b) \in events' <=> StopEvent(experiment, b) \in events,
         running[b] /\ sent[b] < App(b).packets /\ PacketEvent(b) \in events
           => PacketEvent(b) \in events'
  PROVE  AppBooks(b)'
<1>1. /\ App(b)' = App(b) /\ PacketEvent(b)' = PacketEvent(b) /\ AllSent(b)' = AllSent(b)
      /\ HasPort(b)' = HasPort(b) /\ Refused(b)' = Refused(b)
  BY DEF App, PacketEvent, AllSent, HasPort, Refused
<1>2. Waiting(b) => Waiting(b)'
  BY DEF Waiting
<1>3. Active(b) => Active(b)'
  BY <1>1 DEF Active
<1>4. Stopped(b) => Stopped(b)'
  BY <1>1 DEF Stopped
<1>5. Waiting(b)' \/ Active(b)' \/ Stopped(b)'
  BY <1>2, <1>3, <1>4 DEF AppBooks
<1>6. sendEvent'[b] \in {NoEvent} \cup (FirstUid(experiment') .. (nextUid' - 1))
  <2>1. sendEvent[b] \in {NoEvent} \cup (FirstUid(experiment) .. (nextUid - 1))
    BY DEF AppBooks
  <2>2. FirstUid(experiment) \in Nat /\ nextUid \in Nat
    BY WellTimedFacts DEF AInv
  <2> QED
    BY <2>1, <2>2
<1>7. running[b] => /\ sent[b] > 0 /\ App(b).socket \in open'
                    /\ HasPort(b) => App(b).socket \in connected'
  BY DEF AppBooks
<1> QED
  BY <1>1, <1>5, <1>6, <1>7 DEF AppBooks

\* Nothing is refused, and no socket connected, if nothing is sent.
LEMMA SameSockets ==
  ASSUME AInv, UNCHANGED <<experiment, sent, connected>>
  PROVE  /\ \A b : HasPort(b)' = HasPort(b) /\ Refused(b)' = Refused(b)
         /\ \A b \in Apps : App(b).socket \in connected' => HasPort(b)'
<1>1. \A b : HasPort(b)' = HasPort(b)
  BY DEF HasPort, App
<1> QED
  BY <1>1 DEF Refused, AInv

\* An event of another application, or none of an application, is known as
\* before.
LEMMA StaysKnown ==
  ASSUME AInv, NEW f \in events, UNCHANGED experiment,
         f.kind = "send" => /\ running'[f.app] = running[f.app]
                            /\ sent'[f.app] = sent[f.app]
                            /\ sendEvent'[f.app] = sendEvent[f.app]
  PROVE  KnownEvent(f)'
<1>1. CASE f.kind = "send"
  <2>1. /\ f.app \in Apps /\ f = PacketEvent(f.app) /\ running[f.app]
        /\ sent[f.app] < App(f.app).packets /\ sendEvent[f.app] # NoEvent
    BY <1>1, WhichEvent
  <2>2. /\ f.app \in Apps' /\ f = PacketEvent(f.app)' /\ running'[f.app]
        /\ sent'[f.app] < App(f.app)'.packets /\ sendEvent'[f.app] # NoEvent
    BY <1>1, <2>1 DEF PacketEvent, Apps, App
  <2> DEFINE a == f.app
  <2>3. \E a1 \in Apps' : /\ f = PacketEvent(a1)' /\ running'[a1]
                          /\ sent'[a1] < App(a1)'.packets /\ sendEvent'[a1] # NoEvent
    BY <2>2
  <2> QED
    BY <2>3 DEF KnownEvent
<1>2. CASE f.kind # "send"
  <2>1. \/ \E i \in DOMAIN experiment.script : f = ScriptEvent(experiment, i)
        \/ f = EndEvent(experiment)
        \/ \E a \in Apps : f = StartEvent(experiment, a) \/ f = StopEvent(experiment, a)
    BY <1>2, WhichEvent
  <2> QED
    BY <2>1 DEF KnownEvent, Apps
<1> QED
  BY <1>1, <1>2

LEMMA OtherRates ==
  ASSUME NEW i \in DOMAIN experiment.script, RateBooks(i), UNCHANGED experiment,
         ScriptEvent(experiment, i) \in events' <=> ScriptEvent(experiment, i) \in events,
         rate'[experiment.script[i].arg] = rate[experiment.script[i].arg],
         sent'[experiment.script[i].arg] = sent[experiment.script[i].arg]
  PROVE  RateBooks(i)'
BY DEF RateBooks, App

-----------------------------------------------------------------------------
(***************************************************************************)
(* A packet is sent, at the start or later.                                *)
(***************************************************************************)
\* The next one is due at the time that its number says.
LEMMA NextPacketTime ==
  ASSUME AInv, NEW e, IsNext(e), NEW a \in Apps,
         e.at = TimeOf(experiment, a, sent[a]), sent[a] < App(a).packets,
         e.uid >= Len(experiment.script)
  PROVE  /\ rate[a] \in Nat
         /\ TimeOf(experiment, a, sent[a] + 1) = e.at + rate[a]
         /\ \A i \in DOMAIN experiment.script :
              Changing(experiment, i, a) /\ ScriptEvent(experiment, i) \in events
                => rate[a] = App(a).interval /\ e.at < experiment.script[i].at
<1> DEFINE x == experiment
           s == sent[a]
<1>1. /\ WellTimed(x) /\ a \in DOMAIN x.apps /\ App(a) = x.apps[a]
      /\ s \in Nat /\ rate[a] \in Nat
  BY DEF AInv, AppBooks, Apps, App
<1>2. e \in events /\ events # {} /\ e.at \in Nat /\ e.uid \in Nat
  BY NextEvent, WhichEvent
<1>3. CASE \A i \in DOMAIN x.script : ~Changing(x, i, a)
  <2>1. rate[a] = x.apps[a].interval
    BY <1>1, <1>2, <1>3 DEF AInv
  <2>2. TimeOf(x, a, s + 1) = TimeOf(x, a, s) + x.apps[a].interval
    BY <1>1, <1>3, TimeFacts
  <2> QED
    BY <1>1, <1>3, <2>1, <2>2
<1>4. ASSUME NEW i \in DOMAIN x.script, Changing(x, i, a)
      PROVE  /\ TimeOf(x, a, s + 1) = e.at + rate[a]
             /\ ScriptEvent(x, i) \in events =>
                  rate[a] = x.apps[a].interval /\ e.at < x.script[i].at
  <2>1. RateBooks(i) /\ x.script[i].arg = a
    BY <1>2, <1>4 DEF AInv, Changing
  <2>2. TimeOf(x, a, s + 1) = TimeOf(x, a, s) +
          (IF TimeOf(x, a, s) < x.script[i].at THEN x.apps[a].interval ELSE x.newRate)
    BY <1>1, <1>4, TimeFacts
  <2>3. CASE ScriptEvent(x, i) \in events
    <3>1. rate[a] = x.apps[a].interval
      BY <1>1, <2>1, <2>3 DEF RateBooks
    <3>2. /\ ScriptEvent(x, i).uid = i - 1 /\ i - 1 < Len(x.script) /\ i \in Nat
          /\ ScriptEvent(x, i).at = x.script[i].at /\ Len(x.script) \in Nat
      BY <1>1, EventFields, WellTimedFacts
    <3>3. ScriptEvent(x, i).uid < e.uid
      BY <1>2, <3>2
    <3>4. e.at < x.script[i].at
      BY <2>3, <3>2, <3>3, NextEvent
    <3> QED
      BY <2>2, <3>1, <3>4
  <2>4. CASE ScriptEvent(x, i) \notin events
    <3>1. rate[a] = x.newRate /\ TimeOf(x, a, s) >= x.script[i].at
      BY <1>1, <2>1, <2>4 DEF RateBooks
    <3>2. x.script[i].at \in Nat
      BY <1>1, WellTimedFacts
    <3> QED
      BY <1>2, <2>2, <2>4, <3>1, <3>2
  <2> QED
    BY <2>3, <2>4
<1>5. CASE \E i \in DOMAIN x.script : Changing(x, i, a)
  BY <1>1, <1>4, <1>5
<1> QED
  BY <1>1, <1>3, <1>5

LEMMA Transmission ==
  ASSUME AInv, NEW e, IsNext(e), NEW a \in Apps,
         \/ e = StartEvent(experiment, a) /\ Waiting(a)
         \/ e = PacketEvent(a) /\ Active(a) /\ sent[a] < App(a).packets,
         SendPacketNow(e, a, TRUE, open' \cap connected'), now' = e.at,
         UNCHANGED <<experiment, rate>>,
         running' = [running EXCEPT ![a] = TRUE],
         open' = open \cup {App(a).socket}, connected' = Connect(a)
  PROVE  AInv'
<1> DEFINE x == experiment
           s == sent[a]
           next == Event(e.at + rate[a], nextUid, "send", a)
           more == s + 1 < x.apps[a].packets
<1>1. /\ WellTimed(x) /\ Apps = DOMAIN x.apps /\ App(a) = x.apps[a] /\ a \in DOMAIN x.apps
      /\ nextUid \in Nat /\ nextUid >= FirstUid(x) /\ FirstUid(x) \in Nat
      /\ AppBooks(a) /\ s \in Nat
      /\ running \in [Apps -> BOOLEAN] /\ rate \in [Apps -> Nat] /\ sendEvent \in [Apps -> Int]
      /\ sent \in [Apps -> Nat] /\ refused \in [Apps -> Nat]
  <2>1. WellTimed(x) /\ FirstUid(x) \in Nat
    BY WellTimedFacts DEF AInv
  <2> QED
    BY <2>1 DEF AInv, Apps, App
<1>2. /\ e \in events /\ EndEvent(x) \in events /\ e.at \in Nat /\ now <= e.at /\ e.at <= x.end
      /\ \A f \in events : e.at <= f.at /\ (f.uid < e.uid => e.at < f.at)
      /\ e.uid > Len(x.script) => e.at < x.end
      /\ e.uid \in Nat
  BY NextEvent, WhichEvent
<1>3. /\ Len(x.script) \in Nat /\ a \in Nat /\ a > 0 /\ Len(x.script) + 2 * a < FirstUid(x)
      /\ StopEvent(x, a).uid = Len(x.script) + 2 * a
      /\ StartEvent(x, a).uid = Len(x.script) + 2 * a - 1
      /\ StopEvent(x, a).at = x.apps[a].stop /\ x.apps[a].stop \in Nat
  BY <1>1, AppFacts
\* Both cases in one: where the application stands, and what e is.
<1>4. /\ s < x.apps[a].packets /\ e.at = TimeOf(x, a, s) /\ e.at < x.apps[a].stop
      /\ e.uid > Len(x.script) /\ StopEvent(x, a) \in events
      /\ e.app = a /\ e.kind \in {"start", "send"}
      /\ \A f \in events : f.kind = "send" /\ f.app = a => f = e
      /\ StartEvent(x, a) \in events => e = StartEvent(x, a)
  <2>1. CASE e = StartEvent(x, a) /\ Waiting(a)
    <3>1. /\ s = 0 /\ StopEvent(x, a) \in events /\ ~running[a]
      BY <2>1 DEF Waiting
    <3>2. /\ e.at = x.apps[a].start /\ x.apps[a].start < x.apps[a].stop
          /\ x.apps[a].packets > 0 /\ e.kind = "start" /\ e.app = a
      BY <1>1, <2>1, AppFacts
    <3>3. TimeOf(x, a, 0) = x.apps[a].start
      BY <1>1, AppFacts
    <3>4. e.uid > Len(x.script)
      <4>1. e.uid = Len(x.script) + 2 * a - 1
        BY <1>3, <2>1
      <4> QED
        BY <1>3, <4>1, UidOrder
    <3>5. \A f \in events : f.kind = "send" => f.app # a
      BY <3>1, WhichEvent
    <3> QED
      BY <2>1, <3>1, <3>2, <3>3, <3>4, <3>5
  <2>2. CASE e = PacketEvent(a) /\ Active(a) /\ sent[a] < App(a).packets
    <3>1. e.at = TimeOf(x, a, s) /\ e.uid = sendEvent[a] /\ e.kind = "send" /\ e.app = a
      BY <2>2 DEF PacketEvent, Event
    <3>2. sendEvent[a] # NoEvent
      BY <1>2, <3>1, WhichEvent
    <3>3. e.uid >= FirstUid(x)
      BY <1>1, <3>1, <3>2 DEF AppBooks
    <3>4. StopEvent(x, a) \in events /\ StartEvent(x, a) \notin events
      BY <2>2 DEF Active
    <3>5. e.uid > Len(x.script) /\ StopEvent(x, a).uid < e.uid
      BY <1>1, <1>2, <1>3, <3>3
    <3>6. e.at < x.apps[a].stop
      BY <1>2, <1>3, <3>4, <3>5
    <3>7. \A f \in events : f.kind = "send" /\ f.app = a => f = e
      BY <2>2, WhichEvent
    <3> QED
      BY <1>1, <2>2, <3>1, <3>4, <3>5, <3>6, <3>7
  <2> QED
    BY <2>1, <2>2
<1>5. /\ sent' = [sent EXCEPT ![a] = s + 1]
      /\ refused' = [refused EXCEPT ![a] = Refused(a)']
      /\ sendEvent' = (IF more THEN [sendEvent EXCEPT ![a] = nextUid] ELSE sendEvent)
      /\ nextUid' = (IF more THEN nextUid + 1 ELSE nextUid)
      /\ events' = (IF more THEN (events \ {e}) \cup {next} ELSE events \ {e})
  <2>1. sent' = [sent EXCEPT ![a] = s + 1] /\ HasPort(a)' = HasPort(a)
    BY DEF SendPacketNow, HasPort, App
  <2>2. App(a).socket \in open' \cap connected' <=> HasPort(a)
    <3>1. App(a).socket \in connected => HasPort(a)
      BY DEF AInv
    <3> QED
      BY <3>1 DEF Connect
  <2>3. refused[a] = Refused(a)
    BY <1>1 DEF AppBooks
  <2>4. CASE HasPort(a)
    <3>1. refused' = [refused EXCEPT ![a] = refused[a]]
      BY <2>2, <2>4 DEF SendPacketNow
    <3>2. refused[a] = 0 /\ Refused(a)' = 0
      BY <2>1, <2>3, <2>4 DEF Refused
    <3> QED
      BY <3>1, <3>2, <2>1, <1>1 DEF SendPacketNow, Remaining
  <2>5. CASE ~HasPort(a)
    <3>1. refused' = [refused EXCEPT ![a] = refused[a] + 1]
      BY <2>2, <2>5 DEF SendPacketNow
    <3>2. refused[a] = s /\ Refused(a)' = s + 1
      BY <1>1, <2>1, <2>3, <2>5 DEF Refused
    <3> QED
      BY <3>1, <3>2, <2>1, <1>1 DEF SendPacketNow, Remaining
  <2> QED
    BY <2>4, <2>5
<1>6. /\ rate[a] \in Nat /\ TimeOf(x, a, s + 1) = e.at + rate[a]
      /\ \A i \in DOMAIN x.script :
           Changing(x, i, a) /\ ScriptEvent(x, i) \in events
             => rate[a] = App(a).interval /\ e.at < x.script[i].at
  <2>1. e.uid >= Len(x.script)
    BY <1>2, <1>3, <1>4
  <2> QED
    BY <1>1, <1>4, <2>1, NextPacketTime
<1>7. /\ next.at = e.at + rate[a] /\ next.uid = nextUid /\ next.kind = "send" /\ next.app = a
  BY DEF Event
<1>8. /\ sent'[a] = s + 1 /\ running'[a] = TRUE
      /\ more => sendEvent'[a] = nextUid
      /\ \A b \in Apps : b # a =>
           /\ sent'[b] = sent[b] /\ running'[b] = running[b] /\ sendEvent'[b] = sendEvent[b]
      /\ nextUid' \in Nat /\ nextUid' >= nextUid
  BY <1>1, <1>5
<1>9. /\ \A f : f.kind # "send" => (f \in events' <=> f \in events /\ f # e)
      /\ \A f \in events' : f \in events \/ (more /\ f = next)
      /\ \A f \in events : f # e => f \in events'
  BY <1>5, <1>7
<1>10. /\ EndEvent(x) \in events' /\ EndEvent(x) # e
       /\ \A i \in DOMAIN x.script : ScriptEvent(x, i) # e
                                     /\ ScriptEvent(x, i).kind # "send"
       /\ \A b \in Apps : StopEvent(x, b) # e /\ StopEvent(x, b).kind # "send"
                          /\ StartEvent(x, b).kind # "send"
       /\ \A b \in Apps : b # a => StartEvent(x, b) # e
  <2>1. EndEvent(x).kind = "end" /\ \A b \in Apps : StopEvent(x, b).kind = "stop"
        /\ StartEvent(x, b).kind = "start" /\ StartEvent(x, b).app = b
    BY <1>1, EventFields
  <2>2. \A i \in DOMAIN x.script :
          ScriptEvent(x, i).kind \in {"rate", "tear", "recreate", "print"}
    <3>1. \A i \in DOMAIN x.script : ScriptEvent(x, i).kind = x.script[i].kind
      BY <1>1, EventFields
    <3>2. \A i \in DOMAIN x.script : x.script[i].kind \in {"rate", "tear", "recreate", "print"}
      BY <1>1, WellTimedFacts
    <3> QED
      BY <3>1, <3>2
  <2> QED
    BY <1>2, <1>4, <1>9, <2>1, <2>2
<1> HIDE DEF x, s, next, more
<1>11. ASSUME NEW f \in events' PROVE f.at >= e.at /\ KnownEvent(f)'
  <2>1. CASE f \in events
    <3>1. f # e
      BY <1>5, <1>7, <1>2, <2>1, WhichEvent
    <3>2. f.kind = "send" => f.app # a /\ f.app \in Apps
      BY <1>4, <2>1, <3>1, WhichEvent
    <3>3. KnownEvent(f)'
      BY <1>8, <2>1, <3>2, StaysKnown
    <3> QED
      BY <1>2, <2>1, <3>3
  <2>2. CASE more /\ f = next
    <3>1. f = PacketEvent(a)'
      BY <1>6, <1>7, <1>8, <2>2 DEF PacketEvent, next, x, s
    <3>2. a \in Apps' /\ running'[a] /\ sent'[a] < App(a)'.packets
      BY <1>8, <2>2 DEF Apps, App, more, x
    <3>3. sendEvent'[a] # NoEvent
      BY <1>1, <1>8, <2>2 DEF NoEvent
    <3>4. \E b \in Apps' : /\ f = PacketEvent(b)' /\ running'[b]
                           /\ sent'[b] < App(b)'.packets /\ sendEvent'[b] # NoEvent
      BY <3>1, <3>2, <3>3
    <3> QED
      BY <1>2, <1>6, <1>7, <2>2, <3>4 DEF KnownEvent
  <2> QED
    BY <1>9, <2>1, <2>2
<1>12. AppBooks(a)'
  <2>1. /\ sent'[a] \in 0 .. App(a)'.packets /\ sent'[a] > 0 /\ refused'[a] = Refused(a)'
        /\ rate'[a] \in Nat
    <3>1. sent'[a] = s + 1 /\ s \in Nat /\ s < App(a)'.packets /\ refused'[a] = Refused(a)'
      BY <1>1, <1>4, <1>5, <1>8 DEF App, x
    <3>2. x.apps[a].packets \in Nat /\ App(a)'.packets = x.apps[a].packets
      BY <1>1, AppFacts DEF App, x
    <3>3. rate'[a] \in Nat
      BY <1>1, <1>6
    <3> QED
      BY <3>1, <3>2, <3>3
  <2>2. sendEvent'[a] \in {NoEvent} \cup (FirstUid(experiment') .. (nextUid' - 1))
    <3>1. sendEvent[a] \in {NoEvent} \cup (FirstUid(x) .. (nextUid - 1))
      BY <1>1 DEF AppBooks, x
    <3>2. more => nextUid' = nextUid + 1 /\ sendEvent'[a] = nextUid
      BY <1>5, <1>8
    <3>3. ~more => nextUid' = nextUid /\ sendEvent'[a] = sendEvent[a]
      BY <1>5
    <3> QED
      BY <1>1, <3>1, <3>2, <3>3 DEF x
  <2>3. TimeOf(experiment', a, sent'[a] - 1) < EndOf(experiment', a)
    <3>1. sent'[a] - 1 = s
      BY <1>1, <1>8
    <3>2. e.at < x.end
      BY <1>2, <1>4
    <3>3. e.at < EndOf(x, a)
      BY <1>1, <1>2, <1>4, <3>2, WellTimedFacts
    <3> QED
      BY <1>4, <3>1, <3>3 DEF x
  <2>4. App(a)'.socket \in open' /\ (HasPort(a)' => App(a)'.socket \in connected')
    BY DEF App, HasPort, Connect
  <2>5. Active(a)'
    <3>1. StopEvent(x, a) \in events' /\ StartEvent(x, a) \notin events'
      BY <1>1, <1>4, <1>9, <1>10
    <3>2. sent'[a] < App(a)'.packets => PacketEvent(a)' \in events'
      <4>1. ASSUME sent'[a] < App(a)'.packets PROVE PacketEvent(a)' \in events'
        <5>1. more
          BY <1>8, <4>1 DEF App, more, x
        <5>2. PacketEvent(a)' = next
          BY <1>6, <1>8, <5>1 DEF PacketEvent, next, x, s
        <5> QED
          BY <1>5, <5>1, <5>2
      <4> QED
        BY <4>1
    <3> QED
      BY <1>8, <3>1, <3>2 DEF Active, x
  <2>6. events' # {}
    BY <1>10
  <2> QED
    BY <1>8, <2>1, <2>2, <2>3, <2>4, <2>5, <2>6 DEF AppBooks
<1>13. ASSUME NEW b \in Apps, b # a PROVE AppBooks(b)'
  <2>1. /\ StartEvent(x, b) \in events' <=> StartEvent(x, b) \in events
        /\ StopEvent(x, b) \in events' <=> StopEvent(x, b) \in events
    BY <1>9, <1>10, <1>13
  <2>2. PacketEvent(b) \in events => PacketEvent(b) \in events'
    <3>1. PacketEvent(b).app = b
      BY DEF PacketEvent, Event
    <3> QED
      BY <1>4, <1>9, <1>13, <3>1
  <2>3. AppBooks(b) /\ rate'[b] \in Nat /\ (running[b] => App(b).socket \in open')
    BY <1>13 DEF AInv, AppBooks
  <2>4. /\ events # {} /\ events' # {}
        /\ refused'[b] = refused[b] /\ connected \subseteq connected'
    BY <1>1, <1>2, <1>5, <1>10, <1>13 DEF Connect
  <2> QED
    BY <1>5, <1>8, <1>13, <2>1, <2>2, <2>3, <2>4, OtherBooks DEF x
<1>14. ASSUME NEW b \in Apps, NEW c \in Apps, b # c, sendEvent'[b] # NoEvent
       PROVE  sendEvent'[b] # sendEvent'[c]
  <2>1. \A d \in Apps : sendEvent[d] # nextUid
    <3>1. \A d \in Apps : sendEvent[d] \in {NoEvent} \cup (FirstUid(x) .. (nextUid - 1))
      BY DEF AInv, AppBooks, x
    <3> QED
      BY <1>1, <3>1 DEF NoEvent
  <2>2. \A d \in Apps : sendEvent'[d] = sendEvent[d] \/ (d = a /\ sendEvent'[d] = nextUid)
    BY <1>1, <1>5
  <2>3. sendEvent[b] # NoEvent => sendEvent[b] # sendEvent[c]
    BY <1>14 DEF AInv
  <2> QED
    BY <1>14, <2>1, <2>2, <2>3
<1>15. ASSUME NEW i \in DOMAIN x.script, x.script[i].kind = "rate" PROVE RateBooks(i)'
  <2>1. RateBooks(i) /\ x.script[i].arg \in Apps
    BY <1>2, <1>15 DEF AInv, WellTimed, x, Apps
  <2>2. ScriptEvent(x, i) \in events' <=> ScriptEvent(x, i) \in events
    BY <1>9, <1>10
  <2>3. CASE x.script[i].arg # a
    BY <1>8, <2>1, <2>2, <2>3, OtherRates DEF x
  <2>4. CASE x.script[i].arg = a
    <3>1. Changing(x, i, a) /\ x.script[i].at \in Nat
      BY <1>1, <1>15, <2>4, WellTimedFacts DEF Changing
    <3>2. CASE ScriptEvent(x, i) \in events
      <4>1. rate[a] = x.apps[a].interval /\ TimeOf(x, a, s) < x.script[i].at
        BY <1>1, <1>4, <1>6, <3>1, <3>2
      <4>2. sent'[a] - 1 = s
        BY <1>1, <1>8
      <4> QED
        BY <2>2, <2>4, <3>2, <4>1, <4>2 DEF RateBooks, App, x
    <3>3. CASE ScriptEvent(x, i) \notin events
      <4>1. rate[a] = x.newRate /\ TimeOf(x, a, s) >= x.script[i].at
        BY <1>1, <1>4, <2>1, <2>4, <3>3 DEF RateBooks, App, x, s
      <4>2. TimeOf(x, a, s + 1) >= x.script[i].at
        BY <1>2, <1>4, <1>6, <3>1, <4>1
      <4> QED
        BY <1>8, <2>2, <2>4, <3>3, <4>1, <4>2 DEF RateBooks, App, x
    <3> QED
      BY <3>2, <3>3
  <2> QED
    BY <2>3, <2>4
<1>16. ASSUME NEW b \in Apps, NEW c \in Apps, b # c, App(b).socket = App(c).socket,
              Before(x, c, b), running'[b]
       PROVE  StopEvent(x, c) \notin events'
  <2>1. CASE running[b]
    <3>1. StopEvent(x, c) \notin events
      BY <1>16, <2>1 DEF AInv, x
    <3> QED
      BY <1>9, <1>10, <3>1
  <2>2. CASE ~running[b]
    <3>1. b = a /\ e = StartEvent(x, a)
      <4>1. b = a
        BY <1>8, <1>16, <2>2
      <4>2. ~Active(a)
        BY <2>2, <4>1 DEF Active
      <4> QED
        BY <4>1, <4>2 DEF x
    <3>2. StopEvent(x, c) \notin events
      <4> SUFFICES ASSUME StopEvent(x, c) \in events PROVE FALSE
        OBVIOUS
      <4>1. /\ StopEvent(x, c).at = x.apps[c].stop /\ e.at = x.apps[a].start
            /\ StopEvent(x, c).uid = Len(x.script) + 2 * c /\ c \in Nat
            /\ x.apps[c].stop \in Nat /\ x.apps[a].start \in Nat
        BY <1>1, <1>16, <3>1, AppFacts
      <4>2. e.at <= x.apps[c].stop
        BY <1>2, <4>1
      <4>3. x.apps[c].stop = x.apps[a].start /\ c < a
        BY <1>16, <3>1, <4>1, <4>2 DEF Before
      <4>4. StopEvent(x, c).uid < e.uid
        <5>1. e.uid = Len(x.script) + 2 * a - 1
          BY <1>3, <3>1
        <5>2. Len(x.script) + 2 * c < e.uid
          BY <1>3, <4>1, <4>3, <5>1, UidOrder
        <5> QED
          BY <4>1, <5>2
      <4>5. e.at < StopEvent(x, c).at
        BY <1>2, <4>4
      <4> QED
        BY <4>1, <4>3, <4>5
    <3> QED
      BY <1>9, <1>10, <3>2
  <2> QED
    BY <2>1, <2>2
<1>17. ASSUME NEW b \in Apps, \A i \in DOMAIN x.script : ~Changing(x, i, b)
       PROVE  rate'[b] = App(b).interval
  BY <1>2, <1>17 DEF AInv, x
<1>18. /\ now' \in 0 .. x.end /\ nextUid' >= FirstUid(x)
       /\ running' \in [Apps -> BOOLEAN] /\ rate' \in [Apps -> Nat]
       /\ sendEvent' \in [Apps -> Int]
       /\ sent' \in [Apps -> Nat] /\ refused' \in [Apps -> Nat]
  <2>1. x.end \in Nat
    BY <1>1, WellTimedFacts
  <2>2. sent' \in [Apps -> Nat] /\ sent'[a] \in Nat
    BY <1>1, <1>5
  <2>3. Refused(a)' \in Nat
    BY <2>2 DEF Refused
  <2> QED
    BY <1>1, <1>2, <1>5, <1>8, <2>1, <2>2, <2>3
<1>19. Apps' = Apps /\ (\A b : App(b)' = App(b)) /\ experiment' = x /\ rate' = rate
  BY DEF Apps, App, x
<1>20. ASSUME NEW b \in Apps
       PROVE  AppBooks(b)' /\ (App(b).socket \in connected' => HasPort(b)')
  <2>1. HasPort(b)' = HasPort(b) /\ (App(b).socket \in connected => HasPort(b))
    BY DEF HasPort, App, AInv
  <2>2. App(b).socket = App(a).socket => (HasPort(a) <=> HasPort(b))
    BY <1>1 DEF HasPort, WellTimed, App, Apps, x
  <2> QED
    BY <1>12, <1>13, <2>1, <2>2 DEF Connect
<1> QED
  BY <1>1, <1>8, <1>10, <1>11, <1>14, <1>15, <1>16, <1>17, <1>18, <1>19, <1>20 DEF AInv, x

LEMMA StartStep ==
  ASSUME AInv, NEW e, StartApplication(e)
  PROVE  AInv'
<1>1. IsNext(e) /\ e.kind = "start" /\ e \in events /\ events # {}
  BY DEF StartApplication, IsNext
<1>2. e.app \in Apps /\ e = StartEvent(experiment, e.app)
  BY <1>1, WhichEvent
<1> DEFINE a == e.app
<1>3. Waiting(a)
  <2>1. Waiting(a) \/ Active(a) \/ Stopped(a)
    BY <1>1, <1>2 DEF AInv, AppBooks
  <2> QED
    BY <1>1, <1>2, <2>1 DEF Active, Stopped
<1>4. /\ SendPacketNow(e, a, TRUE, open' \cap connected') /\ now' = e.at
      /\ UNCHANGED <<experiment, rate>> /\ running' = [running EXCEPT ![a] = TRUE]
      /\ open' = open \cup {App(a).socket} /\ connected' = Connect(a)
  BY DEF StartApplication
<1> QED
  BY <1>1, <1>2, <1>3, <1>4, Transmission

LEMMA SendStep ==
  ASSUME AInv, NEW e, SendPacket(e)
  PROVE  AInv'
<1>1. IsNext(e) /\ e.kind = "send" /\ e \in events /\ events # {}
  BY DEF SendPacket, IsNext
<1>2. /\ e.app \in Apps /\ e = PacketEvent(e.app) /\ running[e.app]
      /\ sent[e.app] < App(e.app).packets
  BY <1>1, WhichEvent
<1> DEFINE a == e.app
<1>3. Active(a) /\ App(a).socket \in open /\ (HasPort(a) => App(a).socket \in connected)
  <2>1. Waiting(a) \/ Active(a) \/ Stopped(a)
    BY <1>1, <1>2 DEF AInv, AppBooks
  <2>2. App(a).socket \in open /\ (HasPort(a) => App(a).socket \in connected)
    BY <1>2 DEF AInv, AppBooks
  <2> QED
    BY <1>2, <2>1, <2>2 DEF Waiting, Stopped
<1>4. /\ SendPacketNow(e, a, running[a], open \cap connected) /\ now' = e.at
      /\ UNCHANGED <<experiment, rate, running, open, connected>>
  BY DEF SendPacket
<1>5. running[a] = TRUE /\ running = [running EXCEPT ![a] = TRUE]
  <2>1. running \in [Apps -> BOOLEAN]
    BY DEF AInv
  <2> QED
    BY <1>2, <2>1
<1>6. open = open \cup {App(a).socket} /\ connected = Connect(a)
  BY <1>3 DEF Connect
<1>7. SendPacketNow(e, a, TRUE, open' \cap connected')
  BY <1>4, <1>5
<1> HIDE DEF a
<1> QED
  BY <1>1, <1>2, <1>3, <1>4, <1>5, <1>6, <1>7, Transmission DEF a

-----------------------------------------------------------------------------
(***************************************************************************)
(* The other steps.                                                        *)
(***************************************************************************)
\* The packet an application has scheduled is what its stop cancels, and nothing
\* else.
LEMMA StopStep ==
  ASSUME AInv, NEW e, StopApplication(e)
  PROVE  AInv'
<1> DEFINE x == experiment
           a == e.app
           s == sent[a]
<1>1. /\ IsNext(e) /\ e.kind = "stop" /\ now' = e.at
      /\ running' = [running EXCEPT ![a] = FALSE]
      /\ events' = events \ ({e} \cup Cancelled(a))
      /\ open' = open \ {App(a).socket}
      /\ UNCHANGED <<experiment, nextUid, rate, sendEvent, sent, refused, connected>>
  BY DEF StopApplication
<1>2. /\ e \in events /\ EndEvent(x) \in events /\ e.at \in Nat /\ e.at <= x.end
      /\ \A f \in events : e.at <= f.at /\ (f.uid < e.uid => e.at < f.at)
  BY <1>1, NextEvent
<1>3. a \in Apps /\ e = StopEvent(x, a)
  BY <1>1, <1>2, WhichEvent
<1>4. /\ WellTimed(x) /\ Apps = DOMAIN x.apps /\ App(a) = x.apps[a] /\ a \in DOMAIN x.apps
      /\ nextUid \in Nat /\ nextUid >= FirstUid(x) /\ FirstUid(x) \in Nat
      /\ AppBooks(a) /\ s \in Nat
      /\ running \in [Apps -> BOOLEAN] /\ \A b : App(b) = x.apps[b]
  <2>1. WellTimed(x) /\ FirstUid(x) \in Nat
    BY WellTimedFacts DEF AInv
  <2> QED
    BY <1>3, <2>1 DEF AInv, Apps, App
<1>5. /\ e.at = x.apps[a].stop /\ x.apps[a].start < x.apps[a].stop
      /\ x.apps[a].start \in Nat /\ x.apps[a].stop \in Nat
      /\ StartEvent(x, a).at = x.apps[a].start
      /\ EndOf(x, a) \in Nat /\ EndOf(x, a) <= x.apps[a].stop
  BY <1>3, <1>4, AppFacts
<1>6. Active(a)
  <2>1. StartEvent(x, a) \notin events
    BY <1>2, <1>5
  <2> QED
    BY <1>2, <1>3, <1>4, <2>1 DEF AppBooks, Waiting, Stopped, x
<1>7. AllSent(a)
  <2>1. CASE s < App(a).packets
    <3>1. PacketEvent(a) \in events
      BY <1>6, <2>1 DEF Active
    <3>2. PacketEvent(a).at = TimeOf(x, a, s)
      BY DEF PacketEvent, Event
    <3>3. e.at <= TimeOf(x, a, s)
      BY <1>2, <3>1, <3>2
    <3>4. TimeOf(x, a, s) \in Nat
      BY <1>4, TimeFacts
    <3>5. TimeOf(x, a, s) >= EndOf(x, a)
      BY <1>2, <1>5, <3>3, <3>4
    <3> QED
      BY <3>5 DEF AllSent
  <2>2. CASE ~ (s < App(a).packets)
    <3>1. s \in 0 .. App(a).packets /\ App(a).packets \in Nat
      BY <1>4, AppFacts DEF AppBooks
    <3> QED
      BY <2>2, <3>1 DEF AllSent
  <2> QED
    BY <2>1, <2>2
<1> HIDE DEF x, s
<1>8. /\ \A f \in events : f \in events' <=> f # e /\ ~ (f.kind = "send" /\ f.app = a)
      /\ events' \subseteq events
  <2>1. ASSUME NEW f \in events
        PROVE  f.uid = sendEvent[a] <=> (f.kind = "send" /\ f.app = a)
    <3>1. CASE f.kind = "send"
      <4>1. /\ f.app \in Apps /\ f = PacketEvent(f.app) /\ sendEvent[f.app] # NoEvent
        BY <3>1, WhichEvent
      <4>2. f.uid = sendEvent[f.app]
        <5>1. PacketEvent(f.app).uid = sendEvent[f.app]
          BY DEF PacketEvent, Event
        <5> QED
          BY <4>1, <5>1
      <4>3. f.app # a => sendEvent[f.app] # sendEvent[a]
        BY <1>3, <4>1 DEF AInv
      <4> QED
        BY <3>1, <4>2, <4>3
    <3>2. CASE f.kind # "send"
      <4>1. f.uid \in Nat /\ f.uid < FirstUid(x)
        <5>1. CASE f.kind \in {"start", "stop"}
          <6>1. /\ f.app \in DOMAIN x.apps
                /\ f = StartEvent(x, f.app) \/ f = StopEvent(x, f.app)
            BY <1>4, <5>1, WhichEvent DEF x
          <6> DEFINE b == f.app
                     n == Len(x.script)
          <6>2. /\ n \in Nat /\ b \in Nat /\ b > 0 /\ n + 2 * b < FirstUid(x)
                /\ f.uid = n + 2 * b - 1 \/ f.uid = n + 2 * b
            BY <1>4, <6>1, AppFacts
          <6> HIDE DEF b, n
          <6> QED
            BY <1>4, <6>2
        <5>2. CASE f.kind = "end"
          <6>1. f = EndEvent(x)
            BY <5>2, WhichEvent DEF x
          <6> DEFINE n == Len(x.script)
                     m == Len(x.apps)
          <6>2. f.uid = n /\ n \in Nat /\ m \in Nat /\ FirstUid(x) = n + 2 * m + 1
            BY <1>4, <6>1, EventFields, WellTimedFacts
          <6> HIDE DEF n, m
          <6> QED
            BY <6>2
        <5>3. CASE f.kind \notin {"start", "stop", "send", "end"}
          <6>1. PICK i \in DOMAIN x.script : f = ScriptEvent(x, i)
            BY <5>3, WhichEvent DEF x
          <6> DEFINE n == Len(x.script)
                     m == Len(x.apps)
          <6>2. /\ f.uid = i - 1 /\ i - 1 < n
            BY <1>4, <6>1, EventFields
          <6>3. n \in Nat /\ m \in Nat /\ FirstUid(x) = n + 2 * m + 1 /\ i \in 1 .. n
            BY <1>4, WellTimedFacts
          <6> HIDE DEF n, m
          <6> QED
            BY <6>2, <6>3
        <5> QED
          BY <3>2, <5>1, <5>2, <5>3
      <4>2. sendEvent[a] = NoEvent \/ sendEvent[a] >= FirstUid(x)
        BY <1>4 DEF AppBooks, x
      <4>3. f.uid # sendEvent[a]
        BY <1>4, <4>1, <4>2 DEF NoEvent
      <4> QED
        BY <3>2, <4>3
    <3> QED
      BY <3>1, <3>2
  <2> QED
    BY <1>1, <2>1 DEF Cancelled
<1>9. /\ running'[a] = FALSE
      /\ \A b \in Apps : b # a => running'[b] = running[b]
      /\ running' \in [Apps -> BOOLEAN]
  BY <1>1, <1>3, <1>4
<1>10. /\ EndEvent(x) \in events'
       /\ \A i \in DOMAIN x.script :
             ScriptEvent(x, i) \in events' <=> ScriptEvent(x, i) \in events
       /\ \A b \in Apps : StartEvent(x, b) \in events' <=> StartEvent(x, b) \in events
       /\ \A b \in Apps : b # a => (StopEvent(x, b) \in events' <=> StopEvent(x, b) \in events)
       /\ StopEvent(x, a) \notin events'
  <2>1. EndEvent(x).kind = "end" /\ \A b \in Apps : StopEvent(x, b).kind = "stop"
        /\ StopEvent(x, b).app = b /\ StartEvent(x, b).kind = "start"
    BY <1>4, EventFields
  <2>2. \A i \in DOMAIN x.script :
          ScriptEvent(x, i).kind \in {"rate", "tear", "recreate", "print"}
    <3>1. \A i \in DOMAIN x.script : ScriptEvent(x, i).kind = x.script[i].kind
      BY <1>4, EventFields
    <3>2. \A i \in DOMAIN x.script : x.script[i].kind \in {"rate", "tear", "recreate", "print"}
      BY <1>4, WellTimedFacts
    <3> QED
      BY <3>1, <3>2
  <2> QED
    BY <1>1, <1>2, <1>3, <1>8, <2>1, <2>2
<1>11. ASSUME NEW f \in events' PROVE f.at >= e.at /\ KnownEvent(f)'
  <2>1. f \in events /\ (f.kind = "send" => f.app # a /\ f.app \in Apps)
    BY <1>8, WhichEvent
  <2>2. KnownEvent(f)'
    BY <1>1, <1>9, <2>1, StaysKnown
  <2> QED
    BY <1>2, <2>1, <2>2
<1>12. AppBooks(a)'
  <2>1. App(a)' = App(a) /\ AllSent(a)'
    BY <1>1, <1>7 DEF App, AllSent
  <2>2. Stopped(a)'
    BY <1>1, <1>6, <1>9, <1>10, <2>1 DEF Stopped, Active, x
  <2>3. events' # {}
    BY <1>10
  <2> QED
    BY SameSockets, <1>1, <1>4, <1>9, <2>1, <2>2, <2>3 DEF AppBooks
<1>13. ASSUME NEW b \in Apps, b # a PROVE AppBooks(b)'
  <2>1. PacketEvent(b) \in events => PacketEvent(b) \in events'
    <3>1. PacketEvent(b).app = b /\ PacketEvent(b).kind = "send"
      BY DEF PacketEvent, Event
    <3> QED
      BY <1>1, <1>8, <1>13, <3>1
  <2>2. AppBooks(b) /\ rate'[b] \in Nat /\ events # {} /\ events' # {}
    BY <1>1, <1>2, <1>10, <1>13 DEF AInv
  <2>3. ASSUME running[b] PROVE App(b).socket \in open'
    <3>1. App(b).socket \in open
      BY <2>2, <2>3 DEF AppBooks
    <3>2. ASSUME App(b).socket = App(a).socket PROVE FALSE
      <4>1. Before(x, a, b) \/ Before(x, b, a)
        BY <1>3, <1>4, <1>13, <3>2 DEF WellTimed
      <4>2. ~Before(x, a, b)
        BY <1>2, <1>3, <1>13, <2>3, <3>2 DEF AInv, x
      <4>3. StopEvent(x, b) \in events
        <5>1. Active(b)
          BY <2>2, <2>3 DEF AppBooks, Waiting, Stopped
        <5> QED
          BY <5>1 DEF Active, x
      <4>4. StopEvent(x, b).at = x.apps[b].stop /\ x.apps[b].stop \in Nat
        BY <1>4, <1>13, AppFacts
      <4>5. x.apps[b].stop <= x.apps[a].start
        BY <1>5, <4>1, <4>2, <4>4 DEF Before
      <4>6. e.at <= x.apps[b].stop
        BY <1>2, <4>3, <4>4
      <4> QED
        BY <1>5, <4>4, <4>5, <4>6
    <3> QED
      BY <1>1, <3>1, <3>2
  <2>4. /\ UNCHANGED <<experiment, refused, connected>> /\ running'[b] = running[b] /\ sent'[b] = sent[b]
        /\ sendEvent'[b] = sendEvent[b] /\ nextUid' \in Nat /\ nextUid' >= nextUid
        /\ StartEvent(experiment, b) \in events' <=> StartEvent(experiment, b) \in events
        /\ StopEvent(experiment, b) \in events' <=> StopEvent(experiment, b) \in events
    BY <1>1, <1>4, <1>9, <1>10, <1>13 DEF x
  <2> QED
    BY <2>1, <2>2, <2>3, <2>4, OtherBooks
<1>14. ASSUME NEW i \in DOMAIN x.script, x.script[i].kind = "rate" PROVE RateBooks(i)'
  <2>1. RateBooks(i)
    BY <1>2, <1>14 DEF AInv, x
  <2> QED
    BY <1>1, <1>10, <2>1, OtherRates DEF x
<1>15. ASSUME NEW b \in Apps, NEW c \in Apps, b # c, App(b).socket = App(c).socket,
              Before(x, c, b), running'[b]
       PROVE  StopEvent(x, c) \notin events'
  <2>1. running[b]
    BY <1>9, <1>15
  <2>2. StopEvent(x, c) \notin events
    BY <1>15, <2>1 DEF AInv, x
  <2> QED
    BY <1>8, <2>2
<1>16. /\ \A b \in Apps : AppBooks(b)'
       /\ Apps' = Apps /\ (\A b : App(b)' = App(b)) /\ experiment' = x
       /\ now' \in 0 .. x.end
  <2>1. x.end \in Nat
    BY <1>4, WellTimedFacts
  <2> QED
    BY <1>1, <1>2, <1>12, <1>13, <2>1 DEF Apps, App, x
<1>17. events # {}
  BY <1>2
<1> QED
  BY SameSockets, <1>1, <1>4, <1>9, <1>10, <1>11, <1>14, <1>15, <1>16, <1>17 DEF AInv, x

\* The events of applications stay if one of the script is run.
LEMMA ScriptRun ==
  ASSUME AInv, NEW e, IsNext(e), e.kind \in {"rate", "tear", "recreate", "print"},
         now' = e.at, events' = events \ {e},
         UNCHANGED <<experiment, nextUid, running, sendEvent, sent, refused, open,
                   connected>>
  PROVE  /\ now' \in 0 .. experiment.end
         /\ events # {} /\ EndEvent(experiment) \in events'
         /\ \A f \in events' : f.at >= now' /\ KnownEvent(f)'
         /\ \A b \in Apps :
              /\ StartEvent(experiment, b) \in events' <=> StartEvent(experiment, b) \in events
              /\ StopEvent(experiment, b) \in events' <=> StopEvent(experiment, b) \in events
              /\ rate'[b] \in Nat => AppBooks(b)'
         /\ \A i \in DOMAIN experiment.script :
              ScriptEvent(experiment, i) # e =>
                (ScriptEvent(experiment, i) \in events' <=> ScriptEvent(experiment, i) \in events)
<1> DEFINE x == experiment
<1>1. /\ e \in events /\ EndEvent(x) \in events /\ e.at \in Nat /\ e.at <= x.end
      /\ \A f \in events : e.at <= f.at
  BY NextEvent
<1>2. WellTimed(x) /\ x.end \in Nat /\ Apps = DOMAIN x.apps /\ nextUid \in Nat
  BY DEF AInv, WellTimed, Apps
<1>3. EndEvent(x).kind = "end" /\ \A b \in Apps : StopEvent(x, b).kind = "stop"
      /\ StartEvent(x, b).kind = "start"
  BY <1>2, EventFields
<1>4. \A f \in events' : f.at >= now' /\ KnownEvent(f)'
  <2> SUFFICES ASSUME NEW f \in events' PROVE f.at >= now' /\ KnownEvent(f)'
    OBVIOUS
  <2>1. f \in events
    OBVIOUS
  <2>2. KnownEvent(f)'
    BY <2>1, StaysKnown
  <2> QED
    BY <1>1, <2>1, <2>2, WhichEvent
<1>5. ASSUME NEW b \in Apps, rate'[b] \in Nat PROVE AppBooks(b)'
  <2>1. AppBooks(b) /\ events # {} /\ events' # {}
    BY <1>1, <1>3 DEF AInv
  <2>2. PacketEvent(b) \in events => PacketEvent(b) \in events'
    <3>1. PacketEvent(b).kind = "send"
      BY DEF PacketEvent, Event
    <3> QED
      BY <3>1
  <2>3. running[b] => App(b).socket \in open'
    BY <2>1 DEF AppBooks
  <2>4. /\ StartEvent(x, b) \in events' <=> StartEvent(x, b) \in events
        /\ StopEvent(x, b) \in events' <=> StopEvent(x, b) \in events
    BY <1>3
  <2>5. nextUid' \in Nat /\ nextUid' >= nextUid
    BY <1>2
  <2> HIDE DEF x
  <2> QED
    BY <1>5, <2>1, <2>2, <2>3, <2>4, <2>5, OtherBooks DEF x
<1>6. now' \in 0 .. x.end
  BY <1>1, <1>2
<1> QED
  BY <1>1, <1>3, <1>4, <1>5, <1>6

\* A change of rate leaves the packet that is scheduled where it is.
LEMMA RateStep ==
  ASSUME AInv, NEW e, ChangeRate(e)
  PROVE  AInv'
<1> DEFINE x == experiment
           a == e.app
<1>1. /\ IsNext(e) /\ e.kind = "rate" /\ now' = e.at /\ events' = events \ {e}
      /\ rate' = [rate EXCEPT ![a] = x.newRate]
      /\ UNCHANGED <<experiment, nextUid, running, sendEvent, sent, refused, open,
                   connected>>
  BY DEF ChangeRate, NothingScheduled
<1>2. /\ now' \in 0 .. x.end
      /\ events # {} /\ EndEvent(x) \in events'
      /\ \A f \in events' : f.at >= now' /\ KnownEvent(f)'
      /\ \A b \in Apps : /\ StopEvent(x, b) \in events' <=> StopEvent(x, b) \in events
                         /\ rate'[b] \in Nat => AppBooks(b)'
      /\ \A i \in DOMAIN x.script : ScriptEvent(x, i) # e =>
           (ScriptEvent(x, i) \in events' <=> ScriptEvent(x, i) \in events)
  BY <1>1, ScriptRun
<1>3. /\ e \in events /\ \A f \in events : e.at <= f.at
  BY <1>1, NextEvent
<1>4. PICK i \in DOMAIN x.script : e = ScriptEvent(x, i)
  BY <1>1, <1>3, WhichEvent
<1>5. /\ WellTimed(x) /\ Apps = DOMAIN x.apps /\ \A b : App(b) = x.apps[b]
      /\ rate \in [Apps -> Nat] /\ sent \in [Apps -> Nat]
  BY DEF AInv, Apps, App
<1>6. /\ x.script[i].kind = "rate"
      /\ x.script[i].arg = a /\ e.at = x.script[i].at /\ e.uid = i - 1
      /\ x.script[i].at \in Nat
  <2>1. /\ ScriptEvent(x, i).at = x.script[i].at /\ ScriptEvent(x, i).uid = i - 1
        /\ ScriptEvent(x, i).kind = x.script[i].kind /\ ScriptEvent(x, i).app = x.script[i].arg
    BY <1>5, EventFields
  <2>2. x.script[i].at \in Nat
    BY <1>5, WellTimedFacts
  <2> QED
    BY <1>1, <1>4, <2>1, <2>2
<1>7. /\ a \in Apps /\ Changing(x, i, a) /\ x.newRate \in Nat /\ AppBooks(a)
      /\ x.script[i].at <= x.apps[a].stop /\ x.script[i].at <= x.end
  BY <1>5, <1>6 DEF WellTimed, Changing, AInv
<1>8. /\ rate' \in [Apps -> Nat] /\ rate'[a] = x.newRate
      /\ \A b \in Apps : b # a => rate'[b] = rate[b]
  BY <1>1, <1>5, <1>7
<1> HIDE DEF x
<1>9. ASSUME sent[a] < App(a).packets PROVE TimeOf(x, a, sent[a]) >= e.at
  <2>1. TimeOf(x, a, sent[a]) \in Nat /\ e.at \in Nat
    <3>1. sent[a] \in Nat /\ a \in DOMAIN x.apps
      BY <1>5, <1>7
    <3> QED
      BY <1>5, <1>6, <3>1, TimeFacts
  <2>2. CASE Waiting(a)
    <3>1. sent[a] = 0 /\ StartEvent(x, a) \in events
      BY <2>2 DEF Waiting, x
    <3>2. StartEvent(x, a).at = TimeOf(x, a, 0)
      <4>1. a \in DOMAIN x.apps
        BY <1>5, <1>7
      <4> HIDE DEF a
      <4>2. StartEvent(x, a).at = x.apps[a].start /\ TimeOf(x, a, 0) = x.apps[a].start
        BY <1>5, <4>1, AppFacts
      <4> QED
        BY <4>2
    <3> QED
      BY <1>3, <2>1, <3>1, <3>2
  <2>3. CASE Active(a)
    <3>1. PacketEvent(a) \in events
      BY <1>9, <2>3 DEF Active
    <3>2. PacketEvent(a).at = TimeOf(x, a, sent[a])
      BY DEF PacketEvent, Event, x
    <3> QED
      BY <1>3, <2>1, <3>1, <3>2
  <2>4. CASE Stopped(a)
    <3>1. TimeOf(x, a, sent[a]) >= EndOf(x, a)
      <4>1. sent[a] \in Nat /\ App(a).packets \in Nat
        BY <1>5, <1>7, AppFacts
      <4> QED
        BY <1>9, <2>4, <4>1 DEF Stopped, AllSent, x
    <3>2. EndOf(x, a) >= x.script[i].at /\ EndOf(x, a) \in Nat
      <4>1. EndOf(x, a) \in Nat
        BY <1>5, <1>7, AppFacts
      <4> QED
        BY <1>7, <4>1 DEF EndOf
    <3> QED
      BY <1>6, <2>1, <3>1, <3>2
  <2> QED
    BY <1>2, <1>7, <2>2, <2>3, <2>4 DEF AppBooks
<1>10. ASSUME NEW j \in DOMAIN x.script, x.script[j].kind = "rate" PROVE RateBooks(j)'
  <2>1. RateBooks(j) /\ x.script[j].arg \in Apps
    BY <1>2, <1>5, <1>10 DEF AInv, WellTimed, x
  <2>2. CASE j = i
    <3>1. ScriptEvent(x, i) \notin events'
      BY <1>1, <1>4
    <3> QED
      BY <1>1, <1>6, <1>8, <1>9, <2>2, <3>1 DEF RateBooks, App, x
  <2>3. CASE j # i
    <3>1. x.script[j].arg # a
      BY <1>5, <1>7, <1>10, <2>3 DEF WellTimed, Changing
    <3>2. ScriptEvent(x, j) # e
      BY <1>5, <1>6, <3>1, <1>4, EventFields
    <3> QED
      BY <1>1, <1>2, <1>8, <2>1, <3>1, <3>2, OtherRates DEF x
  <2> QED
    BY <2>2, <2>3
<1>11. ASSUME NEW b \in Apps, \A j \in DOMAIN x.script : ~Changing(x, j, b)
       PROVE  rate'[b] = App(b).interval
  <2>1. b # a
    BY <1>7, <1>11
  <2> QED
    BY <1>2, <1>8, <1>11, <2>1 DEF AInv, x
<1>12. /\ \A b \in Apps : AppBooks(b)'
       /\ Apps' = Apps /\ (\A b : App(b)' = App(b)) /\ experiment' = x
  <2>1. \A b \in Apps : AppBooks(b)'
    BY <1>2, <1>8
  <2> QED
    BY <1>1, <2>1 DEF Apps, App, x
<1>13. \A b, c \in Apps :
         b # c /\ App(b).socket = App(c).socket /\ Before(x, c, b) /\ running'[b]
           => StopEvent(x, c) \notin events'
  BY <1>1, <1>2 DEF AInv, x
<1> QED
  BY SameSockets, <1>1, <1>2, <1>5, <1>8, <1>10, <1>11, <1>12, <1>13 DEF AInv, x

\* Links that go down or up, and prints.
LEMMA LinkStep ==
  ASSUME AInv, NEW e, OnTime(e, "tear") \/ OnTime(e, "recreate") \/ OnTime(e, "print"),
         UNCHANGED <<experiment, nextUid, running, rate, sendEvent, sent, refused, open,
                   connected>>
  PROVE  AInv'
<1> DEFINE x == experiment
<1>1. /\ IsNext(e) /\ e.kind \in {"tear", "recreate", "print"} /\ now' = e.at
      /\ events' = events \ {e}
  BY DEF OnTime
<1>2. /\ now' \in 0 .. x.end
      /\ events # {} /\ EndEvent(x) \in events'
      /\ \A f \in events' : f.at >= now' /\ KnownEvent(f)'
      /\ \A b \in Apps : /\ StopEvent(x, b) \in events' <=> StopEvent(x, b) \in events
                         /\ rate'[b] \in Nat => AppBooks(b)'
      /\ \A i \in DOMAIN x.script : ScriptEvent(x, i) # e =>
           (ScriptEvent(x, i) \in events' <=> ScriptEvent(x, i) \in events)
  BY <1>1, ScriptRun
<1>3. WellTimed(x) /\ rate \in [Apps -> Nat]
  BY DEF AInv
<1> HIDE DEF x
<1>4. ASSUME NEW j \in DOMAIN x.script, x.script[j].kind = "rate" PROVE RateBooks(j)'
  <2>1. RateBooks(j)
    BY <1>2, <1>4 DEF AInv, x
  <2>2. ScriptEvent(x, j) # e
    BY <1>1, <1>3, <1>4, EventFields
  <2> QED
    BY <1>2, <2>1, <2>2, OtherRates DEF x
<1>5. /\ \A b \in Apps : AppBooks(b)'
      /\ Apps' = Apps /\ (\A b : App(b)' = App(b)) /\ experiment' = x
  BY <1>2, <1>3 DEF Apps, App, x
<1>6. \A b, c \in Apps :
         b # c /\ App(b).socket = App(c).socket /\ Before(x, c, b) /\ running'[b]
           => StopEvent(x, c) \notin events'
  BY <1>2 DEF AInv, x
<1> QED
  BY SameSockets, <1>1, <1>2, <1>3, <1>4, <1>5, <1>6 DEF AInv, x

\* At the end every application has sent what it could: those that run have
\* their next packet after it.
LEMMA EndStep ==
  ASSUME AInv, NEW e, StopSimulation(e)
  PROVE  AInv'
<1> DEFINE x == experiment
<1>1. /\ IsNext(e) /\ e.kind = "end" /\ now' = e.at /\ events' = {}
      /\ UNCHANGED <<experiment, nextUid, running, rate, sendEvent, sent, refused, open,
                   connected>>
  BY DEF StopSimulation
<1>2. /\ e \in events /\ e.at \in Nat /\ e.at <= x.end
      /\ \A f \in events : e.at <= f.at
  BY <1>1, NextEvent
<1>3. /\ WellTimed(x) /\ x.end \in Nat /\ e.at = x.end
      /\ Apps = DOMAIN x.apps /\ (\A b : App(b) = x.apps[b]) /\ sent \in [Apps -> Nat]
  <2>1. e = EndEvent(x) /\ WellTimed(x)
    BY <1>1, <1>2, WhichEvent DEF AInv
  <2> QED
    BY <2>1, EventFields, WellTimedFacts DEF AInv, Apps, App
<1> HIDE DEF x
<1>4. ASSUME NEW b \in Apps PROVE AllSent(b)
  <2>1. /\ TimeOf(x, b, sent[b]) \in Nat /\ EndOf(x, b) \in Nat /\ EndOf(x, b) <= e.at
        /\ sent[b] \in Nat /\ App(b).packets \in Nat
    BY <1>3, TimeFacts, AppFacts
  <2>2. CASE Waiting(b)
    <3>1. sent[b] = 0 /\ StartEvent(x, b) \in events
      BY <2>2 DEF Waiting, x
    <3>2. StartEvent(x, b).at = TimeOf(x, b, 0)
      BY <1>3, AppFacts
    <3>3. e.at <= TimeOf(x, b, sent[b])
      BY <1>2, <3>1, <3>2
    <3> QED
      BY <1>2, <2>1, <3>3 DEF AllSent, x
  <2>3. CASE Active(b)
    <3>1. CASE sent[b] < App(b).packets
      <4>1. PacketEvent(b) \in events
        BY <2>3, <3>1 DEF Active
      <4>2. PacketEvent(b).at = TimeOf(x, b, sent[b])
        BY DEF PacketEvent, Event, x
      <4>3. e.at <= TimeOf(x, b, sent[b])
        BY <1>2, <4>1, <4>2
      <4> QED
        BY <1>2, <2>1, <4>3 DEF AllSent, x
    <3>2. CASE ~ (sent[b] < App(b).packets)
      <4>1. sent[b] \in 0 .. App(b).packets
        BY DEF AInv, AppBooks
      <4> QED
        BY <2>1, <3>2, <4>1 DEF AllSent
    <3> QED
      BY <3>1, <3>2
  <2>4. CASE Stopped(b)
    BY <2>4 DEF Stopped
  <2> QED
    BY <1>2, <2>2, <2>3, <2>4 DEF AInv, AppBooks
<1>5. ASSUME NEW b \in Apps PROVE AppBooks(b)'
  <2>1. AllSent(b)' /\ App(b)' = App(b)
    BY <1>1, <1>4 DEF AllSent, App
  <2>2. AppBooks(b)
    BY DEF AInv
  <2> QED
    BY SameSockets, <1>1, <2>1, <2>2 DEF AppBooks
<1>6. /\ Apps' = Apps /\ (\A b : App(b)' = App(b)) /\ experiment' = x
      /\ now' \in 0 .. x.end
  BY <1>1, <1>2, <1>3 DEF Apps, App, x
<1> QED
  BY SameSockets, <1>1, <1>3, <1>5, <1>6 DEF AInv, x

LEMMA AInvInit ==
  ASSUME NEW X, \A x \in X : WellTimed(x), AppInit(X)
  PROVE  AInv
<1> DEFINE x == experiment
<1>1. /\ WellTimed(x) /\ now = 0 /\ events = InitialEvents(x) /\ nextUid = FirstUid(x)
      /\ running = [a \in Apps |-> FALSE] /\ rate = [a \in Apps |-> App(a).interval]
      /\ sendEvent = [a \in Apps |-> NoEvent]
      /\ sent = [a \in Apps |-> 0] /\ refused = [a \in Apps |-> 0] /\ connected = {}
      /\ Apps = DOMAIN x.apps /\ \A b : App(b) = x.apps[b]
  <2>1. nextUid = FirstUid(x)
    BY DEF AppInit, FirstUid
  <2> QED
    BY <2>1 DEF AppInit, Apps, App
<1>2. events = {ScriptEvent(x, i) : i \in DOMAIN x.script} \cup {EndEvent(x)}
                 \cup {StartEvent(x, a) : a \in DOMAIN x.apps}
                 \cup {StopEvent(x, a) : a \in DOMAIN x.apps}
  <2>1. DOMAIN x.script = 1 .. Len(x.script)
    BY <1>1, WellTimedFacts
  <2> QED
    BY <1>1, <2>1 DEF InitialEvents, ScriptEvent, EndEvent, StartEvent, StopEvent
<1> HIDE DEF x
<1>3. FirstUid(x) \in Nat /\ x.end \in Nat /\ nextUid \in Nat
  BY <1>1, WellTimedFacts
<1>4. /\ running \in [Apps -> BOOLEAN] /\ rate \in [Apps -> Nat] /\ sendEvent \in [Apps -> Int]
      /\ sent \in [Apps -> Nat] /\ refused \in [Apps -> Nat]
  <2>1. \A a \in Apps : App(a).interval \in Nat
    BY <1>1, WellTimedFacts
  <2> QED
    BY <1>1, <2>1 DEF NoEvent
<1>5. ASSUME NEW e \in events PROVE e.at >= now /\ KnownEvent(e)
  <2>1. CASE \E i \in DOMAIN x.script : e = ScriptEvent(x, i)
    <3>1. e.at \in Nat
      <4>1. PICK i \in DOMAIN x.script : e = ScriptEvent(x, i)
        BY <2>1
      <4>2. ScriptEvent(x, i).at = x.script[i].at
        BY <1>1, EventFields
      <4>3. x.script[i].at \in Nat
        BY <1>1, WellTimedFacts
      <4> QED
        BY <4>1, <4>2, <4>3
    <3> QED
      BY <1>1, <2>1, <3>1 DEF KnownEvent, x
  <2>2. CASE e = EndEvent(x)
    <3>1. e.at \in Nat
      BY <1>1, <1>3, <2>2, EventFields
    <3> QED
      BY <1>1, <2>2, <3>1 DEF KnownEvent, x
  <2>3. CASE \E a \in DOMAIN x.apps : e = StartEvent(x, a) \/ e = StopEvent(x, a)
    <3>1. PICK a \in DOMAIN x.apps : e = StartEvent(x, a) \/ e = StopEvent(x, a)
      BY <2>3
    <3>2. e.at \in Nat
      <4>1. /\ StartEvent(x, a).at = x.apps[a].start /\ x.apps[a].start \in Nat
            /\ StopEvent(x, a).at = x.apps[a].stop /\ x.apps[a].stop \in Nat
        BY <1>1, AppFacts
      <4> QED
        BY <3>1, <4>1
    <3> QED
      BY <1>1, <2>3, <3>2 DEF KnownEvent, x
  <2> QED
    BY <1>2, <2>1, <2>2, <2>3
<1>6. ASSUME NEW a \in Apps PROVE AppBooks(a)
  <2>1. Waiting(a)
    BY <1>1, <1>2 DEF Waiting, x
  <2>2. App(a).packets \in Nat
    BY <1>1, AppFacts
  <2>3. events # {}
    BY <1>2
  <2> QED
    BY <1>1, <2>1, <2>2, <2>3 DEF AppBooks, Refused
<1>7. ASSUME NEW i \in DOMAIN x.script, x.script[i].kind = "rate" PROVE RateBooks(i)
  <2>1. ScriptEvent(x, i) \in events
    BY <1>2
  <2>2. x.script[i].arg \in Apps
    BY <1>1, <1>7 DEF WellTimed
  <2> QED
    BY <1>1, <2>1, <2>2 DEF RateBooks, x
<1> QED
  BY <1>1, <1>2, <1>3, <1>4, <1>5, <1>6, <1>7 DEF AInv, x

LEMMA AInvStutter ==
  ASSUME AInv, UNCHANGED appVars
  PROVE  AInv'
<1>1. UNCHANGED <<experiment, now, events, nextUid, running, rate, sendEvent, sent, refused, open,
                   connected>>
  BY DEF appVars
<1>2. Apps' = Apps /\ \A b : App(b)' = App(b)
  BY <1>1 DEF Apps, App
<1>3. \A f : KnownEvent(f) => KnownEvent(f)'
  BY <1>1, <1>2 DEF KnownEvent, PacketEvent
<1>4. \A b : AppBooks(b) => AppBooks(b)'
  BY SameSockets, <1>1, <1>2 DEF AppBooks, AllSent, Waiting, Active, Stopped, PacketEvent
<1>5. \A i : RateBooks(i) => RateBooks(i)'
  BY <1>1, <1>2 DEF RateBooks
<1> QED
  BY SameSockets, <1>1, <1>2, <1>3, <1>4, <1>5 DEF AInv

LEMMA AInvStep ==
  ASSUME AInv, [Simulate]_<<appVars, linkVars>>
  PROVE  AInv'
<1>1. CASE UNCHANGED appVars
  BY <1>1, AInvStutter
<1>2. ASSUME NEW e \in events, TearDownLink(e) \/ RecreateLink(e) \/ PrintRoutingTables(e),
             UNCHANGED <<experiment, nextUid, running, rate, sendEvent, sent, refused, open,
                   connected>>
      PROVE  AInv'
  <2>1. OnTime(e, "tear") \/ OnTime(e, "recreate") \/ OnTime(e, "print")
    BY <1>2 DEF TearDownLink, RecreateLink, PrintRoutingTables
  <2> QED
    BY <1>2, <2>1, LinkStep
<1>3. CASE AppNext
  BY <1>3, StartStep, SendStep, StopStep, RateStep, EndStep DEF AppNext
<1> QED
  BY <1>1, <1>2, <1>3 DEF Simulate

\* The books say what the properties do.
LEMMA PlansFollow ==
  ASSUME AInv
  PROVE  AppTypeOK /\ OneSendPending /\ SentAsPlanned
<1>1. /\ WellTimed(experiment) /\ nextUid \in Nat /\ nextUid >= FirstUid(experiment)
      /\ FirstUid(experiment) \in Nat
      /\ Apps = DOMAIN experiment.apps /\ \A a : App(a) = experiment.apps[a]
      /\ \A a \in Apps : AppBooks(a)
  <2>1. WellTimed(experiment) /\ FirstUid(experiment) \in Nat
    BY WellTimedFacts DEF AInv
  <2> QED
    BY <2>1 DEF AInv, Apps, App
<1>2. \A a \in Apps : /\ App(a).packets \in Nat /\ sent[a] \in 0 .. App(a).packets
                      /\ refused[a] = Refused(a)
  <2>1. \A a \in Apps : App(a).packets \in Nat
    BY <1>1, AppFacts
  <2> QED
    BY <1>1, <2>1 DEF AppBooks
<1>3. AppTypeOK
  <2>1. now \in 0 .. experiment.end /\ running \in [Apps -> BOOLEAN]
    BY DEF AInv
  <2>2. \A e \in events : e.at >= now /\ e.uid \in 0 .. (nextUid - 1)
    <3> SUFFICES ASSUME NEW e \in events PROVE e.at >= now /\ e.uid \in 0 .. (nextUid - 1)
      OBVIOUS
    <3>1. e.at >= now
      BY DEF AInv
    <3>2. e.uid \in Nat /\ e.uid < nextUid
      BY WhichEvent
    <3> QED
      BY <1>1, <3>1, <3>2
  <2>3. sendEvent \in [Apps -> NoEvent .. (nextUid - 1)]
    <3>1. sendEvent \in [Apps -> Int]
      BY DEF AInv
    <3>2. ASSUME NEW a \in Apps PROVE sendEvent[a] \in NoEvent .. (nextUid - 1)
      <4>1. sendEvent[a] \in {NoEvent} \cup (FirstUid(experiment) .. (nextUid - 1))
        BY <1>1 DEF AppBooks
      <4> QED
        BY <1>1, <4>1 DEF NoEvent
    <3> QED
      BY <3>1, <3>2
  <2>4. \A a \in Apps : sent[a] \in 0 .. App(a).packets /\ refused[a] \in 0 .. sent[a]
    BY <1>2 DEF Refused
  <2> QED
    BY <2>1, <2>2, <2>3, <2>4 DEF AppTypeOK
<1>4. OneSendPending
  <2> SUFFICES ASSUME NEW e \in events, e.kind = "send"
               PROVE  /\ running[e.app] /\ e.uid = sendEvent[e.app]
                      /\ \A f \in events : f.kind = "send" /\ f.app = e.app => f = e
    BY DEF OneSendPending
  <2>1. e = PacketEvent(e.app) /\ running[e.app]
    BY WhichEvent
  <2>2. PacketEvent(e.app).uid = sendEvent[e.app]
    BY DEF PacketEvent, Event
  <2>3. \A f \in events : f.kind = "send" => f = PacketEvent(f.app)
    BY WhichEvent
  <2> QED
    BY <2>1, <2>2, <2>3
<1>5. ASSUME events = {}, NEW a \in Apps
      PROVE  sent[a] = IF Promised(a) < App(a).packets THEN Promised(a) ELSE App(a).packets
  <2> DEFINE p == Promised(a)
             k == App(a).packets
             s == sent[a]
  <2>1. /\ p \in Nat /\ k \in Nat /\ s \in Nat /\ s <= k
    BY <1>1, <1>2, PromisedTime
  <2>2. \A m \in Nat : m < p <=> TimeOf(experiment, a, m) < EndOf(experiment, a)
    BY <1>1, PromisedTime
  <2>3. s > 0 => s - 1 < p
    <3>1. s > 0 => TimeOf(experiment, a, s - 1) < EndOf(experiment, a)
      BY <1>1 DEF AppBooks
    <3> HIDE DEF p, s
    <3>2. s > 0 => s - 1 \in Nat
      BY <2>1
    <3> QED
      BY <2>2, <3>1, <3>2
  <2>4. s = k \/ ~ (s < p)
    <3>1. s = k \/ TimeOf(experiment, a, s) >= EndOf(experiment, a)
      BY <1>1, <1>5 DEF AppBooks, AllSent
    <3>2. TimeOf(experiment, a, s) \in Nat /\ EndOf(experiment, a) \in Nat
      BY <1>1, <2>1, TimeFacts, AppFacts
    <3> HIDE DEF p, s, k
    <3>3. s < p => TimeOf(experiment, a, s) < EndOf(experiment, a)
      BY <2>1, <2>2
    <3> QED
      BY <3>1, <3>2, <3>3
  <2> HIDE DEF p, s, k
  <2>5. s = IF p < k THEN p ELSE k
    BY <2>1, <2>3, <2>4
  <2> QED
    BY <2>5 DEF p, s, k
<1>6. SentAsPlanned
  BY <1>2, <1>5 DEF SentAsPlanned, TakenIfAddressed, Refused
<1> QED
  BY <1>3, <1>4, <1>6

\* Every experiment of well-timed applications goes as planned: in whatever
\* order events fall on the same times, each application has one packet
\* scheduled at most, none to a peer with a port is refused, though sockets are
\* shared, all to a peer without are, and when the simulation ends each has sent
\* what its times and rates promise, with a change of rate under way or without.
THEOREM WellTimedRuns ==
  ASSUME NEW X, \A x \in X : WellTimed(x)
  PROVE  AppInit(X) /\ [][Simulate]_<<appVars, linkVars>>
           => [](AppTypeOK /\ OneSendPending /\ SentAsPlanned)
<1>1. AppInit(X) => AInv
  BY AInvInit
<1>2. AInv /\ [Simulate]_<<appVars, linkVars>> => AInv'
  BY AInvStep
<1>3. AInv => AppTypeOK /\ OneSendPending /\ SentAsPlanned
  BY PlansFollow
<1> QED
  BY <1>1, <1>2, <1>3, PTL

-----------------------------------------------------------------------------
(***************************************************************************)
(* The experiments of the repository are well timed.                       *)
(***************************************************************************)
\* A script of prints and changes of links.
LEMMA Scripts ==
  /\ \A times \in Seq(Nat) : Prints(times) \in Seq(Entry)
                             /\ \A i \in DOMAIN Prints(times) : Prints(times)[i].kind = "print"
  /\ \A times \in Seq(Nat), kinds \in Seq({"tear", "recreate"}) :
       Len(kinds) = Len(times) =>
         /\ OnLinks(times, kinds) \in Seq(Entry)
         /\ \A i \in DOMAIN OnLinks(times, kinds) :
              OnLinks(times, kinds)[i].kind \in {"tear", "recreate"}
<1>1. ASSUME NEW times \in Seq(Nat)
      PROVE  Prints(times) \in Seq(Entry)
             /\ \A i \in DOMAIN Prints(times) : Prints(times)[i].kind = "print"
  <2>1. Len(times) \in Nat /\ DOMAIN times = 1 .. Len(times)
    OBVIOUS
  <2>2. \A i \in DOMAIN times : [at |-> times[i], kind |-> "print", arg |-> 0] \in Entry
    BY <2>1 DEF Entry
  <2> QED
    BY <2>1, <2>2 DEF Prints
<1>2. ASSUME NEW times \in Seq(Nat), NEW kinds \in Seq({"tear", "recreate"}),
             Len(kinds) = Len(times)
      PROVE  /\ OnLinks(times, kinds) \in Seq(Entry)
             /\ \A i \in DOMAIN OnLinks(times, kinds) :
                  OnLinks(times, kinds)[i].kind \in {"tear", "recreate"}
  <2>1. /\ Len(times) \in Nat /\ DOMAIN times = 1 .. Len(times)
        /\ DOMAIN kinds = 1 .. Len(times)
    BY <1>2
  <2>2. \A i \in DOMAIN times : [at |-> times[i], kind |-> kinds[i], arg |-> i] \in Entry
    BY <1>2, <2>1 DEF Entry
  <2>3. \A i \in DOMAIN times : kinds[i] \in {"tear", "recreate"}
    BY <1>2, <2>1
  <2> QED
    BY <2>1, <2>2, <2>3 DEF OnLinks
<1> QED
  BY <1>1, <1>2

\* Without applications there is nothing to time.
LEMMA RoutedWell ==
  ASSUME NEW networks, NEW links, NEW end \in Nat, NEW script \in Seq(Entry),
         \A i \in DOMAIN script : script[i].kind # "rate"
  PROVE  WellTimed(Routed(networks, script, links, end))
<1> DEFINE x == Routed(networks, script, links, end)
<1>1. x.script = script /\ x.apps = << >> /\ x.end = end
  BY DEF Routed
<1> HIDE DEF x
<1>2. Len(x.apps) = 0 /\ DOMAIN x.apps = {} /\ DOMAIN x.apps = 1 .. Len(x.apps)
  BY <1>1
<1>3. WellTimed(x)
  BY <1>1, <1>2 DEF WellTimed
<1> QED
  BY <1>3 DEF x

LEMMA PrintsAndLinks ==
  ASSUME NEW networks, NEW links, NEW end \in Nat,
         NEW prints \in Seq(Nat), NEW times \in Seq(Nat),
         NEW kinds \in Seq({"tear", "recreate"}), Len(kinds) = Len(times)
  PROVE  /\ WellTimed(Routed(networks, Prints(prints), links, end))
         /\ WellTimed(Routed(networks, Prints(prints) \o OnLinks(times, kinds), links, end))
<1> DEFINE p == Prints(prints)
           q == OnLinks(times, kinds)
<1>1. /\ p \in Seq(Entry) /\ q \in Seq(Entry)
      /\ \A i \in DOMAIN p : p[i].kind # "rate"
      /\ \A i \in DOMAIN q : q[i].kind # "rate"
  BY Scripts
<1> HIDE DEF p, q
<1>2. p \o q \in Seq(Entry) /\ \A i \in DOMAIN (p \o q) : (p \o q)[i].kind # "rate"
  <2>1. /\ Len(p) \in Nat /\ Len(q) \in Nat
        /\ DOMAIN p = 1 .. Len(p) /\ DOMAIN q = 1 .. Len(q)
        /\ p \o q \in Seq(Entry) /\ DOMAIN (p \o q) = 1 .. Len(p) + Len(q)
        /\ \A i \in 1 .. Len(p) + Len(q) :
             (p \o q)[i] = IF i <= Len(p) THEN p[i] ELSE q[i - Len(p)]
    BY <1>1
  <2>2. ASSUME NEW i \in 1 .. Len(p) + Len(q) PROVE (p \o q)[i].kind # "rate"
    <3>1. CASE i <= Len(p)
      BY <1>1, <2>1, <3>1
    <3>2. CASE ~ (i <= Len(p))
      <4>1. i - Len(p) \in DOMAIN q
        BY <2>1, <3>2
      <4> QED
        BY <1>1, <2>1, <3>2, <4>1
    <3> QED
      BY <3>1, <3>2
  <2> QED
    BY <2>1, <2>2
<1>3. /\ WellTimed(Routed(networks, p, links, end))
      /\ WellTimed(Routed(networks, p \o q, links, end))
  BY <1>1, <1>2, RoutedWell
<1> QED
  BY <1>3 DEF p, q

\* Up to three applications at a constant rate.
LEMMA SteadyWell ==
  ASSUME NEW apps, NEW end \in Nat, Len(apps) \in Nat, DOMAIN apps = 1 .. Len(apps),
         \A a \in DOMAIN apps :
           /\ apps[a].packets \in Nat \ {0} /\ apps[a].interval \in Nat \ {0}
           /\ apps[a].start \in Nat /\ apps[a].stop \in Nat
           /\ apps[a].start < apps[a].stop,
         \A a, b \in DOMAIN apps :
           a # b /\ apps[a].socket = apps[b].socket => apps[a].peer = apps[b].peer,
         \A a, b \in DOMAIN apps :
           a # b /\ apps[a].socket = apps[b].socket =>
             \/ apps[a].stop < apps[b].start \/ apps[b].stop < apps[a].start
             \/ apps[a].stop = apps[b].start /\ a < b
             \/ apps[b].stop = apps[a].start /\ b < a
  PROVE  WellTimed(Steady(apps, end))
<1> DEFINE x == Steady(apps, end)
<1>1. x.script = << >> /\ x.apps = apps /\ x.end = end
  BY DEF Steady
<1> HIDE DEF x
<1>2. x.script \in Seq(Entry) /\ DOMAIN x.script = {}
  BY <1>1
<1>3. WellTimed(x)
  BY <1>1, <1>2 DEF WellTimed, Before
<1> QED
  BY <1>3 DEF x

LEMMA OneSource ==
  ASSUME NEW s, NEW end \in Nat,
         /\ s.packets \in Nat \ {0} /\ s.interval \in Nat \ {0}
         /\ s.start \in Nat /\ s.stop \in Nat /\ s.start < s.stop
  PROVE  WellTimed(Steady(<<s>>, end))
<1>1. Len(<<s>>) = 1 /\ DOMAIN <<s>> = 1 .. 1 /\ <<s>>[1] = s
  OBVIOUS
<1>2. \A a \in 1 .. 1 : a = 1
  OBVIOUS
<1> QED
  BY <1>1, <1>2, SteadyWell

LEMMA AllWellTimed == \A x \in Experiments : WellTimed(x)
<1>1. WellTimed(A3q1)
  <2> DEFINE s == Source("tcp", "inet", 2000, 50000, 2000000, 1, 25, 1000)
  <2>1. s.packets = 50000 /\ s.interval = 8 /\ s.start = 1000 /\ s.stop = 25000
    BY DEF Source, Interval
  <2> HIDE DEF s
  <2>2. WellTimed(Steady(<<s>>, 25 * 1000))
    BY <2>1, OneSource
  <2> QED
    BY <2>2 DEF A3q1, s
<1>2. ASSUME NEW mbps \in {1, 2, 4, 5, 8, 12} PROVE WellTimed(A3q2(mbps * 1000000))
  <2> DEFINE s == Source("tcp", "inet", 3000, 100000, mbps * 1000000, 1, 40, 10000)
  <2>1. s.packets = 100000 /\ s.interval \in Nat \ {0} /\ s.start = 10000 /\ s.stop = 400000
    BY DEF Source, Interval
  <2> HIDE DEF s
  <2>2. WellTimed(Steady(<<s>>, 40 * 10000))
    BY <2>1, OneSource
  <2> QED
    BY <2>2 DEF A3q2, s
<1>3. WellTimed(A3q3)
  <2> DEFINE apps == <<TCPApp, UDPAppLowRate, UDPAppHighRate>>
  <2>1. /\ Len(apps) = 3 /\ DOMAIN apps = 1 .. 3
        /\ apps[1] = TCPApp /\ apps[2] = UDPAppLowRate /\ apps[3] = UDPAppHighRate
    OBVIOUS
  <2>2. /\ TCPApp.packets = 100000 /\ TCPApp.interval = 3328
        /\ TCPApp.start = 100000 /\ TCPApp.stop = 10000000 /\ TCPApp.socket = "tcp"
    BY DEF TCPApp, Source, Interval
  <2>3. /\ UDPAppLowRate.packets = 100000 /\ UDPAppLowRate.interval = 3328
        /\ UDPAppLowRate.start = 2000000 /\ UDPAppLowRate.stop = 3000000
        /\ UDPAppLowRate.socket = "udp" /\ UDPAppLowRate.peer = "ipv4"
    BY DEF UDPAppLowRate, Source, Interval
  <2>4. /\ UDPAppHighRate.packets = 100000 /\ UDPAppHighRate.interval = 1664
        /\ UDPAppHighRate.start = 3000000 /\ UDPAppHighRate.stop = 10000000
        /\ UDPAppHighRate.socket = "udp" /\ UDPAppHighRate.peer = "ipv4"
    BY DEF UDPAppHighRate, Source, Interval
  <2> HIDE DEF apps
  <2>5. \A a \in DOMAIN apps : a = 1 \/ a = 2 \/ a = 3
    BY <2>1
  <2>6. WellTimed(Steady(apps, 100 * 100000))
    BY <2>1, <2>2, <2>3, <2>4, <2>5, SteadyWell
  <2> QED
    BY <2>6 DEF A3q3, apps
<1>4. WellTimed(A4q1)
  <2> DEFINE s1 == Source("tcp1", "inet", 3000, 100000, 1500000, 1, 20, 1000)
             s2 == Source("tcp2", "inet", 3000, 100000, 1500000, 5, 25, 1000)
             s3 == Source("tcp3", "inet", 3000, 100000, 1500000, 15, 30, 1000)
             apps == <<s1, s2, s3>>
  <2>1. /\ Len(apps) = 3 /\ DOMAIN apps = 1 .. 3
        /\ apps[1] = s1 /\ apps[2] = s2 /\ apps[3] = s3
    OBVIOUS
  <2>2. /\ s1.packets = 100000 /\ s1.interval = 16 /\ s1.start = 1000 /\ s1.stop = 20000
        /\ s1.socket = "tcp1"
    BY DEF Source, Interval
  <2>3. /\ s2.packets = 100000 /\ s2.interval = 16 /\ s2.start = 5000 /\ s2.stop = 25000
        /\ s2.socket = "tcp2"
    BY DEF Source, Interval
  <2>4. /\ s3.packets = 100000 /\ s3.interval = 16 /\ s3.start = 15000 /\ s3.stop = 30000
        /\ s3.socket = "tcp3"
    BY DEF Source, Interval
  <2>5. A4q1 = Steady(apps, 30 * 1000)
    BY DEF A4q1
  <2> HIDE DEF apps, s1, s2, s3
  <2>6. \A a \in DOMAIN apps : a = 1 \/ a = 2 \/ a = 3
    BY <2>1
  <2>7. WellTimed(Steady(apps, 30 * 1000))
    BY <2>1, <2>2, <2>3, <2>4, <2>6, SteadyWell
  <2> QED
    BY <2>5, <2>7
<1>5. WellTimed(Short)
  <2> DEFINE s1 == Source("tcp1", "inet", 1, 9, 8, 1, 4, 1)
             s2 == Source("tcp2", "inet", 1, 2, 8, 2, 5, 1)
             apps == <<s1, s2>>
  <2>1. Len(apps) = 2 /\ DOMAIN apps = 1 .. 2 /\ apps[1] = s1 /\ apps[2] = s2
    OBVIOUS
  <2>2. s1.packets = 9 /\ s1.interval = 1 /\ s1.start = 1 /\ s1.stop = 4 /\ s1.socket = "tcp1"
    BY DEF Source, Interval
  <2>3. s2.packets = 2 /\ s2.interval = 1 /\ s2.start = 2 /\ s2.stop = 5 /\ s2.socket = "tcp2"
    BY DEF Source, Interval
  <2>4. Short = Steady(apps, 5)
    BY DEF Short
  <2> HIDE DEF apps, s1, s2
  <2>5. \A a \in DOMAIN apps : a = 1 \/ a = 2
    BY <2>1
  <2>6. WellTimed(Steady(apps, 5))
    BY <2>1, <2>2, <2>3, <2>5, SteadyWell
  <2> QED
    BY <2>4, <2>6
<1>6. WellTimed(PartA)
  <2> DEFINE x == PartA
             c == [at |-> 60 * 30000, kind |-> "rate", arg |-> 1]
             s1 == Source("udp", "inet", 1040, 100000, 300000, 30, 100, 30000)
             s2 == Source("tcp", "inet", 1040, 100000, 300000, 0, 100, 30000)
  <2>1. /\ x.apps = <<s1, s2>> /\ x.script = <<c>> /\ x.newRate = 416 /\ x.end = 3000000
    BY DEF PartA, Interval
  <2>2. c \in Entry /\ c.at = 1800000 /\ c.kind = "rate" /\ c.arg = 1
    BY DEF Entry
  <2>3. s1.packets = 100000 /\ s1.interval = 832 /\ s1.start = 900000 /\ s1.stop = 3000000
        /\ s1.socket = "udp"
    BY DEF Source, Interval
  <2>4. s2.packets = 100000 /\ s2.interval = 832 /\ s2.start = 0 /\ s2.stop = 3000000
        /\ s2.socket = "tcp"
    BY DEF Source, Interval
  <2> HIDE DEF x, c, s1, s2
  <2>5. /\ Len(x.apps) = 2 /\ DOMAIN x.apps = 1 .. 2 /\ x.apps[1] = s1 /\ x.apps[2] = s2
    BY <2>1
  <2>6. x.script \in Seq(Entry) /\ DOMAIN x.script = 1 .. 1 /\ x.script[1] = c
    BY <2>1, <2>2
  <2>7. \A a \in DOMAIN x.apps : a = 1 \/ a = 2
    BY <2>5
  <2>8. \A i \in DOMAIN x.script : i = 1
    BY <2>6
  <2>9. \A a \in DOMAIN x.apps :
          /\ x.apps[a].packets \in Nat \ {0} /\ x.apps[a].interval \in Nat \ {0}
          /\ x.apps[a].start \in Nat /\ x.apps[a].stop \in Nat
          /\ x.apps[a].start < x.apps[a].stop
    BY <2>3, <2>4, <2>5, <2>7
  <2>10. \A a, b \in DOMAIN x.apps : a # b => x.apps[a].socket # x.apps[b].socket
    BY <2>3, <2>4, <2>5, <2>7
  <2>11. \A i \in DOMAIN x.script : x.script[i].kind = "rate" =>
           /\ x.script[i].arg \in DOMAIN x.apps /\ x.newRate \in Nat \ {0}
           /\ x.script[i].at <= x.apps[x.script[i].arg].stop /\ x.script[i].at <= x.end
    BY <2>1, <2>2, <2>3, <2>5, <2>6, <2>8
  <2>12. Len(x.apps) \in Nat /\ x.end \in Nat /\ DOMAIN x.apps = 1 .. Len(x.apps)
    BY <2>1, <2>5
  <2>13. WellTimed(x)
    BY <2>6, <2>8, <2>9, <2>10, <2>11, <2>12 DEF WellTimed
  <2> QED
    BY <2>13 DEF x
<1>7. WellTimed(A4q2a)
  <2> DEFINE p == <<0, 10, 50, 100, 500>>
  <2>1. p \in Seq(Nat)
    OBVIOUS
  <2>2. A4q2a = Routed(Triangle, Prints(p), << >>, 501)
    BY DEF A4q2a
  <2> HIDE DEF p
  <2>3. Prints(p) \in Seq(Entry) /\ \A i \in DOMAIN Prints(p) : Prints(p)[i].kind # "rate"
    BY <2>1, Scripts
  <2>4. WellTimed(Routed(Triangle, Prints(p), << >>, 501))
    BY <2>3, RoutedWell
  <2> QED
    BY <2>2, <2>4
<1>8. WellTimed(A4q2b)
  <2> DEFINE p == <<49, 51, 60, 119, 121, 150, 180>>
             t == <<50, 120>>
             k == <<"tear", "tear">>
             l == <<LinkAB, LinkAC>>
  <2>1. p \in Seq(Nat)
    OBVIOUS
  <2>2. t \in Seq(Nat) /\ k \in Seq({"tear", "recreate"}) /\ Len(k) = Len(t)
    OBVIOUS
  <2>3. A4q2b = Routed(Triangle, Prints(p) \o OnLinks(t, k), l, 200)
    BY DEF A4q2b
  <2> HIDE DEF p, t, k, l
  <2>4. WellTimed(Routed(Triangle, Prints(p) \o OnLinks(t, k), l, 200))
    BY <2>1, <2>2, PrintsAndLinks
  <2> QED
    BY <2>3, <2>4
<1>9. WellTimed(A4q2c)
  <2> DEFINE p == <<70, 119, 121, 140, 180, 200>>
             t == <<50, 50, 120, 120>>
             k == <<"tear", "tear", "recreate", "recreate">>
             l == <<LinkAB, LinkAC, LinkAB, LinkAC>>
  <2>1. p \in Seq(Nat)
    OBVIOUS
  <2>2. t \in Seq(Nat) /\ k \in Seq({"tear", "recreate"}) /\ Len(k) = Len(t)
    OBVIOUS
  <2>3. A4q2c = Routed(Triangle, Prints(p) \o OnLinks(t, k), l, 201)
    BY DEF A4q2c
  <2> HIDE DEF p, t, k, l
  <2>4. WellTimed(Routed(Triangle, Prints(p) \o OnLinks(t, k), l, 201))
    BY <2>1, <2>2, PrintsAndLinks
  <2> QED
    BY <2>3, <2>4
<1>10. WellTimed(PartB)
  <2> DEFINE n == <<<<"src", "a">>, <<"a", "b">>, <<"a", "c">>, <<"b", "c">>, <<"c", "d">>,
                    <<"b", "d">>, <<"d", "dst">>>>
             p == <<29, 79, 149, 280>>
             t == <<30, 30, 80, 150>>
             k == <<"tear", "tear", "recreate", "recreate">>
             l == <<LinkBD, LinkCD, LinkCD, LinkBD>>
  <2>1. p \in Seq(Nat)
    OBVIOUS
  <2>2. t \in Seq(Nat) /\ k \in Seq({"tear", "recreate"}) /\ Len(k) = Len(t)
    OBVIOUS
  <2>3. PartB = Routed(n, Prints(p) \o OnLinks(t, k), l, 300)
    BY DEF PartB
  <2> HIDE DEF n, p, t, k, l
  <2>4. WellTimed(Routed(n, Prints(p) \o OnLinks(t, k), l, 300))
    BY <2>1, <2>2, PrintsAndLinks
  <2> QED
    BY <2>3, <2>4
<1> QED
  BY <1>1, <1>2, <1>3, <1>4, <1>5, <1>6, <1>7, <1>8, <1>9, <1>10 DEF Experiments

\* What the simulation does in the experiments of the repository.
LEMMA ExperimentsRun ==
  Spec => [](AppTypeOK /\ OneSendPending /\ SentAsPlanned)
<1>1. Init => AppInit(Experiments)
  BY DEF Init
<1>2. [Next]_vars => [Simulate]_<<appVars, linkVars>>
  BY DEF Next, vars
<1>3. AppInit(Experiments) /\ [][Simulate]_<<appVars, linkVars>>
        => [](AppTypeOK /\ OneSendPending /\ SentAsPlanned)
  BY AllWellTimed, WellTimedRuns
<1> QED
  BY <1>1, <1>2, <1>3, PTL DEF Spec

\* In all experiments of assignments 3 and 4 each application has sent what its
\* times and rates promise when the simulation ends, and its socket has taken
\* all of it, or, as for the sources of a3q3 with their peers without a port,
\* nothing, with the window moving independently.
THEOREM PlansKept == Spec => []SentAsPlanned
<1> QED
  BY ExperimentsRun, PTL

LEMMA StaysTheSame == Spec => [](experiment \in Experiments)
<1>1. Init => experiment \in Experiments
  BY DEF Init, AppInit
<1>2. experiment \in Experiments /\ [Next]_vars => (experiment \in Experiments)'
  <2> SUFFICES ASSUME experiment \in Experiments, [Next]_vars
               PROVE  experiment' \in Experiments
    OBVIOUS
  <2>1. experiment' = experiment
    <3>1. CASE UNCHANGED vars
      BY <3>1 DEF vars, appVars
    <3>2. CASE Simulate
      BY <3>2 DEF Simulate, AppNext, StartApplication, SendPacket, StopApplication,
                  ChangeRate, StopSimulation
    <3>3. CASE Followed /\ WindowNext /\ UNCHANGED <<appVars, linkVars>>
      BY <3>3 DEF appVars
    <3> QED
      BY <3>1, <3>2, <3>3 DEF Next
  <2> QED
    BY <2>1
<1> QED
  BY <1>1, <1>2, PTL DEF Spec

\* The books of simulator, applications and window are right throughout: an
\* application has one packet scheduled at most, the one its stop cancels, counts
\* stay within the packets it has, the clock within the simulation, and a segment
\* fits the window.
THEOREM BooksKept == Spec => []BooksConsistent
<1>1. WInv => cWnd \in Nat /\ ssThresh \in Nat /\ WindowFits
  BY DEF WInv, WindowTypeOK
<1>2. /\ experiment \in Experiments
      /\ AppTypeOK /\ OneSendPending /\ SentAsPlanned
      /\ cWnd \in Nat /\ ssThresh \in Nat /\ WindowFits
      => BooksConsistent
  BY DEF BooksConsistent, TypeOK
<1> QED
  BY <1>1, <1>2, StaysTheSame, ExperimentsRun, ExperimentsHaveIt, WindowInvariant, PTL

-----------------------------------------------------------------------------
(***************************************************************************)
(* The links of a network.  Links are named by interfaces, so what is      *)
(* needed is that no two networks of a node have the same interface.       *)
(***************************************************************************)
WholeLink(l) == \E k \in DOMAIN nets : l = {End(k, 1), End(k, 2)}

\* What a script tears down or sets up is a network with both its ends.
NamesLinks ==
  /\ DOMAIN nets \subseteq Nat \ {0}
  /\ \A i \in DOMAIN experiment.script :
       experiment.script[i].kind \in {"tear", "recreate"} =>
         WholeLink(experiment.links[experiment.script[i].arg])

\* The interfaces of a node are counted up network by network.
LEMMA InterfaceStep ==
  ASSUME NEW n, NEW k \in Nat
  PROVE  /\ Interface(n, k) \in Nat
         /\ Interface(n, 0) = 0
         /\ Interface(n, k + 1) = IF On(n, k + 1) THEN Interface(n, k) + 1
                                  ELSE Interface(n, k)
<1> DEFINE S == {j \in 1 .. k : On(n, j)}
           T == {j \in 1 .. (k + 1) : On(n, j)}
<1>1. IsFiniteSet(1 .. k) /\ S \in SUBSET (1 .. k)
  BY FS_Interval
<1>2. IsFiniteSet(S)
  BY <1>1, FS_Subset
<1>3. Cardinality(S) \in Nat
  BY <1>2, FS_CardinalityType
<1>4. {j \in 1 .. 0 : On(n, j)} = {}
  OBVIOUS
<1>5. T = IF On(n, k + 1) THEN S \cup {k + 1} ELSE S
  OBVIOUS
<1>6. k + 1 \notin S
  OBVIOUS
<1>7. Cardinality(S \cup {k + 1}) = Cardinality(S) + 1
  BY <1>2, <1>6, FS_AddElement
<1>8. Interface(n, k) = Cardinality(S) /\ Interface(n, k + 1) = Cardinality(T)
  BY DEF Interface
<1>9. Interface(n, 0) = 0
  BY <1>4, FS_EmptySet DEF Interface
<1> HIDE DEF S, T
<1> QED
  BY <1>3, <1>5, <1>7, <1>8, <1>9

LEMMA InterfacesDiffer ==
  ASSUME NEW n, NEW k \in Nat \ {0}, NEW m \in Nat \ {0}, k < m, On(n, m)
  PROVE  Interface(n, k) # Interface(n, m)
<1> DEFINE S == {j \in 1 .. k : On(n, j)}
           T == {j \in 1 .. m : On(n, j)}
<1>1. IsFiniteSet(1 .. m) /\ T \in SUBSET (1 .. m)
  BY FS_Interval
<1>2. IsFiniteSet(T)
  BY <1>1, FS_Subset
<1>3. S \in SUBSET T /\ S # T
  <2>1. m \in T /\ m \notin S
    OBVIOUS
  <2> QED
    BY <2>1
<1>4. Cardinality(S) # Cardinality(T)
  BY <1>2, <1>3, FS_Subset
<1> QED
  BY <1>4 DEF Interface

\* An end tells its network.
LEMMA EndNames ==
  ASSUME DOMAIN nets \subseteq Nat \ {0}, NEW k \in DOMAIN nets, NEW m \in DOMAIN nets,
         NEW s \in 1 .. 2, NEW t \in 1 .. 2, End(k, s) = End(m, t)
  PROVE  k = m
<1>1. nets[k][s] = nets[m][t] /\ Interface(nets[k][s], k) = Interface(nets[m][t], m)
  BY DEF End
<1>2. On(nets[k][s], k) /\ On(nets[m][t], m)
  <2>1. \A v \in 1 .. 2 : v = 1 \/ v = 2
    OBVIOUS
  <2> QED
    BY <2>1 DEF On
<1>3. k \in Nat \ {0} /\ m \in Nat \ {0}
  OBVIOUS
<1>4. ~ (k < m)
  BY <1>1, <1>2, <1>3, InterfacesDiffer
<1>5. ~ (m < k)
  BY <1>1, <1>2, <1>3, InterfacesDiffer
<1> QED
  BY <1>3, <1>4, <1>5

\* Tearing down or setting up a whole link leaves no network with one end down.
LEMMA WholeStep ==
  ASSUME NamesLinks, LinkEndsMatch, NEW l, WholeLink(l),
         UNCHANGED experiment, down' = down \cup l \/ down' = down \ l
  PROVE  LinkEndsMatch'
<1> DEFINE N == DOMAIN nets
<1>1. PICK m \in N : l = {End(m, 1), End(m, 2)}
  BY DEF WholeLink
<1>2. /\ \A k \in N : End(k, 1) \in down <=> End(k, 2) \in down
      /\ \A x \in down : \E k \in N, side \in 1 .. 2 : x = End(k, side)
  BY DEF LinkEndsMatch
<1>3. nets' = nets /\ \A k, side : End(k, side)' = End(k, side)
  BY DEF nets, End, Interface, On
<1>4. \A k \in N : (End(k, 1) \in l => k = m) /\ (End(k, 2) \in l => k = m)
  <2> SUFFICES ASSUME NEW k \in N, NEW s \in 1 .. 2, End(k, s) \in l PROVE k = m
    OBVIOUS
  <2>1. DOMAIN nets \subseteq Nat \ {0}
    BY DEF NamesLinks
  <2>2. PICK t \in 1 .. 2 : End(k, s) = End(m, t)
    BY <1>1
  <2> QED
    BY <2>1, <2>2, EndNames
<1>5. End(m, 1) \in l /\ End(m, 2) \in l
  BY <1>1
<1>6. \A k \in N : End(k, 1) \in down' <=> End(k, 2) \in down'
  BY <1>2, <1>4, <1>5
<1>7. \A x \in down' : \E k \in N, side \in 1 .. 2 : x = End(k, side)
  <2>1. \A x \in l : \E side \in 1 .. 2 : x = End(m, side)
    BY <1>1
  <2> QED
    BY <1>2, <2>1
<1> QED
  BY <1>3, <1>6, <1>7 DEF LinkEndsMatch, N

LEMMA LinksStep ==
  ASSUME AInv, NamesLinks, LinkEndsMatch, [Simulate]_<<appVars, linkVars>>
  PROVE  NamesLinks' /\ LinkEndsMatch'
<1>1. UNCHANGED experiment
  BY DEF Simulate, AppNext, StartApplication, SendPacket, StopApplication, ChangeRate,
         StopSimulation, appVars
<1>0. nets' = nets /\ \A k, side : End(k, side)' = End(k, side)
  BY <1>1 DEF nets, End, Interface, On
<1>2. NamesLinks'
  BY <1>0, <1>1 DEF NamesLinks, WholeLink
<1>3. ASSUME UNCHANGED down PROVE LinkEndsMatch'
  BY <1>0, <1>3 DEF LinkEndsMatch
<1>4. ASSUME NEW e \in events, TearDownLink(e) \/ RecreateLink(e)
      PROVE  LinkEndsMatch'
  <2>1. /\ e.kind \in {"tear", "recreate"}
        /\ \/ down' = down \cup experiment.links[e.app]
           \/ down' = down \ experiment.links[e.app]
    BY <1>4 DEF TearDownLink, RecreateLink, OnTime
  <2>2. PICK i \in DOMAIN experiment.script : e = ScriptEvent(experiment, i)
    BY <2>1, WhichEvent
  <2>3. e.app = experiment.script[i].arg /\ e.kind = experiment.script[i].kind
    BY <2>2 DEF ScriptEvent, Event
  <2>4. WholeLink(experiment.links[e.app])
    BY <2>1, <2>3 DEF NamesLinks
  <2> QED
    BY <1>1, <2>1, <2>4, WholeStep
<1>5. ASSUME NEW e \in events, PrintRoutingTables(e) PROVE LinkEndsMatch'
  BY <1>3, <1>5 DEF PrintRoutingTables
<1>6. ASSUME AppNext, UNCHANGED <<down, printed>> PROVE LinkEndsMatch'
  BY <1>3, <1>6
<1>7. ASSUME UNCHANGED <<appVars, linkVars>> PROVE LinkEndsMatch'
  BY <1>3, <1>7 DEF linkVars
<1> QED
  BY <1>2, <1>4, <1>5, <1>6, <1>7 DEF Simulate

\* In any network, whatever its script does to links at the same time or in any
\* order, no link is ever left with one end up and the other down, provided the
\* script names both ends of a link with the numbers their interfaces have: these
\* never name two networks.
THEOREM LinksStayWhole ==
  ASSUME NEW X, \A x \in X : WellTimed(x)
  PROVE  AppInit(X) /\ RoutingInit /\ NamesLinks /\ [][Simulate]_<<appVars, linkVars>>
           => []LinkEndsMatch
<1>1. AppInit(X) => AInv
  BY AInvInit
<1>2. AInv /\ [Simulate]_<<appVars, linkVars>> => AInv'
  BY AInvStep
<1>3. RoutingInit => LinkEndsMatch
  BY DEF RoutingInit, LinkEndsMatch
<1>4. AInv /\ NamesLinks /\ LinkEndsMatch /\ [Simulate]_<<appVars, linkVars>>
        => NamesLinks' /\ LinkEndsMatch'
  BY LinksStep
<1> QED
  BY <1>1, <1>2, <1>3, <1>4, PTL

\* The number of an interface, from that at the network before.
LEMMA Numbers ==
  ASSUME NEW n, NEW k \in Nat \ {0}
  PROVE  /\ Interface(n, 0) = 0
         /\ On(n, k) => Interface(n, k) = Interface(n, k - 1) + 1
         /\ ~On(n, k) => Interface(n, k) = Interface(n, k - 1)
<1>1. k - 1 \in Nat /\ (k - 1) + 1 = k
  OBVIOUS
<1> QED
  BY <1>1, InterfaceStep

\* Without a script nothing is named.
LEMMA SteadyNames ==
  ASSUME NEW apps, NEW end, experiment = Steady(apps, end)
  PROVE  NamesLinks
<1>1. nets = << >> /\ experiment.script = << >>
  BY DEF Steady, nets
<1> QED
  BY <1>1 DEF NamesLinks

LEMMA TriangleLinks ==
  ASSUME nets = Triangle
  PROVE  /\ DOMAIN nets \subseteq Nat \ {0} /\ WholeLink(LinkAB) /\ WholeLink(LinkAC)
         /\ LinkAB = {End(2, 1), End(2, 2)} /\ LinkAC = {End(4, 1), End(4, 2)}
<1>1. /\ DOMAIN nets = 1 .. 5
      /\ nets[1] = <<"src", "a">> /\ nets[2] = <<"a", "b">> /\ nets[3] = <<"b", "c">>
      /\ nets[4] = <<"a", "c">> /\ nets[5] = <<"c", "dst">>
  BY DEF Triangle
<1>2. /\ On("a", 1) /\ On("a", 2) /\ ~On("a", 3) /\ On("a", 4)
      /\ ~On("b", 1) /\ On("b", 2)
      /\ ~On("c", 1) /\ ~On("c", 2) /\ On("c", 3) /\ On("c", 4)
  BY <1>1 DEF On
<1>3. Interface("a", 0) = 0 /\ Interface("b", 0) = 0 /\ Interface("c", 0) = 0
  BY Numbers, 1 \in Nat \ {0}
<1>4. /\ Interface("a", 1) = Interface("a", 0) + 1
      /\ Interface("a", 2) = Interface("a", 1) + 1
      /\ Interface("a", 3) = Interface("a", 2)
      /\ Interface("a", 4) = Interface("a", 3) + 1
  BY <1>2, Numbers
<1>5. /\ Interface("b", 1) = Interface("b", 0)
      /\ Interface("b", 2) = Interface("b", 1) + 1
  BY <1>2, Numbers
<1>6. /\ Interface("c", 1) = Interface("c", 0)
      /\ Interface("c", 2) = Interface("c", 1)
      /\ Interface("c", 3) = Interface("c", 2) + 1
      /\ Interface("c", 4) = Interface("c", 3) + 1
  BY <1>2, Numbers
<1>7. /\ End(2, 1) = <<"a", 2>> /\ End(2, 2) = <<"b", 1>>
      /\ End(4, 1) = <<"a", 3>> /\ End(4, 2) = <<"c", 2>>
  BY <1>1, <1>3, <1>4, <1>5, <1>6 DEF End
<1>8. LinkAB = {End(2, 1), End(2, 2)} /\ LinkAC = {End(4, 1), End(4, 2)}
  BY <1>7 DEF LinkAB, LinkAC, Link
<1> QED
  BY <1>1, <1>8 DEF WholeLink

PartBNets ==
  <<<<"src", "a">>, <<"a", "b">>, <<"a", "c">>, <<"b", "c">>, <<"c", "d">>,
    <<"b", "d">>, <<"d", "dst">>>>

LEMMA SquareLinks ==
  ASSUME nets = PartBNets
  PROVE  /\ DOMAIN nets \subseteq Nat \ {0} /\ WholeLink(LinkBD) /\ WholeLink(LinkCD)
         /\ LinkBD = {End(6, 1), End(6, 2)} /\ LinkCD = {End(5, 1), End(5, 2)}
<1>1. /\ DOMAIN nets = 1 .. 7
      /\ nets[1] = <<"src", "a">> /\ nets[2] = <<"a", "b">> /\ nets[3] = <<"a", "c">>
      /\ nets[4] = <<"b", "c">> /\ nets[5] = <<"c", "d">> /\ nets[6] = <<"b", "d">>
      /\ nets[7] = <<"d", "dst">>
  BY DEF PartBNets
<1>2. /\ ~On("b", 1) /\ On("b", 2) /\ ~On("b", 3) /\ On("b", 4) /\ ~On("b", 5)
      /\ On("b", 6)
      /\ ~On("c", 1) /\ ~On("c", 2) /\ On("c", 3) /\ On("c", 4) /\ On("c", 5)
      /\ ~On("d", 1) /\ ~On("d", 2) /\ ~On("d", 3) /\ ~On("d", 4) /\ On("d", 5)
      /\ On("d", 6)
  BY <1>1 DEF On
<1>3. Interface("b", 0) = 0 /\ Interface("c", 0) = 0 /\ Interface("d", 0) = 0
  BY Numbers, 1 \in Nat \ {0}
<1>4. /\ Interface("b", 1) = Interface("b", 0)
      /\ Interface("b", 2) = Interface("b", 1) + 1
      /\ Interface("b", 3) = Interface("b", 2)
      /\ Interface("b", 4) = Interface("b", 3) + 1
      /\ Interface("b", 5) = Interface("b", 4)
      /\ Interface("b", 6) = Interface("b", 5) + 1
  BY <1>2, Numbers
<1>5. /\ Interface("c", 1) = Interface("c", 0)
      /\ Interface("c", 2) = Interface("c", 1)
      /\ Interface("c", 3) = Interface("c", 2) + 1
      /\ Interface("c", 4) = Interface("c", 3) + 1
      /\ Interface("c", 5) = Interface("c", 4) + 1
  BY <1>2, Numbers
<1>6. /\ Interface("d", 1) = Interface("d", 0)
      /\ Interface("d", 2) = Interface("d", 1)
      /\ Interface("d", 3) = Interface("d", 2)
      /\ Interface("d", 4) = Interface("d", 3)
      /\ Interface("d", 5) = Interface("d", 4) + 1
      /\ Interface("d", 6) = Interface("d", 5) + 1
  BY <1>2, Numbers
<1>7. /\ End(6, 1) = <<"b", 3>> /\ End(6, 2) = <<"d", 2>>
      /\ End(5, 1) = <<"c", 3>> /\ End(5, 2) = <<"d", 1>>
  BY <1>1, <1>3, <1>4, <1>5, <1>6 DEF End
<1>8. LinkBD = {End(6, 1), End(6, 2)} /\ LinkCD = {End(5, 1), End(5, 2)}
  BY <1>7 DEF LinkBD, LinkCD, Link
<1> QED
  BY <1>1, <1>8 DEF WholeLink

\* A script that prints tables and changes links one by one.
LEMMA NamedOneByOne ==
  ASSUME NEW networks, NEW links, NEW end, NEW prints \in Seq(Nat),
         NEW times \in Seq(Nat), NEW kinds \in Seq({"tear", "recreate"}),
         Len(kinds) = Len(times),
         experiment = Routed(networks, Prints(prints) \o OnLinks(times, kinds), links, end),
         DOMAIN nets \subseteq Nat \ {0}, \A i \in 1 .. Len(times) : WholeLink(links[i])
  PROVE  NamesLinks
<1> DEFINE p == Prints(prints)
           q == OnLinks(times, kinds)
<1>1. /\ p \in Seq(Entry) /\ q \in Seq(Entry)
      /\ \A i \in DOMAIN p : p[i].kind = "print"
  BY Scripts
<1>2. Len(q) = Len(times) /\ \A i \in 1 .. Len(q) : q[i].arg = i
  BY DEF OnLinks
<1>3. experiment.script = p \o q /\ experiment.links = links
  BY DEF Routed
<1> HIDE DEF p, q
<1>4. /\ Len(p) \in Nat /\ Len(q) \in Nat /\ DOMAIN p = 1 .. Len(p)
      /\ DOMAIN (p \o q) = 1 .. Len(p) + Len(q)
      /\ \A i \in 1 .. Len(p) + Len(q) :
           (p \o q)[i] = IF i <= Len(p) THEN p[i] ELSE q[i - Len(p)]
  BY <1>1
<1>5. ASSUME NEW i \in 1 .. Len(p) + Len(q), (p \o q)[i].kind \in {"tear", "recreate"}
      PROVE  WholeLink(links[(p \o q)[i].arg])
  <2>1. ~ (i <= Len(p))
    <3> SUFFICES ASSUME i <= Len(p) PROVE FALSE
      OBVIOUS
    <3>1. i \in DOMAIN p /\ (p \o q)[i] = p[i]
      BY <1>4
    <3>2. p[i].kind = "print"
      BY <1>1, <3>1
    <3> QED
      BY <1>5, <3>1, <3>2
  <2>2. i - Len(p) \in 1 .. Len(q)
    BY <1>4, <2>1
  <2>3. (p \o q)[i].arg = i - Len(p)
    BY <1>2, <1>4, <2>1, <2>2
  <2> QED
    BY <1>2, <2>2, <2>3
<1> QED
  BY <1>3, <1>4, <1>5 DEF NamesLinks

\* Those with a script, among the experiments.
LEMMA WithScripts ==
  ASSUME experiment \in Experiments
  PROVE  \/ \E apps, end : experiment = Steady(apps, end)
         \/ experiment \in {PartA, A4q2a, A4q2b, A4q2c, PartB}
<1>1. /\ \E apps, end : A3q1 = Steady(apps, end)
      /\ \E apps, end : A3q3 = Steady(apps, end)
      /\ \E apps, end : A4q1 = Steady(apps, end)
      /\ \E apps, end : Short = Steady(apps, end)
  BY DEF A3q1, A3q3, A4q1, Short
<1>2. \A r : \E apps, end : A3q2(r) = Steady(apps, end)
  BY DEF A3q2
<1> QED
  BY <1>1, <1>2 DEF Experiments

LEMMA ExperimentsName ==
  ASSUME experiment \in Experiments
  PROVE  NamesLinks
<1>1. CASE \E apps, end : experiment = Steady(apps, end)
  BY <1>1, SteadyNames
<1>2. CASE experiment = PartA
  <2>1. /\ nets = << >> /\ DOMAIN experiment.script = {1}
        /\ experiment.script[1].kind = "rate"
    BY <1>2 DEF PartA, nets
  <2> QED
    BY <2>1 DEF NamesLinks
<1>3. CASE experiment = A4q2a
  <2> DEFINE p == <<0, 10, 50, 100, 500>>
  <2>1. p \in Seq(Nat)
    OBVIOUS
  <2>2. experiment = Routed(Triangle, Prints(p), << >>, 501)
    BY <1>3 DEF A4q2a
  <2> HIDE DEF p
  <2>3. nets = Triangle /\ experiment.script = Prints(p)
    BY <2>2 DEF nets, Routed
  <2>4. \A i \in DOMAIN experiment.script : experiment.script[i].kind = "print"
    BY <2>1, <2>3, Scripts
  <2> QED
    BY <2>3, <2>4, TriangleLinks DEF NamesLinks
<1>4. CASE experiment = A4q2b
  <2> DEFINE p == <<49, 51, 60, 119, 121, 150, 180>>
             t == <<50, 120>>
             k == <<"tear", "tear">>
             l == <<LinkAB, LinkAC>>
  <2>1. p \in Seq(Nat)
    OBVIOUS
  <2>2. /\ t \in Seq(Nat) /\ k \in Seq({"tear", "recreate"}) /\ Len(k) = Len(t)
        /\ 1 .. Len(t) = {1, 2}
    OBVIOUS
  <2>3. l[1] = LinkAB /\ l[2] = LinkAC
    OBVIOUS
  <2>4. experiment = Routed(Triangle, Prints(p) \o OnLinks(t, k), l, 200)
    BY <1>4 DEF A4q2b
  <2> HIDE DEF p, t, k, l
  <2>5. nets = Triangle
    BY <2>4 DEF nets, Routed
  <2>6. DOMAIN nets \subseteq Nat \ {0} /\ \A i \in 1 .. Len(t) : WholeLink(l[i])
    BY <2>2, <2>3, <2>5, TriangleLinks
  <2> QED
    BY <2>1, <2>2, <2>4, <2>6, NamedOneByOne
<1>5. CASE experiment = A4q2c
  <2> DEFINE p == <<70, 119, 121, 140, 180, 200>>
             t == <<50, 50, 120, 120>>
             k == <<"tear", "tear", "recreate", "recreate">>
             l == <<LinkAB, LinkAC, LinkAB, LinkAC>>
  <2>1. p \in Seq(Nat)
    OBVIOUS
  <2>2. /\ t \in Seq(Nat) /\ k \in Seq({"tear", "recreate"}) /\ Len(k) = Len(t)
        /\ 1 .. Len(t) = {1, 2, 3, 4}
    OBVIOUS
  <2>3. l[1] = LinkAB /\ l[2] = LinkAC /\ l[3] = LinkAB /\ l[4] = LinkAC
    OBVIOUS
  <2>4. experiment = Routed(Triangle, Prints(p) \o OnLinks(t, k), l, 201)
    BY <1>5 DEF A4q2c
  <2> HIDE DEF p, t, k, l
  <2>5. nets = Triangle
    BY <2>4 DEF nets, Routed
  <2>6. DOMAIN nets \subseteq Nat \ {0} /\ \A i \in 1 .. Len(t) : WholeLink(l[i])
    BY <2>2, <2>3, <2>5, TriangleLinks
  <2> QED
    BY <2>1, <2>2, <2>4, <2>6, NamedOneByOne
<1>6. CASE experiment = PartB
  <2> DEFINE p == <<29, 79, 149, 280>>
             t == <<30, 30, 80, 150>>
             k == <<"tear", "tear", "recreate", "recreate">>
             l == <<LinkBD, LinkCD, LinkCD, LinkBD>>
  <2>1. p \in Seq(Nat)
    OBVIOUS
  <2>2. /\ t \in Seq(Nat) /\ k \in Seq({"tear", "recreate"}) /\ Len(k) = Len(t)
        /\ 1 .. Len(t) = {1, 2, 3, 4}
    OBVIOUS
  <2>3. l[1] = LinkBD /\ l[2] = LinkCD /\ l[3] = LinkCD /\ l[4] = LinkBD
    OBVIOUS
  <2>4. experiment = Routed(PartBNets, Prints(p) \o OnLinks(t, k), l, 300)
    BY <1>6 DEF PartB, PartBNets
  <2> HIDE DEF p, t, k, l
  <2>5. nets = PartBNets
    BY <2>4 DEF nets, Routed
  <2>6. DOMAIN nets \subseteq Nat \ {0} /\ \A i \in 1 .. Len(t) : WholeLink(l[i])
    BY <2>2, <2>3, <2>5, SquareLinks
  <2> QED
    BY <2>1, <2>2, <2>4, <2>6, NamedOneByOne
<1> QED
  BY <1>1, <1>2, <1>3, <1>4, <1>5, <1>6, WithScripts

\* In the experiments of assignment 4 no link is ever left with one end down:
\* the interface numbers in their scripts are those of the links they mean.
THEOREM LinksNamedRight == Spec => []LinkEndsMatch
<1>1. Init => AppInit(Experiments) /\ RoutingInit /\ NamesLinks
  BY ExperimentsName DEF Init, AppInit
<1>2. [Next]_vars => [Simulate]_<<appVars, linkVars>>
  BY DEF Next, vars
<1>3. AppInit(Experiments) /\ RoutingInit /\ NamesLinks
        /\ [][Simulate]_<<appVars, linkVars>> => []LinkEndsMatch
  BY AllWellTimed, LinksStayWhole
<1> QED
  BY <1>1, <1>2, <1>3, PTL DEF Spec

-----------------------------------------------------------------------------
(***************************************************************************)
(* The order of a script.  Where there are no applications, all that runs  *)
(* is the script, and it runs in one order.                                *)
(***************************************************************************)
At(i) == experiment.script[i].at

\* Entry i of the script comes before entry j.
Earlier(i, j) == At(i) < At(j) \/ (At(i) = At(j) /\ i < j)

\* The entries that have been run.
Done == {i \in DOMAIN experiment.script : ScriptEvent(experiment, i) \notin events}

\* A script without applications that is over before the simulation is.
ScriptOnly ==
  /\ experiment.apps = << >>
  /\ \A i \in DOMAIN experiment.script : At(i) < experiment.end

\* Entries are run in order, and in time.
OrderInv ==
  /\ \A i \in Done, j \in DOMAIN experiment.script \ Done : Earlier(i, j)
  /\ \A i \in Done : At(i) <= now

\* Time passes under the topology there was.
Passing == seen' = IF now' > now THEN seen \cup {down} ELSE seen

\* What a step does that runs entry i.
Runs(i) ==
  /\ i \in DOMAIN experiment.script \ Done /\ Done' = Done \cup {i}
  /\ \A j \in DOMAIN experiment.script \ Done : j # i => Earlier(i, j)
  /\ now' = At(i) /\ Passing
  /\ \/ /\ experiment.script[i].kind = "print"
        /\ printed' = printed \cup {down} /\ down' = down
     \/ /\ experiment.script[i].kind = "tear"
        /\ down' = down \cup experiment.links[experiment.script[i].arg]
        /\ printed' = printed
     \/ /\ experiment.script[i].kind = "recreate"
        /\ down' = down \ experiment.links[experiment.script[i].arg]
        /\ printed' = printed

\* And one that runs none: the end, or a stutter.
RunsNone ==
  /\ Done' = Done /\ UNCHANGED <<down, printed>>
  /\ \/ UNCHANGED <<now, seen>>
     \/ Done = DOMAIN experiment.script /\ now' = experiment.end /\ Passing

LEMMA ScriptEvents ==
  ASSUME AInv, NEW i \in DOMAIN experiment.script
  PROVE  LET e == ScriptEvent(experiment, i) IN
         /\ e.at = At(i) /\ e.uid = i - 1 /\ e.kind = experiment.script[i].kind
         /\ e.app = experiment.script[i].arg
         /\ At(i) \in Nat /\ i \in Nat \ {0} /\ experiment.end \in Nat
<1>1. WellTimed(experiment)
  BY DEF AInv
<1>2. i \in 1 .. Len(experiment.script) /\ Len(experiment.script) \in Nat
  BY <1>1, WellTimedFacts
<1>3. experiment.script[i] \in Entry /\ experiment.end \in Nat
  BY <1>1 DEF WellTimed
<1> QED
  BY <1>2, <1>3 DEF ScriptEvent, Event, Entry, At

LEMMA NoAppEvents ==
  ASSUME AInv, ScriptOnly, NEW e \in events
  PROVE  \/ e = EndEvent(experiment) /\ e.kind = "end"
         \/ \E i \in DOMAIN experiment.script : e = ScriptEvent(experiment, i)
<1>1. Apps = {}
  BY DEF ScriptOnly, Apps
<1>2. e = EndEvent(experiment) \/ \E i \in DOMAIN experiment.script : e = ScriptEvent(experiment, i)
  BY <1>1 DEF AInv, KnownEvent
<1> QED
  BY <1>2 DEF EndEvent, Event

\* No rate is changed where no application is.
LEMMA NoRates ==
  ASSUME AInv, ScriptOnly, NEW i \in DOMAIN experiment.script
  PROVE  experiment.script[i].kind \in {"tear", "recreate", "print"}
<1>1. WellTimed(experiment) /\ DOMAIN experiment.apps = {}
  BY DEF AInv, ScriptOnly
<1>2. experiment.script[i] \in Entry
  BY <1>1 DEF WellTimed
<1> QED
  BY <1>1, <1>2 DEF WellTimed, Entry

\* An entry that is run leaves the others where they are.
LEMMA EntryRuns ==
  ASSUME AInv, ScriptOnly, NEW i \in DOMAIN experiment.script,
         IsNext(ScriptEvent(experiment, i)), UNCHANGED experiment,
         events' = events \ {ScriptEvent(experiment, i)}
  PROVE  /\ i \notin Done /\ Done' = Done \cup {i}
         /\ \A j \in DOMAIN experiment.script \ Done : j # i => Earlier(i, j)
<1> DEFINE D == DOMAIN experiment.script
           ev(j) == ScriptEvent(experiment, j)
<1>1. ev(i) \in events /\ \A f \in events : f # ev(i) => Precedes(ev(i), f)
  BY DEF IsNext
<1>2. \A j \in D : ev(j).at = At(j) /\ ev(j).uid = j - 1 /\ At(j) \in Nat /\ j \in Nat
  BY ScriptEvents
<1>3. \A j \in D : j # i => ev(j) # ev(i)
  <2>1. \A j \in D : j # i => j - 1 # i - 1
    BY <1>2
  <2> QED
    BY <1>2, <2>1
<1>4. Done' = {j \in D : ev(j) \notin events'}
  BY DEF Done, ScriptEvent
<1>5. ASSUME NEW j \in D \ Done, j # i PROVE Earlier(i, j)
  <2>1. Precedes(ev(i), ev(j))
    BY <1>1, <1>3, <1>5 DEF Done
  <2>2. /\ ev(i).at = At(i) /\ ev(i).uid = i - 1 /\ At(i) \in Nat /\ i \in Nat
        /\ ev(j).at = At(j) /\ ev(j).uid = j - 1 /\ At(j) \in Nat /\ j \in Nat
    BY <1>2, <1>5
  <2> HIDE DEF ev
  <2>3. At(i) < At(j) \/ (At(i) = At(j) /\ i - 1 < j - 1)
    BY <2>1, <2>2 DEF Precedes
  <2> QED
    BY <2>2, <2>3 DEF Earlier
<1> HIDE DEF ev, D
<1>6. Done = {j \in D : ev(j) \notin events}
  BY DEF Done, D, ev
<1>7. Done' = Done \cup {i} /\ i \notin Done
  BY <1>1, <1>3, <1>4, <1>6 DEF D, ev
<1> QED
  BY <1>5, <1>7 DEF D

\* Every step of a simulation without applications runs an entry, or none.
LEMMA ScriptStep ==
  ASSUME AInv, ScriptOnly, [Simulate]_<<appVars, linkVars>>
  PROVE  RunsNone \/ \E i \in DOMAIN experiment.script : Runs(i)
<1>1. UNCHANGED experiment
  BY DEF Simulate, AppNext, StartApplication, SendPacket, StopApplication, ChangeRate,
         StopSimulation, appVars
<1>2. CASE UNCHANGED <<appVars, linkVars>>
  BY <1>2 DEF RunsNone, Done, ScriptEvent, appVars, linkVars
<1>3. ASSUME NEW e \in events, Passing,
             \/ TearDownLink(e) \/ RecreateLink(e) \/ PrintRoutingTables(e)
      PROVE  \E i \in DOMAIN experiment.script : Runs(i)
  <2>1. /\ IsNext(e) /\ now' = e.at /\ events' = events \ {e}
        /\ e.kind \in {"tear", "recreate", "print"}
    BY <1>3 DEF TearDownLink, RecreateLink, PrintRoutingTables, OnTime
  <2>2. PICK i \in DOMAIN experiment.script : e = ScriptEvent(experiment, i)
    BY <2>1, NoAppEvents
  <2>3. /\ e.at = At(i) /\ e.kind = experiment.script[i].kind
        /\ e.app = experiment.script[i].arg
    BY <2>2, ScriptEvents
  <2>4. /\ i \notin Done /\ Done' = Done \cup {i}
        /\ \A j \in DOMAIN experiment.script \ Done : j # i => Earlier(i, j)
    BY <1>1, <2>1, <2>2, EntryRuns
  <2>5. \/ e.kind = "print" /\ printed' = printed \cup {down} /\ down' = down
        \/ /\ e.kind = "tear" /\ down' = down \cup experiment.links[e.app]
           /\ printed' = printed
        \/ /\ e.kind = "recreate" /\ down' = down \ experiment.links[e.app]
           /\ printed' = printed
    BY <1>3 DEF TearDownLink, RecreateLink, PrintRoutingTables, OnTime
  <2>6. Runs(i)
    BY <1>3, <2>1, <2>3, <2>4, <2>5 DEF Runs
  <2> QED
    BY <2>6
<1>4. ASSUME AppNext, UNCHANGED <<down, printed>>, Passing PROVE RunsNone
  <2>1. PICK e \in events : \/ StartApplication(e) \/ SendPacket(e) \/ StopApplication(e)
                            \/ ChangeRate(e) \/ StopSimulation(e)
    BY <1>4 DEF AppNext
  <2>2. e.kind \in {"start", "send", "stop", "rate", "end"}
    BY <2>1 DEF StartApplication, SendPacket, StopApplication, ChangeRate, StopSimulation
  <2>3. e = EndEvent(experiment)
    <3>1. ASSUME NEW i \in DOMAIN experiment.script, e = ScriptEvent(experiment, i)
          PROVE  FALSE
      BY <2>2, <3>1, NoRates, ScriptEvents
    <3> QED
      BY <3>1, NoAppEvents
  <2>4. e.kind = "end" /\ e.at = experiment.end
    BY <2>3 DEF EndEvent, Event
  <2>5. IsNext(e) /\ events' = {} /\ now' = experiment.end
    BY <2>1, <2>4
    DEF StartApplication, SendPacket, StopApplication, ChangeRate, StopSimulation
  <2>6. ASSUME NEW i \in DOMAIN experiment.script PROVE i \in Done
    <3>1. At(i) < experiment.end /\ At(i) \in Nat /\ experiment.end \in Nat
      BY ScriptEvents DEF ScriptOnly
    <3>2. ScriptEvent(experiment, i).at = At(i)
      BY ScriptEvents
    <3>3. ScriptEvent(experiment, i) \notin events
      BY <2>4, <2>5, <3>1, <3>2 DEF IsNext, Precedes
    <3> QED
      BY <3>3 DEF Done
  <2>7. Done = DOMAIN experiment.script /\ Done' = Done
    BY <1>1, <2>5, <2>6 DEF Done
  <2> QED
    BY <1>4, <2>5, <2>7 DEF RunsNone
<1>5. ASSUME Simulate PROVE Passing
  BY <1>5 DEF Simulate, Passing
<1> QED
  BY <1>2, <1>3, <1>4, <1>5 DEF Simulate

\* What is needed of Earlier.
LEMMA EarlierOrders ==
  ASSUME AInv, NEW i \in DOMAIN experiment.script, NEW j \in DOMAIN experiment.script
  PROVE  /\ Earlier(i, j) => At(i) <= At(j) /\ ~Earlier(j, i)
         /\ At(i) \in Nat /\ At(j) \in Nat
<1>1. At(i) \in Nat /\ At(j) \in Nat /\ i \in Nat /\ j \in Nat
  BY ScriptEvents
<1> QED
  BY <1>1 DEF Earlier

LEMMA OrderStep ==
  ASSUME AInv, ScriptOnly, OrderInv, [Simulate]_<<appVars, linkVars>>
  PROVE  OrderInv'
<1>1. UNCHANGED experiment
  BY DEF Simulate, AppNext, StartApplication, SendPacket, StopApplication, ChangeRate,
         StopSimulation, appVars
<1>2. \A i, j : At(i)' = At(i) /\ Earlier(i, j)' = Earlier(i, j)
  BY <1>1 DEF At, Earlier
<1>3. ASSUME NEW i \in DOMAIN experiment.script, Runs(i) PROVE OrderInv'
  <2>1. /\ i \notin Done /\ Done' = Done \cup {i} /\ now' = At(i)
        /\ \A j \in DOMAIN experiment.script \ Done : j # i => Earlier(i, j)
    BY <1>3 DEF Runs
  <2>2. \A a \in Done', b \in DOMAIN experiment.script \ Done' : Earlier(a, b)
    BY <2>1 DEF OrderInv
  <2>3. \A a \in Done' : At(a) <= now'
    <3>1. ASSUME NEW a \in Done PROVE At(a) <= At(i)
      <4>1. Earlier(a, i) /\ a \in DOMAIN experiment.script
        BY <2>1 DEF OrderInv, Done
      <4> QED
        BY <4>1, EarlierOrders
    <3>2. At(i) <= At(i)
      BY EarlierOrders
    <3> QED
      BY <2>1, <3>1, <3>2
  <2> QED
    BY <1>1, <1>2, <2>2, <2>3 DEF OrderInv
<1>4. ASSUME RunsNone PROVE OrderInv'
  <2>1. Done' = Done /\ (now' = now \/ now' = experiment.end)
    BY <1>4 DEF RunsNone
  <2>2. \A i \in Done : At(i) <= now'
    <3>1. ASSUME NEW i \in Done PROVE At(i) <= experiment.end
      <4>1. i \in DOMAIN experiment.script
        BY DEF Done
      <4>2. At(i) < experiment.end /\ At(i) \in Nat /\ experiment.end \in Nat
        BY <4>1, ScriptEvents DEF ScriptOnly
      <4> QED
        BY <4>2
    <3> QED
      BY <2>1, <3>1 DEF OrderInv
  <2> QED
    BY <1>1, <1>2, <2>1, <2>2 DEF OrderInv
<1> QED
  BY <1>3, <1>4, ScriptStep

LEMMA NothingDone ==
  ASSUME AInv, events = InitialEvents(experiment)
  PROVE  Done = {}
<1>1. DOMAIN experiment.script = 1 .. Len(experiment.script)
  BY WellTimedFacts DEF AInv
<1>2. \A i \in DOMAIN experiment.script : ScriptEvent(experiment, i) \in events
  BY <1>1 DEF InitialEvents, ScriptEvent
<1> QED
  BY <1>2 DEF Done

-----------------------------------------------------------------------------
IsPrint(i) == i \in DOMAIN experiment.script /\ experiment.script[i].kind = "print"
IsTear(i) == i \in DOMAIN experiment.script /\ experiment.script[i].kind = "tear"
IsRecreate(i) == i \in DOMAIN experiment.script /\ experiment.script[i].kind = "recreate"
IsChange(i) == IsTear(i) \/ IsRecreate(i)

\* The link that entry i names.
LinkOf(i) == experiment.links[experiment.script[i].arg]

\* Entry r sets up again what entry b has torn down.
Undoes(r, b) == IsRecreate(r) /\ Earlier(b, r) /\ LinkOf(r) = LinkOf(b)

\* Entry p finds all links up.
AllUp(p) ==
  \A b \in DOMAIN experiment.script : IsTear(b) /\ Earlier(b, p) =>
    \E r \in DOMAIN experiment.script : Undoes(r, b) /\ Earlier(r, p)

\* Before a change of links the tables are printed, after the change before it,
\* unless that one is made at the same time; those of the start may be printed
\* when all links are up again.  They are printed after the last change.
PrintsPhases ==
  /\ \A c \in DOMAIN experiment.script : IsChange(c) =>
       \/ \E b \in DOMAIN experiment.script :
            IsChange(b) /\ Earlier(b, c) /\ At(b) = At(c)
       \/ \E p \in DOMAIN experiment.script :
            /\ IsPrint(p) /\ Earlier(p, c)
            /\ \A b \in DOMAIN experiment.script :
                 IsChange(b) /\ Earlier(b, c) => Earlier(b, p)
       \/ /\ \A b \in DOMAIN experiment.script : IsChange(b) => ~Earlier(b, c)
          /\ \E p \in DOMAIN experiment.script : IsPrint(p) /\ AllUp(p)
  /\ \E p \in DOMAIN experiment.script :
       IsPrint(p) /\ \A b \in DOMAIN experiment.script : IsChange(b) => Earlier(b, p)

\* What is down was torn down and not set up again.
DownBooks ==
  \A x \in down : \E b \in Done :
    IsTear(b) /\ x \in LinkOf(b) /\ \A r \in Done : ~Undoes(r, b)

\* Inductive: what was printed after the last change is what is down; what was
\* down while time passed has been printed, the topology of the start excepted,
\* which has been printed or will be.
PhaseInv ==
  /\ \A p \in Done : IsPrint(p) /\ (\A b \in Done : IsChange(b) => Earlier(b, p))
       => down \in printed
  /\ seen \subseteq printed \cup {{}}
  /\ {} \in seen => \/ {} \in printed
                    \/ \E p \in DOMAIN experiment.script \ Done : IsPrint(p) /\ AllUp(p)

\* The script does not change.
LEMMA SameScript ==
  ASSUME [Simulate]_<<appVars, linkVars>>
  PROVE  /\ experiment' = experiment
         /\ \A i : /\ At(i)' = At(i) /\ LinkOf(i)' = LinkOf(i) /\ IsChange(i)' = IsChange(i)
                   /\ IsPrint(i)' = IsPrint(i) /\ IsTear(i)' = IsTear(i)
                   /\ IsRecreate(i)' = IsRecreate(i) /\ AllUp(i)' = AllUp(i)
         /\ \A i, j : Earlier(i, j)' = Earlier(i, j) /\ Undoes(i, j)' = Undoes(i, j)
<1>1. UNCHANGED experiment
  BY DEF Simulate, AppNext, StartApplication, SendPacket, StopApplication, ChangeRate,
         StopSimulation, appVars
<1>2. \A i : /\ At(i)' = At(i) /\ LinkOf(i)' = LinkOf(i) /\ IsChange(i)' = IsChange(i)
             /\ IsPrint(i)' = IsPrint(i) /\ IsTear(i)' = IsTear(i)
             /\ IsRecreate(i)' = IsRecreate(i)
  BY <1>1 DEF At, LinkOf, IsChange, IsPrint, IsTear, IsRecreate
<1>3. \A i, j : Earlier(i, j)' = Earlier(i, j) /\ Undoes(i, j)' = Undoes(i, j)
  BY <1>2 DEF Earlier, Undoes
<1>4. \A i : AllUp(i)' = AllUp(i)
  BY <1>1, <1>2, <1>3 DEF AllUp
<1> QED
  BY <1>1, <1>2, <1>3, <1>4

LEMMA ScriptStays ==
  ASSUME ScriptOnly, [Simulate]_<<appVars, linkVars>>
  PROVE  ScriptOnly' /\ (PrintsPhases => PrintsPhases')
<1>1. ScriptOnly'
  BY SameScript DEF ScriptOnly
<1>2. PrintsPhases => PrintsPhases'
  BY SameScript DEF PrintsPhases
<1> QED
  BY <1>1, <1>2

LEMMA DownStep ==
  ASSUME AInv, ScriptOnly, OrderInv, DownBooks, [Simulate]_<<appVars, linkVars>>
  PROVE  DownBooks'
<1> DEFINE D == DOMAIN experiment.script
<1>1. /\ \A i \in Done, j \in D \ Done : Earlier(i, j)
      /\ Done \subseteq D
  BY DEF OrderInv, Done
<1>2. ASSUME NEW i \in D, Runs(i) PROVE DownBooks'
  <2>1. /\ i \notin Done /\ Done' = Done \cup {i}
        /\ \/ IsPrint(i) /\ down' = down
           \/ IsTear(i) /\ down' = down \cup LinkOf(i)
           \/ IsRecreate(i) /\ down' = down \ LinkOf(i)
    BY <1>2 DEF Runs, IsPrint, IsTear, IsRecreate, LinkOf
  <2>2. ASSUME NEW x \in down', x \in down
        PROVE  \E b \in Done' : IsTear(b) /\ x \in LinkOf(b) /\ \A r \in Done' : ~Undoes(r, b)
    <3>1. PICK b \in Done : IsTear(b) /\ x \in LinkOf(b) /\ \A r \in Done : ~Undoes(r, b)
      BY <2>2 DEF DownBooks
    <3>2. ~Undoes(i, b)
      <4> SUFFICES ASSUME IsRecreate(i), LinkOf(i) = LinkOf(b) PROVE FALSE
        BY DEF Undoes
      <4>1. down' = down \ LinkOf(i)
        BY <2>1 DEF IsPrint, IsTear, IsRecreate
      <4> QED
        BY <2>2, <3>1, <4>1
    <3> QED
      BY <2>1, <3>1, <3>2
  <2>3. ASSUME NEW x \in down', x \notin down
        PROVE  \E b \in Done' : IsTear(b) /\ x \in LinkOf(b) /\ \A r \in Done' : ~Undoes(r, b)
    <3>1. IsTear(i) /\ x \in LinkOf(i)
      BY <2>1, <2>3
    <3>2. ASSUME NEW r \in Done', Undoes(r, i) PROVE FALSE
      <4>1. r # i /\ Earlier(i, r)
        BY <3>1, <3>2 DEF Undoes, IsTear, IsRecreate
      <4>2. r \in Done /\ r \in D /\ Earlier(r, i)
        BY <1>1, <2>1, <3>2, <4>1
      <4> QED
        BY <4>1, <4>2, EarlierOrders
    <3> QED
      BY <2>1, <3>1, <3>2
  <2> QED
    BY <2>2, <2>3, SameScript DEF DownBooks
<1>3. ASSUME RunsNone PROVE DownBooks'
  BY <1>3, SameScript DEF DownBooks, RunsNone
<1> QED
  BY <1>2, <1>3, ScriptStep

LEMMA PhaseStep ==
  ASSUME AInv, ScriptOnly, PrintsPhases, OrderInv, DownBooks, PhaseInv,
         [Simulate]_<<appVars, linkVars>>
  PROVE  PhaseInv'
<1> DEFINE D == DOMAIN experiment.script
<1>1. /\ \A i \in Done, j \in D \ Done : Earlier(i, j)
      /\ \A i \in Done : At(i) <= now
      /\ Done \subseteq D
  BY DEF OrderInv, Done
<1>2. \A i \in D : /\ ~ (IsPrint(i) /\ IsChange(i))
                   /\ IsRecreate(i) => IsChange(i)
                   /\ IsTear(i) => IsChange(i)
  BY DEF IsPrint, IsChange, IsTear, IsRecreate
<1>3. ASSUME NEW i \in D, Runs(i), IsPrint(i) PROVE PhaseInv'
  <2>1. /\ printed' = printed \cup {down} /\ down' = down /\ i \notin Done
        /\ Done' = Done \cup {i} /\ \A j \in D \ Done : j # i => Earlier(i, j)
    BY <1>3 DEF Runs, IsPrint
  <2>2. seen' \subseteq seen \cup {down}
    BY <1>3 DEF Runs, Passing
  <2>3. ASSUME AllUp(i) PROVE down = {}
    <3> SUFFICES ASSUME NEW x \in down PROVE FALSE
      OBVIOUS
    <3>1. PICK b \in Done : IsTear(b) /\ x \in LinkOf(b) /\ \A r \in Done : ~Undoes(r, b)
      BY DEF DownBooks
    <3>2. b \in D /\ Earlier(b, i)
      BY <1>1, <2>1
    <3>3. PICK r \in D : Undoes(r, b) /\ Earlier(r, i)
      BY <2>3, <3>1, <3>2 DEF AllUp
    <3>4. r \in D \ Done /\ r # i
      BY <1>2, <1>3, <3>1, <3>3 DEF Undoes
    <3>5. Earlier(i, r)
      BY <2>1, <3>4
    <3> QED
      BY <3>3, <3>5, EarlierOrders
  <2>4. ASSUME {} \in seen'
        PROVE  {} \in printed' \/ \E p \in D \ Done' : IsPrint(p) /\ AllUp(p)
    <3>1. CASE down = {}
      BY <2>1, <3>1
    <3>2. CASE down # {}
      <4>1. {} \in printed \/ \E p \in D \ Done : IsPrint(p) /\ AllUp(p)
        BY <2>2, <2>4, <3>2 DEF PhaseInv
      <4> QED
        BY <2>1, <2>3, <3>2, <4>1
    <3> QED
      BY <3>1, <3>2
  <2>5. seen' \subseteq printed' \cup {{}} /\ down' \in printed'
    BY <2>1, <2>2 DEF PhaseInv
  <2> QED
    BY <2>4, <2>5, SameScript DEF PhaseInv
<1>4. ASSUME NEW i \in D, Runs(i), IsChange(i) PROVE PhaseInv'
  <2>1. /\ i \notin Done /\ Done' = Done \cup {i} /\ now' = At(i) /\ printed' = printed
        /\ \A j \in D \ Done : j # i => Earlier(i, j)
        /\ seen' = IF now' > now THEN seen \cup {down} ELSE seen
    BY <1>4 DEF Runs, Passing, IsChange, IsTear, IsRecreate
  <2>2. ASSUME NEW p \in Done', IsPrint(p), \A b \in Done' : IsChange(b) => Earlier(b, p)
        PROVE  FALSE
    <3>1. p \in Done /\ p \in D
      BY <1>1, <1>2, <1>4, <2>1, <2>2
    <3>2. Earlier(p, i) /\ Earlier(i, p)
      BY <1>1, <1>4, <2>1, <2>2, <3>1
    <3> QED
      BY <3>1, <3>2, EarlierOrders
  <2>3. ASSUME now' > now
        PROVE  \/ down \in printed
               \/ down = {} /\ \E p \in D \ Done : IsPrint(p) /\ AllUp(p)
    <3>1. ASSUME NEW b \in D, IsChange(b), Earlier(b, i), At(b) = At(i) PROVE FALSE
      <4>1. b \notin Done
        <5>1. ~ (At(i) <= now)
          <6>1. At(i) \in Nat /\ now \in Nat
            BY ScriptEvents DEF AInv
          <6> QED
            BY <2>1, <2>3, <6>1
        <5> QED
          BY <1>1, <3>1, <5>1
      <4>2. b = i \/ Earlier(i, b)
        BY <2>1, <4>1
      <4> QED
        BY <3>1, <4>2, EarlierOrders
    <3>2. ASSUME NEW p \in D, IsPrint(p), Earlier(p, i),
                 \A b \in D : IsChange(b) /\ Earlier(b, i) => Earlier(b, p)
          PROVE  down \in printed
      <4>1. p \in Done
        <5> SUFFICES ASSUME p \notin Done PROVE FALSE
          OBVIOUS
        <5>1. Earlier(i, p)
          BY <1>2, <1>4, <2>1, <3>2
        <5> QED
          BY <3>2, <5>1, EarlierOrders
      <4>2. \A b \in Done : IsChange(b) => Earlier(b, p)
        BY <1>1, <2>1, <3>2
      <4> QED
        BY <3>2, <4>1, <4>2 DEF PhaseInv
    <3>3. ASSUME \A b \in D : IsChange(b) => ~Earlier(b, i),
                 NEW p \in D, IsPrint(p), AllUp(p), down \notin printed
          PROVE  down = {} /\ p \notin Done
      <4>1. \A b \in Done : ~IsChange(b)
        BY <1>1, <2>1, <3>3
      <4>2. down = {}
        BY <1>1, <1>2, <4>1 DEF DownBooks
      <4>3. p \notin Done
        BY <3>3, <4>1 DEF PhaseInv
      <4> QED
        BY <4>2, <4>3
    <3>4. \/ \E p \in D : /\ IsPrint(p) /\ Earlier(p, i)
                          /\ \A b \in D : IsChange(b) /\ Earlier(b, i) => Earlier(b, p)
          \/ /\ \A b \in D : IsChange(b) => ~Earlier(b, i)
             /\ \E p \in D : IsPrint(p) /\ AllUp(p)
      BY <1>4, <3>1 DEF PrintsPhases
    <3> QED
      BY <3>2, <3>3, <3>4
  <2>4. ASSUME NEW p \in D \ Done, IsPrint(p) PROVE p \in D \ Done'
    BY <1>2, <1>4, <2>1, <2>4
  <2>5. /\ seen' \subseteq printed \cup {{}}
        /\ {} \in seen' => {} \in printed \/ \E p \in D \ Done : IsPrint(p) /\ AllUp(p)
    <3>1. CASE seen' = seen
      BY <3>1 DEF PhaseInv
    <3>2. CASE now' > now /\ seen' = seen \cup {down}
      BY <2>3, <3>2 DEF PhaseInv
    <3> QED
      BY <2>1, <3>1, <3>2
  <2>6. {} \in seen' => {} \in printed' \/ \E p \in D \ Done' : IsPrint(p) /\ AllUp(p)
    BY <2>1, <2>4, <2>5
  <2> QED
    BY <2>1, <2>2, <2>5, <2>6, SameScript DEF PhaseInv
<1>5. ASSUME RunsNone PROVE PhaseInv'
  <2>1. /\ Done' = Done /\ down' = down /\ printed' = printed
        /\ \/ seen' = seen
           \/ Done = D /\ seen' \subseteq seen \cup {down}
    BY <1>5 DEF RunsNone, Passing
  <2>2. ASSUME Done = D PROVE down \in printed
    <3>1. PICK p \in D : IsPrint(p) /\ \A b \in D : IsChange(b) => Earlier(b, p)
      BY DEF PrintsPhases
    <3> QED
      BY <2>2, <3>1 DEF PhaseInv
  <2>3. /\ seen' \subseteq printed \cup {{}}
        /\ {} \in seen' => {} \in printed \/ \E p \in D \ Done : IsPrint(p) /\ AllUp(p)
    BY <2>1, <2>2 DEF PhaseInv
  <2> QED
    BY <2>1, <2>3, SameScript DEF PhaseInv
<1>6. ASSUME NEW i \in D, Runs(i) PROVE IsPrint(i) \/ IsChange(i)
  BY NoRates DEF IsPrint, IsChange, IsTear, IsRecreate
<1> QED
  BY <1>3, <1>4, <1>5, <1>6, ScriptStep

LEMMA ScriptStarts ==
  ASSUME AInv, events = InitialEvents(experiment), RoutingInit
  PROVE  OrderInv /\ DownBooks /\ PhaseInv
<1>1. Done = {} /\ seen = {} /\ down = {}
  BY NothingDone DEF RoutingInit
<1> QED
  BY <1>1 DEF OrderInv, DownBooks, PhaseInv

ScriptInv == AInv /\ ScriptOnly /\ OrderInv /\ DownBooks

\* The script is run in its order, and what is down is what it has torn down and
\* not set up again.
LEMMA ScriptInvariant ==
  ASSUME NEW X, \A x \in X : WellTimed(x)
  PROVE  AppInit(X) /\ RoutingInit /\ ScriptOnly /\ [][Simulate]_<<appVars, linkVars>>
           => []ScriptInv
<1>1. AppInit(X) /\ RoutingInit /\ ScriptOnly => ScriptInv
  BY AInvInit, ScriptStarts DEF ScriptInv, AppInit
<1>2. ScriptInv /\ [Simulate]_<<appVars, linkVars>> => ScriptInv'
  BY AInvStep, ScriptStays, OrderStep, DownStep DEF ScriptInv
<1> QED
  BY <1>1, <1>2, PTL

\* In any simulation that only has a script, in which the tables are printed
\* between any two changes of links made at different times, and after the last:
\* in the end no topology under which time passed has escaped the prints, however
\* prints and changes are listed in the program, some at equal times.
THEOREM PhasesPrinted ==
  ASSUME NEW X, \A x \in X : WellTimed(x)
  PROVE  /\ AppInit(X) /\ RoutingInit /\ ScriptOnly /\ PrintsPhases
         /\ [][Simulate]_<<appVars, linkVars>>
         => []EveryPhasePrinted
<1>1. AppInit(X) /\ RoutingInit => PhaseInv
  BY AInvInit, ScriptStarts DEF AppInit
<1>2. /\ ScriptInv /\ PrintsPhases /\ PhaseInv /\ [Simulate]_<<appVars, linkVars>>
      => PrintsPhases' /\ PhaseInv'
  BY ScriptStays, PhaseStep DEF ScriptInv
<1>3. PhaseInv => EveryPhasePrinted
  <2> SUFFICES ASSUME PhaseInv, events = {} PROVE seen \subseteq printed
    BY DEF EveryPhasePrinted
  <2>1. Done = DOMAIN experiment.script
    BY DEF Done
  <2> QED
    BY <2>1 DEF PhaseInv
<1>4. AppInit(X) /\ RoutingInit /\ ScriptOnly /\ [][Simulate]_<<appVars, linkVars>>
        => []ScriptInv
  BY ScriptInvariant
<1> QED
  BY <1>1, <1>2, <1>3, <1>4, PTL

-----------------------------------------------------------------------------
(***************************************************************************)
(* The paths between the hosts.                                            *)
(***************************************************************************)
\* The links a script tears down.
Torn == UNION {LinkOf(i) : i \in {j \in DOMAIN experiment.script : IsTear(j)}}

\* Only those are ever down.
LEMMA OnlyTorn ==
  ASSUME DownBooks
  PROVE  down \subseteq Torn
<1> SUFFICES ASSUME NEW x \in down PROVE x \in Torn
  OBVIOUS
<1>1. PICK b \in Done : IsTear(b) /\ x \in LinkOf(b)
  BY DEF DownBooks
<1> QED
  BY <1>1 DEF IsTear, LinkOf, Torn

\* A network leads out of a set of nodes if it has one end in it.
LEMMA LeadsOut ==
  ASSUME NEW k \in DOMAIN nets, NEW S \in SUBSET Nodes
  PROVE  (\E x \in S, y \in Nodes \ S : On(x, k) /\ On(y, k))
           <=> ~ (nets[k][1] \in S <=> nets[k][2] \in S)
<1>1. nets[k][1] \in Nodes /\ nets[k][2] \in Nodes
  BY DEF Nodes
<1>2. \A x : On(x, k) <=> x = nets[k][1] \/ x = nets[k][2]
  BY DEF On
<1> QED
  BY <1>1, <1>2

\* A network is up if none of its ends is among those of other networks.
LEMMA StaysUp ==
  ASSUME DOMAIN nets \subseteq Nat \ {0}, NEW m \in DOMAIN nets, NEW n \in DOMAIN nets,
         NEW k \in DOMAIN nets, k # m, k # n,
         down \subseteq {End(m, 1), End(m, 2)} \cup {End(n, 1), End(n, 2)}
  PROVE  Up(k)
<1>1. ASSUME NEW s \in 1 .. 2, End(k, s) \in down PROVE FALSE
  <2>1. PICK t \in 1 .. 2 : End(k, s) = End(m, t) \/ End(k, s) = End(n, t)
    BY <1>1
  <2> QED
    BY <2>1, EndNames
<1> QED
  BY <1>1 DEF Up

\* The two hosts with one router each between them and the rest.
LEMMA Hosts ==
  ASSUME NEW h, NEW r, NEW k \in DOMAIN nets, nets[k] = <<h, r>> \/ nets[k] = <<r, h>>,
         h # r, \A m \in DOMAIN nets : On(h, m) => m = k
  PROVE  NextTo(h) = {r}
<1>1. h \in Nodes /\ r \in Nodes /\ \A x : On(x, k) <=> x = h \/ x = r
  BY DEF Nodes, On
<1> QED
  BY <1>1 DEF NextTo

\* However the two links of the triangle that are torn go down, together or one
\* by one or even by half, a path is left until a has lost both.
LEMMA TrianglePaths ==
  ASSUME nets = Triangle, down \subseteq LinkAB \cup LinkAC
  PROVE  PathUnlessIsolated
<1>1. /\ DOMAIN nets = 1 .. 5
      /\ nets[1] = <<"src", "a">> /\ nets[2] = <<"a", "b">> /\ nets[3] = <<"b", "c">>
      /\ nets[4] = <<"a", "c">> /\ nets[5] = <<"c", "dst">>
  BY DEF Triangle
<1>2. /\ DOMAIN nets \subseteq Nat \ {0}
      /\ down \subseteq {End(2, 1), End(2, 2)} \cup {End(4, 1), End(4, 2)}
  BY TriangleLinks
<1>3. Up(1) /\ Up(3) /\ Up(5)
  BY <1>1, <1>2, StaysUp
<1>n. /\ nets[1][1] = "src" /\ nets[1][2] = "a" /\ nets[2][1] = "a" /\ nets[2][2] = "b"
      /\ nets[3][1] = "b" /\ nets[3][2] = "c" /\ nets[4][1] = "a" /\ nets[4][2] = "c"
      /\ nets[5][1] = "c" /\ nets[5][2] = "dst"
  BY <1>1
<1>d. \A k \in DOMAIN nets : k = 1 \/ k = 2 \/ k = 3 \/ k = 4 \/ k = 5
  BY <1>1
<1>o. \A k, x : On(x, k) <=> x = nets[k][1] \/ x = nets[k][2]
  BY DEF On
<1>4. NextTo("src") = {"a"} /\ NextTo("dst") = {"c"}
  <2>1. /\ \A m \in DOMAIN nets : On("src", m) => m = 1
        /\ \A m \in DOMAIN nets : On("dst", m) => m = 5
    BY <1>n, <1>d, <1>o
  <2> QED
    BY <1>1, <2>1, Hosts
<1>c. /\ ~Core(1) /\ Core(2) /\ Core(3) /\ Core(4) /\ ~Core(5)
      /\ On("a", 2) /\ ~On("a", 3) /\ On("a", 4) /\ On("c", 3)
  BY <1>n, <1>o DEF Core
<1>5. ~Isolated("c") /\ (Isolated("a") <=> ~Up(2) /\ ~Up(4))
  BY <1>1, <1>3, <1>c, <1>d DEF Isolated
<1>6. ASSUME Up(2) \/ Up(4), NEW S \in SUBSET Nodes, "src" \in S, "dst" \notin S
      PROVE  \E k \in DOMAIN nets : Up(k) /\ \E x \in S, y \in Nodes \ S : On(x, k) /\ On(y, k)
  <2>1. \E k \in DOMAIN nets : Up(k) /\ ~ (nets[k][1] \in S <=> nets[k][2] \in S)
    <3>1. 1 \in DOMAIN nets /\ 2 \in DOMAIN nets /\ 3 \in DOMAIN nets /\ 4 \in DOMAIN nets
          /\ 5 \in DOMAIN nets
      BY <1>1
    <3> QED
      BY <1>3, <1>6, <1>n, <3>1
  <2> QED
    BY <2>1, LeadsOut
<1>7. ASSUME ~Up(2), ~Up(4) PROVE ~Reaches("src", "dst")
  <2> DEFINE S == {"src", "a"}
  <2>1. S \in SUBSET Nodes /\ "src" \in S /\ "dst" \notin S
    BY <1>1 DEF Nodes
  <2>2. ASSUME NEW k \in DOMAIN nets, Up(k)
        PROVE  ~ \E x \in S, y \in Nodes \ S : On(x, k) /\ On(y, k)
    <3>1. nets[k][1] \in S <=> nets[k][2] \in S
      BY <1>7, <1>d, <1>n, <2>2
    <3> QED
      BY <2>1, <3>1, LeadsOut
  <2> QED
    BY <2>1, <2>2 DEF Reaches
<1>8. Reaches("src", "dst") <=> Up(2) \/ Up(4)
  <2>1. Up(2) \/ Up(4) => Reaches("src", "dst")
    BY <1>6 DEF Reaches
  <2> QED
    BY <1>7, <2>1
<1> QED
  BY <1>4, <1>5, <1>8 DEF PathUnlessIsolated

\* In the square of part b a path is left until d has lost both its links.
LEMMA SquarePaths ==
  ASSUME nets = PartBNets, down \subseteq LinkBD \cup LinkCD
  PROVE  PathUnlessIsolated
<1>1. /\ DOMAIN nets = 1 .. 7
      /\ nets[1] = <<"src", "a">> /\ nets[2] = <<"a", "b">> /\ nets[3] = <<"a", "c">>
      /\ nets[4] = <<"b", "c">> /\ nets[5] = <<"c", "d">> /\ nets[6] = <<"b", "d">>
      /\ nets[7] = <<"d", "dst">>
  BY DEF PartBNets
<1>2. /\ DOMAIN nets \subseteq Nat \ {0}
      /\ down \subseteq {End(6, 1), End(6, 2)} \cup {End(5, 1), End(5, 2)}
  BY SquareLinks
<1>3. Up(1) /\ Up(2) /\ Up(3) /\ Up(4) /\ Up(7)
  BY <1>1, <1>2, StaysUp
<1>n. /\ nets[1][1] = "src" /\ nets[1][2] = "a" /\ nets[2][1] = "a" /\ nets[2][2] = "b"
      /\ nets[3][1] = "a" /\ nets[3][2] = "c" /\ nets[4][1] = "b" /\ nets[4][2] = "c"
      /\ nets[5][1] = "c" /\ nets[5][2] = "d" /\ nets[6][1] = "b" /\ nets[6][2] = "d"
      /\ nets[7][1] = "d" /\ nets[7][2] = "dst"
  BY <1>1
<1>d. \A k \in DOMAIN nets : k = 1 \/ k = 2 \/ k = 3 \/ k = 4 \/ k = 5 \/ k = 6 \/ k = 7
  BY <1>1
<1>o. \A k, x : On(x, k) <=> x = nets[k][1] \/ x = nets[k][2]
  BY DEF On
<1>4. NextTo("src") = {"a"} /\ NextTo("dst") = {"d"}
  <2>1. /\ \A m \in DOMAIN nets : On("src", m) => m = 1
        /\ \A m \in DOMAIN nets : On("dst", m) => m = 7
    BY <1>n, <1>d, <1>o
  <2> QED
    BY <1>1, <2>1, Hosts
<1>c. /\ Core(2) /\ Core(5) /\ Core(6) /\ ~Core(7) /\ On("a", 2)
      /\ ~On("d", 1) /\ ~On("d", 2) /\ ~On("d", 3) /\ ~On("d", 4) /\ On("d", 5)
      /\ On("d", 6)
  BY <1>n, <1>o DEF Core
<1>5. ~Isolated("a") /\ (Isolated("d") <=> ~Up(5) /\ ~Up(6))
  BY <1>1, <1>3, <1>c, <1>d DEF Isolated
<1>6. ASSUME Up(5) \/ Up(6), NEW S \in SUBSET Nodes, "src" \in S, "dst" \notin S
      PROVE  \E k \in DOMAIN nets : Up(k) /\ \E x \in S, y \in Nodes \ S : On(x, k) /\ On(y, k)
  <2>1. \E k \in DOMAIN nets : Up(k) /\ ~ (nets[k][1] \in S <=> nets[k][2] \in S)
    <3>1. 1 \in DOMAIN nets /\ 2 \in DOMAIN nets /\ 3 \in DOMAIN nets /\ 4 \in DOMAIN nets
          /\ 5 \in DOMAIN nets /\ 6 \in DOMAIN nets /\ 7 \in DOMAIN nets
      BY <1>1
    <3> QED
      BY <1>3, <1>6, <1>n, <3>1
  <2> QED
    BY <2>1, LeadsOut
<1>7. ASSUME ~Up(5), ~Up(6) PROVE ~Reaches("src", "dst")
  <2> DEFINE S == {"src", "a", "b", "c"}
  <2>1. S \in SUBSET Nodes /\ "src" \in S /\ "dst" \notin S /\ "dst" \in Nodes
    BY <1>1 DEF Nodes
  <2>2. ASSUME NEW k \in DOMAIN nets, Up(k)
        PROVE  ~ \E x \in S, y \in Nodes \ S : On(x, k) /\ On(y, k)
    <3>1. nets[k][1] \in S <=> nets[k][2] \in S
      BY <1>7, <1>d, <1>n, <2>2
    <3> QED
      BY <2>1, <3>1, LeadsOut
  <2> QED
    BY <2>1, <2>2 DEF Reaches
<1>8. Reaches("src", "dst") <=> Up(5) \/ Up(6)
  <2>1. Up(5) \/ Up(6) => Reaches("src", "dst")
    BY <1>6 DEF Reaches
  <2> QED
    BY <1>7, <2>1
<1> QED
  BY <1>4, <1>5, <1>8 DEF PathUnlessIsolated

\* What the entries of a script of prints and then of changes are.
EntriesAre(networks, end, prints, times, kinds, links) ==
  LET n == Len(prints)
      m == Len(times)
  IN /\ DOMAIN experiment.script = 1 .. n + m
     /\ experiment.apps = << >> /\ experiment.end = end /\ nets = networks
     /\ \A i \in 1 .. n : At(i) = prints[i] /\ IsPrint(i) /\ ~IsChange(i)
     /\ \A i \in 1 .. m :
          /\ At(n + i) = times[i] /\ LinkOf(n + i) = links[i]
          /\ ~IsPrint(n + i) /\ IsChange(n + i)
          /\ IsTear(n + i) <=> kinds[i] = "tear"
          /\ IsRecreate(n + i) <=> kinds[i] = "recreate"

LEMMA Entries ==
  ASSUME NEW networks, NEW links, NEW end, NEW prints \in Seq(Nat), NEW times \in Seq(Nat),
         NEW kinds \in Seq({"tear", "recreate"}), Len(kinds) = Len(times),
         experiment = Routed(networks, Prints(prints) \o OnLinks(times, kinds), links, end)
  PROVE  EntriesAre(networks, end, prints, times, kinds, links)
<1> DEFINE p == Prints(prints)
           q == OnLinks(times, kinds)
           n == Len(prints)
           m == Len(times)
<1>1. p \in Seq(Entry) /\ q \in Seq(Entry)
  BY Scripts
<1>2. /\ Len(p) = n /\ Len(q) = m /\ n \in Nat /\ m \in Nat
      /\ \A i \in 1 .. n : p[i].at = prints[i] /\ p[i].kind = "print"
      /\ \A i \in 1 .. m : q[i].at = times[i] /\ q[i].kind = kinds[i] /\ q[i].arg = i
      /\ \A i \in 1 .. m : kinds[i] \in {"tear", "recreate"}
  BY DEF Prints, OnLinks
<1>3. /\ experiment.script = p \o q /\ experiment.links = links
      /\ experiment.apps = << >> /\ experiment.end = end /\ nets = networks
  BY DEF Routed, nets
<1> HIDE DEF p, q, n, m
<1>4. /\ DOMAIN (p \o q) = 1 .. n + m
      /\ \A i \in 1 .. n : (p \o q)[i] = p[i]
      /\ \A i \in 1 .. m : (p \o q)[n + i] = q[i]
  <2>1. /\ DOMAIN (p \o q) = 1 .. n + m
        /\ \A i \in 1 .. n + m : (p \o q)[i] = IF i <= n THEN p[i] ELSE q[i - n]
    <3>1. /\ DOMAIN (p \o q) = 1 .. Len(p) + Len(q)
          /\ \A i \in 1 .. Len(p) + Len(q) :
               (p \o q)[i] = IF i <= Len(p) THEN p[i] ELSE q[i - Len(p)]
      BY <1>1
    <3> QED
      BY <1>2, <3>1
  <2>2. \A i \in 1 .. m : n + i \in 1 .. n + m /\ ~(n + i <= n) /\ (n + i) - n = i
    BY <1>2
  <2>3. \A i \in 1 .. n : i \in 1 .. n + m /\ i <= n
    BY <1>2
  <2> QED
    BY <2>1, <2>2, <2>3
<1>5. \A i \in 1 .. n : i \in 1 .. n + m
  BY <1>2
<1>6. \A i \in 1 .. m : n + i \in 1 .. n + m
  BY <1>2
<1>7. \A i \in 1 .. n : At(i) = prints[i] /\ IsPrint(i) /\ ~IsChange(i)
  BY <1>2, <1>3, <1>4, <1>5 DEF At, IsPrint, IsChange, IsTear, IsRecreate
<1>8. ASSUME NEW i \in 1 .. m
      PROVE  /\ At(n + i) = times[i] /\ LinkOf(n + i) = links[i]
             /\ ~IsPrint(n + i) /\ IsChange(n + i)
             /\ IsTear(n + i) <=> kinds[i] = "tear"
             /\ IsRecreate(n + i) <=> kinds[i] = "recreate"
  <2>1. /\ n + i \in DOMAIN experiment.script /\ experiment.script[n + i] = q[i]
        /\ q[i].at = times[i] /\ q[i].kind = kinds[i] /\ q[i].arg = i
        /\ kinds[i] \in {"tear", "recreate"}
    BY <1>2, <1>3, <1>4, <1>6
  <2> QED
    BY <1>3, <2>1 DEF At, LinkOf, IsPrint, IsChange, IsTear, IsRecreate
<1> QED
  BY <1>3, <1>4, <1>7, <1>8 DEF EntriesAre, n, m

\* What is shown of each of the routing experiments.
Shown(networks, some) ==
  nets = networks /\ ScriptOnly /\ PrintsPhases /\ Torn \subseteq some

LEMMA ShownA ==
  ASSUME experiment = A4q2a
  PROVE  Shown(Triangle, {})
<1> DEFINE p == <<0, 10, 50, 100, 500>>
<1>1. p \in Seq(Nat) /\ Len(p) = 5 /\ \A i \in 1 .. 5 : p[i] < 501
  OBVIOUS
<1>2. experiment = Routed(Triangle, Prints(p), << >>, 501)
  BY DEF A4q2a
<1> HIDE DEF p
<1>3. /\ experiment.script = Prints(p) /\ nets = Triangle /\ experiment.apps = << >>
      /\ experiment.end = 501
  BY <1>2 DEF Routed, nets
<1>4. DOMAIN experiment.script = 1 .. 5
  BY <1>1, <1>3 DEF Prints
<1>5. \A i \in 1 .. 5 : At(i) < 501 /\ IsPrint(i) /\ ~IsChange(i)
  BY <1>1, <1>3, <1>4 DEF Prints, At, IsPrint, IsChange, IsTear, IsRecreate
<1>6. PrintsPhases
  <2>1. 1 \in 1 .. 5
    OBVIOUS
  <2> QED
    BY <1>4, <1>5, <2>1 DEF PrintsPhases
<1>7. Torn = {}
  BY <1>4, <1>5 DEF Torn, IsChange
<1> QED
  BY <1>3, <1>4, <1>5, <1>6, <1>7 DEF Shown, ScriptOnly

LEMMA ShownB ==
  ASSUME experiment = A4q2b
  PROVE  Shown(Triangle, LinkAB \cup LinkAC)
<1> DEFINE p == <<49, 51, 60, 119, 121, 150, 180>>
           t == <<50, 120>>
           k == <<"tear", "tear">>
           l == <<LinkAB, LinkAC>>
<1>1. /\ p \in Seq(Nat) /\ Len(p) = 7
      /\ p[1] = 49 /\ p[2] = 51 /\ p[3] = 60 /\ p[4] = 119 /\ p[5] = 121 /\ p[6] = 150
      /\ p[7] = 180
  OBVIOUS
<1>2. /\ t \in Seq(Nat) /\ k \in Seq({"tear", "recreate"}) /\ Len(k) = Len(t)
      /\ Len(t) = 2
      /\ t[1] = 50 /\ t[2] = 120 /\ k[1] = "tear" /\ k[2] = "tear"
  OBVIOUS
<1>3. l[1] = LinkAB /\ l[2] = LinkAC
  OBVIOUS
<1>4. experiment = Routed(Triangle, Prints(p) \o OnLinks(t, k), l, 200)
  BY DEF A4q2b
<1> HIDE DEF p, t, k, l
<1>5. EntriesAre(Triangle, 200, p, t, k, l)
  BY <1>1, <1>2, <1>4, Entries
<1>6. /\ experiment.apps = << >> /\ experiment.end = 200 /\ nets = Triangle
      /\ DOMAIN experiment.script = {1, 2, 3, 4, 5, 6, 7, 8, 9}
      /\ \A i \in 1 .. 7 : At(i) = p[i] /\ IsPrint(i) /\ ~IsChange(i)
      /\ At(8) = t[1] /\ LinkOf(8) = l[1] /\ IsChange(8)
      /\ IsTear(8) <=> k[1] = "tear"
      /\ IsRecreate(8) <=> k[1] = "recreate"
      /\ At(9) = t[2] /\ LinkOf(9) = l[2] /\ IsChange(9)
      /\ IsTear(9) <=> k[2] = "tear"
      /\ IsRecreate(9) <=> k[2] = "recreate"
  <2>1. DOMAIN experiment.script = 1 .. 7 + 2
    BY <1>1, <1>2, <1>5 DEF EntriesAre
  <2>2. 1 \in 1 .. 2 /\ 7 + 1 = 8 /\ 2 \in 1 .. 2 /\ 7 + 2 = 9
    OBVIOUS
  <2> QED
    BY <1>1, <1>2, <1>5, <2>1, <2>2 DEF EntriesAre
<1>7. /\ At(1) = 49 /\ At(2) = 51 /\ At(3) = 60 /\ At(4) = 119 /\ At(5) = 121 /\ At(6) = 150
      /\ At(7) = 180 /\ At(8) = 50 /\ At(9) = 120
      /\ IsPrint(1) /\ IsPrint(2) /\ IsPrint(3) /\ IsPrint(4) /\ IsPrint(5)
      /\ IsPrint(6) /\ IsPrint(7)
      /\ ~IsChange(1) /\ ~IsChange(2) /\ ~IsChange(3) /\ ~IsChange(4) /\ ~IsChange(5)
      /\ ~IsChange(6) /\ ~IsChange(7) /\ IsChange(8) /\ IsChange(9)
      /\ IsTear(8) /\ IsTear(9)
      /\ LinkOf(8) = LinkAB /\ LinkOf(9) = LinkAC
  <2>1. 1 .. 7 = {1, 2, 3, 4, 5, 6, 7}
    OBVIOUS
  <2> QED
    BY <1>1, <1>2, <1>3, <1>6, <2>1
<1>8. ScriptOnly
  BY <1>6, <1>7 DEF ScriptOnly
<1>9. PrintsPhases
  <2>1. /\ Earlier(1, 8) /\ ~Earlier(8, 8) /\ ~Earlier(9, 8) /\ Earlier(2, 9)
        /\ Earlier(8, 2) /\ ~Earlier(9, 9) /\ Earlier(8, 7) /\ Earlier(9, 7)
    BY <1>7 DEF Earlier
  <2> QED
    BY <1>6, <1>7, <2>1 DEF PrintsPhases
<1>10. Torn \subseteq LinkAB \cup LinkAC
  BY <1>6, <1>7 DEF Torn, IsChange
<1> QED
  BY <1>6, <1>8, <1>9, <1>10 DEF Shown

LEMMA ShownC ==
  ASSUME experiment = A4q2c
  PROVE  Shown(Triangle, LinkAB \cup LinkAC)
<1> DEFINE p == <<70, 119, 121, 140, 180, 200>>
           t == <<50, 50, 120, 120>>
           k == <<"tear", "tear", "recreate", "recreate">>
           l == <<LinkAB, LinkAC, LinkAB, LinkAC>>
<1>1. /\ p \in Seq(Nat) /\ Len(p) = 6
      /\ p[1] = 70 /\ p[2] = 119 /\ p[3] = 121 /\ p[4] = 140 /\ p[5] = 180
      /\ p[6] = 200
  OBVIOUS
<1>2. /\ t \in Seq(Nat) /\ k \in Seq({"tear", "recreate"}) /\ Len(k) = Len(t)
      /\ Len(t) = 4
      /\ t[1] = 50 /\ t[2] = 50 /\ t[3] = 120 /\ t[4] = 120 /\ k[1] = "tear"
      /\ k[2] = "tear" /\ k[3] = "recreate" /\ k[4] = "recreate"
  OBVIOUS
<1>3. l[1] = LinkAB /\ l[2] = LinkAC /\ l[3] = LinkAB /\ l[4] = LinkAC
  OBVIOUS
<1>4. experiment = Routed(Triangle, Prints(p) \o OnLinks(t, k), l, 201)
  BY DEF A4q2c
<1> HIDE DEF p, t, k, l
<1>5. EntriesAre(Triangle, 201, p, t, k, l)
  BY <1>1, <1>2, <1>4, Entries
<1>6. /\ experiment.apps = << >> /\ experiment.end = 201 /\ nets = Triangle
      /\ DOMAIN experiment.script = {1, 2, 3, 4, 5, 6, 7, 8, 9, 10}
      /\ \A i \in 1 .. 6 : At(i) = p[i] /\ IsPrint(i) /\ ~IsChange(i)
      /\ At(7) = t[1] /\ LinkOf(7) = l[1] /\ IsChange(7)
      /\ IsTear(7) <=> k[1] = "tear"
      /\ IsRecreate(7) <=> k[1] = "recreate"
      /\ At(8) = t[2] /\ LinkOf(8) = l[2] /\ IsChange(8)
      /\ IsTear(8) <=> k[2] = "tear"
      /\ IsRecreate(8) <=> k[2] = "recreate"
      /\ At(9) = t[3] /\ LinkOf(9) = l[3] /\ IsChange(9)
      /\ IsTear(9) <=> k[3] = "tear"
      /\ IsRecreate(9) <=> k[3] = "recreate"
      /\ At(10) = t[4] /\ LinkOf(10) = l[4] /\ IsChange(10)
      /\ IsTear(10) <=> k[4] = "tear"
      /\ IsRecreate(10) <=> k[4] = "recreate"
  <2>1. DOMAIN experiment.script = 1 .. 6 + 4
    BY <1>1, <1>2, <1>5 DEF EntriesAre
  <2>2. /\ 1 \in 1 .. 4 /\ 6 + 1 = 7 /\ 2 \in 1 .. 4 /\ 6 + 2 = 8
        /\ 3 \in 1 .. 4 /\ 6 + 3 = 9 /\ 4 \in 1 .. 4 /\ 6 + 4 = 10
    OBVIOUS
  <2> QED
    BY <1>1, <1>2, <1>5, <2>1, <2>2 DEF EntriesAre
<1>7. /\ At(1) = 70 /\ At(2) = 119 /\ At(3) = 121 /\ At(4) = 140 /\ At(5) = 180
      /\ At(6) = 200 /\ At(7) = 50 /\ At(8) = 50 /\ At(9) = 120 /\ At(10) = 120
      /\ IsPrint(1) /\ IsPrint(2) /\ IsPrint(3) /\ IsPrint(4) /\ IsPrint(5)
      /\ IsPrint(6)
      /\ ~IsChange(1) /\ ~IsChange(2) /\ ~IsChange(3) /\ ~IsChange(4) /\ ~IsChange(5)
      /\ ~IsChange(6) /\ IsChange(7) /\ IsChange(8) /\ IsChange(9) /\ IsChange(10)
      /\ IsTear(7) /\ IsTear(8) /\ ~IsTear(9) /\ IsRecreate(9)
      /\ ~IsTear(10) /\ IsRecreate(10)
      /\ LinkOf(7) = LinkAB /\ LinkOf(8) = LinkAC /\ LinkOf(9) = LinkAB
      /\ LinkOf(10) = LinkAC
  <2>1. 1 .. 6 = {1, 2, 3, 4, 5, 6}
    OBVIOUS
  <2> QED
    BY <1>1, <1>2, <1>3, <1>6, <2>1
<1>8. ScriptOnly
  BY <1>6, <1>7 DEF ScriptOnly
<1>9. PrintsPhases
  <2>1. /\ ~Earlier(7, 7) /\ ~Earlier(8, 7) /\ ~Earlier(9, 7) /\ ~Earlier(10, 7)
        /\ Earlier(7, 8) /\ Earlier(1, 9) /\ Earlier(7, 1) /\ Earlier(8, 1)
        /\ ~Earlier(9, 9) /\ ~Earlier(10, 9) /\ Earlier(9, 10) /\ Earlier(7, 3)
        /\ Earlier(8, 3) /\ Earlier(9, 3) /\ Earlier(10, 3) /\ Earlier(7, 9)
        /\ Earlier(8, 10)
    BY <1>7 DEF Earlier
  <2>2. AllUp(3)
    <3>1. Undoes(9, 7) /\ Undoes(10, 8)
      BY <1>7, <2>1 DEF Undoes
    <3>2. \A b \in DOMAIN experiment.script : IsTear(b) => b = 7 \/ b = 8
      BY <1>6, <1>7 DEF IsChange
    <3> QED
      BY <1>6, <2>1, <3>1, <3>2 DEF AllUp
  <2> QED
    BY <1>6, <1>7, <2>1, <2>2 DEF PrintsPhases
<1>10. Torn \subseteq LinkAB \cup LinkAC
  BY <1>6, <1>7 DEF Torn, IsChange
<1> QED
  BY <1>6, <1>8, <1>9, <1>10 DEF Shown

LEMMA ShownPartB ==
  ASSUME experiment = PartB
  PROVE  Shown(PartBNets, LinkBD \cup LinkCD)
<1> DEFINE p == <<29, 79, 149, 280>>
           t == <<30, 30, 80, 150>>
           k == <<"tear", "tear", "recreate", "recreate">>
           l == <<LinkBD, LinkCD, LinkCD, LinkBD>>
<1>1. /\ p \in Seq(Nat) /\ Len(p) = 4
      /\ p[1] = 29 /\ p[2] = 79 /\ p[3] = 149 /\ p[4] = 280
  OBVIOUS
<1>2. /\ t \in Seq(Nat) /\ k \in Seq({"tear", "recreate"}) /\ Len(k) = Len(t)
      /\ Len(t) = 4
      /\ t[1] = 30 /\ t[2] = 30 /\ t[3] = 80 /\ t[4] = 150 /\ k[1] = "tear"
      /\ k[2] = "tear" /\ k[3] = "recreate" /\ k[4] = "recreate"
  OBVIOUS
<1>3. l[1] = LinkBD /\ l[2] = LinkCD /\ l[3] = LinkCD /\ l[4] = LinkBD
  OBVIOUS
<1>4. experiment = Routed(PartBNets, Prints(p) \o OnLinks(t, k), l, 300)
  BY DEF PartB, PartBNets
<1> HIDE DEF p, t, k, l
<1>5. EntriesAre(PartBNets, 300, p, t, k, l)
  BY <1>1, <1>2, <1>4, Entries
<1>6. /\ experiment.apps = << >> /\ experiment.end = 300 /\ nets = PartBNets
      /\ DOMAIN experiment.script = {1, 2, 3, 4, 5, 6, 7, 8}
      /\ \A i \in 1 .. 4 : At(i) = p[i] /\ IsPrint(i) /\ ~IsChange(i)
      /\ At(5) = t[1] /\ LinkOf(5) = l[1] /\ IsChange(5)
      /\ IsTear(5) <=> k[1] = "tear"
      /\ IsRecreate(5) <=> k[1] = "recreate"
      /\ At(6) = t[2] /\ LinkOf(6) = l[2] /\ IsChange(6)
      /\ IsTear(6) <=> k[2] = "tear"
      /\ IsRecreate(6) <=> k[2] = "recreate"
      /\ At(7) = t[3] /\ LinkOf(7) = l[3] /\ IsChange(7)
      /\ IsTear(7) <=> k[3] = "tear"
      /\ IsRecreate(7) <=> k[3] = "recreate"
      /\ At(8) = t[4] /\ LinkOf(8) = l[4] /\ IsChange(8)
      /\ IsTear(8) <=> k[4] = "tear"
      /\ IsRecreate(8) <=> k[4] = "recreate"
  <2>1. DOMAIN experiment.script = 1 .. 4 + 4
    BY <1>1, <1>2, <1>5 DEF EntriesAre
  <2>2. /\ 1 \in 1 .. 4 /\ 4 + 1 = 5 /\ 2 \in 1 .. 4 /\ 4 + 2 = 6
        /\ 3 \in 1 .. 4 /\ 4 + 3 = 7 /\ 4 \in 1 .. 4 /\ 4 + 4 = 8
    OBVIOUS
  <2> QED
    BY <1>1, <1>2, <1>5, <2>1, <2>2 DEF EntriesAre
<1>7. /\ At(1) = 29 /\ At(2) = 79 /\ At(3) = 149 /\ At(4) = 280 /\ At(5) = 30 /\ At(6) = 30
      /\ At(7) = 80 /\ At(8) = 150
      /\ IsPrint(1) /\ IsPrint(2) /\ IsPrint(3) /\ IsPrint(4)
      /\ ~IsChange(1) /\ ~IsChange(2) /\ ~IsChange(3) /\ ~IsChange(4) /\ IsChange(5)
      /\ IsChange(6) /\ IsChange(7) /\ IsChange(8)
      /\ IsTear(5) /\ IsTear(6) /\ ~IsTear(7) /\ IsRecreate(7)
      /\ ~IsTear(8) /\ IsRecreate(8)
      /\ LinkOf(5) = LinkBD /\ LinkOf(6) = LinkCD /\ LinkOf(7) = LinkCD
      /\ LinkOf(8) = LinkBD
  <2>1. 1 .. 4 = {1, 2, 3, 4}
    OBVIOUS
  <2> QED
    BY <1>1, <1>2, <1>3, <1>6, <2>1
<1>8. ScriptOnly
  BY <1>6, <1>7 DEF ScriptOnly
<1>9. PrintsPhases
  <2>1. /\ Earlier(1, 5) /\ ~Earlier(5, 5) /\ ~Earlier(6, 5) /\ ~Earlier(7, 5)
        /\ ~Earlier(8, 5) /\ Earlier(5, 6) /\ Earlier(2, 7) /\ Earlier(5, 2)
        /\ Earlier(6, 2) /\ ~Earlier(7, 7) /\ ~Earlier(8, 7) /\ Earlier(3, 8)
        /\ Earlier(5, 3) /\ Earlier(6, 3) /\ Earlier(7, 3) /\ ~Earlier(8, 8)
        /\ Earlier(5, 4) /\ Earlier(6, 4) /\ Earlier(7, 4) /\ Earlier(8, 4)
    BY <1>7 DEF Earlier
  <2> QED
    BY <1>6, <1>7, <2>1 DEF PrintsPhases
<1>10. Torn \subseteq LinkBD \cup LinkCD
  BY <1>6, <1>7 DEF Torn, IsChange
<1> QED
  BY <1>6, <1>8, <1>9, <1>10 DEF Shown

\* The experiments without links to follow have no network.
LEMMA ShownAll ==
  ASSUME experiment \in Experiments
  PROVE  \/ nets = << >>
         \/ Shown(Triangle, LinkAB \cup LinkAC)
         \/ Shown(PartBNets, LinkBD \cup LinkCD)
<1>2. ASSUME NEW apps, NEW end, experiment = Steady(apps, end) PROVE nets = << >>
  BY <1>2 DEF Steady, nets
<1>3. CASE experiment = PartA
  BY <1>3 DEF PartA, nets
<1>4. CASE experiment = A4q2a
  <2>1. Shown(Triangle, {})
    BY <1>4, ShownA
  <2> QED
    BY <2>1 DEF Shown
<1> QED
  BY <1>2, <1>3, <1>4, WithScripts, ShownB, ShownC, ShownPartB

\* In the experiments on routing the hosts lose their path exactly when a router
\* next to one of them has lost its last link, no link is ever left with one end
\* down, and every topology that lasts is printed, though in a4q2c that of the
\* start only when both links are up again.
THEOREM RoutesFollowScripts == Spec => []RoutesAsScripted
<1> DEFINE Follows == ScriptInv /\ PrintsPhases /\ PhaseInv
           Kept == experiment \in Experiments /\ AInv /\ (nets # << >> => Follows)
<1>1. Init => Kept
  <2> SUFFICES ASSUME Init PROVE Kept
    OBVIOUS
  <2>1. /\ experiment \in Experiments /\ events = InitialEvents(experiment)
        /\ AppInit(Experiments) /\ RoutingInit
    BY DEF Init, AppInit
  <2>2. AInv
    BY <2>1, AInvInit, AllWellTimed
  <2>3. OrderInv /\ DownBooks /\ PhaseInv
    BY <2>1, <2>2, ScriptStarts
  <2>4. nets # << >> => ScriptOnly /\ PrintsPhases
    BY <2>1, ShownAll DEF Shown
  <2> QED
    BY <2>1, <2>2, <2>3, <2>4 DEF ScriptInv
<1>2. Kept /\ [Next]_vars => Kept'
  <2> SUFFICES ASSUME Kept, [Next]_vars PROVE Kept'
    OBVIOUS
  <2>1. [Simulate]_<<appVars, linkVars>>
    BY DEF Next, vars
  <2>2. experiment' = experiment /\ nets' = nets
    BY <2>1, SameScript DEF nets
  <2>3. AInv'
    BY <2>1, AInvStep
  <2>4. ASSUME nets # << >> PROVE Follows'
    <3>1. ScriptInv /\ PrintsPhases /\ PhaseInv
      BY <2>4
    <3>2. ScriptInv'
      BY <2>1, <3>1, AInvStep, ScriptStays, OrderStep, DownStep DEF ScriptInv
    <3>3. PrintsPhases' /\ PhaseInv'
      BY <2>1, <3>1, ScriptStays, PhaseStep DEF ScriptInv
    <3> QED
      BY <3>2, <3>3
  <2> HIDE DEF Follows
  <2> QED
    BY <2>2, <2>3, <2>4
<1>3. Kept => PathUnlessIsolated /\ EveryPhasePrinted
  <2> SUFFICES ASSUME experiment \in Experiments, Follows, nets # << >>
               PROVE  PathUnlessIsolated /\ EveryPhasePrinted
    BY DEF PathUnlessIsolated, EveryPhasePrinted
  <2>1. EveryPhasePrinted
    <3>1. events = {} => Done = DOMAIN experiment.script
      BY DEF Done
    <3> QED
      BY <3>1 DEF PhaseInv, EveryPhasePrinted
  <2>2. down \subseteq Torn
    BY OnlyTorn DEF ScriptInv
  <2>3. CASE Shown(Triangle, LinkAB \cup LinkAC)
    BY <2>1, <2>2, <2>3, TrianglePaths DEF Shown
  <2>4. CASE Shown(PartBNets, LinkBD \cup LinkCD)
    BY <2>1, <2>2, <2>4, SquarePaths DEF Shown
  <2> QED
    BY <2>3, <2>4, ShownAll
<1>4. LinkEndsMatch /\ PathUnlessIsolated /\ EveryPhasePrinted => RoutesAsScripted
  BY DEF RoutesAsScripted
<1> HIDE DEF Kept
<1> QED
  BY <1>1, <1>2, <1>3, <1>4, LinksNamedRight, PTL DEF Spec
=============================================================================
