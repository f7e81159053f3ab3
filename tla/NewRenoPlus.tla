----------------------------- MODULE NewRenoPlus -----------------------------
(***************************************************************************)
(* TcpNewRenoPlus.cc: the congestion window of assignment 4.  The class    *)
(* only has the arithmetic; when it is called is decided by ns-3's         *)
(* TcpSocketBase, modelled from what its callers may do: acknowledgements  *)
(* call IncreaseWindow, a loss asks GetSsThresh and goes on either from    *)
(* the threshold (fast recovery) or from one segment (timeout).            *)
(***************************************************************************)
EXTENDS Integers

CONSTANTS SegmentSize,    \* m_segmentSize
          Power,          \* pow(m_segmentSize, 1.91), truncated
          InitialWindow,  \* cWnd of a new connection
          MaxWindow,      \* bound: the window is not followed beyond
          MaxAcked        \* bound: segments one acknowledgement covers

Infinity == 2147483647    \* the initial threshold, beyond all windows

ASSUME NewRenoPlusAssumption ==
  /\ SegmentSize \in Nat \ {0}
  /\ Power \in SegmentSize .. (SegmentSize * SegmentSize)
  /\ InitialWindow \in SegmentSize .. (Power + 1)
  /\ MaxWindow \in Nat /\ MaxWindow + Power + 2 * SegmentSize < Infinity
  /\ MaxAcked \in Nat \ {0}

VARIABLES cWnd, ssThresh

windowVars == <<cWnd, ssThresh>>

Larger(a, b) == IF a < b THEN b ELSE a

(***************************************************************************)
(* cWnd is unsigned: sums with doubles are truncated, and truncating       *)
(* Power / c first makes no difference.  The variants grow as NewReno      *)
(* does, or by one byte at least, as the line that is commented out does.  *)
(***************************************************************************)
GrowthSquared(c) == (SegmentSize * SegmentSize) \div c
GrowthAtLeastOne(c) == Larger(1, Power \div c)
Growth(c) == Power \div c

\* SlowStart uses up one of the acknowledged segments.
AfterSlowStart(c, acked) == IF acked >= 1 THEN c + Growth(c) ELSE c
LeftOver(acked) == IF acked >= 1 THEN acked - 1 ELSE 0

AfterAvoidance(c, acked) ==
  IF acked > 0 THEN c + (51 * SegmentSize) \div 100 ELSE c

\* IncreaseWindow: slow start, and the rest of it if that reaches the threshold.
InSlowStart(c) == c < ssThresh

AfterAck(c, acked) ==
  LET c1 == IF InSlowStart(c) THEN AfterSlowStart(c, acked) ELSE c
      left == IF InSlowStart(c) THEN LeftOver(acked) ELSE acked
  IN IF InSlowStart(c1) THEN c1 ELSE AfterAvoidance(c1, left)

\* GetSsThresh.
GetSsThresh(bytesInFlight) == Larger(2 * SegmentSize, bytesInFlight \div 2)

-----------------------------------------------------------------------------
Ack(acked) ==
  /\ cWnd <= MaxWindow
  /\ cWnd' = AfterAck(cWnd, acked)
  /\ UNCHANGED ssThresh

Lost(bytesInFlight) ==
  /\ ssThresh' = GetSsThresh(bytesInFlight)
  /\ cWnd' \in {ssThresh', SegmentSize}

WindowInit == cWnd = InitialWindow /\ ssThresh = Infinity

WindowNext ==
  \/ \E k \in 1 .. MaxAcked : Ack(k)
  \/ \E b \in 0 .. cWnd : Lost(b)

WindowSpec == WindowInit /\ [][WindowNext]_windowVars

-----------------------------------------------------------------------------
\* However losses and acknowledgements alternate, a segment fits the window,
\* and the threshold is at two of them at least.
WindowFits == cWnd >= SegmentSize /\ ssThresh >= 2 * SegmentSize

\* Without a loss slow start has no threshold to reach, and its growth dies out:
\* the window stays at about SegmentSize^1.91 however many segments arrive.
SlowStartStalls == ssThresh = Infinity => cWnd <= Power + 1

\* No acknowledgement adds more than one segment (RFC 5681, quoted above
\* SlowStart), also one that takes the window from slow start over the
\* threshold to congestion avoidance.
AtMostOneSegment == [][cWnd' <= cWnd + SegmentSize \/ ssThresh' # ssThresh]_windowVars
=============================================================================
