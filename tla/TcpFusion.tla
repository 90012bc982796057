----------------------------- MODULE TcpFusion -----------------------------
(***************************************************************************)
(* The congestion control TcpFusion (tcp-fusion.cc) of one ns-3 TCP sender:*)
(* the socket reports acknowledged segments (PktsAcked), asks for a larger *)
(* window (IncreaseWindow), and on a loss takes a new threshold from       *)
(* GetSsThresh.  The socket itself (TcpSocketBase) and the Reno parent     *)
(* class (TcpNewReno) are ns-3's, outside the repository: Reno...,         *)
(* SlowStart and the loss actions model them from how this class uses them.*)
(*                                                                         *)
(* Windows are uint32 byte counts, so additions wrap at Modulus; a double  *)
(* that does not fit is converted either by dropping the high bits or by   *)
(* saturating, as compilers for different processors do.                   *)
(***************************************************************************)
EXTENDS Integers

CONSTANTS
  Modulus,    \* 2^32: uint32_t wraps here
  Seg,        \* tcb->m_segmentSize, bytes
  InitCwnd,   \* the socket's initial window, bytes
  Alpha,      \* the 4 ms of m_alpha, in time units
  BwUnit,     \* the 8*1500 that divides the bandwidth, bytes per time unit
  Rtts,       \* the round-trip times a sample may have, 0 for "no sample"
  Gaps,       \* times between two calls of PktsAcked, 0 for "same instant"
  MaxAcked,   \* the most segments one acknowledgement covers
  Never,      \* Time::Max(): no sample yet
  Garbage,    \* the value of a variable that was never initialised
  Infinite    \* a bandwidth over no time at all (infinite, or not a number)

ASSUME FusionAssumption ==
  /\ Modulus \in Nat /\ Seg \in Nat \ {0}
  /\ 8 * Seg < Modulus /\ Seg * Seg < Modulus
  /\ InitCwnd \in Nat /\ Seg <= InitCwnd /\ InitCwnd < Modulus
  /\ Alpha \in Nat /\ BwUnit \in Nat \ {0} /\ MaxAcked \in Nat
  /\ Rtts \subseteq Nat /\ Gaps \subseteq Nat
  /\ Never \notin Nat /\ Garbage \notin Nat /\ Infinite \notin Nat
  /\ Garbage # Infinite

VARIABLES
  cwnd,      \* tcb->m_cWnd
  ssThresh,  \* tcb->m_ssThresh
  acked,     \* m_ackedSegments
  bw,        \* m_currentBW, whole bytes per time unit
  rtt,       \* m_currentRtt
  minRtt,    \* m_minRtt
  cnt        \* m_cntRtt, counted up to the 3 that IncreaseWindow asks for

samples == <<acked, bw, rtt, minRtt, cnt>>
window  == <<cwnd, ssThresh>>
vars    == <<cwnd, ssThresh, acked, bw, rtt, minRtt, cnt>>

Wrap(x) == x % Modulus

(* What an unsigned conversion of a number beyond the range can give. *)
ToUInt32(x) == IF x < Modulus THEN {x} ELSE {Wrap(x), Modulus - 1}

Larger(a, b)  == IF a < b THEN b ELSE a
Smaller(a, b) == IF a < b THEN a ELSE b

TypeOK ==
  /\ cwnd \in 0..(Modulus - 1) /\ ssThresh \in 0..(Modulus - 1)
  /\ acked \in {0, Garbage}
  /\ bw \in Nat \cup {Garbage, Infinite}
  /\ rtt \in Rtts \cup {Never} /\ minRtt \in Rtts \cup {Never}
  /\ cnt \in 0..3

(* The socket was opened (constructor) or accepted (Fork): the copy        *)
(* constructor leaves m_ackedSegments uninitialised.                       *)
Init ==
  /\ cwnd = InitCwnd /\ ssThresh = Modulus - 1
  /\ acked \in {0, Garbage}
  /\ bw = 0 /\ rtt = Never /\ minRtt = Never /\ cnt = 0

-----------------------------------------------------------------------------
(* EstimateBW: the bytes acknowledged over the time since the last call.   *)
Bandwidth(n, gap) ==
  IF acked = Garbage THEN Garbage
  ELSE IF gap > 0 THEN Wrap((acked + n) * Seg) \div gap
  ELSE Infinite

(* Faulty variant: a sample of zero is not turned away. *)
PktsAckedZero(n, r, gap) ==
  /\ bw' = Bandwidth(n, gap) /\ acked' = 0
  /\ rtt' = r
  /\ minRtt' = IF minRtt = Never THEN r ELSE Smaller(minRtt, r)
  /\ cnt' = Smaller(cnt + 1, 3)
  /\ UNCHANGED window

(* PktsAcked(tcb, n, r), called a time gap after the last call. *)
PktsAcked(n, r, gap) ==
  /\ r # 0
  /\ bw' = Bandwidth(n, gap) /\ acked' = 0
  /\ rtt' = r
  /\ minRtt' = IF minRtt = Never THEN r ELSE Smaller(minRtt, r)
  /\ cnt' = Smaller(cnt + 1, 3)
  /\ UNCHANGED window

-----------------------------------------------------------------------------
(* The parent class: slow start adds one segment and uses up one of the    *)
(* acknowledged ones; congestion avoidance adds Seg*Seg/cwnd, at least 1.  *)
SlowStart(c, n)  == IF n > 0 THEN Wrap(c + Seg) ELSE c
RenoWindow(c, n) == IF n > 0 THEN Wrap(c + Larger(1, (Seg * Seg) \div c)) ELSE c

(* Faulty variant: the factor minRtt/rtt is not bounded from below by 1/2. *)
BackOffUnbounded(c) == (c * minRtt) \div rtt

(* The round-trip time more than doubled: minRtt/rtt is below 1/2, so the  *)
(* larger of the two factors is 1/2.                                       *)
BackingOff == rtt > 2 * minRtt
BackOff(c) == c \div 2

(* m_diff, cut to a uint32: the segments queued in the network. *)
Diff(c) == (c * (rtt - minRtt)) \div rtt

(* Below alpha = c*Alpha/rtt the window grows by the bandwidth, in packets.*)
(* An infinite bandwidth converts to 0 or the largest uint32.              *)
WindowIncrement ==
  IF bw = Garbage THEN 0..(Modulus - 1)
  ELSE IF bw = Infinite THEN {0, Modulus - 1} ELSE {Wrap(bw \div BwUnit)}

(* Faulty variant: the sum is kept in a type wider than uint32. *)
IncreaseWide(c) == {c + w * Seg : w \in WindowIncrement}

Increase(c) == {Wrap(c + Wrap(w * Seg)) : w \in WindowIncrement}

(* Above 3*alpha the window is meant to shrink by diff - alpha; -m_diff is *)
(* an unsigned negation, so a multiple of 2^32/c is added instead.         *)
Decrease(c) ==
  ToUInt32(c + (((Modulus - Diff(c)) * rtt + c * Alpha) * Seg) \div (rtt * c))

BelowAlpha(c)  == Diff(c) * rtt < c * Alpha
AboveGamma(c)  == Diff(c) * rtt > 3 * c * Alpha

FusionWindows(c) ==
  IF BelowAlpha(c) THEN Increase(c) ELSE IF AboveGamma(c) THEN Decrease(c) ELSE {c}

(* The Reno window Fusion's f is compared with: the old window c plus      *)
(* Seg*Seg over the window, which at that point is f already; over a zero  *)
(* window the quotient is infinite and converts to 0 or the largest uint32.*)
RenoAfter(c, f, n) ==
  IF n = 0 THEN {c}
  ELSE IF f = 0 THEN {c, Wrap(c + Modulus - 1)}
  ELSE {Wrap(c + Larger(1, (Seg * Seg) \div f))}

(* Faulty variant: the last comparison with Reno's window is left out. *)
AvoidanceNoReno(c, n) ==
  IF cnt < 3 THEN {RenoWindow(c, n)}
  ELSE IF BackingOff THEN {BackOff(c)} ELSE FusionWindows(c)

(* The windows congestion avoidance may leave: plain Reno until there are  *)
(* three samples, half when the path is congested, otherwise the larger of *)
(* Fusion's and Reno's.                                                    *)
Avoidance(c, n) ==
  IF cnt < 3 THEN {RenoWindow(c, n)}
  ELSE IF BackingOff THEN {BackOff(c)}
  ELSE UNION {{Larger(f, r) : r \in RenoAfter(c, f, n)} : f \in FusionWindows(c)}

(* IncreaseWindow(tcb, n): slow start first, and congestion avoidance with *)
(* the segments it left, in the same call, once the threshold is reached.  *)
IncreaseWindow(n) ==
  LET starting == cwnd < ssThresh
      c == IF starting THEN SlowStart(cwnd, n) ELSE cwnd
      m == IF starting /\ n > 0 THEN n - 1 ELSE n
  IN  /\ cwnd' \in IF c >= ssThresh THEN Avoidance(c, m) ELSE {c}
      /\ UNCHANGED <<ssThresh, samples>>

-----------------------------------------------------------------------------
(* Faulty variant: the segment that was lost is not taken off. *)
SsThreshOfWholeWindow == Larger(Smaller(ssThresh, cwnd), 2 * Seg)

(* The threshold the socket asks for when it sees a loss. *)
GetSsThresh == Larger(Smaller(ssThresh, Wrap(cwnd - Seg)), 2 * Seg)

(* The socket's fast recovery continues at the threshold, its              *)
(* retransmission timeout from one segment.                                *)
FastRecovery ==
  /\ ssThresh' = GetSsThresh /\ cwnd' = GetSsThresh
  /\ UNCHANGED samples

Timeout ==
  /\ ssThresh' = GetSsThresh /\ cwnd' = Seg
  /\ UNCHANGED samples

Loss == FastRecovery \/ Timeout

Next ==
  \/ \E n \in 0..MaxAcked, r \in Rtts, gap \in Gaps : PktsAcked(n, r, gap)
  \/ \E n \in 0..MaxAcked : IncreaseWindow(n)
  \/ FastRecovery
  \/ Timeout

Spec == Init /\ [][Next]_vars

-----------------------------------------------------------------------------
(* Safety *)

(* The window is so near the end of the uint32 range (some 0.3 MB below    *)
(* 4 GB) that one more segment and Reno's Seg*Seg/cwnd may take the sum    *)
(* beyond it: slow start's, the parent's, or that of reno_cWnd.            *)
NearTop == cwnd + Seg + Seg * Seg >= Modulus

(* The threshold never falls below two segments.  The window falls below   *)
(* one only by an overflow, and what it does next is to grow beyond it:    *)
(* the unsigned cwnd - Seg of GetSsThresh wraps after an overflow only.    *)
(* Halving is safe only because it happens at or above the threshold.      *)
WindowFloor ==
  [][/\ ssThresh' >= 2 * Seg
     /\ cwnd' < Seg => (NearTop \/ cwnd' = cwnd)]_vars

(* Once IncreaseWindow uses the samples (three of them), they are real:    *)
(* the forked socket's uninitialised counter has been overwritten, and so  *)
(* has the bandwidth computed from it, and both round-trip times are set,  *)
(* non-zero and in order.                                                  *)
SamplesSound ==
  cnt >= 3 =>
    /\ acked # Garbage /\ bw # Garbage
    /\ minRtt # Never /\ rtt # Never /\ 0 < minRtt /\ minRtt <= rtt

(* Below NearTop, IncreaseWindow takes more than a byte off the window in  *)
(* one case only, a round-trip time above twice the smallest, and never    *)
(* more than half: the comparison with Reno's window undoes every sum of   *)
(* Fusion's that wrapped.  (The byte is the infinite quotient's, where     *)
(* conversions saturate.)  Near the top that window itself may wrap.       *)
ShrinksOnlyToBackOff ==
  [][\A n \in 0..MaxAcked :
       IncreaseWindow(n) /\ cwnd' < cwnd - 1 =>
         NearTop \/ (cnt = 3 /\ BackingOff /\ 2 * cwnd' >= cwnd - 1)]_vars

(* A loss never raises the threshold or leaves the window above it, and    *)
(* takes at least a segment off a window of more than three.               *)
LossBacksOff ==
  [][Loss => /\ ssThresh' <= ssThresh /\ cwnd' <= ssThresh'
             /\ cwnd >= 3 * Seg => cwnd' <= cwnd - Seg]_vars

-----------------------------------------------------------------------------
(* What the documents say, and the code does not do *)

(* Above the upper threshold the window is decreased, and then compared    *)
(* with Reno's: what is set is at most Reno's window.                      *)
DecreaseDecreases ==
  [][\A n \in 0..MaxAcked :
       IncreaseWindow(n) /\ cwnd >= ssThresh /\ cnt = 3 /\ ~BackingOff
         /\ ~BelowAlpha(cwnd) /\ AboveGamma(cwnd)
       => cwnd' <= RenoWindow(cwnd, n)]_vars

(* m_minRtt is the minimum of the samples of the last round trip: after a  *)
(* silence as long as the new sample, that sample alone.                   *)
MinRttIsRecent ==
  [][\A n \in 0..MaxAcked, r \in Rtts, gap \in Gaps :
       PktsAcked(n, r, gap) /\ gap >= r => minRtt' = r]_vars
=============================================================================
