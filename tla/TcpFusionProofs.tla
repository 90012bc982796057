-------------------------- MODULE TcpFusionProofs --------------------------
(***************************************************************************)
(* Theorems about TcpFusion, for every segment size, set of round-trip     *)
(* times and width of the unsigned window.                                 *)
(***************************************************************************)
EXTENDS TcpFusion, TLAPS

LEMMA WrapRange == \A x \in Int : Wrap(x) \in 0..(Modulus - 1)
  BY FusionAssumption DEF Wrap

LEMMA WrapSmall == \A x \in 0..(Modulus - 1) : Wrap(x) = x
  BY FusionAssumption DEF Wrap

(* Reno's window is a uint32, and no smaller than the old one where the    *)
(* sum does not wrap.                                                      *)
LEMMA RenoGrows ==
  ASSUME NEW c \in 1..(Modulus - 1), NEW n \in Nat
  PROVE  /\ RenoWindow(c, n) \in 0..(Modulus - 1)
         /\ c + Seg * Seg < Modulus => RenoWindow(c, n) >= c
<1> DEFINE q == (Seg * Seg) \div c
<1>1. Seg \in Nat \ {0} /\ Seg * Seg \in Nat /\ Seg * Seg >= 1 BY FusionAssumption
<1>2. q \in Nat /\ q <= Seg * Seg BY <1>1
<1>3. Larger(1, q) \in Nat /\ Larger(1, q) <= Seg * Seg BY <1>1, <1>2 DEF Larger
<1>4. Wrap(c + Larger(1, q)) \in 0..(Modulus - 1) BY <1>3, WrapRange
<1>5. ASSUME c + Seg * Seg < Modulus
      PROVE  Wrap(c + Larger(1, q)) = c + Larger(1, q)
  <2>1. c + Larger(1, q) \in 0..(Modulus - 1) BY <1>3, <1>5, FusionAssumption
  <2> QED BY <2>1, WrapSmall
<1> QED BY <1>3, <1>4, <1>5 DEF RenoWindow

LEMMA WrapOver == \A x \in 0..(Modulus - 1) : Wrap(x + Modulus) = x
  BY FusionAssumption DEF Wrap

(* Reno's window beside Fusion's f is a uint32, and at most one byte short *)
(* of the old window c where the sum does not wrap.                        *)
LEMMA RenoAfterGrows ==
  ASSUME NEW c \in 1..(Modulus - 1), NEW f \in Nat, NEW n \in Nat,
         NEW r \in RenoAfter(c, f, n)
  PROVE  /\ r \in 0..(Modulus - 1)
         /\ c + Seg * Seg < Modulus => r >= c - 1
<1> USE FusionAssumption
<1>0. Seg * Seg \in Nat /\ Seg * Seg >= 1 OBVIOUS
<1>1. CASE n = 0 BY <1>1 DEF RenoAfter
<1>2. CASE n # 0 /\ f = 0
  <2>1. c - 1 \in 0..(Modulus - 1) OBVIOUS
  <2>2. Wrap((c - 1) + Modulus) = c - 1 BY <2>1, WrapOver
  <2>3. (c - 1) + Modulus = c + Modulus - 1 OBVIOUS
  <2> QED BY <1>2, <2>2, <2>3 DEF RenoAfter
<1>3. CASE n # 0 /\ f # 0
  <2> DEFINE q == (Seg * Seg) \div f
  <2>1. q \in Nat /\ q <= Seg * Seg BY <1>0, <1>3
  <2>2. Larger(1, q) \in Nat /\ Larger(1, q) <= Seg * Seg BY <1>0, <2>1 DEF Larger
  <2>3. Wrap(c + Larger(1, q)) \in 0..(Modulus - 1) BY <2>2, WrapRange
  <2>4. ASSUME c + Seg * Seg < Modulus
        PROVE  Wrap(c + Larger(1, q)) = c + Larger(1, q)
    <3>1. c + Larger(1, q) \in 0..(Modulus - 1) BY <1>0, <2>2, <2>4
    <3> QED BY <3>1, WrapSmall
  <2> QED BY <1>3, <2>2, <2>3, <2>4 DEF RenoAfter
<1> QED BY <1>1, <1>2, <1>3

(* The samples, counted: the first one overwrites the counter that Fork    *)
(* left uninitialised, the second the bandwidth computed from it.          *)
SamplesInv ==
  /\ cnt >= 1 => /\ acked = 0
                 /\ rtt \in Rtts \ {0} /\ minRtt \in Rtts \ {0} /\ minRtt <= rtt
  /\ cnt = 0 => minRtt = Never /\ bw = 0
  /\ cnt >= 2 => bw # Garbage

FusionInv == TypeOK /\ ssThresh >= 2 * Seg /\ SamplesInv

(* Whatever Fusion computes is a uint32: its sums wrap, and its conversion *)
(* from double drops or saturates what does not fit.                       *)
LEMMA FusionWindowsRange ==
  ASSUME FusionInv, cnt = 3, NEW c \in 1..(Modulus - 1), NEW f \in FusionWindows(c)
  PROVE  f \in 0..(Modulus - 1)
<1> USE FusionAssumption
<1>1. /\ rtt \in Nat \ {0} /\ minRtt \in Nat /\ minRtt <= rtt
      /\ bw \in Nat \cup {Garbage, Infinite}
  BY DEF FusionInv, SamplesInv, TypeOK
<1>2. CASE f \in Increase(c)
  <2>1. \A w \in WindowIncrement : w \in Nat
    <3>1. bw \in Nat => bw \div BwUnit \in Int OBVIOUS
    <3>2. bw \in Nat => Wrap(bw \div BwUnit) \in Nat BY <3>1, WrapRange
    <3> QED BY <1>1, <3>2 DEF WindowIncrement
  <2>2. \A w \in Nat : w * Seg \in Int OBVIOUS
  <2>3. \A w \in WindowIncrement : Wrap(w * Seg) \in Nat BY <2>1, <2>2, WrapRange
  <2>4. \A w \in WindowIncrement : Wrap(c + Wrap(w * Seg)) \in 0..(Modulus - 1)
    BY <2>3, WrapRange
  <2> QED BY <1>2, <2>4 DEF Increase
<1>3. CASE f \in Decrease(c)
  <2>1. Diff(c) \in Nat /\ Diff(c) <= c
    <3>1. c * (rtt - minRtt) \in Nat BY <1>1
    <3>2. c * (rtt - minRtt) <= c * rtt BY <1>1
    <3> QED BY <1>1, <3>1, <3>2 DEF Diff
  <2> DEFINE num == ((Modulus - Diff(c)) * rtt + c * Alpha) * Seg
             x   == c + num \div (rtt * c)
  <2>2. Modulus - Diff(c) \in Nat BY <2>1
  <2>3. (Modulus - Diff(c)) * rtt + c * Alpha \in Nat BY <1>1, <2>2
  <2>4. num \in Nat BY <2>3
  <2>5. rtt * c \in Nat \ {0} BY <1>1
  <2>6. x \in Nat
    <3> HIDE DEF num
    <3> QED BY <2>4, <2>5
  <2>7. f \in ToUInt32(x) BY <1>3 DEF Decrease
  <2> HIDE DEF x
  <2> QED BY <2>6, <2>7, WrapRange DEF ToUInt32
<1>4. CASE f = c BY <1>4
<1> QED BY <1>2, <1>3, <1>4 DEF FusionWindows

(* What congestion avoidance leaves at or above the threshold: a uint32,   *)
(* and, where Reno's sum does not wrap, at least a segment, and less than a *)
(* byte below the old window only by halving it.                           *)
LEMMA AvoidanceRange ==
  ASSUME FusionInv, NEW c \in 1..(Modulus - 1), ssThresh <= c,
         NEW n \in Nat, NEW w \in Avoidance(c, n)
  PROVE  /\ w \in 0..(Modulus - 1)
         /\ c + Seg * Seg < Modulus =>
              /\ w >= Seg
              /\ w < c - 1 => cnt = 3 /\ BackingOff /\ 2 * w >= c - 1
<1> USE FusionAssumption
<1>1. 2 * Seg <= c /\ cnt \in 0..3
  BY DEF FusionInv, TypeOK
<1>2. CASE cnt < 3
  <2>1. w = RenoWindow(c, n) BY <1>2 DEF Avoidance
  <2> QED BY <1>1, <2>1, RenoGrows
<1>3. CASE cnt = 3 /\ BackingOff
  <2>1. w = c \div 2 BY <1>3 DEF Avoidance, BackOff
  <2> QED BY <1>1, <1>3, <2>1
<1>4. CASE cnt = 3 /\ ~BackingOff
  <2>1. PICK f \in FusionWindows(c) : w \in {Larger(f, r) : r \in RenoAfter(c, f, n)}
    BY <1>4 DEF Avoidance
  <2>2. f \in 0..(Modulus - 1) BY <1>4, FusionWindowsRange
  <2>3. PICK r \in RenoAfter(c, f, n) : w = Larger(f, r) BY <2>1
  <2>4. /\ r \in 0..(Modulus - 1)
        /\ c + Seg * Seg < Modulus => r >= c - 1
    BY <2>2, RenoAfterGrows
  <2>5. c - 1 >= Seg BY <1>1
  <2> QED BY <1>1, <2>2, <2>3, <2>4, <2>5 DEF Larger
<1> QED BY <1>1, <1>2, <1>3, <1>4

(* IncreaseWindow as a whole: slow start, if it was below the threshold,   *)
(* then congestion avoidance.                                              *)
LEMMA IncreaseWindowRange ==
  ASSUME FusionInv, NEW n \in 0..MaxAcked, IncreaseWindow(n)
  PROVE  /\ cwnd' \in 0..(Modulus - 1)
         /\ cwnd' < Seg => (NearTop \/ cwnd' = cwnd)
         /\ cwnd' < cwnd - 1 =>
              (NearTop \/ (cnt = 3 /\ BackingOff /\ 2 * cwnd' >= cwnd - 1))
<1> USE FusionAssumption
<1> DEFINE starting == cwnd < ssThresh
           c == IF starting THEN SlowStart(cwnd, n) ELSE cwnd
           m == IF starting /\ n > 0 THEN n - 1 ELSE n
<1>1. /\ cwnd \in 0..(Modulus - 1) /\ ssThresh \in (2 * Seg)..(Modulus - 1)
      /\ n \in Nat /\ Seg * Seg \in Nat
  BY DEF FusionInv, TypeOK
<1>2. m \in Nat BY <1>1
<1>3. c \in 0..(Modulus - 1)
  <2>1. Wrap(cwnd + Seg) \in 0..(Modulus - 1) BY <1>1, WrapRange
  <2> QED BY <1>1, <2>1 DEF SlowStart
<1>4. ASSUME ~NearTop PROVE c = cwnd \/ c = cwnd + Seg
  <2>1. cwnd + Seg \in 0..(Modulus - 1) BY <1>1, <1>4 DEF NearTop
  <2>2. Wrap(cwnd + Seg) = cwnd + Seg BY <2>1, WrapSmall
  <2> QED BY <2>2 DEF SlowStart
<1>5. cwnd' \in IF c >= ssThresh THEN Avoidance(c, m) ELSE {c} BY DEF IncreaseWindow
<1> HIDE DEF c, m
<1>6. CASE c >= ssThresh
  <2>1. c \in 1..(Modulus - 1) BY <1>1, <1>3, <1>6
  <2>2. /\ cwnd' \in 0..(Modulus - 1)
        /\ c + Seg * Seg < Modulus =>
             /\ cwnd' >= Seg
             /\ cwnd' < c - 1 => cnt = 3 /\ BackingOff /\ 2 * cwnd' >= c - 1
    <3>1. cwnd' \in Avoidance(c, m) BY <1>5, <1>6
    <3>2. ssThresh <= c BY <1>1, <1>3, <1>6
    <3> QED BY <1>2, <2>1, <3>1, <3>2, AvoidanceRange
  <2>3. ASSUME ~NearTop
        PROVE  /\ cwnd' >= Seg
               /\ cwnd' < cwnd - 1 => cnt = 3 /\ BackingOff /\ 2 * cwnd' >= cwnd - 1
    <3>1. c + Seg * Seg < Modulus /\ cwnd <= c BY <1>1, <1>3, <1>4, <2>3 DEF NearTop
    <3>2. cwnd' < cwnd - 1 => cwnd' < c - 1 BY <1>1, <1>3, <2>2, <3>1
    <3>3. \A x, y, z \in Int : 2 * x >= y - 1 /\ z <= y => 2 * x >= z - 1 OBVIOUS
    <3>4. cwnd' \in Int /\ c \in Int /\ cwnd \in Int BY <1>1, <1>3, <2>2
    <3>5. 2 * cwnd' >= c - 1 => 2 * cwnd' >= cwnd - 1 BY ONLY <3>1, <3>3, <3>4
    <3> QED BY <2>2, <3>1, <3>2, <3>5
  <2>4. cwnd' < Seg => NearTop
    <3>1. cwnd' \in Int /\ Seg \in Int BY <2>2
    <3>2. ~NearTop => cwnd' >= Seg BY <2>3
    <3> QED BY ONLY <3>1, <3>2
  <2> QED BY <2>2, <2>3, <2>4
<1>7. CASE ~(c >= ssThresh)
  <2>1. cwnd' = c BY <1>5, <1>7
  <2> QED BY <1>1, <1>3, <1>4, <2>1
<1> QED BY <1>6, <1>7

(* A loss leaves two segments of threshold at least, and one of window.    *)
LEMMA LossRange ==
  ASSUME FusionInv
  PROVE  /\ GetSsThresh \in (2 * Seg)..(Modulus - 1)
         /\ GetSsThresh <= ssThresh
         /\ cwnd >= 3 * Seg => GetSsThresh <= cwnd - Seg
<1> USE FusionAssumption
<1>1. /\ cwnd \in 0..(Modulus - 1) /\ ssThresh \in (2 * Seg)..(Modulus - 1)
  BY DEF FusionInv, TypeOK
<1>2. Wrap(cwnd - Seg) \in 0..(Modulus - 1) BY <1>1, WrapRange
<1>3. ASSUME cwnd >= 3 * Seg PROVE Wrap(cwnd - Seg) = cwnd - Seg
  <2>1. cwnd - Seg \in 0..(Modulus - 1) BY <1>1, <1>3
  <2> QED BY <2>1, WrapSmall
<1> QED BY <1>1, <1>2, <1>3 DEF GetSsThresh, Larger, Smaller

LEMMA FusionInvInit == Init => FusionInv
  BY FusionAssumption DEF Init, FusionInv, TypeOK, SamplesInv

LEMMA FusionInvStep == FusionInv /\ [Next]_vars => FusionInv'
<1> SUFFICES ASSUME FusionInv, [Next]_vars PROVE FusionInv' OBVIOUS
<1> USE FusionAssumption
<1>1. ASSUME NEW n \in 0..MaxAcked, NEW r \in Rtts, NEW gap \in Gaps, PktsAcked(n, r, gap)
      PROVE  FusionInv'
  <2> USE DEF FusionInv, TypeOK, SamplesInv
  <2>0. ASSUME acked = 0, gap > 0 PROVE Wrap((acked + n) * Seg) \div gap \in Nat
    <3>1. n * Seg \in Int OBVIOUS
    <3>2. Wrap((acked + n) * Seg) \in Nat BY <2>0, <3>1, WrapRange
    <3>3. gap \in Nat \ {0} BY <2>0
    <3> QED BY <3>2, <3>3
  <2>1. Bandwidth(n, gap) \in Nat \cup {Garbage, Infinite} BY <2>0 DEF Bandwidth
  <2>2. acked = 0 => Bandwidth(n, gap) # Garbage BY <2>0 DEF Bandwidth
  <2>3. /\ r # 0 /\ bw' = Bandwidth(n, gap) /\ acked' = 0 /\ rtt' = r
        /\ minRtt' = IF minRtt = Never THEN r ELSE Smaller(minRtt, r)
        /\ cnt' = Smaller(cnt + 1, 3) /\ cwnd' = cwnd /\ ssThresh' = ssThresh
    BY <1>1 DEF PktsAcked, window
  <2>4. cnt' \in 1..3 /\ (cnt' >= 2 => cnt >= 1) BY <2>3 DEF Smaller
  <2>5. minRtt' \in Rtts \ {0} /\ minRtt' <= r
    BY <2>3 DEF Smaller
  <2> HIDE DEF SamplesInv
  <2>6. TypeOK' BY <2>1, <2>3, <2>4, <2>5
  <2>7. (ssThresh >= 2 * Seg)' BY <2>3
  <2>8. SamplesInv' BY <2>2, <2>3, <2>4, <2>5 DEF SamplesInv
  <2> QED BY <2>6, <2>7, <2>8
<1>2. ASSUME NEW n \in 0..MaxAcked, IncreaseWindow(n) PROVE FusionInv'
  <2>1. cwnd' \in 0..(Modulus - 1) BY <1>2, IncreaseWindowRange
  <2>2. UNCHANGED <<ssThresh, samples>> BY <1>2 DEF IncreaseWindow
  <2> QED BY <2>1, <2>2 DEF FusionInv, TypeOK, SamplesInv, samples
<1>3. CASE FastRecovery
  BY <1>3, LossRange DEF FastRecovery, FusionInv, TypeOK, SamplesInv, samples
<1>4. CASE Timeout
  BY <1>4, LossRange DEF Timeout, FusionInv, TypeOK, SamplesInv, samples
<1>5. CASE UNCHANGED vars
  BY <1>5 DEF vars, FusionInv, TypeOK, SamplesInv
<1> QED BY <1>1, <1>2, <1>3, <1>4, <1>5 DEF Next

LEMMA FusionInvariant == Spec => []FusionInv
  BY FusionInvInit, FusionInvStep, PTL DEF Spec

(* Every counter stays in its width, whatever the unsigned sums wrap to.   *)
THEOREM FusionTypeCorrect == Spec => []TypeOK
<1>1. FusionInv => TypeOK BY DEF FusionInv
<1> QED BY <1>1, FusionInvariant, PTL

(* The threshold never falls below two segments, and the window below one  *)
(* only by an overflow near the top of its range.                          *)
THEOREM FusionSafe == Spec => WindowFloor
<1>1. ASSUME FusionInv, FusionInv', [Next]_vars
      PROVE  [/\ ssThresh' >= 2 * Seg
              /\ cwnd' < Seg => (NearTop \/ cwnd' = cwnd)]_vars
  <2>1. ssThresh' >= 2 * Seg BY <1>1 DEF FusionInv
  <2>2. CASE \E n \in 0..MaxAcked, r \in Rtts, gap \in Gaps : PktsAcked(n, r, gap)
    BY <2>1, <2>2 DEF PktsAcked, window
  <2>3. CASE \E n \in 0..MaxAcked : IncreaseWindow(n)
    BY <1>1, <2>1, <2>3, IncreaseWindowRange
  <2>4. CASE FastRecovery \/ Timeout
    <3>1. GetSsThresh \in (2 * Seg)..(Modulus - 1) BY <1>1, LossRange
    <3>2. cwnd' = GetSsThresh \/ cwnd' = Seg BY <2>4 DEF FastRecovery, Timeout
    <3>3. ~(cwnd' < Seg) BY <3>1, <3>2, FusionAssumption
    <3> QED BY <2>1, <3>3
  <2> QED BY <1>1, <2>2, <2>3, <2>4 DEF Next
<1> QED BY FusionInvariant, <1>1, PTL DEF Spec, WindowFloor

(* No branch of IncreaseWindow works on a sample that was not taken.       *)
THEOREM SamplesAreTaken == Spec => []SamplesSound
<1>1. FusionInv => SamplesSound
  BY FusionAssumption DEF FusionInv, SamplesInv, SamplesSound, TypeOK
<1> QED BY <1>1, FusionInvariant, PTL

(* Short of the top of the range, only the back-off shrinks the window,    *)
(* and by half at most, whatever Fusion's own sums wrap to.                *)
THEOREM OnlyBackOffShrinks == Spec => ShrinksOnlyToBackOff
<1>1. ASSUME FusionInv
      PROVE  [\A n \in 0..MaxAcked :
                IncreaseWindow(n) /\ cwnd' < cwnd - 1 =>
                  NearTop \/ (cnt = 3 /\ BackingOff /\ 2 * cwnd' >= cwnd - 1)]_vars
  BY <1>1, IncreaseWindowRange
<1> QED BY FusionInvInit, FusionInvStep, <1>1, PTL DEF Spec, ShrinksOnlyToBackOff

(* A loss lowers the threshold and puts the window at or below it.         *)
THEOREM LossesBackOff == Spec => LossBacksOff
<1>1. ASSUME FusionInv
      PROVE  [Loss => /\ ssThresh' <= ssThresh /\ cwnd' <= ssThresh'
                      /\ cwnd >= 3 * Seg => cwnd' <= cwnd - Seg]_vars
  <2>1. ASSUME FastRecovery \/ Timeout
        PROVE  /\ ssThresh' <= ssThresh /\ cwnd' <= ssThresh'
               /\ cwnd >= 3 * Seg => cwnd' <= cwnd - Seg
    BY <1>1, <2>1, LossRange, FusionAssumption
       DEF FastRecovery, Timeout, FusionInv, TypeOK
  <2> QED BY <2>1 DEF Loss
<1> QED BY FusionInvInit, FusionInvStep, <1>1, PTL DEF Spec, LossBacksOff
=============================================================================
