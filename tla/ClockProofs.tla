----------------------------- MODULE ClockProofs -----------------------------
(***************************************************************************)
(* Theorems about Clock for every word size and bound under which the     *)
(* counter, the u64 product and the usize result never wrap in the run:   *)
(* there monotonic_time_ns is exact and CLOCK_MONOTONIC never goes back.  *)
(***************************************************************************)
EXTENDS Clock, TLAPS

(* No value the run reaches wraps: the counter fits in what the read      *)
(* returns, the product in a u64 and the nanoseconds in a usize.           *)
Horizon ==
    /\ MaxTime < ReadMod
    /\ MaxTime * TickMul < ProdMod
    /\ (MaxTime * TickMul) \div TickDiv < UsizeMod

(* ClockExact with what makes it inductive: the counter and the sample   *)
(* stay within the bound.  The TimeSpec is left to TLC.                   *)
CInv ==
    /\ mtime \in 0..MaxTime
    /\ readAt \in 0..MaxTime
    /\ ClockExact

-----------------------------------------------------------------------------
(* Below the horizon the modular arithmetic of monotonic_time_ns is the   *)
(* exact product: 80 ns per tick.                                          *)
LEMMA NsExact ==
    ASSUME ClockAssumption, Horizon, NEW t \in 0..MaxTime
    PROVE  MonotonicTimeNs(t) = (t * TickMul) \div TickDiv
<1>1. t % ReadMod = t
  BY DEF Horizon, ClockAssumption
<1>2. (t * TickMul) % ProdMod = t * TickMul
  BY DEF Horizon, ClockAssumption, TickMul
<1>3. (t * TickMul) \div TickDiv <= (MaxTime * TickMul) \div TickDiv
  BY DEF TickMul, TickDiv
<1>4. ((t * TickMul) \div TickDiv) % UsizeMod = (t * TickMul) \div TickDiv
  BY <1>3 DEF Horizon, ClockAssumption, TickMul, TickDiv
<1>. QED
  BY <1>1, <1>2, <1>4 DEF MonotonicTimeNs

LEMMA InitCInv == ClockAssumption /\ Init => CInv
BY ClockAssumption DEF Init, CInv, ClockExact, TickMul, TickDiv

LEMMA NextCInv == ClockAssumption /\ Horizon /\ CInv /\ [Next]_vars => CInv'
<1> SUFFICES ASSUME ClockAssumption, Horizon, CInv, [Next]_vars PROVE CInv'
  OBVIOUS
<1>1. CASE Tick
  BY <1>1 DEF Tick, CInv, ClockExact, ClockAssumption
<1>2. CASE ClockGettime
  <2>1. mtime \in 0..MaxTime
    BY DEF CInv
  <2>2. MonotonicTimeNs(mtime) = (mtime * TickMul) \div TickDiv
    BY <2>1, NsExact
  <2>. QED
    BY <1>2, <2>1, <2>2 DEF ClockGettime, CInv, ClockExact
<1>3. CASE ClockGettimeRejected
  BY <1>3 DEF ClockGettimeRejected, CInv, ClockExact
<1>4. CASE UNCHANGED vars
  BY <1>4 DEF vars, CInv, ClockExact
<1>. QED
  BY <1>1, <1>2, <1>3, <1>4 DEF Next

(* Below the horizon, every clock_gettime returns exactly 80 ns per tick  *)
(* of the counter it sampled, for every word size and bound.              *)
THEOREM ClockExactInvariant == Horizon => (Spec => []ClockExact)
<1> SUFFICES ASSUME Horizon PROVE Spec => []ClockExact
  OBVIOUS
<1>1. Init => CInv
  BY ClockAssumption, InitCInv
<1>2. CInv /\ [Next]_vars => CInv'
  BY ClockAssumption, NextCInv
<1>3. CInv => ClockExact
  BY DEF CInv
<1>. QED
  BY <1>1, <1>2, <1>3, PTL DEF Spec

-----------------------------------------------------------------------------
(* ClockMonotone with what makes it a consequence of one step: the last   *)
(* sample is not ahead of the counter, and the TimeSpec holds exactly the *)
(* nanoseconds of the last sample (tv_sec * 10^9 + tv_nsec = reading).    *)
MInv ==
    /\ CInv
    /\ readAt <= mtime
    /\ tp.tv_sec * NsPerSec + tp.tv_nsec = reading

LEMMA InitMInv == ClockAssumption /\ Init => MInv
BY InitCInv DEF Init, MInv, NsPerSec

LEMMA NextMInv == ClockAssumption /\ Horizon /\ MInv /\ [Next]_vars => MInv'
<1> SUFFICES ASSUME ClockAssumption, Horizon, MInv, [Next]_vars PROVE MInv'
  OBVIOUS
<1>1. CInv'
  BY NextCInv DEF MInv
<1>2. CASE Tick
  BY <1>1, <1>2, ClockAssumption DEF Tick, MInv, CInv
<1>3. CASE ClockGettime
  <2>1. mtime \in 0..MaxTime
    BY DEF MInv, CInv
  <2>2. MonotonicTimeNs(mtime) \in Nat
    BY <2>1, NsExact DEF TickMul, TickDiv
  <2>3. \A t \in Nat : (t \div NsPerSec) * NsPerSec + (t % NsPerSec) = t
    BY DEF NsPerSec
  <2>4. (MonotonicTimeNs(mtime) \div NsPerSec) * NsPerSec
            + (MonotonicTimeNs(mtime) % NsPerSec) = MonotonicTimeNs(mtime)
    BY <2>2, <2>3
  <2>5. /\ reading' = MonotonicTimeNs(mtime)
        /\ readAt' = mtime /\ mtime' = mtime
        /\ tp'.tv_sec = MonotonicTimeNs(mtime) \div NsPerSec
        /\ tp'.tv_nsec = MonotonicTimeNs(mtime) % NsPerSec
    BY <1>3 DEF ClockGettime
  <2>. QED
    BY <1>1, <2>1, <2>4, <2>5 DEF MInv
<1>4. CASE ClockGettimeRejected
  BY <1>1, <1>4 DEF ClockGettimeRejected, MInv
<1>5. CASE UNCHANGED vars
  BY <1>1, <1>5 DEF vars, MInv
<1>. QED
  BY <1>2, <1>3, <1>4, <1>5 DEF Next

(* Every step keeps CLOCK_MONOTONIC from going back.                      *)
LEMMA NextMonotone ==
    ClockAssumption /\ Horizon /\ MInv /\ [Next]_vars
        => [/\ reading' >= reading
            /\ tp'.tv_sec * NsPerSec + tp'.tv_nsec
                   >= tp.tv_sec * NsPerSec + tp.tv_nsec]_vars
<1> SUFFICES ASSUME ClockAssumption, Horizon, MInv, [Next]_vars
             PROVE  [/\ reading' >= reading
                     /\ tp'.tv_sec * NsPerSec + tp'.tv_nsec
                            >= tp.tv_sec * NsPerSec + tp.tv_nsec]_vars
  OBVIOUS
<1>1. MInv'
  BY NextMInv
<1>2. reading' >= reading
  <2>1. CASE ClockGettime
    <3>1. mtime \in 0..MaxTime /\ readAt \in 0..MaxTime /\ readAt <= mtime
      BY DEF MInv, CInv
    <3>2. reading' = (mtime * TickMul) \div TickDiv
      BY <2>1, <3>1, NsExact DEF ClockGettime
    <3>3. reading = (readAt * TickMul) \div TickDiv
      BY DEF MInv, CInv, ClockExact
    <3>4. QED
      BY <3>1, <3>2, <3>3 DEF TickMul, TickDiv
  <2>2. CASE ~ClockGettime
    <3>1. reading \in Nat
      BY DEF MInv, CInv, ClockExact, TickMul, TickDiv
    <3>2. QED
      BY <2>2, <3>1 DEF Next, Tick, ClockGettimeRejected, vars
  <2>3. QED
    BY <2>1, <2>2
<1>3. reading \in Int /\ reading' \in Int
  BY <1>1 DEF MInv, CInv, TypeOK, ClockExact
<1>. QED
  BY <1>1, <1>2, <1>3 DEF MInv

(* Below the horizon CLOCK_MONOTONIC never goes back: no clock_gettime    *)
(* returns fewer nanoseconds than the one before, nor stores a smaller    *)
(* TimeSpec (monotonic_time_ns and the tv_sec / tv_nsec split of          *)
(* clock_gettime).  On RV32 the horizon fails, and so does the property   *)
(* (run clock_rv32).                                                        *)
THEOREM ClockMonotoneHolds == Horizon => (Spec => ClockMonotone)
<1> SUFFICES ASSUME Horizon PROVE Spec => ClockMonotone
  OBVIOUS
<1>1. Init => MInv
  BY ClockAssumption, InitMInv
<1>2. MInv /\ [Next]_vars => MInv'
  BY ClockAssumption, NextMInv
<1>3. MInv /\ [Next]_vars
        => [/\ reading' >= reading
            /\ tp'.tv_sec * NsPerSec + tp'.tv_nsec
                   >= tp.tv_sec * NsPerSec + tp.tv_nsec]_vars
  BY ClockAssumption, NextMonotone
<1>. QED
  BY <1>1, <1>2, <1>3, PTL DEF Spec, ClockMonotone

=============================================================================
