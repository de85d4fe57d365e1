------------------------------- MODULE Clock -------------------------------
(***************************************************************************)
(* The kernel's monotonic clock (src/ch4/src/main.rs): monotonic_time_ns  *)
(* turns the hardware time counter into nanoseconds, and clock_gettime    *)
(* stores it in the caller's TimeSpec.  The counter advances on its own,  *)
(* and the kernel reads it whenever it serves CLOCK_GETTIME.              *)
(*                                                                         *)
(* Word sizes are constants, as the moduli of their widths: ReadMod for   *)
(* the counter the read returns (2^64 with time::read64, 2^XLEN with      *)
(* time::read), ProdMod for the u64 product, UsizeMod for the `as usize`  *)
(* result.                                                                 *)
(***************************************************************************)
EXTENDS Integers

CONSTANTS
    ReadMod,
    ProdMod,
    UsizeMod,
    Steps,       \* how far the counter may move between two reads
    MaxTime      \* bound on the counter

ASSUME ClockAssumption ==
    /\ ReadMod \in Nat \ {0}
    /\ ProdMod \in Nat \ {0}
    /\ UsizeMod \in Nat \ {0}
    /\ Steps \subseteq Nat \ {0}
    /\ MaxTime \in Nat

(* The time base: 10000 / 125 = 80 ns per tick of the 12.5 MHz counter.   *)
TickMul == 10000
TickDiv == 125
NsPerSec == 1000000000

VARIABLES
    mtime,     \* the hardware time counter
    reading,   \* the nanoseconds the last clock_gettime returned
    readAt,    \* the counter when it was read
    tp,        \* the TimeSpec clock_gettime stored last
    ret        \* what the last clock_gettime returned to the caller

vars == <<mtime, reading, readAt, tp, ret>>

Init ==
    /\ mtime = 0
    /\ reading = 0
    /\ readAt = 0
    /\ tp = [tv_sec |-> 0, tv_nsec |-> 0]
    /\ ret = 0

(* Variant of monotonic_time_ns that divides before it multiplies.        *)
MonotonicTimeNsDivFirst(t) ==
    ((((t % ReadMod) \div TickDiv) * TickMul) % ProdMod) % UsizeMod

(* monotonic_time_ns: (read() as u64 * 10000 / 125) as usize.             *)
MonotonicTimeNs(t) ==
    ((((t % ReadMod) * TickMul) % ProdMod) \div TickDiv) % UsizeMod

(* The counter advances.                                                  *)
Tick ==
    \E d \in Steps :
        /\ mtime + d <= MaxTime
        /\ mtime' = mtime + d
        /\ UNCHANGED <<reading, readAt, tp, ret>>

(* Variant of clock_gettime that takes tv_nsec modulo 10^6.              *)
ClockGettimeNsecTypo ==
    LET time == MonotonicTimeNs(mtime)
    IN  /\ reading' = time
        /\ readAt' = mtime
        /\ tp' = [tv_sec |-> time \div NsPerSec, tv_nsec |-> time % 1000000]
        /\ ret' = 0
        /\ UNCHANGED mtime

(* clock_gettime(CLOCK_MONOTONIC, tp) on a writable tp: sample the clock  *)
(* and store {tv_sec, tv_nsec}.                                            *)
ClockGettime ==
    LET time == MonotonicTimeNs(mtime)
    IN  /\ reading' = time
        /\ readAt' = mtime
        /\ tp' = [tv_sec |-> time \div NsPerSec, tv_nsec |-> time % NsPerSec]
        /\ ret' = 0
        /\ UNCHANGED mtime

(* clock_gettime with another clock id, or a tp the caller's address      *)
(* space does not map writable: -1, and nothing is sampled or stored.     *)
ClockGettimeRejected ==
    /\ ret' = -1
    /\ UNCHANGED <<mtime, reading, readAt, tp>>

Next == Tick \/ ClockGettime \/ ClockGettimeRejected

Spec == Init /\ [][Next]_vars

-----------------------------------------------------------------------------
(* Every variable holds a value of its type.                              *)
TypeOK ==
    /\ mtime \in 0..MaxTime
    /\ readAt \in 0..MaxTime
    /\ reading \in 0..(UsizeMod - 1)
    /\ tp \in [tv_sec : Nat, tv_nsec : 0..(NsPerSec - 1)]
    /\ ret \in {0, -1}

(* clock_gettime returns the exact time of the counter it sampled: 80 ns *)
(* per tick, with nothing lost to rounding, truncation or wrap-around.    *)
ClockExact == reading = (readAt * TickMul) \div TickDiv

(* CLOCK_MONOTONIC never goes back: a later clock_gettime never returns   *)
(* fewer nanoseconds than an earlier one, and the TimeSpec it stores       *)
(* never decreases either.                                                  *)
ClockMonotone ==
    [][/\ reading' >= reading
       /\ tp'.tv_sec * NsPerSec + tp'.tv_nsec >= tp.tv_sec * NsPerSec + tp.tv_nsec
      ]_vars

=============================================================================
