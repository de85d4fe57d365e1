------------------------------ MODULE MC_Sbi ------------------------------
(***************************************************************************)
(* Small instances of Sbi for TLC.  Words are scaled down: Shift = 4, so  *)
(* a timer value is an 8-bit u64, and usize has 4 bits on the RV32-like   *)
(* instance and 8 on the RV64-like one.                                    *)
(***************************************************************************)
EXTENDS Sbi, Bitwise

(* The OR of handle_timer's `a0 | (a1 << 32)`.                              *)
MC_BitOr(a, b) == a | b

Req(mcause, eid, fid, a0, a1) ==
    [mcause |-> mcause, eid |-> eid, fid |-> fid, a0 |-> a0, a1 |-> a1]

(* console_putchar of two bytes, console_getchar, base probes (a known    *)
(* and an unknown fid), an unknown eid, SRST with a bad fid and a failing  *)
(* reason, and an illegal-instruction trap (mcause 2) that looks like a   *)
(* putchar.                                                                 *)
MC_Calls ==
    { Req(EcallFromS, LEGACY_CONSOLE_PUTCHAR, 0, 65, 0),
      Req(EcallFromS, LEGACY_CONSOLE_PUTCHAR, 0, 266, 0),
      Req(EcallFromS, LEGACY_CONSOLE_GETCHAR, 0, 0, 0),
      Req(EcallFromS, BASE, 0, 0, 0),
      Req(EcallFromS, BASE, 9, 0, 0),
      Req(EcallFromS, 3, 0, 0, 0),
      Req(EcallFromS, SRST, 1, 0, 0),
      Req(EcallFromS, SRST, 0, 0, 1),
      Req(2, LEGACY_CONSOLE_PUTCHAR, 0, 65, 0) }

(* A time below 2^Shift and one above, so that both halves matter.        *)
MC_Times == {3, 37}
MC_StaleA1 == {0, 1}
MC_Bytes == {7}

=============================================================================
