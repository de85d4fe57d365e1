-------------------------------- MODULE Sbi --------------------------------
(***************************************************************************)
(* The machine-mode SBI monitor of ch3 (src/ch3/src/msbi.rs): the         *)
(* supervisor-mode kernel traps into m_trap_handler with an SBI request   *)
(* in a0, a1, a6 (fid) and a7 (eid), and the handler services it on the   *)
(* 16550 UART, the CLINT timer-compare register, mip.STIP and the QEMU    *)
(* finisher.  The devices run beside the hart: the UART drains its         *)
(* transmit holding register and receives bytes on its own.               *)
(*                                                                         *)
(* Word widths are constants: Xlen is the width of usize and of the       *)
(* argument registers, Shift the shift of handle_timer's high half (32    *)
(* in the code), and the timer value is a u64 of 2 * Shift bits.  The    *)
(* bitwise OR of handle_timer is the constant operator BitOr, which        *)
(* MC_Sbi instantiates with the OR of the Bitwise module.                 *)
(***************************************************************************)
EXTENDS Integers, Sequences

CONSTANTS
    Xlen,          \* bits of usize: 32 on RV32, 64 on RV64
    Shift,         \* the `<< 32` of handle_timer
    Calls,         \* the non-timer SBI requests the kernel may make
    Times,         \* the absolute times the kernel may program
    StaleA1,       \* what a1 may hold when a 64-bit caller sets only a0
    Bytes,         \* the bytes that arrive on the UART's receive line
    MaxCalls,      \* bound on the number of SBI calls
    MaxRx,         \* bound on the number of bytes that arrive
    BitOr(_, _)    \* `|` on u64

ASSUME XlenAssumption == Shift \in Nat \ {0, 1} /\ Xlen \in {Shift, 2 * Shift}

(* 2^32 in the code: the weight of the high half of a timer value.         *)
Word == 2^Shift

(* mcause 9: environment call from S-mode.                                *)
EcallFromS == 9

(* The SBI extension ids, eid::* in the code.                             *)
LEGACY_CONSOLE_PUTCHAR == 1
LEGACY_CONSOLE_GETCHAR == 2
LEGACY_SHUTDOWN == 8
BASE == 16
TIMER == 1414090053
SRST == 1397904212

UsizeMax == (IF Xlen = Shift THEN Word ELSE Word * Word) - 1
U64 == Word * Word
FINISHER_PASS == 21845
FINISHER_FAIL == 13107
NoCode == 0
NoTime == -1

(* SbiRet::success and SbiRet::not_supported.                             *)
Success(v) == [error |-> 0, value |-> v]
NotSupported == [error |-> -2, value |-> 0]

Call == [mcause : Nat, eid : Nat, fid : Nat, a0 : Nat, a1 : Nat]

(* Shift >= 2 makes Word at least 4; the provers cannot derive this from   *)
(* the definition of ^, so it is stated, and TLC evaluates it.             *)
ASSUME WordAssumption == Word \in Nat /\ Word >= 4

(* BitOr is the OR of two u64 values: it stays within u64, and on operands *)
(* whose bits do not overlap (a low half and a shifted high half) it is   *)
(* their sum.                                                               *)
ASSUME BitOrAssumption ==
    /\ \A a, b \in 0..(U64 - 1) : BitOr(a, b) \in 0..(U64 - 1)
    /\ \A lo, hi \in 0..(Word - 1) : BitOr(lo, hi * Word) = lo + hi * Word

(* The kernel's requests are SBI calls; it issues timer calls only through *)
(* set_timer, with times that fit a u64; the received bytes are bytes that *)
(* fit a usize; the bounds are natural numbers.                            *)
ASSUME ConstantsAssumption ==
    /\ Calls \subseteq Call /\ \A c \in Calls : c.eid # TIMER
    /\ Times \subseteq 0..(U64 - 1) /\ StaleA1 \subseteq Nat
    /\ Bytes \subseteq 0..255 /\ Bytes \subseteq 0..UsizeMax
    /\ MaxCalls \in Nat /\ MaxRx \in Nat

VARIABLES
    hart,       \* "S": the kernel runs; "putchar": the handler spins on
                \* THRE; "halted": the finisher stopped the machine
    call,       \* the trap registers of the latest SBI call
    ret,        \* the SbiRet it returned in a0/a1
    calls,      \* SBI calls taken so far
    thr,        \* UART transmit holding register
    thre,       \* LSR bit 5: THR is empty
    line,       \* bytes the UART has put on the wire
    sent,       \* bytes putchar has handed to the UART, in order
    rx,         \* bytes received and not yet read (LSR bit 0: rx # <<>>)
    rbr,        \* the receive buffer register: the byte last read
    arrived,    \* every byte that has arrived on the receive line
    got,        \* bytes getchar has returned, in order
    mtimecmp,   \* CLINT mtimecmp
    stip,       \* mip.STIP
    lastTimer,  \* the time the latest timer call meant to program
    finisher    \* the code written to the QEMU test device

vars == <<hart, call, ret, calls, thr, thre, line, sent, rx, rbr, arrived, got,
          mtimecmp, stip, lastTimer, finisher>>
uart == <<thr, thre, line, sent, rx, rbr, arrived, got>>
devices == <<uart, mtimecmp, stip, finisher>>

Init ==
    /\ hart = "S"
    /\ call = [mcause |-> EcallFromS, eid |-> 0, fid |-> 0, a0 |-> 0, a1 |-> 0]
    /\ ret = Success(0)
    /\ calls = 0
    /\ thr = 0
    /\ thre = TRUE
    /\ line = << >>
    /\ sent = << >>
    /\ rx = << >>
    /\ rbr = 0
    /\ arrived = << >>
    /\ got = << >>
    /\ mtimecmp \in {0, U64 - 1}
    /\ stip \in BOOLEAN
    /\ lastTimer = NoTime
    /\ finisher = NoCode

-----------------------------------------------------------------------------
(* handle_base: the fixed answers of the base extension.                   *)
BaseResult(fid) ==
    CASE fid = 0 -> Success(2)
      [] fid = 2 -> Success(1)
      [] fid = 3 -> Success(1)
      [] fid \in {1, 4, 5, 6} -> Success(0)
      [] OTHER -> NotSupported

(* Variant that passes only a0 to handle_timer.                          *)
TimerValueNoHigh(a0, a1) == a0 % U64

(* The argument handle_timer gets: a0 as u64 | ((a1 as u64) << 32).        *)
TimerValue(a0, a1) == BitOr(a0, (a1 * Word) % U64)

(* handle_system_reset: write the finisher code; the device halts the     *)
(* machine and the `loop {}` never ends.                                   *)
SystemReset(reason) ==
    /\ finisher' = IF reason = 0 THEN FINISHER_PASS ELSE FINISHER_FAIL
    /\ hart' = "halted"

(* One SBI call of the kernel, taken by m_trap_handler.  Every handler     *)
(* but putchar runs to its end without waiting on a device.  Once the     *)
(* bound on calls is spent the kernel can still shut down.                *)
ShutdownCall ==
    [mcause |-> EcallFromS, eid |-> LEGACY_SHUTDOWN, fid |-> 0, a0 |-> 0, a1 |-> 0]

Trap(c) ==
    /\ hart = "S"
    /\ calls < MaxCalls \/ c = ShutdownCall
    /\ call' = c
    /\ calls' = calls + 1

(* mcause != 9: return not_supported and touch nothing.                    *)
NotEcall ==
    /\ call'.mcause # EcallFromS
    /\ ret' = NotSupported
    /\ UNCHANGED <<hart, devices>>

(* Variant of the putchar arm that does not look at mcause.             *)
ConsolePutcharAnyCause ==
    /\ call'.eid = LEGACY_CONSOLE_PUTCHAR
    /\ hart' = "putchar"
    /\ UNCHANGED <<ret, devices>>

(* handle_console_putchar: enter uart::putchar's spin on THRE.              *)
ConsolePutchar ==
    /\ call'.mcause = EcallFromS
    /\ call'.eid = LEGACY_CONSOLE_PUTCHAR
    /\ hart' = "putchar"
    /\ UNCHANGED <<ret, devices>>

(* Variant of handle_console_getchar that tests LSR bit 5 (THRE) for    *)
(* data ready and so reads RBR whether a byte is pending or not.          *)
ConsoleGetcharWrongBit ==
    /\ call'.mcause = EcallFromS
    /\ call'.eid = LEGACY_CONSOLE_GETCHAR
    /\ \/ /\ thre
          /\ LET b == IF rx # << >> THEN Head(rx) ELSE rbr
             IN  /\ ret' = Success(b)
                 /\ rx' = IF rx # << >> THEN Tail(rx) ELSE rx
                 /\ rbr' = b
                 /\ got' = Append(got, b)
       \/ /\ ~thre
          /\ ret' = Success(UsizeMax)
          /\ UNCHANGED <<rx, rbr, got>>
    /\ UNCHANGED <<hart, thr, thre, line, sent, arrived, mtimecmp, stip,
                   finisher>>

(* handle_console_getchar: read LSR; on data ready read RBR.               *)
ConsoleGetchar ==
    /\ call'.mcause = EcallFromS
    /\ call'.eid = LEGACY_CONSOLE_GETCHAR
    /\ \/ /\ rx # << >>
          /\ ret' = Success(Head(rx))
          /\ rx' = Tail(rx)
          /\ rbr' = Head(rx)
          /\ got' = Append(got, Head(rx))
       \/ /\ rx = << >>
          /\ ret' = Success(UsizeMax)
          /\ UNCHANGED <<rx, rbr, got>>
    /\ UNCHANGED <<hart, thr, thre, line, sent, arrived, mtimecmp, stip,
                   finisher>>

(* handle_legacy_shutdown == handle_system_reset(0, 0).                    *)
LegacyShutdown ==
    /\ call'.mcause = EcallFromS
    /\ call'.eid = LEGACY_SHUTDOWN
    /\ SystemReset(0)
    /\ UNCHANGED <<ret, uart, mtimecmp, stip>>

HandleBase ==
    /\ call'.mcause = EcallFromS
    /\ call'.eid = BASE
    /\ ret' = BaseResult(call'.fid)
    /\ UNCHANGED <<hart, devices>>

(* handle_timer: write mtimecmp, clear STIP, return success(0).             *)
HandleTimer ==
    /\ call'.mcause = EcallFromS
    /\ call'.eid = TIMER
    /\ mtimecmp' = TimerValue(call'.a0, call'.a1)
    /\ stip' = FALSE
    /\ ret' = Success(0)
    /\ UNCHANGED <<hart, uart, finisher>>

(* SRST: fid 0 is system_reset(a0 = type, a1 = reason).                   *)
HandleSrst ==
    /\ call'.mcause = EcallFromS
    /\ call'.eid = SRST
    /\ \/ /\ call'.fid = 0
          /\ SystemReset(call'.a1)
          /\ UNCHANGED ret
       \/ /\ call'.fid # 0
          /\ ret' = NotSupported
          /\ UNCHANGED <<hart, finisher>>
    /\ UNCHANGED <<uart, mtimecmp, stip>>

HandleOther ==
    /\ call'.mcause = EcallFromS
    /\ call'.eid \notin {LEGACY_CONSOLE_PUTCHAR, LEGACY_CONSOLE_GETCHAR,
                         LEGACY_SHUTDOWN, BASE, TIMER, SRST}
    /\ ret' = NotSupported
    /\ UNCHANGED <<hart, devices>>

MTrapHandler ==
    \/ NotEcall \/ ConsolePutchar \/ ConsoleGetchar \/ LegacyShutdown
    \/ HandleBase \/ HandleTimer \/ HandleSrst \/ HandleOther

(* set_timer(T) as the kernel issues it: on RV32 the two halves go in a0 *)
(* and a1; on RV64 the whole time goes in a0 and a1 holds whatever it     *)
(* held before the call.                                                   *)
TimerCall(t, stale) ==
    [mcause |-> EcallFromS, eid |-> TIMER, fid |-> 0,
     a0 |-> IF Xlen = Shift THEN t % Word ELSE t,
     a1 |-> IF Xlen = Shift THEN t \div Word ELSE stale]

(* The time a timer call means, read back from its registers under the    *)
(* calling convention of the kernel's width.                               *)
Meant(c) == IF Xlen = Shift THEN c.a0 + c.a1 * Word ELSE c.a0

Requests == Calls \cup {ShutdownCall} \cup {TimerCall(t, s) : t \in Times, s \in StaleA1}

(* The kernel makes an SBI call and m_trap_handler services it.            *)
KernelCall ==
    \E c \in Requests :
        /\ Trap(c)
        /\ MTrapHandler
        /\ lastTimer' = IF c.mcause = EcallFromS /\ c.eid = TIMER
                        THEN Meant(c) ELSE lastTimer

(* Variant of uart::is_tx_ready that masks LSR with 0x21 and so also     *)
(* waits for data ready.                                                   *)
IsTxReadyWrongMask == thre /\ rx # << >>

(* uart::is_tx_ready: LSR bit 5 (THRE).                                    *)
IsTxReady == thre

(* One turn of `while !is_tx_ready() {}`.                                   *)
PutcharSpin ==
    /\ hart = "putchar"
    /\ ~IsTxReady
    /\ UNCHANGED vars

(* Variant of the end of putchar that writes `c` without the `as u8`.    *)
PutcharWriteNoCast ==
    /\ hart = "putchar"
    /\ thre
    /\ thr' = call.a0
    /\ thre' = FALSE
    /\ sent' = Append(sent, call.a0 % 256)
    /\ ret' = Success(0)
    /\ hart' = "S"
    /\ UNCHANGED <<call, calls, line, rx, rbr, arrived, got, mtimecmp, stip,
                   lastTimer, finisher>>

(* Variant of putchar without the spin: THR is written at once.           *)
PutcharWriteNoSpin ==
    /\ hart = "putchar"
    /\ thr' = call.a0 % 256
    /\ thre' = FALSE
    /\ sent' = Append(sent, call.a0 % 256)
    /\ ret' = Success(0)
    /\ hart' = "S"
    /\ UNCHANGED <<call, calls, line, rx, rbr, arrived, got, mtimecmp, stip,
                   lastTimer, finisher>>

(* The end of uart::putchar: THRE is set, write the byte to THR, and      *)
(* return success(0) from the trap.                                        *)
PutcharWrite ==
    /\ hart = "putchar"
    /\ IsTxReady
    /\ thr' = call.a0 % 256
    /\ thre' = FALSE
    /\ sent' = Append(sent, call.a0 % 256)
    /\ ret' = Success(0)
    /\ hart' = "S"
    /\ UNCHANGED <<call, calls, line, rx, rbr, arrived, got, mtimecmp, stip,
                   lastTimer, finisher>>

(* The UART shifts THR onto the wire and sets THRE.                        *)
UartTransmit ==
    /\ ~thre
    /\ line' = Append(line, thr)
    /\ thre' = TRUE
    /\ UNCHANGED <<hart, call, ret, calls, thr, sent, rx, rbr, arrived, got,
                   mtimecmp, stip, lastTimer, finisher>>

(* A byte arrives on the receive line.                                    *)
UartReceive ==
    /\ hart # "halted"
    /\ Len(arrived) < MaxRx
    /\ \E b \in Bytes :
          /\ rx' = Append(rx, b)
          /\ arrived' = Append(arrived, b)
    /\ UNCHANGED <<hart, call, ret, calls, thr, thre, line, sent, rbr, got,
                   mtimecmp, stip, lastTimer, finisher>>

(* The finisher has stopped the machine.                                  *)
Halted ==
    /\ hart = "halted"
    /\ UNCHANGED vars

Next ==
    \/ KernelCall \/ PutcharSpin \/ PutcharWrite
    \/ UartTransmit \/ UartReceive \/ Halted

(* The hart runs the spin loop and the UART drains THR: weak fairness on  *)
(* both.  The kernel is free to stop calling.                             *)
Spec == Init /\ [][Next]_vars /\ WF_vars(PutcharWrite) /\ WF_vars(UartTransmit)

-----------------------------------------------------------------------------
(* Every variable holds a value of its type.                              *)
TypeOK ==
    /\ hart \in {"S", "putchar", "halted"}
    /\ call \in Call
    /\ ret \in [error : {0, -2}, value : 0..UsizeMax]
    /\ calls \in 0..(MaxCalls + 1)
    /\ thr \in 0..255 /\ thre \in BOOLEAN
    /\ line \in Seq(0..255) /\ sent \in Seq(0..255)
    /\ rx \in Seq(Bytes) /\ rbr \in 0..255 /\ arrived \in Seq(Bytes) /\ got \in Seq(0..255)
    /\ mtimecmp \in 0..(U64 - 1) /\ stip \in BOOLEAN
    /\ lastTimer \in {NoTime} \cup 0..(U64 - 1)
    /\ finisher \in {NoCode, FINISHER_PASS, FINISHER_FAIL}

(* uart::putchar never overwrites a byte the UART has not sent: what is   *)
(* on the wire, followed by THR while THRE is clear, is exactly the bytes  *)
(* the kernel passed to console_putchar, in order.                         *)
TxInOrder ==
    line \o (IF thre THEN << >> ELSE << thr >>) = sent

(* uart::getchar never loses, repeats or invents a byte: what getchar     *)
(* returned, followed by what is still pending, is what arrived.            *)
RxExact == got \o rx = arrived

(* After set_timer(T), mtimecmp holds T and STIP is clear until the next  *)
(* timer call (spec section 8).                                           *)
TimerProgrammed == lastTimer # NoTime => mtimecmp = lastTimer /\ ~stip

(* A trap that is not an ecall from S-mode returns not_supported and      *)
(* writes no device (spec section 8).                                     *)
OtherCauseNoEffect ==
    [][calls' # calls /\ call'.mcause # EcallFromS
         => ret' = NotSupported /\ UNCHANGED <<hart, devices>>]_vars

(* uart::putchar returns: a console_putchar call that waits on THRE       *)
(* eventually writes its byte and gives control back to the kernel.       *)
PutcharReturns == hart = "putchar" ~> hart = "S"

=============================================================================
