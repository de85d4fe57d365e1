------------------------------ MODULE SbiProofs ------------------------------
(***************************************************************************)
(* The SBI monitor's UART and timer invariants for every word width, every *)
(* set of requests, times and bytes, and every bound: putchar never        *)
(* overwrites a byte the UART has not sent, getchar never loses, repeats   *)
(* or invents one, and on a kernel whose usize is the low half of the     *)
(* timer value a timer call programs the time it means.                   *)
(***************************************************************************)
EXTENDS Sbi, ConcatLemmas

(* The invariants with the types a step needs, the bound on calls while   *)
(* the hart runs (a call past the bound is a shutdown, which halts), and   *)
(* TimerProgrammed on the RV32 calling convention.                         *)
IInv ==
    /\ TypeOK
    /\ hart # "halted" => calls <= MaxCalls
    /\ TxInOrder
    /\ RxExact
    /\ Xlen = Shift => TimerProgrammed

-----------------------------------------------------------------------------
(* Facts about the constants that the steps below use.                     *)
LEMMA Widths ==
    /\ Word \in Nat /\ Word >= 4
    /\ U64 \in Nat /\ U64 = Word * Word /\ Word <= U64
    /\ UsizeMax \in Nat /\ UsizeMax >= 3
<1>1. Word \in Nat /\ Word >= 4
  BY WordAssumption
<1>2. Word * Word \in Nat /\ Word <= Word * Word
  BY <1>1
<1>. QED
  BY <1>1, <1>2 DEF U64, UsizeMax

(* Every request the kernel makes has the shape of an SBI call.           *)
LEMMA RequestsType == Requests \subseteq Call
<1>1. ShutdownCall \in Call
  BY DEF ShutdownCall, Call, EcallFromS, LEGACY_SHUTDOWN
<1>2. ASSUME NEW t \in Times, NEW s \in StaleA1 PROVE TimerCall(t, s) \in Call
  <2>1. t \in Nat /\ s \in Nat /\ Word \in Nat /\ Word > 0
    BY ConstantsAssumption, Widths
  <2>2. t % Word \in Nat /\ t \div Word \in Nat
    BY <2>1
  <2>. QED
    BY <2>1, <2>2 DEF TimerCall, Call, EcallFromS, TIMER
<1>. QED
  BY <1>1, <1>2, ConstantsAssumption DEF Requests

(* The only timer calls are those of set_timer.                            *)
LEMMA TimerRequest ==
    ASSUME NEW c \in Requests, c.eid = TIMER
    PROVE  \E t \in Times, s \in StaleA1 : c = TimerCall(t, s)
<1>1. c \notin Calls
  BY ConstantsAssumption
<1>2. c # ShutdownCall
  BY DEF ShutdownCall, LEGACY_SHUTDOWN, TIMER
<1>. QED
  BY <1>1, <1>2 DEF Requests

(* The time a set_timer call means fits a u64, and so does the value       *)
(* handle_timer writes to mtimecmp.                                         *)
LEMMA TimerCallType ==
    ASSUME NEW t \in Times, NEW s \in StaleA1
    PROVE  /\ Meant(TimerCall(t, s)) \in 0..(U64 - 1)
           /\ TimerValue(TimerCall(t, s).a0, TimerCall(t, s).a1) \in 0..(U64 - 1)
<1>1. t \in 0..(U64 - 1) /\ s \in Nat
  BY ConstantsAssumption
<1>2. CASE Xlen = Shift
  <2>1. TimerCall(t, s).a0 = t % Word /\ TimerCall(t, s).a1 = t \div Word
    BY <1>2 DEF TimerCall
  <2>2. (t % Word) + (t \div Word) * Word = t /\ t % Word \in 0..(U64 - 1)
    BY <1>1, Widths
  <2>3. ((t \div Word) * Word) % U64 \in 0..(U64 - 1)
    BY <1>1, Widths
  <2>4. Meant(TimerCall(t, s)) \in 0..(U64 - 1)
    BY <1>1, <1>2, <2>1, <2>2 DEF Meant
  <2>5. TimerValue(TimerCall(t, s).a0, TimerCall(t, s).a1) \in 0..(U64 - 1)
    BY <2>1, <2>2, <2>3, BitOrAssumption DEF TimerValue
  <2>. QED
    BY <2>4, <2>5
<1>3. CASE Xlen # Shift
  <2>1. TimerCall(t, s).a0 = t /\ TimerCall(t, s).a1 = s
    BY <1>3 DEF TimerCall
  <2>2. (s * Word) % U64 \in 0..(U64 - 1)
    BY <1>1, Widths
  <2>. QED
    BY <1>1, <1>3, <2>1, <2>2, BitOrAssumption DEF Meant, TimerValue
<1>. QED
  BY <1>2, <1>3

(* On the RV32 convention handle_timer writes the time the call means: the *)
(* low half and the shifted high half of the time do not overlap.          *)
LEMMA TimerCallProgrammed ==
    ASSUME Xlen = Shift, NEW t \in Times, NEW s \in StaleA1
    PROVE  TimerValue(TimerCall(t, s).a0, TimerCall(t, s).a1) = Meant(TimerCall(t, s))
<1> DEFINE lo == t % Word
           hi == t \div Word
<1>1. t \in 0..(Word * Word - 1)
  BY ConstantsAssumption, Widths
<1>2. lo \in 0..(Word - 1) /\ hi \in Nat
  BY <1>1, Widths
<1>3. hi * Word <= t
  BY <1>1, <1>2, Widths
<1>4. hi < Word
  BY <1>1, <1>3, Widths
<1>5. hi * Word \in 0..(U64 - 1)
  BY <1>1, <1>3, Widths
<1>6. (hi * Word) % U64 = hi * Word
  BY <1>5, Widths
<1>7. lo \in 0..(Word - 1) /\ hi \in 0..(Word - 1)
  BY <1>2, <1>4, Widths
<1>8. BitOr(lo, hi * Word) = lo + hi * Word
  BY <1>7, BitOrAssumption
<1>. QED
  BY <1>6, <1>8 DEF TimerCall, TimerValue, Meant

-----------------------------------------------------------------------------
(* The initial state satisfies the inductive invariant.                    *)
LEMMA InitIInv == Init => IInv
<1> SUFFICES ASSUME Init PROVE IInv
  OBVIOUS
<1>1. mtimecmp \in 0..(U64 - 1) /\ UsizeMax \in Nat /\ ConstantsAssumption
  BY Widths, ConstantsAssumption DEF Init
<1>. QED
  BY <1>1 DEF Init, IInv, TypeOK, TxInOrder, RxExact, TimerProgrammed, Call,
            Success, EcallFromS, NoCode, NoTime

(* handle_base answers with a usize.                                       *)
LEMMA BaseResultType ==
    ASSUME NEW fid
    PROVE  BaseResult(fid) \in [error : {0, -2}, value : 0..UsizeMax]
BY Widths DEF BaseResult, Success, NotSupported

(* A kernel call keeps the inductive invariant.                            *)
LEMMA KernelCallIInv ==
    ASSUME IInv, KernelCall
    PROVE  IInv'
<1>0. TypeOK /\ (hart # "halted" => calls <= MaxCalls) /\ TxInOrder /\ RxExact
      /\ (Xlen = Shift => TimerProgrammed)
  BY DEF IInv
<1>1. PICK c \in Requests :
        /\ Trap(c)
        /\ MTrapHandler
        /\ lastTimer' = IF c.mcause = EcallFromS /\ c.eid = TIMER
                        THEN Meant(c) ELSE lastTimer
  BY DEF KernelCall
<1>2. /\ c \in Call /\ call' = c /\ hart = "S" /\ calls' = calls + 1
      /\ calls \in 0..MaxCalls /\ (calls < MaxCalls \/ c = ShutdownCall)
  BY <1>0, <1>1, RequestsType, ConstantsAssumption DEF Trap, TypeOK
<1>3. UNCHANGED <<thr, thre, line, sent>>
  BY <1>1 DEF MTrapHandler, NotEcall, ConsolePutchar, ConsoleGetchar,
            LegacyShutdown, HandleBase, HandleTimer, HandleSrst, HandleOther,
            devices, uart
<1>4. TxInOrder'
  BY <1>0, <1>3 DEF TxInOrder
<1>5. /\ rx \in Seq(Bytes) /\ got \in Seq(0..255) /\ arrived' = arrived
      /\ \/ UNCHANGED <<rx, rbr, got>>
         \/ /\ rx # << >> /\ rx' = Tail(rx) /\ got' = Append(got, Head(rx))
            /\ rbr' = Head(rx)
  BY <1>0, <1>1 DEF MTrapHandler, NotEcall, ConsolePutchar, ConsoleGetchar,
            LegacyShutdown, HandleBase, HandleTimer, HandleSrst, HandleOther,
            devices, uart, TypeOK
<1>6. RxExact' /\ rx' \in Seq(Bytes) /\ got' \in Seq(0..255) /\ rbr' \in 0..255
  <2>1. CASE UNCHANGED <<rx, rbr, got>>
    BY <1>0, <1>5, <2>1 DEF RxExact, TypeOK
  <2>2. CASE rx # << >> /\ rx' = Tail(rx) /\ got' = Append(got, Head(rx))
             /\ rbr' = Head(rx)
    <3>0. rx \in Seq(0..255)
      <4>1. Bytes \subseteq 0..255
        BY ConstantsAssumption
      <4>2. rx \in Seq(Bytes)
        BY <1>5
      <4>. QED
        BY <4>1, <4>2, SeqMonotonic
    <3>1. Head(rx) \in Bytes /\ Tail(rx) \in Seq(Bytes)
      BY <1>5, <2>2, HeadTailProperties
    <3>2. Append(got, Head(rx)) \o Tail(rx) = got \o rx
      BY <1>5, <2>2, <3>0, ConcatMoveHead
    <3>. QED
      BY <1>0, <1>5, <2>2, <3>0, <3>1, <3>2, ConstantsAssumption, AppendProperties
         DEF RxExact
  <2>. QED
    BY <1>5, <2>1, <2>2
<1>7. ret' \in [error : {0, -2}, value : 0..UsizeMax]
  <2>1. CASE ConsoleGetchar
    <3>1. rx # << >> => Head(rx) \in 0..UsizeMax
      BY <1>5, HeadTailProperties, ConstantsAssumption
    <3>. QED
      BY <2>1, <3>1, Widths DEF ConsoleGetchar, Success
  <2>2. CASE HandleBase
    BY <2>2, BaseResultType DEF HandleBase
  <2>. QED
    BY <1>0, <1>1, <2>1, <2>2, Widths
       DEF MTrapHandler, NotEcall, ConsolePutchar, LegacyShutdown, HandleTimer,
           HandleSrst, HandleOther, NotSupported, Success, TypeOK
<1>8. /\ hart' \in {"S", "putchar", "halted"}
      /\ finisher' \in {NoCode, FINISHER_PASS, FINISHER_FAIL}
      /\ (hart' # "halted" => c # ShutdownCall)
  <2>1. CASE c = ShutdownCall
    <3>1. LegacyShutdown
      BY <1>1, <1>2, <2>1
         DEF ShutdownCall, MTrapHandler, NotEcall, ConsolePutchar, ConsoleGetchar,
             HandleBase, HandleTimer, HandleSrst, HandleOther, EcallFromS,
             LEGACY_SHUTDOWN, LEGACY_CONSOLE_PUTCHAR, LEGACY_CONSOLE_GETCHAR,
             BASE, TIMER, SRST
    <3>. QED
      BY <3>1 DEF LegacyShutdown, SystemReset
  <2>2. CASE c # ShutdownCall
    BY <1>0, <1>1, <1>2, <2>2
       DEF MTrapHandler, NotEcall, ConsolePutchar, ConsoleGetchar, LegacyShutdown,
           HandleBase, HandleTimer, HandleSrst, HandleOther, SystemReset,
           devices, TypeOK
  <2>. QED
    BY <2>1, <2>2
<1>9. /\ mtimecmp' \in 0..(U64 - 1) /\ stip' \in BOOLEAN
      /\ lastTimer' \in {NoTime} \cup 0..(U64 - 1)
      /\ (Xlen = Shift => TimerProgrammed')
  <2>1. CASE c.mcause = EcallFromS /\ c.eid = TIMER
    <3>1. HandleTimer
      BY <1>1, <1>2, <2>1
         DEF MTrapHandler, NotEcall, ConsolePutchar, ConsoleGetchar,
             LegacyShutdown, HandleBase, HandleSrst, HandleOther, EcallFromS,
             LEGACY_SHUTDOWN, LEGACY_CONSOLE_PUTCHAR, LEGACY_CONSOLE_GETCHAR,
             BASE, TIMER, SRST
    <3>2. PICK t \in Times, s \in StaleA1 : c = TimerCall(t, s)
      BY <2>1, TimerRequest
    <3>3. /\ lastTimer' = Meant(TimerCall(t, s))
          /\ mtimecmp' = TimerValue(TimerCall(t, s).a0, TimerCall(t, s).a1)
          /\ stip' = FALSE
      BY <1>1, <1>2, <2>1, <3>1, <3>2 DEF HandleTimer
    <3>4. Xlen = Shift => TimerProgrammed'
      BY <3>3, TimerCallProgrammed DEF TimerProgrammed
    <3>. QED
      BY <3>3, <3>4, TimerCallType
  <2>2. CASE ~(c.mcause = EcallFromS /\ c.eid = TIMER)
    <3>1. lastTimer' = lastTimer /\ UNCHANGED <<mtimecmp, stip>>
      BY <1>1, <1>2, <2>2
         DEF MTrapHandler, NotEcall, ConsolePutchar, ConsoleGetchar,
             LegacyShutdown, HandleBase, HandleTimer, HandleSrst, HandleOther,
             devices
    <3>. QED
      BY <1>0, <3>1 DEF TypeOK, TimerProgrammed
  <2>. QED
    BY <2>1, <2>2
<1>10. hart' # "halted" => calls' <= MaxCalls
  BY <1>2, <1>8, ConstantsAssumption
<1>11. TypeOK'
  BY <1>0, <1>2, <1>3, <1>6, <1>7, <1>8, <1>9, <1>5, ConstantsAssumption
     DEF TypeOK
<1>. QED
  BY <1>4, <1>6, <1>9, <1>10, <1>11 DEF IInv

(* putchar's write keeps the inductive invariant: THRE was set, so the    *)
(* wire held every byte sent, and the new byte waits in THR.               *)
LEMMA PutcharWriteIInv ==
    ASSUME IInv, PutcharWrite
    PROVE  IInv'
<1>0. TypeOK /\ (hart # "halted" => calls <= MaxCalls) /\ TxInOrder /\ RxExact
      /\ (Xlen = Shift => TimerProgrammed)
  BY DEF IInv
<1>1. call.a0 % 256 \in 0..255
  <2>1. call.a0 \in Nat
    BY <1>0 DEF TypeOK, Call
  <2>. QED
    BY <2>1
<1>2. /\ thre /\ thr' = call.a0 % 256 /\ thre' = FALSE
      /\ sent' = Append(sent, call.a0 % 256)
      /\ UNCHANGED line /\ line \in Seq(0..255) /\ sent \in Seq(0..255)
  BY <1>0 DEF PutcharWrite, IsTxReady, TypeOK
<1>3. line = sent
  BY <1>0, <1>2, ConcatEmptySeq DEF TxInOrder
<1>4. TxInOrder'
  BY <1>1, <1>2, <1>3, AppendIsConcat DEF TxInOrder
<1>5. sent' \in Seq(0..255)
  BY <1>1, <1>2, AppendProperties
<1>6. /\ hart = "putchar" /\ hart' = "S" /\ UNCHANGED <<calls, call>>
      /\ ret' = Success(0)
      /\ UNCHANGED <<rx, rbr, arrived, got, mtimecmp, stip, lastTimer, finisher>>
  BY DEF PutcharWrite
<1>7. ret' \in [error : {0, -2}, value : 0..UsizeMax]
  BY <1>6, Widths DEF Success
<1>8. TypeOK'
  BY <1>0, <1>1, <1>2, <1>5, <1>6, <1>7 DEF TypeOK
<1>9. (hart' # "halted" => calls' <= MaxCalls) /\ RxExact' /\ (Xlen = Shift => TimerProgrammed')
  BY <1>0, <1>6 DEF RxExact, TimerProgrammed
<1>. QED
  BY <1>4, <1>8, <1>9 DEF IInv

(* The UART moves THR to the wire and keeps the inductive invariant.       *)
LEMMA UartTransmitIInv ==
    ASSUME IInv, UartTransmit
    PROVE  IInv'
<1>0. TypeOK /\ TxInOrder
  BY DEF IInv
<1>1. line \o << thr >> = sent /\ line' = Append(line, thr) /\ thre'
      /\ line \in Seq(0..255) /\ thr \in 0..255
  BY <1>0 DEF UartTransmit, TxInOrder, TypeOK
<1>2. line' = sent /\ line' \in Seq(0..255)
  BY <1>1, AppendIsConcat, AppendProperties
<1>3. TxInOrder'
  BY <1>1, <1>2, ConcatEmptySeq DEF TxInOrder, UartTransmit
<1>4. UNCHANGED <<hart, call, ret, calls, thr, sent, rx, rbr, arrived, got,
                  mtimecmp, stip, lastTimer, finisher>>
  BY DEF UartTransmit
<1>. QED
  BY <1>1, <1>2, <1>3, <1>4 DEF IInv, TypeOK, RxExact, TimerProgrammed

(* A byte arriving on the receive line keeps the inductive invariant.     *)
LEMMA UartReceiveIInv ==
    ASSUME IInv, UartReceive
    PROVE  IInv'
<1>0. TypeOK /\ RxExact
  BY DEF IInv
<1>1. PICK b \in Bytes : rx' = Append(rx, b) /\ arrived' = Append(arrived, b)
  BY DEF UartReceive
<1>2. rx \in Seq(0..255) /\ got \in Seq(0..255) /\ b \in 0..255
  <2>1. rx \in Seq(Bytes) /\ got \in Seq(0..255) /\ Bytes \subseteq 0..255
    BY <1>0, ConstantsAssumption DEF TypeOK
  <2>. QED
    BY <2>1, SeqMonotonic
<1>3. got \o rx' = Append(got \o rx, b)
  BY <1>1, <1>2, ConcatAppend
<1>4. RxExact' /\ rx' \in Seq(Bytes) /\ arrived' \in Seq(Bytes)
  BY <1>0, <1>1, <1>3, AppendProperties DEF UartReceive, RxExact, TypeOK
<1>5. UNCHANGED <<hart, call, ret, calls, thr, thre, line, sent, rbr, got,
                  mtimecmp, stip, lastTimer, finisher>>
  BY DEF UartReceive
<1>6. TypeOK'
  BY <1>0, <1>4, <1>5 DEF TypeOK
<1>7. TxInOrder' /\ (Xlen = Shift => TimerProgrammed')
  <2>1. TxInOrder /\ (Xlen = Shift => TimerProgrammed)
    BY DEF IInv
  <2>. QED
    BY <1>5, <2>1 DEF TxInOrder, TimerProgrammed
<1>8. hart' # "halted" => calls' <= MaxCalls
  BY <1>5 DEF IInv
<1>. QED
  BY <1>4, <1>6, <1>7, <1>8 DEF IInv

(* Every step keeps the inductive invariant.                               *)
LEMMA NextIInv == IInv /\ [Next]_vars => IInv'
<1> SUFFICES ASSUME IInv, [Next]_vars PROVE IInv'
  OBVIOUS
<1>1. CASE KernelCall
  BY <1>1, KernelCallIInv
<1>2. CASE PutcharWrite
  BY <1>2, PutcharWriteIInv
<1>3. CASE UartTransmit
  BY <1>3, UartTransmitIInv
<1>4. CASE UartReceive
  BY <1>4, UartReceiveIInv
<1>5. CASE PutcharSpin \/ Halted \/ UNCHANGED vars
  <2>1. UNCHANGED vars
    BY <1>5 DEF PutcharSpin, Halted
  <2>2. UNCHANGED <<hart, call, ret, calls, thr, thre, line, sent, rx, rbr,
                    arrived, got, mtimecmp, stip, lastTimer, finisher>>
    BY <2>1 DEF vars
  <2>. QED
    BY <2>2 DEF IInv, TypeOK, TxInOrder, RxExact, TimerProgrammed
<1>. QED
  BY <1>1, <1>2, <1>3, <1>4, <1>5 DEF Next

-----------------------------------------------------------------------------
(* Every variable of the monitor and the UART keeps its type, for every   *)
(* word width and every set of requests: in particular mtimecmp stays a  *)
(* u64 whatever a0 and a1 handle_timer receives.                          *)
THEOREM TypeCorrect == Spec => []TypeOK
<1>1. IInv => TypeOK
  BY DEF IInv
<1>. QED
  BY <1>1, InitIInv, NextIInv, PTL DEF Spec

(* uart::putchar never overwrites a byte the UART has not yet sent: the  *)
(* wire followed by a pending THR is exactly what console_putchar was      *)
(* given, in order.                                                         *)
THEOREM TxInOrderInvariant == Spec => []TxInOrder
<1>1. IInv => TxInOrder
  BY DEF IInv
<1>. QED
  BY <1>1, InitIInv, NextIInv, PTL DEF Spec

(* console_getchar never loses, repeats or invents a received byte.       *)
THEOREM RxExactInvariant == Spec => []RxExact
<1>1. IInv => RxExact
  BY DEF IInv
<1>. QED
  BY <1>1, InitIInv, NextIInv, PTL DEF Spec

(* With the RV32 calling convention (usize the low half of the timer      *)
(* value), after set_timer(T) mtimecmp holds T and STIP is clear until the *)
(* next timer call.  The RV64 convention breaks this (run sbi_timer_rv64).  *)
THEOREM TimerProgrammedRV32 == Xlen = Shift => (Spec => []TimerProgrammed)
<1> SUFFICES ASSUME Xlen = Shift PROVE Spec => []TimerProgrammed
  OBVIOUS
<1>1. IInv => TimerProgrammed
  BY DEF IInv
<1>. QED
  BY <1>1, InitIInv, NextIInv, PTL DEF Spec

(* The step a trap that is not an ecall from S-mode may take.            *)
OtherCauseStep ==
    calls' # calls /\ call'.mcause # EcallFromS
        => ret' = NotSupported /\ UNCHANGED <<hart, devices>>

(* Every step of the monitor is such a step: only a kernel call changes   *)
(* the call count, and among m_trap_handler's arms only the mcause check   *)
(* accepts a cause other than 9.                                           *)
LEMMA NextOtherCause == [Next]_vars => [OtherCauseStep]_vars
<1> SUFFICES ASSUME [Next]_vars PROVE [OtherCauseStep]_vars
  OBVIOUS
<1>1. CASE KernelCall
  <2>1. PICK c \in Requests : Trap(c) /\ MTrapHandler
    BY <1>1 DEF KernelCall
  <2>2. CASE call'.mcause # EcallFromS
    <3>1. NotEcall
      BY <2>1, <2>2 DEF MTrapHandler, ConsolePutchar, ConsoleGetchar,
                        LegacyShutdown, HandleBase, HandleTimer, HandleSrst,
                        HandleOther
    <3>. QED
      BY <3>1 DEF NotEcall, OtherCauseStep
  <2>3. CASE call'.mcause = EcallFromS
    BY <2>3 DEF OtherCauseStep
  <2>. QED
    BY <2>2, <2>3
<1>2. CASE PutcharSpin \/ PutcharWrite \/ UartTransmit \/ UartReceive \/ Halted
      \/ UNCHANGED vars
  <2>1. UNCHANGED calls
    BY <1>2 DEF PutcharSpin, PutcharWrite, UartTransmit, UartReceive, Halted, vars
  <2>. QED
    BY <2>1 DEF OtherCauseStep
<1>. QED
  BY <1>1, <1>2 DEF Next

(* A trap that is not an ecall from S-mode returns not_supported and      *)
(* writes no device, hart state or UART register, in every behaviour.     *)
THEOREM OtherCauseNoEffectHolds == Spec => OtherCauseNoEffect
BY NextOtherCause, PTL DEF Spec, OtherCauseNoEffect, OtherCauseStep

=============================================================================
