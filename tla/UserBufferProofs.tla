--------------------------- MODULE UserBufferProofs ---------------------------
(***************************************************************************)
(* WRITE is exact for buffers inside one page, for every page size and    *)
(* every address space: translating the first byte and reading on        *)
(* physically is the same as translating every byte, as long as the      *)
(* buffer stays in the page of its first byte.                             *)
(***************************************************************************)
EXTENDS UserBuffer, SequenceTheorems, TLAPS

(* The strengthening: the address space keeps its type and the console   *)
(* is a sequence, so that the last entry of an Append is what was         *)
(* appended.                                                               *)
PInv ==
    /\ pt \in [VPages -> Entry]
    /\ \E S : console \in Seq(S)

-----------------------------------------------------------------------------
(* Inside the page of va, stepping k bytes keeps the page and adds k to  *)
(* the offset.                                                             *)
LEMMA InPageOffset ==
    ASSUME NEW ps \in Nat \ {0}, NEW va \in Nat, NEW n \in Nat \ {0},
           va \div ps = (va + n - 1) \div ps,
           NEW k \in 0..(n - 1)
    PROVE  /\ (va + k) \div ps = va \div ps
           /\ (va + k) % ps = (va % ps) + k
<1> DEFINE q == va \div ps
           r == va % ps
<1>1. va = q * ps + r /\ r \in 0..(ps - 1) /\ q \in Nat
  OBVIOUS
<1>2. (va + n - 1) < (q + 1) * ps
  <2>1. (va + n - 1) \div ps = q
    OBVIOUS
  <2>. QED
    BY <2>1
<1>3. q * ps <= va + k /\ va + k < (q + 1) * ps
  BY <1>1, <1>2
<1>4. (va + k) \div ps = q
  BY <1>3
<1>5. (va + k) % ps = r + k
  BY <1>1, <1>3, <1>4
<1>. QED
  BY <1>4, <1>5

(* The physical address of byte k of an in-page buffer is k past the     *)
(* physical address of its first byte.                                     *)
LEMMA PhysOfInPage ==
    ASSUME UserBufferAssumption, pt \in [VPages -> Entry],
           NEW va \in VAddr, NEW n \in Nat \ {0}, InOnePage(va, n),
           NEW k \in 0..(n - 1)
    PROVE  PhysOf(va + k) = PhysOf(va) + k
<1>1. va \in Nat
  BY DEF VAddr, UserBufferAssumption
<1>2. PageSize \in Nat \ {0}
  BY DEF UserBufferAssumption
<1>3. (va + k) \div PageSize = va \div PageSize
      /\ (va + k) % PageSize = (va % PageSize) + k
  BY <1>1, <1>2, InPageOffset DEF InOnePage
<1>4. pt[(va + k) \div PageSize].frame = pt[va \div PageSize].frame
  BY <1>3
<1>5. va \div PageSize \in VPages
  <2>1. PICK p \in VPages, o \in 0..(PageSize - 1) : va = p * PageSize + o
    BY DEF VAddr
  <2>2. p \in Nat
    BY DEF UserBufferAssumption
  <2>. QED
    BY <1>2, <2>1, <2>2
<1>6. pt[va \div PageSize].frame \in Nat
  BY <1>5 DEF Entry, UserBufferAssumption
<1>. QED
  BY <1>1, <1>2, <1>3, <1>4, <1>6 DEF PhysOf

LEMMA InitPInv == Init => PInv
<1> SUFFICES ASSUME Init PROVE PInv
  OBVIOUS
<1>1. pt \in [VPages -> Entry]
  BY DEF Init
<1>2. console \in Seq({})
  BY EmptySeq DEF Init
<1>. QED
  BY <1>1, <1>2 DEF PInv

LEMMA NextPInv == PInv /\ [Next]_vars => PInv'
<1> SUFFICES ASSUME PInv, [Next]_vars PROVE PInv'
  OBVIOUS
<1>1. pt' \in [VPages -> Entry]
  BY DEF PInv, Next, Write, ClockGettime, vars
<1>2. \E S : console' \in Seq(S)
  <2>1. PICK S : console \in Seq(S)
    BY DEF PInv
  <2>2. CASE console' = console
    BY <2>1, <2>2
  <2>3. CASE \E e : console' = Append(console, e)
    <3>1. PICK e : console' = Append(console, e)
      BY <2>3
    <3>2. console \in Seq(S \cup {e})
      BY <2>1
    <3>3. console' \in Seq(S \cup {e})
      BY <3>1, <3>2, AppendProperties
    <3>. QED
      BY <3>3
  <2>. QED
    BY <2>2, <2>3 DEF Next, Write, ClockGettime, vars
<1>. QED
  BY <1>1, <1>2 DEF PInv

(* Every step is a WriteInPageStep or leaves the variables alone.          *)
LEMMA NextWriteInPage ==
    UserBufferAssumption /\ PInv /\ [Next]_vars => ([WriteInPageStep]_vars)
<1> SUFFICES ASSUME UserBufferAssumption, PInv, [Next]_vars
             PROVE  ([WriteInPageStep]_vars)
  OBVIOUS
<1>1. CASE Write
  <2>1. PICK fd \in Fds, buf \in VAddr, count \in Counts :
          /\ req' = <<"write", buf, count>>
          /\ IF fd \in {STDOUT, STDDEBUG} /\ Translates(buf, READABLE)
             THEN /\ console' = Append(console, PhysBytes(PhysOf(buf), count))
                  /\ ret' = count
             ELSE /\ ret' = -1
                  /\ UNCHANGED console
    BY <1>1 DEF Write
  <2>2. CASE fd \in {STDOUT, STDDEBUG} /\ Translates(buf, READABLE)
    <3>1. count \in Nat \ {0}
      BY DEF UserBufferAssumption
    <3>2. PICK S : console \in Seq(S)
      BY DEF PInv
    <3>3. console'[Len(console')] = PhysBytes(PhysOf(buf), count)
      <4>1. console \in Seq(S \cup {PhysBytes(PhysOf(buf), count)})
        BY <3>2
      <4>. QED
        BY <2>1, <2>2, <4>1, AppendProperties
    <3>4. InOnePage(buf, count)
          => PhysBytes(PhysOf(buf), count) = UserBytes(pmem, buf, count)
      <4> SUFFICES ASSUME InOnePage(buf, count)
                   PROVE  PhysBytes(PhysOf(buf), count) = UserBytes(pmem, buf, count)
        OBVIOUS
      <4>1. \A k \in 0..(count - 1) : PhysOf(buf + k) = PhysOf(buf) + k
        BY <3>1, PhysOfInPage DEF PInv
      <4>. QED
        BY <4>1 DEF PhysBytes, UserBytes
    <3>. QED
      BY <2>1, <3>3, <3>4 DEF WriteInPageStep
  <2>3. CASE ~(fd \in {STDOUT, STDDEBUG} /\ Translates(buf, READABLE))
    BY <2>1, <2>3 DEF WriteInPageStep
  <2>. QED
    BY <2>2, <2>3
<1>2. CASE ClockGettime
  BY <1>2 DEF ClockGettime, WriteInPageStep
<1>3. CASE UNCHANGED vars
  BY <1>3
<1>. QED
  BY <1>1, <1>2, <1>3 DEF Next

(* WRITE of a buffer inside one page prints exactly the caller's bytes,   *)
(* for every page size, address space and physical memory.                 *)
THEOREM WriteExactInPageHolds == Spec => WriteExactInPage
<1>1. Init => PInv
  BY InitPInv
<1>2. PInv /\ [Next]_vars => PInv'
  BY NextPInv
<1>3. PInv /\ [Next]_vars => [WriteInPageStep]_vars
  BY UserBufferAssumption, NextWriteInPage
<1>. QED
  BY <1>1, <1>2, <1>3, PTL DEF Spec, WriteExactInPage


-----------------------------------------------------------------------------
(* CLOCK_GETTIME: the same translation, used to store.                     *)

(* The step ClockExactInPage asks of every CLOCK_GETTIME.                  *)
ClockInPageStep ==
    req'[1] = "clock" /\ ret' = 0 /\ InOnePage(req'[2], TsSize)
        => /\ Owns(req'[2], TsSize, WRITABLE)
           /\ UserBytes(pmem', req'[2], TsSize) = [k \in 0..(TsSize - 1) |-> TsByte(calls, k)]
           /\ \A pa \in PAddr :
                pmem'[pa] # pmem[pa] => \E k \in 0..(TsSize - 1) : pa = PhysOf(req'[2] + k)

(* Byte k of an in-page buffer at a mapped address is a mapped address of *)
(* the same page, and its physical address is a byte of pmem.             *)
LEMMA InPageByte ==
    ASSUME UserBufferAssumption, FramesModelled, pt \in [VPages -> Entry],
           NEW va \in VAddr, NEW n \in Nat \ {0}, InOnePage(va, n),
           NEW k \in 0..(n - 1)
    PROVE  /\ va + k \in VAddr
           /\ (va + k) \div PageSize = va \div PageSize
           /\ PhysOf(va) \in Nat
           /\ PhysOf(va) + k \in PAddr
<1>1. va \in Nat /\ PageSize \in Nat \ {0}
  BY DEF VAddr, UserBufferAssumption
<1>2. (va + k) \div PageSize = va \div PageSize
      /\ (va + k) % PageSize = (va % PageSize) + k
  BY <1>1, InPageOffset DEF InOnePage
<1>3. va \div PageSize \in VPages
  <2>1. PICK p \in VPages, o \in 0..(PageSize - 1) : va = p * PageSize + o
    BY DEF VAddr
  <2>2. p \in Nat
    BY DEF UserBufferAssumption
  <2>. QED
    BY <1>1, <2>1, <2>2
<1>4. (va % PageSize) + k \in 0..(PageSize - 1)
  BY <1>1, <1>2
<1>5. va + k = (va \div PageSize) * PageSize + ((va % PageSize) + k)
  BY <1>1
<1>6. va + k \in VAddr
  BY <1>3, <1>4, <1>5 DEF VAddr
<1>7. pt[va \div PageSize].frame \in Frames
  BY <1>3 DEF Entry
<1>8. pt[va \div PageSize].frame \in Nat
  BY <1>7 DEF UserBufferAssumption
<1>9. (pt[va \div PageSize].frame + 1) * PageSize <= PhysTop + 1
  BY <1>7 DEF FramesModelled
<1>10. PhysOf(va) + k \in PAddr
  BY <1>1, <1>4, <1>8, <1>9 DEF PhysOf, PAddr
<1>11. PhysOf(va) \in Nat
  BY <1>1, <1>8 DEF PhysOf
<1>. QED
  BY <1>2, <1>6, <1>10, <1>11

(* Every step is a ClockInPageStep or leaves the variables alone.          *)
LEMMA NextClockInPage ==
    UserBufferAssumption /\ FramesModelled /\ PInv /\ [Next]_vars
        => ([ClockInPageStep]_vars)
<1> SUFFICES ASSUME UserBufferAssumption, FramesModelled, PInv, [Next]_vars
             PROVE  ([ClockInPageStep]_vars)
  OBVIOUS
<1>1. CASE Write
  <2>1. req'[1] = "write"
    BY <1>1 DEF Write
  <2>. QED
    BY <2>1 DEF ClockInPageStep
<1>2. CASE ClockGettime
  <2>1. PICK cid \in ClockIds, tp \in VAddr :
          /\ req' = <<"clock", tp, TsSize>>
          /\ IF cid = CLOCK_MONOTONIC /\ Translates(tp, WRITABLE)
             THEN /\ pmem' = [pa \in PAddr |->
                                IF pa - PhysOf(tp) \in 0..(TsSize - 1)
                                THEN TsByte(calls, pa - PhysOf(tp)) ELSE pmem[pa]]
                  /\ ret' = 0
             ELSE /\ ret' = -1
                  /\ UNCHANGED pmem
    BY <1>2 DEF ClockGettime
  <2>2. req'[1] = "clock" /\ req'[2] = tp
    BY <2>1
  <2>3. CASE cid = CLOCK_MONOTONIC /\ Translates(tp, WRITABLE)
    <3> SUFFICES ASSUME InOnePage(tp, TsSize)
                 PROVE  /\ Owns(tp, TsSize, WRITABLE)
                        /\ UserBytes(pmem', tp, TsSize) = [k \in 0..(TsSize - 1) |-> TsByte(calls, k)]
                        /\ \A pa \in PAddr :
                             pmem'[pa] # pmem[pa] => \E k \in 0..(TsSize - 1) : pa = PhysOf(tp + k)
      BY <2>2 DEF ClockInPageStep
    <3>1. pt \in [VPages -> Entry] /\ TsSize \in Nat \ {0} /\ tp \in Nat
      BY DEF PInv, UserBufferAssumption, VAddr
    <3>2. pmem' = [pa \in PAddr |->
                     IF pa - PhysOf(tp) \in 0..(TsSize - 1)
                     THEN TsByte(calls, pa - PhysOf(tp)) ELSE pmem[pa]]
      BY <2>1, <2>3
    <3>3. Owns(tp, TsSize, WRITABLE)
      <4> SUFFICES ASSUME NEW k \in 0..(TsSize - 1) PROVE Translates(tp + k, WRITABLE)
        BY DEF Owns
      <4>1. tp + k \in VAddr /\ (tp + k) \div PageSize = tp \div PageSize
        BY <3>1, InPageByte
      <4>. QED
        BY <2>3, <4>1 DEF Translates
    <3>4. UserBytes(pmem', tp, TsSize) = [k \in 0..(TsSize - 1) |-> TsByte(calls, k)]
      <4> SUFFICES ASSUME NEW k \in 0..(TsSize - 1)
                   PROVE  pmem'[PhysOf(tp + k)] = TsByte(calls, k)
        BY DEF UserBytes
      <4>1. PhysOf(tp + k) = PhysOf(tp) + k
        BY <3>1, PhysOfInPage
      <4>2. PhysOf(tp) + k \in PAddr
        BY <3>1, InPageByte
      <4>3. PhysOf(tp) \in Int
        BY <3>1, InPageByte
      <4>4. (PhysOf(tp) + k) - PhysOf(tp) = k
        BY <4>3
      <4>. QED
        BY <3>2, <4>1, <4>2, <4>4
    <3>5. \A pa \in PAddr :
            pmem'[pa] # pmem[pa] => \E k \in 0..(TsSize - 1) : pa = PhysOf(tp + k)
      <4> SUFFICES ASSUME NEW pa \in PAddr, pmem'[pa] # pmem[pa]
                   PROVE  \E k \in 0..(TsSize - 1) : pa = PhysOf(tp + k)
        OBVIOUS
      <4>1. pa - PhysOf(tp) \in 0..(TsSize - 1)
        BY <3>2
      <4> DEFINE k == pa - PhysOf(tp)
      <4>2. PhysOf(tp + k) = PhysOf(tp) + k
        BY <4>1, <3>1, PhysOfInPage
      <4>3. PhysOf(tp) \in Int
        <5>. 0 \in 0..(TsSize - 1)
          BY <3>1
        <5>. QED
          BY <3>1, InPageByte
      <4>4. pa = PhysOf(tp) + k
        BY <4>3 DEF PAddr
      <4>. QED
        BY <4>1, <4>2, <4>4
    <3>. QED
      BY <3>3, <3>4, <3>5
  <2>4. CASE ~(cid = CLOCK_MONOTONIC /\ Translates(tp, WRITABLE))
    BY <2>1, <2>4 DEF ClockInPageStep
  <2>. QED
    BY <2>3, <2>4
<1>3. CASE UNCHANGED vars
  BY <1>3
<1>. QED
  BY <1>1, <1>2, <1>3 DEF Next

(* CLOCK_GETTIME into a TimeSpec inside one page stores the new TimeSpec  *)
(* exactly where the caller reads it, and nowhere else, for every page    *)
(* size and address space whose frames are in modelled memory.             *)
THEOREM ClockExactInPageHolds == Spec => ClockExactInPage
<1>1. Init => PInv
  BY InitPInv
<1>2. PInv /\ [Next]_vars => PInv'
  BY NextPInv
<1>3. PInv /\ [Next]_vars => [ClockInPageStep]_vars
  BY UserBufferAssumption, FramesModelled, NextClockInPage
<1>. QED
  BY <1>1, <1>2, <1>3, PTL DEF Spec, ClockExactInPage, ClockInPageStep

=============================================================================
