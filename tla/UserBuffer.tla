----------------------------- MODULE UserBuffer -----------------------------
(***************************************************************************)
(* How the WRITE and CLOCK_GETTIME handlers of src/ch4/src/main.rs reach   *)
(* the caller's memory.  Each translates the user pointer through the     *)
(* caller's address space, once, and then uses the physical address it    *)
(* gets for the whole buffer: WRITE prints count bytes from there, and    *)
(* CLOCK_GETTIME stores a TimeSpec of TsSize bytes there.                  *)
(*                                                                         *)
(* Kernel abstracts a buffer to a page; here addresses are page and       *)
(* offset, the caller's pages map to frames in any order, and physical    *)
(* memory is a function whose every byte is named for its address, so a  *)
(* byte read from the wrong place cannot pass for the right one.  The     *)
(* console timestamps (Kernel's Stamp) are left out.                       *)
(***************************************************************************)
EXTENDS Integers, Sequences

CONSTANTS
    PageSize,   \* bytes per page
    VPages,     \* the caller's virtual pages
    Frames,     \* physical frames the caller's pages may map to
    PhysTop,    \* highest physical address modelled
    Counts,     \* counts a WRITE may ask for
    TsSize,     \* bytes of a TimeSpec
    MaxCalls    \* bound on the number of system calls

ASSUME UserBufferAssumption ==
    /\ PageSize \in Nat \ {0}
    /\ VPages \subseteq Nat
    /\ Frames \subseteq Nat
    /\ PhysTop \in Nat
    /\ Counts \subseteq Nat \ {0}
    /\ TsSize \in Nat \ {0}
    /\ MaxCalls \in Nat

(* Physical memory is modelled up to the last byte of every frame a page  *)
(* may map to, so every address a translation yields is a byte of pmem.   *)
ASSUME FramesModelled ==
    \A f \in Frames : (f + 1) * PageSize <= PhysTop + 1

(* The file descriptors and clock ids the handlers tell apart.            *)
STDOUT == 1
STDDEBUG == 42
Fds == {0, STDOUT, STDDEBUG}
CLOCK_MONOTONIC == 1
ClockIds == {0, CLOCK_MONOTONIC}

(* VmFlags::build_from_str("RV") and ("W_V").                              *)
READABLE == {"R", "V"}
WRITABLE == {"W", "V"}

VAddr == {p * PageSize + o : p \in VPages, o \in 0..(PageSize - 1)}
PAddr == 0..PhysTop

(* A page table entry: a frame and the flags it grants; no flags is      *)
(* unmapped.                                                               *)
Entry == [frame : Frames, flags : {{}, {"R", "V"}, {"R", "W", "V"}}]

(* The frame an unmapped entry names, which nothing reads.               *)
NoFrame == CHOOSE f \in Frames : TRUE

(* What a process's byte at pa holds at boot: its own name.               *)
Byte(pa) == <<"byte", pa, 0>>
(* Byte k of the TimeSpec of the n-th call.                               *)
TsByte(n, k) == <<"ts", n, k>>

VARIABLES
    pt,        \* the caller's address space: VPages -> Entry
    pmem,      \* physical memory
    console,   \* what every successful WRITE printed, one entry per call
    calls,     \* system calls served
    req,       \* the last call: <<op, pointer, count>>
    ret        \* what the last call returned

vars == <<pt, pmem, console, calls, req, ret>>

(* The address spaces Process::new builds: distinct frames per page.      *)
Init ==
    /\ pt \in {t \in [VPages -> Entry] :
                 /\ \A p, q \in VPages : p # q /\ t[p].flags # {} /\ t[q].flags # {}
                                         => t[p].frame # t[q].frame
                 /\ \A p \in VPages : t[p].flags = {} => t[p].frame = NoFrame}
    /\ pmem = [pa \in PAddr |-> Byte(pa)]
    /\ console = <<>>
    /\ calls = 0
    /\ req = <<"none", 0, 0>>
    /\ ret = 0

(* Variant of translate that drops the in-page offset.                    *)
PhysOfPageOnly(va) == pt[va \div PageSize].frame * PageSize

(* address_space.translate(va, need): the physical address of va when    *)
(* its page grants every flag of need.                                     *)
Translates(va, need) ==
    /\ va \in VAddr
    /\ pt[va \div PageSize].flags # {}
    /\ need \subseteq pt[va \div PageSize].flags
PhysOf(va) == pt[va \div PageSize].frame * PageSize + (va % PageSize)

(* The bytes at count physical addresses from pa.                          *)
PhysBytes(pa, n) == [k \in 0..(n - 1) |-> pmem[pa + k]]

Serve ==
    /\ calls < MaxCalls
    /\ calls' = calls + 1

(* IO::write: a supported fd and a readable first byte print count bytes *)
(* read physically contiguous from its frame; else -1.                     *)
Write ==
    /\ Serve
    /\ \E fd \in Fds, buf \in VAddr, count \in Counts :
        /\ req' = <<"write", buf, count>>
        /\ IF fd \in {STDOUT, STDDEBUG} /\ Translates(buf, READABLE)
           THEN /\ console' = Append(console, PhysBytes(PhysOf(buf), count))
                /\ ret' = count
           ELSE /\ ret' = -1
                /\ UNCHANGED console
    /\ UNCHANGED <<pt, pmem>>

(* Variant of clock_gettime that asks for READABLE.                        *)
ClockGettimeReadable ==
    /\ Serve
    /\ \E cid \in ClockIds, tp \in VAddr :
        /\ req' = <<"clock", tp, TsSize>>
        /\ IF cid = CLOCK_MONOTONIC /\ Translates(tp, READABLE)
           THEN /\ pmem' = [pa \in PAddr |->
                              IF pa - PhysOf(tp) \in 0..(TsSize - 1)
                              THEN TsByte(calls, pa - PhysOf(tp)) ELSE pmem[pa]]
                /\ ret' = 0
           ELSE /\ ret' = -1
                /\ UNCHANGED pmem
    /\ UNCHANGED <<pt, console>>

(* Clock::clock_gettime: CLOCK_MONOTONIC and a writable first byte store *)
(* the TimeSpec at TsSize physical bytes from there; else -1.              *)
ClockGettime ==
    /\ Serve
    /\ \E cid \in ClockIds, tp \in VAddr :
        /\ req' = <<"clock", tp, TsSize>>
        /\ IF cid = CLOCK_MONOTONIC /\ Translates(tp, WRITABLE)
           THEN /\ pmem' = [pa \in PAddr |->
                              IF pa - PhysOf(tp) \in 0..(TsSize - 1)
                              THEN TsByte(calls, pa - PhysOf(tp)) ELSE pmem[pa]]
                /\ ret' = 0
           ELSE /\ ret' = -1
                /\ UNCHANGED pmem
    /\ UNCHANGED <<pt, console>>

Next == Write \/ ClockGettime

Spec == Init /\ [][Next]_vars

-----------------------------------------------------------------------------
(* The caller's view of its n bytes from va in memory m, and whether it  *)
(* owns them with the flags need.                                          *)
UserBytes(m, va, n) == [k \in 0..(n - 1) |-> m[PhysOf(va + k)]]
Owns(va, n, need) == \A k \in 0..(n - 1) : Translates(va + k, need)
InOnePage(va, n) == va \div PageSize = (va + n - 1) \div PageSize

(* Every variable holds a value of its type.                               *)
TypeOK ==
    /\ pt \in [VPages -> Entry]
    /\ calls \in 0..MaxCalls
    /\ ret \in {-1} \cup {0} \cup Counts

(* A WRITE of a buffer inside one readable page prints exactly the bytes  *)
(* the caller has there.                                                   *)
WriteInPageStep ==
    req'[1] = "write" /\ ret' # -1 /\ InOnePage(req'[2], req'[3])
        => console'[Len(console')] = UserBytes(pmem, req'[2], req'[3])
WriteExactInPage == [][WriteInPageStep]_vars

(* A CLOCK_GETTIME into a TimeSpec inside one page succeeds only when the *)
(* page is writable, and then the caller reads the new TimeSpec there and *)
(* no other byte of memory changes.                                        *)
ClockExactInPage ==
    [][req'[1] = "clock" /\ ret' = 0 /\ InOnePage(req'[2], TsSize)
         => /\ Owns(req'[2], TsSize, WRITABLE)
            /\ UserBytes(pmem', req'[2], TsSize) = [k \in 0..(TsSize - 1) |-> TsByte(calls, k)]
            /\ \A pa \in PAddr :
                 pmem'[pa] # pmem[pa] => \E k \in 0..(TsSize - 1) : pa = PhysOf(req'[2] + k)]_vars

(* Section 7 of the spec: for any buffer of N bytes at a process-owned,   *)
(* read-permitted address, WRITE emits exactly the buffer's bytes.        *)
WriteExact ==
    [][req'[1] = "write" /\ ret' # -1 /\ Owns(req'[2], req'[3], READABLE)
         => console'[Len(console')] = UserBytes(pmem, req'[2], req'[3])]_vars

(* CLOCK_GETTIME only stores into memory the caller maps writable.        *)
ClockConfined ==
    [][req'[1] = "clock" /\ ret' = 0
         => \A pa \in PAddr :
              pmem'[pa] # pmem[pa] =>
                 \E va \in VAddr : Translates(va, WRITABLE) /\ PhysOf(va) = pa]_vars

=============================================================================
