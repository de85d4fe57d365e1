------------------------------- MODULE Kernel -------------------------------
(***************************************************************************)
(* The ch4 kernel of src/ch4/src/main.rs and src/ch4/src/process.rs: the   *)
(* loop of rust_main that turns every embedded app into a Process and      *)
(* pushes it on PROCESSES, the `schedule` loop that runs the head of       *)
(* PROCESSES through the portal and dispatches its trap, the syscall       *)
(* implementations of `mod impls`, and print_with_timestamp with its       *)
(* LINE_START flag.                                                        *)
(*                                                                         *)
(* Data is abstracted to what the properties tell apart: an address space  *)
(* is a function from the modelled virtual pages to their PTE flags, a     *)
(* user program is the sequence of instructions that trap, a written       *)
(* buffer is a short string of the letter "a" and newlines.  The portal    *)
(* (crate kernel_context), the page-table crate (kernel_vm), the syscall   *)
(* dispatcher (crate syscall) and the console (crate rcore_console) are    *)
(* not under src/ and are modelled from the spec.                          *)
(***************************************************************************)
EXTENDS Integers, Sequences

CONSTANTS
    NApps,        \* number of embedded apps, AppMeta.count
    Candidates,   \* the ELF images an app slot may hold
    Pages,        \* the virtual page numbers the model names
    StackPages,   \* VPN(stack_top_vpn - 2) .. VPN(stack_top_vpn)
    PortalPage,   \* PROTAL_TRANSIT = VPN::MAX
    PortalSlot,   \* the pages under the root entry at portal_idx
    LogLevels     \* the log levels the console prints (env LOG)

NL == "\n"
Chars == {"a", NL}
Flags == {"U", "X", "W", "R", "V", "G"}
Causes == {"UserEnvCall", "IllegalInstruction", "PageFault"}
SyscallIds == {"EXIT", "WRITE", "SCHED_YIELD", "CLOCK_GETTIME", "OTHER"}
Fds == {"STDIN", "STDOUT", "STDDEBUG"}
ClockIds == {"CLOCK_MONOTONIC", "CLOCK_REALTIME"}
Levels == {"error", "info"}

(* A trapping user instruction: the trap cause and, for an ecall, the     *)
(* syscall id (a7) and the arguments a0..a2 it reads.                      *)
Instr == [cause : Causes, id : SyscallIds, fd : Fds, ptr : Pages,
          data : Seq(Chars), clock : ClockIds]

(* A program header: whether it is PT_LOAD, the pages its [vaddr,         *)
(* vaddr + memsz) covers, its R/W/X bits, and whether file offset and     *)
(* virtual address agree modulo the page size.                            *)
Segment == [load : BOOLEAN, pages : SUBSET Pages,
            flags : SUBSET {"X", "W", "R"}, aligned : BOOLEAN]

(* An embedded image: "exec" is an executable for RISC-V, "notexec" a     *)
(* well-formed ELF of another type or machine, "malformed" bytes that     *)
(* ElfFile::new rejects.                                                   *)
ElfKinds == {"exec", "notexec", "malformed"}
Candidate == [elf : ElfKinds, segs : Seq(Segment), prog : Seq(Instr)]

ASSUME NAppsAssumption == NApps \in Nat
ASSUME CandidatesAssumption == Candidates \subseteq Candidate
ASSUME PagesAssumption ==
    /\ StackPages \subseteq Pages
    /\ PortalPage \in PortalSlot
    /\ PortalSlot \subseteq Pages
    /\ StackPages \cap PortalSlot = {}
ASSUME LogLevelsAssumption == LogLevels \subseteq Levels

(* A satp value: mode field 8 (Sv39) and the root page number; the       *)
(* kernel's root is 0, the root of app i's address space is i.            *)
Token(root) == <<8, root>>
KernelToken == Token(0)

(* The portal entry of kernel_space: the only page of the kernel address  *)
(* space that lies in the portal's root slot.                              *)
KernelSpace == [p \in Pages |->
                    IF p = PortalPage THEN {"G", "X", "W", "R", "V"} ELSE {}]

Proc == [app : 1..NApps, pc : Nat, a0 : Int, space : [Pages -> SUBSET Flags],
         satp : {Token(r) : r \in 1..NApps}]

Phases == {"load", "sched", "user", "trap", "shutdown", "failure"}

VARIABLES
    apps,       \* the embedded images, AppMeta (fixed at build time)
    next,       \* index of the enumerate loop over AppMeta::iter
    procs,      \* PROCESSES
    phase,      \* where the kernel's single control flow is
    satp,       \* the hardware satp register
    scause,     \* the hardware scause register after the portal returns
    lineStart,  \* LINE_START
    console,    \* every byte printed, with whether a timestamp precedes it
    retired     \* history: the apps removed from PROCESSES, in order

vars == <<apps, next, procs, phase, satp, scause, lineStart, console, retired>>

(* A console byte: the character, whether a "[ts ms] " prefix was printed *)
(* just before it, and whether a user WRITE or a kernel log line printed it.*)
Out == [ts : BOOLEAN, c : Chars \cup {"L"}, src : {"user", "log"}]

-----------------------------------------------------------------------------
(* rcore_console's log macros print one whole line with its own prefix   *)
(* when the level passes the filter.                                      *)
Log(level) ==
    IF level \in LogLevels
    THEN << [ts |-> TRUE, c |-> "L", src |-> "log"],
            [ts |-> FALSE, c |-> NL, src |-> "log"] >>
    ELSE << >>

(* print_with_timestamp(s) with LINE_START = ls: split_inclusive('\n')   *)
(* starts a segment at the first byte and after every newline, and a      *)
(* segment is prefixed when at_line_start holds.                          *)
Stamp(ls, s) ==
    [i \in 1..Len(s) |-> [ts |-> IF i = 1 THEN ls ELSE s[i - 1] = NL,
                          c |-> s[i], src |-> "user"]]

(* Variant of LineStartAfter that never stores at_line_start back.       *)
LineStartAfterNotStored(ls, s) == ls

(* The value LINE_START holds after print_with_timestamp(s).              *)
LineStartAfter(ls, s) == IF s = << >> THEN ls ELSE s[Len(s)] = NL

(* AddressSpace::translate(va, flags): the page is mapped with at least   *)
(* the requested flags.                                                    *)
Translate(space, page, need) == need \subseteq space[page]

(* The flags Process::new gives each page: "U___V" plus the segment's     *)
(* X/W/R bits for every PT_LOAD segment, then "U_WRV" for the stack.      *)
SegmentFlags(segs, p) ==
    UNION {{"U", "V"} \cup segs[k].flags :
              k \in {j \in DOMAIN segs : segs[j].load /\ p \in segs[j].pages}}
ProcessSpace(segs) ==
    [p \in Pages |-> IF p \in StackPages THEN {"U", "W", "R", "V"}
                     ELSE SegmentFlags(segs, p)]

(* Process::new rejects (None) an ELF that is not a RISC-V executable and *)
(* panics in assert_eq! on a PT_LOAD segment whose offsets disagree.       *)
Misaligned(c) == \E k \in DOMAIN c.segs : c.segs[k].load /\ ~c.segs[k].aligned

(* Variant of NewProcess whose satp leaves the mode field 0 (Bare), as    *)
(* when `8 << 60 |` is forgotten.                                          *)
NewProcessBareSatp(i) ==
    LET own == ProcessSpace(apps[i].segs)
    IN  [app |-> i, pc |-> 1, a0 |-> 0,
         space |-> [p \in Pages |->
                      IF p \in PortalSlot THEN KernelSpace[p] ELSE own[p]],
         satp |-> <<0, i>>]

(* Variant of NewProcess without the copy of the portal root entry.      *)
NewProcessNoPortal(i) ==
    [app |-> i, pc |-> 1, a0 |-> 0, space |-> ProcessSpace(apps[i].segs),
     satp |-> Token(i)]

(* Process::new for app i followed by the copy of the kernel's root entry *)
(* at portal_idx into the new root.                                        *)
NewProcess(i) ==
    LET own == ProcessSpace(apps[i].segs)
    IN  [app |-> i, pc |-> 1, a0 |-> 0,
         space |-> [p \in Pages |->
                      IF p \in PortalSlot THEN KernelSpace[p] ELSE own[p]],
         satp |-> Token(i)]

-----------------------------------------------------------------------------
Init ==
    /\ apps \in [1..NApps -> Candidates]
    /\ next = 1
    /\ procs = << >>
    /\ phase = "load"
    /\ satp = KernelToken
    /\ scause = "UserEnvCall"
    /\ lineStart = TRUE
    /\ console = << >>
    /\ retired = << >>

(* One iteration of the loading loop of rust_main for app `next`: log     *)
(* "detect app", then ElfFile::new(..).unwrap() and Process::new.  A panic *)
(* runs the panic handler: log the message, system_reset(Shutdown,         *)
(* SystemFailure).                                                          *)
LoadApp ==
    /\ phase = "load"
    /\ next <= NApps
    /\ next' = next + 1
    /\ LET c == apps[next]
           detect == console \o Log("info")
       IN  \/ /\ c.elf = "malformed"
              /\ phase' = "failure"
              /\ console' = detect \o Log("error")
              /\ UNCHANGED procs
           \/ /\ c.elf = "notexec"
              /\ console' = detect
              /\ UNCHANGED <<procs, phase>>
           \/ /\ c.elf = "exec"
              /\ Misaligned(c)
              /\ phase' = "failure"
              /\ console' = detect \o Log("error")
              /\ UNCHANGED procs
           \/ /\ c.elf = "exec"
              /\ ~Misaligned(c)
              /\ procs' = Append(procs, NewProcess(next))
              /\ console' = detect \o Log("info")
              /\ UNCHANGED phase
    /\ UNCHANGED <<apps, satp, scause, lineStart, retired>>

(* Variant of StartSchedule that leaves the loop one app early.           *)
StartScheduleEarly ==
    /\ phase = "load"
    /\ next >= NApps
    /\ phase' = "sched"
    /\ UNCHANGED <<apps, next, procs, satp, scause, lineStart, console, retired>>

(* The loop has seen every app: build the scheduling stack and thread and *)
(* enter `schedule`.                                                       *)
StartSchedule ==
    /\ phase = "load"
    /\ next > NApps
    /\ phase' = "sched"
    /\ UNCHANGED <<apps, next, procs, satp, scause, lineStart, console, retired>>

(* Variant of Execute written as a do-while: enters the portal without   *)
(* testing the loop condition.                                             *)
ExecuteUnguarded ==
    /\ phase = "sched"
    /\ phase' = "user"
    /\ satp' = IF procs = << >> THEN satp ELSE Head(procs).satp
    /\ UNCHANGED <<apps, next, procs, scause, lineStart, console, retired>>

(* `while !PROCESSES.is_empty()` holds: ctx.execute(portal, ()) enters     *)
(* the portal, which loads the head's satp and resumes it.                 *)
Execute ==
    /\ phase = "sched"
    /\ procs # << >>
    /\ phase' = "user"
    /\ satp' = Head(procs).satp
    /\ UNCHANGED <<apps, next, procs, scause, lineStart, console, retired>>

(* The head runs until its next trapping instruction; the portal restores *)
(* the kernel's satp and returns with scause set.  Running past the last  *)
(* instruction of the program traps as an illegal instruction.            *)
CurrentInstr == apps[Head(procs).app].prog[Head(procs).pc]
HasInstr == Head(procs).pc \in DOMAIN apps[Head(procs).app].prog

UserTrap ==
    /\ phase = "user"
    /\ phase' = "trap"
    /\ satp' = KernelToken
    /\ scause' = IF HasInstr THEN CurrentInstr.cause ELSE "IllegalInstruction"
    /\ UNCHANGED <<apps, next, procs, lineStart, console, retired>>

(* The syscall was an ecall with this id.                                 *)
Ecall(id) ==
    /\ phase = "trap"
    /\ scause = "UserEnvCall"
    /\ CurrentInstr.id = id

(* Variant of Resume that writes a0 but forgets ctx.move_next().          *)
ResumeNoMoveNext(ret) ==
    /\ procs' = [procs EXCEPT ![1].a0 = ret]
    /\ phase' = "sched"

(* Ret::Done(ret) for an id other than EXIT: a0 := ret, move_next.        *)
Resume(ret) ==
    /\ procs' = [procs EXCEPT ![1].a0 = ret, ![1].pc = @ + 1]
    /\ phase' = "sched"

(* Variant of Retire that pops the last process, PROCESSES.pop().         *)
RetireLast ==
    /\ procs' = SubSeq(procs, 1, Len(procs) - 1)
    /\ retired' = Append(retired, procs[Len(procs)].app)
    /\ phase' = "sched"

(* PROCESSES.remove(0).                                                    *)
Retire ==
    /\ procs' = Tail(procs)
    /\ retired' = Append(retired, Head(procs).app)
    /\ phase' = "sched"

(* syscall handlers look their process up as PROCESSES[caller.entity],    *)
(* and `schedule` always passes entity 0.                                  *)
CallerEntity == 0
Caller == procs[CallerEntity + 1]

SysExit ==
    /\ Ecall("EXIT")
    /\ Retire
    /\ UNCHANGED <<apps, next, satp, scause, lineStart, console>>

SysWrite ==
    /\ Ecall("WRITE")
    /\ LET ins == CurrentInstr
       IN  IF /\ ins.fd \in {"STDOUT", "STDDEBUG"}
              /\ Translate(Caller.space, ins.ptr, {"R", "V"})
           THEN /\ Resume(Len(ins.data))
                /\ console' = console \o Stamp(lineStart, ins.data)
                /\ lineStart' = LineStartAfter(lineStart, ins.data)
           ELSE /\ Resume(-1)
                /\ console' = console \o Log("error")
                /\ UNCHANGED lineStart
    /\ UNCHANGED <<apps, next, satp, scause, retired>>

SysYield ==
    /\ Ecall("SCHED_YIELD")
    /\ Resume(0)
    /\ UNCHANGED <<apps, next, satp, scause, lineStart, console, retired>>

SysClock ==
    /\ Ecall("CLOCK_GETTIME")
    /\ LET ins == CurrentInstr
       IN  \/ /\ ins.clock = "CLOCK_MONOTONIC"
              /\ Translate(Caller.space, ins.ptr, {"W", "V"})
              /\ Resume(0)
              /\ UNCHANGED console
           \/ /\ ins.clock = "CLOCK_MONOTONIC"
              /\ ~Translate(Caller.space, ins.ptr, {"W", "V"})
              /\ Resume(-1)
              /\ console' = console \o Log("error")
           \/ /\ ins.clock # "CLOCK_MONOTONIC"
              /\ Resume(-1)
              /\ UNCHANGED console
    /\ UNCHANGED <<apps, next, satp, scause, lineStart, retired>>

(* Ret::Unsupported: log the id and drop the process.                     *)
SysUnsupported ==
    /\ Ecall("OTHER")
    /\ Retire
    /\ console' = console \o Log("info")
    /\ UNCHANGED <<apps, next, satp, scause, lineStart>>

(* Any other trap cause: log stval and sepc and drop the process.         *)
TrapOther ==
    /\ phase = "trap"
    /\ scause # "UserEnvCall"
    /\ Retire
    /\ console' = console \o Log("error")
    /\ UNCHANGED <<apps, next, satp, scause, lineStart>>

(* PROCESSES is empty: system_reset(Shutdown, NoReason).                   *)
Shutdown ==
    /\ phase = "sched"
    /\ procs = << >>
    /\ phase' = "shutdown"
    /\ UNCHANGED <<apps, next, procs, satp, scause, lineStart, console, retired>>

(* After a reset the finisher device stops the machine.                   *)
Halted ==
    /\ phase \in {"shutdown", "failure"}
    /\ UNCHANGED vars

Next ==
    \/ LoadApp \/ StartSchedule
    \/ Execute \/ UserTrap
    \/ SysExit \/ SysWrite \/ SysYield \/ SysClock \/ SysUnsupported
    \/ TrapOther \/ Shutdown \/ Halted

(* The kernel is one control flow on one hart that never blocks except    *)
(* inside a user program, and every modelled program traps: weak fairness *)
(* on Next.                                                                *)
Spec == Init /\ [][Next]_vars /\ WF_vars(Next)

-----------------------------------------------------------------------------
(* Every variable holds a value of its type.                              *)
TypeOK ==
    /\ apps \in [1..NApps -> Candidate]
    /\ next \in 1..(NApps + 1)
    /\ procs \in Seq(Proc)
    /\ phase \in Phases
    /\ satp \in {Token(r) : r \in 0..NApps}
    /\ scause \in Causes
    /\ lineStart \in BOOLEAN
    /\ console \in Seq(Out)
    /\ retired \in Seq(1..NApps)

(* `schedule` touches PROCESSES[0] (the portal call, and the handlers'    *)
(* PROCESSES[caller.entity].unwrap()) only while the queue is non-empty,  *)
(* and decodes a UserEnvCall only from an instruction of the head's        *)
(* program.                                                                 *)
HeadPresent ==
    /\ phase \in {"user", "trap"} => procs # << >>
    /\ phase = "trap" /\ scause = "UserEnvCall" => HasInstr

AppIds(s) == [i \in DOMAIN s |-> s[i].app]

(* The run queue is FIFO and only the head is touched (spec invariant (d) *)
(* and its test "an unsupported syscall removes only the head"): a step   *)
(* of the loading loop appends, a step of `schedule` either updates the   *)
(* head's saved registers or removes the head, and no step reorders       *)
(* PROCESSES or changes a process behind the head.                         *)
QueueDiscipline ==
    \/ procs' = procs
    \/ /\ Len(procs') = Len(procs) + 1
       /\ SubSeq(procs', 1, Len(procs)) = procs
    \/ procs # << >> /\ procs' = Tail(procs)
    \/ /\ procs # << >>
       /\ Len(procs') = Len(procs)
       /\ procs'[1].app = procs[1].app
       /\ \A i \in 2..Len(procs) : procs'[i] = procs[i]

(* Every step of the kernel keeps the run queue's discipline.           *)
QueueOrder == [][QueueDiscipline]_procs

(* The portal never strands the kernel and never mixes address spaces:     *)
(* while a user program runs, satp is the token of the head's own root,    *)
(* every queued process has its own root and sees the kernel's portal      *)
(* slot unchanged; whenever kernel code runs, satp is the kernel's token.  *)
PortalCrossing ==
    /\ \A i \in DOMAIN procs :
          /\ procs[i].satp = Token(procs[i].app)
          /\ \A p \in PortalSlot : procs[i].space[p] = KernelSpace[p]
    /\ \A i, j \in DOMAIN procs : i # j => procs[i].app # procs[j].app
    /\ phase = "user" => satp = Head(procs).satp
    /\ phase # "user" => satp = KernelToken

(* Before index i of the console s, the user output is at a line start:   *)
(* there is no user byte, or the last one is a newline; that is, every     *)
(* user byte before i that is not a newline has a later user byte before i.*)
UserLineStart(s, i) ==
    \A j \in 1..(i - 1) :
        s[j].src = "user" /\ s[j].c # NL =>
            \E k \in (j + 1)..(i - 1) : s[k].src = "user"

(* The output of WRITE, across calls and across processes, carries a      *)
(* timestamp exactly at the start of each line: before its first byte and *)
(* before each byte that follows a newline of the user output, whatever    *)
(* kernel log lines come between (spec section 8).                         *)
UserLinesStamped ==
    \A i \in DOMAIN console :
        console[i].src = "user" => (console[i].ts <=> UserLineStart(console, i))

(* The whole console, kernel log lines included, carries a timestamp      *)
(* exactly at the start of each line (spec sections 6 and 8).             *)
ConsoleLinesStamped ==
    \A i \in DOMAIN console :
        console[i].ts <=> (i = 1 \/ console[i - 1].c = NL)

(* The apps whose image is a RISC-V executable.                            *)
ValidApps == {i \in 1..NApps : apps[i].elf = "exec"}

(* When the kernel shuts down normally, every valid app was loaded, run   *)
(* and removed, and no other app was, in the order of the app table:       *)
(* retired holds exactly the valid apps and is strictly increasing, so it *)
(* is the valid apps listed in table order.                                *)
AllValidAppsRetired ==
    phase = "shutdown" =>
        /\ {retired[k] : k \in DOMAIN retired} = ValidApps
        /\ \A k, l \in DOMAIN retired : k < l => retired[k] < retired[l]

(* The run-queue status a phase of the kernel stands for.                 *)
RunStatus ==
    CASE phase = "load"     -> "loading"
      [] phase = "failure"  -> "failed"
      [] phase = "shutdown" -> "halted"
      [] OTHER              -> "running"

(* The refinement mapping: the run queue is the apps of PROCESSES, the    *)
(* scan has seen next - 1 entries of the app table.                        *)
RQ == INSTANCE RunQueue
        WITH N <- NApps, queue <- AppIds(procs), retired <- retired,
             seen <- next - 1, status <- RunStatus

(* The kernel implements the run-queue specification: the loading loop   *)
(* admits or skips each app in table order or panics, `schedule` starts   *)
(* only after the whole table, removes only the head of PROCESSES and     *)
(* shuts down only when PROCESSES is empty, and all of it happens.        *)
RunQueueSpec == RQ!Spec

(* PROCESSES loses its apps in the order of the app table, each at most  *)
(* once, and only apps the loading loop has reached: retired followed by *)
(* the queued apps is strictly increasing and below next.                 *)
RetiredInTableOrder == RQ!InOrder

(* An image that is not a valid RISC-V executable is skipped and never   *)
(* stops the kernel (spec 4.2: "signals skip candidate, not a fatal       *)
(* condition"; section 7: ELF validation failure is process-fatal).       *)
NoBootFailure == phase # "failure"

(* The scheduler loop ends: every process eventually exits or is dropped *)
(* and the kernel resets the machine.                                      *)
Termination == <>(phase \in {"shutdown", "failure"})

=============================================================================
