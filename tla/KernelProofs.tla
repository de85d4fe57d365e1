---------------------------- MODULE KernelProofs ----------------------------
(***************************************************************************)
(* Theorems about Kernel, for every value of its constants that meets its *)
(* ASSUMEs.                                                                *)
(***************************************************************************)
EXTENDS Kernel, SequenceTheorems, TLAPS

(* TypeOK strengthened by what a step needs to read the head.            *)
IInv == TypeOK /\ HeadPresent

-----------------------------------------------------------------------------
(* A log line is a sequence of console bytes.                             *)
LEMMA LogType ==
    ASSUME NEW level
    PROVE  Log(level) \in Seq(Out)
<1>1. [ts |-> TRUE, c |-> "L", src |-> "log"] \in Out
  BY DEF Out
<1>2. [ts |-> FALSE, c |-> NL, src |-> "log"] \in Out
  BY DEF Out, Chars
<1>3. << [ts |-> TRUE, c |-> "L", src |-> "log"],
         [ts |-> FALSE, c |-> NL, src |-> "log"] >> \in Seq(Out)
  BY <1>1, <1>2
<1>. QED
  BY <1>3 DEF Log

(* print_with_timestamp emits a sequence of console bytes.                *)
LEMMA StampType ==
    ASSUME NEW ls \in BOOLEAN, NEW s \in Seq(Chars)
    PROVE  Stamp(ls, s) \in Seq(Out)
<1>1. \A i \in 1..Len(s) : s[i] \in Chars
  OBVIOUS
<1>2. \A i \in 2..Len(s) : s[i - 1] \in Chars
  OBVIOUS
<1>3. \A i \in 1..Len(s) : Stamp(ls, s)[i] \in Out
  BY <1>1, <1>2 DEF Stamp, Out
<1>. QED
  BY <1>3 DEF Stamp

(* LINE_START stays a Boolean.                                            *)
LEMMA LineStartType ==
    ASSUME NEW ls \in BOOLEAN, NEW s \in Seq(Chars)
    PROVE  LineStartAfter(ls, s) \in BOOLEAN
BY DEF LineStartAfter

(* The pages Process::new maps carry PTE flags only.                      *)
LEMMA ProcessSpaceType ==
    ASSUME NEW segs \in Seq(Segment)
    PROVE  ProcessSpace(segs) \in [Pages -> SUBSET Flags]
<1>1. ASSUME NEW p \in Pages
      PROVE  SegmentFlags(segs, p) \subseteq Flags
  <2>1. \A k \in DOMAIN segs : segs[k] \in Segment
    OBVIOUS
  <2>2. \A k \in DOMAIN segs : segs[k].flags \subseteq {"X", "W", "R"}
    BY <2>1 DEF Segment
  <2>. QED
    BY <2>2 DEF SegmentFlags, Flags
<1>. QED
  BY <1>1 DEF ProcessSpace, Flags

(* A process built by the loading loop is a well-typed process.          *)
LEMMA NewProcessType ==
    ASSUME TypeOK, NEW i \in 1..NApps
    PROVE  NewProcess(i) \in Proc
<1>1. apps[i].segs \in Seq(Segment)
  BY DEF TypeOK, Candidate
<1>2. ProcessSpace(apps[i].segs) \in [Pages -> SUBSET Flags]
  BY <1>1, ProcessSpaceType
<1>3. KernelSpace \in [Pages -> SUBSET Flags]
  BY DEF KernelSpace, Flags
<1>. QED
  BY <1>2, <1>3 DEF NewProcess, Proc

(* In a trap taken on an instruction of the head's program, the head is  *)
(* a process and the instruction a well-typed one.                        *)
LEMMA HeadInstrType ==
    ASSUME TypeOK, procs # << >>, HasInstr
    PROVE  Head(procs) \in Proc /\ CurrentInstr \in Instr
<1>1. Head(procs) \in Proc
  BY HeadTailProperties DEF TypeOK
<1>2. apps[Head(procs).app].prog \in Seq(Instr)
  BY <1>1 DEF TypeOK, Proc, Candidate
<1>. QED
  BY <1>1, <1>2 DEF HasInstr, CurrentInstr

(* PROCESSES.remove(0) keeps the queue and the history well typed.        *)
LEMMA RetireType ==
    ASSUME TypeOK, procs # << >>, Retire
    PROVE  procs' \in Seq(Proc) /\ retired' \in Seq(1..NApps) /\ phase' = "sched"
<1>1. Head(procs) \in Proc
  BY HeadTailProperties DEF TypeOK
<1>2. Tail(procs) \in Seq(Proc)
  BY HeadTailProperties DEF TypeOK
<1>3. Append(retired, Head(procs).app) \in Seq(1..NApps)
  BY <1>1, AppendProperties DEF TypeOK, Proc
<1>. QED
  BY <1>2, <1>3 DEF Retire

(* A process with its pc set to a natural number is a process.           *)
LEMMA PcUpdateType ==
    ASSUME NEW r \in Proc, NEW n \in Nat
    PROVE  [r EXCEPT !.pc = n] \in Proc
BY DEF Proc

(* Writing a0 and advancing pc by one keeps a process well typed.        *)
LEMMA SavedRegistersType ==
    ASSUME NEW r \in Proc, NEW ret \in Int
    PROVE  [r EXCEPT !.a0 = ret, !.pc = @ + 1] \in Proc
<1>1. r.pc + 1 \in Nat
  BY DEF Proc
<1>2. [r EXCEPT !.a0 = ret] \in Proc
  BY DEF Proc
<1>3. [r EXCEPT !.a0 = ret].pc = r.pc
  BY DEF Proc
<1>. QED
  BY <1>1, <1>2, <1>3, PcUpdateType

(* Writing a0 and advancing the head's pc keeps the queue well typed.     *)
LEMMA ResumeType ==
    ASSUME TypeOK, procs # << >>, NEW ret \in Int, Resume(ret)
    PROVE  procs' \in Seq(Proc) /\ phase' = "sched"
<1>1. procs[1] \in Proc
  BY DEF TypeOK
<1>2. [procs[1] EXCEPT !.a0 = ret, !.pc = @ + 1] \in Proc
  BY <1>1, SavedRegistersType
<1>3. [procs EXCEPT ![1].a0 = ret, ![1].pc = @ + 1]
        = [procs EXCEPT ![1] = [procs[1] EXCEPT !.a0 = ret, !.pc = @ + 1]]
  OBVIOUS
<1>4. [procs EXCEPT ![1] = [procs[1] EXCEPT !.a0 = ret, !.pc = @ + 1]] \in Seq(Proc)
  BY <1>2, ExceptSeq DEF TypeOK
<1>. QED
  BY <1>3, <1>4 DEF Resume

-----------------------------------------------------------------------------
(* The initial state satisfies the inductive invariant.                  *)
LEMMA InitIInv == Init => IInv
BY NAppsAssumption, CandidatesAssumption
   DEF Init, IInv, HeadPresent, TypeOK, KernelToken, Token, Phases, Causes

(* Every step of Next preserves the inductive invariant.                  *)
LEMMA NextIInv == IInv /\ [Next]_vars => IInv'
<1> SUFFICES ASSUME IInv, [Next]_vars PROVE IInv'
  OBVIOUS
<1>0. TypeOK
  BY DEF IInv, HeadPresent
<1>1. CASE LoadApp
  <2>1. next \in 1..NApps /\ next' = next + 1
    BY <1>0, <1>1 DEF LoadApp, TypeOK
  <2>2. console \o Log("info") \in Seq(Out)
    BY <1>0, LogType DEF TypeOK
  <2>3. console \o Log("info") \o Log("error") \in Seq(Out)
        /\ console \o Log("info") \o Log("info") \in Seq(Out)
    BY <2>2, LogType
  <2>4. Append(procs, NewProcess(next)) \in Seq(Proc)
    BY <1>0, <2>1, NewProcessType DEF TypeOK
  <2>5. phase' \in {"failure", "load"}
    BY <1>1 DEF LoadApp
  <2>6. procs' \in Seq(Proc)
    BY <1>1, <2>4, <1>0 DEF LoadApp, TypeOK
  <2>7. console' \in Seq(Out)
    BY <1>1, <2>2, <2>3 DEF LoadApp
  <2>8. UNCHANGED <<apps, satp, scause, lineStart, retired>>
    BY <1>1 DEF LoadApp
  <2>9. TypeOK'
    <3>1. next' \in 1..(NApps + 1)
      BY <2>1, NAppsAssumption
    <3>2. phase' \in Phases
      BY <2>5 DEF Phases
    <3>. QED
      BY <1>0, <3>1, <3>2, <2>6, <2>7, <2>8 DEF TypeOK
  <2>. QED
    BY <2>5, <2>9 DEF IInv, HeadPresent
<1>2. CASE StartSchedule
  BY <1>0, <1>2 DEF StartSchedule, IInv, HeadPresent, TypeOK, Phases
<1>3. CASE Execute
  <2>1. Head(procs) \in Proc
    BY <1>0, <1>3, HeadTailProperties DEF Execute, TypeOK
  <2>2. satp' \in {Token(r) : r \in 0..NApps}
    BY <1>3, <2>1 DEF Execute, Proc
  <2>. QED
    BY <1>0, <1>3, <2>2 DEF Execute, IInv, HeadPresent, TypeOK, Phases
<1>4. CASE UserTrap
  <2>1. procs # << >>
    BY <1>4 DEF UserTrap, IInv, HeadPresent
  <2>2. HasInstr => CurrentInstr \in Instr
    <3>1. Head(procs) \in Proc
      BY <1>0, <2>1, HeadTailProperties DEF TypeOK
    <3>2. apps[Head(procs).app].prog \in Seq(Instr)
      BY <1>0, <3>1 DEF TypeOK, Proc, Candidate
    <3>. QED
      BY <3>2 DEF HasInstr, CurrentInstr
  <2>3. scause' \in Causes
    <3>1. HasInstr => CurrentInstr.cause \in Causes
      BY <2>2 DEF Instr
    <3>. QED
      BY <1>4, <3>1 DEF UserTrap, Causes
  <2>4. HasInstr' = HasInstr
    BY <1>4 DEF UserTrap, HasInstr
  <2>5. satp' \in {Token(r) : r \in 0..NApps}
    BY <1>4, NAppsAssumption DEF UserTrap, KernelToken
  <2>6. scause' = "UserEnvCall" => HasInstr'
    BY <1>4, <2>4 DEF UserTrap
  <2>7. UNCHANGED <<apps, next, procs, lineStart, console, retired>>
    BY <1>4 DEF UserTrap
  <2>8. phase' = "trap"
    BY <1>4 DEF UserTrap
  <2>. QED
    BY <1>0, <2>1, <2>3, <2>5, <2>6, <2>7, <2>8 DEF IInv, HeadPresent, TypeOK, Phases
<1>5. ASSUME NEW id, Ecall(id)
      PROVE  procs # << >> /\ CurrentInstr \in Instr /\ CurrentInstr.id = id
  <2>1. procs # << >> /\ HasInstr
    BY <1>5 DEF Ecall, IInv, HeadPresent
  <2>. QED
    BY <1>0, <1>5, <2>1, HeadInstrType DEF Ecall
<1>6. CASE SysExit
  <2>1. procs # << >>
    BY <1>5, <1>6 DEF SysExit
  <2>2. procs' \in Seq(Proc) /\ retired' \in Seq(1..NApps) /\ phase' = "sched"
    BY <1>0, <1>6, <2>1, RetireType DEF SysExit
  <2>. QED
    BY <1>0, <1>6, <2>2 DEF SysExit, IInv, HeadPresent, TypeOK, Phases
<1>7. CASE SysWrite
  <2> DEFINE ins == CurrentInstr
  <2>1. procs # << >> /\ ins \in Instr
    BY <1>5, <1>7 DEF SysWrite
  <2>2. ins.data \in Seq(Chars) /\ Len(ins.data) \in Int
    BY <2>1 DEF Instr
  <2>3. console \o Stamp(lineStart, ins.data) \in Seq(Out)
        /\ LineStartAfter(lineStart, ins.data) \in BOOLEAN
    BY <1>0, <2>2, StampType, LineStartType DEF TypeOK
  <2>4. console \o Log("error") \in Seq(Out)
    BY <1>0, LogType DEF TypeOK
  <2>5. CASE /\ ins.fd \in {"STDOUT", "STDDEBUG"}
             /\ Translate(Caller.space, ins.ptr, {"R", "V"})
    <3>1. Resume(Len(ins.data))
      BY <1>7, <2>5 DEF SysWrite
    <3>2. procs' \in Seq(Proc) /\ phase' = "sched"
      BY <1>0, <2>1, <2>2, <3>1, ResumeType
    <3>. QED
      BY <1>0, <1>7, <2>3, <2>5, <3>2 DEF SysWrite, IInv, HeadPresent, TypeOK, Phases
  <2>6. CASE ~(/\ ins.fd \in {"STDOUT", "STDDEBUG"}
               /\ Translate(Caller.space, ins.ptr, {"R", "V"}))
    <3>1. Resume(-1)
      BY <1>7, <2>6 DEF SysWrite
    <3>2. procs' \in Seq(Proc) /\ phase' = "sched"
      BY <1>0, <2>1, <3>1, ResumeType
    <3>. QED
      BY <1>0, <1>7, <2>4, <2>6, <3>2 DEF SysWrite, IInv, HeadPresent, TypeOK, Phases
  <2>. QED
    BY <2>5, <2>6
<1>8. CASE SysYield
  <2>1. procs # << >>
    BY <1>5, <1>8 DEF SysYield
  <2>2. procs' \in Seq(Proc) /\ phase' = "sched"
    BY <1>0, <1>8, <2>1, ResumeType DEF SysYield
  <2>. QED
    BY <1>0, <1>8, <2>2 DEF SysYield, IInv, HeadPresent, TypeOK, Phases
<1>9. CASE SysClock
  <2>1. procs # << >>
    BY <1>5, <1>9 DEF SysClock
  <2>2. console \o Log("error") \in Seq(Out)
    BY <1>0, LogType DEF TypeOK
  <2>3. (Resume(0) \/ Resume(-1)) /\ console' \in {console, console \o Log("error")}
    BY <1>9 DEF SysClock
  <2>4. procs' \in Seq(Proc) /\ phase' = "sched"
    BY <1>0, <2>1, <2>3, ResumeType
  <2>. QED
    BY <1>0, <1>9, <2>2, <2>3, <2>4 DEF SysClock, IInv, HeadPresent, TypeOK, Phases
<1>10. CASE SysUnsupported
  <2>1. procs # << >>
    BY <1>5, <1>10 DEF SysUnsupported
  <2>2. procs' \in Seq(Proc) /\ retired' \in Seq(1..NApps) /\ phase' = "sched"
    BY <1>0, <1>10, <2>1, RetireType DEF SysUnsupported
  <2>3. console' \in Seq(Out)
    BY <1>0, <1>10, LogType DEF SysUnsupported, TypeOK
  <2>. QED
    BY <1>0, <1>10, <2>2, <2>3 DEF SysUnsupported, IInv, HeadPresent, TypeOK, Phases
<1>11. CASE TrapOther
  <2>1. procs # << >>
    BY <1>11 DEF TrapOther, IInv, HeadPresent
  <2>2. procs' \in Seq(Proc) /\ retired' \in Seq(1..NApps) /\ phase' = "sched"
    BY <1>0, <1>11, <2>1, RetireType DEF TrapOther
  <2>3. console' \in Seq(Out)
    BY <1>0, <1>11, LogType DEF TrapOther, TypeOK
  <2>. QED
    BY <1>0, <1>11, <2>2, <2>3 DEF TrapOther, IInv, HeadPresent, TypeOK, Phases
<1>12. CASE Shutdown
  BY <1>0, <1>12 DEF Shutdown, IInv, HeadPresent, TypeOK, Phases
<1>13. CASE Halted
  BY <1>13 DEF Halted, IInv, HeadPresent, TypeOK, vars, HasInstr, CurrentInstr
<1>14. CASE UNCHANGED vars
  BY <1>14 DEF IInv, HeadPresent, TypeOK, vars, HasInstr, CurrentInstr
<1>. QED
  BY <1>1, <1>2, <1>3, <1>4, <1>6, <1>7, <1>8, <1>9, <1>10, <1>11, <1>12,
     <1>13, <1>14 DEF Next

(* TypeOK holds in every state of every behaviour of Kernel.              *)
THEOREM TypeCorrect == Spec => []TypeOK
<1>1. Init => IInv
  BY InitIInv
<1>2. IInv /\ [Next]_vars => IInv'
  BY NextIInv
<1>3. IInv => TypeOK
  BY DEF IInv, HeadPresent
<1>. QED
  BY <1>1, <1>2, <1>3, PTL DEF Spec

(* `schedule` never reads an absent head: PROCESSES[0] exists whenever the *)
(* portal runs a process or a trap is dispatched, and a UserEnvCall is     *)
(* decoded from an instruction of the head's program.                       *)
THEOREM HeadPresentInvariant == Spec => []HeadPresent
<1>1. IInv => HeadPresent
  BY DEF IInv
<1>. QED
  BY <1>1, InitIInv, NextIInv, PTL DEF Spec

-----------------------------------------------------------------------------
(* Appending a process leaves the queue before it as a prefix.            *)
LEMMA AppendPrefix ==
    ASSUME NEW q \in Seq(Proc), NEW e \in Proc
    PROVE  /\ Len(Append(q, e)) = Len(q) + 1
           /\ SubSeq(Append(q, e), 1, Len(q)) = q
<1>1. Append(q, e) \in Seq(Proc) /\ Len(Append(q, e)) = Len(q) + 1
      /\ \A i \in 1..Len(q) : Append(q, e)[i] = q[i]
  BY AppendProperties
<1>2. Len(q) \in Nat
  BY LenProperties
<1>3. /\ SubSeq(Append(q, e), 1, Len(q)) \in Seq(Proc)
      /\ Len(SubSeq(Append(q, e), 1, Len(q))) = Len(q)
      /\ \A i \in 1..Len(q) : SubSeq(Append(q, e), 1, Len(q))[i] = Append(q, e)[i]
  BY <1>1, <1>2, SubSeqProperties
<1>. QED
  BY <1>1, <1>3, SeqEqual

(* Every step of the kernel keeps the run queue's discipline.             *)
LEMMA NextQueueDiscipline == IInv /\ [Next]_vars => [QueueDiscipline]_procs
<1> SUFFICES ASSUME IInv, [Next]_vars PROVE [QueueDiscipline]_procs
  OBVIOUS
<1>0. TypeOK /\ HeadPresent
  BY DEF IInv
<1>1. CASE LoadApp
  <2>1. next \in 1..NApps
    BY <1>0, <1>1 DEF LoadApp, TypeOK
  <2>2. CASE procs' = Append(procs, NewProcess(next))
    <3>1. NewProcess(next) \in Proc
      BY <1>0, <2>1, NewProcessType
    <3>. QED
      BY <1>0, <2>2, <3>1, AppendPrefix DEF QueueDiscipline, TypeOK
  <2>3. CASE UNCHANGED procs
    BY <2>3 DEF QueueDiscipline
  <2>. QED
    BY <1>1, <2>2, <2>3 DEF LoadApp
<1>2. CASE SysExit \/ SysUnsupported \/ TrapOther
  <2>1. phase = "trap"
    BY <1>2 DEF SysExit, SysUnsupported, TrapOther, Ecall
  <2>. QED
    BY <1>0, <1>2, <2>1 DEF SysExit, SysUnsupported, TrapOther, Retire,
                            HeadPresent, QueueDiscipline
<1>3. CASE SysWrite \/ SysYield \/ SysClock
  <2>1. procs # << >>
    BY <1>0, <1>3 DEF SysWrite, SysYield, SysClock, Ecall, HeadPresent
  <2>2. PICK ret : Resume(ret)
    BY <1>3 DEF SysWrite, SysYield, SysClock
  <2>3. DOMAIN procs = 1..Len(procs) /\ Len(procs) \in Nat \ {0} /\ procs[1] \in Proc
    BY <1>0, <2>1, LenProperties, EmptySeq DEF TypeOK
  <2>4. /\ DOMAIN procs' = DOMAIN procs
        /\ procs'[1].app = procs[1].app
        /\ \A i \in 2..Len(procs) : procs'[i] = procs[i]
    BY <2>2, <2>3 DEF Resume, Proc
  <2>5. procs' \in Seq(Proc)
    BY NextIInv DEF IInv, TypeOK
  <2>6. Len(procs') = Len(procs)
    BY <2>3, <2>4, <2>5, LenProperties
  <2>. QED
    BY <2>1, <2>4, <2>6 DEF QueueDiscipline
<1>4. CASE StartSchedule \/ Execute \/ UserTrap \/ Shutdown \/ Halted
           \/ UNCHANGED vars
  BY <1>4 DEF StartSchedule, Execute, UserTrap, Shutdown, Halted, vars,
              QueueDiscipline
<1>. QED
  BY <1>1, <1>2, <1>3, <1>4 DEF Next

(* PROCESSES is a FIFO of which `schedule` touches only the head: no step *)
(* of the kernel reorders it, drops a process behind the head or changes  *)
(* one, whatever the apps do.                                              *)
THEOREM QueueOrderHolds == Spec => QueueOrder
<1>1. Spec => []IInv
  BY InitIInv, NextIInv, PTL DEF Spec
<1>. QED
  BY <1>1, NextQueueDiscipline, PTL DEF Spec, QueueOrder

-----------------------------------------------------------------------------
(* Every user byte of s is stamped exactly at a user line start.           *)
UserStamped(s) ==
    \A i \in DOMAIN s : s[i].src = "user" => (s[i].ts <=> UserLineStart(s, i))

(* UserLinesStamped with what a step needs: LINE_START says whether the   *)
(* user output so far ends at a line start.                               *)
LInv ==
    /\ IInv
    /\ UserStamped(console)
    /\ lineStart <=> UserLineStart(console, Len(console) + 1)

(* Whether the output before i is at a line start depends only on the    *)
(* bytes before i, so printing more leaves it alone.                       *)
LEMMA PrefixStart ==
    ASSUME NEW s \in Seq(Out), NEW t \in Seq(Out), NEW i \in 1..(Len(s) + 1)
    PROVE  UserLineStart(s \o t, i) <=> UserLineStart(s, i)
<1>1. \A j \in 1..(i - 1) : (s \o t)[j] = s[j]
  BY ConcatProperties
<1>. QED
  BY <1>1 DEF UserLineStart

(* Right after a user byte, the output is at a line start exactly when    *)
(* that byte is a newline.                                                  *)
LEMMA LastUser ==
    ASSUME NEW u \in Seq(Out), NEW i \in 2..(Len(u) + 1), u[i - 1].src = "user"
    PROVE  UserLineStart(u, i) <=> u[i - 1].c = NL
<1>1. CASE u[i - 1].c = NL
  <2>1. ASSUME NEW j \in 1..(i - 1), u[j].src = "user", u[j].c # NL
        PROVE  \E k \in (j + 1)..(i - 1) : u[k].src = "user"
    <3>1. j < i - 1
      BY <1>1, <2>1
    <3>. QED
      BY <3>1
  <2>. QED
    BY <1>1, <2>1 DEF UserLineStart
<1>2. CASE u[i - 1].c # NL
  <2>1. (i - 1) + 1 > i - 1
    OBVIOUS
  <2>. QED
    BY <1>2, <2>1 DEF UserLineStart
<1>. QED
  BY <1>1, <1>2

(* A log byte does not move the user output off or onto a line start.     *)
LEMMA LogSkip ==
    ASSUME NEW u \in Seq(Out), NEW i \in 2..(Len(u) + 1), u[i - 1].src # "user"
    PROVE  UserLineStart(u, i) <=> UserLineStart(u, i - 1)
BY DEF UserLineStart

(* A log line keeps every user byte's stamp and leaves the user output   *)
(* where it was with respect to line starts.                               *)
LEMMA LogKeeps ==
    ASSUME NEW s \in Seq(Out), UserStamped(s), NEW level
    PROVE  /\ UserStamped(s \o Log(level))
           /\ UserLineStart(s \o Log(level), Len(s \o Log(level)) + 1)
                <=> UserLineStart(s, Len(s) + 1)
<1> DEFINE u == s \o Log(level)
           n == Len(s)
<1>1. Log(level) \in Seq(Out) /\ n \in Nat
  BY LogType
<1>2. CASE level \notin LogLevels
  <2>1. u = s
    BY <1>2, ConcatEmptySeq DEF Log
  <2>. QED
    BY <2>1
<1>3. CASE level \in LogLevels
  <2>1. /\ u \in Seq(Out) /\ Len(u) = n + 2
        /\ \A i \in 1..n : u[i] = s[i]
        /\ u[n + 1].src = "log" /\ u[n + 2].src = "log"
    BY <1>1, <1>3, ConcatProperties DEF Log
  <2>2. ASSUME NEW i \in 1..(n + 1) PROVE UserLineStart(u, i) <=> UserLineStart(s, i)
    BY <1>1, PrefixStart
  <2>3. UserStamped(u)
    <3> SUFFICES ASSUME NEW i \in DOMAIN u, u[i].src = "user"
                 PROVE  u[i].ts <=> UserLineStart(u, i)
      BY DEF UserStamped
    <3>1. i \in 1..n
      BY <1>1, <2>1
    <3>. QED
      BY <2>1, <2>2, <3>1 DEF UserStamped
  <2>4. UserLineStart(u, n + 3) <=> UserLineStart(u, n + 2)
    <3>1. n + 3 \in 2..(Len(u) + 1) /\ u[(n + 3) - 1].src # "user"
          /\ (n + 3) - 1 = n + 2
      BY <1>1, <2>1
    <3>2. UserLineStart(u, n + 3) <=> UserLineStart(u, (n + 3) - 1)
      BY <2>1, <3>1, LogSkip
    <3>. QED
      BY <3>1, <3>2
  <2>5. UserLineStart(u, n + 2) <=> UserLineStart(u, n + 1)
    <3>1. n + 2 \in 2..(Len(u) + 1) /\ u[(n + 2) - 1].src # "user"
          /\ (n + 2) - 1 = n + 1
      BY <1>1, <2>1
    <3>2. UserLineStart(u, n + 2) <=> UserLineStart(u, (n + 2) - 1)
      BY <2>1, <3>1, LogSkip
    <3>. QED
      BY <3>1, <3>2
  <2>. QED
    BY <1>1, <2>1, <2>2, <2>3, <2>4, <2>5
<1>. QED
  BY <1>2, <1>3

(* print_with_timestamp(d) with LINE_START = ls, where ls says whether the *)
(* user output is at a line start, stamps exactly the bytes at user line   *)
(* starts, and LineStartAfter(ls, d) again says whether it ends at one.    *)
LEMMA StampKeeps ==
    ASSUME NEW s \in Seq(Out), UserStamped(s), NEW ls \in BOOLEAN,
           ls <=> UserLineStart(s, Len(s) + 1), NEW d \in Seq(Chars)
    PROVE  /\ UserStamped(s \o Stamp(ls, d))
           /\ UserLineStart(s \o Stamp(ls, d), Len(s \o Stamp(ls, d)) + 1)
                <=> LineStartAfter(ls, d)
<1> DEFINE t == Stamp(ls, d)
           u == s \o t
           n == Len(s)
<1>1. t \in Seq(Out) /\ n \in Nat /\ Len(t) = Len(d) /\ Len(d) \in Nat
  BY StampType DEF Stamp
<1>2. /\ u \in Seq(Out) /\ Len(u) = n + Len(d)
      /\ \A i \in 1..n : u[i] = s[i]
      /\ \A m \in 1..Len(d) : u[n + m] = t[m]
  <2>1. /\ u \in Seq(Out) /\ Len(u) = n + Len(t)
        /\ \A i \in 1..(n + Len(t)) : u[i] = IF i <= n THEN s[i] ELSE t[i - n]
    BY <1>1, ConcatProperties
  <2>2. ASSUME NEW m \in 1..Len(d) PROVE u[n + m] = t[m]
    <3>1. n + m \in 1..(n + Len(t)) /\ ~(n + m <= n) /\ (n + m) - n = m
      BY <1>1
    <3>. QED
      BY <2>1, <3>1
  <2>. QED
    BY <1>1, <2>1, <2>2
<1>3. \A m \in 1..Len(d) :
         /\ u[n + m].src = "user" /\ u[n + m].c = d[m]
         /\ u[n + m].ts = IF m = 1 THEN ls ELSE d[m - 1] = NL
  BY <1>2 DEF Stamp
<1>4. ASSUME NEW i \in 1..(n + 1) PROVE UserLineStart(u, i) <=> UserLineStart(s, i)
  BY <1>1, PrefixStart
<1>5. ASSUME NEW m \in 2..(Len(d) + 1)
      PROVE  UserLineStart(u, n + m) <=> d[m - 1] = NL
  <2>1. n + m \in 2..(Len(u) + 1) /\ (n + m) - 1 = n + (m - 1)
        /\ m - 1 \in 1..Len(d)
    BY <1>1, <1>2
  <2>2. u[(n + m) - 1].src = "user" /\ u[(n + m) - 1].c = d[m - 1]
    BY <1>3, <2>1
  <2>. QED
    BY <1>2, <2>1, <2>2, LastUser
<1>6. UserStamped(u)
  <2> SUFFICES ASSUME NEW i \in DOMAIN u, u[i].src = "user"
               PROVE  u[i].ts <=> UserLineStart(u, i)
    BY DEF UserStamped
  <2>1. CASE i \in 1..n
    BY <1>2, <1>4, <2>1 DEF UserStamped
  <2>2. CASE i = n + 1
    BY <1>1, <1>2, <1>3, <1>4, <2>2
  <2>3. CASE i \in (n + 2)..(n + Len(d))
    <3>1. i - n \in 2..Len(d) /\ n + (i - n) = i
      BY <1>1, <2>3
    <3>2. u[i].ts = (d[(i - n) - 1] = NL)
      BY <1>3, <3>1
    <3>3. UserLineStart(u, i) <=> d[(i - n) - 1] = NL
      BY <1>5, <3>1
    <3>. QED
      BY <3>2, <3>3
  <2>. QED
    BY <1>1, <1>2, <2>1, <2>2, <2>3
<1>7. CASE d = << >>
  <2>1. u = s
    BY <1>7, ConcatEmptySeq DEF Stamp
  <2>. QED
    BY <1>7, <2>1, <1>6 DEF LineStartAfter
<1>8. CASE d # << >>
  <2>1. Len(d) \in Nat \ {0}
    BY <1>8, EmptySeq, LenProperties
  <2>2. UserLineStart(u, n + (Len(d) + 1)) <=> d[Len(d)] = NL
    BY <2>1, <1>5
  <2>. QED
    BY <1>2, <1>6, <1>8, <2>1, <2>2 DEF LineStartAfter
<1>. QED
  BY <1>7, <1>8

(* LogKeeps for the invariant's two console conjuncts, with the type of   *)
(* the longer console.                                                      *)
LEMMA LogStep ==
    ASSUME NEW s \in Seq(Out), UserStamped(s), NEW ls,
           ls <=> UserLineStart(s, Len(s) + 1), NEW level
    PROVE  /\ s \o Log(level) \in Seq(Out)
           /\ UserStamped(s \o Log(level))
           /\ ls <=> UserLineStart(s \o Log(level), Len(s \o Log(level)) + 1)
<1>1. s \o Log(level) \in Seq(Out)
  BY LogType, ConcatProperties
<1>. QED
  BY <1>1, LogKeeps

(* The initial state satisfies LInv: nothing is printed and LINE_START is *)
(* set.                                                                     *)
LEMMA InitLInv == Init => LInv
<1> SUFFICES ASSUME Init PROVE LInv
  OBVIOUS
<1>1. IInv
  BY InitIInv
<1>2. UserStamped(console) /\ UserLineStart(console, Len(console) + 1) /\ lineStart
  BY DEF Init, UserStamped, UserLineStart
<1>. QED
  BY <1>1, <1>2 DEF LInv

(* Every step keeps LInv: the loading loop and the error paths print log  *)
(* lines and leave LINE_START alone, and WRITE prints through             *)
(* print_with_timestamp.                                                    *)
LEMMA NextLInv == LInv /\ [Next]_vars => LInv'
<1> SUFFICES ASSUME LInv, [Next]_vars PROVE LInv'
  OBVIOUS
<1>0. /\ IInv /\ IInv' /\ console \in Seq(Out) /\ UserStamped(console)
      /\ lineStart <=> UserLineStart(console, Len(console) + 1)
  BY NextIInv DEF LInv, IInv, TypeOK
<1> DEFINE Ok(s, ls) ==
             /\ UserStamped(s)
             /\ ls <=> UserLineStart(s, Len(s) + 1)
<1>a. SUFFICES Ok(console', lineStart')
  BY <1>0 DEF LInv, UserStamped, UserLineStart
<1>b. ASSUME NEW level, console' = console \o Log(level), lineStart' = lineStart
      PROVE  Ok(console', lineStart')
  BY <1>0, <1>b, LogStep
<1>1. CASE LoadApp
  <2>1. /\ console \o Log("info") \in Seq(Out)
        /\ Ok(console \o Log("info"), lineStart)
    BY <1>0, LogStep
  <2>2. ASSUME NEW level
        PROVE  Ok(console \o Log("info") \o Log(level), lineStart)
    BY <2>1, LogStep
  <2>. QED
    BY <1>1, <2>1, <2>2 DEF LoadApp
<1>2. CASE SysWrite
  <2> DEFINE ins == CurrentInstr
  <2>1. ins \in Instr
    <3>1. procs # << >> /\ HasInstr
      BY <1>0, <1>2 DEF SysWrite, Ecall, IInv, HeadPresent
    <3>. QED
      BY <1>0, <3>1, HeadInstrType DEF IInv
  <2>2. ins.data \in Seq(Chars) /\ lineStart \in BOOLEAN
    BY <1>0, <2>1 DEF Instr, IInv, TypeOK
  <2>3. CASE console' = console \o Stamp(lineStart, ins.data)
             /\ lineStart' = LineStartAfter(lineStart, ins.data)
    BY <1>0, <2>2, <2>3, StampKeeps
  <2>4. CASE console' = console \o Log("error") /\ lineStart' = lineStart
    BY <2>4, <1>b
  <2>. QED
    BY <1>2, <2>3, <2>4 DEF SysWrite
<1>3. CASE SysClock
  <2>1. lineStart' = lineStart
    BY <1>3 DEF SysClock
  <2>2. CASE console' = console
    BY <1>0, <2>1, <2>2
  <2>3. CASE console' = console \o Log("error")
    BY <2>1, <2>3, <1>b
  <2>. QED
    BY <1>3, <2>2, <2>3 DEF SysClock
<1>4. CASE SysUnsupported \/ TrapOther
  <2>1. lineStart' = lineStart
        /\ (console' = console \o Log("info") \/ console' = console \o Log("error"))
    BY <1>4 DEF SysUnsupported, TrapOther
  <2>. QED
    BY <2>1, <1>b
<1>5. CASE StartSchedule \/ Execute \/ UserTrap \/ SysExit \/ SysYield
           \/ Shutdown \/ Halted \/ UNCHANGED vars
  <2>1. UNCHANGED <<console, lineStart>>
    BY <1>5 DEF StartSchedule, Execute, UserTrap, SysExit, SysYield, Shutdown,
                Halted, vars
  <2>. QED
    BY <1>0, <2>1
<1>. QED
  BY <1>1, <1>2, <1>3, <1>4, <1>5 DEF Next

(* Whatever the processes write and whatever the kernel logs in between,  *)
(* every byte of WRITE output carries a timestamp exactly when it starts a *)
(* line of the user output: LINE_START, shared by all WRITE calls, always  *)
(* says whether the user output so far ends a line.                        *)
THEOREM UserLinesStampedInvariant == Spec => []UserLinesStamped
<1>1. LInv => UserLinesStamped
  BY DEF LInv, UserStamped, UserLinesStamped
<1>. QED
  BY <1>1, InitLInv, NextLInv, PTL DEF Spec

-----------------------------------------------------------------------------
(***************************************************************************)
(* The portal invariant of Kernel for every value of its constants: every *)
(* queued process carries its own root token and the kernel's portal      *)
(* mapping, no two queued processes share an app, and satp holds the      *)
(* head's token exactly while a user program runs.                        *)
(***************************************************************************)

(* The per-process half of PortalCrossing, with the fact that makes it    *)
(* inductive: every queued app was loaded before the loop's index n, so   *)
(* the process Process::new builds next is new to the queue.             *)
QueueOK(q, n) ==
    /\ \A i \in DOMAIN q :
          /\ q[i].satp = Token(q[i].app)
          /\ \A p \in PortalSlot : q[i].space[p] = KernelSpace[p]
          /\ q[i].app < n
    /\ \A i, j \in DOMAIN q : i # j => q[i].app # q[j].app

(* The satp half of PortalCrossing.                                        *)
SatpOK ==
    /\ phase = "user" => satp = Head(procs).satp
    /\ phase # "user" => satp = KernelToken

PInv == IInv /\ QueueOK(procs, next) /\ SatpOK

-----------------------------------------------------------------------------
(* Distinct apps have distinct root tokens.                              *)
LEMMA TokenInjective ==
    ASSUME NEW a \in Nat, NEW b \in Nat
    PROVE  Token(a) = Token(b) <=> a = b
BY DEF Token

(* PROCESSES.remove(0) keeps the queue invariant.                          *)
LEMMA TailQueueOK ==
    ASSUME NEW q \in Seq(Proc), q # << >>, NEW n, QueueOK(q, n)
    PROVE  QueueOK(Tail(q), n)
<1>1. DOMAIN Tail(q) = 1..(Len(q) - 1)
      /\ \A i \in 1..(Len(q) - 1) : Tail(q)[i] = q[i + 1] /\ i + 1 \in DOMAIN q
  BY HeadTailProperties
<1>. QED
  BY <1>1 DEF QueueOK

(* PROCESSES.push(process) of the process Process::new builds for app n  *)
(* keeps the queue invariant, with the loop's index moved past n.        *)
LEMMA AppendQueueOK ==
    ASSUME NEW q \in Seq(Proc), NEW n \in Nat, QueueOK(q, n),
           NEW e \in Proc, e.app = n, e.satp = Token(n),
           \A p \in PortalSlot : e.space[p] = KernelSpace[p]
    PROVE  QueueOK(Append(q, e), n + 1)
<1>1. DOMAIN Append(q, e) = 1..(Len(q) + 1)
      /\ \A i \in 1..Len(q) : Append(q, e)[i] = q[i]
      /\ Append(q, e)[Len(q) + 1] = e
  BY AppendProperties
<1>2. \A i \in 1..Len(q) : q[i].app \in Nat
  <2>1. \A i \in 1..Len(q) : q[i] \in Proc
    BY ElementOfSeq
  <2>2. \A i \in 1..Len(q) : q[i].app \in 1..NApps
    BY <2>1, Zenon DEF Proc
  <2>. QED
    BY <2>2
<1>. QED
  BY <1>1, <1>2 DEF QueueOK

(* Writing a0 and advancing pc of the head leaves every process's app,   *)
(* token and address space alone.                                          *)
LEMMA ResumeQueueOK ==
    ASSUME NEW q \in Seq(Proc), q # << >>, NEW n, QueueOK(q, n), NEW ret
    PROVE  QueueOK([q EXCEPT ![1].a0 = ret, ![1].pc = @ + 1], n)
<1> DEFINE r == [q[1] EXCEPT !.a0 = ret, !.pc = @ + 1]
<1>1. [q EXCEPT ![1].a0 = ret, ![1].pc = @ + 1] = [q EXCEPT ![1] = r]
  OBVIOUS
<1>2. r.app = q[1].app /\ r.satp = q[1].satp /\ r.space = q[1].space
  <2>1. q[1] \in Proc
    OBVIOUS
  <2>2. [q[1] EXCEPT !.a0 = ret].app = q[1].app
        /\ [q[1] EXCEPT !.a0 = ret].satp = q[1].satp
        /\ [q[1] EXCEPT !.a0 = ret].space = q[1].space
    BY <2>1 DEF Proc
  <2>. QED
    BY <2>2
<1>3. DOMAIN [q EXCEPT ![1] = r] = DOMAIN q
      /\ \A i \in DOMAIN q : [q EXCEPT ![1] = r][i] = IF i = 1 THEN r ELSE q[i]
  OBVIOUS
<1>. QED
  BY <1>1, <1>2, <1>3 DEF QueueOK

(* Moving the loop's index forward keeps the queue invariant.            *)
LEMMA QueueOKMonotone ==
    ASSUME NEW q \in Seq(Proc), NEW n \in Nat, QueueOK(q, n)
    PROVE  QueueOK(q, n + 1)
<1>1. \A i \in DOMAIN q : q[i].app \in Nat
  <2>1. DOMAIN q = 1..Len(q)
    BY LenProperties
  <2>2. \A i \in DOMAIN q : q[i] \in Proc
    BY <2>1, ElementOfSeq
  <2>. QED
    BY <2>2 DEF Proc
<1>2. \A i \in DOMAIN q : q[i].app < n
  BY DEF QueueOK
<1>3. \A i \in DOMAIN q : q[i].app < n + 1
  BY <1>1, <1>2
<1>. QED
  BY <1>3 DEF QueueOK

(* The process Process::new builds for app i carries Token(i) and the     *)
(* kernel's portal mapping.                                                *)
LEMMA NewProcessPortal ==
    ASSUME NEW i
    PROVE  /\ NewProcess(i).app = i
           /\ NewProcess(i).satp = Token(i)
           /\ \A p \in PortalSlot : NewProcess(i).space[p] = KernelSpace[p]
<1>1. PortalSlot \subseteq Pages
  BY PagesAssumption
<1>. QED
  BY <1>1 DEF NewProcess

-----------------------------------------------------------------------------
(* The initial state satisfies PInv.                                      *)
LEMMA InitPInv == Init => PInv
BY InitIInv DEF Init, PInv, QueueOK, SatpOK

(* A step that retires the head, in the trap phase, keeps QueueOK and    *)
(* SatpOK.                                                                 *)
LEMMA RetirePInv ==
    ASSUME PInv, phase = "trap", procs # << >>, Retire, UNCHANGED <<next, satp>>
    PROVE  QueueOK(procs', next') /\ SatpOK'
<1>1. procs \in Seq(Proc)
  BY DEF PInv, IInv, TypeOK
<1>2. QueueOK(Tail(procs), next)
  BY <1>1, TailQueueOK DEF PInv
<1>. QED
  BY <1>2 DEF Retire, PInv, SatpOK

(* A step that resumes the head, in the trap phase, keeps QueueOK and    *)
(* SatpOK.                                                                 *)
LEMMA ResumePInv ==
    ASSUME PInv, phase = "trap", procs # << >>, NEW ret, Resume(ret),
           UNCHANGED <<next, satp>>
    PROVE  QueueOK(procs', next') /\ SatpOK'
<1>1. procs \in Seq(Proc)
  BY DEF PInv, IInv, TypeOK
<1>2. QueueOK([procs EXCEPT ![1].a0 = ret, ![1].pc = @ + 1], next)
  BY <1>1, ResumeQueueOK DEF PInv
<1>. QED
  BY <1>2 DEF Resume, PInv, SatpOK

(* Every step of Next preserves PInv.                                     *)
LEMMA NextPInv == PInv /\ [Next]_vars => PInv'
<1> SUFFICES ASSUME PInv, [Next]_vars PROVE PInv'
  OBVIOUS
<1>0. IInv' /\ TypeOK
  BY NextIInv DEF PInv, IInv
<1>a. procs \in Seq(Proc) /\ next \in Nat
  BY <1>0 DEF TypeOK
<1>b. phase = "trap" => procs # << >>
  BY DEF PInv, IInv, HeadPresent
<1>c. phase = "trap" => satp = KernelToken
  BY DEF PInv, SatpOK
<1> SUFFICES QueueOK(procs', next') /\ SatpOK'
  BY <1>0 DEF PInv
<1>1. CASE LoadApp
  <2>1. phase = "load" /\ next' = next + 1 /\ satp' = satp
    BY <1>1 DEF LoadApp
  <2>2. satp = KernelToken
    BY <2>1 DEF PInv, SatpOK
  <2>3. phase' \in {"failure", "load"}
    BY <1>1 DEF LoadApp
  <2>4. procs' = procs \/ procs' = Append(procs, NewProcess(next))
    BY <1>1 DEF LoadApp
  <2>5. QueueOK(procs, next + 1)
    BY <1>a, QueueOKMonotone DEF PInv
  <2>6. QueueOK(Append(procs, NewProcess(next)), next + 1)
    <3>1. next \in 1..NApps
      BY <1>0, <1>1 DEF LoadApp, TypeOK
    <3>2. NewProcess(next) \in Proc
      BY <1>0, <3>1, NewProcessType
    <3>. QED
      BY <1>a, <3>2, NewProcessPortal, AppendQueueOK DEF PInv
  <2>. QED
    BY <2>1, <2>2, <2>3, <2>4, <2>5, <2>6 DEF SatpOK
<1>2. CASE StartSchedule
  BY <1>2 DEF StartSchedule, PInv, SatpOK
<1>3. CASE Execute
  BY <1>3 DEF Execute, PInv, SatpOK
<1>4. CASE UserTrap
  BY <1>4 DEF UserTrap, PInv, SatpOK
<1>5. CASE SysExit
  BY <1>5, <1>b, RetirePInv DEF SysExit, Ecall
<1>6. CASE SysUnsupported
  BY <1>6, <1>b, RetirePInv DEF SysUnsupported, Ecall
<1>7. CASE TrapOther
  BY <1>7, <1>b, RetirePInv DEF TrapOther
<1>8. CASE SysWrite
  <2>1. phase = "trap" /\ UNCHANGED <<next, satp>>
    BY <1>8 DEF SysWrite, Ecall
  <2>2. Resume(Len(CurrentInstr.data)) \/ Resume(-1)
    BY <1>8 DEF SysWrite
  <2>. QED
    BY <2>1, <2>2, <1>b, ResumePInv
<1>9. CASE SysYield
  BY <1>9, <1>b, ResumePInv DEF SysYield, Ecall
<1>10. CASE SysClock
  <2>1. phase = "trap" /\ UNCHANGED <<next, satp>>
    BY <1>10 DEF SysClock, Ecall
  <2>2. Resume(0) \/ Resume(-1)
    BY <1>10 DEF SysClock
  <2>. QED
    BY <2>1, <2>2, <1>b, ResumePInv
<1>11. CASE Shutdown
  BY <1>11 DEF Shutdown, PInv, SatpOK
<1>12. CASE Halted
  BY <1>12 DEF Halted, vars, PInv, SatpOK
<1>13. CASE UNCHANGED vars
  BY <1>13 DEF vars, PInv, SatpOK
<1>. QED
  BY <1>1, <1>2, <1>3, <1>4, <1>5, <1>6, <1>7, <1>8, <1>9, <1>10, <1>11,
     <1>12, <1>13 DEF Next

(* The portal never strands the kernel and never mixes address spaces:   *)
(* in every state of every behaviour, each process in PROCESSES has its   *)
(* own root token and the kernel's portal page at portal_idx, no two      *)
(* processes share an app, and satp is the head's token while it runs and *)
(* the kernel's otherwise.                                                 *)
THEOREM PortalCrossingInvariant == Spec => []PortalCrossing
<1>1. PInv => PortalCrossing
  BY DEF PInv, QueueOK, SatpOK, PortalCrossing
<1>. QED
  BY <1>1, InitPInv, NextPInv, PTL DEF Spec

=============================================================================
