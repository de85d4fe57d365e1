-------------------------- MODULE KernelRefinement --------------------------
(***************************************************************************)
(* The kernel implements the run-queue specification under the mapping    *)
(* Kernel!RQ, for every number of apps and every set of images: each step *)
(* of rust_main's loading loop is an Admit, Skip or Abort, entering       *)
(* `schedule` a Close, PROCESSES.remove(0) a Retire, the shutdown a       *)
(* Finish, and every other step leaves the mapped state alone.  With the  *)
(* invariant of RunQueueProofs this gives the kernel's retirement order. *)
(***************************************************************************)
EXTENDS KernelProofs

RQP == INSTANCE RunQueueProofs
         WITH N <- NApps, queue <- AppIds(procs), retired <- retired,
              seen <- next - 1, status <- RunStatus

-----------------------------------------------------------------------------
(* Appending a process appends its app to the ids.                        *)
LEMMA AppIdsAppend ==
    ASSUME NEW q \in Seq(Proc), NEW e \in Proc
    PROVE  AppIds(Append(q, e)) = Append(AppIds(q), e.app)
<1>1. DOMAIN Append(q, e) = 1..(Len(q) + 1)
      /\ \A i \in 1..Len(q) : Append(q, e)[i] = q[i]
      /\ Append(q, e)[Len(q) + 1] = e
  BY AppendProperties
<1>2. DOMAIN q = 1..Len(q) /\ Len(q) \in Nat
  BY LenProperties
<1>. QED
  BY <1>1, <1>2 DEF AppIds

(* Removing the head process removes the head id.                          *)
LEMMA AppIdsTail ==
    ASSUME NEW q \in Seq(Proc), q # << >>
    PROVE  /\ AppIds(q) # << >>
           /\ AppIds(Tail(q)) = Tail(AppIds(q))
           /\ Head(AppIds(q)) = Head(q).app
<1>1. DOMAIN q = 1..Len(q) /\ Len(q) \in Nat \ {0}
  BY LenProperties, EmptySeq
<1>2. Tail(q) \in Seq(Proc) /\ Len(Tail(q)) = Len(q) - 1
      /\ \A i \in 1..(Len(q) - 1) : Tail(q)[i] = q[i + 1]
  BY HeadTailProperties
<1>3. DOMAIN Tail(q) = 1..(Len(q) - 1)
  BY <1>2, LenProperties
<1>4. AppIds(q) = [i \in 1..Len(q) |-> q[i].app]
  BY <1>1 DEF AppIds
<1>5. AppIds(q) # << >>
  BY <1>1, <1>4
<1>. QED
  BY <1>1, <1>2, <1>3, <1>4, <1>5 DEF AppIds

(* Writing a0 and advancing pc of the head keeps every app id.            *)
LEMMA AppIdsResume ==
    ASSUME NEW q \in Seq(Proc), q # << >>, NEW ret
    PROVE  AppIds([q EXCEPT ![1].a0 = ret, ![1].pc = @ + 1]) = AppIds(q)
<1>1. q[1] \in Proc
  BY EmptySeq, LenProperties
<1>2. [q[1] EXCEPT !.a0 = ret, !.pc = @ + 1].app = q[1].app
  BY <1>1 DEF Proc
<1>. QED
  BY <1>2 DEF AppIds

-----------------------------------------------------------------------------
(* The initial state maps to the run queue's initial state.               *)
LEMMA InitRefines == Init => RQ!Init
BY DEF Init, RQ!Init, AppIds, RunStatus

(* A step that removes the head of a non-empty PROCESSES in a trap maps   *)
(* to Retire.                                                              *)
LEMMA RetireRefines ==
    ASSUME TypeOK, phase = "trap", procs # << >>, Retire, UNCHANGED next
    PROVE  RQ!Retire
<1>1. AppIds(procs) # << >>
      /\ AppIds(procs') = Tail(AppIds(procs))
      /\ Head(AppIds(procs)) = Head(procs).app
  BY AppIdsTail DEF TypeOK, Retire
<1>2. RunStatus = "running" /\ RunStatus' = "running"
  BY DEF Retire, RunStatus
<1>. QED
  BY <1>1, <1>2 DEF Retire, RQ!Retire

(* A step that leaves the app ids, the history, the loop index and the    *)
(* phase group alone is a stutter of the run queue.                       *)
LEMMA StutterRefines ==
    ASSUME AppIds(procs') = AppIds(procs), UNCHANGED <<retired, next>>,
           RunStatus' = RunStatus
    PROVE  UNCHANGED RQ!vars
BY DEF RQ!vars

(* Every step of the kernel maps to a step of the run queue or to a       *)
(* stutter.                                                                *)
LEMMA NextRefines == IInv /\ [Next]_vars => [RQ!Next]_RQ!vars
<1> SUFFICES ASSUME IInv, [Next]_vars PROVE [RQ!Next]_RQ!vars
  OBVIOUS
<1>0. TypeOK /\ HeadPresent
  BY DEF IInv
<1>1. CASE LoadApp
  <2>1. next \in 1..NApps /\ next' = next + 1 /\ phase = "load"
    BY <1>0, <1>1 DEF LoadApp, TypeOK
  <2>2. next - 1 < NApps /\ next' - 1 = (next - 1) + 1 /\ RunStatus = "loading"
    BY <2>1, NAppsAssumption DEF RunStatus
  <2>3. UNCHANGED retired
    BY <1>1 DEF LoadApp
  <2> DEFINE c == apps[next]
  <2>4. CASE c.elf = "malformed" \/ (c.elf = "exec" /\ Misaligned(c))
    <3>1. phase' = "failure" /\ UNCHANGED procs
      BY <1>1, <2>4 DEF LoadApp
    <3>. QED
      BY <2>2, <2>3, <3>1 DEF RQ!Abort, RunStatus, RQ!Next
  <2>5. CASE c.elf = "notexec"
    <3>1. phase' = "load" /\ UNCHANGED procs
      BY <1>1, <2>5 DEF LoadApp
    <3>. QED
      BY <2>2, <2>3, <3>1 DEF RQ!Skip, RunStatus, RQ!Next
  <2>6. CASE c.elf = "exec" /\ ~Misaligned(c)
    <3>1. phase' = "load" /\ procs' = Append(procs, NewProcess(next))
      BY <1>1, <2>6 DEF LoadApp
    <3>2. NewProcess(next) \in Proc /\ NewProcess(next).app = next
      BY <1>0, <2>1, NewProcessType DEF NewProcess
    <3>3. AppIds(procs') = Append(AppIds(procs), next)
      BY <1>0, <3>1, <3>2, AppIdsAppend DEF TypeOK
    <3>4. next = (next - 1) + 1
      BY <2>1
    <3>. QED
      BY <2>2, <2>3, <3>1, <3>3, <3>4 DEF RQ!Admit, RunStatus, RQ!Next
  <2>. QED
    BY <1>1, <2>4, <2>5, <2>6 DEF LoadApp
<1>2. CASE StartSchedule
  <2>1. next - 1 = NApps
    BY <1>0, <1>2, NAppsAssumption DEF StartSchedule, TypeOK
  <2>. QED
    BY <1>2, <2>1 DEF StartSchedule, RQ!Close, RunStatus, RQ!Next
<1>3. CASE Execute \/ UserTrap
  <2>1. phase \in {"sched", "user"} /\ phase' \in {"user", "trap"}
        /\ UNCHANGED <<procs, retired, next>>
    BY <1>3 DEF Execute, UserTrap
  <2>. QED
    BY <2>1, StutterRefines DEF RunStatus
<1>4. ASSUME NEW id, Ecall(id) PROVE procs # << >> /\ phase = "trap"
  BY <1>0, <1>4 DEF Ecall, HeadPresent
<1>5. CASE SysExit \/ SysUnsupported \/ TrapOther
  <2>1. phase = "trap" /\ procs # << >>
    BY <1>0, <1>4, <1>5 DEF SysExit, SysUnsupported, TrapOther, HeadPresent
  <2>2. Retire /\ UNCHANGED next
    BY <1>5 DEF SysExit, SysUnsupported, TrapOther
  <2>. QED
    BY <1>0, <2>1, <2>2, RetireRefines DEF RQ!Next
<1>6. CASE SysWrite \/ SysYield \/ SysClock
  <2>1. procs # << >> /\ phase = "trap"
    BY <1>4, <1>6 DEF SysWrite, SysYield, SysClock
  <2>2. \E ret : Resume(ret)
    BY <1>6 DEF SysWrite, SysYield, SysClock
  <2>3. UNCHANGED <<retired, next>>
    BY <1>6 DEF SysWrite, SysYield, SysClock
  <2>4. AppIds(procs') = AppIds(procs) /\ phase' = "sched"
    BY <1>0, <2>1, <2>2, AppIdsResume DEF Resume, TypeOK
  <2>. QED
    BY <2>1, <2>3, <2>4, StutterRefines DEF RunStatus
<1>7. CASE Shutdown
  <2>1. AppIds(procs) = << >>
    BY <1>7 DEF Shutdown, AppIds
  <2>. QED
    BY <1>7, <2>1 DEF Shutdown, RQ!Finish, RunStatus, RQ!Next
<1>8. CASE Halted \/ UNCHANGED vars
  <2>1. UNCHANGED <<procs, retired, next, phase>>
    BY <1>8 DEF Halted, vars
  <2>2. AppIds(procs') = AppIds(procs) /\ RunStatus' = RunStatus
    BY <2>1 DEF RunStatus
  <2>. QED
    BY <2>1, <2>2, StutterRefines
<1>. QED
  BY <1>1, <1>2, <1>3, <1>5, <1>6, <1>7, <1>8 DEF Next

(* Whatever images the app table holds, the kernel's run queue behaves as *)
(* the run-queue specification allows: apps enter in table order during   *)
(* the loading loop, scheduling starts only after the whole table, only   *)
(* the head of PROCESSES is ever removed, and the machine shuts down only *)
(* with PROCESSES empty.                                                   *)
THEOREM KernelImplementsRunQueue == Spec => RQ!SafeSpec
<1>1. Spec => []IInv
  BY InitIInv, NextIInv, PTL DEF Spec
<1>2. Init => RQ!Init
  BY InitRefines
<1>3. IInv /\ [Next]_vars => [RQ!Next]_RQ!vars
  BY NextRefines
<1>. QED
  BY <1>1, <1>2, <1>3, PTL DEF Spec, RQ!SafeSpec

(* The kernel removes apps from PROCESSES in the order of the app table, *)
(* each at most once, and only apps the loading loop has reached.        *)
THEOREM KernelRetiresInOrder == Spec => []RetiredInTableOrder
<1>1. RQP!SafeSpec => []RQP!InOrder
  BY NAppsAssumption, RQP!InOrderInvariant
<1>2. RQP!SafeSpec <=> RQ!SafeSpec
  BY DEF RQP!SafeSpec, RQ!SafeSpec, RQP!Init, RQ!Init, RQP!Next, RQ!Next,
         RQP!vars, RQ!vars, RQP!Admit, RQ!Admit, RQP!Skip, RQ!Skip,
         RQP!Abort, RQ!Abort, RQP!Close, RQ!Close, RQP!Retire, RQ!Retire,
         RQP!Finish, RQ!Finish
<1>3. RQP!InOrder <=> RQ!InOrder
  BY DEF RQP!InOrder, RQ!InOrder, RQP!History, RQ!History
<1>. QED
  BY <1>1, <1>2, <1>3, KernelImplementsRunQueue, PTL DEF RetiredInTableOrder
-----------------------------------------------------------------------------
(* The apps the loading loop has admitted: those retired and those still  *)
(* in PROCESSES.                                                           *)
AdmittedApps ==
    {retired[k] : k \in DOMAIN retired} \cup {procs[k].app : k \in DOMAIN procs}

(* AllValidAppsRetired with what a step needs: unless a panic stopped the *)
(* loop, the admitted apps are the valid ones among those it has seen;    *)
(* once `schedule` runs, the loop has seen the whole table; at shutdown    *)
(* PROCESSES is empty.                                                      *)
VInv ==
    /\ IInv
    /\ phase # "failure" =>
          AdmittedApps = {i \in 1..(next - 1) : apps[i].elf = "exec"}
    /\ phase \in {"sched", "user", "trap", "shutdown"} => next = NApps + 1
    /\ phase = "shutdown" => procs = << >>

(* The apps of a queue with a process appended are those of the queue and *)
(* the new one's.                                                          *)
LEMMA AppSetAppend ==
    ASSUME NEW q \in Seq(Proc), NEW e \in Proc
    PROVE  {Append(q, e)[k].app : k \in DOMAIN Append(q, e)}
              = {q[k].app : k \in DOMAIN q} \cup {e.app}
<1>1. DOMAIN Append(q, e) = 1..(Len(q) + 1)
      /\ \A i \in 1..Len(q) : Append(q, e)[i] = q[i]
      /\ Append(q, e)[Len(q) + 1] = e
  BY AppendProperties
<1>2. DOMAIN q = 1..Len(q) /\ Len(q) \in Nat
  BY LenProperties
<1>. QED
  BY <1>1, <1>2

(* The apps of a non-empty queue are its head's and those of its tail.   *)
LEMMA AppSetTail ==
    ASSUME NEW q \in Seq(Proc), q # << >>
    PROVE  {q[k].app : k \in DOMAIN q}
              = {Head(q).app} \cup {Tail(q)[k].app : k \in DOMAIN Tail(q)}
<1>1. DOMAIN q = 1..Len(q) /\ Len(q) \in Nat \ {0}
  BY LenProperties, EmptySeq
<1>2. Tail(q) \in Seq(Proc) /\ Len(Tail(q)) = Len(q) - 1
      /\ \A i \in 1..(Len(q) - 1) : Tail(q)[i] = q[i + 1]
      /\ Head(q) = q[1]
  BY HeadTailProperties
<1>3. DOMAIN Tail(q) = 1..(Len(q) - 1)
  BY <1>2, LenProperties
<1>4. ASSUME NEW k \in DOMAIN q
      PROVE  q[k].app \in {Head(q).app} \cup {Tail(q)[j].app : j \in DOMAIN Tail(q)}
  <2>1. CASE k = 1
    BY <1>2, <2>1
  <2>2. CASE k # 1
    <3>1. k - 1 \in DOMAIN Tail(q) /\ Tail(q)[k - 1] = q[k]
      BY <1>1, <1>2, <1>3, <2>2
    <3>. QED
      BY <3>1
  <2>. QED
    BY <2>1, <2>2
<1>5. ASSUME NEW j \in DOMAIN Tail(q)
      PROVE  Tail(q)[j].app \in {q[k].app : k \in DOMAIN q}
  <2>1. j + 1 \in DOMAIN q /\ Tail(q)[j] = q[j + 1]
    BY <1>1, <1>2, <1>3
  <2>. QED
    BY <2>1
<1>6. Head(q).app \in {q[k].app : k \in DOMAIN q}
  BY <1>1, <1>2
<1>. QED
  BY <1>4, <1>5, <1>6

(* The elements of a sequence with e appended are its own and e.          *)
LEMMA ElemsAppend ==
    ASSUME NEW S, NEW r \in Seq(S), NEW e \in S
    PROVE  {Append(r, e)[k] : k \in DOMAIN Append(r, e)}
              = {r[k] : k \in DOMAIN r} \cup {e}
<1>1. DOMAIN Append(r, e) = 1..(Len(r) + 1)
      /\ \A i \in 1..Len(r) : Append(r, e)[i] = r[i]
      /\ Append(r, e)[Len(r) + 1] = e
  BY AppendProperties
<1>2. DOMAIN r = 1..Len(r) /\ Len(r) \in Nat
  BY LenProperties
<1>. QED
  BY <1>1, <1>2

(* Retiring the head moves its app from PROCESSES to retired and leaves   *)
(* the admitted apps as they were.                                        *)
LEMMA RetireAdmitted ==
    ASSUME TypeOK, procs # << >>, Retire
    PROVE  AdmittedApps' = AdmittedApps
<1>1. Head(procs) \in Proc /\ Tail(procs) \in Seq(Proc)
  BY HeadTailProperties DEF TypeOK
<1>2. {retired'[k] : k \in DOMAIN retired'}
        = {retired[k] : k \in DOMAIN retired} \cup {Head(procs).app}
  <2>1. retired \in Seq(1..NApps) /\ Head(procs).app \in 1..NApps
    BY <1>1 DEF TypeOK, Proc
  <2>2. retired' = Append(retired, Head(procs).app)
    BY DEF Retire
  <2>. QED
    BY <2>1, <2>2, ElemsAppend
<1>3. {procs[k].app : k \in DOMAIN procs}
        = {Head(procs).app} \cup {procs'[k].app : k \in DOMAIN procs'}
  BY AppSetTail DEF TypeOK, Retire
<1>. QED
  BY <1>2, <1>3 DEF AdmittedApps

(* Writing the head's saved registers leaves the admitted apps alone.     *)
LEMMA ResumeAdmitted ==
    ASSUME TypeOK, procs # << >>, NEW ret, Resume(ret), UNCHANGED retired
    PROVE  AdmittedApps' = AdmittedApps
<1>1. AppIds(procs') = AppIds(procs)
  BY AppIdsResume DEF TypeOK, Resume
<1>2. {procs'[k].app : k \in DOMAIN procs'} = {procs[k].app : k \in DOMAIN procs}
  BY <1>1 DEF AppIds
<1>. QED
  BY <1>2 DEF AdmittedApps

(* The initial state satisfies VInv: nothing is admitted and nothing seen.*)
LEMMA InitVInv == Init => VInv
<1> SUFFICES ASSUME Init PROVE VInv
  OBVIOUS
<1>1. IInv
  BY InitIInv
<1>2. AdmittedApps = {} /\ {i \in 1..(next - 1) : apps[i].elf = "exec"} = {}
  BY DEF Init, AdmittedApps
<1>. QED
  BY <1>1, <1>2 DEF Init, VInv

(* Every step keeps VInv.                                                   *)
LEMMA NextVInv == VInv /\ [Next]_vars => VInv'
<1> SUFFICES ASSUME VInv, [Next]_vars PROVE VInv'
  OBVIOUS
<1>0. /\ IInv /\ IInv' /\ TypeOK /\ HeadPresent
      /\ (phase # "failure" =>
            AdmittedApps = {i \in 1..(next - 1) : apps[i].elf = "exec"})
      /\ (phase \in {"sched", "user", "trap", "shutdown"} => next = NApps + 1)
      /\ (phase = "shutdown" => procs = << >>)
  BY NextIInv DEF VInv, IInv
<1> DEFINE Seen(n) == {i \in 1..(n - 1) : apps[i].elf = "exec"}
<1>1. CASE LoadApp
  <2>1. next \in 1..NApps /\ next' = next + 1 /\ phase = "load" /\ UNCHANGED apps
        /\ UNCHANGED retired /\ phase' \in {"load", "failure"}
    BY <1>0, <1>1 DEF LoadApp, TypeOK
  <2>2. AdmittedApps = Seen(next)
    BY <1>0, <2>1
  <2> DEFINE c == apps[next]
  <2>3. CASE c.elf = "notexec" /\ UNCHANGED <<procs, phase>>
    <3>1. Seen(next + 1) = Seen(next)
      BY <2>1, <2>3
    <3>. QED
      BY <1>0, <2>1, <2>2, <2>3, <3>1 DEF VInv, AdmittedApps
  <2>4. CASE c.elf = "exec" /\ procs' = Append(procs, NewProcess(next))
             /\ UNCHANGED phase
    <3>1. NewProcess(next) \in Proc /\ NewProcess(next).app = next
      BY <1>0, <2>1, NewProcessType DEF NewProcess
    <3>2. {procs'[k].app : k \in DOMAIN procs'}
            = {procs[k].app : k \in DOMAIN procs} \cup {next}
      <4>1. procs \in Seq(Proc)
        BY <1>0 DEF TypeOK
      <4>. QED
        BY <2>4, <3>1, <4>1, AppSetAppend
    <3>5. AdmittedApps' = AdmittedApps \cup {next}
      BY <2>1, <3>2 DEF AdmittedApps
    <3>3. Seen(next + 1) = Seen(next) \cup {next}
      BY <2>1, <2>4
    <3>. QED
      BY <1>0, <2>1, <2>2, <2>4, <3>5, <3>3 DEF VInv
  <2>5. CASE phase' = "failure"
    BY <1>0, <2>5 DEF VInv
  <2>. QED
    BY <1>1, <2>3, <2>4, <2>5 DEF LoadApp
<1>2. CASE StartSchedule
  <2>1. next = NApps + 1 /\ phase = "load" /\ phase' = "sched"
        /\ UNCHANGED <<apps, next, procs, retired>>
    BY <1>0, <1>2, NAppsAssumption DEF StartSchedule, TypeOK
  <2>2. AdmittedApps' = AdmittedApps
    BY <2>1 DEF AdmittedApps
  <2>. QED
    BY <1>0, <2>1, <2>2 DEF VInv
<1>3. CASE Execute \/ UserTrap
  <2>1. phase \in {"sched", "user"} /\ phase' \in {"user", "trap"}
        /\ UNCHANGED <<apps, procs, retired, next>>
    BY <1>3 DEF Execute, UserTrap
  <2>. QED
    BY <1>0, <2>1 DEF VInv, AdmittedApps
<1>4. CASE SysExit \/ SysUnsupported \/ TrapOther
  <2>1. phase = "trap" /\ procs # << >> /\ Retire /\ UNCHANGED <<apps, next>>
    BY <1>0, <1>4 DEF SysExit, SysUnsupported, TrapOther, Ecall, HeadPresent
  <2>2. AdmittedApps' = AdmittedApps
    BY <1>0, <2>1, RetireAdmitted
  <2>. QED
    BY <1>0, <2>1, <2>2 DEF VInv, Retire
<1>5. CASE SysWrite \/ SysYield \/ SysClock
  <2>1. phase = "trap" /\ procs # << >> /\ UNCHANGED <<apps, next, retired>>
        /\ phase' = "sched"
    BY <1>0, <1>5 DEF SysWrite, SysYield, SysClock, Ecall, HeadPresent, Resume
  <2>2. PICK ret : Resume(ret)
    BY <1>5 DEF SysWrite, SysYield, SysClock
  <2>3. AdmittedApps' = AdmittedApps
    BY <1>0, <2>1, <2>2, ResumeAdmitted
  <2>. QED
    BY <1>0, <2>1, <2>3 DEF VInv
<1>6. CASE Shutdown
  BY <1>0, <1>6 DEF Shutdown, VInv, AdmittedApps
<1>7. CASE Halted \/ UNCHANGED vars
  <2>1. UNCHANGED <<apps, next, procs, phase, retired>>
    BY <1>7 DEF Halted, vars
  <2>. QED
    BY <1>0, <2>1 DEF VInv, AdmittedApps
<1>. QED
  BY <1>1, <1>2, <1>3, <1>4, <1>5, <1>6, <1>7 DEF Next

(* At shutdown VInv and the table order of the retired apps give          *)
(* AllValidAppsRetired.                                                    *)
LEMMA VInvRetired == VInv /\ RetiredInTableOrder => AllValidAppsRetired
<1> SUFFICES ASSUME VInv, RetiredInTableOrder, phase = "shutdown"
             PROVE  AllValidAppsRetired
  BY DEF AllValidAppsRetired
<1>1. procs = << >> /\ next = NApps + 1 /\ retired \in Seq(1..NApps)
  BY DEF VInv, IInv, TypeOK
<1>2. {retired[k] : k \in DOMAIN retired} = ValidApps
  <2>1. AdmittedApps = {i \in 1..(next - 1) : apps[i].elf = "exec"}
    BY DEF VInv
  <2>2. AdmittedApps = {retired[k] : k \in DOMAIN retired}
    BY <1>1 DEF AdmittedApps
  <2>3. {i \in 1..(next - 1) : apps[i].elf = "exec"} = ValidApps
    BY <1>1, NAppsAssumption DEF ValidApps
  <2>. QED
    BY <2>1, <2>2, <2>3
<1>3. AppIds(procs) = << >> /\ retired \o AppIds(procs) = retired
  BY <1>1, ConcatEmptySeq DEF AppIds
<1>4. DOMAIN retired = 1..Len(retired)
  BY <1>1, LenProperties
<1>5. \A k, l \in DOMAIN retired : k < l => retired[k] < retired[l]
  BY <1>3, <1>4 DEF RetiredInTableOrder, RQ!InOrder, RQ!History
<1>. QED
  BY <1>2, <1>5 DEF AllValidAppsRetired

(* When the kernel shuts down normally, it has loaded, run and removed    *)
(* every app whose image is a valid executable, no other app, and in the *)
(* order of the app table, for every app table.                           *)
THEOREM AllValidAppsRetiredInvariant == Spec => []AllValidAppsRetired
<1>1. Spec => []VInv
  BY InitVInv, NextVInv, PTL DEF Spec
<1>. QED
  BY <1>1, KernelRetiresInOrder, VInvRetired, PTL

=============================================================================
