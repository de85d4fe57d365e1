------------------------------ MODULE RunQueue ------------------------------
(***************************************************************************)
(* What the ch4 kernel promises about its apps, with processes, address   *)
(* spaces, traps and the console left out: rust_main scans the app table  *)
(* once, in table order, admitting some apps to the run queue and         *)
(* skipping others, or stops the machine on a fatal image; `schedule`     *)
(* then removes apps from the front of the queue, one at a time, and      *)
(* shuts down when it is empty.  Kernel implements this specification     *)
(* under the mapping Kernel!RQ.                                            *)
(***************************************************************************)
EXTENDS Integers, Sequences

CONSTANT N    \* number of entries of the app table, a natural number

VARIABLES
    queue,    \* the app ids in the run queue, front first
    retired,  \* the app ids removed from the queue, in order
    seen,     \* how many table entries the scan has looked at
    status    \* "loading", "running", "halted" or "failed"

vars == <<queue, retired, seen, status>>

Init ==
    /\ queue = << >>
    /\ retired = << >>
    /\ seen = 0
    /\ status = "loading"

(* The scan admits entry seen + 1 at the back of the queue.                *)
Admit ==
    /\ status = "loading"
    /\ seen < N
    /\ seen' = seen + 1
    /\ queue' = Append(queue, seen + 1)
    /\ UNCHANGED <<retired, status>>

(* The scan passes over entry seen + 1.                                    *)
Skip ==
    /\ status = "loading"
    /\ seen < N
    /\ seen' = seen + 1
    /\ UNCHANGED <<queue, retired, status>>

(* Entry seen + 1 stops the machine while loading.                         *)
Abort ==
    /\ status = "loading"
    /\ seen < N
    /\ seen' = seen + 1
    /\ status' = "failed"
    /\ UNCHANGED <<queue, retired>>

(* The scan has seen the whole table: scheduling starts.                   *)
Close ==
    /\ status = "loading"
    /\ seen = N
    /\ status' = "running"
    /\ UNCHANGED <<queue, retired, seen>>

(* The front app leaves the queue.                                         *)
Retire ==
    /\ status = "running"
    /\ queue # << >>
    /\ queue' = Tail(queue)
    /\ retired' = Append(retired, Head(queue))
    /\ UNCHANGED <<seen, status>>

(* The queue is empty: the machine shuts down.                             *)
Finish ==
    /\ status = "running"
    /\ queue = << >>
    /\ status' = "halted"
    /\ UNCHANGED <<queue, retired, seen>>

Next == Admit \/ Skip \/ Abort \/ Close \/ Retire \/ Finish

(* The steps every behaviour may take, without any promise of progress.    *)
SafeSpec == Init /\ [][Next]_vars

(* The scan, the start of scheduling, every removal and the shutdown      *)
(* eventually happen once they can.                                        *)
Spec ==
    /\ SafeSpec
    /\ WF_vars(Admit \/ Skip \/ Abort)
    /\ WF_vars(Close)
    /\ WF_vars(Retire)
    /\ WF_vars(Finish)

-----------------------------------------------------------------------------
(* Every variable holds a value of its type.                               *)
TypeOK ==
    /\ queue \in Seq(1..N)
    /\ retired \in Seq(1..N)
    /\ seen \in 0..N
    /\ status \in {"loading", "running", "halted", "failed"}

(* Every app admitted so far, retired ones first, in the order admitted.  *)
History == retired \o queue

(* Apps leave in the order of the table, each at most once, and only     *)
(* entries already scanned are ever queued or retired.                     *)
InOrder ==
    /\ \A i, j \in 1..Len(History) : i < j => History[i] < History[j]
    /\ \A i \in 1..Len(History) : History[i] \in 1..seen


=============================================================================
