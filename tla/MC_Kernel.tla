----------------------------- MODULE MC_Kernel -----------------------------
(***************************************************************************)
(* Small instances of Kernel for TLC: two or three app slots, five pages *)
(* (text, data, the user stack, the portal and an unmapped guard page)  *)
(* and a handful of images whose programs between them make every       *)
(* syscall, every error path of WRITE and CLOCK_GETTIME, an unsupported  *)
(* id and a fault happen.                                                  *)
(***************************************************************************)
EXTENDS Kernel

MC_Pages == {"text", "data", "stack", "portal", "guard"}
MC_StackPages == {"stack"}
MC_PortalSlot == {"portal"}

(* Instructions, named after the user_lib calls that make them.          *)
Ins(cause, id, fd, ptr, data, clock) ==
    [cause |-> cause, id |-> id, fd |-> fd, ptr |-> ptr, data |-> data,
     clock |-> clock]
Sys(id) == Ins("UserEnvCall", id, "STDOUT", "data", << >>, "CLOCK_MONOTONIC")
Write(fd, ptr, data) ==
    Ins("UserEnvCall", "WRITE", fd, ptr, data, "CLOCK_MONOTONIC")
Clock(clock, ptr) ==
    Ins("UserEnvCall", "CLOCK_GETTIME", "STDOUT", ptr, << >>, clock)
Fault == Ins("PageFault", "EXIT", "STDOUT", "data", << >>, "CLOCK_MONOTONIC")

(* PT_LOAD segments: text R-X, data RW-; a note header that is skipped.  *)
Seg(pages, flags, aligned) ==
    [load |-> TRUE, pages |-> pages, flags |-> flags, aligned |-> aligned]
Note == [load |-> FALSE, pages |-> {"data"}, flags |-> {"R"}, aligned |-> FALSE]
Layout == << Seg({"text"}, {"X", "R"}, TRUE), Seg({"data"}, {"W", "R"}, TRUE),
             Note >>

Exec(prog) == [elf |-> "exec", segs |-> Layout, prog |-> prog]

(* A line written in two calls, then exit.                                *)
HelloProg == << Write("STDOUT", "data", <<"a">>),
                Write("STDDEBUG", "data", <<"a", NL>>), Sys("EXIT") >>
(* The error paths: unreadable buffer, bad fd, read-only clock buffer,   *)
(* an unsupported clock; then an unsupported syscall id.                  *)
ErrorProg == << Write("STDOUT", "guard", <<NL, "a">>), Write("STDIN", "data", <<"a">>),
                Clock("CLOCK_MONOTONIC", "text"), Clock("CLOCK_REALTIME", "data"),
                Sys("OTHER") >>
(* Yield and a good clock read, then a write of half a line and a fault.  *)
YieldProg == << Sys("SCHED_YIELD"), Clock("CLOCK_MONOTONIC", "stack"),
                Write("STDOUT", "data", <<"a">>), Fault >>
(* A buffer on the portal page, then falling off the end of the program.  *)
PortalProg == << Write("STDOUT", "portal", <<NL>>) >>

MC_Candidates ==
    { Exec(HelloProg), Exec(ErrorProg), Exec(YieldProg), Exec(PortalProg),
      [elf |-> "notexec", segs |-> Layout, prog |-> HelloProg],
      [elf |-> "exec", segs |-> << Seg({"text"}, {"X", "R"}, FALSE) >>,
       prog |-> HelloProg] }

(* The same images and a malformed one.                                   *)
MC_CandidatesMalformed ==
    MC_Candidates \cup {[elf |-> "malformed", segs |-> << >>, prog |-> << >>]}

=============================================================================
