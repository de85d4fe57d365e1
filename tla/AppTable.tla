------------------------------ MODULE AppTable ------------------------------
(***************************************************************************)
(* The embedded-app table: xtask's build_for (src/xtask/src/user.rs)       *)
(* writes `apps:` -- base, step, count, the start label of every app and  *)
(* the end label of the last -- followed by the app images back to back; *)
(* at boot the kernel walks it with AppIterator (src/linker/src/app.rs),   *)
(* which copies app i to base + i * step and zero-fills the rest of a      *)
(* 0x20_0000-byte slot when base is not 0, and hands out the bytes, and    *)
(* the loading loop of main (src/ch4/src/main.rs) uses each app before it  *)
(* asks for the next.                                                      *)
(*                                                                         *)
(* Memory is a function from addresses to cells: byte k of app i is       *)
(* <<i, k>>, a zeroed byte Zero and whatever RAM held at boot Junk.  The   *)
(* cases.toml entry (base, step, the sizes of the binaries) is a choice   *)
(* of the initial state.                                                   *)
(***************************************************************************)
EXTENDS Integers, Sequences

CONSTANTS
    NumApps,     \* number of cases of the chapter
    Sizes,       \* sizes a built binary may have
    Bases,       \* values cases.toml may give to base
    StepVals,    \* values cases.toml may give to step
    Slot,        \* the 0x20_0000 bytes AppIterator zero-fills per app
    ImageAt,     \* address of app_0_start in the kernel image
    MemTop,      \* highest address modelled
    SumBelow(_, _) \* SumBelow(bins, i): total size of apps 0 .. i - 1

ASSUME AppTableAssumption ==
    /\ NumApps \in Nat \ {0}
    /\ Sizes \subseteq Nat \ {0}
    /\ Bases \subseteq Nat
    /\ StepVals \subseteq Nat
    /\ Slot \in Nat \ {0}
    /\ ImageAt \in Nat
    /\ MemTop \in Nat

(* .incbin lays the images back to back, so app i starts at ImageAt plus *)
(* the sizes of the apps before it: SumBelow is that prefix sum, given by *)
(* its step equation (MC_AppTable gives it SumFunctionOnSet).             *)
ASSUME SumBelowAssumption ==
    \A bn \in [0..(NumApps - 1) -> Sizes] :
        /\ SumBelow(bn, 0) = 0
        /\ \A k \in 0..(NumApps - 1) :
              SumBelow(bn, k + 1) = SumBelow(bn, k) + bn[k]

Zero == <<-1, 0>>
Junk == <<-1, 1>>
Apps == 0..(NumApps - 1)
Addr == 0..MemTop

(* An Option<u64> of cases.toml: {} is None and {v} is Some(v).           *)
Opt(S) == {{}} \cup {{v} : v \in S}
UnwrapOr(o, d) == IF o = {} THEN d ELSE CHOOSE v \in o : TRUE

-----------------------------------------------------------------------------
(* The build (host side).                                                  *)

(* Cases::build: base defaults to 0, and step counts only when base is    *)
(* given.                                                                  *)
CasesBase(bo) == UnwrapOr(bo, 0)
CasesStep(bo, so) == IF bo # {} THEN UnwrapOr(so, 0) ELSE 0

(* build_one's base_address for case i: a flat binary linked there when  *)
(* it is not 0, an ELF otherwise.                                          *)
LinkAddress(bo, so, i) == CasesBase(bo) + i * CasesStep(bo, so)

(* The assembler lays app_i_start .. app_i_end back to back from ImageAt. *)
AppStart(bins, i) == ImageAt + SumBelow(bins, i)
AppEnd(bins, i) == AppStart(bins, i) + bins[i]

(* Variant of the table that lists every app's end label.                *)
TableEndLabels(base, step, bins) ==
    [k \in 0..(NumApps + 3) |->
        CASE k = 0 -> base
          [] k = 1 -> step
          [] k = 2 -> NumApps
          [] OTHER -> AppEnd(bins, IF k = NumApps + 3 THEN k - 4 ELSE k - 3)]

(* The words build_for writes at `apps:`: base, step, count, every start  *)
(* label and the end label of the last app.                                *)
Table(base, step, bins) ==
    [k \in 0..(NumApps + 3) |->
        CASE k = 0 -> base
          [] k = 1 -> step
          [] k = 2 -> NumApps
          [] k = NumApps + 3 -> AppEnd(bins, NumApps - 1)
          [] OTHER -> AppStart(bins, k - 3)]

(* The image of app i, and the boot memory: every image at its labels.    *)
Image(bins, i) == [k \in 0..(bins[i] - 1) |-> <<i, k>>]
BootMemory(bins) ==
    [a \in Addr |->
        IF \E i \in Apps : a \in AppStart(bins, i)..(AppEnd(bins, i) - 1)
        THEN LET i == CHOOSE j \in Apps :
                          a \in AppStart(bins, j)..(AppEnd(bins, j) - 1)
             IN  <<i, a - AppStart(bins, i)>>
        ELSE Junk]

(* What cases.toml and the kernel image must give AppIterator, which     *)
(* checks none of it: the modelled memory holds every image and every     *)
(* relocation slot, and no slot base + i * step .. + 0x20_0000 overlaps   *)
(* the images in the kernel image that next() copies from.                *)
LayoutClear ==
    \A bn \in [Apps -> Sizes], bo \in Opt(Bases), so \in Opt(StepVals) :
        /\ AppEnd(bn, NumApps - 1) <= MemTop + 1
        /\ \A j \in Apps :
              LET b == LinkAddress(bo, so, j)
              IN  b # 0 => /\ b + Slot <= MemTop + 1
                           /\ \/ b + Slot <= ImageAt
                              \/ AppEnd(bn, NumApps - 1) <= b

-----------------------------------------------------------------------------
VARIABLES
    bins,     \* the size of every built binary
    linkedAt, \* the address every binary was linked for (0: an ELF)
    apps,     \* the AppMeta words at `apps:`
    mem,      \* physical memory
    i,        \* AppIterator::i
    slices,   \* the <<address, length>> of every slice next() returned
    loaded,   \* the bytes the loading loop found in every slice it used
    pc        \* "next", "use", "done" (next() returned None) or "panic"

vars == <<bins, linkedAt, apps, mem, i, slices, loaded, pc>>

Init ==
    /\ bins \in [Apps -> Sizes]
    /\ \E bo \in Opt(Bases), so \in Opt(StepVals) :
           /\ linkedAt = [k \in Apps |-> LinkAddress(bo, so, k)]
           /\ apps = Table(CasesBase(bo), CasesStep(bo, so), bins)
    /\ mem = BootMemory(bins)
    /\ i = 0
    /\ slices = <<>>
    /\ loaded = <<>>
    /\ pc = "next"

(* Variant of the slot address that strides by the fill size.           *)
SlotBaseBySlot(j) == apps[0] + j * Slot

(* The two words next() reads for app j: its offset and the next one.     *)
Pos(j) == apps[3 + j]
Size(j) == apps[4 + j] - Pos(j)
SlotBase(j) == apps[0] + j * apps[1]

(* copy_nonoverlapping(src, dst, n) and fill(0) over [from, to).          *)
Copy(m, src, dst, n) ==
    [a \in Addr |-> IF a \in dst..(dst + n - 1) THEN m[src + a - dst] ELSE m[a]]
Fill(m, from, to) ==
    [a \in Addr |-> IF a \in from..(to - 1) THEN Zero ELSE m[a]]

(* Variant of IterEnd that stops only past count.                       *)
IterEndPastCount ==
    /\ pc = "next"
    /\ i > apps[2]
    /\ pc' = "done"
    /\ UNCHANGED <<bins, linkedAt, apps, mem, i, slices, loaded>>

(* next() past the last app: None, and the loading loop ends.             *)
IterEnd ==
    /\ pc = "next"
    /\ i >= apps[2]
    /\ pc' = "done"
    /\ UNCHANGED <<bins, linkedAt, apps, mem, i, slices, loaded>>

(* next() with base 0: the app is used where the kernel image holds it.   *)
IterInPlace ==
    /\ pc = "next"
    /\ i < apps[2]
    /\ SlotBase(i) = 0
    /\ i' = i + 1
    /\ slices' = Append(slices, <<Pos(i), Size(i)>>)
    /\ pc' = "use"
    /\ UNCHANGED <<bins, linkedAt, apps, mem, loaded>>

(* next() with base not 0: copy the app to its slot, then zero the slot  *)
(* past it; an app larger than the slot makes [size..] panic after the   *)
(* copy.                                                                   *)
IterRelocate ==
    /\ pc = "next"
    /\ i < apps[2]
    /\ SlotBase(i) # 0
    /\ i' = i + 1
    /\ LET b == SlotBase(i)
           copied == Copy(mem, Pos(i), b, Size(i))
       IN  IF Size(i) <= Slot
           THEN /\ mem' = Fill(copied, b + Size(i), b + Slot)
                /\ slices' = Append(slices, <<b, Size(i)>>)
                /\ pc' = "use"
           ELSE /\ mem' = copied
                /\ pc' = "panic"
                /\ UNCHANGED slices
    /\ UNCHANGED <<bins, linkedAt, apps, loaded>>

(* The body of main's loading loop: Process::new reads the app's bytes.   *)
UseApp ==
    /\ pc = "use"
    /\ LET s == slices[Len(slices)]
       IN  loaded' = Append(loaded, [k \in 0..(s[2] - 1) |-> mem[s[1] + k]])
    /\ pc' = "next"
    /\ UNCHANGED <<bins, linkedAt, apps, mem, i, slices>>

Next == IterEnd \/ IterInPlace \/ IterRelocate \/ UseApp

Spec == Init /\ [][Next]_vars /\ WF_vars(Next)

-----------------------------------------------------------------------------
(* Every variable holds a value of its type.                               *)
TypeOK ==
    /\ bins \in [Apps -> Sizes]
    /\ linkedAt \in [Apps -> Nat]
    /\ mem \in [Addr -> {Zero, Junk} \cup (Apps \X Nat)]
    /\ i \in 0..NumApps
    /\ pc \in {"next", "use", "done", "panic"}
    /\ Len(loaded) <= Len(slices)

(* Every app the loading loop uses is exactly the binary xtask built for  *)
(* that case: the table's offsets give each app its own bytes, and no     *)
(* copy or zero-fill of an earlier app has touched a later app's image.   *)
AppsLoaded ==
    \A j \in 1..Len(loaded) : loaded[j] = Image(bins, j - 1)

(* next() returns &'static [u8]: every slice it has handed out still     *)
(* holds its app, whatever later calls copied or zeroed.                   *)
SlicesStatic ==
    \A j \in 1..Len(slices) :
        [k \in 0..(slices[j][2] - 1) |-> mem[slices[j][1] + k]]
            = Image(bins, j - 1)

(* xtask and AppIterator agree on where each app runs: a binary linked   *)
(* for address a is used at a, and an ELF (linked for 0) is used in place *)
(* in the kernel image, where the ELF loader expects it.                   *)
LinkedWhereLoaded ==
    \A j \in 1..Len(slices) :
        slices[j][1] = IF linkedAt[j - 1] = 0 THEN AppStart(bins, j - 1)
                                             ELSE linkedAt[j - 1]

(* The loading loop ends: every app is used, unless one overflows its     *)
(* slot.                                                                   *)
LoadingEnds ==
    <>(\/ pc = "done" /\ Len(loaded) = NumApps
       \/ pc = "panic")

=============================================================================
