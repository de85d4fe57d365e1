--------------------------- MODULE AppTableProofs ---------------------------
(***************************************************************************)
(* The app table for every number of apps, binary sizes, cases.toml      *)
(* entry, slot size and image address: AppIterator hands every app out   *)
(* where xtask linked it (LinkedWhereLoaded), and, when the slots are    *)
(* clear of the images they are copied from (LayoutClear), the loading    *)
(* loop of main reads each app's own bytes (AppsLoaded).                  *)
(*                                                                         *)
(* The layout facts rest on the step equation of SumBelow; the induction *)
(* over the app index takes a least counterexample (WFMin on the          *)
(* well-founded < of Nat), which needs no operator parameter.             *)
(***************************************************************************)
EXTENDS AppTable, SequenceTheorems, WellFoundedInduction, TLAPS

Cell == {Zero, Junk} \cup (Apps \X Nat)

(* The table and the link addresses are what build_for wrote for one     *)
(* cases.toml entry; no step changes them.                                *)
Built ==
    \E bo \in Opt(Bases), so \in Opt(StepVals) :
        /\ linkedAt = [k \in Apps |-> LinkAddress(bo, so, k)]
        /\ apps = Table(CasesBase(bo), CasesStep(bo, so), bins)

(* next() has been called i times, and every call that returned Some     *)
(* left one slice.                                                        *)
Counted ==
    /\ bins \in [Apps -> Sizes]
    /\ i \in 0..NumApps
    /\ pc \in {"next", "use", "done", "panic"}
    /\ pc \in {"use", "panic"} => i \in 1..NumApps
    /\ slices \in Seq(Int \X Int)
    /\ Len(slices) = IF pc = "panic" THEN i - 1 ELSE i

(* The inductive invariant behind LinkedWhereLoaded.                      *)
LInv == Built /\ Counted /\ LinkedWhereLoaded

(* The bytes a slice <<address, length>> shows.                           *)
SliceBytes(s) == [k \in 0..(s[2] - 1) |-> mem[s[1] + k]]

(* Every image in the kernel image still holds its app.                   *)
ImagesIntact ==
    \A j \in Apps : \A k \in 0..(bins[j] - 1) :
        mem[AppStart(bins, j) + k] = <<j, k>>

(* The inductive invariant behind AppsLoaded: the images are untouched   *)
(* until a panic, and the slice next() just returned holds its app.       *)
DInv ==
    /\ LInv
    /\ mem \in [Addr -> Cell]
    /\ loaded \in Seq({Image(bins, j) : j \in Apps})
    /\ Len(loaded) = IF pc \in {"use", "panic"} THEN i - 1 ELSE i
    /\ AppsLoaded
    /\ pc # "panic" => ImagesIntact
    /\ pc = "use" => SliceBytes(slices[i]) = Image(bins, i - 1)

-----------------------------------------------------------------------------
(* The prefix sum of the sizes is a natural number and never decreases.  *)
LEMMA SumBelowMonotone ==
    ASSUME NEW bn \in [Apps -> Sizes]
    PROVE  \A k \in 0..NumApps :
               /\ SumBelow(bn, k) \in Nat
               /\ \A j \in 0..k : SumBelow(bn, j) <= SumBelow(bn, k)
<1> DEFINE Bad == {k \in 0..NumApps :
                     ~ /\ SumBelow(bn, k) \in Nat
                       /\ \A j \in 0..k : SumBelow(bn, j) <= SumBelow(bn, k)}
<1> USE AppTableAssumption DEF Apps
<1> SUFFICES ASSUME Bad # {} PROVE FALSE
  OBVIOUS
<1>1. Bad \subseteq Nat
  OBVIOUS
<1>2. PICK m \in Bad : \A y \in Bad : ~(<<y, m>> \in OpToRel(<, Nat))
  BY <1>1, NatLessThanWellFounded, WFMin
<1>3. \A y \in Bad : ~(y < m)
  BY <1>1, <1>2 DEF OpToRel
<1>4. m # 0
  BY SumBelowAssumption
<1>5. m \in 1..NumApps /\ bn[m - 1] \in Nat
  <2>1. m \in 1..NumApps
    BY <1>4
  <2>2. bn[m - 1] \in Sizes
    BY <2>1
  <2>3. QED
    BY <2>1, <2>2
<1>6. m - 1 \notin Bad
  BY <1>3, <1>5
<1>7. SumBelow(bn, m - 1) \in Nat
      /\ \A j \in 0..(m - 1) : SumBelow(bn, j) <= SumBelow(bn, m - 1)
  BY <1>5, <1>6
<1>8. SumBelow(bn, m) = SumBelow(bn, m - 1) + bn[m - 1]
  <2>1. m - 1 \in 0..(NumApps - 1) /\ (m - 1) + 1 = m
    BY <1>5
  <2>2. QED
    BY <2>1, SumBelowAssumption
<1>9. SumBelow(bn, m) \in Nat /\ SumBelow(bn, m - 1) <= SumBelow(bn, m)
  BY <1>5, <1>7, <1>8
<1>10. \A j \in 0..m : SumBelow(bn, j) <= SumBelow(bn, m)
  <2> TAKE j \in 0..m
  <2>1. CASE j = m
    BY <1>9, <2>1
  <2>2. CASE j # m
    <3>1. j \in 0..(m - 1) /\ j \notin Bad
      BY <2>2, <1>3, <1>5
    <3>2. SumBelow(bn, j) <= SumBelow(bn, m - 1) /\ SumBelow(bn, j) \in Nat
      BY <3>1, <1>5, <1>7
    <3>3. QED
      BY <3>2, <1>7, <1>9
  <2>3. QED
    BY <2>1, <2>2
<1>11. QED
  BY <1>9, <1>10, <1>2

(* .incbin's layout: the images lie back to back from ImageAt, in table  *)
(* order, each ending where the next begins and none past the last.       *)
LEMMA Layout ==
    ASSUME NEW bn \in [Apps -> Sizes]
    PROVE  /\ \A j \in Apps : AppStart(bn, j) \in Nat /\ ImageAt <= AppStart(bn, j)
           /\ \A j \in Apps : j + 1 \in Apps => AppStart(bn, j + 1) = AppEnd(bn, j)
           /\ \A j, l \in Apps : j < l => AppEnd(bn, j) <= AppStart(bn, l)
           /\ \A j \in Apps : AppEnd(bn, j) <= AppEnd(bn, NumApps - 1)
<1> USE AppTableAssumption DEF Apps
<1>0. \A k \in 0..NumApps :
          /\ SumBelow(bn, k) \in Nat
          /\ \A j \in 0..k : SumBelow(bn, j) <= SumBelow(bn, k)
  BY SumBelowMonotone
<1>9. \A j \in Apps : bn[j] \in Nat \ {0}
  <2> TAKE j \in Apps
  <2>1. bn[j] \in Sizes
    OBVIOUS
  <2>2. QED
    BY <2>1
<1>1. \A j \in Apps : AppStart(bn, j) \in Nat /\ ImageAt <= AppStart(bn, j)
  BY <1>0, SumBelowAssumption DEF AppStart
<1>2. \A j \in Apps : SumBelow(bn, j + 1) = SumBelow(bn, j) + bn[j]
  BY SumBelowAssumption
<1>3. \A j \in Apps : j + 1 \in Apps => AppStart(bn, j + 1) = AppEnd(bn, j)
  <2> TAKE j \in Apps
  <2>1. SumBelow(bn, j) \in Nat /\ bn[j] \in Nat
    BY <1>0, <1>9
  <2>2. QED
    BY <2>1, <1>2 DEF AppStart, AppEnd
<1>4. \A j, l \in Apps : j < l => AppEnd(bn, j) <= AppStart(bn, l)
  <2> SUFFICES ASSUME NEW j \in Apps, NEW l \in Apps, j < l
               PROVE  AppEnd(bn, j) <= AppStart(bn, l)
    OBVIOUS
  <2>1. l \in 0..NumApps /\ j + 1 \in 0..l /\ j \in 0..NumApps
    OBVIOUS
  <2>2. SumBelow(bn, j + 1) <= SumBelow(bn, l)
    BY <2>1, <1>0, <1>9
  <2>3. SumBelow(bn, j) \in Nat /\ bn[j] \in Nat /\ SumBelow(bn, l) \in Nat
    BY <2>1, <1>0, <1>9
  <2>4. QED
    BY <2>2, <2>3, <1>2 DEF AppStart, AppEnd
<1>5. \A j \in Apps : AppEnd(bn, j) <= AppEnd(bn, NumApps - 1)
  <2> TAKE j \in Apps
  <2>1. NumApps - 1 \in Apps /\ (NumApps - 1) + 1 = NumApps
        /\ j + 1 \in 0..NumApps /\ NumApps \in 0..NumApps
    OBVIOUS
  <2>2. SumBelow(bn, j + 1) <= SumBelow(bn, NumApps)
    BY <2>1, <1>0, <1>9
  <2>3. /\ SumBelow(bn, j) \in Nat /\ bn[j] \in Nat
        /\ SumBelow(bn, NumApps - 1) \in Nat /\ bn[NumApps - 1] \in Nat
    BY <2>1, <1>0, <1>9
  <2>4. SumBelow(bn, NumApps) = SumBelow(bn, NumApps - 1) + bn[NumApps - 1]
    BY <2>1, <1>2
  <2>5. QED
    BY <2>2, <2>3, <2>4, <1>2 DEF AppStart, AppEnd
<1>6. QED
  BY <1>1, <1>3, <1>4, <1>5

(* The words of the table, read back by next(): the start label of app  *)
(* j, its size, and its slot, which is where xtask linked it.             *)
LEMMA BuiltWords ==
    ASSUME Built, bins \in [Apps -> Sizes]
    PROVE  /\ apps[2] = NumApps
           /\ \A j \in Apps :
                 /\ Pos(j) = AppStart(bins, j)
                 /\ Size(j) = bins[j]
                 /\ SlotBase(j) = linkedAt[j]
                 /\ linkedAt[j] \in Nat
<1> USE AppTableAssumption DEF Apps
<1>1. PICK bo \in Opt(Bases), so \in Opt(StepVals) :
          /\ linkedAt = [k \in Apps |-> LinkAddress(bo, so, k)]
          /\ apps = Table(CasesBase(bo), CasesStep(bo, so), bins)
  BY DEF Built
<1>2. CasesBase(bo) \in Nat /\ CasesStep(bo, so) \in Nat
  BY DEF Opt, CasesBase, CasesStep, UnwrapOr
<1>3. apps[0] = CasesBase(bo) /\ apps[1] = CasesStep(bo, so) /\ apps[2] = NumApps
  BY <1>1 DEF Table
<1>4. \A j \in Apps : SlotBase(j) = linkedAt[j] /\ linkedAt[j] \in Nat
  <2> TAKE j \in Apps
  <2>1. linkedAt[j] = CasesBase(bo) + j * CasesStep(bo, so)
    BY <1>1 DEF LinkAddress
  <2>2. QED
    BY <2>1, <1>2, <1>3 DEF SlotBase
<1>5. \A j \in Apps : apps[3 + j] = AppStart(bins, j)
  <2> TAKE j \in Apps
  <2>1. 3 + j \in 0..(NumApps + 3) /\ 3 + j \notin {0, 1, 2, NumApps + 3}
    OBVIOUS
  <2>2. QED
    BY <1>1, <2>1 DEF Table
<1>6. \A j \in Apps : apps[4 + j] = AppEnd(bins, j)
  <2> TAKE j \in Apps
  <2>1. CASE j = NumApps - 1
    BY <1>1, <2>1 DEF Table
  <2>2. CASE j # NumApps - 1
    <3>1. j + 1 \in Apps /\ 4 + j = 3 + (j + 1)
      BY <2>2
    <3>2. QED
      BY <3>1, <1>5, Layout
  <2>3. QED
    BY <2>1, <2>2
<1>7. \A j \in Apps : AppStart(bins, j) \in Nat /\ bins[j] \in Nat
  <2> TAKE j \in Apps
  <2>1. bins[j] \in Sizes
    OBVIOUS
  <2>2. QED
    BY <2>1, Layout
<1>8. \A j \in Apps : Pos(j) = AppStart(bins, j) /\ Size(j) = bins[j]
  <2> TAKE j \in Apps
  <2>1. Pos(j) = AppStart(bins, j) /\ apps[4 + j] = AppStart(bins, j) + bins[j]
    BY <1>5, <1>6 DEF Pos, AppEnd
  <2>2. QED
    BY <2>1, <1>7 DEF Size
<1>9. QED
  BY <1>3, <1>4, <1>8

-----------------------------------------------------------------------------
(* Where each slice starts.                                                *)

LEMMA InitLInv == Init => LInv
<1> SUFFICES ASSUME Init PROVE LInv
  OBVIOUS
<1>1. Built
  BY DEF Init, Built
<1>2. Counted
  BY AppTableAssumption DEF Init, Counted, Apps
<1>3. LinkedWhereLoaded
  BY DEF Init, LinkedWhereLoaded
<1>4. QED
  BY <1>1, <1>2, <1>3 DEF LInv

(* A slice appended for app i starts where the invariant says.            *)
LEMMA AppendSlice ==
    ASSUME LInv, pc = "next", i < apps[2], NEW s,
           s[1] = IF linkedAt[i] = 0 THEN AppStart(bins, i) ELSE linkedAt[i]
    PROVE  \A j \in 1..Len(slices) + 1 :
               Append(slices, s)[j][1] =
                   IF linkedAt[j - 1] = 0 THEN AppStart(bins, j - 1)
                                          ELSE linkedAt[j - 1]
<1> USE AppTableAssumption DEF Apps
<1>1. slices \in Seq(Int \X Int) /\ Len(slices) = i /\ i \in Nat
  BY DEF LInv, Counted
<1>2. \A j \in 1..Len(slices) : Append(slices, s)[j] = slices[j]
  BY <1>1, AppendProperties
<1>3. Append(slices, s)[Len(slices) + 1] = s
  BY <1>1, AppendProperties
<1>4. QED
  BY <1>1, <1>2, <1>3 DEF LInv, LinkedWhereLoaded

LEMMA NextLInv == LInv /\ [Next]_vars => LInv'
<1> SUFFICES ASSUME LInv, [Next]_vars PROVE LInv'
  OBVIOUS
<1> USE AppTableAssumption DEF Apps
<1>0. /\ bins \in [Apps -> Sizes]
      /\ apps[2] = NumApps
      /\ \A j \in Apps : /\ Pos(j) = AppStart(bins, j) /\ Size(j) = bins[j]
                         /\ SlotBase(j) = linkedAt[j] /\ linkedAt[j] \in Nat
      /\ \A j \in Apps : AppStart(bins, j) \in Nat /\ bins[j] \in Nat
  <2>1. bins \in [Apps -> Sizes] /\ Built
    BY DEF LInv, Counted
  <2>2. \A j \in Apps : AppStart(bins, j) \in Nat /\ bins[j] \in Nat
    <3> TAKE j \in Apps
    <3>1. bins[j] \in Sizes
      BY <2>1
    <3>2. QED
      BY <2>1, <3>1, Layout
  <2>3. QED
    BY <2>1, <2>2, BuiltWords
<1>1. Built'
  <2>1. UNCHANGED <<bins, linkedAt, apps>>
    BY DEF Next, IterEnd, IterInPlace, IterRelocate, UseApp, vars
  <2>2. QED
    BY <2>1 DEF LInv, Built
<1>2. CASE IterEnd
  BY <1>1, <1>2 DEF IterEnd, LInv, Counted, LinkedWhereLoaded
<1>3. CASE IterInPlace
  <2>1. i \in Apps /\ pc = "next" /\ i < apps[2]
    BY <1>0, <1>3 DEF IterInPlace, LInv, Counted
  <2>2. <<Pos(i), Size(i)>> \in Int \X Int
    BY <2>1, <1>0
  <2>3. <<Pos(i), Size(i)>>[1] =
            IF linkedAt[i] = 0 THEN AppStart(bins, i) ELSE linkedAt[i]
    BY <2>1, <1>0, <1>3 DEF IterInPlace
  <2>4. LinkedWhereLoaded'
    <3>1. \A j \in 1..Len(slices) + 1 :
              slices'[j][1] = IF linkedAt[j - 1] = 0 THEN AppStart(bins, j - 1)
                                                     ELSE linkedAt[j - 1]
      BY <2>1, <2>3, <1>0, <1>3, AppendSlice DEF IterInPlace
    <3>2. Len(slices') = Len(slices) + 1
      BY <2>2, <1>3, AppendProperties DEF IterInPlace, LInv, Counted
    <3>3. QED
      BY <3>1, <3>2, <1>3 DEF IterInPlace, LinkedWhereLoaded
  <2>5. Counted'
    BY <2>1, <2>2, <1>3, AppendProperties DEF IterInPlace, LInv, Counted
  <2>6. QED
    BY <1>1, <2>4, <2>5 DEF LInv
<1>4. CASE IterRelocate
  <2>1. i \in Apps /\ pc = "next" /\ SlotBase(i) # 0 /\ i < apps[2]
    BY <1>0, <1>4 DEF IterRelocate, LInv, Counted
  <2>2. CASE Size(i) <= Slot
    <3>1. slices' = Append(slices, <<SlotBase(i), Size(i)>>) /\ pc' = "use"
      BY <1>4, <2>2 DEF IterRelocate
    <3>2. <<SlotBase(i), Size(i)>> \in Int \X Int
      BY <2>1, <1>0
    <3>3. <<SlotBase(i), Size(i)>>[1] =
              IF linkedAt[i] = 0 THEN AppStart(bins, i) ELSE linkedAt[i]
      BY <2>1, <1>0
    <3>4. LinkedWhereLoaded'
      <4>1. \A j \in 1..Len(slices) + 1 :
                slices'[j][1] = IF linkedAt[j - 1] = 0 THEN AppStart(bins, j - 1)
                                                       ELSE linkedAt[j - 1]
        BY <2>1, <3>1, <3>3, <1>0, AppendSlice
      <4>2. Len(slices') = Len(slices) + 1
        BY <3>1, <3>2, AppendProperties DEF LInv, Counted
      <4>3. QED
        BY <4>1, <4>2, <1>4 DEF IterRelocate, LinkedWhereLoaded
    <3>5. Counted'
      BY <2>1, <3>1, <3>2, <1>4, AppendProperties DEF IterRelocate, LInv, Counted
    <3>6. QED
      BY <1>1, <3>4, <3>5 DEF LInv
  <2>3. CASE ~(Size(i) <= Slot)
    <3>1. UNCHANGED <<slices, linkedAt, bins>> /\ pc' = "panic" /\ i' = i + 1
      BY <1>4, <2>3 DEF IterRelocate
    <3>2. QED
      BY <1>1, <2>1, <3>1 DEF LInv, Counted, LinkedWhereLoaded
  <2>4. QED
    BY <2>2, <2>3
<1>5. CASE UseApp
  BY <1>1, <1>5 DEF UseApp, LInv, Counted, LinkedWhereLoaded
<1>6. CASE UNCHANGED vars
  BY <1>1, <1>6 DEF vars, LInv, Counted, LinkedWhereLoaded
<1>7. QED
  BY <1>2, <1>3, <1>4, <1>5, <1>6 DEF Next

(* AppIterator hands every app out where xtask linked it: at its link    *)
(* address base + i * step when that is not 0, in place in the kernel     *)
(* image otherwise (AppIterator::next against Cases::build).              *)
THEOREM LinkedWhereLoadedInvariant == Spec => []LinkedWhereLoaded
<1>1. LInv => LinkedWhereLoaded
  BY DEF LInv
<1>2. QED
  BY <1>1, InitLInv, NextLInv, PTL DEF Spec

-----------------------------------------------------------------------------
(* What each slice holds, when the slots are clear of the images.        *)

(* LayoutClear for the cases.toml entry build_for used: the images end  *)
(* within memory, and every slot of a relocated app does too and lies    *)
(* wholly below the images or at or above their end.                     *)
LEMMA ClearSlots ==
    ASSUME LayoutClear, Built, bins \in [Apps -> Sizes]
    PROVE  /\ AppEnd(bins, NumApps - 1) <= MemTop + 1
           /\ \A j \in Apps :
                 linkedAt[j] # 0 =>
                    /\ linkedAt[j] + Slot <= MemTop + 1
                    /\ \/ linkedAt[j] + Slot <= ImageAt
                       \/ AppEnd(bins, NumApps - 1) <= linkedAt[j]
<1>1. PICK bo \in Opt(Bases), so \in Opt(StepVals) :
          linkedAt = [k \in Apps |-> LinkAddress(bo, so, k)]
  BY DEF Built
<1>2. QED
  BY <1>1 DEF LayoutClear

(* Byte k of app j lies in the image region, inside memory.               *)
LEMMA ImageByte ==
    ASSUME bins \in [Apps -> Sizes], AppEnd(bins, NumApps - 1) <= MemTop + 1,
           NEW j \in Apps, NEW k \in 0..(bins[j] - 1)
    PROVE  /\ AppStart(bins, j) + k \in Addr
           /\ ImageAt <= AppStart(bins, j) + k
           /\ AppStart(bins, j) + k < AppEnd(bins, NumApps - 1)
           /\ AppStart(bins, j) + k < AppEnd(bins, j)
<1> USE AppTableAssumption DEF Apps
<1>1. bins[j] \in Nat /\ bins[NumApps - 1] \in Nat
  <2>1. bins[j] \in Sizes /\ bins[NumApps - 1] \in Sizes
    OBVIOUS
  <2>2. QED
    BY <2>1
<1>2. /\ AppStart(bins, j) \in Nat /\ ImageAt <= AppStart(bins, j)
      /\ AppStart(bins, NumApps - 1) \in Nat
      /\ AppEnd(bins, j) <= AppEnd(bins, NumApps - 1)
  BY Layout
<1>3. AppStart(bins, j) + k < AppEnd(bins, j)
  BY <1>1, <1>2 DEF AppEnd
<1>4. AppStart(bins, j) + k < AppEnd(bins, NumApps - 1)
  BY <1>1, <1>2, <1>3 DEF AppEnd
<1>5. QED
  BY <1>1, <1>2, <1>3, <1>4 DEF Addr, AppEnd

(* The boot memory holds byte k of app j at its label plus k: the images *)
(* do not overlap, so the CHOOSE of BootMemory finds app j.               *)
LEMMA BootImages ==
    ASSUME bins \in [Apps -> Sizes], AppEnd(bins, NumApps - 1) <= MemTop + 1
    PROVE  /\ BootMemory(bins) \in [Addr -> Cell]
           /\ \A j \in Apps : \A k \in 0..(bins[j] - 1) :
                 BootMemory(bins)[AppStart(bins, j) + k] = <<j, k>>
<1> USE AppTableAssumption DEF Apps
<1> DEFINE In(a, j) == a \in AppStart(bins, j)..(AppEnd(bins, j) - 1)
<1>1. \A j \in Apps : AppStart(bins, j) \in Nat /\ bins[j] \in Nat
  <2> TAKE j \in Apps
  <2>1. bins[j] \in Sizes
    OBVIOUS
  <2>2. QED
    BY <2>1, Layout
<1>2. \A a \in Addr, j, l \in Apps : In(a, j) /\ In(a, l) => j = l
  <2> SUFFICES ASSUME NEW a \in Addr, NEW j \in Apps, NEW l \in Apps,
                      In(a, j), In(a, l), j # l
               PROVE  FALSE
    OBVIOUS
  <2>1. CASE j < l
    <3>1. AppEnd(bins, j) <= AppStart(bins, l)
      BY <2>1, Layout
    <3>2. QED
      BY <3>1, <1>1 DEF AppEnd
  <2>2. CASE l < j
    <3>1. AppEnd(bins, l) <= AppStart(bins, j)
      BY <2>2, Layout
    <3>2. QED
      BY <3>1, <1>1 DEF AppEnd
  <2>3. QED
    BY <2>1, <2>2
<1>3. BootMemory(bins) \in [Addr -> Cell]
  <2> SUFFICES ASSUME NEW a \in Addr, \E j \in Apps : In(a, j)
               PROVE  LET j == CHOOSE l \in Apps : In(a, l)
                      IN  <<j, a - AppStart(bins, j)>> \in Cell
    BY DEF BootMemory, Cell
  <2>1. PICK l \in Apps : In(a, l)
    OBVIOUS
  <2>2. (CHOOSE l2 \in Apps : In(a, l2)) \in Apps
    BY <2>1
  <2>3. In(a, CHOOSE l2 \in Apps : In(a, l2))
    BY <2>1
  <2>4. QED
    BY <2>2, <2>3, <1>1 DEF Cell
<1>4. \A j \in Apps : \A k \in 0..(bins[j] - 1) :
         BootMemory(bins)[AppStart(bins, j) + k] = <<j, k>>
  <2> SUFFICES ASSUME NEW j \in Apps, NEW k \in 0..(bins[j] - 1)
               PROVE  BootMemory(bins)[AppStart(bins, j) + k] = <<j, k>>
    OBVIOUS
  <2> DEFINE a == AppStart(bins, j) + k
  <2>1. a \in Addr /\ In(a, j)
    <3>1. a \in Addr /\ a < AppEnd(bins, j)
      BY ImageByte
    <3>2. AppStart(bins, j) \in Nat /\ bins[j] \in Nat
      BY <1>1
    <3>3. QED
      BY <3>1, <3>2 DEF AppEnd
  <2>2. (CHOOSE l \in Apps : In(a, l)) = j
    BY <2>1, <1>2
  <2>3. BootMemory(bins)[a] =
            <<CHOOSE l \in Apps : In(a, l),
              a - AppStart(bins, CHOOSE l \in Apps : In(a, l))>>
    BY <2>1 DEF BootMemory
  <2>4. a - AppStart(bins, j) = k
    BY <1>1
  <2>5. QED
    BY <2>2, <2>3, <2>4, Zenon
<1>5. QED
  BY <1>3, <1>4

(* copy_nonoverlapping of app j to any address reads only its image, so  *)
(* memory keeps its cells.                                                 *)
LEMMA CopyType ==
    ASSUME NEW m \in [Addr -> Cell], bins \in [Apps -> Sizes],
           AppEnd(bins, NumApps - 1) <= MemTop + 1,
           NEW j \in Apps, NEW b \in Nat
    PROVE  Copy(m, AppStart(bins, j), b, bins[j]) \in [Addr -> Cell]
<1> SUFFICES ASSUME NEW a \in Addr, a \in b..(b + bins[j] - 1)
             PROVE  m[AppStart(bins, j) + a - b] \in Cell
  BY DEF Copy
<1>0. bins[j] \in Nat
  <2>1. bins[j] \in Sizes
    BY DEF Apps
  <2>2. QED
    BY <2>1, AppTableAssumption
<1>1. a - b \in 0..(bins[j] - 1)
  BY <1>0 DEF Addr
<1>2. AppStart(bins, j) + (a - b) \in Addr /\ AppStart(bins, j) \in Nat
  BY <1>1, ImageByte, Layout
<1>3. QED
  BY <1>2, AppTableAssumption DEF Addr

(* next() for app j with a slot b clear of the images and within memory, *)
(* and the app no larger than the slot: the copy and the zero-fill leave *)
(* every image as it was, and the slot shows app j.                       *)
LEMMA RelocateKeeps ==
    ASSUME NEW m \in [Addr -> Cell], bins \in [Apps -> Sizes],
           AppEnd(bins, NumApps - 1) <= MemTop + 1,
           NEW j \in Apps, NEW b \in Nat,
           b + Slot <= MemTop + 1,
           b + Slot <= ImageAt \/ AppEnd(bins, NumApps - 1) <= b,
           bins[j] <= Slot,
           \A l \in Apps : \A k \in 0..(bins[l] - 1) :
               m[AppStart(bins, l) + k] = <<l, k>>
    PROVE  LET m2 == Fill(Copy(m, AppStart(bins, j), b, bins[j]),
                          b + bins[j], b + Slot)
           IN  /\ m2 \in [Addr -> Cell]
               /\ \A l \in Apps : \A k \in 0..(bins[l] - 1) :
                     m2[AppStart(bins, l) + k] = <<l, k>>
               /\ [k \in 0..(bins[j] - 1) |-> m2[b + k]] = Image(bins, j)
<1> USE AppTableAssumption DEF Apps
<1> DEFINE m1 == Copy(m, AppStart(bins, j), b, bins[j])
           m2 == Fill(m1, b + bins[j], b + Slot)
<1>0. /\ bins[j] \in Nat /\ AppStart(bins, j) \in Nat
      /\ AppEnd(bins, NumApps - 1) \in Nat
  <2>1. bins[j] \in Sizes /\ bins[NumApps - 1] \in Sizes
    OBVIOUS
  <2>2. bins[j] \in Nat /\ bins[NumApps - 1] \in Nat
    BY <2>1
  <2>3. AppStart(bins, NumApps - 1) \in Nat /\ AppStart(bins, j) \in Nat
    BY Layout
  <2>4. QED
    BY <2>2, <2>3 DEF AppEnd
<1>1. m1 \in [Addr -> Cell]
  BY CopyType
<1>2. m2 \in [Addr -> Cell]
  BY <1>1 DEF Fill, Cell
<1>3. \A l \in Apps : \A k \in 0..(bins[l] - 1) :
         m2[AppStart(bins, l) + k] = <<l, k>>
  <2> SUFFICES ASSUME NEW l \in Apps, NEW k \in 0..(bins[l] - 1)
               PROVE  m2[AppStart(bins, l) + k] = <<l, k>>
    OBVIOUS
  <2> DEFINE a == AppStart(bins, l) + k
  <2>1. a \in Addr /\ ImageAt <= a /\ a < AppEnd(bins, NumApps - 1)
    BY ImageByte
  <2>2. a \notin b..(b + Slot - 1)
    BY <2>1, <1>0
  <2>3. m2[a] = m[a]
    BY <2>1, <2>2, <1>0 DEF Fill, Copy
  <2>4. QED
    BY <2>3
<1>4. \A k \in 0..(bins[j] - 1) : m2[b + k] = <<j, k>>
  <2> TAKE k \in 0..(bins[j] - 1)
  <2>1. b + k \in Addr /\ b + k \in b..(b + bins[j] - 1)
        /\ b + k \notin (b + bins[j])..(b + Slot - 1)
    BY <1>0 DEF Addr
  <2>2. m2[b + k] = m[AppStart(bins, j) + k]
    BY <2>1, <1>0 DEF Fill, Copy
  <2>3. QED
    BY <2>2
<1>5. QED
  BY <1>2, <1>3, <1>4 DEF Image

LEMMA InitDInv == LayoutClear /\ Init => DInv
<1> SUFFICES ASSUME LayoutClear, Init PROVE DInv
  OBVIOUS
<1>1. LInv /\ Built /\ bins \in [Apps -> Sizes]
  BY InitLInv DEF LInv, Counted
<1>2. AppEnd(bins, NumApps - 1) <= MemTop + 1
  BY <1>1, ClearSlots
<1>3. mem \in [Addr -> Cell] /\ ImagesIntact
  BY <1>1, <1>2, BootImages DEF Init, ImagesIntact
<1>4. QED
  BY <1>1, <1>3 DEF Init, DInv, AppsLoaded

(* The facts about the table and the layout every step below uses.       *)
LEMMA StepFacts ==
    ASSUME LayoutClear, DInv
    PROVE  /\ bins \in [Apps -> Sizes]
           /\ apps[2] = NumApps
           /\ \A j \in Apps : /\ Pos(j) = AppStart(bins, j) /\ Size(j) = bins[j]
                              /\ SlotBase(j) = linkedAt[j] /\ linkedAt[j] \in Nat
           /\ \A j \in Apps : AppStart(bins, j) \in Nat /\ bins[j] \in Nat
           /\ AppEnd(bins, NumApps - 1) <= MemTop + 1
           /\ \A j \in Apps :
                 linkedAt[j] # 0 =>
                    /\ linkedAt[j] + Slot <= MemTop + 1
                    /\ \/ linkedAt[j] + Slot <= ImageAt
                       \/ AppEnd(bins, NumApps - 1) <= linkedAt[j]
<1>1. Built /\ bins \in [Apps -> Sizes]
  BY DEF DInv, LInv, Counted
<1>2. \A j \in Apps : AppStart(bins, j) \in Nat /\ bins[j] \in Nat
  <2> TAKE j \in Apps
  <2>1. bins[j] \in Sizes
    BY <1>1
  <2>2. QED
    BY <1>1, <2>1, Layout, AppTableAssumption
<1>3. QED
  BY <1>1, <1>2, BuiltWords, ClearSlots

LEMMA NextDInv == LayoutClear /\ DInv /\ [Next]_vars => DInv'
<1> SUFFICES ASSUME LayoutClear, DInv, [Next]_vars PROVE DInv'
  OBVIOUS
<1> USE AppTableAssumption DEF Apps
<1>0. /\ bins \in [Apps -> Sizes]
      /\ apps[2] = NumApps
      /\ \A j \in Apps : /\ Pos(j) = AppStart(bins, j) /\ Size(j) = bins[j]
                         /\ SlotBase(j) = linkedAt[j] /\ linkedAt[j] \in Nat
      /\ \A j \in Apps : AppStart(bins, j) \in Nat /\ bins[j] \in Nat
      /\ AppEnd(bins, NumApps - 1) <= MemTop + 1
      /\ \A j \in Apps :
            linkedAt[j] # 0 =>
               /\ linkedAt[j] + Slot <= MemTop + 1
               /\ \/ linkedAt[j] + Slot <= ImageAt
                  \/ AppEnd(bins, NumApps - 1) <= linkedAt[j]
  BY StepFacts
<1>1. LInv'
  BY NextLInv DEF DInv
<1>2. /\ slices \in Seq(Int \X Int) /\ i \in 0..NumApps
      /\ Len(slices) = IF pc = "panic" THEN i - 1 ELSE i
      /\ loaded \in Seq({Image(bins, j) : j \in Apps})
  BY DEF DInv, LInv, Counted
<1>3. CASE IterEnd
  BY <1>1, <1>3 DEF IterEnd, DInv, AppsLoaded, ImagesIntact
<1>4. CASE IterInPlace
  <2>1. i \in Apps /\ pc = "next" /\ SlotBase(i) = 0
    BY <1>0, <1>2, <1>4 DEF IterInPlace
  <2>2. slices'[i + 1] = <<AppStart(bins, i), bins[i]>> /\ i' = i + 1
    BY <2>1, <1>0, <1>2, <1>4, AppendProperties DEF IterInPlace
  <2>3. ImagesIntact /\ UNCHANGED <<mem, loaded, bins>>
    BY <2>1, <1>4 DEF IterInPlace, DInv
  <2>4. (SliceBytes(slices[i]) = Image(bins, i - 1))'
    <3>1. \A k \in 0..(bins[i] - 1) : mem[AppStart(bins, i) + k] = <<i, k>>
      BY <2>1, <2>3 DEF ImagesIntact
    <3>2. [k \in 0..(bins[i] - 1) |-> mem[AppStart(bins, i) + k]] = Image(bins, i)
      BY <3>1 DEF Image
    <3>3. i' - 1 = i /\ slices'[i'] = <<AppStart(bins, i), bins[i]>>
      BY <2>1, <2>2
    <3>4. SliceBytes(slices[i])' =
              [k \in 0..(bins[i] - 1) |-> mem[AppStart(bins, i) + k]]
      BY <3>3, <2>3 DEF SliceBytes
    <3>5. Image(bins, i - 1)' = Image(bins, i)
      BY <3>3, <2>3
    <3>6. QED
      BY <3>2, <3>4, <3>5
  <2>5. /\ Len(loaded) = i /\ mem \in [Addr -> Cell] /\ AppsLoaded
        /\ loaded \in Seq({Image(bins, j) : j \in Apps})
    BY <2>1 DEF DInv
  <2>6. pc' = "use" /\ Len(loaded') = i' - 1
    BY <2>1, <2>2, <2>3, <2>5, <1>4 DEF IterInPlace
  <2>8. AppsLoaded' /\ ImagesIntact'
    BY <2>3, <2>5 DEF AppsLoaded, ImagesIntact
  <2>7. QED
    BY <1>1, <2>3, <2>4, <2>5, <2>6, <2>8 DEF DInv
<1>5. CASE IterRelocate
  <2>1. i \in Apps /\ pc = "next" /\ linkedAt[i] # 0 /\ SlotBase(i) = linkedAt[i]
    BY <1>0, <1>2, <1>5 DEF IterRelocate
  <2>2. UNCHANGED <<loaded, bins>> /\ i' = i + 1
    BY <1>5 DEF IterRelocate
  <2>3. CASE bins[i] <= Slot
    <3> DEFINE b == linkedAt[i]
    <3>1. mem' = Fill(Copy(mem, AppStart(bins, i), b, bins[i]), b + bins[i], b + Slot)
          /\ slices' = Append(slices, <<b, bins[i]>>) /\ pc' = "use"
      BY <2>1, <2>3, <1>0, <1>5 DEF IterRelocate
    <3>2. /\ mem' \in [Addr -> Cell]
          /\ ImagesIntact'
          /\ [k \in 0..(bins[i] - 1) |-> mem'[b + k]] = Image(bins, i)
      <4>1. mem \in [Addr -> Cell] /\ ImagesIntact
        BY <2>1 DEF DInv
      <4>2. /\ b \in Nat /\ b + Slot <= MemTop + 1
            /\ \/ b + Slot <= ImageAt
               \/ AppEnd(bins, NumApps - 1) <= b
        BY <2>1, <1>0
      <4>3. LET m2 == Fill(Copy(mem, AppStart(bins, i), b, bins[i]),
                           b + bins[i], b + Slot)
            IN  /\ m2 \in [Addr -> Cell]
                /\ \A l \in Apps : \A k \in 0..(bins[l] - 1) :
                      m2[AppStart(bins, l) + k] = <<l, k>>
                /\ [k \in 0..(bins[i] - 1) |-> m2[b + k]] = Image(bins, i)
        <5>1. bins \in [Apps -> Sizes] /\ AppEnd(bins, NumApps - 1) <= MemTop + 1
          BY <1>0
        <5>2. \A l \in Apps : \A k \in 0..(bins[l] - 1) :
                 mem[AppStart(bins, l) + k] = <<l, k>>
          BY <4>1 DEF ImagesIntact
        <5>3. i \in Apps /\ bins[i] <= Slot
          BY <2>1, <2>3
        <5>. QED
          BY <4>1, <4>2, <5>1, <5>2, <5>3, RelocateKeeps
      <4>4. QED
        BY <4>3, <3>1, <2>2 DEF ImagesIntact
    <3>3. slices'[i + 1] = <<b, bins[i]>>
      BY <3>1, <2>1, <1>0, <1>2, AppendProperties
    <3>4. (SliceBytes(slices[i]) = Image(bins, i - 1))'
      <4>1. i' - 1 = i /\ slices'[i'] = <<b, bins[i]>>
        BY <2>1, <2>2, <3>3
      <4>2. SliceBytes(slices[i])' = [k \in 0..(bins[i] - 1) |-> mem'[b + k]]
        BY <4>1 DEF SliceBytes
      <4>3. Image(bins, i - 1)' = Image(bins, i)
        BY <4>1, <2>2
      <4>4. QED
        BY <3>2, <4>2, <4>3
    <3>5. /\ Len(loaded) = i /\ AppsLoaded
          /\ loaded \in Seq({Image(bins, j) : j \in Apps})
      BY <2>1 DEF DInv
    <3>6. Len(loaded') = i' - 1 /\ AppsLoaded'
      BY <2>1, <2>2, <3>5 DEF AppsLoaded
    <3>7. QED
      BY <1>1, <2>2, <3>1, <3>2, <3>4, <3>5, <3>6 DEF DInv
  <2>4. CASE ~(bins[i] <= Slot)
    <3>1. mem' = Copy(mem, AppStart(bins, i), SlotBase(i), bins[i]) /\ pc' = "panic"
      BY <2>1, <2>4, <1>0, <1>5 DEF IterRelocate
    <3>2. mem' \in [Addr -> Cell]
      BY <3>1, <2>1, <1>0, CopyType DEF DInv
    <3>3. /\ Len(loaded) = i /\ AppsLoaded
          /\ loaded \in Seq({Image(bins, j) : j \in Apps})
      BY <2>1 DEF DInv
    <3>4. Len(loaded') = i' - 1 /\ AppsLoaded'
      BY <2>1, <2>2, <3>3 DEF AppsLoaded
    <3>5. QED
      BY <1>1, <2>2, <3>1, <3>2, <3>3, <3>4 DEF DInv
  <2>5. QED
    BY <2>3, <2>4
<1>6. CASE UseApp
  <2>1. pc = "use" /\ i \in 1..NumApps /\ Len(slices) = i /\ Len(loaded) = i - 1
    BY <1>2, <1>6 DEF UseApp, DInv, LInv, Counted
  <2>2. loaded' = Append(loaded, Image(bins, i - 1))
    BY <2>1, <1>6 DEF UseApp, DInv, SliceBytes
  <2>3. i - 1 \in Apps /\ Image(bins, i - 1) \in {Image(bins, j) : j \in Apps}
    BY <2>1
  <2>4. /\ loaded' \in Seq({Image(bins, j) : j \in Apps})
        /\ Len(loaded') = i
        /\ \A j \in 1..(i - 1) : loaded'[j] = loaded[j]
        /\ loaded'[i] = Image(bins, i - 1)
    BY <2>1, <2>2, <2>3, <1>2, AppendProperties
  <2>5. AppsLoaded'
    <3>1. AppsLoaded /\ bins' = bins
      BY <1>6 DEF UseApp, DInv
    <3>2. \A j \in 1..i : loaded'[j] = Image(bins, j - 1)
      BY <2>1, <2>4, <3>1 DEF AppsLoaded
    <3>3. QED
      BY <2>4, <3>1, <3>2 DEF AppsLoaded
  <2>6. QED
    BY <1>1, <2>1, <2>4, <2>5, <1>6 DEF UseApp, DInv, ImagesIntact
<1>7. CASE UNCHANGED vars
  BY <1>1, <1>7 DEF vars, DInv, AppsLoaded, ImagesIntact, SliceBytes
<1>8. QED
  BY <1>3, <1>4, <1>5, <1>6, <1>7 DEF Next

(* When cases.toml puts no relocation slot over the images in the kernel *)
(* image, every app the loading loop of main uses is exactly the binary  *)
(* xtask built for that case: AppIterator::next's offsets and sizes      *)
(* select each app's own bytes, and no earlier copy or zero-fill has     *)
(* touched a later app's image.                                           *)
THEOREM AppsLoadedInvariant == LayoutClear => (Spec => []AppsLoaded)
<1> SUFFICES ASSUME LayoutClear PROVE Spec => []AppsLoaded
  OBVIOUS
<1>1. DInv => AppsLoaded
  BY DEF DInv
<1>2. QED
  BY <1>1, InitDInv, NextDInv, PTL DEF Spec

=============================================================================
