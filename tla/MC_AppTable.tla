----------------------------- MODULE MC_AppTable -----------------------------
(***************************************************************************)
(* AppTable for TLC with three cases, a slot of 4 bytes for the 0x20_0000 *)
(* of app.rs, binaries of 1, 3 or 5 bytes (5 overflows the slot), base    *)
(* None, Some(0) or Some(1) and step None, Some(3) or Some(4).  The slots *)
(* end below address 15, where the kernel image holds the apps.           *)
(***************************************************************************)
EXTENDS AppTable, Functions

MC_Sizes == {1, 3, 5}
MC_Bases == {0, 1}
MC_StepVals == {3, 4}
MC_SumBelow(bn, k) == SumFunctionOnSet(bn, 0..(k - 1))

(* The instance meets the layout condition under which AppTableProofs     *)
(* proves AppsLoaded: the slots end below the images at 15.               *)
ASSUME MC_LayoutClear == LayoutClear

=============================================================================
