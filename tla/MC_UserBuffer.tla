---------------------------- MODULE MC_UserBuffer ----------------------------
(***************************************************************************)
(* UserBuffer for TLC: two virtual pages of 2 bytes over three frames, so *)
(* that a 2-byte buffer or TimeSpec may start at the last byte of a page *)
(* whose next page maps to any frame or to none.                           *)
(***************************************************************************)
EXTENDS UserBuffer

MC_VPages == {0, 1}
MC_Frames == {0, 1, 2}
MC_Counts == {1, 2}

=============================================================================
