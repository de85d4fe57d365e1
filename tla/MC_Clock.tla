------------------------------ MODULE MC_Clock ------------------------------
(***************************************************************************)
(* Instances of Clock for TLC with the word widths scaled down to 28 bits *)
(* (64-bit-like) and 16 bits (32-bit-like) so that TLC's integers hold    *)
(* every product; the counter moves by jumps of 1000 or 4093 ticks.       *)
(***************************************************************************)
EXTENDS Clock

MC_Steps == {1000, 4093}

=============================================================================
