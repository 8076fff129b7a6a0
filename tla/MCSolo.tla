------------------------------- MODULE MCSolo -------------------------------
(***************************************************************************)
(* The submissions of MCGate, whose steps nobody interrupts.               *)
(***************************************************************************)
EXTENDS GateSolo, MCGate

MCReadFilters == {None}
=============================================================================
