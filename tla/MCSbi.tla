-------------------------------- MODULE MCSbi --------------------------------
(***************************************************************************)
(* The firmware on two harts, of which the second is out of bounds, with   *)
(* two messages.                                                           *)
(***************************************************************************)
EXTENDS Sbi

MCSpec == SbiSpec /\ SbiFairness
=============================================================================
