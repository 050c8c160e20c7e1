------------------------------ MODULE MCSdCard ------------------------------
(***************************************************************************)
(* The SD card driver with three sectors, one more than a call moves.      *)
(* What is in a sector is only compared, so the two contents may be        *)
(* exchanged.  No step looks at ret, which says what the last call         *)
(* returned, so states that differ in nothing else are explored once.      *)
(***************************************************************************)
EXTENDS SdCard, TLC

Contents == Permutations(Data)

Driver == st
=============================================================================
