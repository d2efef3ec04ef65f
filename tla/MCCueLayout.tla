------------------------------ MODULE MCCueLayout ------------------------------
(***************************************************************************)
(* Instances of CueLayout for TLC: up to three tracks in a file of up to   *)
(* five sectors.                                                           *)
(***************************************************************************)
EXTENDS CueLayout

SheetAddresses == 0..4
SheetPregaps   == 0..2
FileSizes      == {0, 2, 4, 5}
=============================================================================
