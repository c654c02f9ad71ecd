--------------------------- MODULE MCUnitFirmware ---------------------------
(***************************************************************************)
(* UnitFirmware for TLC: images of four chunks, so that one follows those  *)
(* the version is compared with, and two versions to change between.       *)
(***************************************************************************)
EXTENDS UnitFirmware

MCSize     == 4
MCTwo      == {"http", "mqtt"}
=============================================================================
