--------------------------- MODULE MCDongleUpdate ---------------------------
(***************************************************************************)
(* DongleUpdate for TLC: images of four chunks, so that one follows those  *)
(* the version is compared with.                                           *)
(***************************************************************************)
EXTENDS DongleUpdate

MCSize == 4
=============================================================================
