------------------------------ MODULE MCUartRx ------------------------------
(***************************************************************************)
(* UartRx for TLC: data frames of four bytes, which cannot be told from    *)
(* shorter ones by their beginning, texts of two, a cache of seven.        *)
(***************************************************************************)
EXTENDS UartRx

MCFrameSize == [data |-> 4, ACK |-> 2]
=============================================================================
