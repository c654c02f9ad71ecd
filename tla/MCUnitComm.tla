----------------------------- MODULE MCUnitComm -----------------------------
(***************************************************************************)
(* UnitComm for TLC.  The four periods keep the order they have in the     *)
(* code (1 s, 5 s, 4 s, 15 s): one tick stands for the fastest polling     *)
(* period, a pass of the task takes at most a tick, and the time-out is    *)
(* the smallest number the assumption TimeAssumption allows.               *)
(***************************************************************************)
EXTENDS UnitComm

MCPollOn      == 1
MCPollOff     == 2
MCDebugPeriod == 2
MCTimeout     == 4
MCMaxGap      == 1

\* One request and one frame nobody asked for fit on the wire together.
MCMaxLine == 2

\* The section the apps of the repository edit most: one with a counter and
\* a re-read.  In the edits run the panel of the unit edits it too.
MCAppRanges == {"SettingPar"}
=============================================================================
