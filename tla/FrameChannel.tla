---------------------------- MODULE FrameChannel ----------------------------
(***************************************************************************)
(* What the serial receiver promises the Unit task: frames come whole or   *)
(* not at all, never before they were sent and never out of order, and not *)
(* more of them than were sent.  A frame may be lost, and one may be taken *)
(* twice in the place of the next.                                         *)
(***************************************************************************)
EXTENDS Naturals, Sequences

VARIABLES
  sent,      \* number of frames the board has sent
  got        \* the frames taken, by the number under which they were sent

Init == sent = 0 /\ got = <<>>

Send == sent' = sent + 1 /\ UNCHANGED got

\* Frame i is taken: the last one again, or a later one.
Take(i) ==
  /\ Len(got) < sent /\ got' = Append(got, i)
  /\ got # <<>> => got[Len(got)] <= i
  /\ UNCHANGED sent

Next == Send \/ \E i \in 1 .. sent : Take(i)
Safe == Init /\ [][Next]_<<sent, got>>
=============================================================================
