---------------------------- MODULE LinkLifecycle ----------------------------
(***************************************************************************)
(* What the link to the unit promises the rest of the program: the dongle  *)
(* looks for a board, at the fast rate and then at the slow one; once one  *)
(* has answered it reads the sections of the EEPROM, one after the other,  *)
(* and only then is the link up and its data ready.  It stays up, whatever *)
(* the board does, unless the clock wraps at the wrong moment.  UnitComm   *)
(* implements it.                                                          *)
(***************************************************************************)
EXTENDS Naturals

CONSTANTS
  MaxTries,    \* polls sent at a rate before the other one is tried
  Steps        \* answers read between the first one and the link being up

VARIABLES
  phase,       \* "off", "searching", "reading", "up", "failed", "bootloader"
  rate,        \* "fast", then "slow"
  tries,       \* polls sent in this round of the search
  got,         \* answers read
  ready,       \* is the data promised to the app?
  blind        \* has the clock wrapped between a stamp and its test?

vars == <<phase, rate, tries, got, ready, blind>>

Init == /\ phase = "off" /\ rate = "fast" /\ tries = 0 /\ got = 0
        /\ ready = FALSE /\ blind = FALSE

Start ==
  /\ phase = "off" /\ phase' = "searching"
  /\ UNCHANGED <<rate, tries, got, ready, blind>>

Ask ==
  /\ phase = "searching" /\ tries < MaxTries /\ tries' = tries + 1
  /\ UNCHANGED <<phase, rate, got, ready, blind>>

\* Nobody answers: a new round, at the slow rate from now on.
SlowDown ==
  /\ phase = "searching" /\ tries = MaxTries
  /\ tries' = 0 /\ rate' = "slow"
  /\ UNCHANGED <<phase, got, ready, blind>>

\* A board answers, or the bootloader of one; only after it was asked.
Found ==
  /\ phase = "searching" /\ tries > 0
  /\ phase' \in {"reading", "bootloader"}
  /\ UNCHANGED <<rate, tries, got, ready, blind>>

Read ==
  /\ phase = "reading" /\ got < Steps /\ got' = got + 1
  /\ UNCHANGED <<phase, rate, tries, ready, blind>>

ComesUp ==
  /\ phase = "reading" /\ got = Steps
  /\ phase' = "up" /\ ready' = TRUE
  /\ UNCHANGED <<rate, tries, got, blind>>

GiveUp ==
  /\ phase = "reading" /\ got < Steps
  /\ phase' = "failed" /\ tries' = 0
  /\ UNCHANGED <<rate, got, ready, blind>>

ClockSlips ==
  /\ ~blind /\ blind' = TRUE
  /\ UNCHANGED <<phase, rate, tries, got, ready>>

\* The data is withdrawn later than the link.
Lose ==
  /\ phase = "up" /\ blind
  /\ phase' = "failed" /\ tries' = 0
  /\ UNCHANGED <<rate, got, ready, blind>>

Withdraw ==
  /\ phase = "failed" /\ ready /\ ready' = FALSE
  /\ UNCHANGED <<phase, rate, tries, got, blind>>

Next == \/ Start \/ Ask \/ SlowDown \/ Found \/ Read \/ ComesUp \/ GiveUp
        \/ ClockSlips \/ Lose \/ Withdraw

\* The search never rests, and the reading ends.
Live ==
  /\ (phase = "off") ~> (phase # "off")
  /\ \A n \in 0 .. MaxTries :
       (phase = "searching" /\ tries = n) ~> (phase # "searching" \/ tries # n)
  /\ \A n \in 0 .. Steps :
       (phase = "reading" /\ got = n) ~> (phase # "reading" \/ got # n)

Safe == Init /\ [][Next]_vars
Spec == Safe /\ Live
=============================================================================
