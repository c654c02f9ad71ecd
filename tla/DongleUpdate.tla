---------------------------- MODULE DongleUpdate ----------------------------
(***************************************************************************)
(* The dongle's own update beside that of the unit: ota_boot_task and      *)
(* check_update_task of main.c.  The check runs once a boot, its HTTP      *)
(* events create the unit's update, and when it has installed an image it  *)
(* restarts the program, whatever UnitFirmware's tasks are doing.          *)
(*                                                                         *)
(* External: the server, whose version.json names a version and refers to  *)
(* an image, and esp_https_ota, which installs that image or fails.        *)
(***************************************************************************)
EXTENDS UnitFirmware

CONSTANTS
  Named,     \* does version.json name the CURRENT_VERSION of the image it refers to?
  MaxOffers  \* how often the server changes what it offers the dongle

ASSUME OfferAssumption == Named \in BOOLEAN /\ MaxOffers \in Nat

VARIABLES
  ota,                 \* where the boot's one check is
  behind               \* does version.json name another version than CURRENT_VERSION?

otaVars == <<ota, behind>>
allVars == <<vars, otaVars>>

DongleInit ==
  /\ Init /\ ota = "waiting" /\ behind \in BOOLEAN

Moves(from, to) ==
  ota = from /\ ota' = to /\ UNCHANGED <<vars, behind>>

\* ota_boot_task: Wi-Fi came up within 90 s and the check begins, or it did
\* not and this boot checks nothing.
WifiIsUp  == Moves("waiting", "asking")
SkipCheck == Moves("waiting", "over")

\* Faulty variant: whatever version is offered is installed.
CompareAny == Moves("asking", "updating")

\* The answer: another version is installed, the same one is not.
Compare ==
  Moves("asking", IF behind THEN "updating" ELSE "closing")

\* No answer, or one that cannot be parsed.
NoAnswer == Moves("asking", "closing")

\* esp_https_ota fails ...
OtaFails == Moves("updating", "closing")

\* ... or has installed the image that is served by now: esp_restart().
OtaSucceeds ==
  /\ ota = "updating" /\ ota' = "waiting"
  /\ behind' = ~Named /\ Reboot /\ UNCHANGED spent

\* esp_http_client_cleanup, and the end of the task.
Closed == Moves("closing", "over")

CheckTask == WifiIsUp \/ SkipCheck \/ Compare \/ NoAnswer \/ OtaFails \/ OtaSucceeds \/ Closed

\* The check's connection is closed, when the answer is here or with the
\* client: HTTP_EVENT_DISCONNECTED creates the unit's update.
OtherCreators == Creators \ {"http"}
Disconnected ==
  /\ "http" \in Creators /\ ota \in {"asking", "closing"} /\ Create("http")
  /\ UNCHANGED otaVars

\* A power cycle ends the check as well.
PowerCycle == Restart /\ ota' = "waiting" /\ UNCHANGED behind

\* The server offers the dongle another image or names another version.
Offer ==
  /\ Bounded("offer", MaxOffers) /\ behind' \in BOOLEAN
  /\ UNCHANGED <<fileVars, f, Filesize, handlerVars, taskVars, flagVars, sendVars, server, ota>>

UnitUpdate ==
  /\ \/ \E c \in OtherCreators : Create(c)
     \/ \E c \in Creators : UpdateTask(c) \/ Breaks(c)
     \/ UnitTask \/ BoardAcks \/ AckLost \/ Release
  /\ UNCHANGED otaVars

DongleNext == CheckTask \/ Disconnected \/ PowerCycle \/ Offer \/ UnitUpdate

\* As in UnitFirmware; the check's own task runs on, too.
DongleSpec ==
  /\ DongleInit /\ [][DongleNext]_allVars
  /\ WF_allVars(CheckTask)
  /\ WF_allVars(UnitTask /\ UNCHANGED otaVars)
  /\ WF_allVars(BoardAcks /\ UNCHANGED otaVars)
  /\ \A c \in Creators : WF_allVars(UpdateTask(c) /\ UNCHANGED otaVars)

-----------------------------------------------------------------------------
\* The dongle does not restart for ever: once the server has stopped changing
\* its offer the checks come to an end (main.c 321-424), provided that the
\* version it names is the one compiled into the image it refers to.
ChecksSettle == Named => <>[](ota = "over")
=============================================================================
