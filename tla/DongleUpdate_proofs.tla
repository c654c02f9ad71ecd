------------------------ MODULE DongleUpdate_proofs ------------------------
(***************************************************************************)
(* Theorems about DongleUpdate, for every value of its constants: what     *)
(* UnitFirmware_proofs shows of the unit's update holds beside the         *)
(* dongle's own, which restarts the program at any moment.                 *)
(***************************************************************************)
EXTENDS DongleUpdate, UnitFirmware_proofs

\* Every step is one of the unit's update, leaves it alone, or restarts it.
LEMMA DongleStep == TypeInv /\ [DongleNext]_allVars => FirmwareStep
<1> SUFFICES ASSUME TypeInv, [DongleNext]_allVars PROVE FirmwareStep
  OBVIOUS
<1> USE DEF Kinds
<1>1. spent \in [Kinds -> Nat]
  BY DEF TypeInv, Shapes
<1>2. CASE UNCHANGED vars
  BY <1>1, <1>2 DEF vars, worldVars, FirmwareStep
<1>3. CASE CheckTask
  <2>1. CASE OtaSucceeds
    BY <1>1, <2>1 DEF OtaSucceeds, FirmwareStep
  <2>2. CASE ~OtaSucceeds
    <3>1. UNCHANGED vars
      BY <1>3, <2>2 DEF CheckTask, WifiIsUp, SkipCheck, Compare, NoAnswer, OtaFails, Closed, Moves
    <3> QED BY <1>2, <3>1
  <2> QED BY <2>1, <2>2
<1>4. CASE Disconnected
  BY <1>4 DEF Disconnected, Create, FirmwareStep
<1>5. CASE PowerCycle
  BY <1>5, SpentType DEF PowerCycle, Restart, FirmwareStep
<1>6. CASE Offer
  BY <1>6, SpentType DEF Offer, FirmwareStep
<1>7. CASE UnitUpdate
  BY <1>7 DEF UnitUpdate, OtherCreators, Create, Breaks, FirmwareStep
<1> QED BY <1>2, <1>3, <1>4, <1>5, <1>6, <1>7 DEF DongleNext, allVars

\* Every variable of the unit's update keeps its range, and no chunk is stored
\* behind the end of Buffer_Test (main.c 205-229).
THEOREM DongleTypeCorrect == DongleSpec => []TypeOK
<1>1. DongleInit => TypeInv
  BY TypeInit DEF DongleInit
<1>2. TypeInv /\ [DongleNext]_allVars => TypeInv'
  BY TypeStep, DongleStep
<1> QED BY <1>1, <1>2, TypeInvImplies, PTL DEF DongleSpec

\* The board gets the file and nothing else, also when checks of the dongle's
\* own version create updates meanwhile (unit_comm.c 663-712, main.c 359-424).
THEOREM DongleSendsTheFile == DongleSpec => []SentIsFile
<1>1. DongleInit => SendInv
  BY SendInit DEF DongleInit
<1>2. SendInv /\ [DongleNext]_allVars => SendInv'
  BY SendStep, DongleStep DEF SendInv
<1> QED BY <1>1, <1>2, SendImplies, PTL DEF DongleSpec

\* A transfer under way has a next step, also when checks of the dongle's own
\* version create updates meanwhile (unit_comm.c 663-712).
THEOREM DongleTransferNeverStuck == DongleSpec => []TransferGoesOn
<1>1. DongleInit => GoesOnInv
  BY GoesOnInit DEF DongleInit
<1>2. GoesOnInv /\ [DongleNext]_allVars => GoesOnInv'
  BY GoesOnInvStep, DongleStep DEF GoesOnInv, SendInv
<1>3. GoesOnInv => TransferGoesOn
  BY DEF GoesOnInv
<1> QED BY <1>1, <1>2, <1>3, PTL DEF DongleSpec

\* Also beside the dongle's own update the flags fail in one way only: two
\* tests of them overlap (main.c 161, 375, 432; unit_comm.c 602-604).
THEOREM DongleOnlyOverlapsClash == DongleSpec => []ApartUnlessOverlap
<1>1. DongleInit => OverlapInv
  BY OverlapInit DEF DongleInit
<1>2. OverlapInv /\ [DongleNext]_allVars => OverlapInv'
  BY OverlapStep, DongleStep DEF OverlapInv, SendInv
<1> QED BY <1>1, <1>2, OverlapImplies, PTL DEF DongleSpec

-----------------------------------------------------------------------------
(* The file, over any number of updates of each boot                        *)

LEMMA StoreAlways == DongleSpec => []StoreInv
<1>1. DongleInit => StoreInv
  BY StoreInit DEF DongleInit
<1>2. StoreInv /\ [DongleNext]_allVars => StoreInv'
  BY StoreStep, DongleStep DEF StoreInv, SendInv
<1> QED BY <1>1, <1>2, PTL DEF DongleSpec

\* The file never mixes two images or holds other bytes, however many updates
\* a boot makes, where they break off and whatever restarts come between,
\* unless it was begun with the count of another download or two tasks have
\* clashed (main.c 186-312).
THEOREM StoresOneImage == DongleSpec => []FileIsOneImage
<1>1. StoreInv => FileIsOneImage
  BY StoreImplies
<1> QED BY <1>1, StoreAlways, PTL

\* A finished download leaves what the server offered, whatever downloads there
\* were before it, with the same exceptions and that of a torn file (main.c
\* 231, 243): the stale count is the only way in which one spoils another.
THEOREM StoresWhatIsServed == DongleSpec => []StoredIsServed
<1>1. StoreInv => StoredIsServed
  BY StoreImplies
<1> QED BY <1>1, StoreAlways, PTL

\* When no update is said to be needed the stored file is what the server
\* offers, with the same exceptions: stale counters may bring the comparison
\* forward, but never make it find two versions equal (main.c 205-240).
THEOREM KeepsWhatIsServed == DongleSpec => []NoUpdateNeeded
<1>1. StoreInv => NoUpdateNeeded
  BY StoreImplies
<1> QED BY <1>1, StoreAlways, PTL
=============================================================================
