--------------------------- MODULE FirmwareProofs ---------------------------
(* Proofs about Firmware, for every length of press that resets the device. *)
EXTENDS Firmware, TLAPS

IndInv == TypeOK /\ IInv

\* The initial states satisfy it.
LEMMA InitIndInv == Init => IndInv
<1> SUFFICES ASSUME Init PROVE IndInv
  OBVIOUS
<1>1. /\ lamp \in [Blinkers -> [Colours -> BOOLEAN]]
      /\ \A b \in Blinkers, c \in Colours : ~lamp[b][c]
  BY DEF Init, Dark
<1>2. /\ blinkPc \in [Blinkers -> Colours \cup {"none", "test"}]
      /\ \A b \in Blinkers : blinkPc[b] = "none"
      /\ "siemens" \in Blinkers
      /\ status \in [Blinkers -> BOOLEAN]
      /\ leftLit \in [Blinkers -> SUBSET Colours]
  BY DEF Init, Blinkers
<1>3. ~Blinking /\ mainPc = "script"
  BY DEF Init, Alive, Blinking
<1>4. /\ count = 1 /\ held = 0 /\ 0 \in 0 .. HoldCount /\ 1 \in 0 .. HoldCount
      /\ 1 < HoldCount
  BY HoldAssumption DEF Init
<1>5. TypeOK
  BY <1>1, <1>2, <1>3, <1>4 DEF Init, TypeOK
<1>6. IInv
  BY <1>1, <1>3, <1>4 DEF Init, IInv, RunOrFault, NoLampForgotten
<1>7. QED
  BY <1>5, <1>6 DEF IndInv

\* The end of a process keeps the lamps as they are and accounts for them.
LEMMA EndsKeeps ==
    ASSUME IndInv, NEW how \in {"exit", "abort"}, Ends(how), UNCHANGED lamp
    PROVE  /\ mainPc' = "waiting" /\ ended' = how
           /\ blinkPc' \in [Blinkers -> Colours \cup {"none", "test"}]
           /\ \A b \in Blinkers : blinkPc'[b] = "none"
           /\ status' \in [Blinkers -> BOOLEAN]
           /\ leftLit' \in [Blinkers -> SUBSET Colours]
           /\ NoLampForgotten'
<1>1. lamp \in [Blinkers -> [Colours -> BOOLEAN]]
  BY DEF IndInv, TypeOK
<1>2. QED
  BY <1>1 DEF Ends, NoLampForgotten

\* Each step of main preserves it.
LEMMA MainIndInv == IndInv /\ (Main \/ Killed) => IndInv'
<1> SUFFICES ASSUME IndInv, Main \/ Killed PROVE IndInv'
  OBVIOUS
<1> USE DEF device, pins, blinkVars, buttonVars
<1>0. "siemens" \in Blinkers
  BY DEF Blinkers
<1>1. CASE ServiceRestarts \/ StartFirmware \/ CheckLicence \/ FaultRunLow
           \/ RunFaultLow \/ RunHigh \/ StartModbus
  <2>1. /\ UNCHANGED <<device, lamp, blinkVars, buttonVars, leftLit>>
        /\ Blinking' <=> Blinking
        /\ Alive' \/ mainPc' \in {"script", "waiting"}
        /\ ended' \in {"no", "exit", "abort"}
    BY <1>1
       DEF IndInv, TypeOK, Alive, Blinking, ServiceRestarts, StartFirmware,
           CheckLicence, FaultRunLow, RunFaultLow, RunHigh, StartModbus
  <2>2. /\ runLed' \in BOOLEAN /\ faultLed' \in BOOLEAN
        /\ mainPc' = "fault" => ~runLed'
        /\ mainPc' = "runLed" => ~faultLed'
        /\ ~(runLed' /\ faultLed')
    <3>1. /\ runLed \in BOOLEAN /\ faultLed \in BOOLEAN
          /\ ~runLed \/ ~faultLed
          /\ mainPc = "fault" => ~runLed
          /\ mainPc = "runLed" => ~faultLed
      BY DEF IndInv, TypeOK, IInv, RunOrFault
    <3>2. CASE ServiceRestarts \/ StartFirmware \/ CheckLicence \/ StartModbus
      BY <3>1, <3>2 DEF ServiceRestarts, StartFirmware, CheckLicence, StartModbus
    <3>3. CASE FaultRunLow
      BY <3>1, <3>3 DEF FaultRunLow
    <3>4. CASE RunFaultLow
      BY <3>1, <3>4 DEF RunFaultLow
    <3>5. CASE RunHigh
      BY <3>1, <3>5 DEF RunHigh
    <3>6. QED
      BY <1>1, <3>2, <3>3, <3>4, <3>5
  <2>3. TypeOK'
    BY <2>1, <2>2 DEF IndInv, TypeOK
  <2>4. NoLampForgotten'
    BY <2>1 DEF IndInv, IInv, NoLampForgotten
  <2>5. UNCHANGED <<restartPc, count, held>>
    BY <2>1
  <2>6. IInv'
    BY <2>2, <2>4, <2>5 DEF IndInv, IInv, RunOrFault
  <2>7. QED
    BY <2>3, <2>6 DEF IndInv
<1>2. CASE GetInstances
  <2>1. /\ blinkPc' \in [Blinkers -> Colours \cup {"none", "test"}]
        /\ \A b \in Blinkers : blinkPc'[b] # "none"
        /\ Blinking' /\ Alive' /\ mainPc' = "licence"
    BY <1>2 DEF GetInstances, Alive, Blinking
  <2>2. \A b \in Blinkers : blinkPc[b] = "none"
    BY <1>2 DEF GetInstances, IndInv, TypeOK, Blinking, Alive, IInv
  <2>3. NoLampForgotten'
    BY <1>2, <2>2 DEF GetInstances, IndInv, IInv, NoLampForgotten, Colours
  <2>4. TypeOK'
    BY <1>2, <2>1 DEF GetInstances, IndInv, TypeOK
  <2>5. QED
    BY <1>2, <2>1, <2>3, <2>4 DEF GetInstances, IndInv, IInv, RunOrFault
<1>3. ASSUME NEW how \in {"exit", "abort"}, Ends(how),
             UNCHANGED <<device, runLed, lamp, buttonVars>>,
             faultLed' \in BOOLEAN, faultLed' => ~runLed
      PROVE  IndInv'
  BY <1>0, <1>3, EndsKeeps DEF IndInv, TypeOK, IInv, RunOrFault, Alive, Blinking
<1>4. faultLed \in BOOLEAN /\ (faultLed => ~runLed)
  BY DEF IndInv, TypeOK, IInv, RunOrFault
<1>5. CASE FaultHigh
  <2>1. faultLed' = TRUE /\ ~runLed
    BY <1>5 DEF FaultHigh, IndInv, IInv
  <2>2. QED
    BY <1>3, <1>5, <2>1 DEF FaultHigh
<1>6. CASE StartSiemens
  <2>1. CASE mainPc' = "settle"
    BY <1>6, <2>1 DEF StartSiemens, Ends, IndInv, TypeOK, IInv, RunOrFault,
       NoLampForgotten, Alive, Blinking
  <2>2. CASE mainPc' # "settle"
    BY <1>3, <1>4, <1>6, <2>2 DEF StartSiemens
  <2>3. QED
    BY <2>1, <2>2
<1>7. CASE Killed
  BY <1>3, <1>4, <1>7 DEF Killed
<1>8. QED
  BY <1>1, <1>2, <1>5, <1>6, <1>7 DEF Main

\* So does each step of a blink thread.
LEMMA BlinkIndInv == IndInv /\ (Blink \/ StatusChanges) => IndInv'
<1> SUFFICES ASSUME IndInv, Blink \/ StatusChanges PROVE IndInv'
  OBVIOUS
<1> USE DEF device, pins, blinkVars, buttonVars
<1>1. /\ lamp \in [Blinkers -> [Colours -> BOOLEAN]]
      /\ blinkPc \in [Blinkers -> Colours \cup {"none", "test"}]
      /\ status \in [Blinkers -> BOOLEAN]
      /\ leftLit \in [Blinkers -> SUBSET Colours]
  BY DEF IndInv, TypeOK
<1>2. ASSUME NEW b \in Blinkers, LampOn(b) PROVE IndInv'
  <2>1. Colour(b) \in Colours
    BY DEF Colour, Colours
  <2>2. /\ lamp' \in [Blinkers -> [Colours -> BOOLEAN]]
        /\ blinkPc' \in [Blinkers -> Colours \cup {"none", "test"}]
    BY <1>1, <1>2, <2>1 DEF LampOn
  <2>3. NoLampForgotten'
    BY <1>1, <1>2, <2>1 DEF LampOn, IndInv, IInv, NoLampForgotten, Colours
  <2>4. \A a \in Blinkers : blinkPc'[a] # "none"
    BY <1>1, <1>2, <2>1 DEF LampOn, IndInv, TypeOK, Colours
  <2>5. QED
    BY <1>2, <2>2, <2>3, <2>4
       DEF LampOn, IndInv, TypeOK, IInv, RunOrFault, Alive, Blinking
<1>3. ASSUME NEW b \in Blinkers, LampOff(b) PROVE IndInv'
  <2>1. /\ lamp' \in [Blinkers -> [Colours -> BOOLEAN]]
        /\ blinkPc' \in [Blinkers -> Colours \cup {"none", "test"}]
        /\ leftLit' \in [Blinkers -> SUBSET Colours]
    BY <1>1, <1>3 DEF LampOff
  <2>2. NoLampForgotten'
    BY <1>1, <1>3 DEF LampOff, IndInv, IInv, NoLampForgotten
  <2>3. \A a \in Blinkers : blinkPc'[a] # "none"
    BY <1>1, <1>3 DEF LampOff, IndInv, TypeOK
  <2>4. QED
    BY <1>3, <2>1, <2>2, <2>3
       DEF LampOff, IndInv, TypeOK, IInv, RunOrFault, Alive, Blinking
<1>4. CASE StatusChanges
  BY <1>1, <1>4 DEF StatusChanges, IndInv, TypeOK, IInv, RunOrFault,
     NoLampForgotten, Alive, Blinking
<1>5. QED
  BY <1>2, <1>3, <1>4 DEF Blink

\* And each step of the reset script, of the owner, and of nobody.
LEMMA OtherIndInv ==
    IndInv /\ (RestartScript \/ OwnerEdits \/ ButtonMoves \/ UNCHANGED vars)
      => IndInv'
<1> SUFFICES ASSUME IndInv,
                    RestartScript \/ OwnerEdits \/ ButtonMoves \/ UNCHANGED vars
             PROVE  IndInv'
  OBVIOUS
<1> USE DEF device, pins, blinkVars, buttonVars
<1>1. CASE Sample
  <2>1. /\ count' \in 0 .. HoldCount /\ held' \in 0 .. HoldCount
        /\ restartPc' \in {"sample", "reset"}
        /\ restartPc' = "sample" => count' < HoldCount /\ count' <= held' + 1
                                    /\ held' <= count'
        /\ restartPc' # "sample" => held' >= HoldCount - 1
    BY <1>1, HoldAssumption DEF Sample, IndInv, TypeOK, IInv
  <2>2. QED
    BY <1>1, <2>1 DEF Sample, IndInv, TypeOK, IInv, RunOrFault, NoLampForgotten,
       Alive, Blinking
<1>2. CASE WriteFactoryFiles \/ OwnerEdits \/ ButtonMoves \/ UNCHANGED vars
  <2>1. /\ UNCHANGED <<licensed, pins, mainPc, blinkVars, count, held, leftLit,
                       ended>>
        /\ config' \in Configs /\ button' \in BOOLEAN /\ factoryFiles' \in BOOLEAN
        /\ \/ restartPc' = restartPc
           \/ restartPc # "sample" /\ restartPc' = "reboot"
    BY <1>2 DEF WriteFactoryFiles, OwnerEdits, ButtonMoves, vars, IndInv, TypeOK
  <2>2. TypeOK'
    BY <2>1 DEF IndInv, TypeOK, Alive, Blinking
  <2>3. IInv'
    BY <2>1 DEF IndInv, IInv, RunOrFault, NoLampForgotten
  <2>4. QED
    BY <2>2, <2>3 DEF IndInv
<1>3. CASE Reboot
  <2>1. /\ lamp' \in [Blinkers -> [Colours -> BOOLEAN]]
        /\ \A b \in Blinkers, c \in Colours : ~lamp'[b][c]
    BY <1>3 DEF Reboot, Dark
  <2>2. /\ blinkPc' \in [Blinkers -> Colours \cup {"none", "test"}]
        /\ \A b \in Blinkers : blinkPc'[b] = "none"
        /\ "siemens" \in Blinkers
        /\ status' \in [Blinkers -> BOOLEAN]
        /\ leftLit' \in [Blinkers -> SUBSET Colours]
    BY <1>3 DEF Reboot, Blinkers
  <2>3. ~Blinking' /\ mainPc' = "script"
    BY <1>3 DEF Reboot, Alive, Blinking
  <2>4. /\ count' = 1 /\ held' = 0 /\ 0 \in 0 .. HoldCount
        /\ 1 \in 0 .. HoldCount /\ 1 < HoldCount
    BY <1>3, HoldAssumption DEF Reboot
  <2>5. TypeOK'
    BY <1>3, <2>1, <2>2, <2>3, <2>4 DEF Reboot, IndInv, TypeOK
  <2>6. IInv'
    BY <1>3, <2>1, <2>3, <2>4 DEF Reboot, IInv, RunOrFault, NoLampForgotten
  <2>7. QED
    BY <2>5, <2>6 DEF IndInv
<1>4. QED
  BY <1>1, <1>2, <1>3 DEF RestartScript

LEMMA Inductive == Spec => []IndInv
<1>1. IndInv /\ [Next]_vars => IndInv'
  BY MainIndInv, BlinkIndInv, OtherIndInv DEF Next
<1>2. QED
  BY InitIndInv, <1>1, PTL DEF Spec

\* Every variable keeps its type: in particular the blink threads run exactly
\* while the process is past building its objects.
THEOREM TypeCorrect == Spec => []TypeOK
<1>1. IndInv => TypeOK
  BY DEF IndInv
<1>2. QED
  BY <1>1, Inductive, PTL

\* Wherever the process dies and however often it is started again, the run and
\* the fault lamp never contradict each other.
THEOREM LampsAgree == Spec => []RunOrFault
<1>1. IndInv => RunOrFault
  BY DEF IndInv, IInv
<1>2. QED
  BY <1>1, Inductive, PTL

\* Only the end of a process leaves a status lamp on that no thread will switch
\* off.
THEOREM LampsAreSwitchedOff == Spec => []NoLampForgotten
<1>1. IndInv => NoLampForgotten
  BY DEF IndInv, IInv
<1>2. QED
  BY <1>1, Inductive, PTL

\* Whatever the number of samples, short presses never reset the device.
THEOREM PressesDoNotAddUp == Spec => []ResetWasHeld
<1>1. IndInv => ResetWasHeld
  BY DEF IndInv, IInv, ResetWasHeld
<1>2. QED
  BY <1>1, Inductive, PTL

=============================================================================
