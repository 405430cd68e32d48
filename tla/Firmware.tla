------------------------------ MODULE Firmware ------------------------------
(***************************************************************************)
(* The firmware as a process among others: the service that starts it      *)
(* again whenever it ends (S7toModbus.service, StartFirmware.sh), main     *)
(* (main.cpp), the two threads that blink the status lamps (LED.cpp), and  *)
(* the script that watches the reset button (Restart.sh).  The output pins *)
(* keep their level when the process ends, so what an earlier process left *)
(* lit is part of the state.                                               *)
(***************************************************************************)
EXTENDS Naturals

CONSTANTS
    HoldCount   \* samples the script counts up to (Restart.sh: 10)

ASSUME HoldAssumption == HoldCount \in Nat /\ HoldCount > 1

Blinkers == {"modbus", "siemens"}
Colours  == {"green", "red"}
Configs  == {"good", "corrupt", "incomplete"}

VARIABLES
    \* The device.
    licensed,    \* the hash built into this firmware is that of its eth0
    config,      \* Configuration.json, which its owner edits
    button,      \* the level of the reset pin
    \* Output pins.
    runLed, faultLed,
    lamp,        \* lamp[b][c]: the status lamp of colour c of blinker b
    \* systemd, the start script and main, as one line of control.
    mainPc,
    \* The blink threads: where each stands, and the state it shows.
    blinkPc, status,
    \* Restart.sh.
    count, restartPc, factoryFiles,
    \* History: lamps lit when a process ended; consecutive samples of the
    \* pressed button; how the process ended that
    \* the service is about to replace.
    leftLit, held, ended

pins       == <<runLed, faultLed, lamp>>
blinkVars  == <<blinkPc, status>>
buttonVars == <<count, restartPc, factoryFiles, held>>
device     == <<licensed, config, button>>
vars == <<device, pins, mainPc, blinkVars, buttonVars, leftLit, ended>>

\* The process exists: main runs, and exit has not been called.
Alive == mainPc \in {"instances", "licence", "faultRun", "fault", "run",
                     "runLed", "siemens", "settle", "serving"}
\* The LED object has been built, with its two threads.
Blinking == Alive /\ mainPc # "instances"

Dark == [c \in Colours |-> FALSE]

Init ==
    /\ licensed \in BOOLEAN /\ config \in Configs /\ button = FALSE
    /\ runLed = FALSE /\ faultLed = FALSE
    /\ lamp = [b \in Blinkers |-> Dark]
    /\ mainPc = "script"
    /\ blinkPc = [b \in Blinkers |-> "none"]
    /\ status = [b \in Blinkers |-> FALSE]
    /\ count = 1 /\ restartPc = "sample" /\ factoryFiles = FALSE
    /\ leftLit = [b \in Blinkers |-> {}] /\ held = 0 /\ ended = "no"

-----------------------------------------------------------------------------
(* The start of a process and main.                                        *)

\* The process is gone: its threads stop where they are, and the pins stay.
\* Type=simple and Restart=always: after RestartSec the script runs again,
\* whatever the exit code was.
Ends(how) ==
    /\ mainPc' = "waiting"
    /\ ended' = how
    /\ blinkPc' = [b \in Blinkers |-> "none"]
    /\ status' = [b \in Blinkers |-> FALSE]
    /\ leftLit' = [b \in Blinkers |-> {c \in Colours : lamp[b][c]}]

\* Mutation of ServiceRestarts: Restart=on-abort.
ServiceRestartsOnAbort ==
    /\ mainPc = "waiting"
    /\ ended = "abort"
    /\ mainPc' = "script"
    /\ ended' = "no"
    /\ UNCHANGED <<device, pins, blinkVars, buttonVars, leftLit>>

ServiceRestarts ==
    /\ mainPc = "waiting"
    /\ mainPc' = "script"
    /\ ended' = "no"
    /\ UNCHANGED <<device, pins, blinkVars, buttonVars, leftLit>>

\* StartFirmware.sh: ConfigNetwork.sh, sleep 2, then the program.
StartFirmware ==
    /\ mainPc = "script"
    /\ mainPc' = "instances"
    /\ UNCHANGED <<device, pins, blinkVars, buttonVars, leftLit, ended>>

\* main builds the three singletons.  The LED object configures its pins, which
\* leaves their levels alone, and creates the blink threads.
GetInstances ==
    /\ mainPc = "instances"
    /\ mainPc' = "licence"
    /\ blinkPc' = [b \in Blinkers |-> "test"]
    /\ UNCHANGED <<device, pins, status, buttonVars, leftLit, ended>>

\* mac_eth0: the address of eth0 is read and compared; not being able to read
\* it counts as a failure.
CheckLicence ==
    /\ mainPc = "licence"
    /\ \/ licensed /\ mainPc' = "run"
       \/ mainPc' = "faultRun"
    /\ UNCHANGED <<device, pins, blinkVars, buttonVars, leftLit, ended>>

\* TurnOnFaultLED, pin by pin, and exit(2).
FaultRunLow ==
    /\ mainPc = "faultRun"
    /\ runLed' = FALSE
    /\ mainPc' = "fault"
    /\ UNCHANGED <<device, faultLed, lamp, blinkVars, buttonVars, leftLit, ended>>

\* Mutation of FaultHigh: the process exits before the pin is set.
FaultNotShown ==
    /\ mainPc = "fault"
    /\ Ends("exit")
    /\ UNCHANGED <<device, pins, buttonVars>>

FaultHigh ==
    /\ mainPc = "fault"
    /\ faultLed' = TRUE
    /\ Ends("exit")
    /\ UNCHANGED <<device, runLed, lamp, buttonVars>>

\* Mutation of RunFaultLow: the fault lamp of an earlier process is left on.
RunFaultKept ==
    /\ mainPc = "run"
    /\ mainPc' = "runLed"
    /\ UNCHANGED <<device, pins, blinkVars, buttonVars, leftLit, ended>>

\* TurnOnRunLED, pin by pin.
RunFaultLow ==
    /\ mainPc = "run"
    /\ faultLed' = FALSE
    /\ mainPc' = "runLed"
    /\ UNCHANGED <<device, runLed, lamp, blinkVars, buttonVars, leftLit, ended>>

RunHigh ==
    /\ mainPc = "runLed"
    /\ runLed' = TRUE
    /\ mainPc' = "siemens"
    /\ UNCHANGED <<device, faultLed, lamp, blinkVars, buttonVars, leftLit, ended>>

\* StartSiemens.  A text that does not parse, or whose root is no object, makes
\* it return false, and main exits.  A member that is missing or of another type
\* is an assertion of rapidjson: nothing is thrown that its handler could catch.
StartSiemens ==
    /\ mainPc = "siemens"
    /\ \/ config = "good" /\ mainPc' = "settle"
          /\ UNCHANGED <<blinkVars, leftLit, ended>>
       \/ config = "corrupt" /\ Ends("exit")
       \/ config = "incomplete" /\ Ends("abort")
    /\ UNCHANGED <<device, pins, buttonVars>>

\* sleep(2), then the Modbus server's thread; main waits for the threads, none
\* of which ever returns.
StartModbus ==
    /\ mainPc = "settle"
    /\ mainPc' = "serving"
    /\ UNCHANGED <<device, pins, blinkVars, buttonVars, leftLit, ended>>

\* The process dies of a signal, at any point.
Killed ==
    /\ Alive
    /\ Ends("abort")
    /\ UNCHANGED <<device, pins, buttonVars>>

Main ==
    \/ ServiceRestarts \/ StartFirmware \/ GetInstances \/ CheckLicence
    \/ FaultRunLow \/ FaultHigh \/ RunFaultLow \/ RunHigh \/ StartSiemens
    \/ StartModbus

-----------------------------------------------------------------------------
(* The blink threads.                                                      *)

Colour(b) == IF status[b] THEN "green" ELSE "red"

\* The state is tested once and decides which lamp goes on.
LampOn(b) ==
    /\ Blinking /\ blinkPc[b] = "test"
    /\ lamp' = [lamp EXCEPT ![b][Colour(b)] = TRUE]
    /\ blinkPc' = [blinkPc EXCEPT ![b] = Colour(b)]
    /\ UNCHANGED <<device, runLed, faultLed, mainPc, status, buttonVars, leftLit,
                   ended>>

\* Mutation of LampOff: the state is tested again to choose the lamp.
LampOffRetested(b) ==
    /\ Blinking /\ blinkPc[b] \in Colours
    /\ lamp' = [lamp EXCEPT ![b][Colour(b)] = FALSE]
    /\ leftLit' = [leftLit EXCEPT ![b] = @ \ {Colour(b)}]
    /\ blinkPc' = [blinkPc EXCEPT ![b] = "test"]
    /\ UNCHANGED <<device, runLed, faultLed, mainPc, status, buttonVars, ended>>

\* 0.3 s later the same lamp goes off, whatever the state is by then.
LampOff(b) ==
    /\ Blinking /\ blinkPc[b] \in Colours
    /\ lamp' = [lamp EXCEPT ![b][blinkPc[b]] = FALSE]
    /\ leftLit' = [leftLit EXCEPT ![b] = @ \ {blinkPc[b]}]
    /\ blinkPc' = [blinkPc EXCEPT ![b] = "test"]
    /\ UNCHANGED <<device, runLed, faultLed, mainPc, status, buttonVars, ended>>

Blink == \E b \in Blinkers : LampOn(b) \/ LampOff(b)

\* SiemensPLC::Status and ModbusServer::IsConnected, once their threads run.
StatusChanges ==
    /\ \E b \in Blinkers :
         /\ \/ mainPc = "serving"
            \/ mainPc = "settle" /\ b = "siemens"
         /\ status' = [status EXCEPT ![b] = ~status[b]]
    /\ UNCHANGED <<device, pins, mainPc, blinkPc, buttonVars, leftLit, ended>>

-----------------------------------------------------------------------------
(* The reset button: Restart.sh, which starts with count = 1.              *)

\* Mutation of Sample: releasing the button does not start over.
SampleKept ==
    /\ restartPc = "sample"
    /\ count' = IF button THEN count + 1 ELSE count
    /\ held' = IF button THEN held + 1 ELSE 0
    /\ restartPc' = IF count' = HoldCount THEN "reset" ELSE "sample"
    /\ UNCHANGED <<device, pins, mainPc, blinkVars, factoryFiles, leftLit, ended>>

\* Mutation of Sample: the count is compared before it is increased.
SampleLate ==
    /\ restartPc = "sample"
    /\ count' = IF button THEN count + 1 ELSE 0
    /\ held' = IF button THEN held + 1 ELSE 0
    /\ restartPc' = IF count = HoldCount THEN "reset" ELSE "sample"
    /\ UNCHANGED <<device, pins, mainPc, blinkVars, factoryFiles, leftLit, ended>>

\* One sample of the pin, every 0.1 s.
Sample ==
    /\ restartPc = "sample"
    /\ count' = IF button THEN count + 1 ELSE 0
    /\ held' = IF button THEN held + 1 ELSE 0
    /\ restartPc' = IF count' = HoldCount THEN "reset" ELSE "sample"
    /\ UNCHANGED <<device, pins, mainPc, blinkVars, factoryFiles, leftLit, ended>>

\* The factory addresses go to dhcpcd.conf and to ConfigureNetwork.sh (a file
\* the start script does not run: it runs ConfigNetwork.sh).
WriteFactoryFiles ==
    /\ restartPc = "reset"
    /\ factoryFiles' = TRUE
    /\ restartPc' = "reboot"
    /\ UNCHANGED <<device, pins, mainPc, blinkVars, count, held, leftLit, ended>>

\* reboot -f: everything starts over, the pins included.
Reboot ==
    /\ restartPc = "reboot"
    /\ restartPc' = "sample" /\ count' = 1 /\ held' = 0
    /\ runLed' = FALSE /\ faultLed' = FALSE
    /\ lamp' = [b \in Blinkers |-> Dark]
    /\ leftLit' = [b \in Blinkers |-> {}]
    /\ mainPc' = "script" /\ ended' = "no"
    /\ blinkPc' = [b \in Blinkers |-> "none"]
    /\ status' = [b \in Blinkers |-> FALSE]
    /\ UNCHANGED <<device, factoryFiles>>

RestartScript == Sample \/ WriteFactoryFiles \/ Reboot

-----------------------------------------------------------------------------
(* The people around the device.                                           *)

OwnerEdits ==
    /\ config' \in Configs
    /\ UNCHANGED <<licensed, button, pins, mainPc, blinkVars, buttonVars, leftLit,
                   ended>>

ButtonMoves ==
    /\ button' = ~button
    /\ UNCHANGED <<licensed, config, pins, mainPc, blinkVars, buttonVars, leftLit,
                   ended>>

Next ==
    \/ Main \/ Killed \/ Blink \/ StatusChanges \/ RestartScript
    \/ OwnerEdits \/ ButtonMoves

\* systemd, the programs and the scheduler keep going; nobody is obliged to
\* press the button, to edit the file or to kill the process.
Fairness ==
    /\ WF_vars(Main)
    /\ \A b \in Blinkers : WF_vars(LampOn(b) \/ LampOff(b))
    /\ WF_vars(RestartScript)

Spec == Init /\ [][Next]_vars
FairSpec == Spec /\ Fairness

-----------------------------------------------------------------------------
(* Properties.                                                             *)

\* Every variable has its type.
TypeOK ==
    /\ licensed \in BOOLEAN /\ config \in Configs /\ button \in BOOLEAN
    /\ runLed \in BOOLEAN /\ faultLed \in BOOLEAN
    /\ lamp \in [Blinkers -> [Colours -> BOOLEAN]]
    /\ Alive \/ mainPc \in {"script", "waiting"}
    /\ blinkPc \in [Blinkers -> Colours \cup {"none", "test"}]
    /\ \A b \in Blinkers : Blinking <=> blinkPc[b] # "none"
    /\ status \in [Blinkers -> BOOLEAN]
    /\ count \in 0 .. HoldCount /\ held \in 0 .. HoldCount
    /\ restartPc \in {"sample", "reset", "reboot"}
    /\ factoryFiles \in BOOLEAN
    /\ leftLit \in [Blinkers -> SUBSET Colours]
    /\ ended \in {"no", "exit", "abort"}

\* The run lamp and the fault lamp never contradict each other, although the
\* pins outlive the process, which may die between any two of them.
RunOrFault == ~(runLed /\ faultLed)

\* A status lamp is lit by the thread that is about to switch it off, or it was
\* lit when an earlier process ended: a state that changes while a lamp is on
\* never leaves it on.
NoLampForgotten ==
    \A b \in Blinkers, c \in Colours :
      lamp[b][c] => blinkPc[b] = c \/ c \in leftLit[b]

\* The device is reset only after the button was held through the last samples:
\* short presses do not add up.  (The first press after the start of the script
\* needs one sample less, because the count starts at 1.)
ResetWasHeld == restartPc # "sample" => held >= HoldCount - 1

\* What makes the invariants inductive: the pin that main has just switched off
\* before it switches the other on, and the count beside the samples it counts.
IInv ==
    /\ mainPc = "fault" => ~runLed
    /\ mainPc = "runLed" => ~faultLed
    /\ RunOrFault /\ NoLampForgotten
    /\ restartPc = "sample" => count < HoldCount /\ count <= held + 1
                              /\ held <= count
    /\ restartPc # "sample" => held >= HoldCount - 1

\* What can go on going wrong by itself.
Disturbance ==
    \/ Killed \/ Reboot
    \/ mainPc = "licence" /\ mainPc' = "faultRun"

\* A licensed device with a good configuration ends up serving for good, whatever
\* went wrong before: the service has started it again.
EndsUpServing ==
    (<>[](licensed /\ config = "good") /\ <>[][~Disturbance]_vars)
       => <>[](mainPc = "serving")

\* "If comparison fails, the process halts and fault LED will turn on"
\* (README.md:36): without the licence the Modbus server never runs, and once
\* nobody kills or resets the device the fault lamp is lit for good.
UnlicensedShowsFault ==
    ~licensed /\ <>[][~(Killed \/ Reboot)]_vars
       => [](mainPc # "serving") /\ <>[]faultLed

=============================================================================
