------------------------------- MODULE MCAlign -------------------------------
(***************************************************************************)
(* Instance for TLC of the bring-up of a board: the alignment of the links *)
(* in the server, its search for the longest run, the script that does it  *)
(* with devmem, the configuration of the clocks it needs, and the script   *)
(* that takes the SPI pins of the mezzanines.  A behaviour is that of one  *)
(* of them: each is taken alone, so their state spaces add up.             *)
(***************************************************************************)
EXTENDS FrontEndAlign, LongestRun, ClockEndpoint, DevmemAlign, PsMioGpio

VARIABLE system   \* the system of this behaviour

MCMezzLists == {<<"MEZ0">>, <<"MEZ0", "MEZ1">>}
MCOutputRoles == <<"CS">>
MCInputRoles == <<"SDI">>

allVars == <<vars, runVars, clockVars, devmemVars, gpioVars, system>>

(* The systems that do not run are in one state.                           *)
AlignOff == vtc = 0 /\ ready = FALSE /\ spy = Expected /\ Init
RunOff == size = 0 /\ RunInit
ClockOff == source = "local" /\ locked = FALSE /\ epReady = FALSE /\ ClockInit

AllInit ==
  /\ DevmemInit /\ GpioInit
  /\ \/ system = "align" /\ Init /\ RunOff /\ ClockOff
     \/ system = "run" /\ AlignOff /\ RunInit /\ ClockOff
     \/ system = "clock" /\ AlignOff /\ RunOff /\ ClockInit
     \/ system \in {"devmem", "gpio"} /\ AlignOff /\ RunOff /\ ClockOff

OnlyAlign ==
  /\ system = "align"
  /\ UNCHANGED <<runVars, clockVars, devmemVars, gpioVars, system>>
OnlyRun ==
  /\ system = "run"
  /\ UNCHANGED <<vars, clockVars, devmemVars, gpioVars, system>>
OnlyClock ==
  /\ system = "clock"
  /\ UNCHANGED <<vars, runVars, devmemVars, gpioVars, system>>
OnlyDevmem ==
  /\ system = "devmem"
  /\ UNCHANGED <<vars, runVars, clockVars, gpioVars, system>>
OnlyGpio ==
  /\ system = "gpio"
  /\ UNCHANGED <<vars, runVars, clockVars, devmemVars, system>>

(* The server goes on; the function and the script come to an end.         *)
Ended ==
  /\ \/ system = "run" /\ result # Running
     \/ system = "devmem" /\ dm.afe = DmAfes
  /\ UNCHANGED allVars

AllNext ==
  \/ OnlyAlign /\ Next
  \/ OnlyRun /\ RunNext
  \/ OnlyClock /\ ClockNext
  \/ OnlyDevmem /\ DevmemStep
  \/ OnlyGpio /\ GpioNext
  \/ Ended

AllSpec ==
  /\ AllInit /\ [][AllNext]_allVars
  /\ WF_vars(OnlyAlign /\ Align) /\ WF_clockVars(OnlyClock /\ ClockStep)

(* The two scripts that work on the board itself: what they report is what *)
(* they have left on it.                                                   *)
ScriptReportsAreTrue == SummaryIsTrue /\ ZeroIsClean

(* Alignment and clock configuration end, whatever the hardware does: the  *)
(* router thread serves nobody else until then.                            *)
BringUpEnds == AlignmentEnds /\ ConfigurationEnds
=============================================================================
