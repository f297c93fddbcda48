-------------------------------- MODULE MCAfe --------------------------------
(***************************************************************************)
(* Instance for TLC of the front end: the registers of an AFE and the      *)
(* configuration of the DACs.  A behaviour is that of one of them: to each *)
(* the other is a step that may fail, so their state spaces add up.        *)
(***************************************************************************)
EXTENDS MCAfeRegister, MCFrontEndConfig

VARIABLE system   \* the system of this behaviour

allVars == <<vars, configVars, system>>

(* The chip shows one of the values of Unknown when it does not run.       *)
ChipOff == shown = {} /\ Init

AllInit ==
  /\ ConfigInit
  /\ \/ system = "chip" /\ Init
     \/ system = "config" /\ ChipOff

AllNext ==
  \/ system = "chip" /\ Next /\ UNCHANGED <<configVars, system>>
  \/ system = "config" /\ ConfigNext /\ UNCHANGED <<vars, system>>

AllSpec == AllInit /\ [][AllNext]_allVars
=============================================================================
