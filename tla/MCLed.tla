-------------------------------- MODULE MCLed --------------------------------
(***************************************************************************)
(* Instance of the LED programs for TLC.  A behaviour is one of the        *)
(* programs on its own: scans of a few directories, the charge window of   *)
(* one mean waveform, or one pool of fits.  They share no state, so their  *)
(* state spaces add up.                                                    *)
(***************************************************************************)
EXTENDS LedScan, ChargeWindow, FitPool

(* The windows tried: reversed, and past the end of the record.            *)
SomeBounds == {<<0, 1>>, <<0, 2>>, <<1, 4>>, <<5, 2>>}

(* Samples asked for: fewer than none, none, and past the record.          *)
SomeShifts == {-1, 0, 2}

vars == <<sspvars, scanvars, winvars, fitvars>>

Init ==
  \/ SspInit /\ ScanInit /\ NoMean /\ PoolOff
  \/ SspInit /\ ScanOff /\ SomeMean /\ PoolOff
  \/ SspInit /\ ScanOff /\ NoMean /\ PoolInit

SspRuns == SspStep /\ UNCHANGED <<scanvars, winvars, fitvars>>
ScanRuns == ScanStep /\ UNCHANGED <<winvars, fitvars>>
FitRuns == FitStep /\ UNCHANGED <<sspvars, scanvars, winvars>>

Next ==
  \/ SspRuns
  \/ ScanRuns
  \/ ScanOther /\ UNCHANGED <<winvars, fitvars>>
  \/ WindowStep /\ UNCHANGED <<sspvars, scanvars, fitvars>>
  \/ FitRuns

Spec == Init /\ [][Next]_vars

(* Every command has its timeouts, and every fit ends: a program that is   *)
(* running goes on.  Nobody has to start or interrupt one.                 *)
FairSpec == Spec /\ WF_vars(SspRuns) /\ WF_vars(ScanRuns) /\ WF_vars(FitRuns)
=============================================================================
