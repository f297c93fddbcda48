------------------------------- MODULE MCBoard -------------------------------
(***************************************************************************)
(* Instance for TLC of registers of the board that the server writes and   *)
(* reads: trims and offsets, the self-trigger, its counters and the current  *)
(* monitor.  A behaviour is that of one of them: they share no state, so   *)
(* their state spaces add up.                                              *)
(***************************************************************************)
EXTENDS MCDacRegister, TriggerControl, TriggerCounters, CurrentMonitor

VARIABLE system   \* the system of this behaviour

TrigRequest(chs, thr, xcorr, tp, mask) ==
  [channels |-> chs, threshold |-> thr, xcorr |-> xcorr, tp |-> tp, mask |-> mask]

(* One low channel and two high ones; no channel, one that does not exist, *)
(* a threshold above the top and an xcorr whose low bits are 0.            *)
MCTrigRequests ==
  {TrigRequest({0}, 1, 0, 1, 1), TrigRequest({0, 1}, 3, 0, 0, 0),
   TrigRequest({1, 2}, 1, 2, 0, 1), TrigRequest({2}, 0, 0, 2, 0),
   TrigRequest({}, 0, 0, 0, 0), TrigRequest({0, 3}, 1, 0, 0, 0)}
MCReadLists == {<<>>, <<1>>, <<2, 0, 0>>}

MCCmMux == [c \in {0, 1} |-> IF c = 0 THEN "m0" ELSE "m1"]

allVars == <<vars, triggerVars, counterVars, currentVars, system>>

AllInit ==
  /\ Init /\ TriggerInit /\ CounterInit /\ CurrentInit
  /\ system \in {"dac", "trigger", "counters", "current"}

OnlyDac ==
  system = "dac" /\ UNCHANGED <<triggerVars, counterVars, currentVars, system>>
OnlyTrigger ==
  system = "trigger" /\ UNCHANGED <<vars, counterVars, currentVars, system>>
OnlyCounters ==
  system = "counters" /\ UNCHANGED <<vars, triggerVars, currentVars, system>>
OnlyCurrent ==
  system = "current" /\ UNCHANGED <<vars, triggerVars, counterVars, system>>

AllNext ==
  \/ OnlyDac /\ Next
  \/ OnlyTrigger /\ TriggerNext
  \/ OnlyCounters /\ CounterNext
  \/ OnlyCurrent /\ CurrentNext

AllSpec ==
  AllInit /\ [][AllNext]_allVars /\ WF_currentVars(OnlyCurrent /\ CurrentStep)
=============================================================================
