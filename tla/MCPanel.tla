------------------------------- MODULE MCPanel -------------------------------
(***************************************************************************)
(* Instance for TLC of the control of one HD mezzanine block by the        *)
(* server's two threads, and of the panel that shows two of them.  A       *)
(* behaviour is that of one of them: the panel may see any of the          *)
(* published statuses, so their state spaces add up.                       *)
(***************************************************************************)
EXTENDS HDMezz, HDMezzPanel

VARIABLE system   \* the system of this behaviour

(* Off, on, and on with an alert.                                          *)
MCPublished == {s \in Status : s.alert <= s.power}

allVars == <<vars, panelVars, system>>

(* The system that does not run is in one state.                           *)
PanelOff == use = "line" /\ driver = FALSE /\ PanelInit
ThreadsOff == port = [b \in Block |-> {}] /\ Init

AllInit ==
  \/ system = "threads" /\ Init /\ PanelOff
  \/ system = "panel" /\ ThreadsOff /\ PanelInit

OnlyThreads == system = "threads" /\ UNCHANGED <<panelVars, system>>
OnlyPanel == system = "panel" /\ UNCHANGED <<vars, system>>

AllNext ==
  \/ OnlyThreads /\ Next
  \/ OnlyPanel /\ PanelNext

AllSpec ==
  /\ AllInit /\ [][AllNext]_allVars
  /\ WF_vars(OnlyThreads /\ MonitorStep) /\ WF_vars(OnlyThreads /\ ServerStep)
  /\ WF_panelVars(OnlyPanel /\ PanelServe)
  /\ WF_panelVars(OnlyPanel /\ (ReplyShown \/ ReplyRefused))
  /\ WF_panelVars(OnlyPanel /\ CallTimeout)
  /\ SF_panelVars(OnlyPanel /\ AutoRefreshTick)
=============================================================================
