--------------------------- MODULE TriggerControl ---------------------------
(***************************************************************************)
(* The part of configureDaphne that sets up the self-trigger: thresholds,  *)
(* enable masks and controls.                                              *)
(*                                                                         *)
(* Each group of registers is mapped from /dev/mem on its own, and each    *)
(* mapping may fail; a write to mapped memory does not.  The registers     *)
(* keep their values when the server is killed, which may happen between   *)
(* any two writes.                                                         *)
(***************************************************************************)
EXTENDS Integers, FiniteSetsExt

CONSTANTS
  NumTriggers,   \* trigregs::NUM_CHANNELS, 40
  LowChannels,   \* channels of the low mask register, 32
  ThresholdTop,  \* MASK_28BIT
  TrigRequests   \* configurations that clients send

TrigChannel == 0..(NumTriggers - 1)

ASSUME TriggerAssumption ==
  /\ NumTriggers \in Nat /\ LowChannels \in Nat /\ ThresholdTop \in Nat
  /\ TrigRequests \subseteq
       [channels : SUBSET Nat, threshold : Nat, xcorr : Nat, tp : Nat, mask : Nat]

NotWritten == -1    \* a register as the gateware loads it

VARIABLES
  trig,       \* configureDaphne: its step, request and channels left
  threshold,  \* threshold register of each channel
  enabled,    \* channels whose bit is set in the two mask registers
  control,    \* descriptor configuration, and compensator and inverter masks
  trigOk      \* what the last configuration found of the trigger part

triggerVars == <<trig, threshold, enabled, control, trigOk>>

TrigIdle ==
  [at |-> "idle", left |-> {},
   req |-> [channels |-> {}, threshold |-> 0, xcorr |-> 0, tp |-> 0, mask |-> 0]]

TriggerInit ==
  /\ trig = TrigIdle
  /\ threshold = [c \in TrigChannel |-> NotWritten]
  /\ enabled = {}
  /\ control = [tp |-> NotWritten, mask |-> NotWritten]
  /\ trigOk = FALSE

-----------------------------------------------------------------------------
(* The list of channels is sorted and its duplicates are dropped: it is    *)
(* the set of its channels.                                                *)
IsLow(c) == c < LowChannels

(* Mutant: the low bits of xcorr are not cut out.                          *)
Threshold_Uncut(r) ==
  IF r.xcorr # 0 THEN r.xcorr
  ELSE IF r.threshold > ThresholdTop THEN ThresholdTop ELSE r.threshold

(* The low bits of xcorr when it is given, or the clamped threshold.       *)
Threshold(r) ==
  IF r.xcorr # 0 THEN r.xcorr % (ThresholdTop + 1)
  ELSE IF r.threshold > ThresholdTop THEN ThresholdTop ELSE r.threshold

(* Nothing is written without channels or with one out of range.  The      *)
(* mapping of the thresholds may fail.                                     *)
ConfigureTriggers ==
  /\ trig.at = "idle"
  /\ \E r \in TrigRequests :
       \/ /\ r.channels # {} /\ r.channels \subseteq TrigChannel
          /\ trig' = [at |-> "thresholds", left |-> r.channels, req |-> r]
          /\ trigOk' = TRUE
       \/ /\ trig' = [at |-> "controls", left |-> {}, req |-> r]
          /\ trigOk' = (r.channels = {})
  /\ UNCHANGED <<threshold, enabled, control>>

WriteThreshold ==
  /\ trig.at = "thresholds" /\ trig.left # {}
  /\ LET c == Min(trig.left) IN
       /\ threshold' = [threshold EXCEPT ![c] = Threshold(trig.req)]
       /\ trig' = [trig EXCEPT !.left = @ \ {c}]
  /\ UNCHANGED <<enabled, control, trigOk>>

(* Mutant: the masks may be written before the thresholds.                 *)
ThresholdsWritten_Early == TRUE

ThresholdsWritten == trig.left = {}

(* The low mask is written, or cannot be mapped.                           *)
WriteLowMask ==
  /\ trig.at = "thresholds" /\ ThresholdsWritten
  /\ \/ /\ enabled' = {c \in enabled : ~IsLow(c)}
                        \cup {c \in trig.req.channels : IsLow(c)}
        /\ UNCHANGED trigOk
     \/ trigOk' = FALSE /\ UNCHANGED enabled
  /\ trig' = [trig EXCEPT !.at = "highMask"]
  /\ UNCHANGED <<threshold, control>>

HighRequested == {c \in trig.req.channels : ~IsLow(c)}

(* Mutant: a high mask that cannot be mapped is always skipped.            *)
HighMaskFails_Skipped == UNCHANGED <<enabled, trigOk>>

(* The register is skipped when it has nothing to enable.                  *)
HighMaskFails ==
  /\ trigOk' = (trigOk /\ HighRequested = {})
  /\ UNCHANGED enabled

WriteHighMask ==
  /\ trig.at = "highMask"
  /\ \/ /\ enabled' = {c \in enabled : IsLow(c)} \cup HighRequested
        /\ UNCHANGED trigOk
     \/ HighMaskFails
  /\ trig' = [trig EXCEPT !.at = "controls"]
  /\ UNCHANGED <<threshold, control>>

(* write_self_trigger_controls: a descriptor configuration of 0 is left    *)
(* alone, the masks are always written.                                    *)
WriteControls ==
  /\ trig.at = "controls"
  /\ \/ /\ control' = [tp |-> IF trig.req.tp # 0 THEN trig.req.tp ELSE control.tp,
                       mask |-> trig.req.mask]
        /\ UNCHANGED trigOk
     \/ trigOk' = FALSE /\ UNCHANGED control
  /\ trig' = [trig EXCEPT !.at = "idle"]
  /\ UNCHANGED <<threshold, enabled>>

(* The server is killed and started again; the registers stay.             *)
TriggerRestart ==
  /\ trig.at # "idle"
  /\ trig' = TrigIdle /\ trigOk' = FALSE
  /\ UNCHANGED <<threshold, enabled, control>>

TriggerNext ==
  \/ ConfigureTriggers \/ WriteThreshold \/ WriteLowMask \/ WriteHighMask
  \/ WriteControls \/ TriggerRestart

TriggerSpec == TriggerInit /\ [][TriggerNext]_triggerVars

-----------------------------------------------------------------------------
(* Types: a threshold has 28 bits, though requests give it more.           *)
TriggerTypeOK ==
  /\ trig.at \in {"idle", "thresholds", "highMask", "controls"}
  /\ trig.left \subseteq TrigChannel
  /\ threshold \in [TrigChannel -> {NotWritten} \cup 0..ThresholdTop]
  /\ enabled \subseteq TrigChannel /\ trigOk \in BOOLEAN

(* No channel triggers on the threshold that the gateware was loaded with: *)
(* at every moment, through failed mappings, kills in the middle of a      *)
(* configuration and configurations of other channels, an enabled channel  *)
(* has a threshold that a configuration gave it (write_trigger_thresholds  *)
(* writes thresholds before it enables).                                   *)
EnabledHasThreshold == \A c \in enabled : threshold[c] # NotWritten

(* When configureDaphne has found nothing wrong with the trigger part of a *)
(* configuration with channels, those channels trigger, on the threshold   *)
(* of the request.  Other channels may trigger only where the high mask    *)
(* register was left alone, which is tolerated when no high channel is     *)
(* requested: they are high channels of an earlier configuration.          *)
OkEnablesRequested ==
  trig.at = "idle" /\ trigOk /\ trig.req.channels # {} =>
    /\ trig.req.channels \subseteq enabled
    /\ \A c \in trig.req.channels : threshold[c] = Threshold(trig.req)
    /\ \A c \in enabled \ trig.req.channels : ~IsLow(c) /\ HighRequested = {}

(* Both, for every sequence of configurations.                             *)
TriggersAreAsAsked == TriggerTypeOK /\ EnabledHasThreshold /\ OkEnablesRequested
=============================================================================
