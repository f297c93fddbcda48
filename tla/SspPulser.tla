------------------------------ MODULE SspPulser ------------------------------
(***************************************************************************)
(* ssp_led_control: the command that sets up the LED pulser (SSP).         *)
(*                                                                         *)
(* The pulser is a box of registers reached over TCP.  A bias register of  *)
(* each LED channel takes effect only when BIAS_CONTROL is written; a      *)
(* timing (cal) register switches the channel's pulses on or off at once.  *)
(* The command writes one register after the other, reading each back, and *)
(* any of these transactions may raise: before the register was written,   *)
(* or after, when only the answer or the readback went wrong.  The command *)
(* then ends with exit status 1 and leaves the registers as they are.      *)
(***************************************************************************)
EXTENDS Integers

CONSTANTS
  NumChannels,   \* LED channels of the box (12)
  First367,      \* the first channel of the 367 nm colour (6)
  Mask,          \* channel_mask, as a set of channels
  MaxAttempts,   \* tries of the timing endpoint's reset (5)
  MaxFaults      \* bound: transactions that raise

ASSUME PulserAssumption ==
  /\ NumChannels \in Nat \ {0} /\ First367 \in Nat
  /\ Mask \subseteq 0 .. NumChannels - 1
  /\ MaxAttempts \in Nat /\ MaxFaults \in Nat

Led == 0 .. NumChannels - 1

VARIABLES
  \* the box
  bias,      \* bias registers
  cal,       \* channels whose timing register is set
  applied,   \* bias in effect: bias at the last write of BIAS_CONTROL
  pdts,      \* timing endpoint: "bad", "ready" (0x6, 0x7) or "running" (0x8)
  matched,   \* address, partition and clock source are the ones asked for
  \* the command
  ssp,       \* where the command stands; "idle": none is running
  k,         \* the attempt, or the channel, it works on
  job,       \* its arguments: the biases of the two colours
  rc,        \* exit status of the last command: "none", "ok" or "error"
  faults     \* spent bound

box == <<bias, cal, applied, pdts, matched>>
sspvars == <<box, ssp, k, job, rc, faults>>

Dark == [c \in Led |-> 0]

(* The light the channels give: what is applied, where pulses are on.      *)
Light == [c \in Led |-> IF c \in cal THEN applied[c] ELSE 0]

(* The bias configure_run gives channel c: the 367 nm setting is halved.   *)
Bias(j, c) == IF c < First367 THEN j.nm270 ELSE j.nm367 \div 2

(* The light a run with the biases j is asked to give.                     *)
Lit(j) == [c \in Led |-> IF c \in Mask THEN Bias(j, c) ELSE 0]

NoJob == [nm270 |-> 0, nm367 |-> 0]

SspInit ==
  /\ bias = Dark /\ cal = {} /\ applied = Dark
  /\ pdts = "bad" /\ matched = FALSE
  /\ ssp = "idle" /\ k = 0 /\ job = NoJob /\ rc = "none" /\ faults = 0

-----------------------------------------------------------------------------
(* main: the command is started for "run" or "stop"; every way out of it   *)
(* is an exit status.                                                      *)

Command(label, j) ==
  /\ ssp = "idle"
  /\ ssp' = label /\ k' = 0 /\ job' = j /\ rc' = "none"
  /\ UNCHANGED <<box, faults>>

Exit(status) == ssp' = "idle" /\ k' = 0 /\ job' = NoJob /\ rc' = status

Goto(label, n) == ssp' = label /\ k' = n /\ UNCHANGED <<job, rc>>

(* Any transaction, the connection and the tunnel may raise; a write that  *)
(* raises may have been done (the steps below) or not (this one).          *)
Raise ==
  /\ faults < MaxFaults
  /\ faults' = faults + 1
  /\ Exit("error")

(* What follows a write: the next step, or an exception after it.          *)
Then(label, n) == (Goto(label, n) /\ UNCHANGED faults) \/ Raise

ConnectionFails == ssp # "idle" /\ Raise /\ UNCHANGED box

-----------------------------------------------------------------------------
(* sync_pdts.                                                              *)

InSync == pdts \in {"ready", "running"}

(* The endpoint already looks synchronised, or up to five attempts: each   *)
(* resets it, releases it and switches the clock back to the fibre.        *)
AlreadySynced ==
  /\ ssp = "sync" /\ k = 0
  /\ InSync /\ matched
  /\ Goto("poll", 0)
  /\ UNCHANGED <<box, faults>>

Attempt ==
  /\ ssp = "sync" /\ k < MaxAttempts
  /\ k = 0 => ~(InSync /\ matched)
  /\ \/ \E s \in {"bad", "ready", "running"} :
          /\ pdts' = s
          /\ matched' = TRUE
          /\ Then(IF s = "bad" THEN "sync" ELSE "poll",
                  IF s = "bad" THEN k + 1 ELSE 0)
     \/ pdts' = "bad" /\ matched' = FALSE /\ Raise
  /\ UNCHANGED <<bias, cal, applied>>

(* Mutant: after the last attempt the count starts over.                   *)
SyncFailed_Retry ==
  /\ ssp = "sync" /\ k = MaxAttempts
  /\ Goto("sync", 0)
  /\ UNCHANGED <<box, faults>>

SyncFailed ==
  /\ ssp = "sync" /\ k = MaxAttempts
  /\ Exit("error")
  /\ UNCHANGED <<box, faults>>

(* Mutant: the endpoint need not reach the running state.                  *)
Running_Ready == InSync

Running == pdts = "running"

(* Up to three looks for the running state; the endpoint may get there, or *)
(* lose the link, between two of them.  Once it runs the command writes    *)
(* the blocks of timing registers, which leave the clock source as it is.  *)
Poll ==
  /\ ssp = "poll"
  /\ \E s \in {"bad", "ready", "running"} : pdts' = s
  /\ \/ Running' /\ Then("channel", 0)
     \/ ~Running' /\ Exit("error") /\ UNCHANGED faults
  /\ UNCHANGED <<bias, cal, applied, matched>>

-----------------------------------------------------------------------------
(* configure_run: two registers per channel, then BIAS_CONTROL.            *)

BiasOf(c) == IF c \in Mask THEN Bias(job, c) ELSE 0

(* Channel 7's bias is also written to channel 6 when 6 is not in the      *)
(* mask.                                                                   *)
Workaround(c) == c = First367 + 1 /\ c \in Mask /\ First367 \notin Mask

CalOf(c) == Mask \cap {c}

(* The bias register, its copy and the timing register of one channel; an  *)
(* exception may strike after any of them.                                 *)
WriteChannel ==
  /\ ssp = "channel" /\ k \in Led
  /\ LET own == [bias EXCEPT ![k] = BiasOf(k)]
         both == IF Workaround(k) THEN [own EXCEPT ![k - 1] = BiasOf(k)] ELSE own
     IN \/ /\ bias' = both
           /\ cal' = (cal \ {k}) \cup CalOf(k)
           /\ Then(IF k + 1 \in Led THEN "channel" ELSE "apply", k + 1)
        \/ bias' \in {own, both} /\ UNCHANGED cal /\ Raise
  /\ UNCHANGED <<applied, pdts, matched>>

ApplyBias ==
  /\ ssp \in {"apply", "stopApply"}
  /\ applied' = bias
  /\ (Exit("ok") /\ UNCHANGED faults) \/ Raise
  /\ UNCHANGED <<bias, cal, pdts, matched>>

(* stop_run: zero both registers of every channel, then apply.             *)
StopChannel ==
  /\ ssp = "stop" /\ k \in Led
  /\ bias' = [bias EXCEPT ![k] = 0]
  /\ \/ /\ cal' = cal \ {k}
        /\ Then(IF k + 1 \in Led THEN "stop" ELSE "stopApply", k + 1)
     \/ UNCHANGED cal /\ Raise
  /\ UNCHANGED <<applied, pdts, matched>>

SspStep ==
  \/ ConnectionFails
  \/ AlreadySynced \/ Attempt \/ SyncFailed \/ Poll
  \/ WriteChannel \/ ApplyBias
  \/ StopChannel

SspTypeOK ==
  /\ bias \in [Led -> Nat] /\ applied \in [Led -> Nat]
  /\ cal \in SUBSET Led
  /\ pdts \in {"bad", "ready", "running"} /\ matched \in BOOLEAN
  /\ ssp \in {"idle", "sync", "poll", "channel", "apply",
              "stop", "stopApply"}
  /\ k \in 0 .. NumChannels + MaxAttempts
  /\ rc \in {"none", "ok", "error"}
  /\ faults \in 0 .. MaxFaults
=============================================================================
