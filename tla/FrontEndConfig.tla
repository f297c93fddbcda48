--------------------------- MODULE FrontEndConfig ---------------------------
(***************************************************************************)
(* configureDaphne and the handlers of the gain, bias and high-voltage     *)
(* DACs.  A DAC cannot be read back: what the read handlers answer is the  *)
(* state dictionary of the server, written after the DAC.  A DAC write     *)
(* waits for the converter before and after its trigger, and either wait   *)
(* may throw: the DAC then has its old or its new value.                   *)
(*                                                                         *)
(* A configuration goes through the channels, the bias control and the     *)
(* AFEs in the order of the request; an exception ends it there.  A        *)
(* restarted server starts with an empty dictionary while the DACs keep    *)
(* their values.  The trims and offsets of the channels are in             *)
(* DacRegister, the AFE functions in AfeRegister, the alignment that may   *)
(* follow in FrontEndAlign; here they are steps that may fail.             *)
(***************************************************************************)
EXTENDS Integers, Sequences, FiniteSetsExt

CONSTANTS
  AFE,         \* AFEs of the board, 0..4
  Values,      \* values that clients ask for
  FullScale,   \* a DAC value has 12 bits, 4096
  AfeLists,    \* afes of ConfigureRequests: sequences of AfeConfig
  MaxWrites,   \* bound: requests that write
  MaxRestarts  \* bound: restarts of the server

AfeConfig == [afe : Nat, gain : Values, bias : Values]

ASSUME ConfigAssumption ==
  /\ AFE \subseteq Nat
  /\ FullScale \in Nat \ {0}
  /\ Values \subseteq Nat /\ 0 \in Values
  /\ AfeLists \subseteq Seq(AfeConfig)
  /\ MaxWrites \in Nat /\ MaxRestarts \in Nat

Gain(a) == <<"gain", a>>
Bias(a) == <<"bias", a>>
HvBias == <<"hv", 0>>
Dac == {Gain(a) : a \in AFE} \cup {Bias(a) : a \in AFE} \cup {HvBias}

VARIABLES
  cfgPc, n,   \* where configureDaphne is, and the AFE of the list
  okAll,      \* ok_all
  cfgOp,      \* the request at hand or the last one
  dac,        \* what the DACs put out
  enable,     \* ENABLE of biasEnable
  dacDict,    \* the state dictionary
  cfgAnswer,  \* the response: its success and the value read
  dacBefore,  \* history: the DACs when the request came
  torn,       \* history: DACs whose last write threw after its trigger
  forgotten,  \* history: DACs not written since the server started
  writes, restarts  \* history

hw == <<dac, enable>>
server == <<cfgPc, n, okAll>>
history == <<dacBefore, torn, forgotten, writes, restarts>>
configVars == <<server, cfgOp, hw, dacDict, cfgAnswer, history>>

NoDacAnswer == [status |-> "none", value |-> 0]
DacFailure == [status |-> "error", value |-> 0]
DacSuccess(v) == [status |-> "ok", value |-> v]

ConfigInit ==
  /\ cfgPc = "idle" /\ n = 1 /\ okAll = TRUE /\ cfgOp = [kind |-> "none"]
  /\ dac = [d \in Dac |-> 0] /\ enable = FALSE
  /\ dacDict = [d \in Dac |-> 0]
  /\ cfgAnswer = NoDacAnswer
  /\ dacBefore = dac /\ torn = {} /\ forgotten = {}
  /\ writes = 0 /\ restarts = 0

-----------------------------------------------------------------------------
(* The entry of the dictionary that is set after the DAC.                  *)
Record(d, v) == dacDict' = [dacDict EXCEPT ![d] = v]

(* setDacGeneral.  It returns, throws before the trigger or throws after   *)
(* it.                                                                     *)
Returns(d, v) ==
  /\ dac' = [dac EXCEPT ![d] = v]
  /\ Record(d, v)
  /\ torn' = torn \ {d} /\ forgotten' = forgotten \ {d}

(* Mutant: the dictionary is written before the DAC.                       *)
ThrowsBefore_Recorded(d, v) ==
  /\ Record(d, v)
  /\ UNCHANGED <<dac, torn, forgotten>>

ThrowsBefore(d, v) == UNCHANGED <<dac, dacDict, torn, forgotten>>

ThrowsAfter(d, v) ==
  /\ dac' = [dac EXCEPT ![d] = v]
  /\ torn' = torn \cup {d}
  /\ UNCHANGED <<dacDict, forgotten>>

Throws(d, v) == ThrowsBefore(d, v) \/ ThrowsAfter(d, v)

(* Mutant: values are not compared with 4095.                              *)
InRange_Any(v) == TRUE

InRange(v) == v < FullScale

-----------------------------------------------------------------------------
(* Requests for one DAC: writeAFEVgain and writeAFEAttenuation,            *)
(* writeAFEBiasVoltage, and writeBiasVoltageControl, which also switches   *)
(* the bias on or off.                                                     *)
WriteDac(d, v, on) ==
  /\ cfgPc = "idle" /\ InRange(v)
  /\ writes < MaxWrites /\ writes' = writes + 1
  /\ cfgOp' = [kind |-> "write", dac |-> d] /\ dacBefore' = dac
  /\ \/ Returns(d, v) /\ cfgAnswer' = DacSuccess(v) /\ enable' = on
     \/ Throws(d, v) /\ cfgAnswer' = DacFailure /\ UNCHANGED enable
  /\ UNCHANGED <<server, restarts>>

WriteAFEVgain == \E a \in AFE, v \in Values : WriteDac(Gain(a), v, enable)

WriteAFEBiasVoltage ==
  \E a \in AFE, v \in Values : WriteDac(Bias(a), v, enable)

WriteBiasVoltageControl ==
  \E v \in Values, on \in BOOLEAN : WriteDac(HvBias, v, on)

(* A payload that does not parse, an AFE that does not exist or a value    *)
(* out of range.                                                           *)
RefuseDac ==
  /\ cfgPc = "idle"
  /\ cfgOp' = [kind |-> "none"] /\ cfgAnswer' = DacFailure /\ dacBefore' = dac
  /\ UNCHANGED <<server, hw, dacDict, torn, forgotten, writes, restarts>>

(* What is read is the entry of the dictionary.                            *)
ReadDac(d) ==
  /\ cfgPc = "idle"
  /\ cfgOp' = [kind |-> "read", dac |-> d]
  /\ cfgAnswer' = DacSuccess(dacDict[d]) /\ dacBefore' = dac
  /\ UNCHANGED <<server, hw, dacDict, torn, forgotten, writes, restarts>>

ReadAFEVgain == \E a \in AFE : ReadDac(Gain(a))

ReadAFEBiasSet == \E a \in AFE : ReadDac(Bias(a))

ReadVbiasControl == ReadDac(HvBias)

-----------------------------------------------------------------------------
(* configureDaphne.  A biasctrl that the client did not set reads as 0.    *)
(* The trigger thresholds and the self-trigger controls clear ok_all when  *)
(* they fail, and the configuration goes on.                               *)
BeginConfigure ==
  \E list \in AfeLists, v \in Values, given \in BOOLEAN :
    /\ cfgPc = "idle" /\ cfgPc' = "channels"
    /\ writes < MaxWrites /\ writes' = writes + 1
    /\ n' = 1 /\ okAll' \in BOOLEAN
    /\ cfgOp' = [kind |-> "configure", afes |-> list, given |-> given,
              ctrl |-> IF given THEN v ELSE 0]
    /\ cfgAnswer' = NoDacAnswer /\ dacBefore' = dac
    /\ UNCHANGED <<hw, dacDict, torn, forgotten, restarts>>

Throw ==
  /\ cfgPc' = "idle" /\ n' = 1 /\ okAll' = TRUE
  /\ cfgAnswer' = DacFailure

(* A step that leaves the DACs alone, and may throw.                       *)
OtherStep(from, to, next) ==
  /\ cfgPc = from
  /\ \/ cfgPc' = to /\ n' = next /\ UNCHANGED <<okAll, cfgAnswer>>
     \/ Throw
  /\ UNCHANGED <<cfgOp, hw, dacDict, history>>

(* A step that writes a DAC.                                               *)
DacStep(d, v, to) ==
  /\ \/ Returns(d, v) /\ cfgPc' = to /\ UNCHANGED <<n, okAll, cfgAnswer>>
     \/ Throws(d, v) /\ Throw
  /\ UNCHANGED <<cfgOp, dacBefore, writes, restarts>>

Channels == OtherStep("channels", "hv", 1)

BiasRequested(o) == \E i \in 1..Len(o.afes) : o.afes[i].bias > 0

(* The bias control that a configuration applies, if any.                  *)
AppliesControl(o) == InRange(o.ctrl) \/ BiasRequested(o)
Control(o) == IF InRange(o.ctrl) THEN o.ctrl ELSE FullScale - 1

SetControl ==
  /\ cfgPc = "hv" /\ AppliesControl(cfgOp)
  /\ DacStep(HvBias, Control(cfgOp), "gain")
  /\ IF cfgPc' = "gain" THEN enable' = TRUE ELSE UNCHANGED enable

SkipControl ==
  /\ cfgPc = "hv" /\ ~AppliesControl(cfgOp)
  /\ cfgPc' = "gain"
  /\ UNCHANGED <<n, okAll, cfgAnswer, cfgOp, hw, dacDict, history>>

(* The AFE configuration at hand.                                          *)
Afe == cfgOp.afes[n]

SetGain ==
  /\ cfgPc = "gain" /\ n <= Len(cfgOp.afes)
  /\ Afe.afe \in AFE /\ InRange(Afe.gain)
  /\ DacStep(Gain(Afe.afe), Afe.gain, "bias")
  /\ UNCHANGED enable

(* An AFE that does not exist, or its gain or bias out of range.           *)
Reject ==
  /\ \/ cfgPc = "gain" /\ n <= Len(cfgOp.afes)
        /\ (Afe.afe \notin AFE \/ ~InRange(Afe.gain))
     \/ cfgPc = "bias" /\ ~InRange(Afe.bias)
  /\ Throw
  /\ UNCHANGED <<cfgOp, hw, dacDict, history>>

(* Mutant: a bias of 0 is written too.                                     *)
HasBias_Always(c) == TRUE

HasBias(c) == c.bias # 0

SetBias ==
  /\ cfgPc = "bias" /\ InRange(Afe.bias) /\ HasBias(Afe)
  /\ DacStep(Bias(Afe.afe), Afe.bias, "functions")
  /\ UNCHANGED enable

SkipBias ==
  /\ cfgPc = "bias" /\ InRange(Afe.bias) /\ ~HasBias(Afe)
  /\ cfgPc' = "functions"
  /\ UNCHANGED <<n, okAll, cfgAnswer, cfgOp, hw, dacDict, history>>

Functions == OtherStep("functions", "gain", n + 1)

(* The alignment follows a successful configuration, unless switched off.  *)
Configured ==
  /\ cfgPc = "gain" /\ n > Len(cfgOp.afes)
  /\ cfgAnswer' \in {DacFailure} \cup (IF okAll THEN {DacSuccess(0)} ELSE {})
  /\ cfgPc' = "idle" /\ n' = 1 /\ okAll' = TRUE
  /\ UNCHANGED <<cfgOp, hw, dacDict, history>>

(* The server ends at any moment and is started again.                     *)
Restart ==
  /\ restarts < MaxRestarts /\ restarts' = restarts + 1
  /\ cfgPc' = "idle" /\ n' = 1 /\ okAll' = TRUE
  /\ cfgOp' = [kind |-> "none"] /\ cfgAnswer' = NoDacAnswer
  /\ dacDict' = [d \in Dac |-> 0]
  /\ forgotten' = Dac /\ torn' = {} /\ dacBefore' = dac
  /\ UNCHANGED <<hw, writes>>

Configure ==
  \/ Channels \/ SetControl \/ SkipControl \/ SetGain \/ Reject \/ SetBias
  \/ SkipBias \/ Functions \/ Configured

ConfigNext ==
  \/ WriteAFEVgain \/ WriteAFEBiasVoltage \/ WriteBiasVoltageControl
  \/ RefuseDac \/ ReadAFEVgain \/ ReadAFEBiasSet \/ ReadVbiasControl
  \/ BeginConfigure
  \/ Configure
  \/ Restart

ConfigSpec == ConfigInit /\ [][ConfigNext]_configVars

-----------------------------------------------------------------------------
ConfigTypeOK ==
  /\ cfgPc \in {"idle", "channels", "hv", "gain", "bias", "functions"}
  /\ n \in Nat \ {0} /\ okAll \in BOOLEAN
  /\ dac \in [Dac -> 0..(FullScale - 1)]
  /\ dacBefore \in [Dac -> 0..(FullScale - 1)]
  /\ dacDict \in [Dac -> 0..(FullScale - 1)]
  /\ enable \in BOOLEAN
  /\ cfgAnswer.status \in {"none", "ok", "error"}
  /\ torn \subseteq Dac /\ forgotten \subseteq Dac
  /\ writes \in 0..MaxWrites /\ restarts \in 0..MaxRestarts

(* The dictionary holds what a DAC puts out, unless the last write of the  *)
(* DAC threw after its trigger or the server has not written it yet.       *)
ReportedIsSet == \A d \in Dac \ (torn \cup forgotten) : dacDict[d] = dac[d]

(* The entries of the list that set a DAC, and what they set it to.        *)
Sets(c, d) == d = Gain(c.afe) \/ (d = Bias(c.afe) /\ c.bias # 0)
Setting(c, d) == IF d = Gain(c.afe) THEN c.gain ELSE c.bias

(* The DACs after the bias control and the first k AFEs of a request: each *)
(* is as the last of them that sets it says.                               *)
After(before, o, k) ==
  [d \in Dac |->
     LET setters == {i \in 1..k : Sets(o.afes[i], d)} IN
     IF setters # {} THEN Setting(o.afes[Max(setters)], d)
     ELSE IF d = HvBias /\ AppliesControl(o) THEN Control(o) ELSE before[d]]

(* At every point of a configuration, and wherever it has failed, the bias *)
(* control and a prefix of the AFEs have been applied and nothing else; no *)
(* AFE is touched before the bias control is applied and switched on.  A   *)
(* success has applied them all.                                           *)
PrefixIsApplied ==
  cfgOp.kind = "configure" =>
    /\ \/ dac \in {dacBefore, After(dacBefore, cfgOp, 0)}
       \/ /\ AppliesControl(cfgOp) => enable
          /\ \E k \in 1..Len(cfgOp.afes) :
               \/ dac = After(dacBefore, cfgOp, k)
               \/ dac = [After(dacBefore, cfgOp, k - 1) EXCEPT
                           ![Gain(cfgOp.afes[k].afe)] = cfgOp.afes[k].gain]
    /\ cfgAnswer.status = "ok" => dac = After(dacBefore, cfgOp, Len(cfgOp.afes))

(* What a configuration leaves on the board is what the server reports:    *)
(* the registers hold words of their width, the dictionaries agree with    *)
(* the chips, and a request that stops halfway has applied a prefix.       *)
ConfigIsReported == ConfigTypeOK /\ ReportedIsSet /\ PrefixIsApplied

(* "Bias Control was not set in request but AFE bias values are present.   *)
(* Defaulting Bias Control to" full scale.                                 *)
UnsetControlIsDefaulted ==
  cfgOp.kind = "configure" /\ ~cfgOp.given /\ BiasRequested(cfgOp)
    /\ cfgAnswer.status = "ok" => dac[HvBias] = FullScale - 1

=============================================================================
