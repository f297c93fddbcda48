----------------------------- MODULE BoardProof -----------------------------
(***************************************************************************)
(* The self-trigger, its counters, the current monitor and the trim and    *)
(* offset DACs, for any number of channels and any requests, any width of  *)
(* a counter's words and any channels with an input of the converter.      *)
(***************************************************************************)
EXTENDS DacRegister, TriggerControl, TriggerCounters, CurrentMonitor,
        SequenceTheorems, WellFoundedInduction, TLAPS

(***************************************************************************)
(*                         The self-trigger                                *)
(***************************************************************************)
(* What has been done of the request when configureDaphne is at each step. *)
TriggerProgress ==
  LET r == trig.req IN
  /\ trig.at = "idle" \/ r \in TrigRequests
  /\ r.channels # {} /\ trig.at \in {"thresholds", "highMask"} =>
       /\ r.channels \subseteq TrigChannel
       /\ \A c \in r.channels \ trig.left : threshold[c] = Threshold(r)
  /\ trig.at \in {"thresholds", "highMask"} => r.channels # {}
  /\ trig.at \in {"highMask", "controls"} => trig.left = {}
  /\ trig.at = "highMask" /\ trigOk =>
       \A c \in TrigChannel : IsLow(c) => (c \in enabled <=> c \in r.channels)
  /\ trig.at \in {"controls", "idle"} /\ trigOk /\ r.channels # {} =>
       /\ r.channels \subseteq enabled
       /\ \A c \in r.channels : threshold[c] = Threshold(r)
       /\ \A c \in enabled \ r.channels : ~IsLow(c) /\ HighRequested = {}

TriggerInv ==
  /\ trig \in [at : {"idle", "thresholds", "highMask", "controls"},
               left : SUBSET TrigChannel,
               req : TrigRequests \cup {TrigIdle.req}]
  /\ TriggerTypeOK /\ EnabledHasThreshold /\ TriggerProgress

(* Min picks a member of a set of numbers: rules out an undefined CHOOSE.  *)
LEMMA MinOfNats ==
  ASSUME NEW S \in SUBSET Nat, S # {}
  PROVE  Min(S) \in S
<1> DEFINE R == OpToRel(<, Nat)
<1>1. PICK x \in S : \A y \in S : ~(<<y, x>> \in R)
  <2>1. IsWellFoundedOn(R, Nat)  BY NatLessThanWellFounded
  <2> HIDE DEF R
  <2> QED  BY <2>1, WFMin
<1>2. R = {ss \in Nat \X Nat : ss[1] < ss[2]}
  BY Zenon DEF OpToRel
<1> HIDE DEF R
<1>3. \A y \in S : x <= y
  <2> SUFFICES ASSUME NEW y \in S PROVE x <= y
    OBVIOUS
  <2>1. <<y, x>> \in Nat \X Nat /\ <<y, x>>[1] = y /\ <<y, x>>[2] = x
    OBVIOUS
  <2>2. ~(y < x)
    BY <1>1, <1>2, <2>1, Zenon
  <2> QED  BY <2>2
<1> QED  BY <1>3 DEF Min

(* A threshold fits the register whatever the request asks for.            *)
LEMMA ThresholdType ==
  ASSUME NEW r \in TrigRequests
  PROVE  Threshold(r) \in 0..ThresholdTop
<1>1. r.xcorr \in Nat /\ r.threshold \in Nat /\ ThresholdTop \in Nat
  BY TriggerAssumption
<1>2. r.xcorr % (ThresholdTop + 1) \in 0..ThresholdTop
  BY <1>1
<1> QED  BY <1>1, <1>2 DEF Threshold

LEMMA TriggerInitInv == TriggerInit => TriggerInv
<1> SUFFICES ASSUME TriggerInit PROVE TriggerInv
  OBVIOUS
<1>1. trig.at = "idle" /\ trig.left = {} /\ trig.req = TrigIdle.req
      /\ trig.req.channels = {} /\ trig = [at |-> trig.at, left |-> trig.left, req |-> trig.req]
  BY DEF TriggerInit, TrigIdle
<1> QED
  BY <1>1 DEF TriggerInit, TriggerInv, TriggerTypeOK, EnabledHasThreshold, TriggerProgress, NotWritten

(* One case per action; the request's channels are the ones written so     *)
(* far.                                                                    *)
LEMMA TriggerStep == TriggerInv /\ [TriggerNext]_triggerVars => TriggerInv'
<1> SUFFICES ASSUME TriggerInv, [TriggerNext]_triggerVars PROVE TriggerInv'
  OBVIOUS
<1> USE DEF TriggerInv, TriggerTypeOK
<1>0. TrigChannel \subseteq Nat /\ \A r \in TrigRequests : r = [channels |-> r.channels, threshold |-> r.threshold, xcorr |-> r.xcorr, tp |-> r.tp, mask |-> r.mask]
  BY TriggerAssumption DEF TrigChannel
<1>1. CASE ConfigureTriggers
  <2>1. PICK r \in TrigRequests :
          \/ /\ r.channels # {} /\ r.channels \subseteq TrigChannel
             /\ trig' = [at |-> "thresholds", left |-> r.channels, req |-> r]
             /\ trigOk' = TRUE
          \/ /\ trig' = [at |-> "controls", left |-> {}, req |-> r]
             /\ trigOk' = (r.channels = {})
    BY <1>1 DEF ConfigureTriggers
  <2>2. UNCHANGED <<threshold, enabled>>
    BY <1>1 DEF ConfigureTriggers
  <2>3. trigOk' \in BOOLEAN /\ (trig'.at = "controls" /\ trigOk' => r.channels = {})
    <3>1. CASE trig'.at = "thresholds" /\ trigOk' = TRUE
      BY <3>1
    <3>2. CASE trigOk' = (r.channels = {})
      BY <3>2, Zenon
    <3>3. \/ trig'.at = "thresholds" /\ trigOk' = TRUE
          \/ trigOk' = (r.channels = {})
      BY <2>1
    <3> QED  BY <3>1, <3>2, <3>3, Zenon
  <2> QED  BY <2>1, <2>2, <2>3 DEF TriggerProgress, EnabledHasThreshold, Threshold
<1>2. CASE WriteThreshold
  <2> DEFINE c == Min(trig.left)
  <2>1. c \in trig.left /\ c \in TrigChannel
    BY <1>2, <1>0, MinOfNats DEF WriteThreshold
  <2>2. Threshold(trig.req) \in 0..ThresholdTop /\ Threshold(trig.req) # NotWritten
    BY <1>2, ThresholdType, TriggerAssumption DEF WriteThreshold, TriggerProgress, NotWritten
  <2>3. /\ threshold' = [threshold EXCEPT ![c] = Threshold(trig.req)]
        /\ trig' = [trig EXCEPT !.left = @ \ {c}]
        /\ UNCHANGED <<enabled, control, trigOk>>
        /\ trig.at = "thresholds"
    BY <1>2 DEF WriteThreshold
  <2> HIDE DEF c
  <2>4. trig'.req = trig.req /\ trig'.at = trig.at /\ trig'.left = trig.left \ {c}
    BY <2>3
  <2>5. TriggerTypeOK' /\ EnabledHasThreshold'
    BY <2>1, <2>2, <2>3 DEF EnabledHasThreshold
  <2>6. TriggerProgress'
    BY <2>1, <2>2, <2>3, <2>4 DEF TriggerProgress, Threshold, HighRequested
  <2> QED  BY <2>3, <2>5, <2>6
<1>3. CASE WriteLowMask
  <2>1. /\ trig'.at = "highMask" /\ trig'.left = trig.left /\ trig'.req = trig.req
        /\ trig' \in [at : {"highMask"}, left : SUBSET TrigChannel,
                      req : TrigRequests \cup {TrigIdle.req}]
        /\ UNCHANGED threshold /\ trig.left = {} /\ trig.at = "thresholds"
    BY <1>3 DEF WriteLowMask, ThresholdsWritten
  <2>2. /\ trig.req \in TrigRequests /\ trig.req.channels # {}
        /\ trig.req.channels \subseteq TrigChannel
        /\ \A c \in trig.req.channels : threshold[c] = Threshold(trig.req) /\ threshold[c] # NotWritten
    BY <2>1, ThresholdType, TriggerAssumption DEF TriggerProgress, NotWritten
  <2>3. CASE /\ enabled' = {c \in enabled : ~IsLow(c)} \cup {c \in trig.req.channels : IsLow(c)}
             /\ UNCHANGED trigOk
    <3>1. \A c \in TrigChannel : IsLow(c) => (c \in enabled' <=> c \in trig.req.channels)
      BY <2>3, <2>2
    <3> QED  BY <2>1, <2>2, <2>3, <3>1 DEF TriggerProgress, EnabledHasThreshold, Threshold
  <2>4. CASE trigOk' = FALSE /\ UNCHANGED enabled
    BY <2>1, <2>2, <2>4 DEF TriggerProgress, EnabledHasThreshold, Threshold
  <2> QED  BY <1>3, <2>3, <2>4 DEF WriteLowMask
<1>4. CASE WriteHighMask
  <2>1. /\ trig'.at = "controls" /\ trig'.left = trig.left /\ trig'.req = trig.req
        /\ trig' \in [at : {"controls"}, left : SUBSET TrigChannel,
                      req : TrigRequests \cup {TrigIdle.req}]
        /\ UNCHANGED threshold /\ trig.at = "highMask"
    BY <1>4 DEF WriteHighMask
  <2>2. /\ trig.req \in TrigRequests /\ trig.req.channels # {}
        /\ trig.req.channels \subseteq TrigChannel
        /\ trig.left = {}
        /\ \A c \in trig.req.channels : threshold[c] = Threshold(trig.req) /\ threshold[c] # NotWritten
        /\ trigOk => \A c \in TrigChannel : IsLow(c) => (c \in enabled <=> c \in trig.req.channels)
    BY <2>1, ThresholdType, TriggerAssumption DEF TriggerProgress, NotWritten
  <2>3. CASE /\ enabled' = {c \in enabled : IsLow(c)} \cup HighRequested
             /\ UNCHANGED trigOk
    <3> DEFINE ch == trig.req.channels
    <3>0. \A c : c \in enabled' <=> (c \in enabled /\ IsLow(c)) \/ (c \in ch /\ ~IsLow(c))
      BY <2>3, Zenon DEF HighRequested
    <3>a. /\ ch \subseteq TrigChannel /\ enabled \subseteq TrigChannel
          /\ trigOk => \A c \in TrigChannel : IsLow(c) => (c \in enabled <=> c \in ch)
          /\ \A c \in ch : threshold[c] # NotWritten
      <4>1. enabled \subseteq TrigChannel
        OBVIOUS
      <4> QED  BY <2>2, <4>1, Zenon
    <3>b. \A c \in enabled : threshold[c] # NotWritten
      BY DEF EnabledHasThreshold
    <3> HIDE DEF ch
    <3>1. trigOk => enabled' = ch
      BY <3>0, <3>a, Zenon
    <3>2. enabled' \subseteq TrigChannel /\ \A c \in enabled' : threshold[c] # NotWritten
      BY <3>0, <3>a, <3>b, Zenon
    <3> USE DEF ch
    <3> QED  BY <2>1, <2>2, <2>3, <3>1, <3>2 DEF TriggerProgress, EnabledHasThreshold, Threshold
  <2>4. CASE HighMaskFails
    <3>1. trigOk' = (trigOk /\ HighRequested = {}) /\ UNCHANGED enabled
      BY <2>4 DEF HighMaskFails
    <3>2. trigOk' \in BOOLEAN /\ (trigOk' => trigOk /\ HighRequested = {})
      BY <3>1, Zenon
    <3>3. HighRequested' = HighRequested
      BY <2>1 DEF HighRequested, IsLow
    <3>4. trigOk' => /\ trig.req.channels \subseteq enabled
                     /\ \A c \in enabled \ trig.req.channels : ~IsLow(c)
      <4>1. trigOk' => \A c \in trig.req.channels : IsLow(c)
        BY <3>2, Zenon DEF HighRequested
      <4>2. enabled \subseteq TrigChannel
        OBVIOUS
      <4> SUFFICES ASSUME trigOk'
                   PROVE  /\ trig.req.channels \subseteq enabled
                          /\ \A c \in enabled \ trig.req.channels : ~IsLow(c)
        OBVIOUS
      <4>3. \A c \in TrigChannel : IsLow(c) => (c \in enabled <=> c \in trig.req.channels)
        BY <2>2, <3>2, Zenon
      <4>4. trig.req.channels \subseteq TrigChannel
        BY <2>2, Zenon
      <4> QED  BY <4>1, <4>2, <4>3, <4>4, Zenon
    <3> QED  BY <2>1, <2>2, <3>1, <3>2, <3>3, <3>4 DEF TriggerProgress, EnabledHasThreshold, Threshold
  <2> QED  BY <1>4, <2>3, <2>4 DEF WriteHighMask
<1>5. CASE WriteControls
  <2>1. /\ trig'.at = "idle" /\ trig'.left = trig.left /\ trig'.req = trig.req
        /\ trig' \in [at : {"idle"}, left : SUBSET TrigChannel,
                      req : TrigRequests \cup {TrigIdle.req}]
        /\ UNCHANGED <<threshold, enabled>> /\ trig.at = "controls"
    BY <1>5 DEF WriteControls
  <2>2. trigOk' = FALSE \/ UNCHANGED trigOk
    BY <1>5 DEF WriteControls
  <2>3. HighRequested' = HighRequested
    BY <2>1 DEF HighRequested, IsLow
  <2>4. TriggerTypeOK' /\ EnabledHasThreshold'
    BY <2>1, <2>2 DEF EnabledHasThreshold
  <2>5. TriggerProgress'
    BY <2>1, <2>2, <2>3 DEF TriggerProgress
  <2> QED  BY <2>1, <2>4, <2>5
<1>6. CASE TriggerRestart
  BY <1>6, <1>0 DEF TriggerRestart, TrigIdle, TriggerProgress, EnabledHasThreshold, HighRequested, Threshold, IsLow
<1>7. CASE UNCHANGED triggerVars
  BY <1>7 DEF triggerVars, TriggerProgress, EnabledHasThreshold, HighRequested, Threshold, IsLow
<1> QED  BY <1>1, <1>2, <1>3, <1>4, <1>5, <1>6, <1>7 DEF TriggerNext

(* For every sequence of configurations, failed mappings and kills of the  *)
(* server, and any number of channels: no channel triggers on a threshold  *)
(* that no configuration gave it, and a trigger configuration that         *)
(* configureDaphne finds nothing wrong with (write_trigger_thresholds, the *)
(* two mask registers) enables the requested channels on the requested     *)
(* threshold.                                                              *)
THEOREM TriggersAreTrue == TriggerSpec => []TriggersAreAsAsked
<1>1. TriggerInv => TriggersAreAsAsked
  BY DEF TriggerInv, TriggersAreAsAsked, OkEnablesRequested, TriggerProgress
<1> QED  BY <1>1, TriggerInitInv, TriggerStep, PTL DEF TriggerSpec

(***************************************************************************)
(*                           The trigger counters                          *)
(***************************************************************************)
CounterTypes ==
  /\ count \in [CountedChannel -> Nat]
  /\ reader \in {"idle", "first", "second"}
  /\ list \in Seq(Nat)
  /\ half \in [word : Nat, of : Nat]
  /\ snapshots \in Seq([channel : Nat, from : Nat, to : Nat, value : Nat])

(* Between its two reads the handler holds the low word of a value that    *)
(* the counter had, and the counter has not gone back since.               *)
HalfIsRead ==
  reader = "second" =>
    /\ list # <<>> /\ Head(list) \in CountedChannel
    /\ half.word = WordOf("lo", half.of)
    /\ half.of <= count[Head(list)]

CounterInv == CounterTypes /\ HalfIsRead /\ CountIsNotBehind

(* A count is its high word and its low word.                              *)
LEMMA DivMod ==
  ASSUME NEW n \in Nat
  PROVE  /\ n \div WordSize \in Nat /\ n % WordSize \in 0..(WordSize - 1)
         /\ n = (n \div WordSize) * WordSize + (n % WordSize)
BY CounterAssumption

(* The two words, the second read later, make a number that is one the     *)
(* counter had in between, or that plus one carry.                         *)
LEMMA TwoWords ==
  ASSUME NEW a \in Nat, NEW b \in Nat, a <= b
  PROVE  LET v == WordOf("lo", a) + WordOf("hi", b) IN
         v \in Nat /\ (v \in a..b \/ v - WordSize \in a..b)
<1> DEFINE W == WordSize
           p == a \div W
           q == b \div W
           r == a % W
           s == b % W
<1>1. /\ W \in Nat /\ W > 0 /\ p \in Nat /\ q \in Nat
      /\ r \in 0..(W - 1) /\ s \in 0..(W - 1)
      /\ a = p * W + r /\ b = q * W + s
  BY DivMod, CounterAssumption
<1>2. WordOf("lo", a) = r /\ WordOf("hi", b) = q * W
  BY DEF WordOf
<1> HIDE DEF W, p, q, r, s
<1>3. q >= p
  <2> SUFFICES ASSUME q < p PROVE FALSE
    BY <1>1
  <2>1. q + 1 <= p
    BY <1>1
  <2>2. (q + 1) * W <= p * W
    BY <1>1, <2>1
  <2>3. (q + 1) * W = q * W + W
    BY <1>1
  <2>4. q * W \in Nat /\ p * W \in Nat
    BY <1>1
  <2> QED  BY <1>1, <2>2, <2>3, <2>4
<1>4. CASE q = p
  BY <1>1, <1>2, <1>4
<1>5. CASE q > p
  <2> DEFINE d == (q - 1) * W
  <2>1. q * W = d + W /\ d \in Nat /\ p * W \in Nat /\ q * W \in Nat
    BY <1>1, <1>5
  <2>2. p * W <= d
    BY <1>1, <1>5
  <2> HIDE DEF d
  <2>3. r + q * W - W \in a..b
    BY <1>1, <2>1, <2>2
  <2> QED  BY <1>1, <1>2, <2>1, <2>3 DEF W
<1> QED  BY <1>1, <1>3, <1>4, <1>5

LEMMA AppendEntry ==
  ASSUME NEW X, NEW s \in Seq(X), NEW e \in X, NEW i \in DOMAIN Append(s, e)
  PROVE  \/ i \in DOMAIN s /\ Append(s, e)[i] = s[i]
         \/ Append(s, e)[i] = e
OBVIOUS

LEMMA CounterInitInv == CounterInit => CounterInv
BY DEF CounterInit, CounterInv, CounterTypes, HalfIsRead, CountIsNotBehind, NoHalf

LEMMA CounterStep == CounterInv /\ [CounterNext]_counterVars => CounterInv'
<1> SUFFICES ASSUME CounterInv, [CounterNext]_counterVars PROVE CounterInv'
  OBVIOUS
<1> USE DEF CounterInv, CounterTypes
<1>1. CASE Count
  <2>1. PICK c \in CountedChannel : count' = [count EXCEPT ![c] = count[c] + 1]
    BY <1>1 DEF Count
  <2>2. UNCHANGED <<reader, list, half, snapshots>>
    BY <1>1 DEF Count
  <2>3. count' \in [CountedChannel -> Nat] /\ \A d \in CountedChannel : count[d] <= count'[d]
    BY <2>1
  <2>4. HalfIsRead'
    BY <2>2, <2>3 DEF HalfIsRead, WordOf
  <2> QED  BY <2>2, <2>3, <2>4 DEF CountIsNotBehind
<1>2. CASE ReadCounters
  <2>1. [i \in 1..NumCounters |-> i - 1] \in Seq(Nat)
    BY CounterAssumption
  <2>2. list' \in Seq(Nat) /\ reader' \in {"idle", "first"}
    BY <1>2, <2>1, CounterAssumption DEF ReadCounters
  <2>3. snapshots' = <<>> /\ UNCHANGED <<count, half>>
    BY <1>2 DEF ReadCounters
  <2> QED  BY <2>2, <2>3 DEF HalfIsRead, CountIsNotBehind
<1>3. CASE PassChannel
  BY <1>3 DEF PassChannel, HalfIsRead, CountIsNotBehind
<1>4. CASE ReadFirstWord
  <2> DEFINE a == count[Head(list)]
  <2>1. /\ reader' = "second" /\ half' = [word |-> WordOf("lo", a), of |-> a]
        /\ list # <<>> /\ Head(list) \in CountedChannel
        /\ UNCHANGED <<count, list, snapshots>>
    BY <1>4 DEF ReadFirstWord, FirstWord
  <2>2. a \in Nat /\ WordOf("lo", a) \in Nat
    <3>1. a \in Nat
      BY <2>1
    <3> HIDE DEF a
    <3>2. a % WordSize \in Nat
      BY <3>1, DivMod, CounterAssumption
    <3> QED  BY <3>1, <3>2 DEF WordOf
  <2> HIDE DEF a
  <2>3. half' \in [word : Nat, of : Nat] /\ half'.word = WordOf("lo", half'.of) /\ half'.of = a
    BY <2>1, <2>2
  <2>4. HalfIsRead'
    BY <2>1, <2>2, <2>3 DEF HalfIsRead, a, WordOf
  <2> QED  BY <2>1, <2>3, <2>4 DEF CountIsNotBehind
<1>5. CASE ReadSecondWord
  <2> DEFINE c == Head(list)
             e == [channel |-> c, from |-> half.of, to |-> count[c],
                   value |-> half.word + WordOf("hi", count[c])]
  <2>1. /\ reader' = "first" /\ list' = Tail(list) /\ half' = NoHalf
        /\ snapshots' = Append(snapshots, e) /\ UNCHANGED count
        /\ list # <<>> /\ c \in CountedChannel
    BY <1>5 DEF ReadSecondWord, SecondWord, FirstWord, HalfIsRead
  <2>2. /\ half.of \in Nat /\ count[c] \in Nat /\ c \in Nat
        /\ half.of <= count[c] /\ half.word = WordOf("lo", half.of)
    BY <1>5, <2>1 DEF ReadSecondWord, HalfIsRead
  <2>3. /\ e.value \in Nat
        /\ e.value \in e.from..e.to \/ e.value - WordSize \in e.from..e.to
    BY <2>2, TwoWords
  <2>4. e \in [channel : Nat, from : Nat, to : Nat, value : Nat]
    BY <2>2, <2>3
  <2> HIDE DEF e, c
  <2>5. list' \in Seq(Nat) /\ NoHalf \in [word : Nat, of : Nat]
    BY <2>1 DEF NoHalf
  <2>6. CountIsNotBehind'
    <3> SUFFICES ASSUME NEW i \in DOMAIN snapshots'
                 PROVE  LET s == snapshots'[i] IN
                          \/ s.value \in s.from..s.to
                          \/ s.value - WordSize \in s.from..s.to
      BY DEF CountIsNotBehind
    <3> DEFINE X == [channel : Nat, from : Nat, to : Nat, value : Nat]
    <3>a. snapshots \in Seq(X) /\ e \in X
      BY <2>4
    <3> HIDE DEF X
    <3>0. i \in DOMAIN Append(snapshots, e)
      BY <2>1, Zenon
    <3>1. \/ i \in DOMAIN snapshots /\ Append(snapshots, e)[i] = snapshots[i]
          \/ Append(snapshots, e)[i] = e
      BY <3>a, <3>0, AppendEntry, Zenon
    <3>2. \/ i \in DOMAIN snapshots /\ snapshots'[i] = snapshots[i]
          \/ snapshots'[i] = e
      BY <2>1, <3>1, Zenon
    <3> QED  BY <2>3, <3>2 DEF CountIsNotBehind
  <2> QED  BY <2>1, <2>4, <2>5, <2>6 DEF HalfIsRead
<1>6. CASE CountersRead
  BY <1>6 DEF CountersRead, HalfIsRead, CountIsNotBehind
<1>7. CASE UNCHANGED counterVars
  BY <1>7 DEF counterVars, HalfIsRead, CountIsNotBehind, WordOf
<1> QED  BY <1>1, <1>2, <1>3, <1>4, <1>5, <1>6, <1>7 DEF CounterNext

(* For words of any width and any number of counts between the two reads   *)
(* of rd64: the count that read_counters_raw reports is one that the       *)
(* counter had, or one carry ahead of it.                                  *)
THEOREM CountsAreNotBehind == CounterSpec => []CountIsNotBehind
<1> QED  BY CounterInitInv, CounterStep, PTL DEF CounterSpec, CounterInv

(***************************************************************************)
(*                           The current monitor                           *)
(***************************************************************************)
Byte == {"any", "ads", "other", "reset", "none"} \cup {CmMux[c] : c \in DOMAIN CmMux}

(* The last byte that came in.                                             *)
Newest == IF spi.rx = <<>> THEN received[Len(received)] ELSE spi.rx[Len(spi.rx)]

CurrentTypes ==
  /\ cm \in [at : {"idle", "load", "poll"}, ch : CmChannels \cup {0}, k : 1..11, reading : Byte]
  /\ received \in Seq(Byte)
  /\ spi \in [tx : Seq(Nat), rx : Seq(Byte), on : BOOLEAN]
  /\ adc \in [mux : Byte, converted : Byte]

(* A transfer collects as many bytes as it sends, so that the byte the     *)
(* handler looks at is the converter's answer to the last one sent.        *)
TransferInv ==
  cm.at = "poll" =>
    /\ Len(received) + Len(spi.rx) + Len(spi.tx) = T.n
    /\ spi.tx = <<>> /\ cm.k = 7 => Newest = adc.mux
    /\ spi.tx = <<>> /\ cm.k = 9 => Newest = adc.converted

Started == cm.k >= 9 \/ (cm.k = 8 /\ cm.at = "poll" /\ spi.tx = <<>>)

(* The input is right once it has been read back, the conversion once it   *)
(* has been started, and the reading once it has been taken.               *)
ReadingInv ==
  cm.at # "idle" =>
    /\ cm.ch \in DOMAIN CmMux
    /\ cm.k >= 8 => adc.mux = CmMux[cm.ch]
    /\ Started => deaf \/ adc.converted = CmMux[cm.ch]
    /\ cm.k >= 10 => deaf \/ cm.reading = CmMux[cm.ch]

CurrentInv == CurrentTypes /\ TransferInv /\ ReadingInv /\ CurrentIsOfChannel

(* Where in read_current_monitor_raw each kind of transfer stands.         *)
LEMMA TransferFacts ==
  /\ Len(Transfers) = 11
  /\ \A k \in 1..11 :
       LET t == Transfers[k] IN
       /\ t.n \in Nat \ {0}
       /\ t.op = "RESET" <=> k = 1
       /\ t.reg = "ID" <=> k = 2
       /\ (t.op = "WREG" /\ t.reg = "INPMUX") <=> k = 6
       /\ (t.op = "RREG" /\ t.reg = "INPMUX") <=> k = 7
       /\ t.op = "START" <=> k = 8
       /\ t.op = "RDATA" <=> k = 9
BY DEF Transfers, Transfer

LEMMA TailFacts ==
  ASSUME NEW X, NEW s \in Seq(X), s # <<>>
  PROVE  /\ Head(s) \in X /\ Tail(s) \in Seq(X) /\ Len(s) \in Nat \ {0}
         /\ Len(Tail(s)) = Len(s) - 1
         /\ Tail(s) = <<>> <=> Len(s) = 1
         /\ Len(s) = 1 => s[Len(s)] = Head(s)
         /\ Len(s) # 1 => Tail(s)[Len(Tail(s))] = s[Len(s)]
<1>1. /\ Head(s) \in X /\ Head(s) = s[1] /\ Tail(s) \in Seq(X)
      /\ Len(s) \in Nat \ {0} /\ Len(Tail(s)) = Len(s) - 1
      /\ \A i \in 1..(Len(s) - 1) : Tail(s)[i] = s[i + 1]
  OBVIOUS
<1>2. Tail(s) = <<>> <=> Len(Tail(s)) = 0
  BY <1>1
<1>3. ASSUME Len(s) # 1 PROVE Tail(s)[Len(s) - 1] = s[Len(s)]
  <2>1. Len(s) - 1 \in 1..(Len(s) - 1) /\ (Len(s) - 1) + 1 = Len(s)
    BY <1>1, <1>3
  <2> QED  BY <1>1, <2>1
<1> QED  BY <1>1, <1>2, <1>3

LEMMA AppendFacts ==
  ASSUME NEW X, NEW s \in Seq(X), NEW e \in X
  PROVE  /\ Append(s, e) \in Seq(X) /\ Append(s, e) # <<>>
         /\ Len(s) \in Nat /\ Len(Append(s, e)) = Len(s) + 1
         /\ Append(s, e)[Len(Append(s, e))] = e
OBVIOUS

LEMMA CurrentInitInv == CurrentInit => CurrentInv
BY DEF CurrentInit, CurrentInv, CurrentTypes, TransferInv, ReadingInv, CurrentIsOfChannel, CmIdle, NoCurrent, Byte

(* One lemma per action.                                                   *)
LEMMA ReadCurrentStep == ASSUME CurrentInv, ReadCurrent PROVE CurrentInv'
<1> USE DEF CurrentInv, CurrentTypes
<1>1. PICK ch \in CmChannels :
        \/ Refuse(ch) /\ UNCHANGED <<cm, spi, deaf>>
        \/ /\ ch \in DOMAIN CmMux
           /\ cm' = [CmIdle EXCEPT !.at = "load", !.ch = ch]
           /\ spi' = Emptied /\ deaf' = FALSE
           /\ current' = NoCurrent
  BY DEF ReadCurrent
<1>2. UNCHANGED <<received, adc>> /\ cm.at = "idle"
  BY DEF ReadCurrent
<1>3. CASE Refuse(ch) /\ UNCHANGED <<cm, spi, deaf>>
  BY <1>2, <1>3 DEF Refuse, NoCurrent, TransferInv, ReadingInv, CurrentIsOfChannel
<1>4. CASE /\ ch \in DOMAIN CmMux
           /\ cm' = [CmIdle EXCEPT !.at = "load", !.ch = ch]
           /\ spi' = Emptied /\ deaf' = FALSE
           /\ current' = NoCurrent
  <2>1. cm' = [at |-> "load", ch |-> ch, k |-> 1, reading |-> "none"]
    BY <1>4 DEF CmIdle
  <2>2. CurrentTypes'
    BY <1>2, <1>4, <2>1 DEF Emptied, Byte
  <2>3. TransferInv' /\ ReadingInv'
    <3>1. cm'.at = "load" /\ cm'.k = 1 /\ cm'.ch = ch
      BY <2>1
    <3>2. ~Started'
      BY <3>1 DEF Started
    <3> QED  BY <1>4, <3>1, <3>2 DEF TransferInv, ReadingInv
  <2>4. CurrentIsOfChannel'
    BY <1>4 DEF CurrentIsOfChannel, NoCurrent
  <2> QED  BY <2>2, <2>3, <2>4
<1> QED  BY <1>1, <1>3, <1>4

LEMMA LoadStep == ASSUME CurrentInv, LoadTransfer PROVE CurrentInv'
<1> USE DEF CurrentInv, CurrentTypes
<1> DEFINE tx == [i \in 1..T.n |-> i]
<1>1. T.n \in Nat \ {0}
  BY TransferFacts DEF T
<1>2. tx \in Seq(Nat) /\ Len(tx) = T.n /\ tx # <<>> /\ <<>> \o tx = tx
  BY <1>1
<1> HIDE DEF tx
<1>3. spi' = [tx |-> tx, rx |-> <<>>, on |-> TRUE]
  BY <1>2 DEF LoadTransfer, Emptied, tx
<1>4. /\ cm.at = "load" /\ received' = <<>> /\ UNCHANGED <<adc, deaf, current>>
      /\ cm' = [cm EXCEPT !.at = "poll"]
  BY DEF LoadTransfer
<1>5. /\ cm'.at = "poll" /\ cm'.ch = cm.ch /\ cm'.k = cm.k /\ cm'.reading = cm.reading
      /\ cm' \in [at : {"poll"}, ch : CmChannels \cup {0}, k : 1..11, reading : Byte]
  BY <1>4
<1>6. CurrentTypes'
  BY <1>2, <1>3, <1>4, <1>5
<1>7. T' = T
  BY <1>5 DEF T
<1>8. TransferInv'
  BY <1>1, <1>2, <1>3, <1>4, <1>5, <1>7 DEF TransferInv
<1>9. ReadingInv'
  BY <1>2, <1>3, <1>4, <1>5 DEF ReadingInv, Started
<1> QED  BY <1>4, <1>6, <1>8, <1>9 DEF CurrentIsOfChannel

LEMMA ShiftStep == ASSUME CurrentInv, Shift PROVE CurrentInv'
<1> USE DEF CurrentInv, CurrentTypes
<1> DEFINE last == Len(spi.tx) = 1
<1>1. /\ cm.at = "poll" /\ spi.tx # <<>> /\ UNCHANGED <<cm, received, current>>
  BY DEF Shift
<1>2. PICK byte \in IF Len(spi.tx) = 1 THEN Answers ELSE {"any"} :
        spi' = [spi EXCEPT !.tx = Tail(@), !.rx = Append(@, byte)]
  BY DEF Shift
<1>3. byte \in Byte
  BY <1>2 DEF Answers, Byte
<1>a. spi.tx \in Seq(Nat) /\ spi.rx \in Seq(Byte)
  OBVIOUS
<1>b. /\ Tail(spi.tx) \in Seq(Nat) /\ Len(spi.tx) \in Nat \ {0}
      /\ Len(Tail(spi.tx)) = Len(spi.tx) - 1
      /\ Tail(spi.tx) = <<>> <=> Len(spi.tx) = 1
  BY <1>1, <1>a, TailFacts
<1>c. /\ Append(spi.rx, byte) \in Seq(Byte) /\ Append(spi.rx, byte) # <<>>
      /\ Len(spi.rx) \in Nat /\ Len(Append(spi.rx, byte)) = Len(spi.rx) + 1
      /\ Append(spi.rx, byte)[Len(Append(spi.rx, byte))] = byte
  BY <1>3, <1>a, AppendFacts
<1>4. /\ spi'.tx = Tail(spi.tx) /\ spi'.rx = Append(spi.rx, byte)
      /\ spi' \in [tx : Seq(Nat), rx : Seq(Byte), on : BOOLEAN]
  BY <1>2, <1>b, <1>c
<1>5. /\ Len(spi'.tx) = Len(spi.tx) - 1 /\ Len(spi'.rx) = Len(spi.rx) + 1
      /\ spi'.rx # <<>> /\ spi'.rx[Len(spi'.rx)] = byte
      /\ spi'.tx = <<>> <=> Len(spi.tx) = 1
  BY <1>4, <1>b, <1>c
<1>6. T' = T
  BY <1>1 DEF T
<1>7. \/ Len(spi.tx) = 1 /\ adc' = Done(adc) /\ deaf' = deaf
      \/ /\ adc' = adc
         /\ deaf' = (deaf \/ (Len(spi.tx) = 1 /\ T.op = "START"))
  BY DEF Shift
<1>8. cm.k \in 1..11 /\ cm.ch \in DOMAIN CmMux
  BY <1>1 DEF ReadingInv
<1>9. /\ cm.k = 7 /\ Len(spi.tx) = 1 => byte = adc.mux
      /\ cm.k = 9 /\ Len(spi.tx) = 1 => byte = adc.converted
  <2>1. /\ T.reg = "ID" <=> cm.k = 2
        /\ (T.op = "RREG" /\ T.reg = "INPMUX") <=> cm.k = 7
        /\ T.op = "RDATA" <=> cm.k = 9
    BY <1>8, TransferFacts DEF T
  <2>2. ASSUME cm.k = 7 PROVE Answers = {adc.mux}
    <3>1. T.op = "RREG" /\ T.reg = "INPMUX" /\ ~(T.reg = "ID")
      BY <2>1, <2>2
    <3> QED  BY <3>1 DEF Answers
  <2>3. ASSUME cm.k = 9 PROVE Answers = {adc.converted}
    <3>1. T.op = "RDATA" /\ ~(T.reg = "ID") /\ ~(T.reg = "INPMUX" /\ T.op = "RREG")
      BY <2>1, <2>3
    <3> QED  BY <3>1 DEF Answers
  <2> QED  BY <1>2, <2>2, <2>3
<1>10. CASE Len(spi.tx) = 1 /\ adc' = Done(adc) /\ deaf' = deaf
  <2>1. /\ adc' \in [mux : Byte, converted : Byte]
        /\ cm.k \notin {1, 6, 8} => adc' = adc
        /\ cm.k = 8 => adc'.mux = adc.mux /\ adc'.converted = adc.mux
    <3>1. /\ T.op = "RESET" <=> cm.k = 1
          /\ (T.op = "WREG" /\ T.reg = "INPMUX") <=> cm.k = 6
          /\ T.op = "START" <=> cm.k = 8
      BY <1>8, TransferFacts DEF T
    <3>2. /\ CmMux[cm.ch] \in Byte /\ "reset" \in Byte /\ "none" \in Byte
          /\ adc \in [mux : Byte, converted : Byte]
      BY <1>8 DEF Byte
    <3>3. CASE cm.k = 1
      <4>1. adc' = [mux |-> "reset", converted |-> "none"]
        BY <1>10, <3>1, <3>3 DEF Done
      <4> QED  BY <3>2, <3>3, <4>1
    <3>4. CASE cm.k = 6
      <4>1. adc' = [adc EXCEPT !.mux = CmMux[cm.ch]]
        BY <1>10, <3>1, <3>4 DEF Done
      <4> QED  BY <3>2, <3>4, <4>1
    <3>5. CASE cm.k = 8
      <4>1. adc' = [adc EXCEPT !.converted = adc.mux]
        BY <1>10, <3>1, <3>5 DEF Done
      <4> QED  BY <3>2, <3>5, <4>1
    <3>6. CASE cm.k \notin {1, 6, 8}
      <4>1. adc' = adc
        BY <1>10, <3>1, <3>6 DEF Done
      <4> QED  BY <3>2, <3>6, <4>1
    <3> QED  BY <3>3, <3>4, <3>5, <3>6
  <2>2. TransferInv'
    <3>1. Newest' = byte
      BY <1>5 DEF Newest
    <3>2. Len(received') + Len(spi'.rx) + Len(spi'.tx) = T.n
      BY <1>1, <1>5, <1>b, <1>c DEF TransferInv
    <3> QED  BY <1>1, <1>5, <1>6, <1>9, <2>1, <3>1, <3>2 DEF TransferInv
  <2>3. ReadingInv'
    BY <1>1, <1>5, <1>10, <2>1 DEF ReadingInv, Started
  <2> QED  BY <1>1, <1>4, <2>1, <2>2, <2>3 DEF CurrentIsOfChannel
<1>11. CASE /\ adc' = adc
            /\ deaf' = (deaf \/ (Len(spi.tx) = 1 /\ T.op = "START"))
  <2>1. (deaf => deaf') /\ (Len(spi.tx) = 1 /\ T.op = "START" => deaf')
    BY <1>11, Zenon
  <2>2. cm.k = 8 => T.op = "START"
    BY <1>8, TransferFacts DEF T
  <2>3. TransferInv'
    <3>1. Newest' = byte
      BY <1>5 DEF Newest
    <3>2. Len(received') + Len(spi'.rx) + Len(spi'.tx) = T.n
      BY <1>1, <1>5, <1>b, <1>c DEF TransferInv
    <3> QED  BY <1>1, <1>5, <1>6, <1>9, <1>11, <3>1, <3>2 DEF TransferInv
  <2>4. ReadingInv'
    BY <1>1, <1>5, <1>11, <2>1, <2>2 DEF ReadingInv, Started
  <2> QED  BY <1>1, <1>4, <1>11, <2>3, <2>4 DEF CurrentIsOfChannel
<1> QED  BY <1>7, <1>10, <1>11

LEMMA PollStep == ASSUME CurrentInv, PollByte PROVE CurrentInv'
<1> USE DEF CurrentInv, CurrentTypes
<1>1. /\ cm.at = "poll" /\ spi.rx # <<>> /\ UNCHANGED <<cm, adc, deaf, current>>
      /\ received' = Append(received, Head(spi.rx))
      /\ spi' = [spi EXCEPT !.rx = Tail(@)]
  BY DEF PollByte
<1>a. spi.rx \in Seq(Byte) /\ received \in Seq(Byte)
  OBVIOUS
<1>b. /\ Head(spi.rx) \in Byte /\ Tail(spi.rx) \in Seq(Byte)
      /\ Len(spi.rx) \in Nat \ {0} /\ Len(Tail(spi.rx)) = Len(spi.rx) - 1
      /\ Tail(spi.rx) = <<>> <=> Len(spi.rx) = 1
      /\ Len(spi.rx) = 1 => spi.rx[Len(spi.rx)] = Head(spi.rx)
      /\ Len(spi.rx) # 1 => Tail(spi.rx)[Len(Tail(spi.rx))] = spi.rx[Len(spi.rx)]
  BY <1>1, <1>a, TailFacts
<1>c. /\ received' \in Seq(Byte) /\ Len(received) \in Nat
      /\ Len(received') = Len(received) + 1
      /\ received'[Len(received')] = Head(spi.rx)
  BY <1>1, <1>a, <1>b, AppendFacts
<1>2. /\ spi'.tx = spi.tx /\ spi'.rx = Tail(spi.rx)
      /\ spi' \in [tx : Seq(Nat), rx : Seq(Byte), on : BOOLEAN]
  BY <1>1, <1>b
<1>4. Newest' = Newest
  BY <1>1, <1>2, <1>b, <1>c DEF Newest
<1>5. T' = T
  BY <1>1 DEF T
<1>6. TransferInv'
  <2>1. Len(received') + Len(spi'.rx) + Len(spi'.tx) = T.n
    <3>1. Len(spi.tx) \in Nat
      OBVIOUS
    <3> QED  BY <1>1, <1>2, <1>b, <1>c, <3>1 DEF TransferInv
  <2> QED  BY <1>1, <1>2, <1>4, <1>5, <2>1 DEF TransferInv
<1>7. ReadingInv'
  BY <1>1, <1>2 DEF ReadingInv, Started
<1> QED  BY <1>1, <1>2, <1>c, <1>6, <1>7 DEF CurrentIsOfChannel

LEMMA DeadlineStep == ASSUME CurrentInv, PollDeadline PROVE CurrentInv'
<1> USE DEF CurrentInv, CurrentTypes
<1>1. /\ cm' = CmIdle /\ UNCHANGED <<received, adc, deaf>>
      /\ spi' = [spi EXCEPT !.on = FALSE] /\ current'.ok = FALSE
  BY DEF PollDeadline, Refuse, NoCurrent
<1>2. CurrentTypes'
  <2>1. cm' \in [at : {"idle", "load", "poll"}, ch : CmChannels \cup {0},
                  k : 1..11, reading : Byte]
    BY <1>1 DEF CmIdle, Byte
  <2>2. spi' \in [tx : Seq(Nat), rx : Seq(Byte), on : BOOLEAN]
    BY <1>1
  <2> QED  BY <1>1, <2>1, <2>2
<1>3. TransferInv' /\ ReadingInv'
  BY <1>1 DEF CmIdle, TransferInv, ReadingInv
<1> QED  BY <1>1, <1>2, <1>3 DEF CurrentIsOfChannel

LEMMA DoneStep == ASSUME CurrentInv, TransferDone PROVE CurrentInv'
<1> USE DEF CurrentInv, CurrentTypes
<1> DEFINE reading == IF T.op = "RDATA" THEN LastByte ELSE cm.reading
<1>1. /\ cm.at = "poll" /\ Len(received) = T.n
      /\ spi' = [spi EXCEPT !.on = FALSE] /\ UNCHANGED <<received, adc, deaf>>
  BY DEF TransferDone
<1>2. /\ spi' \in [tx : Seq(Nat), rx : Seq(Byte), on : BOOLEAN]
      /\ cm.k \in 1..11 /\ cm.ch \in DOMAIN CmMux /\ cm.ch \in CmChannels \cup {0}
  BY <1>1 DEF ReadingInv
<1>3. spi.tx = <<>> /\ spi.rx = <<>> /\ Newest = LastByte /\ LastByte \in Byte
  <2>1. T.n \in Nat \ {0} /\ Len(received) + Len(spi.rx) + Len(spi.tx) = T.n
    BY <1>1, <1>2, TransferFacts DEF TransferInv, T
  <2>2. Len(spi.rx) = 0 /\ Len(spi.tx) = 0
    BY <1>1, <2>1
  <2>3. spi.rx = <<>> /\ spi.tx = <<>>
    BY <2>2
  <2> QED  BY <1>1, <2>1, <2>3 DEF Newest, LastByte
<1>4. /\ reading \in Byte
      /\ cm.k = 9 => deaf \/ reading = CmMux[cm.ch]
      /\ cm.k # 9 => reading = cm.reading
      /\ cm.k = 7 /\ Accepted => adc.mux = CmMux[cm.ch]
  <2>1. /\ (T.op = "RREG" /\ T.reg = "INPMUX") <=> cm.k = 7
        /\ T.op = "RDATA" <=> cm.k = 9
    BY <1>2, TransferFacts DEF T
  <2>2. /\ cm.k = 7 => LastByte = adc.mux
        /\ cm.k = 9 => LastByte = adc.converted
        /\ cm.k = 9 => deaf \/ adc.converted = CmMux[cm.ch]
    BY <1>1, <1>3 DEF TransferInv, ReadingInv, Started
  <2>3. cm.k = 7 /\ Accepted => LastByte = CmMux[cm.ch]
    BY <2>1 DEF Accepted
  <2> QED  BY <1>3, <2>1, <2>2, <2>3
<1> HIDE DEF reading
<1>5. CASE /\ Accepted /\ cm.k < Len(Transfers)
           /\ cm' = [cm EXCEPT !.at = "load", !.k = @ + 1, !.reading = reading]
           /\ UNCHANGED current
  <2>1. /\ cm'.at = "load" /\ cm'.k = cm.k + 1 /\ cm'.ch = cm.ch /\ cm'.reading = reading
        /\ cm' \in [at : {"load"}, ch : CmChannels \cup {0}, k : 1..11, reading : Byte]
    <3>1. cm.k + 1 \in 1..11
      <4>1. Len(Transfers) = 11
        BY TransferFacts
      <4> QED  BY <1>2, <1>5, <4>1
    <3>2. cm \in [at : {"idle", "load", "poll"}, ch : CmChannels \cup {0}, k : 1..11, reading : Byte]
      OBVIOUS
    <3> QED  BY <1>4, <1>5, <3>1, <3>2
  <2>2. ReadingInv'
    BY <1>1, <1>2, <1>3, <1>4, <1>5, <2>1 DEF ReadingInv, Started
  <2> QED  BY <1>1, <1>2, <1>5, <2>1, <2>2 DEF TransferInv, CurrentIsOfChannel
<1>6. CASE /\ Accepted /\ cm.k = Len(Transfers)
           /\ cm' = CmIdle
           /\ current' = [ok |-> TRUE, ch |-> cm.ch, reading |-> reading, deaf |-> deaf]
  <2>1. deaf \/ reading = CmMux[cm.ch]
    BY <1>1, <1>4, <1>6, TransferFacts DEF ReadingInv
  <2>2. CurrentIsOfChannel'
    BY <1>6, <2>1 DEF CurrentIsOfChannel
  <2> QED  BY <1>1, <1>2, <1>6, <2>2 DEF CmIdle, TransferInv, ReadingInv, Byte
<1>7. CASE ~Accepted /\ cm' = CmIdle /\ Refuse(cm.ch)
  BY <1>1, <1>2, <1>7 DEF CmIdle, Refuse, NoCurrent, TransferInv, ReadingInv, Byte, CurrentIsOfChannel
<1> QED  BY <1>5, <1>6, <1>7 DEF TransferDone, reading

LEMMA CurrentStepInv == CurrentInv /\ [CurrentNext]_currentVars => CurrentInv'
<1> SUFFICES ASSUME CurrentInv, [CurrentNext]_currentVars PROVE CurrentInv'
  OBVIOUS
<1>1. CASE UNCHANGED currentVars
  BY <1>1 DEF currentVars, CurrentInv, CurrentTypes, TransferInv, ReadingInv, CurrentIsOfChannel, Newest, Started, T
<1> QED  BY <1>1, ReadCurrentStep, LoadStep, ShiftStep, PollStep, DeadlineStep, DoneStep DEF CurrentNext, CurrentStep

(* For any channels with an input, and however many transfers time out and *)
(* leave bytes in the FIFOs: a current that read_current_monitor_raw       *)
(* answers is of the channel of its request, unless the converter missed   *)
(* the START.                                                              *)
THEOREM CurrentsAreOfChannel == CurrentSpec => []CurrentIsOfChannel
<1>1. CurrentInv => CurrentIsOfChannel
  BY DEF CurrentInv
<1> QED  BY <1>1, CurrentInitInv, CurrentStepInv, PTL DEF CurrentSpec

(* The longest way of read_current_monitor_raw from each of its steps, of  *)
(* which a transfer takes seven at most: it is loaded, gives up to five    *)
(* bytes, and is looked at.                                                *)
CurrentSteps ==
  LET later == 7 * (11 - cm.k) IN
  CASE cm.at = "idle" -> 0
    [] cm.at = "load" -> later + 7
    [] cm.at = "poll" -> later + 1 + T.n - Len(received)

(* A read of a current is over after that many steps of the handler, and   *)
(* the bytes that the core shifts meanwhile, or keeps, add none.           *)
CurrentIsBounded ==
  /\ [](CurrentSteps \in 0..77)
  /\ [][/\ CurrentStep => CurrentSteps' < CurrentSteps
        /\ Shift => CurrentSteps' = CurrentSteps]_currentVars

LEMMA TransferLengths == \A k \in 1..11 : Transfers[k].n \in 1..5
BY DEF Transfers, Transfer

(* Whatever the converter and the core of the SPI bus do, and whichever    *)
(* bytes an earlier read has left: the handler of a current comes to its   *)
(* end within 77 steps.                                                    *)
THEOREM CurrentReadIsBounded == CurrentSpec => CurrentIsBounded
<1> DEFINE m == T.n
           r == Len(received)
           k == cm.k
<1>1. ASSUME CurrentInv
      PROVE  /\ k \in 1..11 /\ m \in 1..5 /\ r \in Nat
             /\ cm.at \in {"idle", "load", "poll"}
             /\ cm.at = "poll" => r <= m
  <2> DEFINE x == Len(spi.rx)
             t == Len(spi.tx)
  <2>1. k \in 1..11 /\ cm.at \in {"idle", "load", "poll"}
    BY <1>1 DEF CurrentInv, CurrentTypes
  <2>2. r \in Nat /\ x \in Nat /\ t \in Nat
    BY <1>1 DEF CurrentInv, CurrentTypes
  <2>3. m \in 1..5
    BY <2>1, TransferLengths DEF T
  <2>4. cm.at = "poll" => r + x + t = m
    BY <1>1 DEF CurrentInv, TransferInv
  <2> HIDE DEF m, r, k, x, t
  <2> QED  BY <2>1, <2>2, <2>3, <2>4
<1>2. /\ cm.at = "idle" => CurrentSteps = 0
      /\ cm.at = "load" => CurrentSteps = 7 * (11 - k) + 7
      /\ cm.at = "poll" => CurrentSteps = 7 * (11 - k) + 1 + m - r
  BY DEF CurrentSteps
<1>3. /\ cm'.at = "idle" => CurrentSteps' = 0
      /\ cm'.at = "load" => CurrentSteps' = 7 * (11 - k') + 7
      /\ cm'.at = "poll" => CurrentSteps' = 7 * (11 - k') + 1 + m' - r'
  BY DEF CurrentSteps
<1>4. CurrentInv => CurrentSteps \in 0..77
  <2> SUFFICES ASSUME CurrentInv PROVE CurrentSteps \in 0..77
    OBVIOUS
  <2> HIDE DEF m, r, k
  <2> QED  BY <1>1, <1>2
<1>5. ASSUME CurrentInv, CurrentStep PROVE CurrentSteps' < CurrentSteps
  <2>1. /\ cm \in [at : {"idle", "load", "poll"}, ch : CmChannels \cup {0}, k : 1..11, reading : Byte]
        /\ received \in Seq(Byte)
    BY <1>5 DEF CurrentInv, CurrentTypes
  <2>2. cm'.k = cm.k => m' = m
    BY DEF T
  <2>3. CASE LoadTransfer
    <3>1. cm.at = "load" /\ cm'.at = "poll" /\ k' = k /\ r' = 0 /\ m' = m
      BY <2>1, <2>2, <2>3 DEF LoadTransfer
    <3> HIDE DEF m, r, k
    <3> QED  BY <1>1, <1>2, <1>3, <1>5, <3>1
  <2>4. CASE PollByte
    <3>1. cm.at = "poll" /\ cm'.at = "poll" /\ k' = k /\ m' = m
      BY <2>2, <2>4 DEF PollByte
    <3>2. r' = r + 1
      BY <2>1, <2>4 DEF PollByte
    <3> HIDE DEF m, r, k
    <3> QED  BY <1>1, <1>2, <1>3, <1>5, <3>1, <3>2
  <2>5. CASE cm.at = "poll" /\ cm' = CmIdle
    <3>1. CurrentSteps' = 0
      BY <1>3, <2>5 DEF CmIdle
    <3> HIDE DEF m, r, k
    <3> QED  BY <1>1, <1>2, <1>5, <2>5, <3>1
  <2>6. CASE TransferDone /\ cm' # CmIdle
    <3>1. /\ cm.at = "poll" /\ cm'.at = "load" /\ k' = k + 1
      BY <2>1, <2>6 DEF TransferDone
    <3> HIDE DEF m, r, k
    <3> QED  BY <1>1, <1>2, <1>3, <1>5, <3>1
  <2> QED  BY <1>5, <2>3, <2>4, <2>5, <2>6 DEF CurrentStep, PollDeadline, TransferDone
<1>6. ASSUME Shift PROVE CurrentSteps' = CurrentSteps
  BY <1>6 DEF Shift, CurrentSteps, T
<1>7. CurrentInv /\ [CurrentNext]_currentVars =>
        [/\ CurrentStep => CurrentSteps' < CurrentSteps
         /\ Shift => CurrentSteps' = CurrentSteps]_currentVars
  BY <1>5, <1>6
<1> QED
  BY <1>4, <1>7, CurrentInitInv, CurrentStepInv, PTL DEF CurrentSpec, CurrentIsBounded

(***************************************************************************)
(*                     The trim and offset DACs                            *)
(***************************************************************************)

(* A channel whose word goes where it should and, unless its last write    *)
(* threw, is what the chip puts out and what is reported.                  *)
Aligned(c) ==
  /\ words[c].cc = ChipChannel(c)
  /\ c \notin failed => words[c].v = Masked(dict[c]) /\ dac[c] = words[c].v

SweptInv == sweep = Channel => \A c \in Channel : Aligned(c)

(* The channels done so far by the write of all channels that is under way *)
SweptSoFar == 0..(2 * ChipChannels - Len(todo) - 1)

(* That write goes through the channels in order: the low chip first, so   *)
(* that the words 0 of channels not written yet only reach channel 0 of    *)
(* the high chip, which is written later.                                  *)
SweepInv ==
  kind = "all" /\ sweep # Channel =>
    /\ todo # <<>> /\ Len(todo) <= 2 * ChipChannels
    /\ \A j \in 1..Len(todo) :
         todo[j].ch = 2 * ChipChannels - Len(todo) + j - 1
    /\ sweep = SweptSoFar
    /\ \A c \in SweptSoFar : c \notin failed /\ Aligned(c)

DacInv == TypeOK /\ SweptInv /\ SweepInv

-----------------------------------------------------------------------------
LEMMA MaskedType == ASSUME NEW v \in Nat PROVE Masked(v) \in 0..(FullScale - 1)
BY DacAssumption DEF Masked

LEMMA ChannelFacts ==
  ASSUME NEW c \in Channel
  PROVE /\ c \in Nat
        /\ Companion(c) \in Channel
        /\ Companion(c) # c
        /\ ChipChannel(c) \in 0..(ChipChannels - 1)
        /\ ChannelAt(Position(c), ChipChannel(c)) = c
        /\ ChannelAt(Position(Companion(c)), ChipChannel(Companion(c)))
             = Companion(c)
        /\ \A cc \in 0..(ChipChannels - 1) :
             ChannelAt(Position(Companion(c)), cc) # c
        /\ c < ChipChannels => \A cc \in 0..(ChipChannels - 1) :
             ChannelAt(Position(Companion(c)), cc) >= ChipChannels
        /\ c >= ChipChannels => Companion(c) < c
BY DacAssumption
DEF Channel, Companion, ChipChannel, ChannelAt, Position

(* A write of c leaves every other channel alone, except the one that the  *)
(* companion's word names.                                                 *)
LEMMA SentFacts ==
  ASSUME NEW c \in Channel, NEW w,
         w \in [Channel -> [cc : 0..(ChipChannels - 1),
                                 v : 0..(FullScale - 1)]],
         w[c].cc = ChipChannel(c),
         dac \in [Channel -> 0..(FullScale - 1)]
  PROVE /\ Sent(w, c) \in [Channel -> 0..(FullScale - 1)]
        /\ Sent(w, c)[c] = w[c].v
        /\ \A d \in Channel :
             d # c /\ d # ChannelAt(Position(Companion(c)), w[Companion(c)].cc)
               => Sent(w, c)[d] = dac[d]
        /\ \A d \in Channel :
             d = ChannelAt(Position(Companion(c)), w[Companion(c)].cc)
               => Sent(w, c)[d] = w[Companion(c)].v
<1>1. /\ Companion(c) \in Channel
      /\ ChannelAt(Position(c), w[c].cc) = c
      /\ ChannelAt(Position(Companion(c)), w[Companion(c)].cc) # c
  BY ChannelFacts
<1>2. /\ w[c].v \in 0..(FullScale - 1)
      /\ w[Companion(c)].v \in 0..(FullScale - 1)
  BY <1>1
<1> QED
  BY <1>1, <1>2 DEF Sent

LEMMA DacInitInv == Init => DacInv
<1> SUFFICES ASSUME Init PROVE DacInv
  OBVIOUS
<1>1. 0 \in Channel
  BY DacAssumption DEF Channel
<1>2. TypeOK
  BY DacAssumption DEF Init, TypeOK
<1>3. SweptInv /\ SweepInv
  BY <1>1 DEF Init, SweptInv, SweepInv
<1> QED
  BY <1>2, <1>3 DEF DacInv

LEMMA DacBeginInv ==
  ASSUME DacInv, WriteChannelTrim \/ WriteTrimAll \/ ConfigureDaphne PROVE DacInv'
<1> USE DEF DacInv
<1>1. CASE WriteChannelTrim
  <2>1. PICK c \in Channel, v \in Values :
            Begin("one", <<[ch |-> c, v |-> v]>>)
    BY <1>1 DEF WriteChannelTrim
  <2>2. <<[ch |-> c, v |-> v]>> \in Seq(Write)
    BY DEF Write
  <2> QED
    BY <1>1, <2>1, <2>2
    DEF WriteChannelTrim, Begin, TypeOK, SweptInv, SweepInv, Aligned
<1>2. CASE WriteTrimAll
  <2> DEFINE all(v) == [i \in 1..(2 * ChipChannels) |->
            [ch |-> i - 1, v |-> v]]
  <2>1. PICK v \in Values : Begin("all", all(v))
    BY <1>2 DEF WriteTrimAll
  <2>2. /\ todo' = all(v) /\ kind' = "all"
        /\ UNCHANGED <<words, dac, dict, failed>>
    BY <2>1 DEF Begin
  <2>3. all(v) \in Seq(Write) /\ Len(all(v)) = 2 * ChipChannels
        /\ \A j \in 1..(2 * ChipChannels) : all(v)[j].ch = j - 1
    <3>1. \A i \in 1..(2 * ChipChannels) : [ch |-> i - 1, v |-> v] \in Write
      <4>1. \A i \in 1..(2 * ChipChannels) : i - 1 \in Channel
        BY DacAssumption DEF Channel
      <4> QED
        BY <4>1 DEF Write
    <3>2. 2 * ChipChannels \in Nat
      BY DacAssumption
    <3>3. all(v) \in [1..(2 * ChipChannels) -> Write]
      BY <3>1
    <3> HIDE DEF all
    <3>4. all(v) \in Seq(Write)
      BY <3>2, <3>3, SeqDef
    <3>5. Len(all(v)) = 2 * ChipChannels
      BY <3>2, <3>3, <3>4
    <3> USE DEF all
    <3>6. \A j \in 1..(2 * ChipChannels) : all(v)[j].ch = j - 1
      OBVIOUS
    <3> QED
      BY <3>4, <3>5, <3>6
  <2> HIDE DEF all
  <2>4. TypeOK'
    BY <1>2, <2>2, <2>3 DEF TypeOK, WriteTrimAll
  <2>5. SweptInv'
    <3>1. 0 \in Channel
      BY DacAssumption DEF Channel
    <3> QED
      BY <1>2, <2>2, <3>1 DEF WriteTrimAll, SweptInv, Aligned
  <2>6. SweepInv'
    <3>1. SUFFICES ASSUME sweep' # Channel PROVE SweepInv'
      BY DEF SweepInv
    <3>2. sweep' = {}
      BY <1>2, <3>1 DEF WriteTrimAll
    <3>3. Len(todo') = 2 * ChipChannels /\ todo' # <<>>
      BY <2>2, <2>3, DacAssumption
    <3>4. SweptSoFar' = {}
      BY <3>3, DacAssumption DEF SweptSoFar
    <3>5. \A j \in 1..Len(todo') :
            todo'[j].ch = 2 * ChipChannels - Len(todo') + j - 1
      BY <2>2, <2>3, <3>3, DacAssumption
    <3> QED
      BY <3>2, <3>3, <3>4, <3>5, DacAssumption DEF SweepInv
  <2> QED
    BY <2>4, <2>5, <2>6
<1>3. CASE ConfigureDaphne
  BY <1>3, ConfigAssumption
  DEF ConfigureDaphne, Begin, TypeOK, SweptInv, SweepInv, Aligned
<1> QED
  BY <1>1, <1>2, <1>3

(* What both outcomes of a register write have in common.                  *)
LEMMA WriteFacts ==
  ASSUME TypeOK, todo # <<>>, NEW c, NEW v, c = Head(todo).ch, v = Head(todo).v
  PROVE /\ c \in Channel /\ v \in Nat
        /\ NewWords(c, v) \in [Channel -> [cc : 0..(ChipChannels - 1),
                                           v : 0..(FullScale - 1)]]
        /\ NewWords(c, v)[c] = [cc |-> ChipChannel(c), v |-> Masked(v)]
        /\ \A d \in Channel \ {c} : NewWords(c, v)[d] = words[d]
<1>1. c \in Channel /\ v \in Nat
  <2>1. Head(todo) \in Write
    BY DEF TypeOK
  <2> QED
    BY <2>1, DacAssumption DEF Write
<1>2. [cc |-> ChipChannel(c), v |-> Masked(v)]
        \in [cc : 0..(ChipChannels - 1), v : 0..(FullScale - 1)]
  BY <1>1, ChannelFacts, MaskedType
<1> QED
  BY <1>1, <1>2 DEF NewWords, TypeOK

(* If c's companion is aligned, or its word goes to a channel that is not  *)
(* asked about, writing c keeps every aligned channel aligned.             *)
LEMMA UpdateAligned ==
  ASSUME DacInv, UpdateCurrentRegister,
         NEW d \in Channel, d = Head(todo).ch \/ Aligned(d),
         \/ Aligned(Companion(Head(todo).ch))
         \/ d # ChannelAt(Position(Companion(Head(todo).ch)),
                          words[Companion(Head(todo).ch)].cc)
  PROVE Aligned(d)'
<1> DEFINE c == Head(todo).ch
           v == Head(todo).v
           e == Companion(c)
<1>0. TypeOK /\ todo # <<>>
  BY DEF DacInv, UpdateCurrentRegister
<1>1. /\ words' = NewWords(c, v) /\ dac' = Sent(words', c)
      /\ dict' = [dict EXCEPT ![c] = v] /\ failed' = failed \ {c}
  BY DEF UpdateCurrentRegister
<1>2. /\ c \in Channel /\ v \in Nat
      /\ words' \in [Channel -> [cc : 0..(ChipChannels - 1),
                                 v : 0..(FullScale - 1)]]
      /\ words'[c] = [cc |-> ChipChannel(c), v |-> Masked(v)]
      /\ \A x \in Channel \ {c} : words'[x] = words[x]
  BY <1>0, <1>1, WriteFacts
<1>3. /\ e \in Channel /\ e # c
      /\ ChannelAt(Position(e), ChipChannel(e)) = e
  BY <1>2, ChannelFacts
<1> HIDE DEF c, v, e
<1>4. /\ dac'[c] = words'[c].v
      /\ \A x \in Channel :
           x # c /\ x # ChannelAt(Position(e), words[e].cc) => dac'[x] = dac[x]
      /\ \A x \in Channel :
           x = ChannelAt(Position(e), words[e].cc) => dac'[x] = words[e].v
  <2>1. /\ Sent(words', c)[c] = words'[c].v
        /\ \A x \in Channel :
             x # c /\ x # ChannelAt(Position(e), words'[e].cc)
               => Sent(words', c)[x] = dac[x]
        /\ \A x \in Channel :
             x = ChannelAt(Position(e), words'[e].cc)
               => Sent(words', c)[x] = words'[e].v
    <3>1. words'[c].cc = ChipChannel(c)
      BY <1>2
    <3>2. dac \in [Channel -> 0..(FullScale - 1)]
      BY <1>0 DEF TypeOK
    <3> QED
      BY <1>2, <3>1, <3>2, SentFacts DEF e
  <2>2. words'[e] = words[e]
    BY <1>2, <1>3
  <2> QED
    BY <1>1, <2>1, <2>2
<1>5. dict \in [Channel -> Nat]
  BY <1>0 DEF TypeOK
<1>6. CASE d = c
  BY <1>1, <1>2, <1>4, <1>5, <1>6 DEF Aligned
<1>7. CASE d # c
  <2>1. Aligned(d) /\ words'[d] = words[d] /\ dict'[d] = dict[d]
    BY <1>1, <1>2, <1>5, <1>7 DEF c
  <2>2. CASE d # ChannelAt(Position(e), words[e].cc)
    BY <1>1, <1>4, <1>7, <2>1, <2>2 DEF Aligned
  <2>3. CASE d = ChannelAt(Position(e), words[e].cc)
    <3>1. Aligned(e)
      BY <2>3 DEF e, c
    <3>2. d = e
      BY <1>3, <2>3, <3>1 DEF Aligned
    <3> QED
      BY <1>1, <1>4, <1>7, <2>1, <2>3, <3>2 DEF Aligned
  <2> QED
    BY <2>2, <2>3
<1> QED
  BY <1>6, <1>7

LEMMA DacUpdateInv ==
  ASSUME DacInv, UpdateCurrentRegister PROVE DacInv'
<1> DEFINE c == Head(todo).ch
           v == Head(todo).v
<1>0. TypeOK /\ todo # <<>> /\ todo \in Seq(Write) /\ todo' = Tail(todo)
  BY DEF DacInv, TypeOK, UpdateCurrentRegister
<1>1. /\ words' = NewWords(c, v) /\ dac' = Sent(words', c)
      /\ dict' = [dict EXCEPT ![c] = v] /\ failed' = failed \ {c}
      /\ sweep' = IF kind = "all" THEN sweep \cup {c} ELSE sweep
      /\ kind' = IF Len(todo) = 1 THEN "none" ELSE kind
  BY DEF UpdateCurrentRegister
<1>2. /\ c \in Channel /\ v \in Nat
      /\ words' \in [Channel -> [cc : 0..(ChipChannels - 1),
                                 v : 0..(FullScale - 1)]]
      /\ words'[c].cc = ChipChannel(c)
  <2>1. /\ c \in Channel /\ v \in Nat
        /\ words' \in [Channel -> [cc : 0..(ChipChannels - 1),
                                   v : 0..(FullScale - 1)]]
        /\ words'[c] = [cc |-> ChipChannel(c), v |-> Masked(v)]
        /\ \A x \in Channel \ {c} : words'[x] = words[x]
    BY <1>0, <1>1, WriteFacts
  <2> QED
    BY <2>1
<1>3. /\ Companion(c) \in Channel
      /\ words[Companion(c)].cc \in 0..(ChipChannels - 1)
  BY <1>0, <1>2, ChannelFacts DEF TypeOK
<1> HIDE DEF c, v
<1>4. TypeOK'
  <2>1. dac' \in [Channel -> 0..(FullScale - 1)]
    BY <1>0, <1>1, <1>2, SentFacts DEF TypeOK
  <2>2. todo' \in Seq(Write)
    BY <1>0
  <2> QED
    BY <1>0, <1>1, <1>2, <2>1, <2>2 DEF TypeOK
<1>5. CASE sweep = Channel
  <2>1. \A d \in Channel : Aligned(d)
    BY <1>5 DEF DacInv, SweptInv
  <2>2. \A d \in Channel : Aligned(d)'
    BY <1>3, <2>1, UpdateAligned DEF c
  <2>3. sweep' = Channel
    BY <1>1, <1>2, <1>5
  <2> QED
    BY <1>4, <2>2, <2>3 DEF DacInv, SweptInv, SweepInv
<1>6. CASE sweep # Channel /\ kind # "all"
  BY <1>1, <1>4, <1>6 DEF DacInv, SweptInv, SweepInv
<1>7. CASE sweep # Channel /\ kind = "all"
  <2> DEFINE n == 2 * ChipChannels
  <2>1. /\ Len(todo) \in 1..n /\ n \in Nat
        /\ \A j \in 1..Len(todo) : todo[j].ch = n - Len(todo) + j - 1
        /\ sweep = 0..(n - Len(todo) - 1)
        /\ \A d \in sweep : d \notin failed /\ Aligned(d)
    BY <1>0, <1>7, DacAssumption DEF DacInv, SweepInv, SweptSoFar
  <2>2. c = n - Len(todo)
    BY <1>0, <2>1 DEF c
  <2>3. /\ Len(todo') = Len(todo) - 1
        /\ \A j \in 1..Len(todo') : todo'[j] = todo[j + 1]
    BY <1>0, <2>1
  <2>4. sweep' = 0..(n - Len(todo') - 1)
    BY <1>1, <1>7, <2>1, <2>2, <2>3
  <2>5. ASSUME NEW d \in sweep' PROVE d \notin failed' /\ Aligned(d)'
    <3>1. d \in Channel /\ (d = c \/ d \in sweep)
      BY <1>1, <1>2, <1>7, <2>1, <2>5 DEF Channel
    <3>2. \/ Aligned(Companion(c))
          \/ d # ChannelAt(Position(Companion(c)), words[Companion(c)].cc)
      <4>1. CASE c < ChipChannels
        <5>1. ChannelAt(Position(Companion(c)), words[Companion(c)].cc)
                >= ChipChannels
          BY <1>2, <1>3, <4>1, ChannelFacts
        <5>2. d < ChipChannels
          BY <2>1, <2>2, <3>1, <4>1, DacAssumption
        <5> QED
          BY <3>1, <5>1, <5>2, DacAssumption DEF Channel
      <4>2. CASE c >= ChipChannels
        <5>1. Companion(c) < c /\ Companion(c) \in Nat
          BY <1>2, <1>3, <4>2, ChannelFacts
        <5>2. Companion(c) \in sweep
          BY <2>1, <2>2, <5>1
        <5> QED
          BY <2>1, <5>2
      <4> QED
        BY <1>2, <4>1, <4>2, DacAssumption DEF Channel
    <3>3. Aligned(d)'
      BY <2>1, <3>1, <3>2, UpdateAligned DEF c
    <3> QED
      BY <1>1, <2>1, <3>1, <3>3
  <2>6. SweptInv'
    BY <2>5 DEF SweptInv
  <2>7. SweepInv'
    <3>1. CASE Len(todo) = 1
      BY <1>1, <3>1 DEF SweepInv
    <3>2. CASE Len(todo) # 1
      <4>1. todo' # <<>> /\ Len(todo') \in Nat /\ Len(todo') <= n
        <5>1. Len(todo') \in 1..n /\ todo' \in Seq(Write)
          BY <1>0, <2>1, <2>3, <3>2
        <5> QED
          BY <5>1
      <4>2. \A j \in 1..Len(todo') : todo'[j].ch = n - Len(todo') + j - 1
        <5>1. SUFFICES ASSUME NEW j \in 1..Len(todo')
              PROVE todo'[j].ch = n - Len(todo') + j - 1
          OBVIOUS
        <5>2. j + 1 \in 1..Len(todo) /\ todo'[j] = todo[j + 1]
          BY <2>1, <2>3, <4>1, <5>1
        <5>3. todo[j + 1].ch = n - Len(todo) + (j + 1) - 1
          BY <2>1, <5>2
        <5> QED
          BY <2>1, <2>3, <5>2, <5>3
      <4>3. sweep' = SweptSoFar'
        BY <2>4 DEF SweptSoFar
      <4> QED
        BY <2>5, <4>1, <4>2, <4>3 DEF SweepInv
    <3> QED
      BY <3>1, <3>2
  <2> QED
    BY <1>4, <2>6, <2>7 DEF DacInv
<1> QED
  BY <1>5, <1>6, <1>7

LEMMA DacTimeoutInv ==
  ASSUME DacInv, SpiTimeout PROVE DacInv'
<1> DEFINE c == Head(todo).ch
           v == Head(todo).v
           e == Companion(c)
<1>0. TypeOK /\ todo # <<>> /\ todo' = <<>> /\ kind' = "none"
      /\ UNCHANGED <<dict, sweep>>
  BY DEF DacInv, SpiTimeout
<1>1. /\ words' = NewWords(c, v) /\ dac' \in {dac, Sent(words', c)}
      /\ failed' = failed \cup {c}
  BY DEF SpiTimeout
<1>2. /\ c \in Channel /\ v \in Nat
      /\ words' \in [Channel -> [cc : 0..(ChipChannels - 1),
                                 v : 0..(FullScale - 1)]]
      /\ words'[c].cc = ChipChannel(c)
      /\ \A x \in Channel \ {c} : words'[x] = words[x]
  <2>1. /\ c \in Channel /\ v \in Nat
        /\ words' \in [Channel -> [cc : 0..(ChipChannels - 1),
                                   v : 0..(FullScale - 1)]]
        /\ words'[c] = [cc |-> ChipChannel(c), v |-> Masked(v)]
        /\ \A x \in Channel \ {c} : words'[x] = words[x]
    BY <1>0, <1>1, WriteFacts
  <2> QED
    BY <2>1
<1>3. /\ e \in Channel /\ e # c
      /\ ChannelAt(Position(e), ChipChannel(e)) = e
  BY <1>2, ChannelFacts
<1> HIDE DEF c, v, e
<1>4. dac \in [Channel -> 0..(FullScale - 1)]
  BY <1>0 DEF TypeOK
<1>5. /\ Sent(words', c) \in [Channel -> 0..(FullScale - 1)]
      /\ \A x \in Channel :
           x # c /\ x # ChannelAt(Position(e), words'[e].cc)
             => Sent(words', c)[x] = dac[x]
      /\ \A x \in Channel :
           x = ChannelAt(Position(e), words'[e].cc)
             => Sent(words', c)[x] = words'[e].v
  BY <1>2, <1>4, SentFacts DEF e
<1>6. TypeOK'
  <2>1. dac' \in [Channel -> 0..(FullScale - 1)]
    BY <1>1, <1>4, <1>5
  <2>2. todo' \in Seq(Write)
    BY <1>0
  <2> QED
    BY <1>0, <1>1, <1>2, <2>1, <2>2 DEF TypeOK
<1>7. SweptInv'
  <2>1. SUFFICES ASSUME sweep = Channel, NEW d \in Channel PROVE Aligned(d)'
    BY <1>0 DEF SweptInv
  <2>2. Aligned(d) /\ Aligned(e)
    BY <1>3, <2>1 DEF DacInv, SweptInv
  <2>3. CASE d = c
    BY <1>1, <1>2, <2>3 DEF Aligned
  <2>4. CASE d # c
    <3>1. words'[d] = words[d] /\ words'[e] = words[e] /\ dict'[d] = dict[d]
      BY <1>0, <1>2, <1>3, <2>4
    <3>2. d = ChannelAt(Position(e), words[e].cc) => d = e
      BY <1>3, <2>2 DEF Aligned
    <3>3. dac'[d] = dac[d] \/ (d = e /\ dac'[d] = words[e].v)
      BY <1>1, <1>5, <2>4, <3>1, <3>2
    <3> QED
      BY <1>1, <2>2, <2>4, <3>1, <3>3 DEF Aligned
  <2> QED
    BY <2>3, <2>4
<1> QED
  BY <1>0, <1>6, <1>7 DEF DacInv, SweepInv

LEMMA DacInductive == Spec => []DacInv
<1>1. Init => DacInv
  BY DacInitInv
<1>2. DacInv /\ [Next]_vars => DacInv'
  <2> SUFFICES ASSUME DacInv, [Next]_vars PROVE DacInv'
    OBVIOUS
  <2>1. CASE Next
    BY <2>1, DacBeginInv, DacUpdateInv, DacTimeoutInv DEF Next
  <2>2. CASE UNCHANGED vars
    BY <2>2 DEF vars, DacInv, TypeOK, SweptInv, SweepInv, Aligned, SweptSoFar
  <2> QED
    BY <2>1, <2>2
<1> QED
  BY <1>1, <1>2, PTL DEF Spec

(* The words kept, the outputs of the chips and the dictionary keep their  *)
(* types: in particular only 12 bits ever reach a chip.                    *)
THEOREM DacTypeCorrect == Spec => []TypeOK
<1>1. DacInv => TypeOK
  BY DEF DacInv
<1> QED
  BY <1>1, DacInductive, PTL

(* After one successful write of all channels the server's report of every *)
(* channel whose last write did not throw is what its DAC puts out.        *)
THEOREM SweptDacIsTrue == Spec => []SweptDacIsReported
<1>1. DacInv => SweptDacIsReported
  BY DEF DacInv, SweptInv, SweptDacIsReported, Aligned, ReadTrim
<1> QED
  BY <1>1, DacInductive, PTL
=============================================================================
