---------------------------- MODULE DacRegister ----------------------------
(***************************************************************************)
(* One trim (or offset) register of one AFE, from the handlers that write  *)
(* it to the two DAC chips behind it.  Channel c < ChipChannels is channel *)
(* c of the low chip, channel ChipChannels + c is channel c of the high    *)
(* chip, and the pair are companions.  A write of the register sends both  *)
(* chips a word; the chips cannot be read back, so Dac keeps the word      *)
(* written last for each channel (channelValues) and sends the companion's *)
(* again.  A word names the chip channel it is for: a channel never        *)
(* written has the word 0, which is "channel 0, value 0".                  *)
(*                                                                         *)
(* Handlers run one at a time in the router thread; todo holds the writes  *)
(* left of the handler that runs.  The registers of other AFEs and of the  *)
(* other kind share no state with this one.  The gain and buffer bits      *)
(* travel with the value and are left out.                                 *)
(***************************************************************************)
EXTENDS Naturals, Sequences

CONSTANTS
  ChipChannels,  \* channels of one chip, 4
  FullScale,     \* a DAC value has 12 bits, 4096
  Values,        \* values that requests ask for
  ConfigLists    \* channel lists of ConfigureRequests: sequences of writes

ASSUME DacAssumption ==
  /\ ChipChannels \in Nat \ {0}
  /\ FullScale \in Nat \ {0}
  /\ Values \subseteq Nat

Channel == 0..(2 * ChipChannels - 1)
Write == [ch : Channel, v : Values]

ASSUME ConfigAssumption == ConfigLists \subseteq Seq(Write)

VARIABLES
  words,   \* channelValues: the last word of each channel
  dac,     \* what the chips put out for each channel
  dict,    \* the state_ of Daphne: the value reported for each channel
  todo,    \* writes left of the current handler
  kind,    \* the current handler
  failed,  \* channels whose last write threw
  sweep    \* channels done by a write of all channels; all of them once one
           \* such write has succeeded

vars == <<words, dac, dict, todo, kind, failed, sweep>>

-----------------------------------------------------------------------------
(* CHANNEL_MAPPING                                                         *)
Position(c) == IF c < ChipChannels THEN "L" ELSE "H"
ChipChannel(c) == IF c < ChipChannels THEN c ELSE c - ChipChannels

ChannelAt(pos, cc) == IF pos = "L" THEN cc ELSE cc + ChipChannels

(* The channel of the other chip with the same chip channel.               *)
Companion(c) == IF c < ChipChannels THEN c + ChipChannels ELSE c - ChipChannels

Masked(v) == v % FullScale

(* What the chips put out once c and its companion sent their words w.     *)
Sent(w, c) ==
  [d \in Channel |->
     CASE d = ChannelAt(Position(c), w[c].cc) -> w[c].v
       [] d = ChannelAt(Position(Companion(c)), w[Companion(c)].cc)
            -> w[Companion(c)].v
       [] OTHER -> dac[d]]

Init ==
  /\ words = [c \in Channel |-> [cc |-> 0, v |-> 0]]
  /\ dac = [c \in Channel |-> 0]
  /\ dict = [c \in Channel |-> 0]
  /\ todo = <<>> /\ kind = "none"
  /\ failed = {} /\ sweep = {}

-----------------------------------------------------------------------------
Begin(k, writes) ==
  /\ todo = <<>>
  /\ todo' = writes /\ kind' = k
  /\ UNCHANGED <<words, dac, dict, failed>>

InRange(v) == v < FullScale

(* A value out of range is refused before anything is written.             *)
WriteChannelTrim ==
  /\ \E c \in Channel, v \in Values :
       InRange(v) /\ Begin("one", <<[ch |-> c, v |-> v]>>)
  /\ UNCHANGED sweep

WriteTrimAll ==
  /\ \E v \in Values :
       /\ InRange(v)
       /\ Begin("all", [i \in 1..(2 * ChipChannels) |->
                 [ch |-> i - 1, v |-> v]])
  /\ sweep' = IF sweep = Channel THEN sweep ELSE {}

(* configureDaphne does not check the range.                               *)
ConfigureDaphne ==
  /\ \E list \in ConfigLists : list # <<>> /\ Begin("configure", list)
  /\ UNCHANGED sweep

-----------------------------------------------------------------------------
(* Mutant: the companion's word is read back from the chip, as zero.       *)
NewWords_ReadBack(c, v) ==
  [words EXCEPT ![c] = [cc |-> ChipChannel(c), v |-> Masked(v)],
                ![Companion(c)] = [cc |-> 0, v |-> 0]]

(* The word of the channel is kept before the register is written.         *)
NewWords(c, v) ==
  [words EXCEPT ![c] = [cc |-> ChipChannel(c), v |-> Masked(v)]]

UpdateCurrentRegister ==
  /\ todo # <<>>
  /\ LET c == Head(todo).ch
         v == Head(todo).v
     IN  /\ words' = NewWords(c, v)
         /\ dac' = Sent(words', c)
         /\ dict' = [dict EXCEPT ![c] = v]
         /\ failed' = failed \ {c}
         /\ sweep' = IF kind = "all" THEN sweep \cup {c} ELSE sweep
  /\ todo' = Tail(todo)
  /\ kind' = IF Len(todo) = 1 THEN "none" ELSE kind

(* waitNotBusy times out, before the register is written or after; the     *)
(* handler gives up.                                                       *)
SpiTimeout ==
  /\ todo # <<>>
  /\ LET c == Head(todo).ch
         v == Head(todo).v
     IN  /\ words' = NewWords(c, v)
         /\ dac' \in {dac, Sent(words', c)}
         /\ failed' = failed \cup {c}
  /\ todo' = <<>> /\ kind' = "none"
  /\ UNCHANGED <<dict, sweep>>

Next == \/ WriteChannelTrim \/ WriteTrimAll \/ ConfigureDaphne
        \/ UpdateCurrentRegister \/ SpiTimeout

Spec == Init /\ [][Next]_vars

-----------------------------------------------------------------------------
(* readTrimSingleChannel and the reads of all channels answer from the     *)
(* dictionary.                                                             *)
ReadTrim(c) == dict[c]

TypeOK ==
  /\ words \in [Channel -> [cc : 0..(ChipChannels - 1),
                            v : 0..(FullScale - 1)]]
  /\ dac \in [Channel -> 0..(FullScale - 1)]
  /\ dict \in [Channel -> Nat]
  /\ todo \in Seq(Write)
  /\ kind \in {"none", "one", "all", "configure"}
  /\ failed \subseteq Channel /\ sweep \subseteq Channel

(* Once a write of all channels has succeeded, every channel whose last    *)
(* write did not throw puts out what the server reports for it, whatever   *)
(* single writes, configurations and timeouts of other channels follow.    *)
SweptDacIsReported ==
  sweep = Channel =>
    \A c \in Channel \ failed : dac[c] = Masked(ReadTrim(c))

=============================================================================
