--------------------------- MODULE TriggerCounters ---------------------------
(***************************************************************************)
(* The handler that reads the trigger counters.  A counter has two words,  *)
(* read one after the other while the gateware counts.  A channel has      *)
(* three counters, read alike; one stands for them.                        *)
(***************************************************************************)
EXTENDS Integers, Sequences

CONSTANTS
  NumCounters,  \* trigregs::NUM_CHANNELS, 40
  ReadLists,    \* channel lists of ReadTriggerCountersRequests
  WordSize,     \* a word is 0..WordSize-1, 2^32 values
  MaxCount      \* bound: where the counters stop

ASSUME CounterAssumption ==
  /\ NumCounters \in Nat /\ ReadLists \subseteq Seq(Nat)
  /\ WordSize \in Nat \ {0} /\ MaxCount \in Nat

CountedChannel == 0..(NumCounters - 1)

VARIABLES
  count,      \* the counters
  reader,     \* the handler: "idle", or the word it reads next
  list,       \* channels left to read
  half,       \* the word that was read first, and the counter it is of
  snapshots   \* the answer, so far

counterVars == <<count, reader, list, half, snapshots>>

NoHalf == [word |-> 0, of |-> 0]

CounterInit ==
  /\ count = [c \in CountedChannel |-> 0]
  /\ reader = "idle" /\ list = <<>> /\ half = NoHalf /\ snapshots = <<>>

(* The gateware counts.                                                    *)
Count ==
  /\ \E c \in CountedChannel :
       count[c] < MaxCount /\ count' = [count EXCEPT ![c] = @ + 1]
  /\ UNCHANGED <<reader, list, half, snapshots>>

(* An empty list is all channels.  If the counters cannot be mapped the    *)
(* answer is an error without snapshots.                                   *)
ReadCounters ==
  /\ reader = "idle" /\ snapshots' = <<>>
  /\ \/ \E l \in ReadLists :
          /\ list' = IF l = <<>> THEN [i \in 1..NumCounters |-> i - 1] ELSE l
          /\ reader' = "first"
     \/ UNCHANGED <<reader, list>>
  /\ UNCHANGED <<count, half>>

(* Channels out of range are passed over.                                  *)
PassChannel ==
  /\ reader = "first" /\ list # <<>> /\ Head(list) \notin CountedChannel
  /\ list' = Tail(list)
  /\ UNCHANGED <<count, reader, half, snapshots>>

(* Mutant: the high word is read first.                                    *)
FirstWord_High == "hi"

FirstWord == "lo"
SecondWord == IF FirstWord = "lo" THEN "hi" ELSE "lo"
WordOf(w, n) == IF w = "lo" THEN n % WordSize ELSE (n \div WordSize) * WordSize

(* rd64 reads one word of the counter and then the other.                  *)
ReadFirstWord ==
  /\ reader = "first" /\ list # <<>> /\ Head(list) \in CountedChannel
  /\ LET n == count[Head(list)] IN half' = [word |-> WordOf(FirstWord, n), of |-> n]
  /\ reader' = "second"
  /\ UNCHANGED <<count, list, snapshots>>

ReadSecondWord ==
  /\ reader = "second"
  /\ LET c == Head(list) IN
       snapshots' = Append(snapshots,
         [channel |-> c, from |-> half.of, to |-> count[c],
          value |-> half.word + WordOf(SecondWord, count[c])])
  /\ reader' = "first" /\ list' = Tail(list) /\ half' = NoHalf
  /\ UNCHANGED count

CountersRead ==
  /\ reader = "first" /\ list = <<>>
  /\ reader' = "idle"
  /\ UNCHANGED <<count, list, half, snapshots>>

CounterNext ==
  \/ Count \/ ReadCounters \/ PassChannel \/ ReadFirstWord \/ ReadSecondWord
  \/ CountersRead

CounterSpec == CounterInit /\ [][CounterNext]_counterVars

-----------------------------------------------------------------------------
(* A count that read_counters_raw reports, though read in two words while  *)
(* the counter runs, is never behind the counter: it is one that the       *)
(* counter had during the read, or exactly one carry (2^32) ahead of it.   *)
CountIsNotBehind ==
  \A i \in DOMAIN snapshots :
    LET s == snapshots[i] IN
      \/ s.value \in s.from..s.to
      \/ s.value - WordSize \in s.from..s.to
=============================================================================
