----------------------------- MODULE AlignProof -----------------------------
(***************************************************************************)
(* The bring-up of a board, for every number of AFEs, taps, bitslips,      *)
(* verification reads and words, and every id of an endpoint: the search   *)
(* for the longest run of equal words, the alignment with devmem that      *)
(* makes the same search, the alignment in the server, and the             *)
(* configuration of the clocks; and, for every list of mezzanines and of   *)
(* roles, the commands for their SPI pins as GPIO lines.                   *)
(***************************************************************************)
EXTENDS MCAlign, SequenceTheorems, WellFoundedInduction, TLAPS

(***************************************************************************)
(*               Runs of equal words: lemmas of both searches              *)
(***************************************************************************)
(* The runs up to last that start before cs are no longer than ml, and     *)
(* those as long start no earlier than ms.                                 *)
EndedRuns(v, last, cs, ms, ml) ==
  \A t \in 0..last : \A f \in t..last :
    t < cs /\ IsRun(v, t, f) =>
      /\ f - t + 1 <= ml
      /\ f - t + 1 = ml => ms <= t

(* The loop invariant: the words before k end with the current run, which  *)
(* cannot be extended to the left; the best run of the others lies before  *)
(* k.                                                                      *)
Scanned(v, k, cs, cl, ms, ml) ==
  /\ k \in Nat /\ cs \in Nat /\ cl \in Nat /\ ms \in Nat /\ ml \in Nat
  /\ cl >= 1 /\ ml >= 1 /\ cs + cl = k
  /\ IsRun(v, cs, k - 1)
  /\ cs > 0 => v[cs] # v[cs - 1]
  /\ ms <= cs /\ ms + ml <= k
  /\ IsRun(v, ms, ms + ml - 1)
  /\ EndedRuns(v, k - 1, cs, ms, ml)

(* ms and ml are the first longest of all runs before k.                   *)
Best(v, k, ms, ml) ==
  /\ ms \in Nat /\ ml \in Nat /\ ml >= 1 /\ ms + ml <= k
  /\ IsRun(v, ms, ms + ml - 1)
  /\ EndedRuns(v, k - 1, k, ms, ml)

(* One word is a run.                                                      *)
LEMMA ScanFirst == ASSUME NEW v PROVE Scanned(v, 1, 0, 1, 0, 1)
BY DEF Scanned, IsRun, EndedRuns

(* The next word is like the last one.                                     *)
LEMMA ScanExtend ==
  ASSUME NEW v, NEW k, NEW cs, NEW cl, NEW ms, NEW ml,
         Scanned(v, k, cs, cl, ms, ml), v[k] = v[k - 1]
  PROVE  Scanned(v, k + 1, cs, cl + 1, ms, ml)
<1> USE DEF Scanned
<1>1. IsRun(v, cs, k)
  <2> SUFFICES ASSUME NEW j \in cs..k PROVE v[j] = v[cs]
    BY DEF IsRun
  <2>1. CASE j < k
    BY <2>1 DEF IsRun
  <2>2. CASE j = k
    <3>1. k - 1 \in cs..(k - 1)
      OBVIOUS
    <3> QED  BY <2>2, <3>1 DEF IsRun
  <2> QED  BY <2>1, <2>2
<1>2. EndedRuns(v, k, cs, ms, ml)
  <2> SUFFICES ASSUME NEW t \in 0..k, NEW f \in t..k, t < cs, IsRun(v, t, f)
               PROVE  f - t + 1 <= ml /\ (f - t + 1 = ml => ms <= t)
    BY DEF EndedRuns
  <2>1. f # k
    <3> SUFFICES ASSUME f = k PROVE FALSE
      OBVIOUS
    <3>1. cs \in t..f /\ cs - 1 \in t..f /\ cs > 0
      OBVIOUS
    <3> QED  BY <3>1 DEF IsRun
  <2>2. t \in 0..(k - 1) /\ f \in t..(k - 1)
    BY <2>1
  <2> QED  BY <2>2 DEF EndedRuns
<1>3. (k + 1) - 1 = k
  OBVIOUS
<1> QED  BY <1>1, <1>2, <1>3

(* Closing the current run: it is compared with the best of the others.    *)
LEMMA ScanBest ==
  ASSUME NEW v, NEW k, NEW cs, NEW cl, NEW ms, NEW ml,
         Scanned(v, k, cs, cl, ms, ml)
  PROVE  IF cl > ml THEN Best(v, k, cs, cl) ELSE Best(v, k, ms, ml)
<1> USE DEF Scanned
<1> DEFINE bs == IF cl > ml THEN cs ELSE ms
           bl == IF cl > ml THEN cl ELSE ml
<1>1. bs \in Nat /\ bl \in Nat /\ bl >= 1 /\ bs + bl <= k
  OBVIOUS
<1>2. IsRun(v, bs, bs + bl - 1)
  <2>1. CASE cl > ml
    <3>1. bs + bl - 1 = k - 1
      BY <2>1
    <3> QED  BY <2>1, <3>1
  <2>2. CASE ~(cl > ml)
    BY <2>2
  <2> QED  BY <2>1, <2>2
<1>3. ASSUME NEW t \in 0..(k - 1), NEW f \in t..(k - 1), IsRun(v, t, f)
      PROVE  f - t + 1 <= bl /\ (f - t + 1 = bl => bs <= t)
  <2>1. CASE t < cs
    <3>1. f - t + 1 <= ml /\ (f - t + 1 = ml => ms <= t)
      BY <1>3, <2>1 DEF EndedRuns
    <3> QED  BY <3>1
  <2>2. CASE t >= cs
    <3>1. f - t + 1 <= cl /\ (f - t + 1 = cl => t = cs)
      BY <2>2
    <3> QED  BY <2>2, <3>1
  <2> QED  BY <2>1, <2>2
<1>4. EndedRuns(v, k - 1, k, bs, bl)
  BY <1>3 DEF EndedRuns
<1>5. Best(v, k, bs, bl)
  <2> HIDE DEF bs, bl
  <2> QED  BY <1>1, <1>2, <1>4 DEF Best
<1> QED  BY <1>5

(* The next word is another one: a run of one word begins.                 *)
LEMMA ScanBreak ==
  ASSUME NEW v, NEW k \in Nat \ {0}, NEW ms, NEW ml,
         Best(v, k, ms, ml), v[k] # v[k - 1]
  PROVE  Scanned(v, k + 1, k, 1, ms, ml)
<1> USE DEF Best
<1>1. EndedRuns(v, k, k, ms, ml)
  <2> SUFFICES ASSUME NEW t \in 0..k, NEW f \in t..k, t < k, IsRun(v, t, f)
               PROVE  f - t + 1 <= ml /\ (f - t + 1 = ml => ms <= t)
    BY DEF EndedRuns
  <2>1. f # k
    <3> SUFFICES ASSUME f = k PROVE FALSE
      OBVIOUS
    <3>1. k \in t..f /\ k - 1 \in t..f
      OBVIOUS
    <3> QED  BY <3>1 DEF IsRun
  <2>2. t \in 0..(k - 1) /\ f \in t..(k - 1)
    BY <2>1
  <2> QED  BY <2>2 DEF EndedRuns
<1>2. (k + 1) - 1 = k /\ IsRun(v, k, k)
  BY DEF IsRun
<1> QED  BY <1>1, <1>2 DEF Scanned

(* After the last word the best run is the one wanted.                     *)
LEMMA BestIsFirstLongest ==
  ASSUME NEW v, NEW len \in Nat, NEW ms, NEW ml, Best(v, len, ms, ml)
  PROVE  IsFirstLongestRun(v, len, ms, ms + ml - 1)
<1> USE DEF Best
<1>1. ASSUME NEW t \in 0..(len - 1), NEW f \in t..(len - 1), IsRun(v, t, f)
      PROVE  /\ f - t <= (ms + ml - 1) - ms
             /\ f - t = (ms + ml - 1) - ms => ms <= t
  <2>1. f - t + 1 <= ml /\ (f - t + 1 = ml => ms <= t)
    BY <1>1 DEF EndedRuns
  <2> QED  BY <2>1
<1>2. ms \in 0..(len - 1) /\ ms + ml - 1 \in ms..(len - 1)
  OBVIOUS
<1> QED  BY <1>1, <1>2 DEF IsFirstLongestRun

(* What was found depends only on the words read so far.                   *)
LEMMA ScanSame ==
  ASSUME NEW v, NEW w, NEW k, NEW cs, NEW cl, NEW ms, NEW ml,
         Scanned(v, k, cs, cl, ms, ml), \A j \in 0..(k - 1) : w[j] = v[j]
  PROVE  Scanned(w, k, cs, cl, ms, ml)
<1> USE DEF Scanned
<1>1. ASSUME NEW s \in Nat, NEW e \in Nat, s <= e, e <= k - 1
      PROVE  IsRun(w, s, e) <=> IsRun(v, s, e)
  <2>1. s \in 0..(k - 1) /\ \A j \in s..e : j \in 0..(k - 1)
    BY <1>1
  <2> QED  BY <2>1 DEF IsRun
<1>2. IsRun(w, cs, k - 1) /\ IsRun(w, ms, ms + ml - 1)
  BY <1>1
<1>3. EndedRuns(w, k - 1, cs, ms, ml)
  <2> SUFFICES ASSUME NEW t \in 0..(k - 1), NEW f \in t..(k - 1),
                      t < cs, IsRun(w, t, f)
               PROVE  f - t + 1 <= ml /\ (f - t + 1 = ml => ms <= t)
    BY DEF EndedRuns
  <2>1. IsRun(v, t, f)
    BY <1>1
  <2> QED  BY <2>1 DEF EndedRuns
<1>4. cs > 0 => w[cs] # w[cs - 1]
  <2>1. cs \in 0..(k - 1) /\ (cs > 0 => cs - 1 \in 0..(k - 1))
    OBVIOUS
  <2> QED  BY <2>1
<1> QED  BY <1>2, <1>3, <1>4

(***************************************************************************)
(*                    longestIdenticalSubsequenceIndices                   *)
(***************************************************************************)
RunInv ==
  /\ size \in Nat /\ i \in Nat
  /\ result = Running /\ size > 0 =>
       /\ i <= size
       /\ Scanned(nums, i, currentStartIndex, currentLength, maxStartIndex, maxLength)
  /\ ReturnsFirstLongestRun

LEMMA RunInitInv == RunInit => RunInv
BY TapsAssumption, ScanFirst DEF RunInit, RunInv, ReturnsFirstLongestRun

LEMMA RunStepInv == RunInv /\ [RunNext]_runVars => RunInv'
<1> SUFFICES ASSUME RunInv, [RunNext]_runVars PROVE RunInv'
  OBVIOUS
<1> USE DEF RunInv
<1> DEFINE Now == Scanned(nums, i, currentStartIndex, currentLength,
                          maxStartIndex, maxLength)
<1>1. CASE EmptyVector
  BY <1>1 DEF EmptyVector, ReturnsFirstLongestRun, Running, NoResult
<1>2. CASE Extend
  <2>1. Now /\ nums[i] = nums[i - 1] /\ i \in Nat /\ i < size
    BY <1>2 DEF Extend, Scanned
  <2>2. Scanned(nums, i + 1, currentStartIndex, currentLength + 1,
                maxStartIndex, maxLength)
    BY <2>1, ScanExtend
  <2> QED  BY <1>2, <2>1, <2>2 DEF Extend, ReturnsFirstLongestRun
<1>3. CASE Break
  <2>1. /\ Now /\ KeepLonger /\ nums[i] # nums[i - 1]
        /\ i \in Nat \ {0} /\ i < size
    BY <1>3 DEF Break, Scanned
  <2>2. Best(nums, i, maxStartIndex', maxLength')
    BY <2>1, ScanBest DEF KeepLonger
  <2>3. Scanned(nums, i + 1, i, 1, maxStartIndex', maxLength')
    BY <2>1, <2>2, ScanBreak
  <2> QED  BY <1>3, <2>1, <2>3 DEF Break, ReturnsFirstLongestRun
<1>4. CASE Return
  <2>1. Now /\ KeepLonger /\ i = size
    BY <1>4 DEF Return, Scanned
  <2>2. Best(nums, size, maxStartIndex', maxLength')
    BY <2>1, ScanBest DEF KeepLonger
  <2>3. IsFirstLongestRun(nums, size, maxStartIndex', maxStartIndex' + maxLength' - 1)
    BY <2>2, BestIsFirstLongest
  <2>4. result' = <<maxStartIndex', maxStartIndex' + maxLength' - 1>>
    BY <1>4 DEF Return
  <2>5. ReturnsFirstLongestRun' /\ result' # Running
    BY <1>4, <2>3, <2>4 DEF Return, ReturnsFirstLongestRun, Running
  <2> QED  BY <1>4, <2>5 DEF Return
<1>5. CASE UNCHANGED runVars
  BY <1>5 DEF runVars, ReturnsFirstLongestRun
<1> QED  BY <1>1, <1>2, <1>3, <1>4, <1>5 DEF RunNext

(* longestIdenticalSubsequenceIndices returns the first longest run of     *)
(* equal words, whatever the words and their number.                       *)
THEOREM RunIsFirstLongest == RunSpec => []ReturnsFirstLongestRun
<1>1. RunInv => ReturnsFirstLongestRun
  BY DEF RunInv
<1> QED  BY <1>1, RunInitInv, RunStepInv, PTL DEF RunSpec

(***************************************************************************)
(*                            align_all_afes.py                            *)
(***************************************************************************)
DmAfe == 0..(DmAfes - 1)
DmTap == 0..(DmTaps - 1)
RunRecord == [len : Nat, start : Nat]
ResultRecord == [afe : Int, mid : Int, found : Int]

DmRecord ==
  [afe : 0..DmAfes, at : {"probe", "scan", "hunt"}, i : Nat, word : DmWords,
   curr : RunRecord, longest : RunRecord, results : Seq(ResultRecord)]

DmTypes ==
  /\ dm \in DmRecord
  /\ dmTap \in [DmAfe -> Int] /\ dmSlip \in [DmAfe -> Int]
  /\ dmRead \in [DmAfe -> [words : [DmTap -> DmWords], last : DmWords]]

W == dmRead[dm.afe].words   \* the words read for this AFE

(* What is known of the AFE at hand: the scan as far as it went, and after *)
(* it the tap in the middle of the first longest run.                      *)
DmProgress ==
  /\ dm.at # "probe" => dm.afe < DmAfes
  /\ dm.at = "scan" =>
       /\ dm.i <= DmTaps
       /\ Scanned(W, dm.i, dm.curr.start, dm.curr.len, dm.longest.start, dm.longest.len)
       /\ dm.word = W[dm.i - 1]
  /\ dm.at = "hunt" =>
       /\ dm.i <= DmSlips
       /\ Best(W, DmTaps, dm.longest.start, dm.longest.len)
       /\ dmTap[dm.afe] = Mid(dm.longest)
       /\ dm.i > 0 => dmRead[dm.afe].last # DmPattern

(* What the summary says of an AFE, given what its registers hold.         *)
Told(r, tap, slip, read) ==
  /\ tap = r.mid
  /\ \E a, b \in DmTap :
       IsFirstLongestRun(read.words, DmTaps, a, b) /\ r.mid = a + ((b - a) \div 2)
  /\ IF r.found = -1 THEN read.last # DmPattern
     ELSE slip = r.found /\ read.last = DmPattern

(* The results are of AFEs that the program has left behind.               *)
ResultsTold ==
  \A k \in DOMAIN dm.results :
    /\ dm.results[k].afe \in 0..(dm.afe - 1)
    /\ LET a == dm.results[k].afe IN Told(dm.results[k], dmTap[a], dmSlip[a], dmRead[a])

DmInv == DmTypes /\ DmProgress /\ ResultsTold

(* The entries of a sequence of results with one more.                     *)
LEMMA AppendResult ==
  ASSUME NEW s \in Seq(ResultRecord), NEW e \in ResultRecord
  PROVE  /\ Append(s, e) \in Seq(ResultRecord)
         /\ \A k \in DOMAIN Append(s, e) :
              \/ k \in DOMAIN s /\ Append(s, e)[k] = s[k]
              \/ Append(s, e)[k] = e
OBVIOUS

LEMMA DmInitInv == DevmemInit => DmInv
<1> SUFFICES ASSUME DevmemInit PROVE DmInv
  OBVIOUS
<1>1. DmTypes
  <2>1. dm = [afe |-> 0, at |-> "probe", i |-> 0, word |-> DmPattern,
              curr |-> NoRun, longest |-> NoRun, results |-> <<>>]
    BY DEF DevmemInit
  <2>2. NoRun \in RunRecord /\ 0 \in 0..DmAfes
    BY DevmemAssumption DEF NoRun, RunRecord
  <2>3. dm \in DmRecord
    BY <2>1, <2>2, DevmemAssumption DEF DmRecord
  <2> QED  BY <2>3, DevmemAssumption DEF DevmemInit, DmTypes, DmAfe, DmTap
<1>2. DmProgress /\ ResultsTold
  BY DEF DevmemInit, DmProgress, ResultsTold
<1> QED  BY <1>1, <1>2 DEF DmInv

(* Steps that leave the registers and words of other AFEs alone, and add   *)
(* at most a result that is true of this AFE, keep the results true.       *)
LEMMA ResultsKept ==
  ASSUME DmInv, DmTypes', dm.afe < DmAfes, dm'.afe \in {dm.afe, dm.afe + 1},
         \A a \in DmAfe \ {dm.afe} :
           /\ dmTap'[a] = dmTap[a] /\ dmSlip'[a] = dmSlip[a]
           /\ dmRead'[a] = dmRead[a],
         \A k \in DOMAIN dm'.results :
           \/ k \in DOMAIN dm.results /\ dm'.results[k] = dm.results[k]
           \/ /\ dm'.afe = dm.afe + 1 /\ dm'.results[k].afe = dm.afe
              /\ Told(dm'.results[k], dmTap'[dm.afe], dmSlip'[dm.afe], dmRead'[dm.afe])
  PROVE  ResultsTold'
<1>1. dm.afe \in Nat /\ dm'.afe \in Nat
  BY DevmemAssumption DEF DmInv, DmTypes, DmRecord
<1> SUFFICES ASSUME NEW k \in DOMAIN dm'.results
             PROVE  /\ dm'.results[k].afe \in 0..(dm'.afe - 1)
                    /\ LET a == dm'.results[k].afe
                       IN Told(dm'.results[k], dmTap'[a], dmSlip'[a], dmRead'[a])
  BY DEF ResultsTold, Told
<1>2. CASE k \in DOMAIN dm.results /\ dm'.results[k] = dm.results[k]
  <2> DEFINE a == dm.results[k].afe
  <2>1. a \in 0..(dm.afe - 1) /\ Told(dm.results[k], dmTap[a], dmSlip[a], dmRead[a])
    BY <1>2 DEF DmInv, ResultsTold
  <2>2. a \in DmAfe \ {dm.afe} /\ a \in 0..(dm'.afe - 1)
    BY <1>1, <2>1, DevmemAssumption DEF DmAfe
  <2> HIDE DEF a
  <2>3. dmTap'[a] = dmTap[a] /\ dmSlip'[a] = dmSlip[a] /\ dmRead'[a] = dmRead[a]
    BY <2>2
  <2> QED  BY <1>2, <2>1, <2>2, <2>3 DEF a
<1>3. CASE /\ dm'.afe = dm.afe + 1 /\ dm'.results[k].afe = dm.afe
           /\ Told(dm'.results[k], dmTap'[dm.afe], dmSlip'[dm.afe], dmRead'[dm.afe])
  BY <1>1, <1>3
<1> QED  BY <1>2, <1>3

(* The middle of a run is a number, of an empty one too.                   *)
LEMMA MidType == ASSUME NEW r \in RunRecord PROVE Mid(r) \in Int
BY DEF RunRecord, Mid

(* A word read at tap j of the AFE at hand.                                *)
LEMMA WordRead ==
  ASSUME DmInv, dm.afe \in DmAfe, NEW j \in DmTap, NEW w \in DmWords,
         dmRead' = [dmRead EXCEPT ![dm.afe].words[j] = w]
  PROVE  /\ dmRead' \in [DmAfe -> [words : [DmTap -> DmWords], last : DmWords]]
         /\ dmRead'[dm.afe].words[j] = w
         /\ \A t \in DmTap \ {j} : dmRead'[dm.afe].words[t] = W[t]
         /\ \A a \in DmAfe \ {dm.afe} : dmRead'[a] = dmRead[a]
BY DEF DmInv, DmTypes, W

(* One lemma for each action of the script.                                *)
LEMMA ProbeStep == ASSUME DmInv, Probe PROVE DmInv'
<1>1. PICK w \in DmWords :
        /\ dm' = [dm EXCEPT !.at = "scan", !.i = 1, !.word = w,
                            !.curr = [len |-> 1, start |-> 0],
                            !.longest = [len |-> 1, start |-> 0]]
        /\ dmRead' = [dmRead EXCEPT ![dm.afe].words[0] = w]
  BY DEF Probe
<1>2. /\ dm.afe \in DmAfe /\ dm.afe < DmAfes /\ 0 \in DmTap
      /\ [len |-> 1, start |-> 0] \in RunRecord
      /\ dmSlip' = dmSlip /\ dmTap' = [dmTap EXCEPT ![dm.afe] = 0]
  BY DevmemAssumption DEF Probe, DmInv, DmTypes, DmRecord, DmAfe, DmTap, RunRecord
<1>3. /\ dm'.afe = dm.afe /\ dm'.at = "scan" /\ dm'.i = 1 /\ dm'.word = w
      /\ dm'.curr = [len |-> 1, start |-> 0] /\ dm'.longest = [len |-> 1, start |-> 0]
      /\ dm'.results = dm.results
      /\ dm' \in DmRecord
  BY <1>1, <1>2 DEF DmInv, DmTypes, DmRecord
<1>4. /\ dmRead' \in [DmAfe -> [words : [DmTap -> DmWords], last : DmWords]]
      /\ dmRead'[dm.afe].words[0] = w
      /\ \A a \in DmAfe \ {dm.afe} : dmRead'[a] = dmRead[a]
  BY <1>1, <1>2, WordRead
<1>5. DmTypes'
  <2>1. dmTap' \in [DmAfe -> Int]
    BY <1>2 DEF DmInv, DmTypes
  <2> QED  BY <1>2, <1>3, <1>4, <2>1 DEF DmInv, DmTypes
<1>6. DmProgress'
  <2>1. Scanned(W', 1, 0, 1, 0, 1)
    BY ScanFirst
  <2>2. W'[0] = w
    BY <1>3, <1>4 DEF W
  <2> QED  BY <1>2, <1>3, <2>1, <2>2, DevmemAssumption DEF DmProgress
<1>7. ResultsTold'
  <2>1. \A a \in DmAfe \ {dm.afe} : dmTap'[a] = dmTap[a]
    BY <1>2 DEF DmInv, DmTypes
  <2> QED  BY <1>2, <1>3, <1>4, <1>5, <2>1, ResultsKept
<1> QED  BY <1>5, <1>6, <1>7 DEF DmInv

LEMMA ScanTapStep == ASSUME DmInv, ScanTap PROVE DmInv'
<1> DEFINE tap == dm.i
<1>1. PICK w \in DmWords :
        /\ dmRead' = [dmRead EXCEPT ![dm.afe].words[tap] = w]
        /\ dm' = IF w = dm.word
                 THEN [dm EXCEPT !.i = @ + 1, !.curr.len = @ + 1]
                 ELSE [dm EXCEPT !.i = @ + 1, !.word = w, !.longest = Longer(dm),
                                 !.curr = [len |-> 1, start |-> tap]]
  BY DEF ScanTap
<1>2. /\ dm.at = "scan" /\ tap < DmTaps /\ dmSlip' = dmSlip
      /\ dmTap' = [dmTap EXCEPT ![dm.afe] = tap]
  BY DEF ScanTap
<1>3. /\ dm.afe < DmAfes /\ tap \in Nat /\ dm.word = W[tap - 1]
      /\ Scanned(W, tap, dm.curr.start, dm.curr.len, dm.longest.start, dm.longest.len)
  BY <1>2 DEF DmInv, DmProgress, Scanned
<1>4. /\ dm.afe \in DmAfe /\ tap \in DmTap /\ tap >= 1
      /\ dm.curr \in RunRecord /\ dm.longest \in RunRecord
  <2>1. dm.curr \in RunRecord /\ dm.longest \in RunRecord /\ dm.afe \in 0..DmAfes
    BY DEF DmInv, DmTypes, DmRecord
  <2>2. tap >= 1
    BY <1>3 DEF Scanned
  <2> QED  BY <1>2, <1>3, <2>1, <2>2, DevmemAssumption DEF DmAfe, DmTap
<1>5. /\ dmRead' \in [DmAfe -> [words : [DmTap -> DmWords], last : DmWords]]
      /\ dmRead'[dm.afe].words[tap] = w
      /\ \A t \in DmTap \ {tap} : dmRead'[dm.afe].words[t] = W[t]
      /\ \A a \in DmAfe \ {dm.afe} : dmRead'[a] = dmRead[a]
  BY <1>1, <1>4, WordRead
<1>6. /\ dm'.afe = dm.afe /\ dm'.at = "scan" /\ dm'.i = tap + 1 /\ dm'.word = w
      /\ dm'.results = dm.results
      /\ w = dm.word => /\ dm'.longest = dm.longest /\ dm'.curr.start = dm.curr.start
                        /\ dm'.curr.len = dm.curr.len + 1
      /\ w # dm.word => /\ dm'.longest = Longer(dm) /\ dm'.curr.start = tap
                        /\ dm'.curr.len = 1
      /\ dm' \in DmRecord
  <2>1. Longer(dm) \in RunRecord /\ [len |-> 1, start |-> tap] \in RunRecord
    BY <1>3, <1>4 DEF Longer, RunRecord
  <2>2. CASE w = dm.word
    <3>1. [dm.curr EXCEPT !.len = @ + 1] \in RunRecord
      BY <1>4 DEF RunRecord
    <3>2. dm' = [dm EXCEPT !.i = tap + 1, !.curr = [dm.curr EXCEPT !.len = @ + 1]]
      BY <1>1, <2>2 DEF DmInv, DmTypes, DmRecord
    <3>3. /\ [dm.curr EXCEPT !.len = @ + 1].len = dm.curr.len + 1
          /\ [dm.curr EXCEPT !.len = @ + 1].start = dm.curr.start
      BY <1>4 DEF RunRecord
    <3>4. tap + 1 \in Nat
      BY <1>3
    <3> DEFINE c == [dm.curr EXCEPT !.len = @ + 1]
    <3> HIDE DEF c, tap
    <3> QED  BY <1>2, <2>2, <3>1, <3>2, <3>3, <3>4 DEF DmInv, DmTypes, DmRecord, c
  <2>3. CASE w # dm.word
    <3>1. dm' = [dm EXCEPT !.i = tap + 1, !.word = w, !.longest = Longer(dm),
                           !.curr = [len |-> 1, start |-> tap]]
      BY <1>1, <2>3
    <3>2. tap + 1 \in Nat
      BY <1>3
    <3> HIDE DEF tap
    <3> QED  BY <1>2, <2>1, <2>3, <3>1, <3>2 DEF DmInv, DmTypes, DmRecord
  <2> QED  BY <2>2, <2>3
<1>7. DmTypes'
  <2>1. dmTap' \in [DmAfe -> Int]
    <3>1. tap \in Int
      BY <1>3
    <3> HIDE DEF tap
    <3> QED  BY <1>2, <3>1 DEF DmInv, DmTypes
  <2> QED  BY <1>2, <1>5, <1>6, <2>1 DEF DmInv, DmTypes
<1>8. DmProgress'
  <2>1. /\ W' = dmRead'[dm.afe].words /\ W'[tap] = w /\ W'[tap - 1] = W[tap - 1]
        /\ \A j \in 0..(tap - 1) : W'[j] = W[j]
    <3>1. tap - 1 \in DmTap \ {tap} /\ \A j \in 0..(tap - 1) : j \in DmTap \ {tap}
      <4> HIDE DEF tap
      <4>1. tap \in Nat /\ tap >= 1 /\ tap <= DmTaps - 1 /\ DmTaps \in Nat
        BY <1>3, <1>4, DevmemAssumption DEF DmTap
      <4> QED  BY <4>1 DEF DmTap
    <3> QED  BY <1>5, <1>6, <3>1 DEF W
  <2> DEFINE V == W'
  <2>2. Scanned(V, tap, dm.curr.start, dm.curr.len, dm.longest.start, dm.longest.len)
    <3> HIDE DEF V
    <3>1. \A j \in 0..(tap - 1) : V[j] = W[j]
      BY <2>1 DEF V
    <3> QED  BY <1>3, <3>1, ScanSame
  <2>3. Scanned(V, tap + 1, dm'.curr.start, dm'.curr.len, dm'.longest.start, dm'.longest.len)
    <3>1. CASE w = dm.word
      <4>1. V[tap] = V[tap - 1]
        BY <1>3, <2>1, <3>1
      <4> HIDE DEF V
      <4> QED  BY <1>6, <2>2, <3>1, <4>1, ScanExtend
    <3>2. CASE w # dm.word
      <4>1. V[tap] # V[tap - 1]
        BY <1>3, <2>1, <3>2
      <4> HIDE DEF V
      <4>2. Best(V, tap, Longer(dm).start, Longer(dm).len)
        BY <2>2, ScanBest DEF Longer
      <4>3. Scanned(V, tap + 1, tap, 1, Longer(dm).start, Longer(dm).len)
        BY <1>3, <1>4, <4>1, <4>2, ScanBreak
      <4> QED  BY <1>6, <3>2, <4>3
    <3> QED  BY <3>1, <3>2
  <2>4. tap + 1 <= DmTaps /\ (tap + 1) - 1 = tap
    BY <1>2, <1>3, DevmemAssumption
  <2> QED  BY <1>3, <1>6, <2>1, <2>3, <2>4 DEF DmProgress
<1>9. ResultsTold'
  <2>1. \A a \in DmAfe \ {dm.afe} : dmTap'[a] = dmTap[a]
    BY <1>2, <1>4 DEF DmInv, DmTypes
  <2> QED  BY <1>2, <1>3, <1>5, <1>6, <1>7, <2>1, ResultsKept
<1> QED  BY <1>7, <1>8, <1>9 DEF DmInv

LEMMA SetMidStep == ASSUME DmInv, SetMid PROVE DmInv'
<1> DEFINE l == Longer(dm)
<1>1. /\ dm.at = "scan" /\ dm.i = DmTaps /\ dmSlip' = dmSlip /\ dmRead' = dmRead
      /\ dm' = [dm EXCEPT !.at = "hunt", !.i = 0, !.longest = l]
      /\ dmTap' = [dmTap EXCEPT ![dm.afe] = Mid(l)]
  BY DEF SetMid
<1>2. /\ dm.afe < DmAfes
      /\ Scanned(W, DmTaps, dm.curr.start, dm.curr.len, dm.longest.start, dm.longest.len)
  BY <1>1 DEF DmInv, DmProgress
<1>3. dm.afe \in 0..DmAfes /\ dm.curr \in RunRecord /\ dm.longest \in RunRecord
  BY DEF DmInv, DmTypes, DmRecord
<1>4. dm.afe \in DmAfe /\ l \in RunRecord /\ Mid(l) \in Int
  BY <1>2, <1>3, DevmemAssumption, MidType DEF DmAfe, Longer
<1>5. Best(W, DmTaps, l.start, l.len)
  BY <1>2, ScanBest DEF Longer
<1> HIDE DEF l
<1>6. /\ dm'.afe = dm.afe /\ dm'.at = "hunt" /\ dm'.i = 0 /\ dm'.longest = l
      /\ dm'.results = dm.results /\ dm' \in DmRecord
  BY <1>1, <1>4 DEF DmInv, DmTypes, DmRecord
<1>7. /\ dmTap' \in [DmAfe -> Int] /\ dmTap'[dm.afe] = Mid(l)
      /\ \A a \in DmAfe \ {dm.afe} : dmTap'[a] = dmTap[a]
  BY <1>1, <1>4 DEF DmInv, DmTypes
<1>8. DmTypes'
  BY <1>1, <1>6, <1>7 DEF DmInv, DmTypes
<1>9. DmProgress'
  <2>1. W' = W
    BY <1>1, <1>6 DEF W
  <2> QED  BY <1>2, <1>5, <1>6, <1>7, <2>1, DevmemAssumption DEF DmProgress
<1>10. ResultsTold'
  BY <1>1, <1>2, <1>6, <1>7, <1>8, ResultsKept
<1> QED  BY <1>8, <1>9, <1>10 DEF DmInv

(* The result for the AFE at hand, when its hunt ends.                     *)
LEMMA ResultTold ==
  ASSUME DmInv, dm.at = "hunt", NEW found \in Int, NEW slip, NEW read,
         read.words = W,
         IF found = -1 THEN read.last # DmPattern
         ELSE slip = found /\ read.last = DmPattern
  PROVE  /\ Result(found) \in ResultRecord /\ Result(found).afe = dm.afe
         /\ Told(Result(found), dmTap[dm.afe], slip, read)
<1> DEFINE l == dm.longest
           a == l.start
           b == l.start + l.len - 1
<1>1. Best(W, DmTaps, l.start, l.len) /\ dmTap[dm.afe] = Mid(l)
  BY DEF DmInv, DmProgress
<1>2. l \in RunRecord /\ dm.afe \in Int
  BY DEF DmInv, DmTypes, DmRecord
<1>3. /\ a \in Nat /\ b \in Nat /\ a \in DmTap /\ b \in DmTap
      /\ b - a = l.len - 1
  BY <1>1, <1>2, DevmemAssumption DEF Best, RunRecord, DmTap
<1>4. IsFirstLongestRun(W, DmTaps, a, b)
  BY <1>1, BestIsFirstLongest, DevmemAssumption
<1>5. Mid(l) = a + ((b - a) \div 2)
  BY <1>3 DEF Mid
<1>6. /\ Result(found).afe = dm.afe /\ Result(found).mid = Mid(l)
      /\ Result(found).found = found /\ Result(found) \in ResultRecord
  BY <1>2, MidType DEF Result, ResultRecord
<1> HIDE DEF a, b, l
<1> QED  BY <1>1, <1>3, <1>4, <1>5, <1>6 DEF Told, l

(* The program goes on to the next AFE.                                    *)
LEMMA NextAfeFacts ==
  ASSUME NEW p \in DmRecord, p.afe < DmAfes
  PROVE  /\ NextAfe(p).afe = p.afe + 1 /\ NextAfe(p).at = "probe"
         /\ NextAfe(p).results = p.results /\ NextAfe(p) \in DmRecord
<1>1. p.afe + 1 \in 0..DmAfes /\ NoRun \in RunRecord /\ DmPattern \in DmWords
  BY DevmemAssumption DEF DmRecord, NoRun, RunRecord
<1> QED  BY <1>1 DEF NextAfe, DmRecord

(* A result is added for the AFE at hand, which the program leaves.        *)
LEMMA LeaveAfe ==
  ASSUME DmInv, dm.at = "hunt", NEW found \in Int,
         dm' = NextAfe([dm EXCEPT !.results = Append(@, Result(found))]),
         dmTap' = dmTap, dmSlip' \in [DmAfe -> Int],
         dmRead' \in [DmAfe -> [words : [DmTap -> DmWords], last : DmWords]],
         \A a \in DmAfe \ {dm.afe} : dmSlip'[a] = dmSlip[a] /\ dmRead'[a] = dmRead[a],
         dmRead'[dm.afe].words = W,
         IF found = -1 THEN dmRead'[dm.afe].last # DmPattern
         ELSE dmSlip'[dm.afe] = found /\ dmRead'[dm.afe].last = DmPattern
  PROVE  DmInv'
<1> DEFINE r == Result(found)
           p == [dm EXCEPT !.results = Append(@, r)]
<1>1. dm \in DmRecord /\ dm.results \in Seq(ResultRecord) /\ dm.afe < DmAfes
  BY DEF DmInv, DmTypes, DmProgress, DmRecord
<1>2. /\ r \in ResultRecord /\ r.afe = dm.afe
      /\ Told(r, dmTap[dm.afe], dmSlip'[dm.afe], dmRead'[dm.afe])
  BY ResultTold
<1> HIDE DEF r
<1>3. /\ Append(dm.results, r) \in Seq(ResultRecord)
      /\ \A k \in DOMAIN Append(dm.results, r) :
           \/ k \in DOMAIN dm.results /\ Append(dm.results, r)[k] = dm.results[k]
           \/ Append(dm.results, r)[k] = r
  BY <1>1, <1>2, AppendResult
<1>4. p \in DmRecord /\ p.afe = dm.afe /\ p.results = Append(dm.results, r)
  BY <1>1, <1>3 DEF DmRecord
<1>5. dm' = NextAfe(p)
  BY DEF r
<1> HIDE DEF p
<1>6. /\ dm'.afe = dm.afe + 1 /\ dm'.at = "probe" /\ dm' \in DmRecord
      /\ dm'.results = Append(dm.results, r)
  BY <1>1, <1>4, <1>5, NextAfeFacts
<1>7. DmTypes'
  BY <1>6 DEF DmInv, DmTypes
<1>8. DmProgress'
  BY <1>6 DEF DmProgress
<1>9. ResultsTold'
  <2>1. \A k \in DOMAIN dm'.results :
           \/ k \in DOMAIN dm.results /\ dm'.results[k] = dm.results[k]
           \/ /\ dm'.afe = dm.afe + 1 /\ dm'.results[k].afe = dm.afe
              /\ Told(dm'.results[k], dmTap'[dm.afe], dmSlip'[dm.afe], dmRead'[dm.afe])
    BY <1>2, <1>3, <1>6
  <2> QED  BY <1>1, <1>6, <1>7, <2>1, ResultsKept
<1> QED  BY <1>7, <1>8, <1>9 DEF DmInv

LEMMA HuntStep == ASSUME DmInv, Hunt PROVE DmInv'
<1>1. /\ dm.at = "hunt" /\ dm.i < DmSlips /\ dmTap' = dmTap
      /\ dmSlip' = [dmSlip EXCEPT ![dm.afe] = dm.i]
  BY DEF Hunt
<1>2. PICK w \in DmWords :
        /\ dmRead' = [dmRead EXCEPT ![dm.afe].last = w]
        /\ dm' = IF w = DmPattern
                 THEN NextAfe([dm EXCEPT !.results = Append(@, Result(Found(dm.i)))])
                 ELSE [dm EXCEPT !.i = @ + 1]
  BY DEF Hunt
<1>3. dm \in DmRecord /\ dm.i \in Nat /\ dm.afe \in 0..DmAfes /\ dm.afe < DmAfes
  BY <1>1 DEF DmInv, DmTypes, DmProgress, DmRecord
<1>4. dm.afe \in DmAfe
  BY <1>3, DevmemAssumption DEF DmAfe
<1>5. /\ dmSlip' \in [DmAfe -> Int] /\ dmSlip'[dm.afe] = dm.i
      /\ \A a \in DmAfe \ {dm.afe} : dmSlip'[a] = dmSlip[a]
  BY <1>1, <1>3, <1>4 DEF DmInv, DmTypes
<1>6. /\ dmRead' \in [DmAfe -> [words : [DmTap -> DmWords], last : DmWords]]
      /\ dmRead'[dm.afe].words = W /\ dmRead'[dm.afe].last = w
      /\ \A a \in DmAfe \ {dm.afe} : dmRead'[a] = dmRead[a]
  BY <1>2, <1>4 DEF DmInv, DmTypes, W
<1>7. CASE w = DmPattern
  <2>1. dm' = NextAfe([dm EXCEPT !.results = Append(@, Result(dm.i))])
    BY <1>2, <1>7 DEF Found
  <2>2. dm.i \in Int /\ dm.i # -1
    BY <1>3
  <2> QED  BY <1>1, <1>5, <1>6, <1>7, <2>1, <2>2, LeaveAfe
<1>8. CASE w # DmPattern
  <2>1. dm' = [dm EXCEPT !.i = dm.i + 1] /\ dm.i + 1 \in Nat
    BY <1>2, <1>3, <1>8
  <2>2. /\ dm'.afe = dm.afe /\ dm'.at = "hunt" /\ dm'.i = dm.i + 1
        /\ dm'.longest = dm.longest /\ dm'.results = dm.results /\ dm' \in DmRecord
    BY <1>1, <1>3, <2>1 DEF DmRecord
  <2>3. DmTypes'
    BY <1>1, <1>5, <1>6, <2>2 DEF DmInv, DmTypes
  <2>4. DmProgress'
    <3>1. W' = W
      BY <1>6, <2>2 DEF W
    <3>2. dm.i + 1 <= DmSlips
      BY <1>1, <1>3, DevmemAssumption
    <3>3. dmTap[dm.afe] = Mid(dm.longest) /\ Best(W, DmTaps, dm.longest.start, dm.longest.len)
      BY <1>1 DEF DmInv, DmProgress
    <3> QED  BY <1>1, <1>3, <1>6, <1>8, <2>2, <3>1, <3>2, <3>3 DEF DmProgress
  <2>5. ResultsTold'
    BY <1>1, <1>3, <1>5, <1>6, <2>2, <2>3, ResultsKept
  <2> QED  BY <2>3, <2>4, <2>5 DEF DmInv
<1> QED  BY <1>7, <1>8

LEMMA NotFoundStep == ASSUME DmInv, NotFound PROVE DmInv'
<1>1. /\ dm.at = "hunt" /\ dm.i = DmSlips
      /\ dm' = NextAfe([dm EXCEPT !.results = Append(@, Result(-1))])
      /\ dmTap' = dmTap /\ dmSlip' = dmSlip /\ dmRead' = dmRead
  BY DEF NotFound
<1>2. dmRead[dm.afe].last # DmPattern
  BY <1>1, DevmemAssumption DEF DmInv, DmProgress
<1>3. /\ dmSlip \in [DmAfe -> Int]
      /\ dmRead \in [DmAfe -> [words : [DmTap -> DmWords], last : DmWords]]
  BY DEF DmInv, DmTypes
<1>4. /\ dmSlip' \in [DmAfe -> Int] /\ dmRead'[dm.afe].words = W
      /\ dmRead' \in [DmAfe -> [words : [DmTap -> DmWords], last : DmWords]]
      /\ \A a \in DmAfe \ {dm.afe} : dmSlip'[a] = dmSlip[a] /\ dmRead'[a] = dmRead[a]
      /\ dmRead'[dm.afe].last # DmPattern
  BY <1>1, <1>2, <1>3 DEF W
<1>5. -1 \in Int
  OBVIOUS
<1> QED  BY <1>1, <1>4, <1>5, LeaveAfe

LEMMA AccessFailsStep == ASSUME DmInv, AccessFails PROVE DmInv'
<1>1. dm \in DmRecord /\ dm.afe < DmAfes /\ dm' = NextAfe(dm) /\ dmRead' = dmRead
  BY DEF AccessFails, DmInv, DmTypes
<1>2. /\ dm'.afe = dm.afe + 1 /\ dm'.at = "probe" /\ dm'.results = dm.results
      /\ dm' \in DmRecord
  BY <1>1, NextAfeFacts
<1>3. /\ dm.afe \in DmAfe /\ dm.i \in Int
      /\ dm.curr \in RunRecord /\ dm.longest \in RunRecord
  <2>1. dm.afe \in 0..DmAfes /\ dm.curr \in RunRecord /\ dm.longest \in RunRecord
        /\ dm.i \in Int
    BY <1>1 DEF DmRecord
  <2> QED  BY <1>1, <2>1, DevmemAssumption DEF DmAfe
<1>4. TapOfStep \in Int
  BY <1>3, MidType DEF TapOfStep, Longer
<1>5. /\ dmTap' \in [DmAfe -> Int] /\ dmSlip' \in [DmAfe -> Int]
      /\ \A a \in DmAfe \ {dm.afe} : dmTap'[a] = dmTap[a] /\ dmSlip'[a] = dmSlip[a]
  <2>1. CASE UNCHANGED <<dmTap, dmSlip>>
    BY <2>1 DEF DmInv, DmTypes
  <2>2. CASE dmTap' = [dmTap EXCEPT ![dm.afe] = TapOfStep] /\ dmSlip' = dmSlip
    BY <1>3, <1>4, <2>2 DEF DmInv, DmTypes
  <2>3. CASE dmSlip' = [dmSlip EXCEPT ![dm.afe] = dm.i] /\ dmTap' = dmTap
    BY <1>3, <2>3 DEF DmInv, DmTypes
  <2> QED  BY <2>1, <2>2, <2>3 DEF AccessFails
<1>6. DmTypes'
  BY <1>1, <1>2, <1>5 DEF DmInv, DmTypes
<1>7. DmProgress'
  BY <1>2 DEF DmProgress
<1>8. ResultsTold'
  BY <1>1, <1>2, <1>5, <1>6, ResultsKept
<1> QED  BY <1>6, <1>7, <1>8 DEF DmInv

LEMMA DmStepInv == DmInv /\ [DevmemStep]_devmemVars => DmInv'
<1>1. DmInv /\ UNCHANGED devmemVars => DmInv'
  BY DEF devmemVars, DmInv, DmTypes, DmProgress, ResultsTold, W
<1> QED
  BY <1>1, ProbeStep, ScanTapStep, SetMidStep, HuntStep, NotFoundStep, AccessFailsStep
  DEF DevmemStep

(* For every number of AFEs, taps, bitslips and words, and whichever       *)
(* accesses fail: what the summary of align_all_afes.py says of an AFE is  *)
(* what its registers are left with, the tap in the middle of the first    *)
(* longest window, the bitslip one at which the wanted pattern was read.   *)
THEOREM SummariesAreTrue == DevmemSpec => []SummaryIsTrue
<1>1. DmInv => SummaryIsTrue
  BY DEF DmInv, ResultsTold, Told, SummaryIsTrue, DmTap
<1> QED  BY <1>1, DmInitInv, DmStepInv, PTL DEF DevmemSpec

(***************************************************************************)
(*                                 alignAFE                                *)
(***************************************************************************)
(* The AFEs whose part of the loop is over.                                *)
Done(a) == pc = "report" \/ (pc \in {"delay", "bitslip", "verify"} /\ a < afe)

(* n counts the reads of the loop that runs, and a verification without a  *)
(* failed read has seen the expected word in each of them.                 *)
CountInv ==
  /\ pc = "delay" => n <= Taps
  /\ pc = "verify" => n <= Reads
  /\ pc = "verify" /\ verified => good[afe] >= n

(* An AFE that is done and did not fail is verified, and after the wait    *)
(* DELAYCTRL_READY has been seen.                                          *)
DoneInv ==
  /\ pc \in {"delay", "bitslip", "verify", "report"} => readySeen
  /\ \A a \in AFEs : Done(a) /\ a \notin failures => good[a] = Reads

(* There is a successful answer only between two alignments.               *)
AnswerInv == answer.status = "aligned" => pc = "idle"

AlignInv ==
  /\ TypeOK
  /\ CountInv
  /\ DoneInv
  /\ AnswerInv
  /\ AlignedIsVerified

(* The midpoint of a run of taps is a tap.                                 *)
LEMMA MidpointInTap ==
  ASSUME NEW first \in Tap, NEW last \in Tap, first <= last
  PROVE  Midpoint(first, last) \in Tap
<1>1. /\ first \in Nat /\ last \in Nat /\ Taps \in Nat /\ last <= Taps - 1
  BY AlignAssumption DEF Tap
<1>2. /\ (last - first) \div 2 \in Nat
      /\ (last - first) \div 2 <= last - first
  BY <1>1
<1> QED
  BY <1>1, <1>2 DEF Midpoint, Tap

(* The state after power-up.                                               *)
LEMMA AlignInitInv == Init => AlignInv
<1> SUFFICES ASSUME Init PROVE AlignInv
  OBVIOUS
<1>1. TypeOK
  <2>1. 0 \in AFEs /\ 0 \in Tap /\ 0 \in Slip /\ 0 \in 0..Reads
    BY AlignAssumption DEF AFEs, Tap, Slip
  <2>2. readySeen \in BOOLEAN
    BY DEF Init
  <2> QED
    BY <2>1, <2>2, AlignAssumption DEF Init, TypeOK
<1>2. CountInv /\ DoneInv
  BY DEF Init, CountInv, DoneInv, Done
<1>3. AnswerInv /\ AlignedIsVerified
  BY DEF Init, AnswerInv, AlignedIsVerified, None
<1> QED
  BY <1>1, <1>2, <1>3 DEF AlignInv

(* Every step keeps the types.                                             *)
LEMMA TypeStep == AlignInv /\ [Next]_vars => TypeOK'
<1> SUFFICES ASSUME AlignInv, [Next]_vars PROVE TypeOK'
  OBVIOUS
<1>0. TypeOK /\ CountInv
  BY DEF AlignInv
<1>c. /\ Taps \in Nat /\ Slips \in Nat /\ NAfe \in Nat /\ Reads \in Nat
      /\ Taps >= 1 /\ Slips >= 1 /\ NAfe >= 1 /\ Reads >= 1
      /\ MaxPolls \in Nat /\ Expected \in Words
  BY AlignAssumption
<1>1. CASE Begin
  BY <1>0, <1>1, <1>c DEF Begin, ResetDelayCtrlValues, TypeOK, AFEs, Tap, Slip
<1>2. CASE Reset
  BY <1>0, <1>2 DEF Reset, TypeOK
<1>3. CASE IsReady
  BY <1>0, <1>3, <1>c DEF IsReady, regs, TypeOK, AFEs
<1>4. CASE NotReady
  BY <1>0, <1>4, <1>c DEF NotReady, regs, history, TypeOK
<1>5. CASE GiveUp
  BY <1>0, <1>5 DEF GiveUp, local, regs, history, TypeOK
<1>6. CASE ScanDelay
  <2>1. n \in Tap
    BY <1>0, <1>6, <1>c DEF ScanDelay, TypeOK, Tap
  <2>2. PICK w \in Words : spy' = w /\ CapturedFirst(w)
    BY <1>6 DEF ScanDelay
  <2>3. good' \in [AFEs -> 0..Reads]
    BY <1>0, <1>c, <2>2 DEF TypeOK, CapturedFirst
  <2>4. readySeen' \in BOOLEAN
    BY <1>0, <2>2, Zenon DEF TypeOK, CapturedFirst
  <2>5. delay' \in [AFEs -> Tap] /\ n' \in Nat
    BY <1>0, <1>6, <2>1 DEF ScanDelay, TypeOK
  <2>6. UNCHANGED <<pc, afe, matched, verified, initialBitslip, alignedWord,
                    failures, bitslip, vtc, ready>>
    BY <1>6 DEF ScanDelay
  <2> QED
    BY <1>0, <2>2, <2>3, <2>4, <2>5, <2>6 DEF TypeOK
<1>7. CASE SetBestDelay
  <2>1. PICK first, last \in Tap :
          /\ IsFirstLongestRun(data, Taps, first, last)
          /\ delay' = [delay EXCEPT ![afe] = Midpoint(first, last)]
    BY <1>7 DEF SetBestDelay
  <2>2. first <= last
    BY <2>1, <1>c DEF IsFirstLongestRun, Tap
  <2>3. Midpoint(first, last) \in Tap
    BY <2>2, MidpointInTap
  <2>4. delay' \in [AFEs -> Tap]
    BY <1>0, <2>1, <2>3 DEF TypeOK
  <2>5. good' \in [AFEs -> 0..Reads] /\ initialBitslip' \in Slip
    BY <1>0, <1>7, <1>c DEF TypeOK, SetBestDelay
  <2> QED
    BY <1>0, <1>7, <2>4, <2>5 DEF SetBestDelay, TypeOK
<1>8. CASE ScanBitslip
  <2>1. n \in Slip
    BY <1>0, <1>8, <1>c DEF ScanBitslip, TypeOK, Slip
  <2>2. PICK w \in Words : spy' = w /\ CapturedFirst(w)
    BY <1>8 DEF ScanBitslip
  <2>3. good' \in [AFEs -> 0..Reads]
    BY <1>0, <1>c, <2>2 DEF TypeOK, CapturedFirst
  <2>4. readySeen' \in BOOLEAN
    BY <1>0, <2>2, Zenon DEF TypeOK, CapturedFirst
  <2>5. bitslip' \in [AFEs -> Slip] /\ n' \in Nat
    BY <1>0, <1>8, <2>1 DEF ScanBitslip, TypeOK
  <2>6. UNCHANGED <<pc, afe, matched, verified, initialBitslip, alignedWord,
                    failures, delay, vtc, ready>>
    BY <1>8 DEF ScanBitslip
  <2> QED
    BY <1>0, <2>2, <2>3, <2>4, <2>5, <2>6 DEF TypeOK
<1>9. CASE SetBestBitslip
  <2>1. PICK s \in Slip : bitslip' = [bitslip EXCEPT ![afe] = s]
    BY <1>9 DEF SetBestBitslip
  <2>2. PICK w \in Words :
          spy' = w /\ CapturedFirst(w) /\ alignedWord' \in {w, spy}
    BY <1>9 DEF SetBestBitslip
  <2>3. good' \in [AFEs -> 0..Reads]
    BY <1>0, <1>c, <2>2 DEF TypeOK, CapturedFirst
  <2>4. readySeen' \in BOOLEAN
    BY <1>0, <2>2, Zenon DEF TypeOK, CapturedFirst
  <2>5. matched' \in BOOLEAN /\ verified' \in BOOLEAN
    BY <1>9, Zenon DEF SetBestBitslip
  <2> QED
    BY <1>0, <1>9, <2>1, <2>2, <2>3, <2>4, <2>5 DEF SetBestBitslip, TypeOK
<1>10. CASE Verify
  <2>1. PICK w \in Words :
          /\ spy' = w /\ Captured(w)
          /\ verified' = (verified /\ w = Expected)
    BY <1>10 DEF Verify
  <2>2. good' \in [AFEs -> 0..Reads]
    BY <1>0, <1>c, <2>1 DEF TypeOK, Captured
  <2>3. readySeen' \in BOOLEAN
    BY <1>0, <2>1, Zenon DEF TypeOK, Captured
  <2>4. verified' \in BOOLEAN
    BY <1>0, <2>1, Zenon DEF TypeOK
  <2> QED
    BY <1>0, <1>10, <2>1, <2>2, <2>3, <2>4 DEF Verify, regs, TypeOK
<1>11. CASE EndOfAfe
  <2>1. afe' \in AFEs
    BY <1>0, <1>11, <1>c DEF EndOfAfe, TypeOK, AFEs
  <2>2. failures' \in SUBSET AFEs
    BY <1>0, <1>11 DEF EndOfAfe, TypeOK
  <2> QED
    BY <1>0, <1>11, <2>1, <2>2 DEF EndOfAfe, regs, history, TypeOK
<1>12. CASE Report
  BY <1>0, <1>12 DEF Report, local, history, TypeOK
<1>13. CASE DelayCtrl
  BY <1>0, <1>13 DEF DelayCtrl, local, regs, history, TypeOK
<1>14. CASE UNCHANGED vars
  BY <1>0, <1>14 DEF vars, local, regs, history, TypeOK
<1> QED
  BY <1>1, <1>2, <1>3, <1>4, <1>5, <1>6, <1>7, <1>8, <1>9, <1>10, <1>11,
     <1>12, <1>13, <1>14 DEF Next, Align

(* Every step keeps the counting part.                                     *)
LEMMA CountStep == AlignInv /\ [Next]_vars => CountInv'
<1> SUFFICES ASSUME AlignInv, [Next]_vars PROVE CountInv'
  OBVIOUS
<1>0. TypeOK /\ CountInv
  BY DEF AlignInv
<1>c. Taps \in Nat /\ Reads \in Nat
  BY AlignAssumption
<1>1. CASE Begin
  BY <1>1 DEF Begin, ResetDelayCtrlValues, CountInv
<1>2. CASE Reset
  BY <1>2 DEF Reset, CountInv
<1>3. CASE IsReady
  BY <1>c, <1>3 DEF IsReady, CountInv
<1>4. CASE NotReady
  BY <1>4 DEF NotReady, CountInv
<1>5. CASE GiveUp
  BY <1>5 DEF GiveUp, CountInv
<1>6. CASE ScanDelay
  BY <1>0, <1>c, <1>6 DEF ScanDelay, CountInv, TypeOK
<1>7. CASE SetBestDelay
  BY <1>7 DEF SetBestDelay, CountInv
<1>8. CASE ScanBitslip
  BY <1>8 DEF ScanBitslip, CountInv
<1>9. CASE SetBestBitslip
  <2>1. afe' = afe /\ n' = 0 /\ pc' = "verify"
    BY <1>9 DEF SetBestBitslip
  <2>2. good'[afe'] \in 0..Reads
    BY <2>1, <1>0, TypeStep DEF TypeOK
  <2> QED
    BY <2>1, <2>2, <1>c DEF CountInv
<1>10. CASE Verify
  <2>1. PICK w \in Words :
          Captured(w) /\ verified' = (verified /\ w = Expected)
    BY <1>10 DEF Verify
  <2>2. /\ pc = "verify" /\ pc' = "verify" /\ afe' = afe
        /\ n' = n + 1 /\ n < Reads
    BY <1>10 DEF Verify
  <2>3. n' <= Reads
    BY <2>2, <1>0, <1>c DEF TypeOK
  <2>4. ASSUME verified' PROVE good'[afe'] >= n'
    <3>1. w = Expected /\ verified
      BY <2>1, <2>4
    <3>2. good[afe] >= n /\ good[afe] \in 0..Reads
      BY <3>1, <2>2, <1>0 DEF CountInv, TypeOK
    <3>3. good'[afe] = IF good[afe] < Reads THEN good[afe] + 1 ELSE good[afe]
      BY <3>1, <2>1, <1>0 DEF Captured, TypeOK
    <3> QED
      BY <3>2, <3>3, <2>2, <1>0, <1>c DEF TypeOK
  <2> QED
    BY <2>2, <2>3, <2>4 DEF CountInv
<1>11. CASE EndOfAfe
  BY <1>c, <1>11 DEF EndOfAfe, CountInv
<1>12. CASE Report
  BY <1>12 DEF Report, CountInv
<1>13. CASE DelayCtrl
  BY <1>0, <1>13 DEF DelayCtrl, local, history, CountInv
<1>14. CASE UNCHANGED vars
  BY <1>0, <1>14 DEF vars, local, history, CountInv
<1> QED
  BY <1>1, <1>2, <1>3, <1>4, <1>5, <1>6, <1>7, <1>8, <1>9, <1>10, <1>11,
     <1>12, <1>13, <1>14 DEF Next, Align

(* A step of the part of an AFE writes the history of that AFE only.       *)
LEMMA DoneKept ==
  ASSUME AlignInv, afe' = afe, failures' = failures, readySeen' = readySeen,
         pc \in {"delay", "bitslip", "verify"},
         pc' \in {"delay", "bitslip", "verify"},
         \A a \in AFEs : a # afe => good'[a] = good[a]
  PROVE  DoneInv'
<1>1. afe \in Int /\ \A a \in AFEs : a \in Int
  BY AlignAssumption DEF AlignInv, TypeOK, AFEs
<1>2. ASSUME NEW a \in AFEs, Done(a)' PROVE a < afe /\ a # afe
  BY <1>1, <1>2 DEF Done
<1>3. ASSUME NEW a \in AFEs, Done(a)', a \notin failures'
      PROVE  good'[a] = Reads
  <2>1. Done(a) /\ a \notin failures
    BY <1>2, <1>3 DEF Done
  <2> QED
    BY <2>1, <1>2, <1>3 DEF AlignInv, DoneInv
<1>4. readySeen'
  BY DEF AlignInv, DoneInv
<1> QED
  BY <1>3, <1>4 DEF DoneInv

(* Every step keeps what is known of the AFEs that are done.               *)
LEMMA DoneStep == AlignInv /\ [Next]_vars => DoneInv'
<1> SUFFICES ASSUME AlignInv, [Next]_vars PROVE DoneInv'
  OBVIOUS
<1>0. TypeOK /\ CountInv /\ DoneInv
  BY DEF AlignInv
<1>c. Reads \in Nat /\ NAfe \in Nat /\ \A a \in AFEs : a \in 0..(NAfe - 1)
  BY AlignAssumption DEF AFEs
<1>1. CASE Begin
  BY <1>1 DEF Begin, ResetDelayCtrlValues, DoneInv, Done
<1>2. CASE Reset
  BY <1>2 DEF Reset, DoneInv, Done
<1>3. CASE IsReady
  BY <1>c, <1>3 DEF IsReady, DoneInv, Done
<1>4. CASE NotReady
  BY <1>4 DEF NotReady, DoneInv, Done
<1>5. CASE GiveUp
  BY <1>5 DEF GiveUp, DoneInv, Done
<1>6. CASE ScanDelay
  <2>1. \A a \in AFEs : a # afe => good'[a] = good[a]
    BY <1>0, <1>6 DEF ScanDelay, CapturedFirst, TypeOK
  <2> QED
    BY <1>6, <2>1, DoneKept DEF ScanDelay, CapturedFirst
<1>7. CASE SetBestDelay
  <2>1. \A a \in AFEs : a # afe => good'[a] = good[a]
    BY <1>0, <1>7 DEF SetBestDelay, TypeOK
  <2> QED
    BY <1>7, <2>1, DoneKept DEF SetBestDelay
<1>8. CASE ScanBitslip
  <2>1. \A a \in AFEs : a # afe => good'[a] = good[a]
    BY <1>0, <1>8 DEF ScanBitslip, CapturedFirst, TypeOK
  <2> QED
    BY <1>8, <2>1, DoneKept DEF ScanBitslip, CapturedFirst
<1>9. CASE SetBestBitslip
  <2>1. \A a \in AFEs : a # afe => good'[a] = good[a]
    BY <1>0, <1>9 DEF SetBestBitslip, CapturedFirst, TypeOK
  <2> QED
    BY <1>9, <2>1, DoneKept DEF SetBestBitslip, CapturedFirst
<1>10. CASE Verify
  <2>1. \A a \in AFEs : a # afe => good'[a] = good[a]
    BY <1>0, <1>10 DEF Verify, Captured, TypeOK
  <2> QED
    BY <1>10, <2>1, DoneKept DEF Verify, Captured
<1>11. CASE EndOfAfe
  <2>1. ASSUME NEW a \in AFEs, Done(a)', a \notin failures'
        PROVE  good'[a] = Reads
    <3>1. a \notin failures /\ good' = good
      BY <1>11, <2>1 DEF EndOfAfe, history
    <3>2. afe \in Int /\ a \in Int /\ a <= NAfe - 1
      BY <1>0, <1>c DEF TypeOK, AFEs
    <3>3. CASE a < afe
      BY <3>1, <3>3, <1>0, <1>11 DEF EndOfAfe, DoneInv, Done
    <3>4. CASE a = afe
      <4>1. verified
        BY <1>11, <2>1, <3>4 DEF EndOfAfe
      <4>2. good[afe] >= Reads /\ good[afe] \in 0..Reads
        BY <4>1, <1>0, <1>11 DEF EndOfAfe, CountInv, TypeOK
      <4> QED
        BY <4>2, <3>1, <3>4, <1>c
    <3>5. CASE a > afe
      <4>1. afe + 1 < NAfe
        BY <3>2, <3>5, <1>c
      <4> QED
        BY <4>1, <3>2, <3>5, <2>1, <1>11 DEF EndOfAfe, Done
    <3> QED
      BY <3>2, <3>3, <3>4, <3>5
  <2>2. readySeen'
    BY <1>0, <1>11 DEF EndOfAfe, history, DoneInv
  <2> QED
    BY <2>1, <2>2 DEF DoneInv
<1>12. CASE Report
  BY <1>12 DEF Report, DoneInv, Done
<1>13. CASE DelayCtrl
  BY <1>0, <1>13 DEF DelayCtrl, local, history, DoneInv, Done
<1>14. CASE UNCHANGED vars
  BY <1>0, <1>14 DEF vars, local, history, DoneInv, Done
<1> QED
  BY <1>1, <1>2, <1>3, <1>4, <1>5, <1>6, <1>7, <1>8, <1>9, <1>10, <1>11,
     <1>12, <1>13, <1>14 DEF Next, Align

(* Report is the only step that answers with success, and Begin takes the  *)
(* answer back before anything is written.                                 *)
LEMMA AnswerStep == AlignInv /\ [Next]_vars => AnswerInv' /\ AlignedIsVerified'
<1> SUFFICES ASSUME AlignInv, [Next]_vars
             PROVE  AnswerInv' /\ AlignedIsVerified'
  OBVIOUS
<1>0. TypeOK /\ DoneInv /\ AnswerInv /\ AlignedIsVerified
  BY DEF AlignInv
<1>1. CASE Begin
  BY <1>1 DEF Begin, ResetDelayCtrlValues, None, AnswerInv, AlignedIsVerified
<1>2. CASE GiveUp
  BY <1>2 DEF GiveUp, AnswerInv, AlignedIsVerified
<1>3. CASE Report
  <2>1. /\ pc = "report" /\ pc' = "idle" /\ vtc' = 1
        /\ readySeen' = readySeen /\ good' = good
        /\ delay' = delay /\ bitslip' = bitslip
    BY <1>3 DEF Report, history
  <2>2. /\ answer'.status = IF failures = {} THEN "aligned" ELSE "failed"
        /\ answer'.delay = delay /\ answer'.bitslip = bitslip
    BY <1>3 DEF Report
  <2>3. failures = {} => \A a \in AFEs : good[a] = Reads
    BY <2>1, <1>0 DEF DoneInv, Done
  <2>4. readySeen
    BY <2>1, <1>0 DEF DoneInv
  <2> QED
    BY <2>1, <2>2, <2>3, <2>4 DEF AnswerInv, AlignedIsVerified
<1>4. CASE Align /\ ~GiveUp /\ ~Report
  <2>1. pc # "idle" /\ answer' = answer
    BY <1>4 DEF Align, Reset, IsReady, NotReady, ScanDelay, SetBestDelay,
                ScanBitslip, SetBestBitslip, Verify, EndOfAfe
  <2> QED
    BY <2>1, <1>0 DEF AnswerInv, AlignedIsVerified
<1>5. CASE DelayCtrl \/ UNCHANGED vars
  BY <1>0, <1>5 DEF DelayCtrl, vars, local, regs, history, AnswerInv,
                    AlignedIsVerified
<1> QED
  BY <1>1, <1>2, <1>3, <1>4, <1>5 DEF Next

(* The registers of the front end and the history keep their types.        *)
THEOREM AlignTypeCorrect == Spec => []TypeOK
<1>1. AlignInv /\ [Next]_vars => AlignInv'
  BY TypeStep, CountStep, DoneStep, AnswerStep DEF AlignInv
<1>2. AlignInv => TypeOK
  BY DEF AlignInv
<1> QED
  BY AlignInitInv, <1>1, <1>2, PTL DEF Spec

(* The acceptance criteria of the alignment: a successful answer follows   *)
(* DELAYCTRL_READY after the reset, names the settings in the registers,   *)
(* and the last Reads captures of every AFE at its setting showed the      *)
(* expected word.                                                          *)
THEOREM AlignedLinksAreVerified == Spec => []AlignedIsVerified
<1>1. AlignInv /\ [Next]_vars => AlignInv'
  BY TypeStep, CountStep, DoneStep, AnswerStep DEF AlignInv
<1>2. AlignInv => AlignedIsVerified
  BY DEF AlignInv
<1> QED
  BY AlignInitInv, <1>1, <1>2, PTL DEF Spec

(***************************************************************************)
(*                    The clocks and the timing endpoint                   *)
(***************************************************************************)
(* What the request under way has done when the handler is at each step,   *)
(* and that the earlier answer is gone.                                    *)
ClockProgress ==
  /\ clkPc # "idle" => ~clkAnswer.success
  /\ clkPc \in {"waitLock", "endpoint", "waitReady"} => source = req.source
  /\ clkPc \in {"endpoint", "waitReady"} /\ okClk => lockSeen
  /\ clkPc = "waitReady" => address = req.id % AddressSpace

ClockInv == ClockTypeOK /\ ClockProgress /\ SuccessIsConfigured

(* An id cut to the width of the register fits in it.                      *)
LEMMA AddressType ==
  ASSUME NEW r \in Request \cup {NoRequest}
  PROVE  r.source \in Source /\ Address(r.id) \in 0..(AddressSpace - 1)
<1>1. r.source \in Source /\ r.id \in Nat
  <2>1. CASE r \in Request
    BY <2>1, ClockAssumption DEF Request
  <2>2. CASE r = NoRequest
    BY <2>2 DEF NoRequest, Source
  <2> QED  BY <2>1, <2>2
<1>2. r.id % AddressSpace \in 0..(AddressSpace - 1)
  BY <1>1, ClockAssumption
<1> QED  BY <1>1, <1>2 DEF Address

LEMMA ClockInitInv == ClockInit => ClockInv
<1> SUFFICES ASSUME ClockInit PROVE ClockInv
  OBVIOUS
<1>1. ClockTypeOK
  <2>1. address \in 0..(AddressSpace - 1) /\ polls \in 0..MaxClockPolls
    BY ClockAssumption DEF ClockInit
  <2>2. locked \in BOOLEAN /\ epReady \in BOOLEAN /\ source \in Source
    BY DEF ClockInit
  <2> QED  BY <2>1, <2>2 DEF ClockInit, ClockTypeOK, NoAnswer
<1> QED  BY <1>1 DEF ClockInit, ClockInv, ClockProgress, SuccessIsConfigured, NoAnswer

(* One case for each action of the handler and the hardware.               *)
LEMMA ClockStepInv == ClockInv /\ [ClockNext]_clockVars => ClockInv'
<1> SUFFICES ASSUME ClockInv, [ClockNext]_clockVars PROVE ClockInv'
  OBVIOUS
<1> USE ClockAssumption DEF ClockInv, ClockTypeOK, ClockProgress, SuccessIsConfigured
<1>1. CASE BeginClocks
  BY <1>1 DEF BeginClocks, NoAnswer
<1>2. CASE BadPayload
  BY <1>2 DEF BadPayload
<1>3. CASE MapFails
  BY <1>3 DEF MapFails
<1>4. CASE SetClockSource
  <2>1. req.source \in Source /\ locked' \in BOOLEAN
    BY <1>4, AddressType DEF SetClockSource
  <2> QED  BY <1>4, <2>1 DEF SetClockSource
<1>5. CASE Locked
  BY <1>5 DEF Locked
<1>6. CASE NotLocked
  BY <1>6 DEF NotLocked
<1>7. CASE LockTimeout
  BY <1>7 DEF LockTimeout
<1>8. CASE SetEndpointAddr
  <2>1. /\ address' \in 0..(AddressSpace - 1) /\ address' = req.id % AddressSpace
        /\ epReady' \in BOOLEAN
    BY <1>8, AddressType DEF SetEndpointAddr, Address
  <2> QED  BY <1>8, <2>1 DEF SetEndpointAddr
<1>9. CASE EndpointReady
  <2>1. clkAnswer'.success = okClk
    BY <1>9 DEF EndpointReady, Success
  <2> QED  BY <1>9, <2>1 DEF EndpointReady
<1>10. CASE EndpointNotReady
  BY <1>10 DEF EndpointNotReady
<1>11. CASE ReadyTimeout
  <2>1. clkAnswer'.success = FALSE
    BY <1>11 DEF ReadyTimeout, Success
  <2> QED  BY <1>11, <2>1 DEF ReadyTimeout
<1>12. CASE Hardware
  <2>1. locked' \in BOOLEAN /\ epReady' \in BOOLEAN
    BY <1>12, Zenon DEF Hardware
  <2> QED  BY <1>12, <2>1 DEF Hardware
<1>13. CASE UNCHANGED clockVars
  BY <1>13 DEF clockVars
<1> QED
  BY <1>1, <1>2, <1>3, <1>4, <1>5, <1>6, <1>7, <1>8, <1>9, <1>10, <1>11, <1>12, <1>13
  DEF ClockNext, ClockStep

(* For every set of ids and every deadline, whatever the hardware does in  *)
(* between: a clock configuration answered as successful                   *)
(* (set_clock_source_and_mmcm_reset, set_endpoint_addr_and_reset) has set  *)
(* the requested source and address and has seen the locks and the         *)
(* endpoint up after it did.                                               *)
THEOREM ClocksAreConfigured == ClockSpec => []ClockIsConfigured
<1>1. ClockInv => ClockIsConfigured
  BY DEF ClockInv, ClockIsConfigured
<1> QED  BY <1>1, ClockInitInv, ClockStepInv, PTL DEF ClockSpec

(***************************************************************************)
(*                       How long the handlers take                        *)
(***************************************************************************)
(* The longest way of alignAFE from each of its steps: PerAfe steps for an *)
(* AFE, and the wait and its ends once.                                    *)
PerAfe == Taps + Slips + Reads + 3

AlignSteps ==
  LET after == 1 + (NAfe - 1 - afe) * PerAfe IN
  CASE pc = "idle" -> 0
    [] pc = "reset" -> 3 + MaxPolls + NAfe * PerAfe
    [] pc = "wait" -> 2 + (MaxPolls - n) + NAfe * PerAfe
    [] pc = "delay" -> (Taps - n) + Slips + Reads + 3 + after
    [] pc = "bitslip" -> (Slips - n) + Reads + 2 + after
    [] pc = "verify" -> (Reads - n) + 1 + after
    [] pc = "report" -> 1

(* The number of steps that are left is never more than those of a whole   *)
(* alignment, every step of the router thread takes one at least, and the  *)
(* hardware adds none: alignAFE is left after as many steps, however often *)
(* DELAYCTRL_READY comes and goes.                                         *)
AlignIsBounded ==
  /\ [](AlignSteps \in 0..(3 + MaxPolls + NAfe * PerAfe))
  /\ [][/\ Align => AlignSteps' < AlignSteps
        /\ DelayCtrl => AlignSteps' = AlignSteps]_vars

(* No loop runs past its bound.                                            *)
LoopInv ==
  /\ pc = "wait" => n <= MaxPolls
  /\ pc = "bitslip" => n <= Slips

LEMMA LoopStep == AlignInv /\ LoopInv /\ [Next]_vars => LoopInv'
<1> SUFFICES ASSUME AlignInv, LoopInv, [Next]_vars PROVE LoopInv'
  OBVIOUS
<1>1. /\ n \in Nat /\ Taps \in Nat /\ Slips \in Nat /\ MaxPolls \in Nat
  BY AlignAssumption DEF AlignInv, TypeOK
<1> QED
  BY <1>1 DEF LoopInv, Next, Begin, Align, Reset, IsReady, NotReady, GiveUp, ScanDelay,
     SetBestDelay, ScanBitslip, SetBestBitslip, Verify, EndOfAfe, Report, DelayCtrl, vars,
     local

LEMMA AlignConstants ==
  /\ PerAfe \in Nat /\ NAfe \in Nat \ {0} /\ NAfe * PerAfe \in Nat
  /\ \A a \in AFEs :
       /\ (NAfe - 1 - a) * PerAfe \in Nat
       /\ (NAfe - 1 - a) * PerAfe + PerAfe <= NAfe * PerAfe
  /\ (NAfe - 1 - 0) * PerAfe + PerAfe = NAfe * PerAfe
  /\ \A a \in AFEs : a + 1 \in AFEs =>
       (NAfe - 1 - (a + 1)) * PerAfe + PerAfe = (NAfe - 1 - a) * PerAfe
<1>1. NAfe \in Nat \ {0} /\ Taps \in Nat /\ Slips \in Nat /\ Reads \in Nat
  BY AlignAssumption
<1>2. PerAfe \in Nat
  BY <1>1 DEF PerAfe
<1>3. \A k, p \in Nat : k * p \in Nat /\ (k + 1) * p = k * p + p
  OBVIOUS
<1>4. \A k, m, p \in Nat : k <= m => k * p <= m * p
  <2> SUFFICES ASSUME NEW k \in Nat, NEW m \in Nat, NEW p \in Nat, k <= m
               PROVE  k * p <= m * p
    OBVIOUS
  <2>1. (m - k) * p \in Nat /\ m * p = k * p + (m - k) * p
    BY <1>3
  <2> QED  BY <1>3, <2>1
<1>5. \A a \in AFEs : a \in Nat /\ a <= NAfe - 1 /\ NAfe - 1 - a \in Nat
  BY <1>1 DEF AFEs
<1>6. \A a \in AFEs : (NAfe - 1 - a) * PerAfe + PerAfe = (NAfe - a) * PerAfe
  <2> TAKE a \in AFEs
  <2>1. NAfe - 1 - a \in Nat /\ (NAfe - 1 - a) + 1 = NAfe - a
    BY <1>1, <1>5
  <2>2. ((NAfe - 1 - a) + 1) * PerAfe = (NAfe - 1 - a) * PerAfe + PerAfe
    BY <1>2, <1>3, <2>1
  <2> QED  BY <2>1, <2>2
<1>7. \A a \in AFEs : (NAfe - 1 - a) * PerAfe + PerAfe <= NAfe * PerAfe
  <2> TAKE a \in AFEs
  <2>1. NAfe - a \in Nat /\ NAfe - a <= NAfe
    BY <1>1, <1>5
  <2>2. (NAfe - a) * PerAfe <= NAfe * PerAfe
    BY <1>1, <1>2, <1>4, <2>1
  <2> QED  BY <1>6, <2>2
<1>8. (NAfe - 1 - 0) * PerAfe + PerAfe = NAfe * PerAfe
  <2>1. 0 \in AFEs /\ NAfe - 0 = NAfe
    BY <1>1 DEF AFEs
  <2> QED  BY <1>6, <2>1
<1>9. ASSUME NEW a \in AFEs, a + 1 \in AFEs
      PROVE  (NAfe - 1 - (a + 1)) * PerAfe + PerAfe = (NAfe - 1 - a) * PerAfe
  <2>1. NAfe - (a + 1) = NAfe - 1 - a
    BY <1>1, <1>5
  <2> QED  BY <1>6, <1>9, <2>1
<1> QED  BY <1>1, <1>2, <1>3, <1>5, <1>7, <1>8, <1>9

(* The steps left, and what a step of each kind makes of them.             *)
LEMMA AlignStepsFacts ==
  ASSUME AlignInv, LoopInv
  PROVE  AlignSteps \in 0..(3 + MaxPolls + NAfe * PerAfe)
<1> DEFINE after == (NAfe - 1 - afe) * PerAfe
           all == NAfe * PerAfe
<1>1. /\ afe \in AFEs /\ n \in Nat /\ Taps \in Nat /\ Slips \in Nat /\ Reads \in Nat
      /\ MaxPolls \in Nat
      /\ pc \in {"idle", "reset", "wait", "delay", "bitslip", "verify", "report"}
      /\ pc = "delay" => n <= Taps
      /\ pc = "verify" => n <= Reads
      /\ pc = "wait" => n <= MaxPolls
      /\ pc = "bitslip" => n <= Slips
  BY AlignAssumption DEF AlignInv, TypeOK, CountInv, LoopInv
<1>2. after \in Nat /\ all \in Nat /\ after + PerAfe <= all
  BY <1>1, AlignConstants
<1>3. AlignSteps =
        CASE pc = "idle" -> 0
          [] pc = "reset" -> 3 + MaxPolls + all
          [] pc = "wait" -> 2 + (MaxPolls - n) + all
          [] pc = "delay" -> (Taps - n) + Slips + Reads + 3 + (1 + after)
          [] pc = "bitslip" -> (Slips - n) + Reads + 2 + (1 + after)
          [] pc = "verify" -> (Reads - n) + 1 + (1 + after)
          [] pc = "report" -> 1
  BY DEF AlignSteps
<1> SUFFICES AlignSteps \in 0..(3 + MaxPolls + all)
  OBVIOUS
<1> HIDE DEF after, all
<1> QED  BY <1>1, <1>2, <1>3 DEF PerAfe

LEMMA AlignStepTakes ==
  ASSUME AlignInv, LoopInv, Align
  PROVE  AlignSteps' < AlignSteps
<1> DEFINE rest(a) == (NAfe - 1 - a) * PerAfe
           all == NAfe * PerAfe
<1>1. /\ afe \in AFEs /\ n \in Nat /\ Taps \in Nat /\ Slips \in Nat /\ Reads \in Nat
      /\ MaxPolls \in Nat
      /\ pc = "delay" => n <= Taps
      /\ pc = "verify" => n <= Reads
      /\ pc = "wait" => n <= MaxPolls
      /\ pc = "bitslip" => n <= Slips
  BY AlignAssumption DEF AlignInv, TypeOK, CountInv, LoopInv
<1>2. /\ rest(afe) \in Nat /\ all \in Nat
      /\ rest(0) + PerAfe = all /\ rest(0) \in Nat
      /\ afe + 1 < NAfe => afe + 1 \in AFEs /\ rest(afe + 1) \in Nat
                           /\ rest(afe + 1) + PerAfe = rest(afe)
  <2>1. 0 \in AFEs /\ (afe + 1 < NAfe => afe + 1 \in AFEs)
    BY <1>1, AlignAssumption DEF AFEs
  <2> QED  BY <1>1, <2>1, AlignConstants
<1>3. AlignSteps =
        CASE pc = "idle" -> 0
          [] pc = "reset" -> 3 + MaxPolls + all
          [] pc = "wait" -> 2 + (MaxPolls - n) + all
          [] pc = "delay" -> (Taps - n) + Slips + Reads + 3 + (1 + rest(afe))
          [] pc = "bitslip" -> (Slips - n) + Reads + 2 + (1 + rest(afe))
          [] pc = "verify" -> (Reads - n) + 1 + (1 + rest(afe))
          [] pc = "report" -> 1
  BY DEF AlignSteps
<1>4. AlignSteps' =
        CASE pc' = "idle" -> 0
          [] pc' = "reset" -> 3 + MaxPolls + all
          [] pc' = "wait" -> 2 + (MaxPolls - n') + all
          [] pc' = "delay" -> (Taps - n') + Slips + Reads + 3 + (1 + rest(afe'))
          [] pc' = "bitslip" -> (Slips - n') + Reads + 2 + (1 + rest(afe'))
          [] pc' = "verify" -> (Reads - n') + 1 + (1 + rest(afe'))
          [] pc' = "report" -> 1
  BY DEF AlignSteps, PerAfe
<1>5. \/ pc = "reset" /\ pc' = "wait" /\ n' = 0
      \/ pc = "wait" /\ pc' = "delay" /\ n' = 0 /\ afe' = 0
      \/ pc = "wait" /\ n < MaxPolls /\ pc' = "wait" /\ n' = n + 1
      \/ pc = "wait" /\ pc' = "idle"
      \/ pc = "delay" /\ pc' = "delay" /\ n < Taps /\ n' = n + 1 /\ afe' = afe
      \/ pc = "delay" /\ pc' = "bitslip" /\ n = Taps /\ n' = 0 /\ afe' = afe
      \/ pc = "bitslip" /\ pc' = "bitslip" /\ n < Slips /\ n' = n + 1 /\ afe' = afe
      \/ pc = "bitslip" /\ pc' = "verify" /\ n = Slips /\ n' = 0 /\ afe' = afe
      \/ pc = "verify" /\ pc' = "verify" /\ n < Reads /\ n' = n + 1 /\ afe' = afe
      \/ pc = "verify" /\ pc' = "delay" /\ n = Reads /\ n' = 0 /\ afe' = afe + 1 /\ afe + 1 < NAfe
      \/ pc = "verify" /\ pc' = "report"
      \/ pc = "report" /\ pc' = "idle"
  BY DEF Align, Reset, IsReady, NotReady, GiveUp, ScanDelay, SetBestDelay, ScanBitslip,
     SetBestBitslip, Verify, EndOfAfe, Report
<1> HIDE DEF rest, all
<1> QED  BY <1>1, <1>2, <1>3, <1>4, <1>5 DEF PerAfe

(* For every number of AFEs, taps, bitslips, reads and polls: alignAFE, in *)
(* which the router serves nobody else, has no way to go round for ever.   *)
THEOREM AlignmentIsBounded == Spec => AlignIsBounded
<1>1. Init => LoopInv
  BY DEF Init, LoopInv
<1>2. AlignInv /\ [Next]_vars => AlignInv'
  BY TypeStep, CountStep, DoneStep, AnswerStep DEF AlignInv
<1>3. AlignInv /\ LoopInv => AlignSteps \in 0..(3 + MaxPolls + NAfe * PerAfe)
  BY AlignStepsFacts
<1>4. AlignInv /\ LoopInv /\ [Next]_vars =>
        [/\ Align => AlignSteps' < AlignSteps
         /\ DelayCtrl => AlignSteps' = AlignSteps]_vars
  <2>1. ASSUME DelayCtrl PROVE AlignSteps' = AlignSteps
    BY <2>1 DEF DelayCtrl, local, AlignSteps, PerAfe
  <2> QED  BY <2>1, AlignStepTakes
<1> QED
  BY AlignInitInv, <1>1, <1>2, <1>3, <1>4, LoopStep, PTL DEF Spec, AlignIsBounded

(* The longest way of the handler of MT2_CONFIGURE_CLKS_REQ from each of   *)
(* its steps.                                                              *)
ClockSteps ==
  CASE clkPc = "idle" -> 0
    [] clkPc = "clock" -> 2 * MaxClockPolls + 4
    [] clkPc = "waitLock" -> 2 * MaxClockPolls + 3 - polls
    [] clkPc = "endpoint" -> MaxClockPolls + 2
    [] clkPc = "waitReady" -> MaxClockPolls + 1 - polls

(* A configuration of the clocks is over after that many steps, however    *)
(* the lock bits and the endpoint's status change meanwhile.               *)
ClockIsBounded ==
  /\ [](ClockSteps \in 0..(2 * MaxClockPolls + 4))
  /\ [][/\ ClockStep \/ MapFails => ClockSteps' < ClockSteps
        /\ Hardware => ClockSteps' = ClockSteps]_clockVars

(* For every deadline: each half of the configuration polls its status a   *)
(* bounded number of times, so that the router thread is soon free again.  *)
THEOREM ConfigurationIsBounded == ClockSpec => ClockIsBounded
<1>1. ASSUME ClockInv
      PROVE  /\ polls \in Nat /\ polls <= MaxClockPolls /\ MaxClockPolls \in Nat
             /\ clkPc \in {"idle", "clock", "waitLock", "endpoint", "waitReady"}
  BY <1>1, ClockAssumption DEF ClockInv, ClockTypeOK
<1>2. ClockInv => ClockSteps \in 0..(2 * MaxClockPolls + 4)
  BY <1>1 DEF ClockSteps
<1>3. ASSUME ClockInv, ClockStep \/ MapFails PROVE ClockSteps' < ClockSteps
  <2>1. \/ clkPc \in {"clock", "endpoint"} /\ clkPc' = "idle"
        \/ clkPc = "clock" /\ clkPc' = "waitLock" /\ polls' = 0
        \/ clkPc = "waitLock" /\ clkPc' = "endpoint"
        \/ clkPc = "endpoint" /\ clkPc' = "waitReady" /\ polls' = 0
        \/ clkPc = "waitReady" /\ clkPc' = "idle"
        \/ clkPc \in {"waitLock", "waitReady"} /\ clkPc' = clkPc
           /\ polls < MaxClockPolls /\ polls' = polls + 1
    BY <1>3 DEF ClockStep, MapFails, SetClockSource, Locked, NotLocked, LockTimeout,
       SetEndpointAddr, EndpointReady, EndpointNotReady, ReadyTimeout
  <2> QED  BY <1>1, <1>3, <2>1 DEF ClockSteps
<1>4. ASSUME Hardware PROVE ClockSteps' = ClockSteps
  BY <1>4 DEF Hardware, ClockSteps
<1>5. ClockInv /\ [ClockNext]_clockVars =>
        [/\ ClockStep \/ MapFails => ClockSteps' < ClockSteps
         /\ Hardware => ClockSteps' = ClockSteps]_clockVars
  BY <1>3, <1>4
<1> QED
  BY <1>2, <1>5, ClockInitInv, ClockStepInv, PTL DEF ClockSpec, ClockIsBounded

(***************************************************************************)
(*        The SPI pins as GPIO: what the writes of a command come to       *)
(***************************************************************************)
(* A set of numbers has a least one.                                       *)
LEMMA LeastOf ==
  ASSUME NEW S \in SUBSET Nat, S # {}
  PROVE  \E x \in S : \A y \in S : x <= y
<1>. DEFINE R == OpToRel(<, Nat)
<1>1. PICK x \in S : \A y \in S : ~(<<y, x>> \in R)
  <2>1. IsWellFoundedOn(R, Nat)
    BY NatLessThanWellFounded, Zenon
  <2>. HIDE DEF R
  <2>. QED
    BY <2>1, WFMin, Zenon
<1>2. R = {ss \in Nat \X Nat : ss[1] < ss[2]}
  BY Zenon DEF OpToRel
<1>. HIDE DEF R
<1>3. ASSUME NEW y \in S PROVE x <= y
  <2>1. <<y, x>> \in Nat \X Nat /\ <<y, x>>[1] = y /\ <<y, x>>[2] = x
    OBVIOUS
  <2>2. ~(y < x)
    BY <1>1, <1>2, <2>1, Zenon
  <2>. QED
    BY <2>2
<1>. QED
  BY <1>3

(* What holds at the start of a loop and is kept by each turn holds after  *)
(* every turn: Z is the set of turns after which it holds.                 *)
LEMMA EveryTurn ==
  ASSUME NEW N \in Nat, NEW Z, 0 \in Z,
         \A t \in 1..N : t - 1 \in Z => t \in Z
  PROVE  \A t \in 0..N : t \in Z
<1>. DEFINE Bad == {t \in 0..N : t \notin Z}
<1>. SUFFICES ASSUME Bad # {} PROVE FALSE
  OBVIOUS
<1>1. PICK x \in Bad : \A y \in Bad : x <= y
  <2>1. Bad \in SUBSET Nat
    OBVIOUS
  <2>. HIDE DEF Bad
  <2>. QED
    BY <2>1, LeastOf
<1>2. x \in 1..N
  OBVIOUS
<1>3. x - 1 \in 0..N /\ ~(x <= x - 1)
  BY <1>2
<1>4. x - 1 \notin Bad
  <2>. HIDE DEF Bad
  <2>. QED
    BY <1>1, <1>3
<1>. QED
  BY <1>2, <1>3, <1>4

(* A loop of N turns over states in S, whose turn j applies F[<<., j>>],   *)
(* has a result after each turn.                                           *)
IsLoop(S, N, d, F, f) ==
  /\ f \in [0..N -> S]
  /\ \A t \in 0..N : f[t] = IF t = 0 THEN d ELSE F[<<f[t - 1], t>>]

LEMMA LoopExists ==
  ASSUME NEW S, NEW N \in Nat, NEW d \in S, NEW F \in [S \X (1..N) -> S]
  PROVE  \E f : IsLoop(S, N, d, F, f)
<1>. DEFINE Runs(f, t) == f[0] = d /\ \A j \in 1..t : f[j] = F[<<f[j - 1], j>>]
            Z == {t \in 0..N : \E f \in [0..t -> S] : Runs(f, t)}
<1>1. 0 \in Z
  <2>. DEFINE f == [j \in 0..0 |-> d]
  <2>1. f \in [0..0 -> S] /\ Runs(f, 0)
    OBVIOUS
  <2>. HIDE DEF f, Runs
  <2>2. 0 \in 0..N
    OBVIOUS
  <2>. QED
    BY <2>1, <2>2
<1>2. ASSUME NEW t \in 1..N, t - 1 \in Z PROVE t \in Z
  <2>1. PICK f \in [0..(t - 1) -> S] : Runs(f, t - 1)
    BY <1>2
  <2>. DEFINE last == F[<<f[t - 1], t>>]
              g == [j \in 0..t |-> IF j = t THEN last ELSE f[j]]
  <2>2. t \in Nat /\ t >= 1 /\ last \in S
    BY <2>1
  <2>3. g \in [0..t -> S] /\ g[t] = last /\ \A j \in 0..(t - 1) : g[j] = f[j]
    BY <2>1, <2>2
  <2>. HIDE DEF g
  <2>4. g[0] = d
    BY <2>1, <2>2, <2>3
  <2>5. ASSUME NEW j \in 1..t PROVE g[j] = F[<<g[j - 1], j>>]
    <3>1. j - 1 \in 0..(t - 1)
      BY <2>2
    <3>2. CASE j = t
      BY <2>3, <3>1, <3>2
    <3>3. CASE j # t
      <4>1. j \in 1..(t - 1) /\ j \in 0..(t - 1)
        BY <2>2, <3>3
      <4>. QED
        BY <2>1, <2>3, <3>1, <4>1
    <3>. QED
      BY <3>2, <3>3
  <2>6. Runs(g, t)
    BY <2>4, <2>5
  <2>7. t \in 0..N
    BY <2>2
  <2>. HIDE DEF Runs
  <2>. QED
    BY <2>3, <2>6, <2>7
<1>3. N \in Z
  <2>. HIDE DEF Z
  <2>1. \A t \in 1..N : t - 1 \in Z => t \in Z
    BY <1>2
  <2>2. \A t \in 0..N : t \in Z
    BY <1>1, <2>1, EveryTurn
  <2>. QED
    BY <2>2
<1>4. PICK f \in [0..N -> S] : Runs(f, N)
  BY <1>3
<1>5. \A t \in 0..N : f[t] = IF t = 0 THEN d ELSE F[<<f[t - 1], t>>]
  BY <1>4
<1>. QED
  BY <1>4, <1>5 DEF IsLoop

-----------------------------------------------------------------------------
(* Where a line is written last.  Ends: by the write op, or not at all.    *)
On(st, l) == st.op \notin {"apply", "remove"} /\ st.line = l

Quiet(ss, l) == \A j \in 1..Len(ss) : ~On(ss[j], l)

LastOn(ss, l, op) ==
  \E j \in 1..Len(ss) :
    /\ ss[j].op = op /\ On(ss[j], l)
    /\ \A k \in (j + 1)..Len(ss) : ~On(ss[k], l)

Ends(ss, l, op) == Quiet(ss, l) \/ LastOn(ss, l, op)

LEMMA JoinQuiet ==
  ASSUME NEW T, NEW ss \in Seq(T), NEW tt \in Seq(T), NEW l,
         Quiet(ss, l), Quiet(tt, l)
  PROVE  Quiet(ss \o tt, l)
<1>1. ASSUME NEW j \in 1..Len(ss \o tt) PROVE ~On((ss \o tt)[j], l)
  <2>1. CASE j \in 1..Len(ss)
    BY <2>1 DEF Quiet
  <2>2. CASE j \notin 1..Len(ss)
    <3>1. j - Len(ss) \in 1..Len(tt) /\ (ss \o tt)[j] = tt[j - Len(ss)]
      BY <2>2
    <3>. QED
      BY <3>1 DEF Quiet
  <2>. QED
    BY <2>1, <2>2
<1>. QED
  BY <1>1 DEF Quiet

LEMMA JoinLast ==
  ASSUME NEW T, NEW ss \in Seq(T), NEW tt \in Seq(T), NEW l, NEW op,
         LastOn(tt, l, op)
  PROVE  LastOn(ss \o tt, l, op)
<1>1. PICK j \in 1..Len(tt) : /\ tt[j].op = op /\ On(tt[j], l)
                              /\ \A k \in (j + 1)..Len(tt) : ~On(tt[k], l)
  BY DEF LastOn
<1>. DEFINE p == Len(ss) + j
<1>2. p \in 1..Len(ss \o tt) /\ (ss \o tt)[p] = tt[j]
  OBVIOUS
<1>3. ASSUME NEW k \in (p + 1)..Len(ss \o tt) PROVE ~On((ss \o tt)[k], l)
  <2>1. k - Len(ss) \in (j + 1)..Len(tt) /\ (ss \o tt)[k] = tt[k - Len(ss)]
    OBVIOUS
  <2>. QED
    BY <1>1, <2>1
<1>. HIDE DEF p
<1>. QED
  BY <1>1, <1>2, <1>3 DEF LastOn

LEMMA JoinLastQuiet ==
  ASSUME NEW T, NEW ss \in Seq(T), NEW tt \in Seq(T), NEW l, NEW op,
         LastOn(ss, l, op), Quiet(tt, l)
  PROVE  LastOn(ss \o tt, l, op)
<1>1. PICK j \in 1..Len(ss) : /\ ss[j].op = op /\ On(ss[j], l)
                              /\ \A k \in (j + 1)..Len(ss) : ~On(ss[k], l)
  BY DEF LastOn
<1>2. j \in 1..Len(ss \o tt) /\ (ss \o tt)[j] = ss[j]
  OBVIOUS
<1>3. ASSUME NEW k \in (j + 1)..Len(ss \o tt) PROVE ~On((ss \o tt)[k], l)
  <2>1. CASE k <= Len(ss)
    <3>1. k \in (j + 1)..Len(ss) /\ (ss \o tt)[k] = ss[k]
      BY <2>1
    <3>. QED
      BY <1>1, <3>1
  <2>2. CASE ~(k <= Len(ss))
    <3>1. k - Len(ss) \in 1..Len(tt) /\ (ss \o tt)[k] = tt[k - Len(ss)]
      BY <2>2
    <3>. QED
      BY <3>1 DEF Quiet
  <2>. QED
    BY <2>1, <2>2
<1>. QED
  BY <1>1, <1>2, <1>3 DEF LastOn

LEMMA Join ==
  ASSUME NEW T, NEW ss \in Seq(T), NEW tt \in Seq(T), NEW l, NEW op,
         Ends(ss, l, op), Ends(tt, l, op)
  PROVE  /\ ss \o tt \in Seq(T) /\ Ends(ss \o tt, l, op)
         /\ LastOn(ss, l, op) \/ LastOn(tt, l, op) => LastOn(ss \o tt, l, op)
<1>1. LastOn(tt, l, op) => LastOn(ss \o tt, l, op)
  BY JoinLast
<1>2. Quiet(tt, l) /\ LastOn(ss, l, op) => LastOn(ss \o tt, l, op)
  BY JoinLastQuiet
<1>3. Quiet(tt, l) /\ Quiet(ss, l) => Quiet(ss \o tt, l)
  BY JoinQuiet
<1>4. ss \o tt \in Seq(T)
  OBVIOUS
<1>. QED
  BY <1>1, <1>2, <1>3, <1>4 DEF Ends

-----------------------------------------------------------------------------
(* One list after the other: the parts up to the j-th.                     *)
Parts(T, ss, f) ==
  /\ f \in [1..Len(ss) -> Seq(T)]
  /\ f[1] = ss[1]
  /\ \A j \in 2..Len(ss) : f[j] = f[j - 1] \o ss[j]

LEMMA FlattenParts ==
  ASSUME NEW T, NEW ss \in Seq(Seq(T)), Len(ss) # 0
  PROVE  \E f : Parts(T, ss, f) /\ FlattenSeq(ss) = f[Len(ss)]
<1>. DEFINE N == Len(ss)
            F == [p \in Seq(T) \X (1..N) |-> p[1] \o ss[p[2]]]
            Solves(h) == h = [j \in 1..N |-> IF j = 1 THEN ss[j] ELSE h[j - 1] \o ss[j]]
            U == CHOOSE h : Solves(h)
<1>1. N \in Nat /\ 1 \in 1..N /\ \A j \in 1..N : ss[j] \in Seq(T)
  OBVIOUS
<1>2. FlattenSeq(ss) = U[N]
  BY DEF FlattenSeq
<1>. HIDE DEF N
<1>3. F \in [Seq(T) \X (1..N) -> Seq(T)]
  BY <1>1
<1>4. \A x \in Seq(T), j \in 1..N : F[<<x, j>>] = x \o ss[j]
  OBVIOUS
<1>. HIDE DEF F
<1>5. <<>> \in Seq(T)
  OBVIOUS
<1>6. PICK f : IsLoop(Seq(T), N, <<>>, F, f)
  BY <1>1, <1>3, <1>5, LoopExists
<1>7. /\ \A j \in 0..N : f[j] \in Seq(T)
      /\ f[0] = <<>> /\ \A j \in 1..N : f[j] = F[<<f[j - 1], j>>]
  <2>1. /\ f \in [0..N -> Seq(T)]
        /\ \A j \in 0..N : f[j] = IF j = 0 THEN <<>> ELSE F[<<f[j - 1], j>>]
    BY <1>6, Zenon DEF IsLoop
  <2>2. 0 \in 0..N /\ \A j \in 1..N : j \in 0..N /\ j # 0
    BY <1>1
  <2>. QED
    BY <2>1, <2>2
<1>8. ASSUME NEW j \in 1..N PROVE f[j] = f[j - 1] \o ss[j]
  <2>1. j - 1 \in 0..N
    BY <1>1
  <2>. QED
    BY <1>4, <1>7, <2>1
<1>9. f[1] = ss[1]
  <2>1. 1 \in 1..N /\ 1 - 1 = 0 /\ ss[1] \in Seq(T)
    BY <1>1
  <2>2. f[1] = <<>> \o ss[1]
    BY <1>7, <1>8, <2>1
  <2>. QED
    BY <2>1, <2>2
<1>. DEFINE g == [j \in 1..N |-> f[j]]
<1>10. Solves(g)
  <2>1. ASSUME NEW j \in 1..N
        PROVE  g[j] = IF j = 1 THEN ss[j] ELSE g[j - 1] \o ss[j]
    <3>1. CASE j = 1
      BY <1>9, <3>1
    <3>2. CASE j # 1
      <4>1. j - 1 \in 1..N
        BY <1>1, <3>2
      <4>. QED
        BY <1>8, <3>2, <4>1
    <3>. QED
      BY <3>1, <3>2
  <2>. HIDE DEF g
  <2>2. g = [j \in 1..N |-> g[j]]
    BY DEF g
  <2>. QED
    BY <2>1, <2>2
<1>11. Solves(U)
  <2>. HIDE DEF Solves, g
  <2>. QED
    BY <1>10
<1>. HIDE DEF U
<1>12. \A j \in 1..N : U[j] = IF j = 1 THEN ss[j] ELSE U[j - 1] \o ss[j]
  BY <1>11
<1>13. U[1] = ss[1] /\ \A j \in 2..N : U[j] = U[j - 1] \o ss[j]
  <2>1. 1 \in 1..N /\ \A j \in 2..N : j \in 1..N /\ j # 1
    BY <1>1
  <2>. QED
    BY <1>12, <2>1, Zenon
<1>14. \A j \in 1..N : U[j] \in Seq(T)
  <2>. DEFINE Z == {j \in 0..N : j = 0 \/ U[j] \in Seq(T)}
  <2>1. 0 \in Z
    BY <1>1
  <2>2. ASSUME NEW j \in 1..N, j - 1 \in Z PROVE j \in Z
    <3>1. CASE j = 1
      BY <1>1, <1>13, <3>1
    <3>2. CASE j # 1
      <4>1. j \in 2..N /\ j - 1 # 0
        BY <1>1, <3>2
      <4>2. U[j - 1] \in Seq(T) /\ ss[j] \in Seq(T)
        BY <1>1, <2>2, <4>1
      <4>3. U[j - 1] \o ss[j] \in Seq(T)
        BY <4>2
      <4>4. U[j] = U[j - 1] \o ss[j]
        BY <1>13, <4>1
      <4>5. U[j] \in Seq(T)
        BY <4>3, <4>4, Zenon
      <4>6. j \in 0..N
        BY <1>1
      <4>. QED
        BY <4>5, <4>6
    <3>. QED
      BY <3>1, <3>2
  <2>. HIDE DEF Z
  <2>3. \A j \in 1..N : j - 1 \in Z => j \in Z
    BY <2>2
  <2>4. \A j \in 0..N : j \in Z
    BY <1>1, <2>1, <2>3, EveryTurn
  <2>. QED
    BY <1>1, <2>4 DEF Z
<1>15. U \in [1..N -> Seq(T)]
  BY <1>11, <1>14
<1>16. Parts(T, ss, U)
  BY <1>13, <1>15 DEF Parts, N
<1>. QED
  BY <1>2, <1>16 DEF N

LEMMA FlattenType ==
  ASSUME NEW T, NEW ss \in Seq(Seq(T))
  PROVE  FlattenSeq(ss) \in Seq(T)
<1>1. CASE Len(ss) = 0
  <2>1. ss = <<>>
    BY <1>1
  <2>2. FlattenSeq(ss) = <<>>
    BY <1>1, <2>1 DEF FlattenSeq
  <2>. QED
    BY <2>2
<1>2. CASE Len(ss) # 0
  <2>1. PICK f : Parts(T, ss, f) /\ FlattenSeq(ss) = f[Len(ss)]
    BY <1>2, FlattenParts
  <2>2. Len(ss) \in 1..Len(ss)
    BY <1>2
  <2>. QED
    BY <2>1, <2>2 DEF Parts
<1>. QED
  BY <1>1, <1>2

(* Where a line is written last in lists put together.                     *)
LEMMA FlattenEnds ==
  ASSUME NEW T, NEW ss \in Seq(Seq(T)), NEW l, NEW op,
         \A j \in 1..Len(ss) : Ends(ss[j], l, op)
  PROVE  /\ Ends(FlattenSeq(ss), l, op)
         /\ (\E j \in 1..Len(ss) : LastOn(ss[j], l, op)) => LastOn(FlattenSeq(ss), l, op)
<1>1. CASE Len(ss) = 0
  <2>1. ss = <<>>
    BY <1>1
  <2>2. FlattenSeq(ss) = <<>>
    BY <1>1, <2>1 DEF FlattenSeq
  <2>3. Quiet(<<>>, l)
    BY DEF Quiet
  <2>. QED
    BY <1>1, <2>2, <2>3 DEF Ends
<1>2. CASE Len(ss) # 0
  <2>1. PICK f : Parts(T, ss, f) /\ FlattenSeq(ss) = f[Len(ss)]
    BY <1>2, FlattenParts
  <2>. DEFINE N == Len(ss)
              Good(j) == /\ f[j] \in Seq(T) /\ Ends(f[j], l, op)
                         /\ (\E k \in 1..j : LastOn(ss[k], l, op)) => LastOn(f[j], l, op)
              Z == {j \in 0..N : j = 0 \/ Good(j)}
  <2>2. N \in Nat /\ N >= 1 /\ \A j \in 1..N : ss[j] \in Seq(T)
    BY <1>2
  <2>3. /\ \A j \in 1..N : f[j] \in Seq(T)
        /\ f[1] = ss[1] /\ \A j \in 2..N : f[j] = f[j - 1] \o ss[j]
    BY <2>1 DEF Parts
  <2>. HIDE DEF N
  <2>4. ASSUME NEW j \in 1..N, j - 1 \in Z PROVE j \in Z
    <3>1. j \in Nat /\ Ends(ss[j], l, op) /\ f[j] \in Seq(T)
      BY <2>2, <2>3 DEF N
    <3>2. CASE j = 1
      BY <2>2, <2>3, <3>1, <3>2
    <3>3. CASE j # 1
      <4>1. j \in 2..N /\ j - 1 # 0 /\ j - 1 \in 1..N
        BY <2>2, <3>3
      <4>2. Good(j - 1) /\ ss[j] \in Seq(T)
        BY <2>2, <2>4, <4>1
      <4>3. f[j] = f[j - 1] \o ss[j]
        BY <2>3, <4>1
      <4>4. /\ Ends(f[j], l, op)
            /\ LastOn(f[j - 1], l, op) \/ LastOn(ss[j], l, op) => LastOn(f[j], l, op)
        BY <3>1, <4>2, <4>3, Join
      <4>5. \A k \in 1..j : k = j \/ k \in 1..(j - 1)
        BY <3>1
      <4>. QED
        BY <3>1, <4>2, <4>4, <4>5
    <3>. QED
      BY <3>2, <3>3
  <2>5. N \in Z
    <3>1. 0 \in Z /\ \A j \in 1..N : j - 1 \in Z => j \in Z
      BY <2>2, <2>4
    <3>. HIDE DEF Z
    <3>2. \A j \in 0..N : j \in Z
      BY <2>2, <3>1, EveryTurn
    <3>. QED
      BY <2>2, <3>2
  <2>6. Good(N)
    BY <2>2, <2>5
  <2>. QED
    BY <2>1, <2>6 DEF N
<1>. QED
  BY <1>1, <1>2

-----------------------------------------------------------------------------
(* The writes of a command.                                                *)
LineStep ==
  [op : {"export", "out", "in", "low", "high", "unexport"}, line : GpioLine]
FreeStep == [op : {"unexport"}, line : GpioLine]
ApplyStep == Step("apply", NoLine)
RemoveStep == Step("remove", NoLine)
StepSet == LineStep \cup {ApplyStep, RemoveStep}

(* How a claimed line is left.                                             *)
ClaimOp(l) == IF l[2] \in ToSet(OutputRoles) THEN "low" ELSE "in"

LEMMA LineFacts ==
  ASSUME NEW m \in Mezz, NEW r \in Role
  PROVE  <<m, r>> \in GpioLine /\ <<m, r>>[1] = m /\ <<m, r>>[2] = r
BY DEF GpioLine

LEMMA PairFacts ==
  ASSUME NEW l \in GpioLine
  PROVE  l = <<l[1], l[2]>> /\ l[1] \in Mezz /\ l[2] \in Role
BY DEF GpioLine

LEMMA ClaimOutFacts ==
  ASSUME NEW m \in Mezz, NEW r \in Role
  PROVE  /\ ClaimOut(m, r) \in Seq(LineStep)
         /\ LastOn(ClaimOut(m, r), <<m, r>>, "low")
         /\ \A l : l # <<m, r>> => Quiet(ClaimOut(m, r), l)
<1>. DEFINE x == <<m, r>>
            a == Step("export", x)
            b == Step("out", x)
            c == Step("low", x)
            ss == <<a, b, c>>
<1>1. x \in GpioLine
  BY LineFacts
<1>. HIDE DEF x
<1>2. /\ a \in LineStep /\ b \in LineStep /\ c \in LineStep
      /\ a.line = x /\ b.line = x /\ c.line = x /\ c.op = "low"
  BY <1>1 DEF Step, LineStep
<1>. HIDE DEF a, b, c
<1>3. ss \in Seq(LineStep) /\ Len(ss) = 3 /\ ss[1] = a /\ ss[2] = b /\ ss[3] = c
  BY <1>2
<1>4. ClaimOut(m, r) = ss
  BY DEF ClaimOut, a, b, c, x
<1>. HIDE DEF ss
<1>5. \A j \in 1..Len(ss) : ss[j].line = x
  BY <1>2, <1>3
<1>6. On(ss[3], x) /\ ss[3].op = "low"
  BY <1>2, <1>3 DEF On
<1>7. LastOn(ss, x, "low")
  BY <1>3, <1>6 DEF LastOn
<1>8. \A l : l # x => Quiet(ss, l)
  BY <1>5 DEF Quiet, On
<1>. QED
  BY <1>3, <1>4, <1>7, <1>8 DEF x

LEMMA ClaimInFacts ==
  ASSUME NEW m \in Mezz, NEW r \in Role
  PROVE  /\ ClaimIn(m, r) \in Seq(LineStep)
         /\ LastOn(ClaimIn(m, r), <<m, r>>, "in")
         /\ \A l : l # <<m, r>> => Quiet(ClaimIn(m, r), l)
<1>. DEFINE x == <<m, r>>
            a == Step("export", x)
            b == Step("in", x)
            ss == <<a, b>>
<1>1. x \in GpioLine
  BY LineFacts
<1>. HIDE DEF x
<1>2. /\ a \in LineStep /\ b \in LineStep
      /\ a.line = x /\ b.line = x /\ b.op = "in"
  BY <1>1 DEF Step, LineStep
<1>. HIDE DEF a, b
<1>3. ss \in Seq(LineStep) /\ Len(ss) = 2 /\ ss[1] = a /\ ss[2] = b
  BY <1>2
<1>4. ClaimIn(m, r) = ss
  BY DEF ClaimIn, a, b, x
<1>. HIDE DEF ss
<1>5. \A j \in 1..Len(ss) : ss[j].line = x
  BY <1>2, <1>3
<1>6. On(ss[2], x) /\ ss[2].op = "in"
  BY <1>2, <1>3 DEF On
<1>7. LastOn(ss, x, "in")
  BY <1>3, <1>6 DEF LastOn
<1>8. \A l : l # x => Quiet(ss, l)
  BY <1>5 DEF Quiet, On
<1>. QED
  BY <1>3, <1>4, <1>7, <1>8 DEF x

LEMMA FreesAreLines == ASSUME NEW ss \in Seq(FreeStep) PROVE ss \in Seq(LineStep)
<1>1. \A j \in 1..Len(ss) : ss[j] \in LineStep
  <2>1. FreeStep \subseteq LineStep
    BY DEF FreeStep, LineStep
  <2>. QED
    BY <2>1
<1>2. ss \in [1..Len(ss) -> LineStep] /\ Len(ss) \in Nat
  BY <1>1
<1>. QED
  BY <1>2

LEMMA ReleaseOneFacts ==
  ASSUME NEW m \in Mezz, NEW r \in Role
  PROVE  /\ <<Step("unexport", <<m, r>>)>> \in Seq(FreeStep)
         /\ <<Step("unexport", <<m, r>>)>> \in Seq(LineStep)
         /\ LastOn(<<Step("unexport", <<m, r>>)>>, <<m, r>>, "unexport")
         /\ \A l : l # <<m, r>> => Quiet(<<Step("unexport", <<m, r>>)>>, l)
<1>. DEFINE x == <<m, r>>
            a == Step("unexport", x)
            ss == <<a>>
<1>1. x \in GpioLine
  BY LineFacts
<1>. HIDE DEF x
<1>2. a \in LineStep /\ a \in FreeStep /\ a.line = x /\ a.op = "unexport"
  BY <1>1 DEF Step, LineStep, FreeStep
<1>. HIDE DEF a
<1>3. ss \in Seq(LineStep) /\ ss \in Seq(FreeStep) /\ Len(ss) = 1 /\ ss[1] = a
  BY <1>2
<1>. HIDE DEF ss
<1>4. On(ss[1], x) /\ ss[1].op = "unexport"
  BY <1>2, <1>3 DEF On
<1>5. LastOn(ss, x, "unexport")
  BY <1>3, <1>4 DEF LastOn
<1>6. \A l : l # x => Quiet(ss, l)
  BY <1>2, <1>3 DEF Quiet, On
<1>. QED
  BY <1>3, <1>5, <1>6 DEF ss, a, x

LEMMA PulseFacts ==
  ASSUME GpioAssumption, NEW m \in Mezz, NEW r \in Role
  PROVE  /\ pulse_line(<<m, r>>) \in Seq(LineStep)
         /\ LastOn(pulse_line(<<m, r>>), <<m, r>>, "low")
         /\ \A l : l # <<m, r>> => Quiet(pulse_line(<<m, r>>), l)
<1>. DEFINE x == <<m, r>>
            N == 2 * PulseCount
            a == Step("low", x)
            tt == [j \in 1..N |-> Step(IF j % 2 = 1 THEN "high" ELSE "low", x)]
            ss == <<a>> \o tt
<1>1. x \in GpioLine
  BY LineFacts
<1>2. N \in Nat /\ N % 2 = 0
  BY DEF GpioAssumption
<1>3. pulse_line(x) = ss
  BY DEF pulse_line
<1>. HIDE DEF x, N
<1>4. a \in LineStep /\ a.line = x /\ a.op = "low"
  BY <1>1 DEF Step, LineStep
<1>5. ASSUME NEW j \in 1..N
      PROVE  tt[j] \in LineStep /\ tt[j].line = x
  BY <1>1 DEF Step, LineStep
<1>6. N # 0 => N \in 1..N /\ tt[N].op = "low"
  BY <1>2 DEF Step
<1>7. tt \in [1..N -> LineStep]
  BY <1>5
<1>8. tt \in Seq(LineStep) /\ Len(tt) = N
  BY <1>2, <1>7
<1>. HIDE DEF a, tt
<1>9. ss \in Seq(LineStep) /\ Len(ss) = N + 1 /\ ss[1] = a
      /\ \A j \in 2..(N + 1) : ss[j] = tt[j - 1]
  BY <1>2, <1>4, <1>8
<1>. HIDE DEF ss
<1>10. ASSUME NEW j \in 1..Len(ss) PROVE ss[j].line = x /\ ss[j].op \notin {"apply", "remove"}
  <2>1. CASE j = 1
    BY <1>4, <1>9, <2>1
  <2>2. CASE j # 1
    <3>0. N \in Nat /\ Len(ss) = N + 1
      BY <1>2, <1>9
    <3>1. j \in 2..(N + 1) /\ j - 1 \in 1..N
      BY <2>2, <3>0
    <3>2. tt[j - 1] \in LineStep /\ tt[j - 1].line = x
      BY <1>5, <3>1
    <3>. QED
      BY <1>9, <3>1, <3>2 DEF LineStep
  <2>. QED
    BY <2>1, <2>2
<1>11. ss[N + 1].op = "low" /\ N + 1 \in 1..Len(ss)
  <2>1. CASE N = 0
    BY <1>4, <1>9, <2>1
  <2>2. CASE N # 0
    <3>1. N + 1 \in 2..(N + 1) /\ (N + 1) - 1 = N
      BY <1>2, <2>2
    <3>. QED
      BY <1>2, <1>6, <1>9, <2>2, <3>1
  <2>. QED
    BY <2>1, <2>2
<1>12. LastOn(ss, x, "low")
  <2>1. On(ss[N + 1], x)
    BY <1>10, <1>11 DEF On
  <2>2. \A k \in ((N + 1) + 1)..Len(ss) : FALSE
    BY <1>2, <1>9
  <2>. QED
    BY <1>11, <2>1, <2>2 DEF LastOn
<1>13. \A l : l # x => Quiet(ss, l)
  BY <1>10 DEF Quiet, On
<1>. QED
  BY <1>3, <1>9, <1>12, <1>13 DEF x

(* The same for each role of a list, on one mezzanine.                     *)
LEMMA RoleList ==
  ASSUME NEW m \in Mezz, NEW rs \in Seq(Role),
         NEW ss \in Seq(Seq(LineStep)), Len(ss) = Len(rs), NEW op,
         \A j \in 1..Len(rs) :
           /\ LastOn(ss[j], <<m, rs[j]>>, op)
           /\ \A x : x # <<m, rs[j]>> => Quiet(ss[j], x),
         NEW l \in GpioLine
  PROVE  /\ Ends(FlattenSeq(ss), l, op)
         /\ l[1] = m /\ l[2] \in ToSet(rs) => LastOn(FlattenSeq(ss), l, op)
         /\ ~(l[1] = m /\ l[2] \in ToSet(rs)) => \A o : Ends(FlattenSeq(ss), l, o)
<1>1. l = <<l[1], l[2]>>
  BY PairFacts
<1>2. ToSet(rs) = {rs[j] : j \in 1..Len(rs)}
  <2>1. DOMAIN rs = 1..Len(rs)
    OBVIOUS
  <2>. QED
    BY <2>1 DEF ToSet
<1>3. ASSUME NEW j \in 1..Len(rs) PROVE Ends(ss[j], l, op)
  BY DEF Ends
<1>4. ASSUME l[1] = m, l[2] \in ToSet(rs)
      PROVE  \E j \in 1..Len(ss) : LastOn(ss[j], l, op)
  <2>1. PICK j \in 1..Len(rs) : l[2] = rs[j]
    BY <1>2, <1>4
  <2>2. l = <<m, rs[j]>>
    BY <1>1, <1>4, <2>1
  <2>. QED
    BY <2>2
<1>5. ASSUME ~(l[1] = m /\ l[2] \in ToSet(rs)), NEW o
      PROVE  Ends(FlattenSeq(ss), l, o)
  <2>1. ASSUME NEW j \in 1..Len(ss) PROVE Ends(ss[j], l, o)
    <3>1. l # <<m, rs[j]>>
      <4>1. rs[j] \in ToSet(rs)
        BY <1>2
      <4>. QED
        BY <1>5, <4>1
    <3>. QED
      BY <3>1 DEF Ends
  <2>. QED
    BY <2>1, FlattenEnds
<1>6. Ends(FlattenSeq(ss), l, op)
  BY <1>3, FlattenEnds
<1>7. l[1] = m /\ l[2] \in ToSet(rs) => LastOn(FlattenSeq(ss), l, op)
  BY <1>3, <1>4, FlattenEnds
<1>. QED
  BY <1>5, <1>6, <1>7

LEMMA ClaimType ==
  ASSUME GpioAssumption, NEW m \in Mezz
  PROVE  claim_mezz(m) \in Seq(LineStep)
<1>. DEFINE P == [j \in DOMAIN OutputRoles |-> ClaimOut(m, OutputRoles[j])]
            Q == [j \in DOMAIN InputRoles |-> ClaimIn(m, InputRoles[j])]
<1>1. claim_mezz(m) = FlattenSeq(P) \o FlattenSeq(Q)
  BY DEF claim_mezz, ForEach
<1>2. OutputRoles \in Seq(Role) /\ InputRoles \in Seq(Role)
  BY DEF GpioAssumption
<1>3. P \in Seq(Seq(LineStep))
  <2>1. /\ DOMAIN OutputRoles = 1..Len(OutputRoles) /\ Len(OutputRoles) \in Nat
        /\ \A j \in 1..Len(OutputRoles) : OutputRoles[j] \in Role
    BY <1>2
  <2>2. P \in [1..Len(OutputRoles) -> Seq(LineStep)]
    BY <2>1, ClaimOutFacts
  <2>. QED
    BY <2>1, <2>2
<1>4. Q \in Seq(Seq(LineStep))
  <2>1. /\ DOMAIN InputRoles = 1..Len(InputRoles) /\ Len(InputRoles) \in Nat
        /\ \A j \in 1..Len(InputRoles) : InputRoles[j] \in Role
    BY <1>2
  <2>2. Q \in [1..Len(InputRoles) -> Seq(LineStep)]
    BY <2>1, ClaimInFacts
  <2>. QED
    BY <2>1, <2>2
<1>. HIDE DEF P, Q
<1>5. FlattenSeq(P) \in Seq(LineStep) /\ FlattenSeq(Q) \in Seq(LineStep)
  BY <1>3, <1>4, FlattenType
<1>. QED
  BY <1>1, <1>5

LEMMA ClaimFacts ==
  ASSUME GpioAssumption, NEW m \in Mezz, NEW l \in GpioLine
  PROVE  /\ Ends(claim_mezz(m), l, ClaimOp(l))
         /\ l[1] = m => LastOn(claim_mezz(m), l, ClaimOp(l))
<1>. DEFINE P == [j \in DOMAIN OutputRoles |-> ClaimOut(m, OutputRoles[j])]
            Q == [j \in DOMAIN InputRoles |-> ClaimIn(m, InputRoles[j])]
            p == FlattenSeq(P)
            q == FlattenSeq(Q)
<1>1. claim_mezz(m) = p \o q
  BY DEF claim_mezz, ForEach
<1>2. /\ OutputRoles \in Seq(Role) /\ InputRoles \in Seq(Role)
      /\ DOMAIN OutputRoles = 1..Len(OutputRoles) /\ DOMAIN InputRoles = 1..Len(InputRoles)
      /\ Len(OutputRoles) \in Nat /\ Len(InputRoles) \in Nat
  BY DEF GpioAssumption
<1>3. P \in Seq(Seq(LineStep)) /\ Len(P) = Len(OutputRoles)
  <2>1. P \in [1..Len(OutputRoles) -> Seq(LineStep)]
    <3>1. \A j \in 1..Len(OutputRoles) : OutputRoles[j] \in Role
      BY <1>2
    <3>. QED
      BY <1>2, <3>1, ClaimOutFacts
  <2>. QED
    BY <1>2, <2>1
<1>4. Q \in Seq(Seq(LineStep)) /\ Len(Q) = Len(InputRoles)
  <2>1. Q \in [1..Len(InputRoles) -> Seq(LineStep)]
    <3>1. \A j \in 1..Len(InputRoles) : InputRoles[j] \in Role
      BY <1>2
    <3>. QED
      BY <1>2, <3>1, ClaimInFacts
  <2>. QED
    BY <1>2, <2>1
<1>5. \A j \in 1..Len(OutputRoles) :
        /\ LastOn(P[j], <<m, OutputRoles[j]>>, "low")
        /\ \A x : x # <<m, OutputRoles[j]>> => Quiet(P[j], x)
  BY <1>2, ClaimOutFacts
<1>6. \A j \in 1..Len(InputRoles) :
        /\ LastOn(Q[j], <<m, InputRoles[j]>>, "in")
        /\ \A x : x # <<m, InputRoles[j]>> => Quiet(Q[j], x)
  BY <1>2, ClaimInFacts
<1>. HIDE DEF P, Q
<1>7. p \in Seq(LineStep) /\ q \in Seq(LineStep)
  BY <1>3, <1>4, FlattenType
<1>8. /\ Ends(p, l, "low")
      /\ l[1] = m /\ l[2] \in ToSet(OutputRoles) => LastOn(p, l, "low")
      /\ ~(l[1] = m /\ l[2] \in ToSet(OutputRoles)) => \A o : Ends(p, l, o)
  BY <1>2, <1>3, <1>5, RoleList
<1>9. /\ Ends(q, l, "in")
      /\ l[1] = m /\ l[2] \in ToSet(InputRoles) => LastOn(q, l, "in")
      /\ ~(l[1] = m /\ l[2] \in ToSet(InputRoles)) => \A o : Ends(q, l, o)
  BY <1>2, <1>4, <1>6, RoleList
<1>10. /\ l[2] \in ToSet(OutputRoles) \/ l[2] \in ToSet(InputRoles)
       /\ ~(l[2] \in ToSet(OutputRoles) /\ l[2] \in ToSet(InputRoles))
  BY PairFacts DEF Role, GpioAssumption
<1>. HIDE DEF p, q
<1>11. Ends(p, l, ClaimOp(l)) /\ Ends(q, l, ClaimOp(l))
  BY <1>8, <1>9, <1>10 DEF ClaimOp
<1>12. l[1] = m => LastOn(p, l, ClaimOp(l)) \/ LastOn(q, l, ClaimOp(l))
  BY <1>8, <1>9, <1>10 DEF ClaimOp
<1>. QED
  BY <1>1, <1>7, <1>11, <1>12, Join

LEMMA ReleaseType ==
  ASSUME GpioAssumption, NEW m \in Mezz
  PROVE  release_mezz(m) \in Seq(FreeStep)
<1>. DEFINE rs == OutputRoles \o InputRoles
            P == [j \in DOMAIN rs |-> <<Step("unexport", <<m, rs[j]>>)>>]
<1>1. release_mezz(m) = FlattenSeq(P)
  BY DEF release_mezz, ForEach
<1>2. /\ rs \in Seq(Role) /\ DOMAIN rs = 1..Len(rs) /\ Len(rs) \in Nat
      /\ \A j \in 1..Len(rs) : rs[j] \in Role
  <2>1. rs \in Seq(Role)
    BY DEF GpioAssumption
  <2>. HIDE DEF rs
  <2>. QED
    BY <2>1
<1>. HIDE DEF rs
<1>3. P \in [1..Len(rs) -> Seq(FreeStep)]
  BY <1>2, ReleaseOneFacts
<1>4. P \in Seq(Seq(FreeStep))
  BY <1>2, <1>3
<1>. QED
  BY <1>1, <1>4, FlattenType

LEMMA ReleaseFacts ==
  ASSUME GpioAssumption, NEW m \in Mezz, NEW l \in GpioLine
  PROVE  /\ Ends(release_mezz(m), l, "unexport")
         /\ l[1] = m => LastOn(release_mezz(m), l, "unexport")
<1>. DEFINE rs == OutputRoles \o InputRoles
            P == [j \in DOMAIN rs |-> <<Step("unexport", <<m, rs[j]>>)>>]
<1>1. release_mezz(m) = FlattenSeq(P)
  BY DEF release_mezz, ForEach
<1>2. /\ OutputRoles \in Seq(Role) /\ InputRoles \in Seq(Role)
  BY DEF GpioAssumption
<1>3. rs \in Seq(Role) /\ DOMAIN rs = 1..Len(rs) /\ Len(rs) \in Nat
  BY <1>2
<1>4. l[2] \in ToSet(rs)
  <2>1. l[2] \in ToSet(OutputRoles) \/ l[2] \in ToSet(InputRoles)
    BY PairFacts DEF Role
  <2>2. CASE l[2] \in ToSet(OutputRoles)
    <3>1. PICK j \in 1..Len(OutputRoles) : l[2] = OutputRoles[j]
      BY <1>2, <2>2 DEF ToSet
    <3>2. j \in DOMAIN rs /\ rs[j] = OutputRoles[j]
      BY <1>2
    <3>. QED
      BY <3>1, <3>2 DEF ToSet
  <2>3. CASE l[2] \in ToSet(InputRoles)
    <3>1. PICK j \in 1..Len(InputRoles) : l[2] = InputRoles[j]
      BY <1>2, <2>3 DEF ToSet
    <3>2. Len(OutputRoles) + j \in DOMAIN rs /\ rs[Len(OutputRoles) + j] = InputRoles[j]
      BY <1>2
    <3>. QED
      BY <3>1, <3>2 DEF ToSet
  <2>. QED
    BY <2>1, <2>2, <2>3
<1>. HIDE DEF rs
<1>5. P \in Seq(Seq(LineStep)) /\ Len(P) = Len(rs)
  <2>1. \A j \in 1..Len(rs) : rs[j] \in Role
    BY <1>3
  <2>2. P \in [1..Len(rs) -> Seq(LineStep)]
    BY <1>3, <2>1, ReleaseOneFacts
  <2>. QED
    BY <1>3, <2>2
<1>6. \A j \in 1..Len(rs) :
        /\ LastOn(P[j], <<m, rs[j]>>, "unexport")
        /\ \A x : x # <<m, rs[j]>> => Quiet(P[j], x)
  <2>1. \A j \in 1..Len(rs) : rs[j] \in Role
    BY <1>3
  <2>. QED
    BY <1>3, <2>1, ReleaseOneFacts
<1>. HIDE DEF P
<1>7. /\ Ends(FlattenSeq(P), l, "unexport")
      /\ l[1] = m => LastOn(FlattenSeq(P), l, "unexport")
  BY <1>3, <1>4, <1>5, <1>6, RoleList
<1>. QED
  BY <1>1, <1>7

(* Pulses leave lines as they were claimed.                                *)
Pulses(m, pulse) == ForEach(LAMBDA r : pulse_line(<<m, r>>), pulse)

LEMMA PulsesType ==
  ASSUME GpioAssumption, NEW m \in Mezz, NEW pulse \in {<<>>, OutputRoles}
  PROVE  Pulses(m, pulse) \in Seq(LineStep)
<1>. DEFINE P == [j \in DOMAIN pulse |-> pulse_line(<<m, pulse[j]>>)]
<1>1. Pulses(m, pulse) = FlattenSeq(P)
  BY DEF Pulses, ForEach
<1>2. /\ DOMAIN pulse = 1..Len(pulse) /\ Len(pulse) \in Nat
      /\ \A j \in 1..Len(pulse) : pulse[j] \in Role
  <2>1. <<>> \in Seq(Role) /\ OutputRoles \in Seq(Role)
    BY DEF GpioAssumption
  <2>2. pulse \in Seq(Role)
    BY <2>1
  <2>. QED
    BY <2>2
<1>3. P \in [1..Len(pulse) -> Seq(LineStep)]
  BY <1>2, PulseFacts
<1>4. P \in Seq(Seq(LineStep))
  BY <1>2, <1>3
<1>. QED
  BY <1>1, <1>4, FlattenType

LEMMA PulsesFacts ==
  ASSUME GpioAssumption, NEW m \in Mezz, NEW l \in GpioLine,
         NEW pulse \in {<<>>, OutputRoles}
  PROVE  Ends(Pulses(m, pulse), l, ClaimOp(l))
<1>. DEFINE P == [j \in DOMAIN pulse |-> pulse_line(<<m, pulse[j]>>)]
<1>1. Pulses(m, pulse) = FlattenSeq(P)
  BY DEF Pulses, ForEach
<1>2. /\ pulse \in Seq(Role) /\ DOMAIN pulse = 1..Len(pulse) /\ Len(pulse) \in Nat
      /\ \A j \in 1..Len(pulse) : pulse[j] \in Role
  <2>1. <<>> \in Seq(Role) /\ OutputRoles \in Seq(Role)
    BY DEF GpioAssumption
  <2>2. pulse \in Seq(Role)
    BY <2>1
  <2>. QED
    BY <2>2
<1>3. P \in Seq(Seq(LineStep)) /\ Len(P) = Len(pulse)
  <2>1. P \in [1..Len(pulse) -> Seq(LineStep)]
    BY <1>2, PulseFacts
  <2>. QED
    BY <1>2, <2>1
<1>4. \A j \in 1..Len(pulse) :
        /\ LastOn(P[j], <<m, pulse[j]>>, "low")
        /\ \A x : x # <<m, pulse[j]>> => Quiet(P[j], x)
  BY <1>2, PulseFacts
<1>. HIDE DEF P
<1>5. /\ Ends(FlattenSeq(P), l, "low")
      /\ ~(l[1] = m /\ l[2] \in ToSet(pulse)) => \A o : Ends(FlattenSeq(P), l, o)
  BY <1>2, <1>3, <1>4, RoleList
<1>6. ToSet(pulse) \subseteq ToSet(OutputRoles)
  BY DEF ToSet
<1>. QED
  BY <1>1, <1>5, <1>6 DEF ClaimOp

(* The same for each mezzanine of a list.                                  *)
LEMMA MezzList ==
  ASSUME NEW ms \in Seq(Mezz), NEW ss \in Seq(Seq(LineStep)), Len(ss) = Len(ms),
         NEW op, NEW l \in GpioLine,
         \A j \in 1..Len(ms) : /\ Ends(ss[j], l, op)
                               /\ l[1] = ms[j] => LastOn(ss[j], l, op)
  PROVE  /\ Ends(FlattenSeq(ss), l, op)
         /\ l[1] \in ToSet(ms) => LastOn(FlattenSeq(ss), l, op)
<1>1. ASSUME l[1] \in ToSet(ms) PROVE \E j \in 1..Len(ss) : LastOn(ss[j], l, op)
  <2>1. PICK j \in 1..Len(ms) : l[1] = ms[j]
    BY <1>1 DEF ToSet
  <2>. QED
    BY <2>1
<1>. QED
  BY <1>1, FlattenEnds

LEMMA ClaimAll ==
  ASSUME GpioAssumption, NEW ms \in Seq(Mezz)
  PROVE  /\ ForEach(claim_mezz, ms) \in Seq(LineStep)
         /\ \A l \in GpioLine :
              /\ Ends(ForEach(claim_mezz, ms), l, ClaimOp(l))
              /\ l[1] \in ToSet(ms) => LastOn(ForEach(claim_mezz, ms), l, ClaimOp(l))
<1>. DEFINE P == [j \in DOMAIN ms |-> claim_mezz(ms[j])]
<1>1. ForEach(claim_mezz, ms) = FlattenSeq(P)
  BY DEF ForEach
<1>2. /\ DOMAIN ms = 1..Len(ms) /\ Len(ms) \in Nat
      /\ \A j \in 1..Len(ms) : ms[j] \in Mezz
  OBVIOUS
<1>3. \A m \in Mezz : claim_mezz(m) \in Seq(LineStep)
  BY ClaimType
<1>4. P \in Seq(Seq(LineStep)) /\ Len(P) = Len(ms)
  <2>1. P \in [1..Len(ms) -> Seq(LineStep)]
    BY <1>2, <1>3
  <2>. QED
    BY <1>2, <2>1
<1>5. ASSUME NEW l \in GpioLine, NEW j \in 1..Len(ms)
      PROVE  /\ Ends(P[j], l, ClaimOp(l))
             /\ l[1] = ms[j] => LastOn(P[j], l, ClaimOp(l))
  BY <1>2, ClaimFacts
<1>. HIDE DEF P
<1>6. FlattenSeq(P) \in Seq(LineStep)
  BY <1>4, FlattenType
<1>7. ASSUME NEW l \in GpioLine
      PROVE  /\ Ends(FlattenSeq(P), l, ClaimOp(l))
             /\ l[1] \in ToSet(ms) => LastOn(FlattenSeq(P), l, ClaimOp(l))
  BY <1>4, <1>5, MezzList
<1>. QED
  BY <1>1, <1>6, <1>7

LEMMA ReleaseAll ==
  ASSUME GpioAssumption, NEW ms \in Seq(Mezz)
  PROVE  /\ ForEach(release_mezz, ms) \in Seq(FreeStep)
         /\ ForEach(release_mezz, ms) \in Seq(LineStep)
         /\ \A l \in GpioLine :
              /\ Ends(ForEach(release_mezz, ms), l, "unexport")
              /\ l[1] \in ToSet(ms) => LastOn(ForEach(release_mezz, ms), l, "unexport")
<1>. DEFINE P == [j \in DOMAIN ms |-> release_mezz(ms[j])]
<1>1. ForEach(release_mezz, ms) = FlattenSeq(P)
  BY DEF ForEach
<1>2. /\ DOMAIN ms = 1..Len(ms) /\ Len(ms) \in Nat
      /\ \A j \in 1..Len(ms) : ms[j] \in Mezz
  OBVIOUS
<1>3. P \in Seq(Seq(LineStep)) /\ P \in Seq(Seq(FreeStep)) /\ Len(P) = Len(ms)
  <2>1. P \in [1..Len(ms) -> Seq(FreeStep)]
    BY <1>2, ReleaseType
  <2>2. \A j \in 1..Len(ms) : P[j] \in Seq(LineStep)
    BY <2>1, FreesAreLines
  <2>3. P \in [1..Len(ms) -> Seq(LineStep)]
    BY <2>1, <2>2
  <2>. QED
    BY <1>2, <2>1, <2>3
<1>4. ASSUME NEW l \in GpioLine, NEW j \in 1..Len(ms)
      PROVE  /\ Ends(P[j], l, "unexport")
             /\ l[1] = ms[j] => LastOn(P[j], l, "unexport")
  BY <1>2, ReleaseFacts
<1>. HIDE DEF P
<1>5. FlattenSeq(P) \in Seq(FreeStep) /\ FlattenSeq(P) \in Seq(LineStep)
  BY <1>3, FlattenType
<1>6. ASSUME NEW l \in GpioLine
      PROVE  /\ Ends(FlattenSeq(P), l, "unexport")
             /\ l[1] \in ToSet(ms) => LastOn(FlattenSeq(P), l, "unexport")
  BY <1>3, <1>4, MezzList
<1>. QED
  BY <1>1, <1>5, <1>6

PulseAllOf(ms, pulse) ==
  ForEach(LAMBDA m : ForEach(LAMBDA r : pulse_line(<<m, r>>), pulse), ms)

LEMMA PulseAll ==
  ASSUME GpioAssumption, NEW ms \in Seq(Mezz), NEW pulse \in {<<>>, OutputRoles}
  PROVE  /\ PulseAllOf(ms, pulse) \in Seq(LineStep)
         /\ \A l \in GpioLine : Ends(PulseAllOf(ms, pulse), l, ClaimOp(l))
<1>. DEFINE P == [j \in DOMAIN ms |-> Pulses(ms[j], pulse)]
<1>1. PulseAllOf(ms, pulse) = FlattenSeq(P)
  BY DEF PulseAllOf, ForEach, Pulses
<1>2. /\ DOMAIN ms = 1..Len(ms) /\ Len(ms) \in Nat
      /\ \A j \in 1..Len(ms) : ms[j] \in Mezz
  OBVIOUS
<1>3. P \in Seq(Seq(LineStep)) /\ Len(P) = Len(ms)
  <2>1. P \in [1..Len(ms) -> Seq(LineStep)]
    BY <1>2, PulsesType
  <2>. QED
    BY <1>2, <2>1
<1>4. ASSUME NEW l \in GpioLine, NEW j \in 1..Len(ms)
      PROVE  Ends(P[j], l, ClaimOp(l))
  BY <1>2, PulsesFacts
<1>. HIDE DEF P
<1>5. FlattenSeq(P) \in Seq(LineStep)
  BY <1>3, FlattenType
<1>6. ASSUME NEW l \in GpioLine
      PROVE  Ends(FlattenSeq(P), l, ClaimOp(l))
  BY <1>3, <1>4, FlattenEnds
<1>. QED
  BY <1>1, <1>5, <1>6

-----------------------------------------------------------------------------
(* Writes that begin with the overlay and go on with those of lines.       *)
Begun(ss) ==
  /\ ss \in Seq(StepSet) /\ Len(ss) >= 1 /\ ss[1] = ApplyStep
  /\ \A j \in 2..Len(ss) : ss[j] \in LineStep

LEMMA LinesAreSteps == ASSUME NEW ss \in Seq(LineStep) PROVE ss \in Seq(StepSet)
<1>1. \A j \in 1..Len(ss) : ss[j] \in StepSet
  BY DEF StepSet
<1>2. ss \in [1..Len(ss) -> StepSet] /\ Len(ss) \in Nat
  BY <1>1
<1>. QED
  BY <1>2

LEMMA BegunApply == Begun(ApplyOverlay)
<1>. DEFINE a == ApplyStep
<1>1. a \in StepSet
  BY DEF StepSet
<1>. HIDE DEF a
<1>2. <<a>> \in Seq(StepSet) /\ Len(<<a>>) = 1 /\ <<a>>[1] = a
  BY <1>1
<1>3. ApplyOverlay = <<a>>
  BY DEF ApplyOverlay, ApplyStep, a
<1>. QED
  BY <1>2, <1>3 DEF Begun, a

LEMMA BegunJoin ==
  ASSUME NEW ss, Begun(ss), NEW tt \in Seq(LineStep)
  PROVE  Begun(ss \o tt)
<1>1. ss \in Seq(StepSet) /\ tt \in Seq(StepSet)
  BY LinesAreSteps DEF Begun
<1>2. ss \o tt \in Seq(StepSet) /\ Len(ss \o tt) = Len(ss) + Len(tt) /\ Len(ss) >= 1
  BY <1>1 DEF Begun
<1>3. (ss \o tt)[1] = ApplyStep
  BY <1>1 DEF Begun
<1>4. ASSUME NEW j \in 2..Len(ss \o tt) PROVE (ss \o tt)[j] \in LineStep
  <2>1. CASE j <= Len(ss)
    <3>1. j \in 2..Len(ss) /\ (ss \o tt)[j] = ss[j]
      BY <1>1, <2>1
    <3>. QED
      BY <3>1 DEF Begun
  <2>2. CASE ~(j <= Len(ss))
    <3>1. j - Len(ss) \in 1..Len(tt) /\ (ss \o tt)[j] = tt[j - Len(ss)]
      BY <1>1, <1>2, <2>2
    <3>. QED
      BY <3>1
  <2>. QED
    BY <2>1, <2>2
<1>. QED
  BY <1>2, <1>3, <1>4 DEF Begun

(* How many writes of each kind there are, and where.                      *)
Removes(c) == c.kind = "remove" \/ (c.kind = "smoketest" /\ ~c.keepOverlay)

LineOps == {"export", "out", "in", "low", "high", "unexport"}
ClaimOps == {"export", "out", "in", "low", "high"}

InPlace(ss) ==
  /\ ss \in Seq(StepSet)
  /\ \A j \in 1..Len(ss) : /\ ss[j].op = "remove" => j = Len(ss)
                           /\ ss[j].op = "apply" => j = 1

LEMMA StepFacts ==
  /\ ApplyStep.op = "apply" /\ RemoveStep.op = "remove"
  /\ \A st \in LineStep : st.op \in LineOps /\ st.line \in GpioLine
BY DEF ApplyStep, RemoveStep, Step, LineStep, LineOps

LEMMA BegunInPlace ==
  ASSUME NEW ss, Begun(ss)
  PROVE  /\ InPlace(ss) /\ ss[1].op = "apply" /\ Len(ss) >= 1
         /\ \A j \in 1..Len(ss) : ss[j].op # "remove"
<1>1. ss[1].op = "apply"
  BY StepFacts DEF Begun
<1>2. ASSUME NEW j \in 1..Len(ss), j # 1 PROVE ss[j].op \in LineOps
  <2>1. j \in 2..Len(ss)
    BY <1>2 DEF Begun
  <2>. QED
    BY <2>1, StepFacts DEF Begun
<1>. QED
  BY <1>1, <1>2 DEF Begun, InPlace, LineOps

(* The overlay is removed at the end.                                      *)
LEMMA BegunRemove ==
  ASSUME NEW ss, Begun(ss)
  PROVE  LET tt == ss \o RemoveOverlay
         IN /\ InPlace(tt) /\ tt[1].op = "apply" /\ Len(tt) >= 1
            /\ tt[Len(tt)].op = "remove"
            /\ \A l \in GpioLine, op \in LineOps : LastOn(ss, l, op) => LastOn(tt, l, op)
<1>. DEFINE a == RemoveStep
            rr == <<a>>
            tt == ss \o rr
<1>1. RemoveOverlay = rr
  BY DEF RemoveOverlay, RemoveStep
<1>2. a \in StepSet /\ a.op = "remove"
  BY StepFacts DEF StepSet
<1>. HIDE DEF a
<1>3. rr \in Seq(StepSet) /\ Len(rr) = 1 /\ rr[1] = a
  BY <1>2
<1>. HIDE DEF rr
<1>4. ss \in Seq(StepSet) /\ Len(ss) \in Nat /\ Len(ss) >= 1
  BY DEF Begun
<1>a. rr \in Seq(StepSet) /\ ss \in Seq(StepSet)
  BY <1>3, <1>4
<1>b. tt \in Seq(StepSet) /\ Len(tt) = Len(ss) + Len(rr)
  BY <1>a
<1>5. tt \in Seq(StepSet) /\ Len(tt) = Len(ss) + 1
  BY <1>b, <1>3, <1>4, Zenon
<1>6. tt[Len(ss) + 1] = a /\ \A j \in 1..Len(ss) : tt[j] = ss[j]
  <2>1. tt[Len(ss) + 1] = rr[1]
    <3>1. Len(ss) + 1 \in 1..(Len(ss) + Len(rr)) /\ (Len(ss) + 1) - Len(ss) = 1
          /\ ~(Len(ss) + 1 <= Len(ss))
      BY <1>3, <1>4
    <3>. QED
      BY <1>a, <3>1
  <2>2. \A j \in 1..Len(ss) : tt[j] = ss[j]
    BY <1>3, <1>4
  <2>. QED
    BY <1>3, <2>1, <2>2
<1>7. \A l : Quiet(rr, l)
  BY <1>2, <1>3 DEF Quiet, On
<1>8. \A l, op : LastOn(ss, l, op) => LastOn(tt, l, op)
  BY <1>3, <1>4, <1>7, JoinLastQuiet
<1>. HIDE DEF tt
<1>9. \A j \in 1..Len(tt) : j = Len(tt) \/ j \in 1..Len(ss)
  BY <1>4, <1>5
<1>10. /\ \A j \in 1..Len(ss) : ss[j].op # "remove" /\ (ss[j].op = "apply" => j = 1)
       /\ ss[1].op = "apply"
  BY BegunInPlace DEF InPlace
<1>11. tt[Len(tt)].op = "remove" /\ tt[1].op = "apply" /\ Len(tt) >= 1
  BY <1>2, <1>4, <1>5, <1>6, <1>10
<1>12. InPlace(tt)
  BY <1>2, <1>5, <1>6, <1>9, <1>10, <1>11 DEF InPlace
<1>. QED
  BY <1>1, <1>8, <1>11, <1>12 DEF tt

(* What is known of the writes left of a command: lines end as Given says, *)
(* the overlay as the options say.                                         *)
FinalOp(c, l) == IF c.kind = "smoketest" /\ c.keepLines THEN ClaimOp(l) ELSE "unexport"

Applies(ss) == Len(ss) >= 1 /\ ss[1].op = "apply"

Shape(c, ss) ==
  /\ InPlace(ss)
  /\ (\E j \in 1..Len(ss) : ss[j].op \in ClaimOps) => Applies(ss)
  /\ c.kind # "status" =>
       /\ c.kind # "apply" =>
            \A l \in GpioLine : l[1] \in ToSet(c.mezzes) => LastOn(ss, l, FinalOp(c, l))
       /\ Removes(c) => Len(ss) >= 1 /\ ss[Len(ss)].op = "remove"
       /\ ~Removes(c) => Applies(ss) /\ \A j \in 1..Len(ss) : ss[j].op # "remove"

LEMMA MezzesFacts ==
  ASSUME GpioAssumption, NEW c \in Commands, c.kind \in {"remove", "smoketest"}
  PROVE  /\ c.mezzes \in Seq(Mezz)
         /\ c.kind = "smoketest" =>
              /\ c.pulse \in {<<>>, OutputRoles}
              /\ c.keepLines \in BOOLEAN /\ c.keepOverlay \in BOOLEAN
<1>1. c.mezzes \in MezzLists
  BY DEF Commands
<1>2. c.mezzes \in Seq(Mezz)
  BY <1>1 DEF GpioAssumption
<1>. QED
  BY <1>2 DEF Commands

LEMMA ShapeSmoketest ==
  ASSUME GpioAssumption, NEW c \in Commands, c.kind = "smoketest"
  PROVE  Shape(c, do_smoketest(c))
<1>. DEFINE ms == c.mezzes
            a == ForEach(claim_mezz, ms)
            b == PulseAllOf(ms, c.pulse)
            r == IF c.keepLines THEN <<>> ELSE ForEach(release_mezz, ms)
            d == IF c.keepOverlay THEN <<>> ELSE RemoveOverlay
            body == ((ApplyOverlay \o a) \o b) \o r
            ss == do_smoketest(c)
<1>1. ss = body \o d
  BY DEF do_smoketest, PulseAllOf
<1>2. /\ ms \in Seq(Mezz) /\ c.pulse \in {<<>>, OutputRoles}
      /\ c.keepLines \in BOOLEAN /\ c.keepOverlay \in BOOLEAN
  BY MezzesFacts
<1>. HIDE DEF ms
<1>3. /\ a \in Seq(LineStep)
      /\ \A l \in GpioLine : l[1] \in ToSet(ms) => LastOn(a, l, ClaimOp(l))
      /\ \A l \in GpioLine : Ends(a, l, ClaimOp(l))
  BY <1>2, ClaimAll
<1>4. b \in Seq(LineStep) /\ \A l \in GpioLine : Ends(b, l, ClaimOp(l))
  BY <1>2, PulseAll
<1>5. r \in Seq(LineStep)
  <2>1. ForEach(release_mezz, ms) \in Seq(LineStep)
    BY <1>2, ReleaseAll
  <2>2. <<>> \in Seq(LineStep)
    OBVIOUS
  <2>. QED
    BY <2>1, <2>2, Zenon
<1>. HIDE DEF a, b
<1>6. Begun(ApplyOverlay) /\ Begun(ApplyOverlay \o a) /\ Begun((ApplyOverlay \o a) \o b)
  <2>1. Begun(ApplyOverlay)
    BY BegunApply
  <2>2. Begun(ApplyOverlay \o a)
    BY <1>3, <2>1, BegunJoin
  <2>3. Begun((ApplyOverlay \o a) \o b)
    BY <1>4, <2>2, BegunJoin
  <2>. QED
    BY <2>1, <2>2, <2>3
<1>7. Begun(body)
  <2>. HIDE DEF r
  <2>. QED
    BY <1>5, <1>6, BegunJoin
<1>8. /\ ApplyOverlay \in Seq(StepSet) /\ a \in Seq(StepSet) /\ b \in Seq(StepSet)
      /\ r \in Seq(StepSet) /\ ApplyOverlay \o a \in Seq(StepSet)
      /\ (ApplyOverlay \o a) \o b \in Seq(StepSet)
  <2>1. a \in Seq(StepSet) /\ b \in Seq(StepSet)
    BY <1>3, <1>4, LinesAreSteps
  <2>2. r \in Seq(StepSet)
    <3>. HIDE DEF r
    <3>. QED
      BY <1>5, LinesAreSteps
  <2>3. /\ ApplyOverlay \in Seq(StepSet) /\ ApplyOverlay \o a \in Seq(StepSet)
        /\ (ApplyOverlay \o a) \o b \in Seq(StepSet)
    BY <1>6 DEF Begun
  <2>. QED
    BY <2>1, <2>2, <2>3
<1>9. ASSUME NEW l \in GpioLine, l[1] \in ToSet(ms)
      PROVE  LastOn(body, l, FinalOp(c, l))
  <2>1. CASE c.keepLines
    <3>1. r = <<>> /\ FinalOp(c, l) = ClaimOp(l)
      BY <2>1 DEF FinalOp
    <3>2. LastOn(ApplyOverlay \o a, l, ClaimOp(l))
      BY <1>3, <1>8, <1>9, JoinLast
    <3>3. Ends(ApplyOverlay \o a, l, ClaimOp(l)) /\ Ends(b, l, ClaimOp(l))
      BY <1>4, <3>2 DEF Ends
    <3>4. LastOn((ApplyOverlay \o a) \o b, l, ClaimOp(l))
      BY <1>8, <3>2, <3>3, Join
    <3>5. Quiet(<<>>, l) /\ <<>> \in Seq(StepSet)
      BY DEF Quiet
    <3>6. LastOn(((ApplyOverlay \o a) \o b) \o <<>>, l, ClaimOp(l))
      BY <1>8, <3>4, <3>5, JoinLastQuiet
    <3>. QED
      BY <3>1, <3>6
  <2>2. CASE ~c.keepLines
    <3>1. r = ForEach(release_mezz, ms) /\ FinalOp(c, l) = "unexport"
      BY <2>2 DEF FinalOp
    <3>2. LastOn(r, l, "unexport")
      BY <1>2, <1>9, <3>1, ReleaseAll
    <3>. HIDE DEF r
    <3>3. LastOn(body, l, "unexport")
      BY <1>8, <3>2, JoinLast
    <3>. QED
      BY <3>1, <3>3
  <2>. QED
    BY <2>1, <2>2
<1>10. \A l \in GpioLine : FinalOp(c, l) \in LineOps
  BY DEF FinalOp, ClaimOp, LineOps
<1>. HIDE DEF body
<1>11. CASE c.keepOverlay
  <2>1. ss = body
    <3>1. d = <<>> /\ body \in Seq(StepSet)
      BY <1>7, <1>11 DEF Begun
    <3>. QED
      BY <1>1, <3>1
  <2>2. ~Removes(c)
    BY <1>11 DEF Removes
  <2>3. InPlace(ss) /\ Applies(ss) /\ \A j \in 1..Len(ss) : ss[j].op # "remove"
    BY <1>7, <2>1, BegunInPlace DEF Applies
  <2>4. \A l \in GpioLine : l[1] \in ToSet(c.mezzes) => LastOn(ss, l, FinalOp(c, l))
    BY <1>9, <2>1 DEF ms
  <2>. HIDE DEF ss
  <2>. QED
    BY <2>2, <2>3, <2>4 DEF Shape, ss
<1>12. CASE ~c.keepOverlay
  <2>1. ss = body \o RemoveOverlay
    BY <1>1, <1>12
  <2>2. Removes(c)
    BY <1>12 DEF Removes
  <2>3. /\ InPlace(ss) /\ Applies(ss) /\ Len(ss) >= 1 /\ ss[Len(ss)].op = "remove"
        /\ \A l \in GpioLine, op \in LineOps : LastOn(body, l, op) => LastOn(ss, l, op)
    BY <1>7, <2>1, BegunRemove DEF Applies
  <2>4. \A l \in GpioLine : l[1] \in ToSet(c.mezzes) => LastOn(ss, l, FinalOp(c, l))
    BY <1>9, <1>10, <2>3 DEF ms
  <2>. HIDE DEF ss
  <2>. QED
    BY <2>2, <2>3, <2>4 DEF Shape, ss
<1>. QED
  BY <1>2, <1>11, <1>12

LEMMA ShapeRemove ==
  ASSUME GpioAssumption, NEW c \in Commands, c.kind = "remove"
  PROVE  Shape(c, do_remove_overlay(c))
<1>. DEFINE ms == c.mezzes
            r == ForEach(release_mezz, ms)
            a == RemoveStep
            rr == <<a>>
            ss == do_remove_overlay(c)
<1>1. ss = r \o rr
  BY DEF do_remove_overlay, RemoveOverlay, RemoveStep
<1>2. ms \in Seq(Mezz)
  BY MezzesFacts
<1>3. /\ r \in Seq(FreeStep) /\ r \in Seq(LineStep)
      /\ \A l \in GpioLine : l[1] \in ToSet(ms) => LastOn(r, l, "unexport")
  BY <1>2, ReleaseAll
<1>. HIDE DEF r
<1>4. a \in StepSet /\ a.op = "remove"
  BY StepFacts DEF StepSet
<1>. HIDE DEF a
<1>5. rr \in Seq(StepSet) /\ Len(rr) = 1 /\ rr[1] = a
  BY <1>4
<1>6. \A l : Quiet(rr, l)
  BY <1>4, <1>5 DEF Quiet, On
<1>. HIDE DEF rr
<1>7. rr \in Seq(StepSet) /\ r \in Seq(StepSet) /\ Len(r) \in Nat
  BY <1>3, <1>5, LinesAreSteps
<1>8. r \o rr \in Seq(StepSet) /\ Len(r \o rr) = Len(r) + Len(rr)
  BY <1>7
<1>9. ss \in Seq(StepSet) /\ Len(ss) = Len(r) + 1
  BY <1>1, <1>5, <1>8, Zenon
<1>10. \A j \in 1..Len(r) : ss[j] = r[j]
  BY <1>1, <1>7
<1>11. ss[Len(r) + 1] = rr[1]
  <2>1. Len(r) + 1 \in 1..(Len(r) + Len(rr)) /\ (Len(r) + 1) - Len(r) = 1
        /\ ~(Len(r) + 1 <= Len(r))
    BY <1>5, <1>7
  <2>. QED
    BY <1>1, <1>7, <2>1
<1>12. \A l \in GpioLine : l[1] \in ToSet(ms) => LastOn(ss, l, "unexport")
  BY <1>1, <1>3, <1>6, <1>7, JoinLastQuiet
<1>. HIDE DEF ss
<1>13. \A j \in 1..Len(ss) : j = Len(ss) \/ j \in 1..Len(r)
  BY <1>7, <1>9
<1>14. \A j \in 1..Len(r) : ss[j].op = "unexport"
  <2>1. \A j \in 1..Len(r) : r[j] \in FreeStep
    BY <1>3
  <2>. QED
    BY <1>10, <2>1 DEF FreeStep
<1>16. ss[Len(ss)].op = "remove" /\ Len(ss) >= 1
  BY <1>4, <1>5, <1>7, <1>9, <1>11
<1>15. \A j \in 1..Len(ss) : ss[j].op \in {"unexport", "remove"}
  BY <1>13, <1>14, <1>16
<1>17. InPlace(ss)
  BY <1>9, <1>13, <1>14, <1>16 DEF InPlace
<1>18. Removes(c) /\ \A l \in GpioLine : FinalOp(c, l) = "unexport"
  BY DEF Removes, FinalOp
<1>19. \A l \in GpioLine : l[1] \in ToSet(c.mezzes) => LastOn(ss, l, FinalOp(c, l))
  BY <1>12, <1>18
<1>20. ~\E j \in 1..Len(ss) : ss[j].op \in ClaimOps
  BY <1>15 DEF ClaimOps
<1>21. Shape(c, ss)
  BY <1>16, <1>17, <1>18, <1>19, <1>20 DEF Shape
<1>. QED
  BY <1>21 DEF ss

LEMMA ShapeOf ==
  ASSUME GpioAssumption, NEW c \in Commands
  PROVE  Shape(c, StepsOf(c))
<1>1. CASE c.kind = "apply"
  <2>1. StepsOf(c) = ApplyOverlay
    BY <1>1 DEF StepsOf
  <2>2. /\ InPlace(ApplyOverlay) /\ Applies(ApplyOverlay)
        /\ \A j \in 1..Len(ApplyOverlay) : ApplyOverlay[j].op # "remove"
    BY BegunApply, BegunInPlace DEF Applies
  <2>3. ~Removes(c)
    BY <1>1 DEF Removes
  <2>. QED
    BY <1>1, <2>1, <2>2, <2>3 DEF Shape
<1>2. CASE c.kind = "status"
  <2>1. StepsOf(c) = <<>>
    BY <1>2 DEF StepsOf
  <2>2. InPlace(<<>>)
    BY DEF InPlace
  <2>. QED
    BY <1>2, <2>1, <2>2 DEF Shape
<1>3. CASE c.kind = "remove"
  BY <1>3, ShapeRemove DEF StepsOf
<1>4. CASE c.kind = "smoketest"
  BY <1>4, ShapeSmoketest DEF StepsOf
<1>. QED
  BY <1>1, <1>2, <1>3, <1>4 DEF Commands

-----------------------------------------------------------------------------
(* What is true of the writes left.                                        *)
Level == {"free", "in", "low", "high"}

StepsInv ==
  /\ command \in Commands \/ command.kind = "status"
  /\ InPlace(steps)
  /\ exitCode = 0 => steps = <<>>
  /\ overlay \in {"none", "applied", "empty"}
  /\ gpio \in [GpioLine -> Level]

(* A line is claimed after the overlay of the same command.                *)
ClaimInv ==
  /\ overlay = "empty" => cut
  /\ (\E j \in 1..Len(steps) : steps[j].op \in ClaimOps) =>
       Applies(steps) \/ overlay = "applied" \/ cut

LineDone(l) ==
  \/ LastOn(steps, l, FinalOp(command, l))
  \/ Quiet(steps, l) /\ gpio[l] = Given(l)

OverlayDone ==
  /\ Removes(command) =>
       IF steps = <<>> THEN overlay = "none" ELSE steps[Len(steps)].op = "remove"
  /\ ~Removes(command) =>
       /\ \A j \in 1..Len(steps) : steps[j].op # "remove"
       /\ overlay # "none" \/ Applies(steps)

Counts ==
  (exitCode = -1 \/ (exitCode = 0 /\ steps = <<>>)) /\ command.kind # "status"

CleanInv ==
  Counts =>
    /\ command.kind # "apply" =>
         \A l \in GpioLine : l[1] \in ToSet(command.mezzes) => LineDone(l)
    /\ OverlayDone

GpioInv == StepsInv /\ ClaimInv /\ CleanInv

LEMMA InvIsClean == GpioInv => ZeroIsClean
<1>. SUFFICES ASSUME GpioInv, exitCode = 0, steps = <<>>, command.kind # "status"
              PROVE  /\ command.kind # "apply" =>
                          \A l \in GpioLine : l[1] \in ToSet(command.mezzes) => gpio[l] = Given(l)
                     /\ (overlay = "none") <=> Removes(command)
  BY DEF ZeroIsClean, Removes
<1>1. Len(steps) = 0
  OBVIOUS
<1>2. \A l, op : ~LastOn(steps, l, op)
  BY <1>1 DEF LastOn
<1>3. ~Applies(steps)
  BY <1>1 DEF Applies
<1>. QED
  BY <1>2, <1>3 DEF GpioInv, CleanInv, Counts, LineDone, OverlayDone

LEMMA OpsOfSteps ==
  ASSUME NEW st \in StepSet
  PROVE  /\ st.op \in LineOps => st.line \in GpioLine
         /\ st.op \in LineOps \cup {"apply", "remove"}
BY StepFacts DEF StepSet, LineOps

(* The writes that are left after one of them.                             *)
LEMMA TailFacts ==
  ASSUME NEW ss, InPlace(ss), ss # <<>>
  PROVE  /\ InPlace(Tail(ss)) /\ Len(Tail(ss)) = Len(ss) - 1
         /\ Len(ss) \in Nat /\ Len(ss) >= 1 /\ Head(ss) = ss[1] /\ ss[1] \in StepSet
         /\ \A j \in 1..Len(Tail(ss)) : Tail(ss)[j] = ss[j + 1] /\ j + 1 \in 1..Len(ss)
         /\ Tail(ss) = <<>> => Len(ss) = 1
         /\ Tail(ss) # <<>> => Tail(ss)[Len(Tail(ss))] = ss[Len(ss)]
         /\ ss[1].op = "remove" => Tail(ss) = <<>>
         /\ \A j \in 1..Len(Tail(ss)) : Tail(ss)[j].op # "apply"
<1>. DEFINE tt == Tail(ss)
<1>1. ss \in Seq(StepSet)
  BY DEF InPlace
<1>2. Len(ss) \in Nat /\ Len(ss) >= 1 /\ Head(ss) = ss[1] /\ ss[1] \in StepSet
  BY <1>1
<1>3. tt \in Seq(StepSet) /\ Len(tt) = Len(ss) - 1
  BY <1>1
<1>4. \A j \in 1..Len(tt) : tt[j] = ss[j + 1] /\ j + 1 \in 1..Len(ss)
  BY <1>1, <1>3
<1>. HIDE DEF tt
<1>5. tt = <<>> <=> Len(tt) = 0
  <2>1. tt \in Seq(StepSet)
    BY <1>3
  <2>. QED
    BY <2>1, EmptySeq
<1>6. \A j \in 1..Len(ss) : /\ ss[j].op = "remove" => j = Len(ss)
                            /\ ss[j].op = "apply" => j = 1
  BY DEF InPlace
<1>7. \A j \in 1..Len(tt) : /\ tt[j].op = "remove" => j = Len(tt)
                            /\ tt[j].op # "apply"
  BY <1>2, <1>3, <1>4, <1>6
<1>8. InPlace(tt)
  BY <1>3, <1>7 DEF InPlace
<1>9. tt = <<>> => Len(ss) = 1
  BY <1>2, <1>3, <1>5
<1>10. tt # <<>> => tt[Len(tt)] = ss[Len(ss)]
  <2>1. tt # <<>> => Len(tt) \in 1..Len(tt) /\ Len(tt) + 1 = Len(ss)
    BY <1>2, <1>3, <1>5
  <2>. QED
    BY <1>4, <2>1
<1>11. ss[1].op = "remove" => tt = <<>>
  BY <1>2, <1>3, <1>5, <1>6
<1>. QED
  BY <1>2, <1>3, <1>4, <1>7, <1>8, <1>9, <1>10, <1>11 DEF tt

(* What is left of the writes to a line.                                   *)
LEMMA TailLines ==
  ASSUME NEW ss, InPlace(ss), ss # <<>>, NEW l, NEW op
  PROVE  /\ Quiet(ss, l) => Quiet(Tail(ss), l) /\ ~On(ss[1], l)
         /\ LastOn(ss, l, op) =>
              \/ LastOn(Tail(ss), l, op)
              \/ Quiet(Tail(ss), l) /\ On(ss[1], l) /\ ss[1].op = op
<1>. DEFINE tt == Tail(ss)
<1>1. /\ Len(tt) = Len(ss) - 1 /\ Len(ss) \in Nat /\ Len(ss) >= 1
      /\ \A j \in 1..Len(tt) : tt[j] = ss[j + 1] /\ j + 1 \in 1..Len(ss)
  BY TailFacts
<1>. HIDE DEF tt
<1>2. Quiet(ss, l) => Quiet(tt, l) /\ ~On(ss[1], l)
  BY <1>1 DEF Quiet
<1>3. ASSUME LastOn(ss, l, op)
      PROVE  LastOn(tt, l, op) \/ (Quiet(tt, l) /\ On(ss[1], l) /\ ss[1].op = op)
  <2>1. PICK j \in 1..Len(ss) : /\ ss[j].op = op /\ On(ss[j], l)
                                /\ \A k \in (j + 1)..Len(ss) : ~On(ss[k], l)
    BY <1>3 DEF LastOn
  <2>2. CASE j = 1
    <3>1. \A k \in 1..Len(tt) : ~On(tt[k], l)
      BY <1>1, <2>1, <2>2
    <3>. QED
      BY <2>1, <2>2, <3>1 DEF Quiet
  <2>3. CASE j # 1
    <3>1. j - 1 \in 1..Len(tt) /\ (j - 1) + 1 = j
      BY <1>1, <2>3
    <3>2. tt[j - 1] = ss[j]
      BY <1>1, <3>1
    <3>3. \A k \in ((j - 1) + 1)..Len(tt) : ~On(tt[k], l)
      <4>1. \A k \in ((j - 1) + 1)..Len(tt) : k \in 1..Len(tt) /\ k + 1 \in (j + 1)..Len(ss)
        BY <1>1, <3>1
      <4>. QED
        BY <1>1, <2>1, <4>1
    <3>. QED
      BY <2>1, <3>1, <3>2, <3>3 DEF LastOn
  <2>. QED
    BY <2>2, <2>3
<1>. QED
  BY <1>2, <1>3 DEF tt

(* Nothing is asked of the lines of a command that was stopped.            *)
LEMMA StoppedClean ==
  ASSUME ~Counts'
  PROVE  CleanInv'
BY DEF CleanInv

(* A write to a line: the other lines keep what they have, and this one    *)
(* has what its last write leaves.                                         *)
LEMMA GoesKeepsInv ==
  ASSUME GpioInv, NEW state \in Level, steps # <<>>, Goes(state),
         Head(steps).op \in LineOps,
         Head(steps).op = "unexport" => state = "free",
         Head(steps).op = "low" => state = "low",
         Head(steps).op = "in" => state = "in"
  PROVE  GpioInv'
<1>. DEFINE ss == steps
            tt == Tail(ss)
            op == Head(ss).op
            x == Head(ss).line
<1>1. InPlace(ss) /\ ss # <<>>
  BY DEF GpioInv, StepsInv
<1>2. steps' = tt /\ gpio' = [gpio EXCEPT ![x] = state]
      /\ command' = command /\ exitCode' = exitCode /\ overlay' = overlay /\ cut' = cut
  BY DEF Goes, Here
<1>3. /\ InPlace(tt) /\ Len(tt) = Len(ss) - 1
      /\ Len(ss) \in Nat /\ Len(ss) >= 1 /\ Head(ss) = ss[1] /\ ss[1] \in StepSet
      /\ \A j \in 1..Len(tt) : tt[j] = ss[j + 1] /\ j + 1 \in 1..Len(ss)
      /\ tt = <<>> => Len(ss) = 1
      /\ tt # <<>> => tt[Len(tt)] = ss[Len(ss)]
  BY <1>1, TailFacts
<1>4. \A l, o : /\ Quiet(ss, l) => Quiet(tt, l) /\ ~On(ss[1], l)
                /\ LastOn(ss, l, o) =>
                     LastOn(tt, l, o) \/ (Quiet(tt, l) /\ On(ss[1], l) /\ ss[1].op = o)
  BY <1>1, TailLines
<1>5. op \in LineOps /\ op = ss[1].op /\ x = ss[1].line /\ x \in GpioLine
  BY <1>3, OpsOfSteps
<1>6. gpio \in [GpioLine -> Level] /\ gpio' \in [GpioLine -> Level]
      /\ gpio'[x] = state /\ \A l \in GpioLine : l # x => gpio'[l] = gpio[l]
  BY <1>2, <1>5 DEF GpioInv, StepsInv
<1>7. ~Applies(ss) /\ (op = "unexport" => state = "free")
      /\ (op = "low" => state = "low") /\ (op = "in" => state = "in")
  BY <1>5 DEF Applies, LineOps
<1>8. exitCode = 0 => FALSE
  BY <1>1 DEF GpioInv, StepsInv
<1>9. \A l : On(ss[1], l) <=> l = x
  BY <1>5 DEF On, LineOps
<1>. HIDE DEF tt, op, x
<1>10. StepsInv'
  BY <1>2, <1>3, <1>6, <1>8 DEF GpioInv, StepsInv
<1>11. ClaimInv'
  <2>1. (\E j \in 1..Len(tt) : tt[j].op \in ClaimOps) =>
          \E j \in 1..Len(ss) : ss[j].op \in ClaimOps
    BY <1>3
  <2>. QED
    BY <1>2, <1>7, <2>1 DEF GpioInv, ClaimInv
<1>12. CleanInv'
  <2>1. SUFFICES ASSUME Counts'
                 PROVE  /\ command'.kind # "apply" =>
                             \A l \in GpioLine : l[1] \in ToSet(command'.mezzes) => LineDone(l)'
                        /\ OverlayDone'
    BY DEF CleanInv
  <2>2. Counts
    BY <1>2, <1>8, <2>1 DEF Counts
  <2>3. ASSUME NEW l \in GpioLine, LineDone(l) PROVE LineDone(l)'
    <3>1. Given(l)' = Given(l) /\ (FinalOp(command, l))' = FinalOp(command, l)
      BY <1>2 DEF Given, FinalOp
    <3>2. CASE l # x
      <4>1. gpio'[l] = gpio[l] /\ ~On(ss[1], l)
        BY <1>6, <1>9, <3>2
      <4>. QED
        BY <1>2, <1>4, <2>3, <3>1, <4>1 DEF LineDone
    <3>3. CASE l = x
      <4>1. LastOn(tt, l, FinalOp(command, l)) \/ (Quiet(tt, l) /\ op = FinalOp(command, l))
        BY <1>4, <1>5, <1>9, <2>3, <3>3 DEF LineDone
      <4>2. op = FinalOp(command, l) => state = Given(l)
        BY <1>7, <2>2 DEF FinalOp, ClaimOp, Given
      <4>. QED
        BY <1>2, <1>6, <3>1, <3>3, <4>1, <4>2 DEF LineDone
    <3>. QED
      BY <3>2, <3>3
  <2>4. OverlayDone'
    <3>1. OverlayDone
      BY <2>2 DEF GpioInv, CleanInv
    <3>2. Removes(command') <=> Removes(command)
      BY <1>2
    <3>3. ASSUME Removes(command)
          PROVE  IF tt = <<>> THEN overlay = "none" ELSE tt[Len(tt)].op = "remove"
      <4>1. ss[Len(ss)].op = "remove"
        BY <1>1, <3>1, <3>3 DEF OverlayDone
      <4>2. tt # <<>>
        BY <1>3, <1>5, <4>1 DEF LineOps
      <4>. QED
        BY <1>3, <4>1, <4>2
    <3>4. ASSUME ~Removes(command)
          PROVE  (\A j \in 1..Len(tt) : tt[j].op # "remove") /\ overlay # "none"
      BY <1>3, <1>7, <3>1, <3>4 DEF OverlayDone
    <3>. QED
      BY <1>2, <3>2, <3>3, <3>4 DEF OverlayDone
  <2>. QED
    BY <1>2, <2>2, <2>3, <2>4 DEF GpioInv, CleanInv
<1>. QED
  BY <1>10, <1>11, <1>12 DEF GpioInv

(* The overlay is there after its write; after its removal nothing is left *)
(* of a command.                                                           *)
LEMMA OverlayStepKeepsInv ==
  ASSUME GpioInv, steps # <<>>, steps' = Tail(steps),
         Head(steps).op \in {"apply", "remove"},
         overlay' = IF Head(steps).op = "remove" THEN "none"
                    ELSE IF overlay = "none" THEN "applied" ELSE overlay,
         UNCHANGED <<command, exitCode, gpio, cut>>
  PROVE  GpioInv'
<1>. DEFINE ss == steps
            tt == Tail(ss)
            op == Head(ss).op
<1>1. InPlace(ss) /\ ss # <<>>
  BY DEF GpioInv, StepsInv
<1>2. steps' = tt /\ gpio' = gpio
      /\ command' = command /\ exitCode' = exitCode /\ cut' = cut
  OBVIOUS
<1>3. /\ InPlace(tt) /\ Len(tt) = Len(ss) - 1
      /\ Len(ss) \in Nat /\ Len(ss) >= 1 /\ Head(ss) = ss[1] /\ ss[1] \in StepSet
      /\ \A j \in 1..Len(tt) : tt[j] = ss[j + 1] /\ j + 1 \in 1..Len(ss)
      /\ tt = <<>> => Len(ss) = 1
      /\ tt # <<>> => tt[Len(tt)] = ss[Len(ss)]
      /\ ss[1].op = "remove" => tt = <<>>
  BY <1>1, TailFacts
<1>4. \A l, o : /\ Quiet(ss, l) => Quiet(tt, l) /\ ~On(ss[1], l)
                /\ LastOn(ss, l, o) =>
                     LastOn(tt, l, o) \/ (Quiet(tt, l) /\ On(ss[1], l) /\ ss[1].op = o)
  BY <1>1, TailLines
<1>5. op \in {"apply", "remove"} /\ op = ss[1].op
  BY <1>3
<1>6. overlay \in {"none", "applied", "empty"} /\ (overlay = "empty" => cut)
      /\ overlay' = IF op = "remove" THEN "none"
                    ELSE IF overlay = "none" THEN "applied" ELSE overlay
  BY DEF GpioInv, StepsInv, ClaimInv
<1>8. exitCode = 0 => FALSE
  BY <1>1 DEF GpioInv, StepsInv
<1>9. \A l : ~On(ss[1], l)
  BY <1>5 DEF On
<1>. HIDE DEF tt, op
<1>10. StepsInv'
  BY <1>2, <1>3, <1>6, <1>8 DEF GpioInv, StepsInv
<1>11. ClaimInv'
  <2>1. CASE op = "remove"
    <3>1. Len(tt) = 0
      BY <1>3, <1>5, <2>1
    <3>2. 1..Len(tt) = {}
      BY <3>1
    <3>3. overlay' = "none"
      BY <1>6, <2>1
    <3>. QED
      BY <1>2, <3>2, <3>3 DEF ClaimInv
  <2>2. CASE op = "apply"
    BY <1>2, <1>6, <2>2 DEF ClaimInv
  <2>. QED
    BY <1>5, <2>1, <2>2
<1>12. CleanInv'
  <2>1. SUFFICES ASSUME Counts'
                 PROVE  /\ command'.kind # "apply" =>
                             \A l \in GpioLine : l[1] \in ToSet(command'.mezzes) => LineDone(l)'
                        /\ OverlayDone'
    BY DEF CleanInv
  <2>2. Counts
    BY <1>2, <1>8, <2>1 DEF Counts
  <2>3. ASSUME NEW l \in GpioLine, LineDone(l) PROVE LineDone(l)'
    <3>1. Given(l)' = Given(l) /\ (FinalOp(command, l))' = FinalOp(command, l)
      BY <1>2 DEF Given, FinalOp
    <3>. QED
      BY <1>2, <1>4, <1>9, <2>3, <3>1 DEF LineDone
  <2>4. OverlayDone'
    <3>1. OverlayDone
      BY <2>2 DEF GpioInv, CleanInv
    <3>2. Removes(command') <=> Removes(command)
      BY <1>2
    <3>3. ASSUME Removes(command)
          PROVE  IF tt = <<>> THEN overlay' = "none" ELSE tt[Len(tt)].op = "remove"
      <4>1. ss[Len(ss)].op = "remove"
        BY <1>1, <3>1, <3>3 DEF OverlayDone
      <4>2. tt = <<>> => op = "remove"
        BY <1>3, <1>5, <4>1
      <4>. QED
        BY <1>3, <1>6, <4>1, <4>2
    <3>4. ASSUME ~Removes(command)
          PROVE  (\A j \in 1..Len(tt) : tt[j].op # "remove") /\ overlay' # "none"
      <4>1. \A j \in 1..Len(ss) : ss[j].op # "remove"
        BY <3>1, <3>4 DEF OverlayDone
      <4>2. op = "apply"
        BY <1>3, <1>5, <4>1
      <4>. QED
        BY <1>3, <1>6, <4>1, <4>2
    <3>. QED
      BY <1>2, <3>2, <3>3, <3>4 DEF OverlayDone
  <2>. QED
    BY <1>2, <2>2, <2>3, <2>4 DEF GpioInv, CleanInv
<1>. QED
  BY <1>10, <1>11, <1>12 DEF GpioInv

(* A command that is stopped asks nothing more.                            *)
LEMMA RaiseKeepsInv ==
  ASSUME GpioInv, exitCode = -1 \/ steps # <<>>, Raise,
         overlay' \in {"none", "applied", "empty"},
         overlay' = "empty" => cut', UNCHANGED <<command, gpio>>
  PROVE  GpioInv'
<1>1. steps' = <<>> /\ command' = command /\ gpio' = gpio
      /\ exitCode' = IF exitCode = -1 THEN 1 ELSE exitCode
  BY DEF Raise
<1>2. exitCode' # 0 /\ exitCode' # -1
  BY <1>1 DEF GpioInv, StepsInv
<1>3. InPlace(<<>>) /\ Len(<<>>) = 0
  BY DEF InPlace
<1>4. StepsInv'
  BY <1>1, <1>2, <1>3 DEF GpioInv, StepsInv
<1>5. ClaimInv'
  BY <1>1, <1>3 DEF ClaimInv
<1>6. CleanInv'
  BY <1>2 DEF CleanInv, Counts
<1>. QED
  BY <1>4, <1>5, <1>6 DEF GpioInv

LEMMA StartKeepsInv ==
  ASSUME GpioAssumption, GpioInv, Start
  PROVE  GpioInv'
<1>1. command' \in Commands /\ overlay' = overlay /\ gpio' = gpio /\ cut' = cut
  BY DEF Start
<1>2. CASE steps' = StepsOf(command') /\ exitCode' = -1
  <2>1. Shape(command', steps')
    BY <1>1, <1>2, ShapeOf
  <2>. DEFINE c == command'
              tt == steps'
  <2>2. Shape(c, tt)
    BY <2>1
  <2>3. StepsInv'
    BY <1>1, <1>2, <2>2 DEF GpioInv, StepsInv, Shape
  <2>4. ClaimInv'
    BY <1>1, <2>2 DEF GpioInv, ClaimInv, Shape
  <2>5. ASSUME c.kind # "status" PROVE OverlayDone'
    <3>1. Removes(c) => Len(tt) >= 1 /\ tt[Len(tt)].op = "remove"
      BY <2>2, <2>5 DEF Shape
    <3>2. ~Removes(c) => Applies(tt) /\ \A j \in 1..Len(tt) : tt[j].op # "remove"
      BY <2>2, <2>5 DEF Shape
    <3>3. Removes(c) => tt # <<>>
      BY <3>1
    <3>. QED
      BY <3>1, <3>2, <3>3 DEF OverlayDone
  <2>6. ASSUME c.kind # "status", c.kind # "apply", NEW l \in GpioLine,
               l[1] \in ToSet(c.mezzes)
        PROVE  LineDone(l)'
    BY <2>2, <2>6 DEF Shape, LineDone
  <2>7. CleanInv'
    BY <2>5, <2>6 DEF CleanInv, Counts
  <2>. QED
    BY <2>3, <2>4, <2>7 DEF GpioInv
<1>3. CASE steps' = <<>> /\ exitCode' = 1
  <2>1. InPlace(<<>>) /\ Len(<<>>) = 0
    BY DEF InPlace
  <2>2. StepsInv'
    BY <1>1, <1>3, <2>1 DEF GpioInv, StepsInv
  <2>3. ClaimInv'
    BY <1>1, <1>3, <2>1 DEF GpioInv, ClaimInv
  <2>4. CleanInv'
    BY <1>3 DEF CleanInv, Counts
  <2>. QED
    BY <2>2, <2>3, <2>4 DEF GpioInv
<1>. QED
  BY <1>2, <1>3 DEF Start

-----------------------------------------------------------------------------
(* Every step of the board's script keeps the invariant.                   *)
LEMMA GpioStep ==
  ASSUME GpioAssumption, GpioInv, [GpioNext]_gpioVars
  PROVE  GpioInv'
<1>. /\ InPlace(steps) /\ (exitCode = 0 => steps = <<>>)
     /\ overlay \in {"none", "applied", "empty"} /\ gpio \in [GpioLine -> Level]
     /\ (overlay = "empty" => cut)
  BY DEF GpioInv, StepsInv, ClaimInv
<1>0. ASSUME steps # <<>>, Head(steps).op \in LineOps
      PROVE  gpio[Here] \in Level
  <2>1. Head(steps) \in StepSet
    BY <1>0, TailFacts
  <2>. QED
    BY <1>0, <2>1, OpsOfSteps DEF Here
<1>1. CASE Start
  BY <1>1, StartKeepsInv
<1>2. CASE End
  <2>1. /\ command' = command /\ steps' = steps /\ overlay' = overlay
        /\ gpio' = gpio /\ cut' = cut /\ steps = <<>> /\ exitCode = -1 /\ exitCode' = 0
    BY <1>2 DEF End
  <2>2. StepsInv'
    BY <2>1 DEF GpioInv, StepsInv
  <2>3. ClaimInv'
    BY <2>1 DEF GpioInv, ClaimInv
  <2>4. \A l : LineDone(l)' <=> LineDone(l)
    BY <2>1 DEF LineDone, Given
  <2>5. OverlayDone' <=> OverlayDone
    BY <2>1 DEF OverlayDone
  <2>6. Counts' => Counts
    BY <2>1 DEF Counts
  <2>7. CleanInv'
    BY <2>1, <2>4, <2>5, <2>6 DEF GpioInv, CleanInv
  <2>. QED
    BY <2>2, <2>3, <2>7 DEF GpioInv
<1>3. CASE Fail
  BY <1>3, RaiseKeepsInv DEF Fail
<1>4. CASE Disconnect
  <2>1. /\ command' = command /\ steps' = steps /\ overlay' = overlay
        /\ gpio' = gpio /\ cut' = cut /\ exitCode' = 255
    BY <1>4 DEF Disconnect
  <2>2. StepsInv'
    BY <2>1 DEF GpioInv, StepsInv
  <2>3. ClaimInv'
    BY <2>1 DEF GpioInv, ClaimInv
  <2>4. CleanInv'
    BY <2>1 DEF CleanInv, Counts
  <2>. QED
    BY <2>2, <2>3, <2>4 DEF GpioInv
<1>5. CASE export_gpio
  <2>1. steps # <<>> /\ Head(steps).op = "export"
    BY <1>5 DEF export_gpio, At
  <2>2. gpio[Here] \in Level
    BY <1>0, <2>1 DEF LineOps
  <2>3. Goes("in") \/ Goes(gpio[Here])
    BY <1>5 DEF export_gpio
  <2>. QED
    BY <2>1, <2>2, <2>3, GoesKeepsInv DEF LineOps, Level
<1>6. CASE unexport_gpio
  <2>1. steps # <<>> /\ Head(steps).op = "unexport" /\ Goes("free")
    BY <1>6 DEF unexport_gpio, At
  <2>. QED
    BY <2>1, GoesKeepsInv DEF LineOps, Level
<1>7. CASE set_direction
  <2>1. /\ steps # <<>>
        /\ \/ Head(steps).op = "out" /\ Goes("low")
           \/ Head(steps).op = "in" /\ Goes("in")
    BY <1>7 DEF set_direction, At
  <2>. QED
    BY <2>1, GoesKeepsInv DEF LineOps, Level
<1>8. CASE set_value
  <2>1. /\ steps # <<>>
        /\ \/ Head(steps).op = "low" /\ Goes("low")
           \/ Head(steps).op = "high" /\ Goes("high")
    BY <1>8 DEF set_value, At
  <2>. QED
    BY <2>1, GoesKeepsInv DEF LineOps, Level
<1>9. CASE apply_overlay
  <2>1. steps # <<>> /\ Head(steps).op = "apply" /\ UNCHANGED <<command, gpio>>
    BY <1>9 DEF apply_overlay, At
  <2>2. CASE steps' = Tail(steps) /\ UNCHANGED <<exitCode, cut>>
             /\ overlay' = IF overlay = "none" THEN "applied" ELSE overlay
    BY <2>1, <2>2, OverlayStepKeepsInv
  <2>3. CASE Undo /\ Raise
    BY <2>1, <2>3, RaiseKeepsInv DEF Undo
  <2>. QED
    BY <1>9, <2>2, <2>3 DEF apply_overlay
<1>10. CASE Killed
  <2>1. /\ steps # <<>> /\ overlay' = "empty" /\ cut' /\ Raise
        /\ UNCHANGED <<command, gpio>>
    BY <1>10 DEF Killed, At
  <2>. QED
    BY <2>1, RaiseKeepsInv
<1>11. CASE remove_overlay
  BY <1>11, OverlayStepKeepsInv DEF remove_overlay, At
<1>12. CASE UNCHANGED gpioVars
  BY <1>12 DEF gpioVars, GpioInv, StepsInv, ClaimInv, CleanInv, Counts,
       LineDone, OverlayDone, Given
<1>. QED
  BY <1>1, <1>2, <1>3, <1>4, <1>5, <1>6, <1>7, <1>8, <1>9, <1>10, <1>11, <1>12
     DEF GpioNext

LEMMA GpioStart == GpioInit => GpioInv
<1>1. InPlace(<<>>) /\ Len(<<>>) = 0
  BY DEF InPlace
<1>2. GpioInit => StepsInv
  BY <1>1 DEF GpioInit, StepsInv, Level
<1>3. GpioInit => ClaimInv
  BY <1>1 DEF GpioInit, ClaimInv
<1>4. GpioInit => CleanInv
  BY DEF GpioInit, CleanInv, Counts
<1>. QED
  BY <1>2, <1>3, <1>4 DEF GpioInv

LEMMA GpioAlways == GpioSpec => []GpioInv
<1>1. GpioInit => GpioInv
  BY GpioStart
<1>2. GpioInv /\ [GpioNext]_gpioVars => GpioInv'
  BY GpioStep, GpioAssumption
<1>. QED
  BY <1>1, <1>2, PTL DEF GpioSpec

(* Whatever failed commands before it had left, a command that is seen to  *)
(* end with 0 leaves the lines of its mezzanines and the overlay as its    *)
(* options say.                                                            *)
THEOREM GpioIsClean == GpioSpec => []ZeroIsClean
<1>1. GpioInv => ZeroIsClean
  BY InvIsClean
<1>. QED
  BY <1>1, GpioAlways, PTL

(* A line that is free is claimed by a write that only an overlay precedes *)
(* in its command; one that was applied is removed by the last write.      *)
LEMMA ClaimStep ==
  ASSUME GpioInv, GpioNext, NEW l \in GpioLine, gpio[l] = "free", gpio'[l] # "free"
  PROVE  overlay = "applied" \/ cut
<1>1. /\ steps # <<>> /\ Head(steps).op \in ClaimOps
  <2>1. Start \/ End \/ Fail \/ Disconnect \/ apply_overlay \/ Killed \/ remove_overlay
          => gpio' = gpio
    BY DEF Start, End, Fail, Disconnect, apply_overlay, Killed, remove_overlay
  <2>2. unexport_gpio => gpio'[l] = "free"
    BY DEF unexport_gpio, Goes, GpioInv, StepsInv
  <2>3. export_gpio \/ set_direction \/ set_value
    BY <2>1, <2>2 DEF GpioNext
  <2>. QED
    BY <2>3 DEF export_gpio, set_direction, set_value, At, ClaimOps
<1>2. InPlace(steps)
  BY DEF GpioInv, StepsInv
<1>3. Len(steps) \in Nat /\ Len(steps) >= 1 /\ Head(steps) = steps[1]
  BY <1>1, <1>2, TailFacts
<1>4. ~Applies(steps)
  BY <1>1, <1>3 DEF Applies, ClaimOps
<1>5. \E j \in 1..Len(steps) : steps[j].op \in ClaimOps
  BY <1>1, <1>3
<1>. QED
  BY <1>4, <1>5 DEF GpioInv, ClaimInv

(* No line is claimed while the controllers on its pins are enabled, but   *)
(* after an overlay was left empty against the will of the code.           *)
THEOREM GpioClaims == GpioSpec => ClaimsUnderOverlay
<1>1. GpioInv /\ [GpioNext]_gpioVars =>
        [\A l \in GpioLine : gpio[l] = "free" /\ gpio'[l] # "free" =>
           overlay = "applied" \/ cut]_gpioVars
  BY ClaimStep
<1>. QED
  BY <1>1, GpioAlways, PTL DEF GpioSpec, ClaimsUnderOverlay

(***************************************************************************)
(*                 The systems of a board, in one specification            *)
(***************************************************************************)
(* Any step of the systems together is, for each of them, a step of it or  *)
(* leaves all that it is about.                                            *)
LEMMA EachSteps ==
  [AllNext]_allVars =>
    /\ [Next]_vars /\ [RunNext]_runVars /\ [ClockNext]_clockVars
    /\ [DevmemStep]_devmemVars /\ [GpioNext]_gpioVars
BY DEF AllNext, OnlyAlign, OnlyRun, OnlyClock, OnlyDevmem, OnlyGpio, Ended, allVars

LEMMA EachStarts == AllInit => Init /\ RunInit /\ ClockInit /\ DevmemInit /\ GpioInit
BY DEF AllInit, AlignOff, RunOff, ClockOff

(* Whichever of the systems of a board runs, what the two scripts report   *)
(* is what they have left on it: the summary of align_all_afes.py names    *)
(* the settings in the registers, and a command for the SPI pins that ends *)
(* with 0 has left its lines and the overlay as its options say.           *)
THEOREM ScriptReportsTrue == AllSpec => []ScriptReportsAreTrue
<1> DEFINE Both == DmInv /\ GpioInv
<1>1. AllInit => Both
  BY EachStarts, DmInitInv, GpioStart
<1>2. Both /\ [AllNext]_allVars => Both'
  BY EachSteps, DmStepInv, GpioStep, GpioAssumption
<1>3. Both => ScriptReportsAreTrue
  BY InvIsClean DEF ScriptReportsAreTrue, DmInv, ResultsTold, Told, SummaryIsTrue, DmTap
<1> QED  BY <1>1, <1>2, <1>3, PTL DEF AllSpec

(* The same of the alignment, the search and the clocks: what is proved of *)
(* each alone holds of the bring-up as a whole.                            *)
THEOREM BringUpIsTrue ==
  AllSpec => [](AlignedIsVerified /\ ReturnsFirstLongestRun /\ ClockIsConfigured)
<1> DEFINE All == AlignInv /\ RunInv /\ ClockInv
<1>1. AllInit => All
  BY EachStarts, AlignInitInv, RunInitInv, ClockInitInv
<1>2. All /\ [AllNext]_allVars => All'
  <2>1. AlignInv /\ [Next]_vars => AlignInv'
    BY TypeStep, CountStep, DoneStep, AnswerStep DEF AlignInv
  <2> QED  BY <2>1, EachSteps, RunStepInv, ClockStepInv
<1>3. All => AlignedIsVerified /\ ReturnsFirstLongestRun /\ ClockIsConfigured
  BY DEF AlignInv, RunInv, ClockInv, ClockIsConfigured
<1> QED  BY <1>1, <1>2, <1>3, PTL DEF AllSpec
=============================================================================
