----------------------------- MODULE LongestRun -----------------------------
(***************************************************************************)
(* Daphne::longestIdenticalSubsequenceIndices, one loop iteration a step:  *)
(* given the frame-clock words read at every delay tap it returns the      *)
(* first and last index of a longest run of equal words.                   *)
(***************************************************************************)
EXTENDS Runs

CONSTANTS
  MaxTaps,   \* longest vector given, 512 in alignAFE
  RunWords   \* frame-clock words

ASSUME TapsAssumption == MaxTaps \in Nat

VARIABLES
  size, nums,         \* the argument: nums[0] .. nums[size - 1]
  i,                  \* the loop variable
  maxLength, maxStartIndex, currentLength, currentStartIndex,
  result              \* what was returned: Running, NoResult or a pair

runVars == <<size, nums, i, maxLength, maxStartIndex, currentLength,
             currentStartIndex, result>>

Running == <<"running">>
NoResult == <<"nullopt">>

-----------------------------------------------------------------------------
RunInit ==
  /\ size \in 0..MaxTaps
  /\ nums \in [0..(size - 1) -> RunWords]
  /\ i = 1
  /\ maxLength = 1 /\ maxStartIndex = 0
  /\ currentLength = 1 /\ currentStartIndex = 0
  /\ result = Running

EmptyVector ==
  /\ result = Running /\ size = 0
  /\ result' = NoResult
  /\ UNCHANGED <<size, nums, i, maxLength, maxStartIndex, currentLength,
                 currentStartIndex>>

Extend ==
  /\ result = Running /\ i < size
  /\ nums[i] = nums[i - 1]
  /\ currentLength' = currentLength + 1
  /\ i' = i + 1
  /\ UNCHANGED <<size, nums, maxLength, maxStartIndex, currentStartIndex,
                 result>>

(* Mutant: a later run of the same length replaces the first.              *)
KeepLonger_Last ==
  IF currentLength >= maxLength
  THEN maxLength' = currentLength /\ maxStartIndex' = currentStartIndex
  ELSE UNCHANGED <<maxLength, maxStartIndex>>

KeepLonger ==
  IF currentLength > maxLength
  THEN maxLength' = currentLength /\ maxStartIndex' = currentStartIndex
  ELSE UNCHANGED <<maxLength, maxStartIndex>>

Break ==
  /\ result = Running /\ i < size
  /\ nums[i] # nums[i - 1]
  /\ KeepLonger
  /\ currentLength' = 1
  /\ currentStartIndex' = i
  /\ i' = i + 1
  /\ UNCHANGED <<size, nums, result>>

Return ==
  /\ result = Running /\ size > 0 /\ i >= size
  /\ KeepLonger
  /\ result' = <<maxStartIndex', maxStartIndex' + maxLength' - 1>>
  /\ UNCHANGED <<size, nums, i, currentLength, currentStartIndex>>

RunNext == EmptyVector \/ Extend \/ Break \/ Return

RunSpec == RunInit /\ [][RunNext]_runVars

-----------------------------------------------------------------------------
(* The indices returned are those of the first longest run of equal words, *)
(* and nothing is returned only for no words: setBestDelay centres the     *)
(* delay in what this returns.                                             *)
ReturnsFirstLongestRun ==
  result # Running =>
    IF size = 0 THEN result = NoResult
    ELSE IsFirstLongestRun(nums, size, result[1], result[2])
=============================================================================
