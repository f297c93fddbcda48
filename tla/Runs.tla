-------------------------------- MODULE Runs --------------------------------
(***************************************************************************)
(* Runs of equal words in a vector v[0] .. v[n - 1]: what                  *)
(* longestIdenticalSubsequenceIndices is meant to find.                    *)
(***************************************************************************)
EXTENDS Integers

(* The words at the indices s to e are all equal.                          *)
IsRun(v, s, e) == \A j \in s..e : v[j] = v[s]

(* s to e is a run, no other run is longer, and it starts before every     *)
(* other of its length.                                                    *)
IsFirstLongestRun(v, n, s, e) ==
  /\ s \in 0..(n - 1) /\ e \in s..(n - 1)
  /\ IsRun(v, s, e)
  /\ \A t \in 0..(n - 1) : \A f \in t..(n - 1) :
       IsRun(v, t, f) => /\ f - t <= e - s
                         /\ f - t = e - s => s <= t
=============================================================================
