------------------------------ MODULE LedProof ------------------------------
(***************************************************************************)
(* Proofs about the LED programs: the charge windows of ChargeWindow, the  *)
(* scans of LedScan with the commands of SspPulser, and the pool of fits   *)
(* of FitPool.                                                             *)
(***************************************************************************)
EXTENDS LedScan, ChargeWindow, FitPool, WellFoundedInduction, FiniteSetTheorems, TLAPS

(* A set of naturals has a least element.                                  *)
LEMMA LeastOf ==
  ASSUME NEW S \in SUBSET Nat, S # {}
  PROVE \E x \in S : \A y \in S : x <= y
<1> DEFINE R == OpToRel(<, Nat)
<1>1. PICK x \in S : \A y \in S : ~(<<y, x>> \in R)
  <2>1. IsWellFoundedOn(R, Nat)
    BY NatLessThanWellFounded
  <2> HIDE DEF R
  <2> QED BY <2>1, WFMin
<1>2. R = {ss \in Nat \X Nat : ss[1] < ss[2]}
  BY Zenon DEF OpToRel
<1> HIDE DEF R
<1>3. ASSUME NEW y \in S PROVE x <= y
  <2>1. <<y, x>> \in Nat \X Nat /\ <<y, x>>[1] = y /\ <<y, x>>[2] = x
    OBVIOUS
  <2>2. ~(y < x)
    BY <1>1, <1>2, <2>1, Zenon
  <2> QED BY <2>2
<1> QED BY <1>3

(* The least of some samples, as np.argmax and the searches return it.     *)
LEMMA MinFacts ==
  ASSUME NEW S \in SUBSET Nat, S # {}
  PROVE Min(S) \in S /\ \A y \in S : Min(S) <= y
<1>1. \E x \in S : \A y \in S : x =< y
  BY LeastOf
<1> QED BY <1>1 DEF Min

(* A signal has a largest value on any samples.                            *)
LEMMA LargestOf ==
  ASSUME NEW f \in [Sample -> Int], NEW S \in SUBSET Sample, S # {}
  PROVE \E j \in S : \A h \in S : f[h] <= f[j]
<1> DEFINE Has(T) == \E j \in T : \A h \in T : f[h] <= f[j]
           Bad == {n \in 0..N : \E T \in SUBSET (0..(n - 1)) : T # {} /\ ~Has(T)}
<1>0. N \in Nat /\ Sample = 0..(N - 1)
  BY WindowAssumption DEF Sample
<1>1. Bad = {}
  <2> SUFFICES ASSUME Bad # {} PROVE FALSE
    OBVIOUS
  <2>1. PICK n \in Bad : \A m \in Bad : n <= m
    <3>1. Bad \in SUBSET Nat
      BY <1>0
    <3> HIDE DEF Bad
    <3> QED BY <3>1, LeastOf
  <2>2. n \in 0..N
    OBVIOUS
  <2>3. PICK T \in SUBSET (0..(n - 1)) : T # {} /\ ~Has(T)
    OBVIOUS
  <2>4. n \in Nat /\ n >= 1
    <3>1. PICK e \in T : e \in 0..(n - 1)
      BY <2>3
    <3> QED BY <3>1, <2>2, <1>0
  <2>5. n - 1 \in 0..N /\ n - 1 \notin Bad
    <3>1. n - 1 \in 0..N /\ ~(n <= n - 1)
      BY <2>2, <2>4, <1>0
    <3> HIDE DEF Bad
    <3> QED BY <3>1, <2>1
  <2>6. \A U \in SUBSET (0..((n - 1) - 1)) : U # {} => Has(U)
    BY <2>5
  <2> DEFINE U == T \ {n - 1}
  <2>7. U \in SUBSET (0..((n - 1) - 1))
    BY <2>4
  <2>8. \A h \in T : h \in Sample /\ f[h] \in Int
    BY <2>2, <2>4, <1>0
  <2>9. CASE U = {}
    <3>1. \A h \in T : h = n - 1
      BY <2>9
    <3>2. n - 1 \in T /\ f[n - 1] \in Int
      BY <3>1, <2>3, <2>8
    <3>3. \A h \in T : f[h] <= f[n - 1]
      BY <3>1, <3>2
    <3> QED BY <3>2, <3>3, <2>3
  <2>10. CASE U # {}
    <3>1. Has(U)
      <4> HIDE DEF U, Has
      <4> QED BY <2>6, <2>7, <2>10
    <3>2. PICK j \in U : \A h \in U : f[h] <= f[j]
      BY <3>1
    <3>3. CASE n - 1 \notin T
      <4>1. T = U
        BY <3>3
      <4> QED BY <4>1, <3>1, <2>3
    <3>4. CASE n - 1 \in T /\ f[n - 1] <= f[j]
      <4>1. j \in T /\ \A h \in T : f[h] <= f[j]
        BY <3>2, <3>4
      <4> QED BY <4>1, <2>3
    <3>5. CASE n - 1 \in T /\ ~(f[n - 1] <= f[j])
      <4>1. \A h \in T : f[h] <= f[n - 1]
        <5> SUFFICES ASSUME NEW h \in T PROVE f[h] <= f[n - 1]
          OBVIOUS
        <5>1. f[h] \in Int /\ f[n - 1] \in Int /\ f[j] \in Int
          BY <2>8, <3>2, <3>5
        <5>2. CASE h = n - 1
          BY <5>1, <5>2
        <5>3. CASE h # n - 1
          BY <5>1, <5>3, <3>2, <3>5
        <5> QED BY <5>2, <5>3
      <4> QED BY <4>1, <3>5, <2>3
    <3> QED BY <3>3, <3>4, <3>5
  <2> QED BY <2>9, <2>10
<1>2. N \notin Bad
  BY <1>1
<1>3. N \in 0..N /\ S \in SUBSET (0..(N - 1))
  BY <1>0
<1> QED BY <1>2, <1>3

(* The peak of a signal.                                                   *)
LEMMA PeakFacts ==
  ASSUME NEW f \in [Sample -> Int], NEW S \in SUBSET Sample, S # {}
  PROVE Peak(f, S) \in S /\ \A h \in S : f[h] <= f[Peak(f, S)]
<1> DEFINE T == {j \in S : \A h \in S : f[h] <= f[j]}
<1>1. T # {}
  BY LargestOf
<1>2. T \in SUBSET Nat
  <2>1. Sample \subseteq Nat
    BY WindowAssumption DEF Sample
  <2> QED BY <2>1
<1>3. Peak(f, S) = Min(T)
  BY DEF Peak
<1>4. Min(T) \in T
  <2> HIDE DEF T
  <2> QED BY <1>1, <1>2, MinFacts
<1> QED BY <1>3, <1>4

(* Half of a positive peak is reached, at the peak if not before.          *)
LEMMA OnsetFacts ==
  ASSUME NEW f \in [Sample -> Int], NEW S \in SUBSET Sample, S # {},
         f[Peak(f, S)] > 0
  PROVE Onset(f, S) \in S
<1> DEFINE p == Peak(f, S)
           T == {j \in S : 2 * f[j] >= f[p]}
<1>1. p \in S /\ f[p] \in Int /\ f[p] > 0
  BY PeakFacts
<1> HIDE DEF p
<1>2. p \in T
  BY <1>1
<1>3. T \in SUBSET Nat
  <2>1. Sample \subseteq Nat
    BY WindowAssumption DEF Sample
  <2> QED BY <2>1
<1>4. Onset(f, S) = Min(T)
  BY DEF Onset, p
<1>5. Min(T) \in T
  <2> HIDE DEF T
  <2> QED BY <1>2, <1>3, MinFacts
<1> QED BY <1>4, <1>5

(* The sums of a waveform exist: the recursion of Total has a solution.    *)
LEMMA TotalFacts ==
  ASSUME NEW wf \in [Sample -> Int]
  PROVE \A n \in 0..N : Total(wf)[n] \in Int
<1> DEFINE Sums(f, n) == f[0] = 0 /\ \A m \in 1..n : f[m] = f[m - 1] + wf[m - 1]
           Bad == {n \in 0..N : ~\E f \in [0..n -> Int] : Sums(f, n)}
<1>1. N \in Nat /\ \A n \in 1..N : wf[n - 1] \in Int
  BY WindowAssumption DEF Sample
<1>2. Bad = {}
  <2> SUFFICES ASSUME Bad # {} PROVE FALSE
    OBVIOUS
  <2>1. PICK x \in Bad : \A y \in Bad : x <= y
    <3>1. Bad \in SUBSET Nat
      BY <1>1
    <3> HIDE DEF Bad
    <3> QED BY <3>1, LeastOf
  <2>2. x \in 0..N /\ ~\E f \in [0..x -> Int] : Sums(f, x)
    OBVIOUS
  <2>3. x # 0
    <3>1. ASSUME x = 0 PROVE FALSE
      <4> DEFINE f == [m \in 0..0 |-> 0]
      <4>1. f \in [0..x -> Int] /\ Sums(f, x)
        BY <3>1
      <4> QED BY <2>2, <4>1
    <3> QED BY <3>1
  <2>4. x - 1 \in 0..N /\ x - 1 \notin Bad
    <3>1. x - 1 \in 0..N /\ ~(x <= x - 1)
      BY <1>1, <2>2, <2>3
    <3> HIDE DEF Bad
    <3> QED BY <2>1, <3>1
  <2>5. PICK f \in [0..(x - 1) -> Int] : Sums(f, x - 1)
    BY <2>4
  <2> DEFINE last == f[x - 1] + wf[x - 1]
             g == [m \in 0..x |-> IF m = x THEN last ELSE f[m]]
  <2>6. x \in Nat /\ x >= 1 /\ wf[x - 1] \in Int /\ f[x - 1] \in Int /\ last \in Int
    BY <1>1, <2>2, <2>3, <2>5
  <2>7. g \in [0..x -> Int]
    BY <2>5, <2>6
  <2>8. g[x] = f[x - 1] + wf[x - 1] /\ \A m \in 0..(x - 1) : g[m] = f[m]
    BY <2>6
  <2> HIDE DEF g
  <2>9. g[0] = 0
    BY <2>5, <2>6, <2>8
  <2>10. ASSUME NEW m \in 1..x PROVE g[m] = g[m - 1] + wf[m - 1]
    <3>1. m - 1 \in 0..(x - 1)
      BY <2>6
    <3>2. CASE m = x
      BY <2>8, <3>1, <3>2
    <3>3. CASE m # x
      <4>1. m \in 1..(x - 1) /\ m \in 0..(x - 1)
        BY <2>6, <3>3
      <4> QED BY <2>5, <2>8, <3>1, <4>1
    <3> QED BY <3>2, <3>3
  <2> QED BY <2>2, <2>7, <2>9, <2>10
<1>3. PICK f \in [0..N -> Int] : Sums(f, N)
  <2>1. N \in 0..N /\ N \notin Bad
    <3> HIDE DEF Bad
    <3> QED BY <1>1, <1>2
  <2> QED BY <2>1
<1> DEFINE Solves(h) == h = [n \in 0..N |-> IF n = 0 THEN 0 ELSE h[n - 1] + wf[n - 1]]
<1>4. Solves(f)
  <2>1. \A n \in 0..N : f[n] = IF n = 0 THEN 0 ELSE f[n - 1] + wf[n - 1]
    BY <1>1, <1>3
  <2> QED BY <2>1
<1>5. Solves(Total(wf))
  BY <1>4, Zenon DEF Total
<1> DEFINE T == Total(wf)
           Odd == {n \in 0..N : T[n] \notin Int}
<1>6. T[0] = 0 /\ \A n \in 1..N : T[n] = T[n - 1] + wf[n - 1]
  <2> HIDE DEF T
  <2>1. T = [n \in 0..N |-> IF n = 0 THEN 0 ELSE T[n - 1] + wf[n - 1]]
    BY <1>5 DEF T
  <2>2. \A n \in 0..N : T[n] = IF n = 0 THEN 0 ELSE T[n - 1] + wf[n - 1]
    BY <2>1
  <2> QED BY <2>2, <1>1
<1> HIDE DEF T
<1>7. Odd = {}
  <2> SUFFICES ASSUME Odd # {} PROVE FALSE
    OBVIOUS
  <2>1. PICK x \in Odd : \A y \in Odd : x <= y
    <3>1. Odd \in SUBSET Nat
      BY <1>1
    <3> HIDE DEF Odd
    <3> QED BY <3>1, LeastOf
  <2>2. x \in 0..N /\ T[x] \notin Int
    OBVIOUS
  <2>3. x # 0
    BY <1>6, <2>2
  <2>4. x \in 1..N /\ x - 1 \in 0..N /\ ~(x <= x - 1)
    BY <1>1, <2>2, <2>3
  <2>5. x - 1 \notin Odd
    <3> HIDE DEF Odd
    <3> QED BY <2>1, <2>4
  <2>6. T[x - 1] \in Int
    BY <2>4, <2>5
  <2>7. wf[x - 1] \in Int /\ T[x] = T[x - 1] + wf[x - 1]
    BY <1>1, <1>6, <2>4
  <2>8. T[x] \in Int
    BY <2>6, <2>7
  <2> QED BY <2>2, <2>8
<1> QED BY <1>7 DEF T

(* The walk to the left exists: from each sample it ends at the last one   *)
(* that is not above the threshold, or at lo.                              *)
LEMMA LeftExists ==
  ASSUME NEW sig, NEW t, NEW lo \in Sample
  PROVE \A j \in Sample : Left(sig, t, lo)[j] =
          IF j > lo /\ sig[j] > t THEN Left(sig, t, lo)[j - 1] ELSE j
<1> DEFINE W(j) == {h \in lo..j : h = lo \/ ~(sig[h] > t)}
           f == [j \in Sample |-> IF j < lo THEN j ELSE Max(W(j))]
           Solves(w) == w = [j \in Sample |-> IF j > lo /\ sig[j] > t THEN w[j - 1] ELSE j]
<1>0. N \in Nat /\ Sample = 0..(N - 1) /\ lo \in Nat
  BY WindowAssumption DEF Sample
<1>1. ASSUME NEW j \in Sample
      PROVE f[j] = IF j > lo /\ sig[j] > t THEN f[j - 1] ELSE j
  <2>1. CASE j < lo
    BY <2>1, <1>0
  <2>2. CASE j = lo
    <3>1. W(j) = {j}
      BY <2>2, <1>0
    <3>2. Max({j}) = j
      BY <1>0 DEF Max
    <3>3. f[j] = Max(W(j)) /\ ~(j > lo)
      BY <2>2, <1>0
    <3> QED BY <3>1, <3>2, <3>3
  <2>3. CASE j > lo /\ sig[j] > t
    <3>1. W(j) = W(j - 1)
      <4>1. \A h : h \in W(j) => h \in W(j - 1)
        BY <2>3, <1>0
      <4>2. \A h : h \in W(j - 1) => h \in W(j)
        BY <2>3, <1>0
      <4> HIDE DEF W
      <4> QED BY <4>1, <4>2
    <3>2. j - 1 \in Sample /\ ~(j - 1 < lo) /\ ~(j < lo)
      BY <2>3, <1>0
    <3> HIDE DEF W
    <3> QED BY <3>1, <3>2, <2>3
  <2>4. CASE j > lo /\ ~(sig[j] > t)
    <3>1. j \in W(j) /\ \A h \in W(j) : h \in Int /\ j >= h
      BY <2>4, <1>0
    <3>2. f[j] = Max(W(j))
      BY <2>4, <1>0
    <3> HIDE DEF W
    <3>3. Max(W(j)) = j
      <4>1. Max(W(j)) \in W(j) /\ \A h \in W(j) : Max(W(j)) >= h
        BY <3>1 DEF Max
      <4> QED BY <3>1, <4>1, <1>0
    <3> QED BY <3>2, <3>3, <2>4
  <2> QED BY <2>1, <2>2, <2>3, <2>4, <1>0
<1>2. Solves(f)
  <2>1. f = [j \in Sample |-> f[j]]
    OBVIOUS
  <2> HIDE DEF f
  <2> QED BY <1>1, <2>1
<1>3. Solves(Left(sig, t, lo))
  <2> HIDE DEF f
  <2> QED BY <1>2, Zenon DEF Left
<1> DEFINE w == Left(sig, t, lo)
<1>4. w = [j \in Sample |-> IF j > lo /\ sig[j] > t THEN w[j - 1] ELSE j]
  BY <1>3
<1> HIDE DEF w
<1>5. \A j \in Sample : w[j] = IF j > lo /\ sig[j] > t THEN w[j - 1] ELSE j
  BY <1>4
<1> QED BY <1>5 DEF w

(* What the walk to the left passes over and where it stops.               *)
LEMMA LeftFacts ==
  ASSUME NEW sig \in [Sample -> Int], NEW t \in Int, NEW lo \in Sample, NEW w,
         w = Left(sig, t, lo)
  PROVE \A p \in Sample : p >= lo =>
          /\ w[p] \in lo..p
          /\ \A j \in Sample : w[p] < j /\ j <= p => sig[j] > t
          /\ w[p] = lo \/ sig[w[p]] <= t
<1> DEFINE Good(p) == /\ w[p] \in lo..p
                      /\ \A j \in Sample : w[p] < j /\ j <= p => sig[j] > t
                      /\ w[p] = lo \/ sig[w[p]] <= t
           Bad == {p \in Sample : p >= lo /\ ~Good(p)}
<1>0. N \in Nat /\ Sample = 0..(N - 1) /\ lo \in Nat
  BY WindowAssumption DEF Sample
<1>1. \A j \in Sample : w[j] = IF j > lo /\ sig[j] > t THEN w[j - 1] ELSE j
  BY LeftExists
<1> SUFFICES ASSUME Bad # {} PROVE FALSE
  OBVIOUS
<1>2. PICK p \in Bad : \A q \in Bad : p <= q
  <2>1. Bad \in SUBSET Nat
    BY <1>0
  <2> HIDE DEF Bad
  <2> QED BY <2>1, LeastOf
<1>3. p \in Sample /\ p >= lo /\ ~Good(p) /\ p \in Nat /\ sig[p] \in Int
  BY <1>0
<1>4. CASE p > lo /\ sig[p] > t
  <2>1. w[p] = w[p - 1]
    BY <1>1, <1>3, <1>4
  <2>2. p - 1 \in Sample /\ p - 1 >= lo /\ ~(p <= p - 1)
    BY <1>0, <1>3, <1>4
  <2>3. p - 1 \notin Bad
    <3> HIDE DEF Bad
    <3> QED BY <1>2, <2>2
  <2>4. Good(p - 1)
    BY <2>2, <2>3
  <2>5. w[p] \in lo..p
    BY <2>1, <2>4, <1>0, <1>3
  <2>6. \A j \in Sample : w[p] < j /\ j <= p => sig[j] > t
    <3> SUFFICES ASSUME NEW j \in Sample, w[p] < j, j <= p PROVE sig[j] > t
      OBVIOUS
    <3>1. j = p \/ j <= p - 1
      BY <1>0, <1>3
    <3> QED BY <3>1, <2>1, <2>4, <1>4
  <2> QED BY <2>1, <2>4, <2>5, <2>6, <1>3
<1>5. CASE ~(p > lo /\ sig[p] > t)
  <2>1. w[p] = p
    BY <1>1, <1>3, <1>5
  <2>2. p = lo \/ sig[p] <= t
    BY <1>0, <1>3, <1>5
  <2>3. p \in lo..p /\ \A j \in Sample : ~(p < j /\ j <= p)
    BY <1>0, <1>3
  <2> QED BY <2>1, <2>2, <2>3, <1>3
<1> QED BY <1>4, <1>5

(* The walk to the right exists and goes to the right.                     *)
LEMMA RightFacts ==
  ASSUME NEW sig, NEW t, NEW hi \in 0..N, NEW p \in 0..N
  PROVE Right(sig, t, hi)[p] \in p..N
<1> DEFINE V(j) == {h \in j..(hi - 1) : h = hi - 1 \/ ~(sig[h] > t)}
           f == [j \in 0..N |-> IF j > hi - 1 THEN j ELSE Min(V(j))]
           Solves(x) == x = [j \in 0..N |-> IF j < hi - 1 /\ sig[j] > t THEN x[j + 1] ELSE j]
<1>0. N \in Nat /\ hi \in Nat /\ hi <= N
  BY WindowAssumption
<1>1. ASSUME NEW j \in 0..N
      PROVE f[j] = IF j < hi - 1 /\ sig[j] > t THEN f[j + 1] ELSE j
  <2>1. CASE j > hi - 1
    BY <2>1, <1>0
  <2>2. CASE j = hi - 1
    <3>1. V(j) = {j}
      BY <2>2, <1>0
    <3>2. Min({j}) = j
      BY <1>0 DEF Min
    <3>3. f[j] = Min(V(j)) /\ ~(j < hi - 1)
      BY <2>2, <1>0
    <3> QED BY <3>1, <3>2, <3>3
  <2>3. CASE j < hi - 1 /\ sig[j] > t
    <3>1. V(j) = V(j + 1)
      <4>1. \A h : h \in V(j) => h \in V(j + 1)
        BY <2>3, <1>0
      <4>2. \A h : h \in V(j + 1) => h \in V(j)
        BY <2>3, <1>0
      <4> HIDE DEF V
      <4> QED BY <4>1, <4>2
    <3>2. j + 1 \in 0..N /\ ~(j + 1 > hi - 1) /\ ~(j > hi - 1)
      BY <2>3, <1>0
    <3> HIDE DEF V
    <3> QED BY <3>1, <3>2, <2>3
  <2>4. CASE j < hi - 1 /\ ~(sig[j] > t)
    <3>1. j \in V(j) /\ \A h \in V(j) : h \in Int /\ j =< h
      BY <2>4, <1>0
    <3>2. f[j] = Min(V(j))
      BY <2>4, <1>0
    <3> HIDE DEF V
    <3>3. Min(V(j)) = j
      <4>1. Min(V(j)) \in V(j) /\ \A h \in V(j) : Min(V(j)) =< h
        BY <3>1 DEF Min
      <4> QED BY <3>1, <4>1, <1>0
    <3> QED BY <3>2, <3>3, <2>4
  <2> QED BY <2>1, <2>2, <2>3, <2>4, <1>0
<1>2. Solves(f)
  <2>1. f = [j \in 0..N |-> f[j]]
    OBVIOUS
  <2> HIDE DEF f
  <2> QED BY <1>1, <2>1
<1>3. Solves(Right(sig, t, hi))
  <2> HIDE DEF f
  <2> QED BY <1>2, Zenon DEF Right
<1> DEFINE x == Right(sig, t, hi)
<1>4. x = [j \in 0..N |-> IF j < hi - 1 /\ sig[j] > t THEN x[j + 1] ELSE j]
  BY <1>3
<1> HIDE DEF x
<1>5. \A j \in 0..N : x[j] = IF j < hi - 1 /\ sig[j] > t THEN x[j + 1] ELSE j
  BY <1>4
<1> DEFINE Bad == {n \in 0..N : ~(x[N - n] \in (N - n)..N)}
<1>6. Bad = {}
  <2> SUFFICES ASSUME Bad # {} PROVE FALSE
    OBVIOUS
  <2>1. PICK n \in Bad : \A m \in Bad : n <= m
    <3>1. Bad \in SUBSET Nat
      BY <1>0
    <3> HIDE DEF Bad
    <3> QED BY <3>1, LeastOf
  <2>2. n \in 0..N /\ ~(x[N - n] \in (N - n)..N)
    OBVIOUS
  <2>3. N - n \in 0..N
    BY <2>2, <1>0
  <2>4. N - n < hi - 1 /\ x[N - n] = x[(N - n) + 1]
    <3>1. N - n \in (N - n)..N
      BY <2>3, <1>0
    <3> QED BY <1>5, <2>2, <2>3, <3>1
  <2>5. n - 1 \in 0..N /\ ~(n <= n - 1) /\ N - (n - 1) = (N - n) + 1
    BY <2>2, <2>4, <1>0
  <2>6. n - 1 \notin Bad
    <3> HIDE DEF Bad
    <3> QED BY <2>1, <2>5
  <2>7. x[N - (n - 1)] \in (N - (n - 1))..N
    BY <2>5, <2>6
  <2>8. x[N - n] \in (N - n)..N
    BY <2>4, <2>5, <2>7, <2>2, <1>0
  <2> QED BY <2>2, <2>8
<1>7. N - p \in 0..N /\ N - (N - p) = p
  BY <1>0
<1>8. N - p \notin Bad
  <2> HIDE DEF Bad
  <2> QED BY <1>6
<1>9. x[N - (N - p)] \in (N - (N - p))..N
  BY <1>7, <1>8
<1> QED BY <1>7, <1>9 DEF x

(* The two ends lie in the record and in order.                            *)
LEMMA NormalFacts ==
  ASSUME NEW b \in Int \X Int
  PROVE \E lo, hi \in 0..N : normalize_bounds(b) = <<lo, hi>> /\ lo <= hi
<1> DEFINE lo == Clamp(b[1])
           hi == Clamp(b[2])
<1>1. N \in Nat /\ b[1] \in Int /\ b[2] \in Int
  BY WindowAssumption
<1>2. lo \in 0..N /\ hi \in 0..N
  BY <1>1 DEF Clamp, Larger, Smaller
<1>3. normalize_bounds(b) = IF hi < lo THEN <<hi, lo>> ELSE <<lo, hi>>
  BY DEF normalize_bounds
<1> HIDE DEF lo, hi
<1>4. CASE hi < lo
  <2>1. hi <= lo /\ normalize_bounds(b) = <<hi, lo>>
    BY <1>2, <1>3, <1>4
  <2> QED BY <1>2, <2>1
<1>5. CASE ~(hi < lo)
  <2>1. lo <= hi /\ normalize_bounds(b) = <<lo, hi>>
    BY <1>1, <1>2, <1>3, <1>5
  <2> QED BY <1>2, <2>1
<1> QED BY <1>4, <1>5

(* What reanchoring and the pedestal need of a calibrated window.          *)
Placed(w) ==
  /\ w.base \in (0..N) \X (0..N) /\ w.base[1] < w.base[2]
  /\ w.onset \in Sample /\ w.peak \in Sample
  /\ w.start \in Int /\ w.stop \in Int
  /\ w = Window(w.base, w.onset, w.peak, w.start, w.stop)

(* The signal is an integer at every sample.                               *)
LEMMA SignalFacts ==
  ASSUME NEW wf \in [Sample -> Int], NEW base \in (0..N) \X (0..N)
  PROVE Signal(wf, base) \in [Sample -> Int]
<1> DEFINE T == Total(wf)
<1>1. base[1] \in 0..N /\ base[2] \in 0..N /\ N \in Nat
  BY WindowAssumption
<1>2. T[base[1]] \in Int /\ T[base[2]] \in Int
  BY <1>1, TotalFacts
<1>3. Signal(wf, base) = [j \in Sample |-> wf[j] * (base[2] - base[1]) - (T[base[2]] - T[base[1]])]
  BY DEF Signal
<1> HIDE DEF T
<1>4. \A j \in Sample : wf[j] * (base[2] - base[1]) - (T[base[2]] - T[base[1]]) \in Int
  BY <1>1, <1>2
<1> QED BY <1>3, <1>4

(* A calibration that does not raise places its window.                    *)
LEMMA CalibratePlaces ==
  ASSUME NEW wf \in [Sample -> Int], NEW b \in Int \X Int, NEW r \in Int \X Int,
         NEW offset \in Int, NEW len \in Int,
         Calibratable(wf, normalize_bounds(b), normalize_bounds(r), len)
  PROVE Placed(calibrate_window_from_mean(wf, normalize_bounds(b), normalize_bounds(r),
                                          offset, len))
<1> DEFINE base == normalize_bounds(b)
           S == Slice(normalize_bounds(r))
           sig == Signal(wf, base)
           onset == Onset(sig, S)
           peak == Peak(sig, S)
           start == Clamp(onset + offset)
           stop == Larger(start + 1, Smaller(N, start + len))
           w == Window(base, onset, peak, start, stop)
<1>0. N \in Nat /\ Sample = 0..(N - 1)
  BY WindowAssumption DEF Sample
<1>1. calibrate_window_from_mean(wf, base, normalize_bounds(r), offset, len) = w
  BY DEF calibrate_window_from_mean
<1>2. Slice(base) # {} /\ S # {} /\ sig[Peak(sig, S)] > 0
  BY DEF Calibratable
<1>3. S \in SUBSET Sample
  BY DEF Slice
<1>4. PICK lo, hi \in 0..N : base = <<lo, hi>> /\ lo <= hi
  BY NormalFacts
<1>5. base \in (0..N) \X (0..N) /\ base[1] = lo /\ base[2] = hi
  BY <1>4
<1>6. lo < hi
  <2>1. PICK j \in Sample : base[1] <= j /\ j < base[2]
    BY <1>2 DEF Slice
  <2> HIDE DEF base
  <2> QED BY <2>1, <1>5, <1>0
<1>7. sig \in [Sample -> Int]
  <2> HIDE DEF base
  <2> QED BY <1>5, SignalFacts
<1>8. peak \in Sample /\ onset \in Sample
  <2> HIDE DEF sig, S
  <2>1. peak \in S
    BY <1>2, <1>3, <1>7, PeakFacts
  <2>2. onset \in S
    BY <1>2, <1>3, <1>7, OnsetFacts
  <2> QED BY <1>3, <2>1, <2>2
<1> HIDE DEF base, sig, S, onset, peak
<1>9. start \in Int /\ stop \in Int
  BY <1>0, <1>8 DEF Clamp, Larger, Smaller
<1> HIDE DEF start, stop
<1>10. /\ w.base = base /\ w.onset = onset /\ w.peak = peak
       /\ w.start = start /\ w.stop = stop
  BY DEF Window
<1> HIDE DEF w
<1>11. w = Window(w.base, w.onset, w.peak, w.start, w.stop)
  BY <1>10 DEF w
<1>12. Placed(w)
  BY <1>5, <1>6, <1>8, <1>9, <1>10, <1>11 DEF Placed
<1> QED BY <1>1, <1>12 DEF base

(* Where reanchoring puts a window.                                        *)
LEMMA ReanchorPlaces ==
  ASSUME NEW w, Placed(w), NEW a, NEW pre \in Int, NEW post \in Int, NEW x,
         x = reanchor_charge_window(w, a, pre, post)
  PROVE /\ Placed(x) /\ AnchorOf(x, a) \in Sample
        /\ x.start >= 0 /\ x.start <= AnchorOf(x, a)
        /\ AnchorOf(x, a) < x.stop /\ x.stop <= N
<1> DEFINE at == AnchorOf(w, a)
           start == Clamp(at - Larger(0, pre))
           stop == Larger(start + 1, Smaller(N, at + Larger(1, post)))
<1>0. N \in Nat /\ Sample = 0..(N - 1)
  BY WindowAssumption DEF Sample
<1>1. at \in Sample
  BY DEF AnchorOf, Placed
<1>2. x = [w EXCEPT !.start = start, !.stop = stop]
  BY DEF reanchor_charge_window
<1> HIDE DEF at
<1>3. start \in Int /\ start >= 0 /\ start <= at
  BY <1>0, <1>1 DEF Clamp, Larger, Smaller
<1> HIDE DEF start
<1>4. stop \in Int /\ at < stop /\ stop <= N
  BY <1>0, <1>1, <1>3 DEF Larger, Smaller
<1> HIDE DEF stop
<1>5. w = [base |-> w.base, onset |-> w.onset, peak |-> w.peak,
           start |-> w.start, stop |-> w.stop]
  BY DEF Placed, Window
<1>6. x = [base |-> w.base, onset |-> w.onset, peak |-> w.peak,
           start |-> start, stop |-> stop]
  BY <1>2, <1>5
<1>7. /\ x.base = w.base /\ x.onset = w.onset /\ x.peak = w.peak
      /\ x.start = start /\ x.stop = stop
  BY <1>6
<1>8. x = Window(x.base, x.onset, x.peak, x.start, x.stop)
  BY <1>6, <1>7 DEF Window
<1>9. AnchorOf(x, a) = at
  BY <1>7 DEF AnchorOf, at
<1>10. Placed(x)
  BY <1>3, <1>4, <1>7, <1>8 DEF Placed
<1> QED BY <1>1, <1>3, <1>4, <1>7, <1>9, <1>10

(* The pedestal of a window inside the record.                             *)
LEMMA PedestalFacts ==
  ASSUME NEW w, Placed(w), w.start >= 0, w.start < w.stop, w.stop <= N
  PROVE LET ped == pedestal_window_for_charge(w)
        IN /\ Slice(ped) # {}
           /\ ped[1] \in Slice(w.base)
           /\ w.base[2] - w.base[1] >= w.stop - w.start
                => /\ Slice(ped) \subseteq Slice(w.base)
                   /\ w.base[2] <= w.onset => \A j \in Slice(ped) : j < w.onset
<1> DEFINE lo == w.base[1]
           hi == w.base[2]
           n == w.stop - w.start
           from == Larger(lo, hi - n)
           ped == pedestal_window_for_charge(w)
<1>0. N \in Nat /\ Sample = 0..(N - 1)
  BY WindowAssumption DEF Sample
<1>1. lo \in 0..N /\ hi \in 0..N /\ lo < hi /\ n \in Nat /\ n >= 1
  BY <1>0 DEF Placed
<1>2. ped = <<from, Smaller(N, from + n)>>
  BY DEF pedestal_window_for_charge
<1> HIDE DEF lo, hi, n, ped
<1>3. from \in Sample /\ lo <= from /\ from < hi /\ from >= hi - n
  BY <1>0, <1>1 DEF Larger
<1>4. hi - lo >= n => from = hi - n
  BY <1>0, <1>1 DEF Larger
<1> HIDE DEF from
<1>5. ped[1] = from /\ ped[2] = Smaller(N, from + n)
  BY <1>2
<1>6. from < ped[2] /\ ped[2] \in Int
  BY <1>0, <1>1, <1>3, <1>5 DEF Smaller
<1>7. from \in Slice(ped)
  BY <1>0, <1>3, <1>5, <1>6 DEF Slice
<1>8. ped[1] \in Slice(w.base)
  BY <1>0, <1>1, <1>3, <1>5 DEF Slice, lo, hi
<1>9. ASSUME hi - lo >= n PROVE Slice(ped) \subseteq Slice(w.base)
  <2>1. ped[2] <= hi
    BY <1>0, <1>1, <1>3, <1>4, <1>5, <1>9 DEF Smaller
  <2>2. ASSUME NEW j \in Sample, ped[1] <= j, j < ped[2]
        PROVE lo <= j /\ j < hi
    BY <2>1, <2>2, <1>0, <1>1, <1>3, <1>5, <1>6
  <2> QED BY <2>2 DEF Slice, lo, hi
<1>10. ASSUME hi - lo >= n, hi <= w.onset, NEW j \in Slice(ped) PROVE j < w.onset
  <2>1. j \in Slice(w.base)
    BY <1>9, <1>10
  <2>2. j \in Sample /\ j < hi
    BY <2>1 DEF Slice, hi
  <2>3. w.onset \in Sample
    BY DEF Placed
  <2> QED BY <2>2, <2>3, <1>0, <1>1, <1>10
<1> QED BY <1>7, <1>8, <1>9, <1>10 DEF ped, lo, hi, n

(* The search window of the reanalysis holds two samples at least.         *)
LEMMA SearchFacts ==
  ASSUME NEW r \in Int \X Int, NEW s, s = SearchOf(r)
  PROVE /\ s[1] \in 0..(N - 2) /\ s[2] \in 0..N /\ s[1] + 2 <= s[2]
        /\ s[1] \in Slice(s)
<1> DEFINE lo == Larger(0, Smaller(N - 2, r[1]))
           hi == Larger(lo + 2, Smaller(N, r[2]))
<1>0. N \in Nat /\ N >= 2 /\ Sample = 0..(N - 1) /\ r[1] \in Int /\ r[2] \in Int
  BY WindowAssumption DEF Sample
<1>1. s = <<lo, hi>>
  BY DEF SearchOf
<1>2. lo \in 0..(N - 2)
  BY <1>0 DEF Larger, Smaller
<1> HIDE DEF lo
<1>3. hi \in 0..N /\ lo + 2 <= hi
  BY <1>0, <1>2 DEF Larger, Smaller
<1> HIDE DEF hi
<1>4. s[1] = lo /\ s[2] = hi
  BY <1>1
<1>5. lo \in Sample /\ lo <= lo /\ lo < hi
  BY <1>0, <1>2, <1>3
<1> QED BY <1>2, <1>3, <1>4, <1>5 DEF Slice

(* Where the reanalysis puts a window.                                     *)
DeriveWell(w, sig, t, r, margin, len, pre, post) ==
  /\ pre >= 0 /\ post >= 0 => w.start <= w.peak /\ w.peak <= w.stop
  /\ pre >= 0 /\ post >= 1 => w.peak \in Slice(<<w.start, w.stop>>)
  /\ \A j \in Sample : w.onset < j /\ j <= w.peak => sig[j] > t
  /\ w.onset = SearchOf(r)[1] \/ sig[w.onset] <= t
  /\ margin >= 0 /\ len >= 1 /\ pre >= 0 /\ w.onset >= MinBase
       => \A j \in Slice(pedestal_of_point(w)) : j < w.onset

LEMMA DeriveHolds ==
  ASSUME NEW sig \in [Sample -> Int], NEW t \in Int, NEW r \in Int \X Int,
         NEW margin \in Int, NEW len \in Int, NEW pre \in Int, NEW post \in Int,
         NEW w, w = derive_window_from_mean(sig, t, r, margin, len, pre, post)
  PROVE DeriveWell(w, sig, t, r, margin, len, pre, post)
<1> DEFINE s == SearchOf(r)
           peak == IF s[1] = 0 THEN 0 ELSE Peak(sig, Slice(s))
           onset == IF s[1] = 0 THEN 0 ELSE Left(sig, t, s[1])[peak]
           back == IF s[1] = 0 THEN 0 ELSE Right(sig, t, s[2])[peak]
           bstop == BaselineStop(onset, peak, margin)
           start == Larger(0, onset - pre)
           stop == StopOf(onset, back, post)
           base == <<Larger(0, bstop - len), bstop>>
           end == IF stop <= start THEN Smaller(N, start + Larger(MinLen, post)) ELSE stop
<1>0. /\ N \in Nat /\ N >= 2 /\ Sample = 0..(N - 1)
      /\ MinBase \in Nat /\ MinLen \in Nat
  BY WindowAssumption DEF Sample
<1>1. w = Window(base, onset, peak, start, end)
  BY DEF derive_window_from_mean
<1>2. s[1] \in 0..(N - 2) /\ s[2] \in 0..N /\ s[1] \in Slice(s)
  BY SearchFacts
<1>3. Slice(s) \in SUBSET Sample /\ \A j \in Slice(s) : s[1] <= j
  BY DEF Slice
<1> HIDE DEF s
<1>4. /\ peak \in Sample /\ onset \in 0..peak /\ back \in peak..N
      /\ \A j \in Sample : onset < j /\ j <= peak => sig[j] > t
      /\ onset = s[1] \/ sig[onset] <= t
  <2>1. CASE s[1] = 0
    <3>1. peak = 0 /\ onset = 0 /\ back = 0
      BY <2>1
    <3> HIDE DEF peak, onset, back
    <3> QED BY <3>1, <2>1, <1>0
  <2>2. CASE s[1] # 0
    <3>1. s[1] \in Sample
      BY <1>0, <1>2
    <3>2. peak = Peak(sig, Slice(s))
      BY <2>2
    <3> HIDE DEF peak
    <3>3. onset = Left(sig, t, s[1])[peak] /\ back = Right(sig, t, s[2])[peak]
      BY <2>2
    <3> HIDE DEF onset, back
    <3>4. peak \in Slice(s)
      <4>1. Slice(s) # {}
        BY <1>2
      <4> QED BY <4>1, <1>3, <3>2, PeakFacts
    <3>5. peak \in Sample /\ peak >= s[1] /\ peak \in 0..N
      BY <1>0, <1>2, <1>3, <3>4
    <3> DEFINE w0 == Left(sig, t, s[1])
    <3>6. /\ w0[peak] \in s[1]..peak
          /\ \A j \in Sample : w0[peak] < j /\ j <= peak => sig[j] > t
          /\ w0[peak] = s[1] \/ sig[w0[peak]] <= t
      BY <3>1, <3>5, LeftFacts
    <3>7. w0[peak] = onset
      BY <3>3
    <3> HIDE DEF w0
    <3>8. onset \in s[1]..peak
      BY <3>6, <3>7
    <3>9. onset \in 0..peak
      <4> DEFINE l == s[1]
      <4>1. l \in 0..(N - 2) /\ onset \in l..peak /\ peak \in 0..N
        BY <1>2, <3>5, <3>8
      <4> HIDE DEF l
      <4> QED BY <4>1, <1>0
    <3>10. back \in peak..N
      BY <1>2, <3>3, <3>5, RightFacts
    <3> QED BY <3>5, <3>6, <3>7, <3>9, <3>10
  <2> QED BY <2>1, <2>2
<1> HIDE DEF peak, onset, back
<1>5. /\ start \in Int /\ start >= 0
      /\ pre >= 0 => start <= onset /\ start <= peak
      /\ stop \in Int
      /\ post >= 0 => peak <= stop
      /\ post >= 1 => peak < stop
  BY <1>0, <1>4 DEF StopOf, Larger, Smaller
<1>6. /\ bstop \in Int /\ bstop >= 0
      /\ margin >= 0 /\ onset >= MinBase => bstop <= onset
  BY <1>0, <1>4 DEF BaselineStop, Larger
<1> HIDE DEF start, stop, bstop
<1> DEFINE low == Larger(0, bstop - len)
<1>7. /\ w.peak = peak /\ w.onset = onset /\ w.start = start /\ w.stop = end
      /\ w.base[1] = low /\ w.base[2] = bstop
  BY <1>1 DEF Window
<1>8. low \in Int /\ low >= 0 /\ (len >= 1 => low <= bstop)
  BY <1>6 DEF Larger
<1> HIDE DEF low, base
<1>9. /\ end \in Int
      /\ pre >= 0 => start <= end
      /\ pre >= 0 /\ post >= 0 => peak <= end
      /\ pre >= 0 /\ post >= 1 => end = stop
  BY <1>0, <1>4, <1>5 DEF Larger, Smaller
<1> HIDE DEF end
<1>10. pre >= 0 /\ post >= 0 => w.start <= w.peak /\ w.peak <= w.stop
  BY <1>5, <1>7, <1>9
<1>11. ASSUME pre >= 0, post >= 1 PROVE w.peak \in Slice(<<w.start, w.stop>>)
  <2>1. start <= peak /\ peak < stop /\ end = stop
    BY <1>5, <1>9, <1>11
  <2>2. peak \in Slice(<<start, stop>>)
    BY <1>4, <2>1 DEF Slice
  <2> QED BY <1>7, <2>1, <2>2
<1>12. ASSUME margin >= 0, len >= 1, pre >= 0, onset >= MinBase,
              NEW j \in Slice(pedestal_of_point(w))
       PROVE j < onset
  <2> DEFINE from == Larger(low, bstop - (end - start))
             ped == pedestal_of_point(w)
  <2>1. from \in Int /\ from <= bstop /\ bstop <= onset
    BY <1>5, <1>6, <1>8, <1>9, <1>12 DEF Larger
  <2>2. pedestal_of_point(w) = normalize_bounds(<<from, bstop>>)
    BY <1>7 DEF pedestal_of_point
  <2> HIDE DEF from
  <2>3. ped[2] <= bstop /\ ped[2] \in Int
    BY <1>0, <1>6, <2>1, <2>2 DEF normalize_bounds, Clamp, Larger, Smaller
  <2>4. j \in Sample /\ j < ped[2]
    BY <1>12 DEF Slice
  <2> HIDE DEF ped
  <2> QED BY <1>0, <1>4, <1>6, <2>1, <2>3, <2>4
<1>13. w.onset = SearchOf(r)[1] \/ sig[w.onset] <= t
  BY <1>4, <1>7 DEF s
<1>14. \A j \in Sample : w.onset < j /\ j <= w.peak => sig[j] > t
  BY <1>4, <1>7
<1>15. margin >= 0 /\ len >= 1 /\ pre >= 0 /\ w.onset >= MinBase
         => \A j \in Slice(pedestal_of_point(w)) : j < w.onset
  BY <1>7, <1>12
<1> QED BY <1>10, <1>11, <1>13, <1>14, <1>15 DEF DeriveWell

-----------------------------------------------------------------------------
(* The inductive invariant: the waveform and the search window are what    *)
(* was given, and a calibrated window is placed in the record.             *)
Given == /\ mean \in [Sample -> Int] /\ search \in Int \X Int

WindowInv ==
  /\ Given
  /\ wstep = "calibrated" => Placed(win)
  /\ WindowsHoldPulse

(* It holds of every waveform and search window given.                     *)
LEMMA WindowInit == SomeMean => WindowInv
<1> SUFFICES ASSUME SomeMean PROVE WindowInv
  OBVIOUS
<1>1. wstep = "mean"
  BY DEF SomeMean
<1>2. Given
  <2>1. search \in Int \X Int
    BY WindowAssumption DEF SomeMean
  <2>2. mean \in [Sample -> 0..MaxHeight] /\ 0..MaxHeight \subseteq Int
    BY WindowAssumption DEF SomeMean
  <2> QED BY <2>1, <2>2 DEF Given
<1>3. WindowsHoldPulse
  BY <1>1 DEF WindowsHoldPulse, WindowHoldsPulse, PedestalIsBaseline, DerivedHoldsPulse,
              DerivedPedestalIsBefore
<1> QED BY <1>1, <1>2, <1>3 DEF WindowInv

(* One step per function.                                                  *)
LEMMA WindowNext == WindowInv /\ [WindowStep]_winvars => WindowInv'
<1> SUFFICES ASSUME WindowInv, [WindowStep]_winvars PROVE WindowInv'
  OBVIOUS
<1> USE DEF WindowInv
<1>0. Shifts \subseteq Int /\ Bounds \subseteq Int \X Int
  BY WindowAssumption
<1>1. CASE CalibrateWindow
  <2>1. Given'
    BY <1>1 DEF CalibrateWindow, Given
  <2>2. wstep' \in {"calibrated", "raised"}
    BY <1>1 DEF CalibrateWindow
  <2>3. ASSUME wstep' = "calibrated" PROVE Placed(win')
    <3>1. PICK b \in Bounds, offset \in Shifts, len \in Shifts :
            /\ Calibratable(mean, normalize_bounds(b), normalize_bounds(search), len)
            /\ win' = calibrate_window_from_mean(mean, normalize_bounds(b),
                        normalize_bounds(search), offset, len)
      BY <1>1, <2>3 DEF CalibrateWindow
    <3>2. b \in Int \X Int /\ offset \in Int /\ len \in Int
      BY <1>0
    <3> QED BY <3>1, <3>2, CalibratePlaces DEF Given
  <2>4. WindowsHoldPulse'
    BY <2>2 DEF WindowsHoldPulse, WindowHoldsPulse, PedestalIsBaseline, DerivedHoldsPulse,
                DerivedPedestalIsBefore
  <2> QED BY <2>1, <2>3, <2>4
<1>2. CASE Reanchor
  <2>1. Given'
    BY <1>2 DEF Reanchor, Given
  <2>2. wstep = "calibrated" /\ wstep' = "reanchored" /\ Placed(win)
    BY <1>2 DEF Reanchor
  <2>3. PICK a \in {"peak", "onset"}, pre \in Shifts, post \in Shifts :
          win' = reanchor_charge_window(win, a, pre, post) /\ anchor' = a
    BY <1>2 DEF Reanchor
  <2>4. pre \in Int /\ post \in Int
    BY <1>0
  <2>5. /\ Placed(win') /\ AnchorOf(win', a) \in Sample
        /\ win'.start >= 0 /\ win'.start <= AnchorOf(win', a)
        /\ AnchorOf(win', a) < win'.stop /\ win'.stop <= N
    BY <2>2, <2>3, <2>4, ReanchorPlaces
  <2>6. AnchorOf(win', a) \in Slice(<<win'.start, win'.stop>>)
    BY <2>5 DEF Slice
  <2>7. WindowHoldsPulse'
    BY <2>3, <2>5, <2>6 DEF WindowHoldsPulse
  <2>8. win'.start < win'.stop
    <3>1. AnchorOf(win', a) \in Int /\ win'.start \in Int /\ win'.stop \in Int
      BY <2>5 DEF Placed, Sample
    <3> QED BY <2>5, <3>1
  <2>9. PedestalIsBaseline'
    BY <2>5, <2>8, PedestalFacts DEF PedestalIsBaseline, BeforePulse
  <2>10. DerivedHoldsPulse' /\ DerivedPedestalIsBefore'
    BY <2>2 DEF DerivedHoldsPulse, DerivedPedestalIsBefore
  <2> QED BY <2>1, <2>2, <2>7, <2>9, <2>10 DEF WindowsHoldPulse
<1>3. CASE Derive
  <2>1. Given' /\ mean' = mean /\ search' = search
    BY <1>3 DEF Derive, Given
  <2>2. wstep' = "derived"
    BY <1>3 DEF Derive
  <2>3. PICK t \in 0..MaxHeight, margin \in Shifts, len \in Shifts,
             pre \in Shifts, post \in Shifts :
          /\ win' = derive_window_from_mean(mean, t, search, margin, len, pre, post)
          /\ thr' = t /\ asked' = Asked(margin, len, pre, post)
    BY <1>3 DEF Derive
  <2>4. /\ t \in Int /\ margin \in Int /\ len \in Int /\ pre \in Int /\ post \in Int
        /\ asked'.margin = margin /\ asked'.len = len
        /\ asked'.pre = pre /\ asked'.post = post
    BY <1>0, <2>3, WindowAssumption DEF Asked
  <2>5. DeriveWell(win', mean, t, search, margin, len, pre, post)
    <3>1. mean \in [Sample -> Int] /\ search \in Int \X Int
      BY DEF Given
    <3> QED BY <3>1, <2>3, <2>4, DeriveHolds
  <2>6. DerivedHoldsPulse'
    BY <2>1, <2>3, <2>4, <2>5 DEF DerivedHoldsPulse, DeriveWell
  <2>7. DerivedPedestalIsBefore'
    BY <2>4, <2>5 DEF DerivedPedestalIsBefore, BeforePulse, DeriveWell
  <2>8. WindowHoldsPulse' /\ PedestalIsBaseline'
    BY <2>2 DEF WindowHoldsPulse, PedestalIsBaseline
  <2> QED BY <2>1, <2>2, <2>6, <2>7, <2>8 DEF WindowsHoldPulse
<1>4. CASE UNCHANGED winvars
  BY <1>4 DEF winvars, Given, WindowsHoldPulse, WindowHoldsPulse,
              PedestalIsBaseline, DerivedHoldsPulse, DerivedPedestalIsBefore, BeforePulse
<1> QED BY <1>1, <1>2, <1>3, <1>4 DEF WindowStep

(* Whatever the waveform, its length and the integers asked for:           *)
(* - a reanchored window holds its anchor; its pedestal starts in the      *)
(*   baseline, stays there when the baseline is as long as the window, and *)
(*   then ends before the pulse when the baseline does                     *)
(*   (calibrate_window_from_mean, reanchor_charge_window,                  *)
(*   pedestal_window_for_charge);                                          *)
(* - a derived window reaches the peak when pre and post are not negative, *)
(*   holds it when post is positive, and its pedestal ends before a pulse  *)
(*   from sample MinBase on (derive_window_from_mean, analyze_point).      *)
THEOREM WindowsHold == WindowSpec => []WindowsHoldPulse
<1>1. WindowInv => WindowsHoldPulse
  BY DEF WindowInv
<1> QED BY <1>1, WindowInit, WindowNext, PTL DEF WindowSpec
-----------------------------------------------------------------------------
(* The pulser's command.  While it runs there is no exit status, and the   *)
(* channels below k are written: as asked by a run, dark by a stop.        *)

RunSteps == {"sync", "poll", "channel", "apply"}
StopSteps == {"stop", "stopApply"}
Setting == [nm270 : Nat, nm367 : Nat]

SspInv ==
  /\ SspTypeOK /\ job \in Setting
  /\ ssp # "idle" => rc = "none"
  /\ ssp \in {"channel", "apply"} =>
       /\ pdts = "running" /\ k <= NumChannels
       /\ \A c \in Led : c < k => /\ c \in cal <=> c \in Mask
                                  /\ c \in Mask => bias[c] = Bias(job, c)
  /\ ssp \in StopSteps => k <= NumChannels /\ \A c \in Led : c < k => c \notin cal
  /\ ssp \in {"apply", "stopApply"} => k = NumChannels

(* What the assumptions say of the channels and bounds.                    *)
LEMMA LedFacts == /\ NumChannels \in Nat /\ Led = 0..(NumChannels - 1) /\ Mask \subseteq Led
                  /\ First367 \in Nat /\ MaxAttempts \in Nat /\ MaxFaults \in Nat
                  /\ NumChannels >= 1
BY PulserAssumption DEF Led

(* A bias register of a setting is a number.                               *)
LEMMA BiasType == ASSUME NEW j \in Setting, NEW c \in Led PROVE Bias(j, c) \in Nat
<1>1. j.nm270 \in Nat /\ j.nm367 \in Nat
  BY DEF Setting
<1>2. j.nm367 \div 2 \in Nat
  BY <1>1
<1> QED BY <1>1, <1>2 DEF Bias

(* No arguments are a setting too.                                         *)
LEMMA NoJobType == NoJob \in Setting
BY DEF NoJob, Setting

(* What a step of the command does with its exit status and its light.     *)
SspEffect ==
  /\ ssp # "idle" /\ rc = "none"
  /\ ssp' # "idle" => /\ job' = job /\ rc' = "none"
                      /\ ssp \in RunSteps <=> ssp' \in RunSteps
  /\ ssp' = "idle" =>
       /\ rc' \in {"ok", "error"}
       /\ rc' = "ok" => \/ ssp = "apply" /\ Light' = Lit(job) /\ pdts = "running"
                        \/ ssp = "stopApply" /\ Light' = Dark

(* The end of a command leaves the types as they are.                      *)
LEMMA ExitOk ==
  ASSUME SspInv, NEW s \in {"ok", "error"}, Exit(s), faults' \in 0..MaxFaults,
         pdts' \in {"bad", "ready", "running"}, matched' \in BOOLEAN,
         bias' \in [Led -> Nat], applied' \in [Led -> Nat], cal' \in SUBSET Led
  PROVE SspInv'
<1>1. ssp' = "idle" /\ k' = 0 /\ job' = NoJob /\ rc' = s
  BY DEF Exit
<1>2. k' \in 0..(NumChannels + MaxAttempts)
  BY <1>1, LedFacts
<1>3. SspTypeOK'
  BY <1>1, <1>2, Zenon DEF SspTypeOK
<1> QED BY <1>1, <1>3, NoJobType DEF SspInv, StopSteps

(* An exception spends a fault and ends the command with an error.         *)
LEMMA RaiseOk ==
  ASSUME SspInv, Raise
  PROVE faults' \in 0..MaxFaults /\ Exit("error")
<1>1. faults \in 0..MaxFaults /\ faults < MaxFaults /\ faults' = faults + 1
  BY DEF SspInv, SspTypeOK, Raise
<1> QED BY <1>1, LedFacts DEF Raise

(* A command that ends with an error owes nothing about its light.         *)
LEMMA ErrorOk ==
  ASSUME SspInv, ssp # "idle", Exit("error")
  PROVE SspEffect
BY DEF SspInv, Exit, SspEffect

(* A step on keeps the arguments and leaves no exit status.                *)
LEMMA GotoOk ==
  ASSUME SspInv, ssp # "idle", NEW l \in RunSteps \cup StopSteps, NEW n, Goto(l, n),
         ssp \in RunSteps <=> l \in RunSteps
  PROVE SspEffect /\ ssp' = l /\ k' = n /\ job' = job /\ rc' = "none"
<1>1. l # "idle"
  BY DEF RunSteps, StopSteps
<1> QED BY <1>1 DEF SspInv, Goto, SspEffect

(* One step per action of the command.                                     *)
LEMMA SspKeeps == SspInv /\ SspStep => SspInv' /\ SspEffect
<1> SUFFICES ASSUME SspInv, SspStep PROVE SspInv' /\ SspEffect
  OBVIOUS
<1>0. /\ bias \in [Led -> Nat] /\ applied \in [Led -> Nat] /\ cal \in SUBSET Led
      /\ pdts \in {"bad", "ready", "running"} /\ matched \in BOOLEAN
      /\ faults \in 0..MaxFaults /\ k \in 0..(NumChannels + MaxAttempts)
      /\ job \in Setting
  BY DEF SspInv, SspTypeOK
<1>1. CASE ConnectionFails
  <2>1. ssp # "idle" /\ Raise /\ UNCHANGED box
    BY <1>1 DEF ConnectionFails
  <2>2. UNCHANGED <<bias, cal, applied, pdts, matched>>
    BY <2>1 DEF box
  <2> QED BY <1>0, <2>1, <2>2, RaiseOk, ExitOk, ErrorOk
<1>2. CASE AlreadySynced
  <2>1. ssp = "sync" /\ Goto("poll", 0) /\ UNCHANGED <<bias, cal, applied, pdts, matched, faults>>
    BY <1>2 DEF AlreadySynced, box
  <2>2. SspEffect /\ ssp' = "poll" /\ k' = 0 /\ job' = job /\ rc' = "none"
    BY <2>1, GotoOk DEF RunSteps
  <2>3. 0 \in 0..(NumChannels + MaxAttempts)
    BY LedFacts
  <2>4. SspTypeOK'
    BY <1>0, <2>1, <2>2, <2>3, Zenon DEF SspTypeOK
  <2> QED BY <1>0, <2>2, <2>4 DEF SspInv, StopSteps
<1>3. CASE Attempt
  <2>1. ssp = "sync" /\ k < MaxAttempts /\ UNCHANGED <<bias, cal, applied>>
    BY <1>3 DEF Attempt
  <2>2. CASE Raise
    <3>1. pdts' \in {"bad", "ready", "running"} /\ matched' \in BOOLEAN
      BY <1>3, Zenon DEF Attempt
    <3> QED BY <1>0, <2>1, <2>2, <3>1, RaiseOk, ExitOk, ErrorOk
  <2>3. CASE ~Raise
    <3>1. PICK s \in {"bad", "ready", "running"} :
            /\ pdts' = s /\ matched' = TRUE
            /\ Then(IF s = "bad" THEN "sync" ELSE "poll", IF s = "bad" THEN k + 1 ELSE 0)
      BY <1>3, <2>3 DEF Attempt
    <3> DEFINE l == IF s = "bad" THEN "sync" ELSE "poll"
               n == IF s = "bad" THEN k + 1 ELSE 0
    <3>2. Goto(l, n) /\ UNCHANGED faults
      BY <2>3, <3>1 DEF Then
    <3>3. l \in {"sync", "poll"} /\ n \in 0..(NumChannels + MaxAttempts)
      BY <1>0, <2>1, LedFacts
    <3> HIDE DEF l, n
    <3>4. SspEffect /\ ssp' = l /\ k' = n /\ job' = job /\ rc' = "none"
      BY <2>1, <3>2, <3>3, GotoOk DEF RunSteps
    <3>5. pdts' \in {"bad", "ready", "running"} /\ matched' \in BOOLEAN
      BY <3>1, Zenon
    <3>6. ssp' \in {"idle", "sync", "poll", "channel", "apply", "stop", "stopApply"}
      BY <3>3, <3>4
    <3>7. SspTypeOK'
      BY <1>0, <2>1, <3>2, <3>3, <3>4, <3>5, <3>6, Zenon DEF SspTypeOK
    <3> QED BY <1>0, <3>3, <3>4, <3>7 DEF SspInv, StopSteps
  <2> QED BY <2>2, <2>3
<1>4. CASE SyncFailed
  <2>1. ssp = "sync" /\ Exit("error") /\ UNCHANGED <<bias, cal, applied, pdts, matched, faults>>
    BY <1>4 DEF SyncFailed, box
  <2> QED BY <1>0, <2>1, ExitOk, ErrorOk
<1>5. CASE Poll
  <2>1. /\ ssp = "poll" /\ pdts' \in {"bad", "ready", "running"}
        /\ UNCHANGED <<bias, cal, applied, matched>>
    BY <1>5 DEF Poll
  <2>2. \/ Exit("error") /\ UNCHANGED faults
        \/ Raise
        \/ pdts' = "running" /\ Goto("channel", 0) /\ UNCHANGED faults
    BY <1>5 DEF Poll, Then, Running
  <2>3. CASE Exit("error") /\ UNCHANGED faults
    BY <1>0, <2>1, <2>3, ExitOk, ErrorOk
  <2>4. CASE Raise
    BY <1>0, <2>1, <2>4, RaiseOk, ExitOk, ErrorOk
  <2>5. CASE pdts' = "running" /\ Goto("channel", 0) /\ UNCHANGED faults
    <3>1. SspEffect /\ ssp' = "channel" /\ k' = 0 /\ job' = job /\ rc' = "none"
      BY <2>1, <2>5, GotoOk DEF RunSteps
    <3>2. 0 \in 0..(NumChannels + MaxAttempts) /\ 0 <= NumChannels
      BY LedFacts
    <3>3. SspTypeOK'
      BY <1>0, <2>1, <2>5, <3>1, <3>2, Zenon DEF SspTypeOK
    <3>4. \A c \in Led : ~(c < 0)
      BY LedFacts
    <3> QED BY <1>0, <2>5, <3>1, <3>2, <3>3, <3>4 DEF SspInv, StopSteps
  <2> QED BY <2>2, <2>3, <2>4, <2>5
<1>6. CASE WriteChannel
  <2> DEFINE own == [bias EXCEPT ![k] = BiasOf(k)]
             both == IF Workaround(k) THEN [own EXCEPT ![k - 1] = BiasOf(k)] ELSE own
  <2>1. ssp = "channel" /\ k \in Led /\ UNCHANGED <<applied, pdts, matched>>
    BY <1>6 DEF WriteChannel
  <2>2. \/ /\ bias' = both /\ cal' = (cal \ {k}) \cup CalOf(k)
           /\ Then(IF k + 1 \in Led THEN "channel" ELSE "apply", k + 1)
        \/ bias' \in {own, both} /\ UNCHANGED cal /\ Raise
    BY <1>6 DEF WriteChannel
  <2>3. BiasOf(k) \in Nat
    BY <1>0, <2>1, BiasType DEF BiasOf
  <2>4. own \in [Led -> Nat] /\ own[k] = BiasOf(k) /\ \A c \in Led : c # k => own[c] = bias[c]
    BY <1>0, <2>1, <2>3
  <2> HIDE DEF own
  <2>5. both \in [Led -> Nat]
    BY <2>3, <2>4
  <2>6. \A c \in Mask : both[c] = own[c]
    <3>1. ASSUME NEW c \in Mask, Workaround(k) PROVE both[c] = own[c]
      <4>1. k - 1 = First367 /\ First367 \notin Mask
        BY <2>1, <3>1, LedFacts DEF Workaround
      <4>2. c # k - 1
        BY <4>1
      <4> QED BY <2>4, <4>2
    <3> QED BY <3>1
  <2> HIDE DEF both
  <2>7. CASE Raise
    <3>1. bias' \in [Led -> Nat] /\ cal' \in SUBSET Led
      BY <1>0, <2>2, <2>1, <2>4, <2>5 DEF CalOf
    <3> QED BY <1>0, <2>1, <2>7, <3>1, RaiseOk, ExitOk, ErrorOk
  <2>8. CASE ~Raise
    <3> DEFINE l == IF k + 1 \in Led THEN "channel" ELSE "apply"
    <3>1. bias' = both /\ cal' = (cal \ {k}) \cup CalOf(k) /\ Goto(l, k + 1) /\ UNCHANGED faults
      BY <2>2, <2>8 DEF Then
    <3>2. l \in {"channel", "apply"} /\ k + 1 <= NumChannels /\ (l = "apply" => k + 1 = NumChannels)
          /\ k + 1 \in 0..(NumChannels + MaxAttempts)
      BY <2>1, LedFacts
    <3> HIDE DEF l
    <3>3. SspEffect /\ ssp' = l /\ k' = k + 1 /\ job' = job /\ rc' = "none"
      BY <2>1, <3>1, <3>2, GotoOk DEF RunSteps
    <3>4. bias' \in [Led -> Nat] /\ cal' \in SUBSET Led
      BY <1>0, <2>1, <2>5, <3>1 DEF CalOf
    <3>5. ssp' \in {"idle", "sync", "poll", "channel", "apply", "stop", "stopApply"}
      BY <3>2, <3>3
    <3>6. SspTypeOK'
      BY <1>0, <2>1, <3>1, <3>2, <3>3, <3>4, <3>5, Zenon DEF SspTypeOK
    <3>7. ASSUME NEW c \in Led, c < k + 1
          PROVE (c \in cal' <=> c \in Mask) /\ (c \in Mask => bias'[c] = Bias(job, c))
      <4>1. c \in cal' <=> (c # k /\ c \in cal) \/ (c = k /\ c \in Mask)
        BY <3>1 DEF CalOf
      <4>2. c \in Mask => bias'[c] = own[c]
        BY <2>6, <3>1
      <4>3. CASE c = k
        BY <2>4, <4>1, <4>2, <4>3 DEF BiasOf
      <4>4. CASE c # k
        <5>1. c < k
          BY <2>1, <3>7, <4>4, LedFacts
        <5>2. (c \in cal <=> c \in Mask) /\ (c \in Mask => bias[c] = Bias(job, c))
          BY <2>1, <5>1 DEF SspInv
        <5> QED BY <2>4, <4>1, <4>2, <4>4, <5>2
      <4> QED BY <4>3, <4>4
    <3>8. pdts' = "running"
      BY <2>1 DEF SspInv
    <3> QED BY <1>0, <3>2, <3>3, <3>6, <3>7, <3>8 DEF SspInv, StopSteps
  <2> QED BY <2>7, <2>8
<1>7. CASE ApplyBias
  <2>1. /\ ssp \in {"apply", "stopApply"} /\ applied' = bias
        /\ UNCHANGED <<bias, cal, pdts, matched>>
    BY <1>7 DEF ApplyBias
  <2>2. CASE Raise
    BY <1>0, <2>1, <2>2, RaiseOk, ExitOk, ErrorOk
  <2>3. CASE Exit("ok") /\ UNCHANGED faults
    <3>1. SspInv'
      BY <1>0, <2>1, <2>3, ExitOk
    <3>2. k = NumChannels /\ \A c \in Led : c < k
      BY <2>1, LedFacts DEF SspInv
    <3>3. ASSUME ssp = "apply" PROVE Light' = Lit(job) /\ pdts = "running"
      <4>1. \A c \in Led : (c \in cal <=> c \in Mask) /\ (c \in Mask => bias[c] = Bias(job, c))
        BY <3>2, <3>3 DEF SspInv
      <4>2. Light' = [c \in Led |-> IF c \in cal THEN bias[c] ELSE 0]
        BY <2>1 DEF Light
      <4>3. \A c \in Led : (IF c \in cal THEN bias[c] ELSE 0) = (IF c \in Mask THEN Bias(job, c) ELSE 0)
        BY <4>1
      <4> QED BY <3>3, <4>2, <4>3 DEF SspInv, Lit
    <3>4. ASSUME ssp = "stopApply" PROVE Light' = Dark
      <4>1. \A c \in Led : c \notin cal
        BY <3>2, <3>4 DEF SspInv, StopSteps
      <4>2. Light' = [c \in Led |-> IF c \in cal THEN bias[c] ELSE 0]
        BY <2>1 DEF Light
      <4> QED BY <4>1, <4>2 DEF Dark
    <3>5. ssp' = "idle" /\ rc' = "ok" /\ rc = "none" /\ ssp # "idle"
      BY <2>1, <2>3 DEF Exit, SspInv
    <3> QED BY <2>1, <3>1, <3>3, <3>4, <3>5 DEF SspEffect
  <2> QED BY <1>7, <2>2, <2>3 DEF ApplyBias
<1>8. CASE StopChannel
  <2>1. ssp = "stop" /\ k \in Led /\ UNCHANGED <<applied, pdts, matched>>
        /\ bias' = [bias EXCEPT ![k] = 0]
    BY <1>8 DEF StopChannel
  <2>2. bias' \in [Led -> Nat]
    BY <1>0, <2>1
  <2>3. CASE Raise
    <3>1. cal' \in SUBSET Led
      BY <1>0, <1>8 DEF StopChannel
    <3> QED BY <1>0, <2>1, <2>2, <2>3, <3>1, RaiseOk, ExitOk, ErrorOk
  <2>4. CASE ~Raise
    <3> DEFINE l == IF k + 1 \in Led THEN "stop" ELSE "stopApply"
    <3>1. cal' = cal \ {k} /\ Goto(l, k + 1) /\ UNCHANGED faults
      BY <1>8, <2>4 DEF StopChannel, Then
    <3>2. l \in {"stop", "stopApply"} /\ k + 1 <= NumChannels
          /\ (l = "stopApply" => k + 1 = NumChannels) /\ k + 1 \in 0..(NumChannels + MaxAttempts)
      BY <2>1, LedFacts
    <3> HIDE DEF l
    <3>3. SspEffect /\ ssp' = l /\ k' = k + 1 /\ job' = job /\ rc' = "none"
      BY <2>1, <3>1, <3>2, GotoOk DEF RunSteps, StopSteps
    <3>4. cal' \in SUBSET Led
      BY <1>0, <3>1
    <3>5. ssp' \in {"idle", "sync", "poll", "channel", "apply", "stop", "stopApply"}
      BY <3>2, <3>3
    <3>6. SspTypeOK'
      BY <1>0, <2>1, <2>2, <3>1, <3>2, <3>3, <3>4, <3>5, Zenon DEF SspTypeOK
    <3>7. ASSUME NEW c \in Led, c < k + 1 PROVE c \notin cal'
      <4>1. CASE c = k
        BY <3>1, <4>1
      <4>2. CASE c # k
        <5>1. c < k
          BY <2>1, <3>7, <4>2, LedFacts
        <5> QED BY <2>1, <3>1, <5>1 DEF SspInv, StopSteps
      <4> QED BY <4>1, <4>2
    <3> QED BY <1>0, <3>2, <3>3, <3>6, <3>7 DEF SspInv, StopSteps
  <2> QED BY <2>3, <2>4
<1> QED BY <1>1, <1>2, <1>3, <1>4, <1>5, <1>6, <1>7, <1>8 DEF SspStep
-----------------------------------------------------------------------------
(* The values of a scan grow, so that no point is taken twice.             *)
LEMMA RangeFacts ==
  /\ inclusive_range \in Seq(Nat) /\ Len(inclusive_range) \in Nat \ {0}
  /\ \A j \in 1..Len(inclusive_range) :
       /\ inclusive_range[j] \in Point /\ inclusive_range[j] \in Nat
       /\ \A h \in 1..Len(inclusive_range) : h # j => inclusive_range[h] # inclusive_range[j]
<1> DEFINE q == (Stop - Start) \div Step
           whole == [j \in 1..(q + 1) |-> Start + (j - 1) * Step]
           R == inclusive_range
<1>0. Start \in Nat /\ Stop \in Nat /\ Step \in Nat /\ Step >= 1 /\ Start <= Stop
  BY ScanAssumption
<1>1. q \in Nat /\ q * Step <= Stop - Start
  <2> DEFINE a == Stop - Start
  <2>1. a \in Nat
    BY <1>0
  <2> HIDE DEF a
  <2>2. (a \div Step) \in Nat /\ (a \div Step) * Step <= a
    BY <1>0, <2>1
  <2> QED BY <2>2 DEF a
<1> HIDE DEF q
<1>2. \A j \in 1..(q + 1) : Start + (j - 1) * Step \in Nat /\ Start + (j - 1) * Step <= Stop
  <2> SUFFICES ASSUME NEW j \in 1..(q + 1)
               PROVE Start + (j - 1) * Step \in Nat /\ Start + (j - 1) * Step <= Stop
    OBVIOUS
  <2>1. (j - 1) * Step \in Nat /\ (j - 1) * Step <= q * Step
    BY <1>0, <1>1
  <2> QED BY <1>0, <1>1, <2>1
<1>3. \A j, h \in 1..(q + 1) : h # j => Start + (j - 1) * Step # Start + (h - 1) * Step
  <2> SUFFICES ASSUME NEW j \in 1..(q + 1), NEW h \in 1..(q + 1), h # j
               PROVE Start + (j - 1) * Step # Start + (h - 1) * Step
    OBVIOUS
  <2>1. (j - h) * Step # 0
    BY <1>0, <1>1
  <2>2. (j - 1) * Step - (h - 1) * Step = (j - h) * Step
    BY <1>0, <1>1
  <2>3. (j - 1) * Step \in Int /\ (h - 1) * Step \in Int
    BY <1>0, <1>1
  <2> QED BY <1>0, <2>1, <2>2, <2>3
<1>8. \A j \in 1..q : Start + (j - 1) * Step < Start + q * Step
  <2> SUFFICES ASSUME NEW j \in 1..q PROVE Start + (j - 1) * Step < Start + q * Step
    OBVIOUS
  <2>1. q * Step - (j - 1) * Step = (q - (j - 1)) * Step /\ (q - (j - 1)) * Step >= 1
    BY <1>0, <1>1
  <2>2. (j - 1) * Step \in Int /\ q * Step \in Int
    BY <1>0, <1>1
  <2> QED BY <1>0, <2>1, <2>2
<1>4. /\ whole \in Seq(Nat) /\ Len(whole) = q + 1
      /\ \A j \in 1..(q + 1) : whole[j] \in Nat /\ whole[j] <= Stop
      /\ \A j, h \in 1..(q + 1) : h # j => whole[h] # whole[j]
      /\ \A j \in 1..q : whole[j] < whole[q + 1]
  <2>1. whole \in Seq(Nat) /\ Len(whole) = q + 1
    BY <1>1, <1>2
  <2>2. \A j \in 1..(q + 1) : whole[j] = Start + (j - 1) * Step
    OBVIOUS
  <2>3. whole[q + 1] = Start + q * Step
    BY <1>1
  <2> HIDE DEF whole
  <2>4. \A j \in 1..(q + 1) : whole[j] \in Nat /\ whole[j] <= Stop
    BY <1>2, <2>2
  <2>5. ASSUME NEW j \in 1..(q + 1), NEW h \in 1..(q + 1), h # j
        PROVE whole[h] # whole[j]
    <3>1. Start + (j - 1) * Step # Start + (h - 1) * Step
      BY <1>3, <2>5
    <3>2. whole[j] = Start + (j - 1) * Step /\ whole[h] = Start + (h - 1) * Step
      BY <2>2
    <3> QED BY <3>1, <3>2, Zenon
  <2>6. ASSUME NEW j \in 1..q PROVE whole[j] < whole[q + 1]
    <3>1. j \in 1..(q + 1)
      BY <1>1
    <3>2. whole[j] = Start + (j - 1) * Step
      BY <2>2, <3>1
    <3>3. Start + (j - 1) * Step < Start + q * Step
      BY <1>8
    <3> QED BY <2>3, <3>2, <3>3, Zenon
  <2> QED BY <2>1, <2>4, <2>5, <2>6
<1>5. R = IF whole[Len(whole)] = Stop THEN whole ELSE Append(whole, Stop)
  BY DEF inclusive_range, q
<1> HIDE DEF whole
<1>6. /\ R \in Seq(Nat) /\ Len(R) \in Nat \ {0}
      /\ \A j \in 1..Len(R) : /\ R[j] \in Nat
                              /\ \A h \in 1..Len(R) : h # j => R[h] # R[j]
  <2> HIDE DEF R
  <2>1. CASE whole[Len(whole)] = Stop
    BY <1>1, <1>4, <1>5, <2>1
  <2>2. CASE whole[Len(whole)] # Stop
    <3>1. R \in Seq(Nat) /\ Len(R) = q + 2 /\ R[q + 2] = Stop
          /\ \A j \in 1..(q + 1) : R[j] = whole[j]
      BY <1>0, <1>1, <1>4, <1>5, <2>2
    <3>2. \A j \in 1..(q + 1) : whole[j] # Stop
      <4> SUFFICES ASSUME NEW j \in 1..(q + 1), whole[j] = Stop PROVE FALSE
        OBVIOUS
      <4>1. j \in 1..q
        BY <1>1, <1>4, <2>2
      <4>2. Stop < whole[q + 1] /\ whole[q + 1] <= Stop /\ whole[q + 1] \in Nat
        BY <1>1, <1>4, <4>1
      <4> QED BY <1>0, <4>2
    <3> QED BY <1>0, <1>1, <1>4, <3>1, <3>2
  <2> QED BY <2>1, <2>2
<1>7. \A j \in 1..Len(R) : R[j] \in Point
  <2>1. DOMAIN R = 1..Len(R)
    BY <1>6
  <2> QED BY <2>1 DEF Point
<1> QED BY <1>6, <1>7
-----------------------------------------------------------------------------
(* The scan's process.                                                     *)

LedWaits == {"calLedWait", "ledWait", "sweepLedWait"}
Waits == LedWaits \cup {"stopWait"}
AtPoint == {"led", "ledWait", "meta", "configure", "open", "acquire", "analysis"}
IntensityLabels == {"off", "manifest", "calLed", "calLedWait", "calibrate", "point", "led",
                    "ledWait", "meta", "open", "acquire", "analysis", "stop", "stopWait", "end"}
SweepLabels == {"off", "manifest", "sweepLed", "sweepLedWait", "ledManifest", "point",
                "meta", "configure", "open", "acquire", "stop", "stopWait", "end"}
SweepLit == {"point", "meta", "configure", "open", "acquire", "stop", "stopWait"}

(* Which labels each program has, and what is set there.                   *)
PlaceInv ==
  /\ prog \in {"intensity", "sweep"} /\ dir \in Dirs
  /\ prog = "intensity" =>
       pc \in IntensityLabels /\ started = FALSE /\ status # "started"
  /\ prog = "sweep" => pc \in SweepLabels
  /\ i \in 1..(Len(inclusive_range) + 1)
  /\ pc \in AtPoint => i <= Len(inclusive_range)
  /\ status \in Status \cup {None} /\ started \in BOOLEAN
  /\ stopped \in {None, "ok", "error"}
  /\ how \in {None, "returned", "failed", "raised", "killed"}
  /\ starts \in 0..MaxStarts /\ crashes \in 0..MaxCrashes
  /\ vgain \in Point \cup {0}

(* The commands: one runs only while the scan waits for it, and leaves an  *)
(* exit status.                                                            *)
CommandInv ==
  /\ ssp # "idle" => pc \in Waits
  /\ pc \in Waits /\ ssp = "idle" => rc # "none"
  /\ ssp \in RunSteps => pc \in LedWaits
  /\ ssp \in StopSteps => pc = "stopWait"

(* The stop command.                                                       *)
StopInv ==
  /\ stopped # None => pc \in {"manifest", "end", "off"}
  /\ pc = "end" => stopped # None
  /\ pc = "off" =>
       /\ how = "returned" => stopped # None
       /\ prog = "sweep" /\ started /\ how = "raised" => stopped # None
  /\ prog = "intensity" /\ pc = "manifest" => stopped = None
  /\ prog = "sweep" /\ pc \in SweepLit => started
  /\ pc \in {"sweepLed", "sweepLedWait", "ledManifest"} => ~started
  /\ pc = "manifest" /\ stopped = None => ~started

(* The light.                                                              *)
LightAt(d, x) == IF prog = "sweep" THEN Lit(SweepJob) ELSE PointLight(d, x)

LightInv ==
  /\ ssp # "idle" /\ pc = "ledWait" => job = resolve_led_biases(wl[dir], X)
  /\ ssp # "idle" /\ pc = "sweepLedWait" => job = SweepJob
  /\ ssp = "idle" /\ pc = "ledWait" /\ rc = "ok" => Light = PointLight(dir, X)
  /\ ssp = "idle" /\ pc = "sweepLedWait" /\ rc = "ok" => Light = Lit(SweepJob)
  /\ ssp = "idle" /\ pc = "stopWait" /\ rc = "ok" => Light = Dark
  /\ pc \in {"open", "acquire"} => /\ Light = LightAt(dir, X)
                                   /\ prog = "sweep" => vgain = X
  /\ prog = "sweep" /\ pc \in {"point", "meta", "configure"} => Light = Lit(SweepJob)
  /\ pc = "ledManifest" /\ rc = "ok" => Light = Lit(SweepJob)
  /\ stopped = "ok" => Light = Dark

(* What a point's directory holds, when its light is L, the directory was  *)
(* used u times and the program is g.                                      *)
PointOk(L, u, g, x, p) ==
  /\ p = [made |-> p.made, meta |-> p.meta, analysis |-> p.analysis, raw |-> p.raw]
  /\ p.made \in BOOLEAN /\ p.meta \in Status \cup {None, Torn}
  /\ p.raw.n \in 0..Waveforms /\ p.raw.light \subseteq {L}
  /\ p.raw.n > 0 => p.raw.light # {}
  /\ g = "sweep" => p.raw.vgain \subseteq {x}
  /\ \/ p.analysis \in {NoAnalysis, TornAnalysis}
     \/ p.analysis.n = Waveforms /\ p.analysis.light = {L}
  /\ u = 0 => p = NoPoint
  /\ u = 1 /\ p.meta = "analyzed" => p.raw.n = Waveforms /\ p.analysis = p.raw

DiskInv ==
  /\ DOMAIN point = Dirs /\ \A d \in Dirs : DOMAIN point[d] = Point
  /\ \A d \in Dirs, x \in Point : PointOk(LightAt(d, x), used[d], prog, x, point[d][x])

(* The manifests and the uses of the directories.                          *)
UseInv ==
  /\ used \in [Dirs -> Nat] /\ wl \in [Dirs -> Wavelength \cup {0}]
  /\ manifest \in [Dirs -> Wavelength \cup {NoManifest, TornManifest}]
  /\ \A d \in Dirs : /\ used[d] <= starts
                     /\ used[d] > 0 => wl[d] \in Wavelength
                     /\ manifest[d] \in {NoManifest, TornManifest, wl[d]}
  /\ pc # "off" => used[dir] > 0

(* The point the scan works on, and those it has not come to.              *)
WorkInv ==
  /\ pc = "analysis" => Here.raw.n = Waveforms
  /\ pc = "meta" => status \in Status
  /\ pc = "meta" /\ status = "analyzed" =>
       Here.raw.n = Waveforms /\ Here.analysis = Here.raw
  /\ pc # "off" /\ used[dir] = 1 =>
       \A j \in 1..Len(inclusive_range) :
         j >= i => point[dir][inclusive_range[j]].meta # "analyzed"

ScanInv == /\ SspInv /\ PlaceInv /\ CommandInv /\ StopInv /\ LightInv
           /\ DiskInv /\ UseInv /\ WorkInv

ControlInv == PlaceInv /\ CommandInv /\ StopInv

(* The point at hand is one of the scan.                                   *)
LEMMA AtX == ASSUME PlaceInv, pc \in AtPoint
             PROVE X \in Point /\ X \in Nat /\ i \in 1..Len(inclusive_range)
<1>1. i \in 1..Len(inclusive_range)
  BY RangeFacts DEF PlaceInv
<1> QED BY <1>1, RangeFacts DEF X

(* Labels, exit statuses and the stop command, one step per action.        *)
LEMMA ControlNext ==
  ASSUME SspInv, ControlInv, ScanNext PROVE ControlInv'
<1>0. /\ Len(inclusive_range) \in Nat /\ Len(inclusive_range) >= 1
      /\ 1 \in 1..(Len(inclusive_range) + 1)
      /\ MaxStarts \in Nat /\ MaxCrashes \in Nat
  BY RangeFacts, ScanAssumption
<1> USE DEF ControlInv, PlaceInv, CommandInv, StopInv, IntensityLabels, SweepLabels, SweepLit,
            AtPoint, LedWaits, Waits, Status, None
<1>1. CASE SspStep /\ UNCHANGED scanvars
  <2>1. UNCHANGED <<pc, prog, dir, i, status, started, stopped, how, starts, crashes, vgain>>
    BY <1>1 DEF scanvars
  <2>2. SspEffect
    BY <1>1, SspKeeps
  <2>3. PlaceInv' /\ StopInv'
    BY <2>1
  <2>4. CommandInv'
    <3>1. ssp \in RunSteps \cup StopSteps
      BY <2>2 DEF SspEffect, SspInv, SspTypeOK, RunSteps, StopSteps
    <3>2. RunSteps \cap StopSteps = {} /\ "idle" \notin RunSteps \cup StopSteps
      BY DEF RunSteps, StopSteps
    <3> QED BY <2>1, <2>2, <3>1, <3>2 DEF SspEffect
  <2> QED BY <2>3, <2>4
<1>2. CASE WriteManifest
  BY <1>2 DEF WriteManifest, scanrest, sspvars
<1>3. CASE RunLed
  BY <1>3 DEF RunLed, Command, RunSteps, StopSteps
<1>4. CASE CalibrationLed
  <2>1. /\ pc = "calLedWait" /\ ssp = "idle" /\ UNCHANGED <<started, stopped>>
        /\ UNCHANGED <<ssp, rc, prog, dir, starts, crashes, vgain>>
        /\ \/ pc' = "calibrate" /\ UNCHANGED <<i, status, how>>
           \/ pc' = "off" /\ i' = 1 /\ status' = None /\ how' = "failed"
    BY <1>4 DEF CalibrationLed, End, scanrest, sspvars
  <2>2. PlaceInv'
    BY <2>1, <1>0
  <2>3. CommandInv'
    BY <2>1 DEF RunSteps, StopSteps
  <2>4. StopInv'
    BY <2>1
  <2> QED BY <2>2, <2>3, <2>4
<1>5. CASE Calibrate
  BY <1>5, <1>0 DEF Calibrate, End, scanrest, sspvars
<1>6. CASE BeginPoint
  BY <1>6 DEF BeginPoint, scanrest, sspvars
<1>7. CASE WriteMeta
  <2>1. /\ pc = "meta" /\ status' = None /\ UNCHANGED <<started, stopped, how>>
        /\ UNCHANGED <<ssp, rc, prog, dir, starts, crashes, vgain>>
        /\ \/ status = "started" /\ pc' = "configure" /\ UNCHANGED i
           \/ status # "started" /\ pc' = "point" /\ i' = i + 1
    BY <1>7 DEF WriteMeta, scanrest, sspvars
  <2>2. PlaceInv'
    BY <2>1, <1>0
  <2>3. CommandInv'
    BY <2>1 DEF RunSteps, StopSteps
  <2>4. StopInv'
    BY <2>1
  <2> QED BY <2>2, <2>3, <2>4
<1>8. CASE PointLed
  <2>1. /\ pc = "ledWait" /\ ssp = "idle" /\ UNCHANGED <<i, started, stopped, how>>
        /\ UNCHANGED <<ssp, rc, prog, dir, starts, crashes, vgain>>
        /\ \/ pc' = "open" /\ UNCHANGED status
           \/ pc' = "meta" /\ status' = "led_failed"
    BY <1>8 DEF PointLed, Meta, scanrest, sspvars
  <2>2. PlaceInv'
    BY <2>1, <1>0
  <2>3. CommandInv'
    BY <2>1 DEF RunSteps, StopSteps
  <2>4. StopInv'
    BY <2>1
  <2> QED BY <2>2, <2>3, <2>4
<1>9. CASE Configure
  BY <1>9, <1>0, AtX DEF Configure, Meta, Raised, sspvars, ConfigureOk
<1>10. CASE OpenRaw
  BY <1>10, <1>0 DEF OpenRaw, scanrest, sspvars
<1>11. CASE Acquire
  BY <1>11, <1>0 DEF Acquire, scanrest, sspvars
<1>12. CASE AcquireFails
  BY <1>12, <1>0 DEF AcquireFails, Meta, scanrest, sspvars
<1>13. CASE Acquired
  BY <1>13, <1>0 DEF Acquired, Meta, scanrest, sspvars
<1>14. CASE WriteAnalysis
  BY <1>14, <1>0 DEF WriteAnalysis, Meta, scanrest, sspvars
<1>15. CASE SweepLed
  BY <1>15 DEF SweepLed, scanrest, sspvars, RunSteps, StopSteps
<1>21. CASE RecordLed
  <2>1. /\ pc = "ledManifest" /\ UNCHANGED stopped
        /\ UNCHANGED <<ssp, rc, prog, dir, starts, crashes, vgain>>
        /\ \/ started' = TRUE /\ pc' = "point" /\ UNCHANGED <<i, status, how>>
           \/ pc' = "off" /\ i' = 1 /\ status' = None /\ how' = "raised" /\ UNCHANGED started
    BY <1>21 DEF RecordLed, End, scanrest, sspvars
  <2>2. PlaceInv'
    BY <2>1, <1>0
  <2>3. CommandInv'
    BY <2>1 DEF RunSteps, StopSteps
  <2>4. StopInv'
    BY <2>1
  <2> QED BY <2>2, <2>3, <2>4
<1>16. CASE LastPoint
  BY <1>16, <1>0 DEF LastPoint, sspvars
<1>17. CASE StopEnds
  <2>1. /\ pc = "stopWait" /\ ssp = "idle" /\ stopped' = rc /\ rc \in {"ok", "error"}
        /\ UNCHANGED <<i, status, started, how>>
        /\ UNCHANGED <<ssp, rc, prog, dir, starts, crashes, vgain>>
        /\ \/ prog = "sweep" /\ pc' = "manifest"
           \/ prog = "intensity" /\ pc' = "end"
    BY <1>17 DEF StopEnds, scanrest, sspvars, SspInv, SspTypeOK
  <2>2. PlaceInv'
    BY <2>1, <1>0
  <2>3. CommandInv'
    BY <2>1 DEF RunSteps, StopSteps
  <2>4. StopInv'
    BY <2>1
  <2> QED BY <2>2, <2>3, <2>4
<1>18. CASE EndScan
  BY <1>18, <1>0 DEF EndScan, End, scanrest, sspvars
<1>19. ASSUME NEW d \in Dirs, NEW nm \in Wavelength, StartScan(d, nm) PROVE ControlInv'
  <2>1. /\ pc = "off" /\ ssp = "idle" /\ starts < MaxStarts /\ starts' = starts + 1
        /\ dir' = d /\ pc' = "manifest" /\ i' = 1 /\ status' = None
        /\ started' = FALSE /\ stopped' = None /\ how' = None
        /\ UNCHANGED <<ssp, rc, prog, crashes, vgain>>
    BY <1>19 DEF StartScan, sspvars
  <2>2. PlaceInv'
    <3>1. starts' \in 0..MaxStarts
      BY <2>1, <1>0
    <3>2. started' \in BOOLEAN
      BY <2>1, Zenon
    <3>3. dir' \in Dirs /\ status' \in Status \cup {None}
      BY <2>1
    <3> HIDE DEF Status
    <3> QED BY <2>1, <3>1, <3>2, <3>3, <1>0
  <2>3. CommandInv'
    BY <2>1 DEF RunSteps, StopSteps
  <2>4. StopInv'
    BY <2>1
  <2> QED BY <2>2, <2>3, <2>4
<1>20. ASSUME NEW kill \in BOOLEAN, Crash(kill) PROVE ControlInv'
  <2>1. /\ pc # "off" /\ crashes < MaxCrashes /\ crashes' = crashes + 1
        /\ ssp' = "idle" /\ rc' = "none" /\ status' = None
        /\ UNCHANGED <<started, stopped, prog, dir, starts, vgain>>
        /\ \/ /\ prog = "sweep" /\ started /\ stopped = None /\ pc # "stopWait"
              /\ pc' = "stop" /\ how' = "raised" /\ UNCHANGED i
           \/ pc' = "off" /\ i' = 1 /\ how' = "killed"
           \/ /\ prog # "sweep" \/ ~started \/ stopped # None
              /\ pc' = "off" /\ i' = 1 /\ how' = "raised"
    BY <1>20 DEF Crash, End, Raised, FinallyStops
  <2>2. PlaceInv'
    <3>1. crashes' \in 0..MaxCrashes
      BY <2>1, <1>0
    <3> QED BY <2>1, <3>1, <1>0
  <2>3. CommandInv'
    BY <2>1 DEF RunSteps, StopSteps
  <2>4. StopInv'
    BY <2>1
  <2> QED BY <2>2, <2>3, <2>4
<1> QED BY <1>1, <1>2, <1>3, <1>4, <1>5, <1>6, <1>7, <1>8, <1>9, <1>10, <1>11, <1>12, <1>13,
           <1>14, <1>15, <1>16, <1>17, <1>18, <1>19, <1>20, <1>21
        DEF ScanNext, ScanStep, ScanOther

(* A command gets the setting of the point; the light stays while none     *)
(* runs.                                                                   *)
LEMMA LightNext ==
  ASSUME SspInv, ControlInv, ControlInv', LightInv, ScanNext PROVE LightInv'
<1> DEFINE PL == PointLight(dir, X)
           SL == Lit(SweepJob)
           Set == resolve_led_biases(wl[dir], X)
           Still == UNCHANGED <<ssp, rc, job, Light, wl, prog, dir>>
           Inv == /\ ssp # "idle" /\ pc = "ledWait" => job = Set
                  /\ ssp # "idle" /\ pc = "sweepLedWait" => job = SweepJob
                  /\ ssp = "idle" /\ pc = "ledWait" /\ rc = "ok" => Light = PL
                  /\ ssp = "idle" /\ pc = "sweepLedWait" /\ rc = "ok" => Light = SL
                  /\ ssp = "idle" /\ pc = "stopWait" /\ rc = "ok" => Light = Dark
                  /\ pc \in {"open", "acquire"} =>
                       /\ prog # "sweep" => Light = PL
                       /\ prog = "sweep" => Light = SL /\ vgain = X
                  /\ prog = "sweep" /\ pc \in {"point", "meta", "configure"} => Light = SL
                  /\ pc = "ledManifest" /\ rc = "ok" => Light = SL
                  /\ stopped = "ok" => Light = Dark
<1>a. Inv /\ (Inv' => LightInv')
  BY DEF LightInv, LightAt
<1>b. SL' = SL /\ SweepJob' = SweepJob /\ Dark' = Dark
  BY DEF Lit, SweepJob, Dark
<1>c. ASSUME UNCHANGED <<i, wl, dir>> PROVE UNCHANGED <<PL, Set, X>>
  BY <1>c DEF PointLight, X, resolve_led_biases, Lit
<1>d. PL = Lit(Set)
  BY DEF PointLight
<1>e. ASSUME UNCHANGED sspvars, UNCHANGED scanrest PROVE Still
  BY <1>e DEF sspvars, box, scanrest, Light
<1> USE DEF None
<1> HIDE DEF PL, SL, Set
<1>1. CASE SspStep /\ UNCHANGED scanvars
  <2>1. UNCHANGED <<pc, i, wl, dir, prog, started, stopped, vgain>>
    BY <1>1 DEF scanvars, disk
  <2>2. SspEffect /\ pc \in Waits
    BY <1>1, SspKeeps DEF SspEffect, ControlInv, CommandInv
  <2>3. UNCHANGED <<PL, Set, X>>
    BY <1>c, <2>1
  <2>4. stopped = None
    BY <2>2 DEF Waits, LedWaits, ControlInv, StopInv
  <2>5. pc \in LedWaits => ssp \in RunSteps
    BY <2>2 DEF Waits, LedWaits, ControlInv, CommandInv, RunSteps, StopSteps, SspEffect, SspInv, SspTypeOK
  <2>6. pc = "stopWait" => ssp \in StopSteps
    BY <2>2 DEF Waits, LedWaits, ControlInv, CommandInv, RunSteps, StopSteps, SspEffect, SspInv, SspTypeOK
  <2>7. CASE ssp' # "idle"
    <3>1. job' = job /\ ssp # "idle"
      BY <2>2, <2>7 DEF SspEffect
    <3>2. Inv'
      BY <1>a, <1>b, <2>1, <2>2, <2>3, <2>4, <2>7, <3>1 DEF Waits, LedWaits
    <3> QED BY <1>a, <3>2
  <2>8. CASE ssp' = "idle"
    <3>1. ssp # "idle"
      BY <2>2 DEF SspEffect
    <3>2. pc \in LedWaits /\ rc' = "ok" => Light' = Lit(job)
      BY <2>2, <2>5, <2>8 DEF SspEffect, RunSteps
    <3>3. pc = "stopWait" /\ rc' = "ok" => Light' = Dark
      BY <2>2, <2>6, <2>8 DEF SspEffect, StopSteps
    <3>4. pc = "ledWait" => Lit(job) = PL
      BY <1>a, <1>d, <3>1
    <3>5. pc = "sweepLedWait" => Lit(job) = SL
      BY <1>a, <3>1 DEF SL
    <3>6. Inv'
      BY <1>b, <2>1, <2>2, <2>3, <2>4, <2>8, <3>2, <3>3, <3>4, <3>5 DEF Waits, LedWaits
    <3> QED BY <1>a, <3>6
  <2> QED BY <2>7, <2>8
<1>2. CASE WriteManifest
  <2>1. /\ Still /\ pc = "manifest" /\ UNCHANGED <<i, started, stopped>>
        /\ pc' \in {"calLed", "point", "end", "sweepLed"}
        /\ prog = "sweep" => pc' # "point"
    BY <1>2, <1>e DEF WriteManifest, scanrest
  <2>2. Inv'
    BY <1>a, <1>b, <1>c, <2>1 DEF ControlInv, StopInv, PlaceInv, IntensityLabels, SweepLabels, SweepLit
  <2> QED BY <1>a, <2>2
<1>3. CASE RunLed
  <2>1. /\ UNCHANGED <<i, wl, dir, prog, started, stopped, Light>> /\ ssp' # "idle"
        /\ pc' \in Waits
        /\ pc' = "ledWait" => job' = Set
        /\ pc' = "sweepLedWait" => job' = SweepJob
    BY <1>3 DEF RunLed, Command, box, Light, disk, Waits, LedWaits, Set
  <2>2. Inv'
    BY <1>a, <1>b, <1>c, <2>1 DEF Waits, LedWaits
  <2> QED BY <1>a, <2>2
<1>4. CASE CalibrationLed
  <2>1. /\ Still /\ pc = "calLedWait" /\ UNCHANGED <<started, stopped>>
        /\ pc' \in {"calibrate", "off"}
    BY <1>4, <1>e DEF CalibrationLed, End
  <2>2. Inv'
    BY <1>a, <1>b, <1>c, <2>1
  <2> QED BY <1>a, <2>2
<1>5. CASE Calibrate
  <2>1. /\ Still /\ pc = "calibrate" /\ UNCHANGED <<started, stopped>>
        /\ pc' = "off" \/ (pc' = "point" /\ UNCHANGED i)
    BY <1>5, <1>e DEF Calibrate, End
  <2>2. Inv'
    BY <1>a, <1>b, <1>c, <2>1 DEF ControlInv, StopInv, PlaceInv, IntensityLabels, SweepLabels, SweepLit
  <2> QED BY <1>a, <2>2
<1>6. CASE BeginPoint
  <2>1. /\ Still /\ pc = "point" /\ UNCHANGED <<i, started, stopped>>
        /\ pc' \in {"led", "meta"}
    BY <1>6, <1>e DEF BeginPoint
  <2>2. Inv'
    BY <1>a, <1>b, <1>c, <2>1
  <2> QED BY <1>a, <2>2
<1>7. CASE WriteMeta
  <2>1. /\ Still /\ pc = "meta" /\ UNCHANGED <<started, stopped>>
        /\ pc' \in {"configure", "point"}
    BY <1>7, <1>e DEF WriteMeta
  <2>2. Inv'
    BY <1>a, <1>b, <1>c, <2>1
  <2> QED BY <1>a, <2>2
<1>8. CASE PointLed
  <2>1. /\ Still /\ pc = "ledWait" /\ ssp = "idle"
        /\ UNCHANGED <<i, started, stopped>>
        /\ (pc' = "open" /\ rc = "ok") \/ pc' = "meta"
    BY <1>8, <1>e DEF PointLed, Meta, LedOk
  <2>2. Inv'
    BY <1>a, <1>b, <1>c, <2>1 DEF ControlInv, StopInv, PlaceInv, IntensityLabels, SweepLabels, SweepLit
  <2> QED BY <1>a, <2>2
<1>9. CASE Configure
  <2>1. /\ UNCHANGED sspvars /\ UNCHANGED <<wl, prog, dir, i, started, stopped>>
        /\ pc = "configure"
    BY <1>9 DEF Configure
  <2>2. Still
    BY <2>1 DEF sspvars, box, Light
  <2>3. (pc' = "open" /\ vgain' = X) \/ pc' = "meta" \/ pc' = Raised
    BY <1>9 DEF Configure, Meta, ConfigureOk
  <2>4. prog = "sweep" /\ started
    BY <2>1 DEF ControlInv, StopInv, PlaceInv, IntensityLabels, SweepLit
  <2>5. Raised = "stop"
    BY <2>4 DEF Raised
  <2>6. Inv'
    BY <1>a, <1>b, <1>c, <2>1, <2>2, <2>3, <2>4, <2>5
  <2> QED BY <1>a, <2>6
<1>10. CASE OpenRaw
  <2>1. /\ Still /\ pc = "open" /\ UNCHANGED <<i, started, stopped, vgain>>
        /\ pc' = "acquire"
    BY <1>10, <1>e DEF OpenRaw, scanrest
  <2>2. Inv'
    BY <1>a, <1>b, <1>c, <2>1
  <2> QED BY <1>a, <2>2
<1>11. CASE Acquire
  <2>1. /\ Still /\ pc = "acquire" /\ UNCHANGED <<i, started, stopped, vgain>>
        /\ pc' = "acquire"
    BY <1>11, <1>e DEF Acquire, scanrest
  <2>2. Inv'
    BY <1>a, <1>b, <1>c, <2>1
  <2> QED BY <1>a, <2>2
<1>12. CASE AcquireFails
  <2>1. /\ Still /\ pc = "acquire" /\ UNCHANGED <<i, started, stopped>>
        /\ pc' = "meta"
    BY <1>12, <1>e DEF AcquireFails, Meta
  <2>2. Inv'
    BY <1>a, <1>b, <1>c, <2>1
  <2> QED BY <1>a, <2>2
<1>13. CASE Acquired
  <2>1. /\ Still /\ pc = "acquire" /\ UNCHANGED <<i, started, stopped>>
        /\ pc' \in {"analysis", "meta"}
    BY <1>13, <1>e DEF Acquired, Meta
  <2>2. Inv'
    BY <1>a, <1>b, <1>c, <2>1
  <2> QED BY <1>a, <2>2
<1>14. CASE WriteAnalysis
  <2>1. /\ Still /\ pc = "analysis" /\ UNCHANGED <<i, started, stopped>>
        /\ pc' = "meta"
    BY <1>14, <1>e DEF WriteAnalysis, Meta
  <2>2. Inv'
    BY <1>a, <1>b, <1>c, <2>1 DEF ControlInv, StopInv, PlaceInv, IntensityLabels, SweepLabels, SweepLit
  <2> QED BY <1>a, <2>2
<1>15. CASE SweepLed
  <2>1. /\ Still /\ pc = "sweepLedWait" /\ ssp = "idle" /\ UNCHANGED stopped
        /\ pc' = "ledManifest"
    BY <1>15, <1>e DEF SweepLed
  <2>2. Inv'
    BY <1>a, <1>b, <2>1
  <2> QED BY <1>a, <2>2
<1>21. CASE RecordLed
  <2>1. /\ Still /\ pc = "ledManifest" /\ UNCHANGED stopped
        /\ pc' = "off" \/ (pc' = "point" /\ rc = "ok")
    BY <1>21, <1>e DEF RecordLed, End
  <2>2. Inv'
    BY <1>a, <1>b, <2>1
  <2> QED BY <1>a, <2>2
<1>16. CASE LastPoint
  <2>1. /\ UNCHANGED sspvars /\ UNCHANGED <<wl, prog, dir, stopped>> /\ pc' = "stop"
    BY <1>16 DEF LastPoint, disk
  <2>2. Still
    BY <2>1 DEF sspvars, box, Light
  <2>3. Inv'
    BY <1>a, <1>b, <2>1, <2>2
  <2> QED BY <1>a, <2>3
<1>17. CASE StopEnds
  <2>1. /\ Still /\ pc = "stopWait" /\ ssp = "idle" /\ stopped' = rc
        /\ pc' \in {"manifest", "end"}
    BY <1>17, <1>e DEF StopEnds
  <2>3. rc # "none"
    BY <2>1 DEF ControlInv, CommandInv, Waits
  <2>2. Inv'
    BY <1>a, <1>b, <2>1, <2>3
  <2> QED BY <1>a, <2>2
<1>18. CASE EndScan
  <2>1. /\ Still /\ pc' = "off" /\ UNCHANGED stopped
    BY <1>18, <1>e DEF EndScan, End
  <2>2. Inv'
    BY <1>a, <1>b, <1>c, <2>1
  <2> QED BY <1>a, <2>2
<1>19. ASSUME NEW d \in Dirs, NEW nm \in Wavelength, StartScan(d, nm) PROVE LightInv'
  <2>1. pc' = "manifest" /\ started' = FALSE /\ stopped' = None
    BY <1>19 DEF StartScan
  <2>2. Inv'
    BY <2>1
  <2> QED BY <1>a, <2>2
<1>20. ASSUME NEW kill \in BOOLEAN, Crash(kill) PROVE LightInv'
  <2>1. UNCHANGED <<Light, stopped>> /\ (pc' = "off" \/ pc' = "stop")
    BY <1>20 DEF Crash, End, Raised, FinallyStops, box, Light
  <2>2. Inv'
    BY <1>a, <1>b, <2>1
  <2> QED BY <1>a, <2>2
<1> QED BY <1>1, <1>2, <1>3, <1>4, <1>5, <1>6, <1>7, <1>8, <1>9, <1>10, <1>11, <1>12, <1>13,
           <1>14, <1>15, <1>16, <1>17, <1>18, <1>19, <1>20, <1>21
        DEF ScanNext, ScanStep, ScanOther

-----------------------------------------------------------------------------
(* What the steps of a point write.                                        *)

DataInv == DiskInv /\ UseInv /\ WorkInv

(* A step that leaves the points alone.                                    *)
LEMMA Quiet ==
  ASSUME DataInv, PlaceInv, UNCHANGED <<point, used, wl, prog, dir, starts>>,
         manifest' \in [Dirs -> Wavelength \cup {NoManifest, TornManifest}],
         \A d \in Dirs : manifest'[d] \in {NoManifest, TornManifest, wl[d]},
         pc' = "off" \/ (pc # "off" /\ pc' \notin {"analysis", "meta"} /\ i' = i)
  PROVE DataInv'
<1>1. \A d \in Dirs, x \in Point : LightAt(d, x)' = LightAt(d, x)
  BY DEF LightAt, PointLight, Lit, resolve_led_biases, SweepJob
<1>2. DiskInv'
  BY <1>1, Zenon DEF DataInv, DiskInv
<1>3. UseInv'
  BY DEF DataInv, UseInv
<1>4. WorkInv'
  BY DEF DataInv, WorkInv
<1> QED BY <1>2, <1>3, <1>4 DEF DataInv

(* A step that writes the point at hand.                                   *)
LEMMA Stored ==
  ASSUME DataInv, PlaceInv, i \in 1..Len(inclusive_range), NEW q, SetPoint(q),
         PointOk(LightAt(dir, X), used[dir], prog, X, q),
         UNCHANGED <<manifest, used, wl, prog, dir, starts>>, pc # "off", pc' # "off",
         pc' = "analysis" => q.raw.n = Waveforms,
         pc' = "meta" => status' \in Status,
         pc' = "meta" /\ status' = "analyzed" => q.raw.n = Waveforms /\ q.analysis = q.raw,
         i' = i \/ (i' = i + 1 /\ pc' \notin {"analysis", "meta"}),
         used[dir] = 1 /\ i' = i => q.meta # "analyzed"
  PROVE DataInv'
<1>1. \A d \in Dirs, x \in Point : LightAt(d, x)' = LightAt(d, x)
  BY DEF LightAt, PointLight, Lit, resolve_led_biases, SweepJob
<1>2. X \in Point /\ dir \in Dirs
  BY RangeFacts DEF X, PlaceInv
<1>3. DOMAIN point = Dirs /\ \A d \in Dirs : DOMAIN point[d] = Point
  BY DEF DataInv, DiskInv
<1>4. point' = [point EXCEPT ![dir][X] = q]
  BY DEF SetPoint
<1> DEFINE x == X
<1>5. x = X /\ x = inclusive_range[i]
  BY DEF X
<1> HIDE DEF x
<1>6. /\ DOMAIN point' = Dirs /\ \A d \in Dirs : DOMAIN point'[d] = Point
      /\ point'[dir][x] = q
      /\ \A d \in Dirs, y \in Point : d # dir \/ y # x => point'[d][y] = point[d][y]
  BY <1>2, <1>3, <1>4, <1>5
<1>7. DiskInv'
  <2> SUFFICES ASSUME NEW d \in Dirs, NEW y \in Point
               PROVE PointOk(LightAt(d, y), used[d], prog, y, point'[d][y])
    BY <1>1, <1>6, Zenon DEF DiskInv
  <2>1. CASE d = dir /\ y = x
    BY <1>5, <1>6, <2>1
  <2>2. CASE d # dir \/ y # x
    <3>1. point'[d][y] = point[d][y]
      BY <1>6, <2>2
    <3> QED BY <3>1, Zenon DEF DataInv, DiskInv
  <2> QED BY <2>1, <2>2
<1>8. UseInv'
  BY DEF DataInv, UseInv
<1>9. i' = i => Here' = q
  BY <1>5, <1>6 DEF Here, X
<1>10. ASSUME used[dir] = 1, NEW j \in 1..Len(inclusive_range), j >= i'
       PROVE point'[dir][inclusive_range[j]].meta # "analyzed"
  <2>1. inclusive_range[j] \in Point /\ i \in Int /\ j \in Int
    BY RangeFacts
  <2>2. CASE j = i
    <3>1. i' = i
      BY <1>10, <2>1, <2>2
    <3> QED BY <1>5, <1>6, <2>2, <3>1, <1>10
  <2>3. CASE j # i
    <3>1. inclusive_range[j] # x
      BY <1>5, <2>3, RangeFacts
    <3>2. point'[dir][inclusive_range[j]] = point[dir][inclusive_range[j]]
      BY <1>2, <1>6, <2>1, <3>1
    <3>3. j >= i
      BY <1>10, <2>1
    <3> QED BY <1>10, <3>2, <3>3 DEF DataInv, WorkInv
  <2> QED BY <2>2, <2>3
<1>11. WorkInv'
  BY <1>9, <1>10 DEF WorkInv
<1> QED BY <1>7, <1>8, <1>11 DEF DataInv

(* Writing one of a point's files.                                         *)
LEMMA MadeOk ==
  ASSUME NEW L, NEW u, NEW g, NEW x, NEW p, PointOk(L, u, g, x, p), u # 0,
         NEW t \in BOOLEAN, NEW q, q = [p EXCEPT !.made = t]
  PROVE PointOk(L, u, g, x, q) /\ q.meta = p.meta
<1>1. p = [made |-> p.made, meta |-> p.meta, analysis |-> p.analysis, raw |-> p.raw]
  BY DEF PointOk
<1>2. q = [made |-> t, meta |-> p.meta, analysis |-> p.analysis, raw |-> p.raw]
  BY <1>1
<1>3. q.made = t /\ q.meta = p.meta /\ q.analysis = p.analysis /\ q.raw = p.raw
  BY <1>2
<1>4. q = [made |-> q.made, meta |-> q.meta, analysis |-> q.analysis, raw |-> q.raw]
  BY <1>2, <1>3
<1>5. PointOk(L, u, g, x, q)
  BY <1>3, <1>4, Zenon DEF PointOk
<1> QED BY <1>3, <1>5

(* The metadata says analyzed only of a point that is.                     *)
LEMMA MetaOk ==
  ASSUME NEW L, NEW u, NEW g, NEW x, NEW p, PointOk(L, u, g, x, p), u # 0,
         NEW m \in Status \cup {None, Torn},
         m = "analyzed" => p.raw.n = Waveforms /\ p.analysis = p.raw, NEW q,
         q = [p EXCEPT !.meta = m]
  PROVE PointOk(L, u, g, x, q) /\ q.meta = m /\ q.raw = p.raw /\ q.analysis = p.analysis
<1>1. p = [made |-> p.made, meta |-> p.meta, analysis |-> p.analysis, raw |-> p.raw]
  BY DEF PointOk
<1>2. q = [made |-> p.made, meta |-> m, analysis |-> p.analysis, raw |-> p.raw]
  BY <1>1
<1>3. q.made = p.made /\ q.meta = m /\ q.analysis = p.analysis /\ q.raw = p.raw
  BY <1>2
<1>4. q = [made |-> q.made, meta |-> q.meta, analysis |-> q.analysis, raw |-> q.raw]
  BY <1>2, <1>3
<1>5. PointOk(L, u, g, x, q)
  BY <1>3, <1>4, Zenon DEF PointOk
<1> QED BY <1>3, <1>5

(* An analysis of a whole acquisition, or a torn one.                      *)
LEMMA AnalysisOk ==
  ASSUME NEW L, NEW u, NEW g, NEW x, NEW p, PointOk(L, u, g, x, p), u # 0,
         NEW a, a \in {NoAnalysis, TornAnalysis} \/ (a.n = Waveforms /\ a.light = {L}),
         u = 1 => p.meta # "analyzed", NEW q, q = [p EXCEPT !.analysis = a]
  PROVE PointOk(L, u, g, x, q) /\ q.meta = p.meta /\ q.raw = p.raw /\ q.analysis = a
<1>1. p = [made |-> p.made, meta |-> p.meta, analysis |-> p.analysis, raw |-> p.raw]
  BY DEF PointOk
<1>2. q = [made |-> p.made, meta |-> p.meta, analysis |-> a, raw |-> p.raw]
  BY <1>1
<1>3. q.made = p.made /\ q.meta = p.meta /\ q.analysis = a /\ q.raw = p.raw
  BY <1>2
<1>4. q = [made |-> q.made, meta |-> q.meta, analysis |-> q.analysis, raw |-> q.raw]
  BY <1>2, <1>3
<1>5. PointOk(L, u, g, x, q)
  BY <1>3, <1>4, Zenon DEF PointOk
<1> QED BY <1>3, <1>5

(* Raw files with frames of the point's light only.                        *)
LEMMA RawOk ==
  ASSUME NEW L, NEW u, NEW g, NEW x, NEW p, PointOk(L, u, g, x, p), u # 0,
         NEW a, a.n \in 0..Waveforms, a.light \subseteq {L}, a.n > 0 => a.light # {},
         g = "sweep" => a.vgain \subseteq {x},
         u = 1 => p.meta # "analyzed", NEW q, q = [p EXCEPT !.raw = a]
  PROVE PointOk(L, u, g, x, q) /\ q.meta = p.meta
<1>1. p = [made |-> p.made, meta |-> p.meta, analysis |-> p.analysis, raw |-> p.raw]
  BY DEF PointOk
<1>2. q = [made |-> p.made, meta |-> p.meta, analysis |-> p.analysis, raw |-> a]
  BY <1>1
<1>3. q.made = p.made /\ q.meta = p.meta /\ q.analysis = p.analysis /\ q.raw = a
  BY <1>2
<1>4. q = [made |-> q.made, meta |-> q.meta, analysis |-> q.analysis, raw |-> q.raw]
  BY <1>2, <1>3
<1>5. PointOk(L, u, g, x, q)
  BY <1>3, <1>4, Zenon DEF PointOk
<1> QED BY <1>3, <1>5

(* What is known of the point at hand.                                     *)
LEMMA AtHand ==
  ASSUME DataInv, PlaceInv, pc # "off", i \in 1..Len(inclusive_range)
  PROVE /\ PointOk(LightAt(dir, X), used[dir], prog, X, Here) /\ used[dir] # 0
        /\ used[dir] = 1 => Here.meta # "analyzed"
<1>1. X \in Point /\ dir \in Dirs
  BY RangeFacts DEF X, PlaceInv
<1>2. used[dir] \in Nat /\ used[dir] > 0
  BY <1>1 DEF DataInv, UseInv
<1>3. PointOk(LightAt(dir, X), used[dir], prog, X, Here)
  BY <1>1, Zenon DEF DataInv, DiskInv, Here
<1>4. ASSUME used[dir] = 1 PROVE Here.meta # "analyzed"
  <2>1. i >= i
    BY RangeFacts
  <2> QED BY <1>4, <2>1 DEF DataInv, WorkInv, Here, X
<1> QED BY <1>2, <1>3, <1>4

(* The metadata is truncated, whatever is written to it next.              *)
LEMMA Truncated ==
  ASSUME DataInv, PlaceInv, pc # "off", i \in 1..Len(inclusive_range),
         NEW p, PointOk(LightAt(dir, X), used[dir], prog, X, p), NEW s \in Status, Meta(s, p),
         s = "analyzed" => p.raw.n = Waveforms /\ p.analysis = p.raw,
         UNCHANGED <<manifest, used, wl, prog, dir, starts, i>>
  PROVE DataInv'
<1> DEFINE q == [p EXCEPT !.meta = Torn]
<1>1. SetPoint(q) /\ status' = s /\ pc' = "meta"
  BY DEF Meta
<1>2. used[dir] # 0 /\ Torn # "analyzed" /\ Torn \in Status \cup {None, Torn}
  BY AtHand DEF Torn
<1>3. /\ PointOk(LightAt(dir, X), used[dir], prog, X, q) /\ q.meta = Torn
      /\ q.raw = p.raw /\ q.analysis = p.analysis
  BY <1>2, MetaOk
<1> HIDE DEF q
<1> QED BY <1>1, <1>2, <1>3, Stored

(* The directories, one step per action.                                   *)
LEMMA DataNext ==
  ASSUME SspInv, ControlInv, ControlInv', LightInv, DataInv, ScanNext PROVE DataInv'
<1> DEFINE n == Len(inclusive_range)
           H == Here
           L == LightAt(dir, X)
<1>a. PlaceInv /\ Waveforms \in Nat /\ Waveforms >= 1
  BY ScanAssumption DEF ControlInv
<1>b. ASSUME pc \in AtPoint PROVE i \in 1..n /\ pc # "off"
  BY <1>a, <1>b, AtX DEF AtPoint
<1>c. ASSUME pc \in AtPoint \/ (pc = "point" /\ i \in 1..n)
      PROVE /\ i \in 1..n /\ pc # "off" /\ PointOk(L, used[dir], prog, X, H) /\ used[dir] # 0
            /\ used[dir] = 1 => H.meta # "analyzed"
  <2>1. i \in 1..n /\ pc # "off"
    BY <1>b, <1>c
  <2> QED BY <1>a, <2>1, AtHand
<1>d. /\ manifest \in [Dirs -> Wavelength \cup {NoManifest, TornManifest}]
      /\ \A d \in Dirs : manifest[d] \in {NoManifest, TornManifest, wl[d]}
  BY DEF DataInv, UseInv
<1>e. ASSUME UNCHANGED <<point, manifest, used, wl, prog, dir, starts>>,
             pc' = "off" \/ (pc # "off" /\ pc' \notin {"analysis", "meta"} /\ i' = i)
      PROVE DataInv'
  BY <1>a, <1>d, <1>e, Quiet
<1> HIDE DEF n, L, H
<1>1. CASE SspStep /\ UNCHANGED scanvars
  <2>1. UNCHANGED <<point, manifest, used, wl, prog, dir, starts, pc, i>>
    BY <1>1 DEF scanvars, disk
  <2>2. pc \in Waits
    BY <1>1, SspKeeps DEF SspEffect, ControlInv, CommandInv
  <2> QED BY <1>e, <2>1, <2>2 DEF Waits, LedWaits
<1>2. CASE WriteManifest
  <2>1. /\ pc = "manifest" /\ manifest' = [manifest EXCEPT ![dir] = wl[dir]]
        /\ UNCHANGED <<point, used, wl, prog, dir, starts, i>>
        /\ pc' \in {"calLed", "point", "end", "sweepLed"}
    BY <1>2 DEF WriteManifest, scanrest
  <2>2. dir \in Dirs /\ wl[dir] \in Wavelength
    BY <1>a, <2>1 DEF DataInv, UseInv, PlaceInv
  <2>3. /\ manifest' \in [Dirs -> Wavelength \cup {NoManifest, TornManifest}]
        /\ \A d \in Dirs : manifest'[d] \in {NoManifest, TornManifest, wl[d]}
    BY <1>d, <2>1, <2>2
  <2> QED BY <1>a, <2>1, <2>3, Quiet
<1>3. CASE RunLed
  <2>1. /\ pc # "off" /\ UNCHANGED <<point, manifest, used, wl, prog, dir, starts, i>>
        /\ pc' \notin {"analysis", "meta"}
    BY <1>3 DEF RunLed, disk
  <2> QED BY <1>e, <2>1
<1>4. CASE CalibrationLed
  <2>1. /\ pc # "off" /\ UNCHANGED <<point, manifest, used, wl, prog, dir, starts>>
        /\ pc' = "off" \/ (pc' = "calibrate" /\ UNCHANGED i)
    BY <1>4 DEF CalibrationLed, End, scanrest
  <2> QED BY <1>e, <2>1
<1>5. CASE Calibrate
  <2>1. /\ pc # "off" /\ UNCHANGED <<point, manifest, used, wl, prog, dir, starts>>
        /\ pc' = "off" \/ (pc' = "point" /\ UNCHANGED i)
    BY <1>5 DEF Calibrate, End, scanrest
  <2> QED BY <1>e, <2>1
<1>6. CASE BeginPoint
  <2>1. pc = "point" /\ i \in 1..n /\ UNCHANGED <<manifest, used, wl, prog, dir, starts, i>>
    BY <1>6, <1>a, RangeFacts DEF BeginPoint, scanrest, PlaceInv, n
  <2>2. /\ PointOk(L, used[dir], prog, X, H) /\ used[dir] # 0
        /\ used[dir] = 1 => H.meta # "analyzed"
    BY <1>c, <2>1
  <2> DEFINE t == TRUE
             q == [H EXCEPT !.made = t]
  <2>6. t \in BOOLEAN
    BY Zenon
  <2>3. PointOk(L, used[dir], prog, X, q) /\ q.meta = H.meta
    <3> HIDE DEF t
    <3> QED BY <2>2, <2>6, MadeOk
  <2>4. CASE prog = "intensity" /\ pc' = "led" /\ SetPoint([Here EXCEPT !.made = TRUE])
    <3>1. SetPoint(q)
      BY <2>4 DEF H
    <3> HIDE DEF q
    <3> QED BY <1>a, <2>1, <2>2, <2>3, <2>4, <3>1, Stored DEF n, L
  <2>5. CASE /\ prog = "sweep" /\ pc' = "meta" /\ status' = "started"
             /\ SetPoint([Here EXCEPT !.made = TRUE, !.meta = Torn])
    <3> DEFINE r == [q EXCEPT !.meta = Torn]
    <3>1. SetPoint(r)
      BY <2>5 DEF H
    <3>2. Torn # "analyzed" /\ Torn \in Status \cup {None, Torn} /\ "started" \in Status
      BY DEF Torn, Status
    <3> HIDE DEF q
    <3>3. PointOk(L, used[dir], prog, X, r) /\ r.meta = Torn
      BY <2>2, <2>3, <3>2, MetaOk
    <3> HIDE DEF r
    <3> QED BY <1>a, <2>1, <2>2, <2>5, <3>1, <3>2, <3>3, Stored DEF n, L
  <2> QED BY <1>6, <2>4, <2>5 DEF BeginPoint
<1>7. CASE WriteMeta
  <2> DEFINE q == [H EXCEPT !.meta = status]
  <2>1. /\ pc = "meta" /\ SetPoint(q) /\ UNCHANGED <<manifest, used, wl, prog, dir, starts>>
        /\ \/ status = "started" /\ pc' = "configure" /\ i' = i
           \/ status # "started" /\ pc' = "point" /\ i' = i + 1
    BY <1>7 DEF WriteMeta, scanrest, H
  <2>2. i \in 1..n /\ PointOk(L, used[dir], prog, X, H) /\ used[dir] # 0
    BY <1>c, <2>1 DEF AtPoint
  <2>3. /\ status \in Status
        /\ status = "analyzed" => H.raw.n = Waveforms /\ H.analysis = H.raw
    BY <2>1 DEF DataInv, WorkInv, H
  <2>4. PointOk(L, used[dir], prog, X, q) /\ q.meta = status
    BY <2>2, <2>3, MetaOk
  <2> HIDE DEF q
  <2> QED BY <1>a, <2>1, <2>2, <2>4, Stored DEF n, L
<1>8. CASE PointLed
  <2>1. pc = "ledWait" /\ UNCHANGED <<manifest, used, wl, prog, dir, starts, i>>
    BY <1>8 DEF PointLed, scanrest
  <2>2. CASE pc' = "open" /\ UNCHANGED point
    BY <1>e, <2>1, <2>2
  <2>3. CASE Meta("led_failed", H)
    <3>1. i \in 1..n /\ pc # "off" /\ PointOk(L, used[dir], prog, X, H)
      BY <1>c, <2>1 DEF AtPoint
    <3> QED BY <1>a, <2>1, <2>3, <3>1, Truncated DEF Status, n, L
  <2> QED BY <1>8, <2>2, <2>3 DEF PointLed, H
<1>9. CASE Configure
  <2>1. pc = "configure" /\ UNCHANGED <<manifest, used, wl, prog, dir, starts, i>>
    BY <1>9 DEF Configure
  <2>2. CASE pc' \in {"open", Raised} /\ UNCHANGED point
    BY <1>e, <2>1, <2>2 DEF Raised
  <2>3. CASE Meta("configure_failed", H)
    <3>1. i \in 1..n /\ pc # "off" /\ PointOk(L, used[dir], prog, X, H)
      BY <1>c, <2>1 DEF AtPoint
    <3> QED BY <1>a, <2>1, <2>3, <3>1, Truncated DEF Status, n, L
  <2> QED BY <1>9, <2>2, <2>3 DEF Configure, H
<1>10. CASE OpenRaw
  <2> DEFINE q == [H EXCEPT !.raw = NoRaw]
  <2>1. /\ pc = "open" /\ SetPoint(q) /\ pc' = "acquire"
        /\ UNCHANGED <<manifest, used, wl, prog, dir, starts, i>>
    BY <1>10 DEF OpenRaw, scanrest, H
  <2>2. /\ i \in 1..n /\ PointOk(L, used[dir], prog, X, H) /\ used[dir] # 0
        /\ used[dir] = 1 => H.meta # "analyzed"
    BY <1>c, <2>1 DEF AtPoint
  <2>3. NoRaw.n = 0 /\ NoRaw.light = {} /\ NoRaw.vgain = {}
    BY DEF NoRaw, Files
  <2>4. NoRaw.n \in 0..Waveforms /\ ~(NoRaw.n > 0) /\ NoRaw.light \subseteq {L}
        /\ NoRaw.vgain \subseteq {X}
    BY <1>a, <2>3
  <2>5. PointOk(L, used[dir], prog, X, q) /\ q.meta = H.meta
    BY <2>2, <2>4, RawOk
  <2> HIDE DEF q
  <2> QED BY <1>a, <2>1, <2>2, <2>5, Stored DEF n, L
<1>11. CASE Acquire
  <2> DEFINE a == [n |-> H.raw.n + 1, light |-> H.raw.light \cup {Light},
                   vgain |-> H.raw.vgain \cup {vgain}]
             q == [H EXCEPT !.raw = a]
  <2>1. /\ pc = "acquire" /\ H.raw.n < Waveforms /\ SetPoint(q) /\ pc' = "acquire"
        /\ UNCHANGED <<manifest, used, wl, prog, dir, starts, i>>
    BY <1>11 DEF Acquire, scanrest, H
  <2>2. /\ i \in 1..n /\ PointOk(L, used[dir], prog, X, H) /\ used[dir] # 0
        /\ used[dir] = 1 => H.meta # "analyzed"
    BY <1>c, <2>1 DEF AtPoint
  <2>3. /\ H.raw.n \in 0..Waveforms /\ H.raw.light \subseteq {L}
        /\ prog = "sweep" => H.raw.vgain \subseteq {X}
    BY <2>2 DEF PointOk
  <2>4. Light = L /\ (prog = "sweep" => vgain = X)
    BY <2>1 DEF LightInv, L
  <2>5. /\ a.n = H.raw.n + 1 /\ a.light = H.raw.light \cup {Light}
        /\ a.vgain = H.raw.vgain \cup {vgain}
    OBVIOUS
  <2> HIDE DEF a
  <2>6. /\ a.n \in 0..Waveforms /\ a.light \subseteq {L} /\ a.light # {}
        /\ prog = "sweep" => a.vgain \subseteq {X}
    BY <1>a, <2>1, <2>3, <2>4, <2>5
  <2>7. PointOk(L, used[dir], prog, X, q) /\ q.meta = H.meta
    BY <2>2, <2>6, RawOk
  <2> HIDE DEF q
  <2> QED BY <1>a, <2>1, <2>2, <2>7, Stored DEF n, L
<1>12. CASE AcquireFails
  <2>1. /\ pc = "acquire" /\ Meta("acquire_failed", H)
        /\ UNCHANGED <<manifest, used, wl, prog, dir, starts, i>>
    BY <1>12 DEF AcquireFails, scanrest, H
  <2>2. i \in 1..n /\ pc # "off" /\ PointOk(L, used[dir], prog, X, H)
    BY <1>c, <2>1 DEF AtPoint
  <2> QED BY <1>a, <2>1, <2>2, Truncated DEF Status, n, L
<1>13. CASE Acquired
  <2>1. /\ pc = "acquire" /\ H.raw.n >= Waveforms
        /\ UNCHANGED <<manifest, used, wl, prog, dir, starts, i>>
    BY <1>13 DEF Acquired, scanrest, H
  <2>2. /\ i \in 1..n /\ pc # "off" /\ PointOk(L, used[dir], prog, X, H) /\ used[dir] # 0
        /\ used[dir] = 1 => H.meta # "analyzed"
    BY <1>c, <2>1 DEF AtPoint
  <2>3. CASE Meta("captured", H)
    BY <1>a, <2>1, <2>2, <2>3, Truncated DEF Status, n, L
  <2>4. CASE pc' = "analysis" /\ SetPoint([Here EXCEPT !.analysis = TornAnalysis])
    <3> DEFINE q == [H EXCEPT !.analysis = TornAnalysis]
    <3>1. SetPoint(q)
      BY <2>4 DEF H
    <3>2. PointOk(L, used[dir], prog, X, q) /\ q.meta = H.meta /\ q.raw = H.raw
      BY <2>2, AnalysisOk
    <3>3. H.raw.n = Waveforms
      BY <1>a, <2>1, <2>2 DEF PointOk
    <3> HIDE DEF q
    <3> QED BY <1>a, <2>1, <2>2, <2>4, <3>1, <3>2, <3>3, Stored DEF n, L
  <2> QED BY <1>13, <2>3, <2>4 DEF Acquired, H
<1>14. CASE WriteAnalysis
  <2> DEFINE q == [H EXCEPT !.analysis = H.raw]
  <2>1. /\ pc = "analysis" /\ Meta("analyzed", q)
        /\ UNCHANGED <<manifest, used, wl, prog, dir, starts, i>>
    BY <1>14 DEF WriteAnalysis, scanrest, H
  <2>2. /\ i \in 1..n /\ pc # "off" /\ PointOk(L, used[dir], prog, X, H) /\ used[dir] # 0
        /\ used[dir] = 1 => H.meta # "analyzed"
    BY <1>c, <2>1 DEF AtPoint
  <2>3. H.raw.n = Waveforms
    BY <2>1 DEF DataInv, WorkInv, H
  <2>4. H.raw.light = {L}
    <3>1. H.raw.light \subseteq {L} /\ H.raw.light # {}
      BY <1>a, <2>2, <2>3 DEF PointOk
    <3> QED BY <3>1
  <2>5. /\ PointOk(L, used[dir], prog, X, q) /\ q.raw = H.raw /\ q.analysis = H.raw
    BY <2>2, <2>3, <2>4, AnalysisOk
  <2> HIDE DEF q
  <2> QED BY <1>a, <2>1, <2>2, <2>3, <2>5, Truncated DEF Status, n, L
<1>15. CASE SweepLed
  <2>1. /\ pc # "off" /\ UNCHANGED <<point, used, wl, prog, dir, starts, i>>
        /\ pc' = "ledManifest" /\ manifest' = [manifest EXCEPT ![dir] = TornManifest]
    BY <1>15 DEF SweepLed, scanrest
  <2>2. /\ manifest' \in [Dirs -> Wavelength \cup {NoManifest, TornManifest}]
        /\ \A d \in Dirs : manifest'[d] \in {NoManifest, TornManifest, wl[d]}
    BY <1>d, <2>1
  <2> QED BY <1>a, <2>1, <2>2, Quiet
<1>21. CASE RecordLed
  <2>1. /\ pc # "off" /\ UNCHANGED <<point, used, wl, prog, dir, starts>>
        /\ pc' = "off" \/ (pc' = "point" /\ UNCHANGED i)
        /\ manifest' = [manifest EXCEPT ![dir] = wl[dir]]
    BY <1>21 DEF RecordLed, End, scanrest
  <2>2. dir \in Dirs /\ wl[dir] \in Wavelength
    BY <1>a, <2>1 DEF DataInv, UseInv, PlaceInv
  <2>3. /\ manifest' \in [Dirs -> Wavelength \cup {NoManifest, TornManifest}]
        /\ \A d \in Dirs : manifest'[d] \in {NoManifest, TornManifest, wl[d]}
    BY <1>d, <2>1, <2>2
  <2> QED BY <1>a, <2>1, <2>3, Quiet
<1>16. CASE LastPoint
  <2>1. /\ pc # "off" /\ UNCHANGED <<point, manifest, used, wl, prog, dir, starts, i>>
        /\ pc' = "stop"
    BY <1>16 DEF LastPoint, disk
  <2> QED BY <1>e, <2>1
<1>17. CASE StopEnds
  <2>1. /\ pc # "off" /\ UNCHANGED <<point, used, wl, prog, dir, starts, i>>
        /\ pc' \in {"manifest", "end"}
        /\ UNCHANGED manifest \/ manifest' = [manifest EXCEPT ![dir] = TornManifest]
    BY <1>17 DEF StopEnds, scanrest
  <2>2. /\ manifest' \in [Dirs -> Wavelength \cup {NoManifest, TornManifest}]
        /\ \A d \in Dirs : manifest'[d] \in {NoManifest, TornManifest, wl[d]}
    BY <1>d, <2>1
  <2> QED BY <1>a, <2>1, <2>2, Quiet
<1>18. CASE EndScan
  <2>1. pc' = "off" /\ UNCHANGED <<point, manifest, used, wl, prog, dir, starts>>
    BY <1>18 DEF EndScan, End, scanrest
  <2> QED BY <1>e, <2>1
<1>19. ASSUME NEW d \in Dirs, NEW nm \in Wavelength, StartScan(d, nm) PROVE DataInv'
  <2>1. /\ pc = "off" /\ pc' = "manifest" /\ dir' = d /\ i' = 1 /\ starts' = starts + 1
        /\ used' = [used EXCEPT ![d] = @ + 1] /\ wl' = [wl EXCEPT ![d] = nm]
        /\ manifest' = [manifest EXCEPT ![d] = TornManifest]
        /\ used[d] > 0 => nm = wl[d]
        /\ UNCHANGED <<point, prog>>
    BY <1>19 DEF StartScan
  <2>2. /\ used \in [Dirs -> Nat] /\ wl \in [Dirs -> Wavelength \cup {0}]
        /\ starts \in Nat
        /\ \A e \in Dirs : used[e] <= starts /\ (used[e] > 0 => wl[e] \in Wavelength)
    BY <1>a, ScanAssumption DEF DataInv, UseInv, PlaceInv
  <2>3. /\ used' \in [Dirs -> Nat] /\ wl' \in [Dirs -> Wavelength \cup {0}]
        /\ used'[d] = used[d] + 1 /\ wl'[d] = nm
        /\ \A e \in Dirs : e # d => used'[e] = used[e] /\ wl'[e] = wl[e]
    BY <2>1, <2>2
  <2>4. /\ manifest' \in [Dirs -> Wavelength \cup {NoManifest, TornManifest}]
        /\ manifest'[d] = TornManifest
        /\ \A e \in Dirs : e # d => manifest'[e] = manifest[e]
    BY <1>d, <2>1
  <2>5. UseInv'
    <3>1. ASSUME NEW e \in Dirs
          PROVE /\ used'[e] <= starts' /\ (used'[e] > 0 => wl'[e] \in Wavelength)
                /\ manifest'[e] \in {NoManifest, TornManifest, wl'[e]}
      <4>1. CASE e = d
        BY <2>1, <2>2, <2>3, <2>4, <4>1
      <4>2. CASE e # d
        BY <1>d, <2>1, <2>2, <2>3, <2>4, <4>2
      <4> QED BY <4>1, <4>2
    <3>2. used'[dir'] > 0
      BY <2>1, <2>2, <2>3
    <3> QED BY <2>3, <2>4, <3>1, <3>2 DEF UseInv
  <2>6. ASSUME used[d] = 0, NEW x \in Point PROVE point[d][x] = NoPoint
    <3>1. PointOk(LightAt(d, x), used[d], prog, x, point[d][x])
      BY Zenon DEF DataInv, DiskInv
    <3> QED BY <2>6, <3>1 DEF PointOk
  <2>7. ASSUME NEW e \in Dirs, NEW x \in Point
        PROVE PointOk(LightAt(e, x)', used'[e], prog, x, point[e][x])
    <3> DEFINE M == LightAt(e, x)
               p == point[e][x]
    <3>1. PointOk(M, used[e], prog, x, p)
      BY Zenon DEF DataInv, DiskInv
    <3>2. wl'[e] = wl[e] => M' = M
      BY <2>1 DEF LightAt, PointLight, Lit, resolve_led_biases, SweepJob
    <3> HIDE DEF M
    <3>3. CASE e # d
      BY <2>3, <3>1, <3>2, <3>3, Zenon DEF M
    <3>4. CASE e = d /\ used[d] > 0
      <4>1. M' = M /\ used'[e] # 0 /\ used'[e] # 1 /\ used[e] # 0
        BY <2>1, <2>2, <2>3, <3>2, <3>4
      <4>2. PointOk(M, used'[e], prog, x, p)
        <5> HIDE DEF p
        <5> QED BY <3>1, <4>1, Zenon DEF PointOk
      <4> QED BY <4>1, <4>2, Zenon DEF M
    <3>5. CASE e = d /\ used[d] = 0
      <4>1. p = NoPoint
        BY <2>6, <3>5
      <4>2. used'[e] = 1
        BY <2>3, <3>5
      <4> DEFINE K == M'
      <4> HIDE DEF K
      <4>3. PointOk(K, 1, prog, x, NoPoint)
        <5>1. /\ NoPoint.made = FALSE /\ NoPoint.meta = None
              /\ NoPoint.analysis = NoAnalysis /\ NoPoint.raw = NoRaw
              /\ NoPoint = [made |-> NoPoint.made, meta |-> NoPoint.meta,
                            analysis |-> NoPoint.analysis, raw |-> NoPoint.raw]
          BY DEF NoPoint
        <5>2. NoRaw.n = 0 /\ NoRaw.light = {} /\ NoRaw.vgain = {}
          BY DEF NoRaw, Files
        <5>3. None # "analyzed" /\ 0 \in 0..Waveforms /\ ~(0 > 0) /\ 1 # 0
          BY <1>a DEF None
        <5>4. NoPoint.made \in BOOLEAN
          BY <5>1, Zenon
        <5> QED BY <5>1, <5>2, <5>3, <5>4 DEF PointOk
      <4> QED BY <4>1, <4>2, <4>3, Zenon DEF K, M
    <3> QED BY <2>2, <3>3, <3>4, <3>5
  <2>8. DiskInv'
    <3>1. DOMAIN point = Dirs /\ \A e \in Dirs : DOMAIN point[e] = Point
      BY DEF DataInv, DiskInv
    <3> QED BY <2>1, <2>7, <3>1, Zenon DEF DiskInv
  <2>9. WorkInv'
    <3>1. ASSUME used'[d] = 1, NEW j \in 1..Len(inclusive_range)
          PROVE point[d][inclusive_range[j]].meta # "analyzed"
      <4>1. used[d] = 0 /\ inclusive_range[j] \in Point
        BY <2>2, <2>3, <3>1, RangeFacts
      <4>2. point[d][inclusive_range[j]] = NoPoint
        BY <2>6, <4>1
      <4> QED BY <4>2 DEF NoPoint, None
    <3> QED BY <2>1, <3>1 DEF WorkInv
  <2> QED BY <2>5, <2>8, <2>9 DEF DataInv
<1>20. ASSUME NEW kill \in BOOLEAN, Crash(kill) PROVE DataInv'
  <2>1. /\ pc # "off" /\ UNCHANGED <<point, manifest, used, wl, prog, dir, starts>>
        /\ pc' = "off" \/ (pc' \in {"stop", "end"} /\ UNCHANGED i)
    BY <1>20 DEF Crash, End, Raised, FinallyStops
  <2> QED BY <1>e, <2>1
<1> QED BY <1>1, <1>2, <1>3, <1>4, <1>5, <1>6, <1>7, <1>8, <1>9, <1>10, <1>11, <1>12, <1>13,
           <1>14, <1>15, <1>16, <1>17, <1>18, <1>19, <1>20, <1>21
        DEF ScanNext, ScanStep, ScanOther

-----------------------------------------------------------------------------
(* The invariant is inductive.                                             *)
LEMMA ScanStarts == SspInit /\ ScanInit => ScanInv
<1> SUFFICES ASSUME SspInit, NEW p \in {"intensity", "sweep"}, ScanWith(p) PROVE ScanInv
  BY DEF ScanInit
<1>1. SspInv
  <2>1. Dark \in [Led -> Nat]
    BY DEF Dark
  <2>2. 0 \in 0..(NumChannels + MaxAttempts) /\ 0 \in 0..MaxFaults
    BY LedFacts
  <2>3. matched \in BOOLEAN
    BY Zenon DEF SspInit
  <2>4. SspTypeOK
    BY <2>1, <2>2, <2>3 DEF SspInit, SspTypeOK
  <2> QED BY <2>4, NoJobType DEF SspInit, SspInv, StopSteps
<1>2. /\ pc = "off" /\ prog = p /\ i = 1 /\ status = None /\ started = FALSE
      /\ stopped = None /\ how = None /\ starts = 0 /\ crashes = 0 /\ vgain = 0
      /\ ssp = "idle"
  BY DEF ScanWith, SspInit
<1>3. PlaceInv
  <2>1. dir \in Dirs
    BY ScanAssumption DEF ScanWith
  <2>2. 1 \in 1..(Len(inclusive_range) + 1) /\ 0 \in 0..MaxStarts /\ 0 \in 0..MaxCrashes
    BY RangeFacts, ScanAssumption
  <2>3. started \in BOOLEAN
    BY <1>2, Zenon
  <2> QED BY <1>2, <2>1, <2>2, <2>3 DEF PlaceInv, IntensityLabels, SweepLabels, AtPoint, None
<1>4. CommandInv /\ StopInv /\ LightInv
  BY <1>2 DEF CommandInv, StopInv, LightInv, RunSteps, StopSteps, Waits, LedWaits, SweepLit, None
<1>5. DiskInv
  <2>1. point = [d \in Dirs |-> [x \in Point |-> NoPoint]] /\ used = [d \in Dirs |-> 0]
    BY DEF ScanWith
  <2>2. DOMAIN point = Dirs /\ \A d \in Dirs : DOMAIN point[d] = Point
    BY <2>1
  <2>3. ASSUME NEW K, NEW x PROVE PointOk(K, 0, prog, x, NoPoint)
    <3>1. /\ NoPoint.made = FALSE /\ NoPoint.meta = None
          /\ NoPoint.analysis = NoAnalysis /\ NoPoint.raw = NoRaw
          /\ NoPoint = [made |-> NoPoint.made, meta |-> NoPoint.meta,
                        analysis |-> NoPoint.analysis, raw |-> NoPoint.raw]
      BY DEF NoPoint
    <3>2. NoRaw.n = 0 /\ NoRaw.light = {} /\ NoRaw.vgain = {}
      BY DEF NoRaw, Files
    <3>3. None # "analyzed" /\ 0 \in 0..Waveforms /\ ~(0 > 0)
      BY ScanAssumption DEF None
    <3>4. NoPoint.made \in BOOLEAN
      BY <3>1, Zenon
    <3> QED BY <3>1, <3>2, <3>3, <3>4 DEF PointOk
  <2>4. \A d \in Dirs, x \in Point : point[d][x] = NoPoint /\ used[d] = 0
    BY <2>1
  <2> QED BY <2>2, <2>3, <2>4, Zenon DEF DiskInv
<1>6. UseInv
  BY <1>2 DEF ScanWith, UseInv, NoManifest
<1>7. WorkInv
  BY <1>2 DEF WorkInv
<1> QED BY <1>1, <1>3, <1>4, <1>5, <1>6, <1>7 DEF ScanInv

(* Every step keeps the invariant, group by group.                         *)
LEMMA ScanKeeps == ScanInv /\ [ScanNext]_<<sspvars, scanvars>> => ScanInv'
<1>1. ASSUME ScanInv, ScanNext PROVE ScanInv'
  <2>1. SspInv /\ ControlInv /\ LightInv /\ DataInv
    BY <1>1 DEF ScanInv, ControlInv, DataInv
  <2>2. SspInv'
    <3>0. /\ bias \in [Led -> Nat] /\ applied \in [Led -> Nat] /\ cal \in SUBSET Led
          /\ pdts \in {"bad", "ready", "running"} /\ matched \in BOOLEAN
          /\ faults \in 0..MaxFaults /\ 0 \in 0..(NumChannels + MaxAttempts)
      BY <2>1, LedFacts DEF SspInv, SspTypeOK
    <3>1. CASE SspStep
      BY <2>1, <3>1, SspKeeps
    <3>2. CASE RunLed
      <4>1. /\ ssp' \in {"stop", "sync"} /\ k' = 0 /\ rc' = "none"
            /\ UNCHANGED <<bias, cal, applied, pdts, matched, faults>>
        BY <3>2 DEF RunLed, Command, box
      <4>2. job' \in Setting
        <5>1. Fixed \in Nat /\ Stop \in Nat
          BY ScanAssumption
        <5>2. pc = "led" => X \in Nat
          BY <2>1, AtX DEF ControlInv, AtPoint
        <5>3. \/ job' = NoJob \/ job' = SweepJob
              \/ job' = resolve_led_biases(wl[dir], Stop)
              \/ pc = "led" /\ job' = resolve_led_biases(wl[dir], X)
          BY <3>2 DEF RunLed, Command
        <5>4. ASSUME NEW y \in Nat PROVE resolve_led_biases(wl[dir], y) \in Setting
          BY <5>1 DEF resolve_led_biases, Setting
        <5>5. SweepJob \in Setting
          BY <5>1 DEF SweepJob, Setting
        <5> QED BY <5>1, <5>2, <5>3, <5>4, <5>5, NoJobType
      <4>3. ssp' \in {"idle", "sync", "poll", "channel", "apply", "stop", "stopApply"}
        BY <4>1
      <4>4. SspTypeOK'
        BY <3>0, <4>1, <4>3, Zenon DEF SspTypeOK
      <4>5. 0 <= NumChannels /\ \A c \in Led : ~(c < 0)
        BY LedFacts
      <4> QED BY <4>1, <4>2, <4>4, <4>5 DEF SspInv, StopSteps
    <3>3. ASSUME NEW kill \in BOOLEAN, Crash(kill) PROVE SspInv'
      <4>1. /\ ssp' = "idle" /\ k' = 0 /\ job' = NoJob /\ rc' = "none"
            /\ UNCHANGED <<bias, cal, applied, pdts, matched, faults>>
        BY <3>3 DEF Crash, box
      <4>2. SspTypeOK'
        BY <3>0, <4>1, Zenon DEF SspTypeOK
      <4> QED BY <4>1, <4>2, NoJobType DEF SspInv, StopSteps
    <3>4. CASE UNCHANGED sspvars
      BY <2>1, <3>4 DEF sspvars, box, SspInv, SspTypeOK
    <3>5. \/ SspStep \/ RunLed \/ UNCHANGED sspvars
          \/ \E kill \in BOOLEAN : Crash(kill)
      BY <1>1 DEF ScanNext, ScanStep, ScanOther, WriteManifest, CalibrationLed, Calibrate,
        BeginPoint, WriteMeta, PointLed, Configure, OpenRaw, Acquire, AcquireFails, Acquired,
        WriteAnalysis, SweepLed, RecordLed, LastPoint, StopEnds, EndScan, StartScan
    <3> QED BY <3>1, <3>2, <3>3, <3>4, <3>5
  <2>3. ControlInv'
    BY <1>1, <2>1, ControlNext
  <2>4. LightInv'
    BY <1>1, <2>1, <2>3, LightNext
  <2>5. DataInv'
    BY <1>1, <2>1, <2>3, DataNext
  <2> QED BY <2>2, <2>3, <2>4, <2>5 DEF ScanInv, ControlInv, DataInv
<1>2. ASSUME ScanInv, UNCHANGED <<sspvars, scanvars>> PROVE ScanInv'
  <2>1. UNCHANGED <<bias, cal, applied, pdts, matched, ssp, k, job, rc, faults>>
    BY <1>2 DEF sspvars, box
  <2>2. UNCHANGED <<point, manifest, used, wl, vgain, pc, prog, dir, i, status, started,
                    stopped, how, starts, crashes>>
    BY <1>2 DEF scanvars, disk
  <2>3. SspInv' /\ PlaceInv' /\ CommandInv' /\ StopInv'
    BY <1>2, <2>1, <2>2 DEF ScanInv, SspInv, SspTypeOK, PlaceInv, CommandInv, StopInv
  <2>4. LightInv'
    BY <1>2, <2>1, <2>2 DEF ScanInv, LightInv, Light, LightAt, PointLight, Lit,
                            resolve_led_biases, SweepJob, X, Dark
  <2>5. \A d \in Dirs, x \in Point : LightAt(d, x)' = LightAt(d, x)
    BY <2>2 DEF LightAt, PointLight, Lit, resolve_led_biases, SweepJob
  <2>6. DiskInv'
    BY <1>2, <2>2, <2>5, Zenon DEF ScanInv, DiskInv
  <2>7. UseInv' /\ WorkInv'
    BY <1>2, <2>2 DEF ScanInv, UseInv, WorkInv, Here, X
  <2> QED BY <2>3, <2>4, <2>6, <2>7 DEF ScanInv
<1> QED BY <1>1, <1>2

-----------------------------------------------------------------------------
(* What the other programs read.                                           *)

(* The last of some positions.                                             *)
LEMMA LastOf ==
  ASSUME NEW n \in Nat, NEW S \in SUBSET (1..n), S # {} PROVE Max(S) \in S
<1> DEFINE T == {n - y : y \in S}
<1>1. T \in SUBSET Nat /\ T # {}
  <2>1. \A y \in S : n - y \in Nat
    OBVIOUS
  <2>2. T \subseteq Nat
    BY <2>1
  <2>3. PICK y \in S : TRUE
    OBVIOUS
  <2>4. n - y \in T
    OBVIOUS
  <2> QED BY <2>2, <2>4
<1>2. PICK t \in T : \A y \in T : t <= y
  <2> HIDE DEF T
  <2> QED BY <1>1, LeastOf
<1>3. PICK m \in S : t = n - m
  BY <1>2
<1>4. \A y \in S : m >= y
  <2> SUFFICES ASSUME NEW y \in S PROVE m >= y
    OBVIOUS
  <2>1. n - y \in T
    OBVIOUS
  <2>2. n - m <= n - y
    BY <1>2, <1>3, <2>1
  <2> QED BY <2>2
<1> QED BY <1>4 DEF Max

(* An order of the directories, and what a search from its end finds.      *)
LEMMA OrderFacts ==
  ASSUME NEW order \in SetToSeqs(Dirs)
  PROVE /\ Len(order) \in Nat /\ DOMAIN order = 1..Len(order)
        /\ \A j \in 1..Len(order) : order[j] \in Dirs
<1>1. Cardinality(Dirs) \in Nat
  BY ScanAssumption, FS_CardinalityType
<1>2. order \in [1..Cardinality(Dirs) -> Dirs]
  BY DEF SetToSeqs
<1>3. Len(order) = Cardinality(Dirs)
  BY <1>1, <1>2
<1> QED BY <1>1, <1>2, <1>3

(* What merge and reanalysis select.                                       *)
LEMMA FoundFacts ==
  ASSUME NEW order \in SetToSeqs(Dirs), NEW x
  PROVE /\ Selected(order, x) # 0 =>
             /\ Selected(order, x) \in 1..Len(order)
             /\ is_complete_point(point[order[Selected(order, x)]][x])
        /\ Gathered(order, x) # 0 =>
             /\ Gathered(order, x) \in 1..Len(order)
             /\ point[order[Gathered(order, x)]][x].meta = "analyzed"
<1> DEFINE n == Len(order)
           S == {j \in 1..n : is_complete_point(point[order[j]][x])}
           G == {j \in 1..n : point[order[j]][x].meta = "analyzed"}
<1>1. Selected(order, x) = IF S # {} THEN Max(S) ELSE 0
  BY DEF Selected, SelectLastInSeq
<1>2. Gathered(order, x) = IF G # {} THEN Max(G) ELSE 0
  BY DEF Gathered, SelectLastInSeq
<1>3. n \in Nat
  BY OrderFacts
<1> HIDE DEF n
<1>4. S # {} => Max(S) \in S
  <2>1. S \in SUBSET (1..n)
    OBVIOUS
  <2> HIDE DEF S
  <2> QED BY <1>3, <2>1, LastOf
<1>5. G # {} => Max(G) \in G
  <2>1. G \in SUBSET (1..n)
    OBVIOUS
  <2> HIDE DEF G
  <2> QED BY <1>3, <2>1, LastOf
<1>6. Selected(order, x) # 0 => Selected(order, x) \in S
  <2> HIDE DEF S
  <2> QED BY <1>1, <1>4
<1>7. Gathered(order, x) # 0 => Gathered(order, x) \in G
  <2> HIDE DEF G
  <2> QED BY <1>2, <1>5
<1> QED BY <1>6, <1>7 DEF n

(* The invariant implies the property.                                     *)
LEMMA ScanTrue == ScanInv => DirectoriesAreTrue
<1> SUFFICES ASSUME ScanInv PROVE DirectoriesAreTrue
  OBVIOUS
<1>0. Waveforms \in Nat /\ Waveforms >= 1
  BY ScanAssumption
<1>1. \A d \in Dirs, x \in Point : PointOk(LightAt(d, x), used[d], prog, x, point[d][x])
  BY DEF ScanInv, DiskInv
<1>2. ScanTypeOK
  <2>1. ASSUME NEW d \in Dirs, NEW x \in Point
        PROVE /\ point[d][x].made \in BOOLEAN
              /\ point[d][x].meta \in Status \cup {None, Torn}
              /\ point[d][x].raw.n \in 0..Waveforms
              /\ point[d][x].analysis.n \in {-2, -1} \cup 1..Waveforms
    <3> DEFINE p == point[d][x]
    <3>1. PointOk(LightAt(d, x), used[d], prog, x, p)
      BY <1>1
    <3> HIDE DEF p
    <3>2. p.made \in BOOLEAN
      BY <3>1, Zenon DEF PointOk
    <3>3. p.meta \in Status \cup {None, Torn} /\ p.raw.n \in 0..Waveforms
      BY <3>1, Zenon DEF PointOk
    <3>4. p.analysis.n \in {-2, -1} \cup 1..Waveforms
      <4>1. NoAnalysis.n = -1 /\ TornAnalysis.n = -2 /\ Waveforms \in 1..Waveforms
        BY <1>0 DEF NoAnalysis, TornAnalysis, Files
      <4> QED BY <3>1, <4>1 DEF PointOk
    <3> QED BY <3>2, <3>3, <3>4 DEF p
  <2>2. SspTypeOK
    BY DEF ScanInv, SspInv
  <2>3. used \in [Dirs -> 0..MaxStarts]
    <3>1. used \in [Dirs -> Nat] /\ \A d \in Dirs : used[d] <= starts
      BY DEF ScanInv, UseInv
    <3>2. starts \in 0..MaxStarts /\ MaxStarts \in Nat
      BY ScanAssumption DEF ScanInv, PlaceInv
    <3>3. \A d \in Dirs : used[d] \in 0..MaxStarts
      BY <3>1, <3>2
    <3> QED BY <3>1, <3>3
  <2>4. pc \in {"off", "manifest", "calLed", "calLedWait", "calibrate", "point",
                "led", "ledWait", "meta", "configure", "open", "acquire",
                "analysis", "sweepLed", "sweepLedWait", "ledManifest", "stop",
                "stopWait", "end"}
    BY DEF ScanInv, PlaceInv, IntensityLabels, SweepLabels
  <2>5. /\ manifest \in [Dirs -> Wavelength \cup {NoManifest, TornManifest}]
        /\ wl \in [Dirs -> Wavelength \cup {0}]
    BY DEF ScanInv, UseInv
  <2>6. /\ vgain \in Point \cup {0} /\ dir \in Dirs
        /\ prog \in {"intensity", "sweep", "none"}
        /\ i \in 1..Len(inclusive_range) + 1
        /\ status \in Status \cup {None}
        /\ stopped \in {None, "ok", "error"}
        /\ how \in {None, "returned", "failed", "raised", "killed"}
        /\ starts \in 0..MaxStarts /\ crashes \in 0..MaxCrashes
    BY DEF ScanInv, PlaceInv
  <2>7. started \in BOOLEAN
    BY Zenon DEF ScanInv, PlaceInv
  <2> QED BY <2>1, <2>2, <2>3, <2>4, <2>5, <2>6, <2>7, Zenon DEF ScanTypeOK
<1>3. RecordedAsLabelled
  BY <1>1 DEF RecordedAsLabelled, PointOk, LightAt
<1>4. ASSUME NEW d \in Dirs, NEW x \in Point, used[d] = 1, point[d][x].meta = "analyzed"
      PROVE point[d][x].raw.n = Waveforms /\ point[d][x].analysis = point[d][x].raw
  BY <1>1, <1>4 DEF PointOk
<1>5. DoneIsAnalyzed
  <2>1. ASSUME NEW d \in Dirs, NEW x \in collect(d).done
        PROVE x \in Point /\ point[d][x].meta = "analyzed"
    BY DEF collect
  <2> QED BY <1>4, <2>1 DEF DoneIsAnalyzed
<1>6. MergeIsOfIntensity
  <2> SUFFICES ASSUME prog = "intensity", NEW order \in SetToSeqs(Dirs), Mergeable(order),
                      NEW x \in Point, Selected(order, x) # 0,
                      MergedRows(order, x) # TornAnalysis
               PROVE /\ MergedRows(order, x).n = Waveforms
                     /\ MergedRows(order, x).light =
                          {Lit(resolve_led_biases(manifest[order[1]], x))}
    BY DEF MergeIsOfIntensity
  <2> DEFINE s == Selected(order, x)
             d == order[s]
  <2>1. s \in 1..Len(order) /\ is_complete_point(point[d][x])
    BY FoundFacts
  <2>2. DOMAIN order = 1..Len(order) /\ \A j \in 1..Len(order) : order[j] \in Dirs
    BY OrderFacts
  <2>3. d \in Dirs /\ manifest[d] = manifest[order[1]] /\ manifest[d] \in Wavelength
    BY <2>1, <2>2 DEF Mergeable, ensure_same_config
  <2>4. MergedRows(order, x) = point[d][x].analysis
    BY DEF MergedRows
  <2> HIDE DEF s, d
  <2>5. manifest[d] = wl[d]
    BY <2>3 DEF ScanInv, UseInv, NoManifest, TornManifest, Wavelength
  <2>6. LightAt(d, x) = Lit(resolve_led_biases(manifest[order[1]], x))
    BY <2>3, <2>5 DEF LightAt, PointLight
  <2>7. PointOk(LightAt(d, x), used[d], prog, x, point[d][x])
    BY <1>1, <2>3
  <2>8. point[d][x].analysis # NoAnalysis /\ point[d][x].analysis # TornAnalysis
    BY <2>1, <2>4 DEF is_complete_point
  <2>9. /\ point[d][x].analysis.n = Waveforms
        /\ point[d][x].analysis.light = {LightAt(d, x)}
    BY <2>7, <2>8 DEF PointOk
  <2> QED BY <2>4, <2>6, <2>9
<1>7. ReanalysisIsOfIntensity
  <2> SUFFICES ASSUME prog = "intensity", NEW order \in SetToSeqs(Dirs), NEW x \in Point,
                      Gathered(order, x) # 0, NEW d, d = order[Gathered(order, x)]
               PROVE /\ point[d][x].raw.light \subseteq {PointLight(d, x)}
                     /\ used[d] = 1 => point[d][x].raw.n = Waveforms
    BY DEF ReanalysisIsOfIntensity
  <2>1. d \in Dirs /\ point[d][x].meta = "analyzed"
    BY FoundFacts, OrderFacts
  <2>2. point[d][x].raw.light \subseteq {PointLight(d, x)}
    BY <1>3, <2>1 DEF RecordedAsLabelled
  <2> QED BY <1>4, <2>1, <2>2
<1> QED BY <1>2, <1>3, <1>5, <1>6, <1>7 DEF DirectoriesAreTrue

(* For any LED channels and mask, any range of intensities or VGAINs, any  *)
(* number of directories, scans, failing transactions, interrupts and      *)
(* kills: a point's files were taken with the light and VGAIN it is        *)
(* labelled with, done points are whole, and merge, monitor and reanalysis *)
(* take nothing else from the directories (scan_led_intensity_charge,      *)
(* scan_led_vgain_sweep, merge_led_intensity_runs, monitor_led_run,        *)
(* reanalyze_led_charge_run).                                              *)
THEOREM DirectoriesTrue == ScanSpec => []DirectoriesAreTrue
<1> QED BY ScanStarts, ScanKeeps, ScanTrue, PTL DEF ScanSpec

(* The safety part of LedIsAsAsked, about ssp_led_control and the ends of  *)
(* both scans: a run command that ends well gives the light it was asked   *)
(* for and saw the timing endpoint running; a scan that returned, or a     *)
(* sweep that was interrupted after led_started was set and before its     *)
(* finally clause, has sent the stop command; and the LEDs are dark after  *)
(* a stop command that ended well.                                         *)
THEOREM LedsAsAsked == ScanSpec => RunIsWhole /\ []LedOff
<1> DEFINE Whole == ssp = "apply" /\ rc' = "ok" => Light' = Lit(job) /\ pdts = "running"
<1>1. ScanInv /\ [ScanNext]_<<sspvars, scanvars>> => [Whole]_sspvars
  <2> SUFFICES ASSUME ScanInv, [ScanNext]_<<sspvars, scanvars>>, ssp = "apply", rc' = "ok"
               PROVE UNCHANGED sspvars \/ (Light' = Lit(job) /\ pdts = "running")
    OBVIOUS
  <2>1. CASE SspStep
    <3>1. SspEffect
      BY <2>1, SspKeeps DEF ScanInv
    <3> QED BY <3>1 DEF SspEffect
  <2>2. CASE RunLed
    BY <2>2 DEF RunLed, Command
  <2>3. ASSUME NEW kill \in BOOLEAN, Crash(kill) PROVE FALSE
    BY <2>3 DEF Crash
  <2>4. \/ SspStep \/ RunLed \/ UNCHANGED sspvars
        \/ \E kill \in BOOLEAN : Crash(kill)
    BY DEF ScanNext, ScanStep, ScanOther, WriteManifest, CalibrationLed, Calibrate,
      BeginPoint, WriteMeta, PointLed, Configure, OpenRaw, Acquire, AcquireFails, Acquired,
      WriteAnalysis, SweepLed, RecordLed, LastPoint, StopEnds, EndScan, StartScan
  <2> QED BY <2>1, <2>2, <2>3, <2>4
<1>2. ScanInv => LedOff
  BY DEF ScanInv, StopInv, LightInv, LedOff
<1>3. ScanSpec => []ScanInv
  BY ScanStarts, ScanKeeps, PTL DEF ScanSpec
<1>4. ScanSpec => [][Whole]_sspvars
  BY <1>1, <1>3, PTL DEF ScanSpec
<1> QED BY <1>2, <1>3, <1>4, PTL DEF RunIsWhole

-----------------------------------------------------------------------------
(* The pool of fits.                                                       *)

Row == Tasks \X {"ok", "failed"}
State == {"none", "waiting", "running"} \cup Outcome

(* A task has at most one row.                                             *)
Once(s) == \A j, h \in DOMAIN s : j # h => s[j][1] # s[h][1]

(* The rows are those of the tasks taken, one each.                        *)
RowsOf(s, T) ==
  /\ s \in Seq(Row) /\ Once(s)
  /\ T = {s[j][1] : j \in DOMAIN s}
  /\ IsFiniteSet(T) /\ Cardinality(T) = Len(s)

(* Rows in the order of the tasks have different tasks, so sorting them    *)
(* arranges the same rows with tasks that grow.                            *)
LEMMA SortFacts ==
  ASSUME rows \in Seq(Row), Once(rows)
  PROVE /\ Sorted \in Seq(Row) /\ Len(Sorted) = Len(rows)
        /\ \A p, q \in DOMAIN Sorted : p < q => Sorted[p][1] < Sorted[q][1]
        /\ \A p \in DOMAIN Sorted : \E j \in DOMAIN rows : Sorted[p] = rows[j]
        /\ \A j \in DOMAIN rows : \E p \in DOMAIN Sorted : Sorted[p] = rows[j]
<1> DEFINE n == Len(rows)
           D == 1..n
           B(j) == {h \in D : Before(h, j)}
<1>1. /\ n \in Nat /\ DOMAIN rows = D
      /\ \A j \in D : rows[j] \in Row /\ rows[j][1] \in Nat
  <2>1. n \in Nat /\ DOMAIN rows = D /\ \A j \in D : rows[j] \in Row
    OBVIOUS
  <2>2. \A r \in Row : r[1] \in Nat
    BY PoolAssumption DEF Row
  <2> QED BY <2>1, <2>2
<1>2. IsFiniteSet(D) /\ Cardinality(D) = n
  <2>1. n \in Nat /\ 1 \in Int /\ n \in Int
    BY <1>1
  <2> HIDE DEF n
  <2> QED BY <2>1, FS_Interval
<1>3. \A j \in D : Place(j) = Cardinality(B(j)) + 1
  BY <1>1 DEF Place
<1> HIDE DEF n, D
<1>4. ASSUME NEW j \in D
      PROVE IsFiniteSet(B(j)) /\ B(j) \subseteq D /\ j \notin B(j)
  <2>1. ~Before(j, j)
    BY <1>1 DEF Before, D
  <2> QED BY <2>1, <1>2, FS_Subset
<1>5. ASSUME NEW g \in D, NEW j \in D, Before(g, j)
      PROVE Place(g) < Place(j)
  <2>1. B(g) \cup {g} \subseteq B(j)
    <3> SUFFICES ASSUME NEW h \in B(g) PROVE Before(h, j)
      BY <1>5
    <3>1. h \in D /\ Before(h, g)
      OBVIOUS
    <3> QED BY <3>1, <1>5, <1>1 DEF Before, D
  <2>2. Cardinality(B(g) \cup {g}) = Cardinality(B(g)) + 1 /\ IsFiniteSet(B(g) \cup {g})
    BY <1>4, FS_AddElement
  <2>3. Cardinality(B(g) \cup {g}) <= Cardinality(B(j))
    BY <2>1, <1>4, FS_Subset
  <2>4. Cardinality(B(g)) \in Nat /\ Cardinality(B(j)) \in Nat
    BY <1>4, FS_CardinalityType
  <2> HIDE DEF B
  <2> QED BY <2>2, <2>3, <2>4, <1>3
<1>6. ASSUME NEW j \in D PROVE Place(j) \in D
  <2>1. B(j) \subseteq D \ {j}
    BY <1>4
  <2>2. IsFiniteSet(D \ {j}) /\ Cardinality(D \ {j}) = n - 1
    BY <1>2, FS_RemoveElement
  <2>3. Cardinality(B(j)) <= n - 1
    BY <2>1, <2>2, FS_Subset
  <2>4. Cardinality(B(j)) \in Nat
    BY <1>4, FS_CardinalityType
  <2> HIDE DEF B
  <2> QED BY <2>3, <2>4, <1>3, <1>1 DEF D
<1>7. \A g, j \in D : g # j => Before(g, j) \/ Before(j, g)
  BY <1>1 DEF Before, D
<1>8. \A g, j \in D : Place(g) \in Nat /\ Place(j) \in Nat /\ (g # j => Place(g) # Place(j))
  <2> SUFFICES ASSUME NEW g \in D, NEW j \in D
               PROVE Place(g) \in Nat /\ Place(j) \in Nat /\ (g # j => Place(g) # Place(j))
    OBVIOUS
  <2>1. Place(g) \in D /\ Place(j) \in D
    BY <1>6
  <2>2. Place(g) \in Nat /\ Place(j) \in Nat
    BY <2>1, <1>1 DEF D
  <2>3. g # j => Place(g) < Place(j) \/ Place(j) < Place(g)
    BY <1>5, <1>7
  <2> QED BY <2>2, <2>3
<1>9. ASSUME NEW p \in D PROVE \E j \in D : Place(j) = p
  <2> SUFFICES ASSUME \A j \in D : Place(j) # p PROVE FALSE
    OBVIOUS
  <2> DEFINE f == [j \in D |-> Place(j)]
  <2>1. f \in [D -> D \ {p}]
    BY <1>6
  <2>2. IsFiniteSet(D \ {p}) /\ Cardinality(D \ {p}) = n - 1
    BY <1>2, FS_RemoveElement
  <2>3. Cardinality(D \ {p}) < Cardinality(D)
    BY <1>1, <1>2, <2>2
  <2>4. \A x, y \in D : x # y => f[x] # f[y]
    BY <1>8
  <2> HIDE DEF f
  <2>5. \E x, y \in D : x # y /\ f[x] = f[y]
    BY <1>2, <2>1, <2>2, <2>3, FS_PigeonHole
  <2> QED BY <2>4, <2>5
<1> DEFINE At(p) == CHOOSE j \in D : Place(j) = p
<1>10. \A p \in D : At(p) \in D /\ Place(At(p)) = p
  BY <1>9
<1>11. Sorted = [p \in D |-> rows[At(p)]]
  BY <1>1 DEF Sorted
<1>12. \A j \in D : At(Place(j)) = j
  <2> SUFFICES ASSUME NEW j \in D PROVE At(Place(j)) = j
    OBVIOUS
  <2>1. At(Place(j)) \in D /\ Place(At(Place(j))) = Place(j)
    BY <1>6, <1>10
  <2> HIDE DEF At
  <2> QED BY <2>1, <1>8
<1> HIDE DEF At
<1>13. Sorted \in [D -> Row]
  BY <1>1, <1>10, <1>11
<1>14. Sorted \in Seq(Row) /\ Len(Sorted) = n
  BY <1>13, <1>1 DEF D
<1>15. ASSUME NEW p \in D, NEW q \in D, p < q
       PROVE Sorted[p][1] < Sorted[q][1]
  <2>1. At(p) \in D /\ At(q) \in D /\ Place(At(p)) = p /\ Place(At(q)) = q
    BY <1>10
  <2>2. At(p) # At(q)
    BY <2>1, <1>15, <1>1 DEF D
  <2>3. Before(At(p), At(q))
    <3>1. CASE Before(At(q), At(p))
      <4>1. q < p
        BY <3>1, <2>1, <1>5
      <4> QED BY <4>1, <1>15, <1>1 DEF D
    <3> QED BY <3>1, <2>1, <2>2, <1>7
  <2>4. rows[At(p)][1] # rows[At(q)][1]
    BY <2>1, <2>2, <1>1 DEF Once
  <2>5. rows[At(p)][1] < rows[At(q)][1]
    BY <2>3, <2>4 DEF Before
  <2> QED BY <2>5, <1>11
<1>16. \A p \in D : \E j \in D : Sorted[p] = rows[j]
  BY <1>10, <1>11
<1>17. \A j \in D : \E p \in D : Sorted[p] = rows[j]
  BY <1>6, <1>11, <1>12
<1>18. DOMAIN Sorted = D
  BY <1>13
<1> QED BY <1>1, <1>14, <1>15, <1>16, <1>17, <1>18 DEF n

(* A row more for a task that had none.                                    *)
LEMMA RowAdded ==
  ASSUME NEW s, NEW T, RowsOf(s, T), NEW r \in Row, r[1] \notin T
  PROVE RowsOf(Append(s, r), T \cup {r[1]})
<1> DEFINE u == Append(s, r)
<1>1. /\ s \in Seq(Row) /\ Once(s) /\ T = {s[j][1] : j \in DOMAIN s}
      /\ IsFiniteSet(T) /\ Cardinality(T) = Len(s)
  BY DEF RowsOf
<1>2. /\ Len(s) \in Nat /\ DOMAIN s = 1..Len(s) /\ DOMAIN u = 1..(Len(s) + 1)
      /\ u \in Seq(Row) /\ Len(u) = Len(s) + 1
      /\ \A j \in DOMAIN s : u[j] = s[j]
      /\ u[Len(s) + 1] = r
  BY <1>1
<1> HIDE DEF u
<1>3. Once(u)
  <2> SUFFICES ASSUME NEW j \in DOMAIN u, NEW h \in DOMAIN u, j # h
               PROVE u[j][1] # u[h][1]
    BY DEF Once
  <2>1. j \in DOMAIN s \/ j = Len(s) + 1
    BY <1>2
  <2>2. h \in DOMAIN s \/ h = Len(s) + 1
    BY <1>2
  <2>3. \A m \in DOMAIN s : s[m][1] \in T
    BY <1>1
  <2> QED BY <2>1, <2>2, <2>3, <1>1, <1>2 DEF Once
<1>4. T \cup {r[1]} = {u[j][1] : j \in DOMAIN u}
  <2>1. DOMAIN u = DOMAIN s \cup {Len(s) + 1}
    BY <1>2
  <2>2. {u[j][1] : j \in DOMAIN u} = {u[j][1] : j \in DOMAIN s} \cup {u[Len(s) + 1][1]}
    BY <2>1
  <2>3. {u[j][1] : j \in DOMAIN s} = {s[j][1] : j \in DOMAIN s}
    BY <1>2
  <2> QED BY <2>2, <2>3, <1>1, <1>2
<1>5. IsFiniteSet(T \cup {r[1]}) /\ Cardinality(T \cup {r[1]}) = Len(s) + 1
  BY <1>1, FS_AddElement
<1> QED BY <1>2, <1>3, <1>4, <1>5 DEF RowsOf, u

LEMMA NoRows == RowsOf(<<>>, {})
BY FS_EmptySet DEF RowsOf, Once

(* The futures: only one of the executors has tasks that wait or run.      *)
FutureInv ==
  /\ future \in [Executor -> [Tasks -> State]]
  /\ pool \in Executor
  /\ pool = "process" => \A t \in Tasks : future["thread"][t] = "none"
  /\ pool = "thread" =>
       \A t \in Tasks : future["process"][t] \notin {"waiting", "running"}
  /\ fstep = "submit" => pool = "process"

(* The rows: while they are collected they are those of the tasks taken,   *)
(* and each is what its future came to.                                    *)
RowInv ==
  /\ fstep \in {"submit", "serial", "collect", "leave", "summary", "report", "died"}
  /\ taken \subseteq Tasks
  /\ fstep \in {"submit", "serial", "collect"} => RowsOf(rows, taken)
  /\ fstep \in {"submit", "serial", "collect"} => taken # Tasks
  /\ fstep \in {"summary", "report"} => RowsOf(rows, Tasks)
  /\ fstep = "submit" => rows = <<>> /\ taken = {}
  /\ fstep = "serial" => _resolve_jobs = 1
  /\ fstep \in {"collect", "summary", "report"} /\ _resolve_jobs > 1 =>
       \A j \in DOMAIN rows : future[pool][rows[j][1]] = rows[j][2]
  /\ fstep = "report" =>
       /\ csv = rows
       /\ \A j, h \in DOMAIN rows : j < h => rows[j][1] < rows[h][1]

PoolInv == FutureInv /\ RowInv

LEMMA PoolStarts == PoolInit => PoolInv
<1> SUFFICES ASSUME PoolInit PROVE PoolInv
  OBVIOUS
<1> USE DEF PoolInit, PoolRest
<1>1. FutureInv
  BY DEF FutureInv, NoFutures, Executor, State
<1>2. RowInv
  BY NoRows, PoolAssumption DEF RowInv
<1> QED BY <1>1, <1>2 DEF PoolInv

(* A step of a worker changes no future that has an outcome.               *)
LEMMA WorkerSteps ==
  ASSUME PoolInv, NEW e \in Executor, NEW t \in Tasks, NEW o \in State \ {"none"},
         future[e][t] \in {"waiting", "running"},
         future' = [future EXCEPT ![e][t] = o],
         UNCHANGED <<jobs, script, fstep, pool, taken, rows, csv, error>>
  PROVE PoolInv'
<1>1. /\ future \in [Executor -> [Tasks -> State]] /\ e = pool /\ pool \in Executor
  <2>1. /\ future \in [Executor -> [Tasks -> State]] /\ pool \in Executor
    BY DEF PoolInv, FutureInv
  <2>2. e = pool
    BY DEF PoolInv, FutureInv, Executor
  <2> QED BY <2>1, <2>2
<1>2. /\ future' \in [Executor -> [Tasks -> State]]
      /\ \A x \in Executor \ {pool} : future'[x] = future[x]
      /\ \A u \in Tasks : future[pool][u] \in Outcome => future'[pool][u] = future[pool][u]
  <2>1. future' \in [Executor -> [Tasks -> State]]
    BY <1>1
  <2>2. \A x \in Executor \ {pool} : future'[x] = future[x]
    BY <1>1
  <2>3. \A u \in Tasks : u # t => future'[pool][u] = future[pool][u]
    BY <1>1
  <2>4. future[pool][t] \notin Outcome
    BY <1>1 DEF Outcome
  <2> QED BY <2>1, <2>2, <2>3, <2>4
<1>3. FutureInv'
  BY <1>1, <1>2 DEF PoolInv, FutureInv, Executor
<1>4. _resolve_jobs' = _resolve_jobs
  BY DEF _resolve_jobs
<1>5. ASSUME fstep \in {"collect", "summary", "report"}, _resolve_jobs > 1,
             NEW j \in DOMAIN rows
      PROVE future'[pool][rows[j][1]] = rows[j][2]
  <2>1. rows \in Seq(Row)
    BY <1>5 DEF PoolInv, RowInv, RowsOf
  <2>2. rows[j][1] \in Tasks /\ rows[j][2] \in Outcome
    BY <2>1 DEF Row, Outcome
  <2>3. future[pool][rows[j][1]] = rows[j][2]
    BY <1>5 DEF PoolInv, RowInv
  <2> QED BY <2>2, <2>3, <1>2
<1>6. RowInv'
  BY <1>4, <1>5 DEF PoolInv, RowInv
<1> QED BY <1>3, <1>6 DEF PoolInv

(* One step per action of the pool.                                        *)
LEMMA PoolKeeps == PoolInv /\ [FitStep]_fitvars => PoolInv'
<1> SUFFICES ASSUME PoolInv, [FitStep]_fitvars PROVE PoolInv'
  OBVIOUS
<1>0. /\ future \in [Executor -> [Tasks -> State]] /\ pool \in Executor
      /\ taken \subseteq Tasks
  BY DEF PoolInv, FutureInv, RowInv
<1>a. ASSUME jobs' = jobs PROVE _resolve_jobs' = _resolve_jobs
  BY <1>a DEF _resolve_jobs
<1>w. Waiting \in [Tasks -> State] /\ \A t \in Tasks : Waiting[t] = "waiting"
  BY DEF Waiting, State
<1>1. CASE SubmitTasks
  <2> USE <1>1 DEF SubmitTasks
  <2>1. pool = "process" /\ fstep = "submit" /\ rows = <<>> /\ taken = {}
        /\ RowsOf(rows, taken) /\ taken # Tasks
    BY DEF PoolInv, FutureInv, RowInv
  <2>2. FutureInv'
    <3>1. future' \in [Executor -> [Tasks -> State]] /\ future'["thread"] = future["thread"]
      BY <1>0, <1>w DEF Executor
    <3> QED BY <2>1, <3>1, <1>0 DEF PoolInv, FutureInv
  <2>3. RowInv'
    <3>1. \A j \in DOMAIN rows' : FALSE
      BY <2>1
    <3>2. _resolve_jobs' = _resolve_jobs
      BY <1>a
    <3>3. _resolve_jobs = 1 \/ fstep' # "serial"
      OBVIOUS
    <3> QED BY <2>1, <3>1, <3>2, <3>3 DEF RowInv
  <2> QED BY <2>2, <2>3 DEF PoolInv
<1>2. CASE RunSerial
  <2>1. fstep = "serial" /\ RowsOf(rows, taken) /\ taken # Tasks /\ _resolve_jobs = 1
    BY <1>2 DEF RunSerial, PoolInv, RowInv
  <2>2. PICK o \in Outcomes, t \in Tasks :
          /\ t = Min(Tasks \ taken)
          /\ taken' = taken \cup {t}
          /\ \/ IsRow(o) /\ rows' = Append(rows, <<t, o>>)
                /\ fstep' = IF Tasks = taken' THEN "summary" ELSE "serial"
             \/ ~IsRow(o) /\ fstep' = "died" /\ UNCHANGED rows
    BY <1>2 DEF RunSerial
  <2>3. t \notin taken
    <3>1. Tasks \ taken \in SUBSET Nat /\ Tasks \ taken # {}
      BY <2>1, <1>0, PoolAssumption
    <3> QED BY <3>1, <2>2, MinFacts
  <2>4. UNCHANGED <<jobs, script, pool, future, csv, error>>
    BY <1>2 DEF RunSerial
  <2>5. FutureInv'
    BY <2>1, <2>2, <2>4 DEF PoolInv, FutureInv
  <2>6. taken' \subseteq Tasks
    BY <2>2, <1>0
  <2>7. _resolve_jobs' = 1
    BY <2>1, <2>4, <1>a
  <2>8. CASE IsRow(o) /\ rows' = Append(rows, <<t, o>>)
             /\ fstep' = IF Tasks = taken' THEN "summary" ELSE "serial"
    <3>1. RowsOf(rows', taken')
      <4>1. <<t, o>> \in Row /\ <<t, o>>[1] = t
        BY <2>8 DEF Row, IsRow
      <4> QED BY <4>1, <2>1, <2>2, <2>3, <2>8, RowAdded
    <3> QED BY <3>1, <2>5, <2>6, <2>7, <2>8 DEF PoolInv, RowInv
  <2>9. CASE ~IsRow(o) /\ fstep' = "died" /\ UNCHANGED rows
    BY <2>5, <2>6, <2>9 DEF PoolInv, RowInv
  <2> QED BY <2>2, <2>8, <2>9
<1>3. CASE LeavePool
  <2>1. CASE Fallback /\ pool' = "thread" /\ fstep' = "collect" /\ error' = "none"
             /\ rows' = KeptRows /\ taken' = {}
             /\ future' = [future EXCEPT !["thread"] = Waiting]
    <3>1. pool = "process" /\ \A t \in Tasks : future["process"][t] \notin {"waiting", "running"}
      BY <1>3, <2>1 DEF LeavePool, AllEnded, Fallback
    <3>2. future' \in [Executor -> [Tasks -> State]] /\ future'["process"] = future["process"]
      BY <2>1, <1>0, <1>w DEF Executor
    <3>3. FutureInv'
      BY <2>1, <3>1, <3>2 DEF FutureInv, Executor
    <3>4. rows' = <<>> /\ taken' = {}
      BY <2>1 DEF KeptRows
    <3>5. RowInv'
      BY <2>1, <3>4, NoRows, PoolAssumption DEF RowInv
    <3> QED BY <3>3, <3>5 DEF PoolInv
  <2>2. CASE fstep' = "died" /\ UNCHANGED <<pool, error, rows, taken, future>>
    BY <2>2 DEF PoolInv, FutureInv, RowInv
  <2> QED BY <1>3, <2>1, <2>2 DEF LeavePool
<1>4. CASE WriteSummary
  <2>1. /\ fstep = "summary" /\ RowsOf(rows, Tasks)
        /\ rows' = Sorted /\ csv' = Written(Sorted)
        /\ fstep' = IF csv' = rows' THEN "report" ELSE "died"
        /\ UNCHANGED <<jobs, script, pool, future, taken, error>>
    BY <1>4 DEF WriteSummary, PoolInv, RowInv
  <2>2. FutureInv'
    BY <2>1 DEF PoolInv, FutureInv
  <2>3. /\ Sorted \in Seq(Row) /\ Len(Sorted) = Len(rows)
        /\ \A p, q \in DOMAIN Sorted : p < q => Sorted[p][1] < Sorted[q][1]
        /\ \A p \in DOMAIN Sorted : \E j \in DOMAIN rows : Sorted[p] = rows[j]
        /\ \A j \in DOMAIN rows : \E p \in DOMAIN Sorted : Sorted[p] = rows[j]
    BY <2>1, SortFacts DEF RowsOf
  <2> DEFINE s == Sorted
  <2>4. /\ s \in Seq(Row) /\ Len(s) = Len(rows)
        /\ \A p, q \in DOMAIN s : p < q => s[p][1] < s[q][1]
        /\ \A p \in DOMAIN s : \E j \in DOMAIN rows : s[p] = rows[j]
        /\ \A j \in DOMAIN rows : \E p \in DOMAIN s : s[p] = rows[j]
        /\ rows' = s
    BY <2>1, <2>3
  <2> HIDE DEF s
  <2>5. RowsOf(s, Tasks)
    <3>1. Once(s)
      <4> SUFFICES ASSUME NEW j \in DOMAIN s, NEW h \in DOMAIN s, j # h
                   PROVE s[j][1] # s[h][1]
        BY DEF Once
      <4>1. j \in Nat /\ h \in Nat
        BY <2>4
      <4>2. s[j][1] \in Nat /\ s[h][1] \in Nat
        <5>1. s[j] \in Row /\ s[h] \in Row
          BY <2>4
        <5> QED BY <5>1, PoolAssumption DEF Row
      <4>3. j < h \/ h < j
        BY <4>1
      <4> QED BY <4>2, <4>3, <2>4
    <3>2. Tasks = {s[j][1] : j \in DOMAIN s}
      BY <2>1, <2>4 DEF RowsOf
    <3> QED BY <2>1, <2>4, <3>1, <3>2 DEF RowsOf
  <2>6. ASSUME _resolve_jobs > 1, NEW p \in DOMAIN s
        PROVE future[pool][s[p][1]] = s[p][2]
    BY <2>1, <2>4, <2>6 DEF PoolInv, RowInv
  <2>7. _resolve_jobs' = _resolve_jobs
    BY <2>1, <1>a
  <2>8. RowInv'
    BY <2>1, <2>4, <2>5, <2>6, <2>7, <1>0 DEF RowInv
  <2> QED BY <2>2, <2>8 DEF PoolInv
<1>5. ASSUME NEW t \in Tasks, Collect(t) PROVE PoolInv'
  <2> DEFINE o == future[pool][t]
  <2>1. /\ fstep = "collect" /\ t \notin taken /\ o \in Outcome
        /\ taken' = taken \cup {t}
        /\ UNCHANGED <<jobs, script, pool, future, csv>>
        /\ RowsOf(rows, taken)
        /\ _resolve_jobs > 1 => \A j \in DOMAIN rows : future[pool][rows[j][1]] = rows[j][2]
    BY <1>5 DEF Collect, PoolInv, RowInv
  <2>2. FutureInv' /\ taken' \subseteq Tasks
    <3>1. fstep' # "submit"
      BY <1>5 DEF Collect
    <3> QED BY <2>1, <3>1, <1>0 DEF PoolInv, FutureInv
  <2>3. CASE IsRow(o) /\ rows' = Append(rows, <<t, o>>)
             /\ fstep' = IF Tasks = taken' THEN "summary" ELSE "collect"
    <3> HIDE DEF o
    <3>1. <<t, o>> \in Row /\ <<t, o>>[1] = t
      BY <2>3 DEF Row, IsRow
    <3>2. RowsOf(rows', taken')
      BY <3>1, <2>1, <2>3, RowAdded
    <3>3. ASSUME _resolve_jobs > 1, NEW j \in DOMAIN rows'
          PROVE future[pool][rows'[j][1]] = rows'[j][2]
      <4>1. rows \in Seq(Row)
        BY <2>1 DEF RowsOf
      <4>2. (j \in DOMAIN rows /\ rows'[j] = rows[j]) \/ rows'[j] = <<t, o>>
        BY <4>1, <2>3, <3>1
      <4> QED BY <4>2, <2>1, <3>3 DEF o
    <3>4. _resolve_jobs' = _resolve_jobs
      BY <2>1, <1>a
    <3>5. RowInv'
      BY <2>1, <2>2, <2>3, <3>2, <3>3, <3>4 DEF RowInv
    <3> QED BY <2>2, <3>5 DEF PoolInv
  <2>4. CASE fstep' = "leave"
    BY <2>2, <2>4 DEF PoolInv, RowInv
  <2> QED BY <2>3, <2>4, <1>5 DEF Collect
<1>6. ASSUME NEW e \in Executor, NEW t \in Tasks, StartTask(e, t) PROVE PoolInv'
  BY <1>6, WorkerSteps DEF StartTask, State
<1>7. ASSUME NEW e \in Executor, NEW t \in Tasks, EndTask(e, t) PROVE PoolInv'
  <2>1. PICK o \in Outcomes : future' = [future EXCEPT ![e][t] = o]
    BY <1>7 DEF EndTask
  <2>2. o \in State \ {"none"}
    BY DEF Outcomes, Outcome, State
  <2> QED BY <1>7, <2>1, <2>2, WorkerSteps DEF EndTask
<1>8. CASE UNCHANGED fitvars
  <2>1. _resolve_jobs' = _resolve_jobs
    BY <1>8, <1>a DEF fitvars
  <2> QED BY <1>8, <2>1 DEF fitvars, PoolInv, FutureInv, RowInv
<1> QED BY <1>1, <1>2, <1>3, <1>4, <1>5, <1>6, <1>7, <1>8 DEF FitStep

(* However the tasks end, in whatever order and pool: no task runs twice   *)
(* at a time, and a report comes with one row per task, in order, each     *)
(* that of the executor used in the end.  The safety part of FitsAreSound. *)
THEOREM FitsSafe == PoolSpec => [](OneRowPerTask /\ NoOverlap)
<1>1. PoolInv => OneRowPerTask
  <2> SUFFICES ASSUME PoolInv, fstep = "report"
               PROVE /\ Len(csv) = Cardinality(Tasks)
                     /\ \A j, h \in DOMAIN csv : j < h => csv[j][1] < csv[h][1]
                     /\ \A j \in DOMAIN csv :
                          _resolve_jobs > 1 => future[pool][csv[j][1]] = csv[j][2]
    BY DEF OneRowPerTask
  <2> QED BY DEF PoolInv, RowInv, RowsOf
<1>2. PoolInv => NoOverlap
  <2> SUFFICES ASSUME PoolInv, NEW t \in Tasks
               PROVE Cardinality({e \in Executor : future[e][t] = "running"}) <= 1
    BY DEF NoOverlap
  <2> DEFINE R == {e \in Executor : future[e][t] = "running"}
  <2>1. R \subseteq {pool}
    BY DEF PoolInv, FutureInv, Executor
  <2> HIDE DEF R
  <2>2. R = {} \/ R = {pool}
    BY <2>1
  <2>3. Cardinality({}) = 0 /\ Cardinality({pool}) = 1
    BY FS_EmptySet, FS_Singleton
  <2>4. Cardinality(R) <= 1
    BY <2>2, <2>3
  <2> QED BY <2>4 DEF R
<1> QED BY <1>1, <1>2, PoolStarts, PoolKeeps, PTL DEF PoolSpec
-----------------------------------------------------------------------------
(***************************************************************************)
(*                         How long the fits take                          *)
(***************************************************************************)
(* The tasks that an executor has still to start, or may yet be given, and *)
(* those that it has still to end.                                         *)
Starts(f) == {x \in Executor \X Tasks : f[x[1]][x[2]] \in {"none", "waiting"}}
Ends(f) == {x \in Executor \X Tasks : f[x[1]][x[2]] \in {"none", "waiting", "running"}}

NumTasks == Cardinality(Tasks)

(* The steps that are left to the script, with c tasks collected.          *)
ScriptLeft(at, p, c) ==
  CASE at = "submit" -> 2 * NumTasks + 5
    [] at = "collect" /\ p = "process" -> 2 * NumTasks + 4 - c
    [] at = "leave" /\ p = "process" -> NumTasks + 3
    [] at = "collect" /\ p = "thread" -> NumTasks + 2 - c
    [] at = "serial" -> NumTasks + 1 - c
    [] at = "leave" /\ p = "thread" -> 1
    [] at = "summary" -> 1
    [] OTHER -> 0

FitLeft ==
  Cardinality(Starts(future)) + Cardinality(Ends(future))
    + ScriptLeft(fstep, pool, Cardinality(taken))

FitCost == 6 * NumTasks + 5

(* A worker has a task to start or to end, or the script has not to wait   *)
(* for one.                                                                *)
FitsCanGoOn ==
  \/ fstep \in {"submit", "serial", "summary"} \/ (fstep = "leave" /\ AllEnded)
  \/ fstep = "collect" /\ \E t \in Tasks \ taken : future[pool][t] \in Outcome
  \/ \E t \in Tasks : future[pool][t] = "running"
  \/ \E t \in Tasks :
       /\ future[pool][t] = "waiting" /\ \A u \in Tasks : u < t => future[pool][u] # "waiting"
       /\ Cardinality({u \in Tasks : future[pool][u] = "running"}) < _resolve_jobs

(* Tasks are given to the process pool once, and all at once.              *)
GoInv ==
  /\ jobs \in Nat
  /\ fstep = "submit" => \A t \in Tasks : future["process"][t] = "none"
  /\ fstep = "collect" => \A t \in Tasks : future[pool][t] # "none"

(* How many futures there are.                                             *)
LEMMA TokenFacts ==
  ASSUME NEW f
  PROVE  /\ IsFiniteSet(Starts(f)) /\ Cardinality(Starts(f)) \in 0..(2 * NumTasks)
         /\ IsFiniteSet(Ends(f)) /\ Cardinality(Ends(f)) \in 0..(2 * NumTasks)
         /\ NumTasks \in Nat
<1> DEFINE S == Executor \X Tasks
           c == Cardinality(S)
<1>1. IsFiniteSet(Executor) /\ Cardinality(Executor) = 2
  <2>1. IsFiniteSet({}) /\ Cardinality({}) = 0
    BY FS_EmptySet
  <2>2. IsFiniteSet({} \cup {"process"}) /\ Cardinality({} \cup {"process"}) = 1
    BY <2>1, FS_AddElement
  <2>3. IsFiniteSet({"process"} \cup {"thread"}) /\ Cardinality({"process"} \cup {"thread"}) = 2
    BY <2>2, FS_AddElement
  <2> QED  BY <2>3 DEF Executor
<1>2. IsFiniteSet(Tasks) /\ NumTasks \in Nat
  BY PoolAssumption, FS_CardinalityType DEF NumTasks
<1>3. IsFiniteSet(S) /\ c = 2 * NumTasks
  BY <1>1, <1>2, FS_Product DEF NumTasks
<1>4. ASSUME NEW T \in SUBSET S
      PROVE  IsFiniteSet(T) /\ Cardinality(T) \in 0..(2 * NumTasks)
  <2>1. IsFiniteSet(T) /\ Cardinality(T) <= c /\ Cardinality(T) \in Nat
    BY <1>3, FS_Subset, FS_CardinalityType
  <2> QED  BY <2>1, <1>2, <1>3
<1>5. Starts(f) \in SUBSET S /\ Ends(f) \in SUBSET S
  BY DEF Starts, Ends
<1> HIDE DEF S
<1> QED  BY <1>2, <1>4, <1>5

(* What has been collected.                                                *)
LEMMA TakenFacts ==
  ASSUME NEW T \in SUBSET Tasks
  PROVE  /\ Cardinality(T) \in 0..NumTasks
         /\ T # Tasks => Cardinality(T) < NumTasks
         /\ \A t \in Tasks \ T : Cardinality(T \cup {t}) = Cardinality(T) + 1
<1>1. IsFiniteSet(Tasks) /\ NumTasks \in Nat
  BY PoolAssumption, FS_CardinalityType DEF NumTasks
<1>2. /\ IsFiniteSet(T) /\ Cardinality(T) \in Nat /\ Cardinality(T) <= NumTasks
      /\ Cardinality(T) = NumTasks => T = Tasks
  BY <1>1, FS_Subset, FS_CardinalityType DEF NumTasks
<1>3. \A t \in Tasks \ T : Cardinality(T \cup {t}) = Cardinality(T) + 1
  BY <1>2, FS_AddElement
<1> QED  BY <1>1, <1>2, <1>3

LEMMA ScriptFacts ==
  ASSUME NEW p \in Executor, NEW c \in 0..NumTasks, NEW at
  PROVE  ScriptLeft(at, p, c) \in 0..(2 * NumTasks + 5)
<1>1. NumTasks \in Nat
  BY TokenFacts
<1> QED  BY <1>1 DEF ScriptLeft, Executor

(* A worker takes one of the steps that are left of its task.              *)
LEMMA WorkerTakesOne ==
  ASSUME FutureInv, NEW e \in Executor, NEW t \in Tasks, StartTask(e, t) \/ EndTask(e, t)
  PROVE  /\ Cardinality(Starts(future')) + Cardinality(Ends(future'))
              < Cardinality(Starts(future)) + Cardinality(Ends(future))
         /\ UNCHANGED <<fstep, pool, taken>>
<1> DEFINE x == <<e, t>>
<1>0. /\ IsFiniteSet(Starts(future)) /\ IsFiniteSet(Ends(future))
      /\ Cardinality(Starts(future)) \in Nat /\ Cardinality(Ends(future)) \in Nat
  BY TokenFacts
<1>1. future \in [Executor -> [Tasks -> State]]
  BY DEF FutureInv
<1>2. UNCHANGED <<fstep, pool, taken>>
  BY DEF StartTask, EndTask
<1>3. CASE StartTask(e, t)
  <2>1. future[e][t] = "waiting" /\ future' = [future EXCEPT ![e][t] = "running"]
    BY <1>3 DEF StartTask
  <2>2. /\ future'[e][t] = "running"
        /\ \A y \in Executor \X Tasks : y # x => future'[y[1]][y[2]] = future[y[1]][y[2]]
    BY <2>1, <1>1
  <2>3. Starts(future') = Starts(future) \ {x} /\ x \in Starts(future)
    BY <2>1, <2>2 DEF Starts
  <2>4. Ends(future') = Ends(future)
    BY <2>1, <2>2 DEF Ends
  <2>5. Cardinality(Starts(future')) = Cardinality(Starts(future)) - 1
    BY <2>3, <1>0, FS_RemoveElement
  <2> QED  BY <2>4, <2>5, <1>0, <1>2
<1>4. CASE EndTask(e, t)
  <2>1. PICK o \in Outcomes : future[e][t] = "running" /\ future' = [future EXCEPT ![e][t] = o]
    BY <1>4 DEF EndTask
  <2>2. o \notin {"none", "waiting", "running"}
    BY DEF Outcomes, Outcome
  <2>3. /\ future'[e][t] = o
        /\ \A y \in Executor \X Tasks : y # x => future'[y[1]][y[2]] = future[y[1]][y[2]]
    BY <2>1, <1>1
  <2>4. Ends(future') = Ends(future) \ {x} /\ x \in Ends(future)
    BY <2>1, <2>2, <2>3 DEF Ends
  <2>5. Starts(future') = Starts(future)
    BY <2>1, <2>2, <2>3 DEF Starts
  <2>6. Cardinality(Ends(future')) = Cardinality(Ends(future)) - 1
    BY <2>4, <1>0, FS_RemoveElement
  <2> QED  BY <2>5, <2>6, <1>0, <1>2
<1> QED  BY <1>3, <1>4

(* The script gives no task to an executor that has had it.                *)
LEMMA TokensStay ==
  ASSUME PoolInv, GoInv,
         \/ SubmitTasks \/ RunSerial \/ LeavePool \/ WriteSummary
         \/ \E t \in Tasks : Collect(t)
  PROVE  /\ Cardinality(Starts(future')) <= Cardinality(Starts(future))
         /\ Cardinality(Ends(future')) <= Cardinality(Ends(future))
<1>1. future \in [Executor -> [Tasks -> State]]
  BY DEF PoolInv, FutureInv
<1>2. \A f \in {future, future'} : /\ IsFiniteSet(Starts(f)) /\ Cardinality(Starts(f)) \in Nat
                                  /\ IsFiniteSet(Ends(f)) /\ Cardinality(Ends(f)) \in Nat
  BY TokenFacts
<1>3. CASE future' = future
  BY <1>2, <1>3
<1>4. CASE LeavePool /\ future' = [future EXCEPT !["thread"] = Waiting]
  <2>1. \A t \in Tasks : future["thread"][t] = "none"
    <3>1. pool = "process" \/ future' = future
      BY <1>4 DEF LeavePool, Fallback
    <3>2. CASE pool = "process"
      BY <3>2 DEF PoolInv, FutureInv
    <3>3. CASE pool # "process"
      <4>1. future["thread"] = Waiting
        BY <3>1, <3>3, <1>1, <1>4 DEF Executor
      <4>2. ~Fallback /\ pool = "thread"
        BY <3>3 DEF Fallback, PoolInv, FutureInv, Executor
      <4>3. AllEnded /\ \E t \in Tasks : TRUE
        BY <1>4, PoolAssumption DEF LeavePool
      <4> QED  BY <4>1, <4>2, <4>3 DEF AllEnded, Waiting
    <3> QED  BY <3>2, <3>3
  <2>2. /\ \A t \in Tasks : future'["thread"][t] = "waiting"
        /\ \A e \in Executor \ {"thread"} : future'[e] = future[e]
    BY <1>1, <1>4 DEF Waiting, Executor
  <2>3. Starts(future') = Starts(future) /\ Ends(future') = Ends(future)
    BY <2>1, <2>2 DEF Starts, Ends
  <2> QED  BY <2>3, <1>2
<1>5. CASE SubmitTasks /\ future' = [future EXCEPT !["process"] = Waiting]
  <2>1. /\ \A t \in Tasks : future'["process"][t] = "waiting"
        /\ \A e \in Executor \ {"process"} : future'[e] = future[e]
    BY <1>1, <1>5 DEF Waiting, Executor
  <2>2. \A t \in Tasks : future["process"][t] = "none"
    BY <1>5 DEF GoInv, SubmitTasks
  <2>3. Starts(future') = Starts(future) /\ Ends(future') = Ends(future)
    BY <2>1, <2>2 DEF Starts, Ends
  <2> QED  BY <2>3, <1>2
<1> QED  BY <1>3, <1>4, <1>5 DEF SubmitTasks, RunSerial, LeavePool, WriteSummary, Collect
LEMMA GoStarts == PoolInit => GoInv
BY PoolAssumption DEF PoolInit, PoolRest, GoInv, NoFutures, Executor

LEMMA GoKeeps == PoolInv /\ GoInv /\ [FitStep]_fitvars => GoInv'
<1> SUFFICES ASSUME PoolInv, GoInv, [FitStep]_fitvars PROVE GoInv'
  OBVIOUS
<1>1. future \in [Executor -> [Tasks -> State]] /\ pool \in Executor
  BY DEF PoolInv, FutureInv
<1>2. CASE UNCHANGED fitvars
  BY <1>2 DEF fitvars, GoInv
<1>3. CASE SubmitTasks
  <2>1. pool = "process" /\ pool' = pool /\ jobs' = jobs /\ fstep' # "submit"
    BY <1>3 DEF SubmitTasks, PoolInv, FutureInv
  <2>2. fstep' = "collect" => \A t \in Tasks : future'["process"][t] = "waiting"
    BY <1>1, <1>3 DEF SubmitTasks, Waiting, Executor
  <2> QED  BY <2>1, <2>2 DEF GoInv
<1>4. CASE RunSerial \/ WriteSummary
  BY <1>4 DEF RunSerial, WriteSummary, GoInv
<1>5. CASE LeavePool
  <2>1. jobs' = jobs /\ fstep' # "submit"
    BY <1>5 DEF LeavePool
  <2>2. fstep' = "collect" => pool' = "thread" /\ \A t \in Tasks : future'["thread"][t] = "waiting"
    BY <1>1, <1>5 DEF LeavePool, Waiting, Executor
  <2> QED  BY <2>1, <2>2 DEF GoInv
<1>6. ASSUME NEW t \in Tasks, Collect(t) PROVE GoInv'
  BY <1>6 DEF Collect, GoInv
<1>7. ASSUME NEW e \in Executor, NEW t \in Tasks, StartTask(e, t) \/ EndTask(e, t)
      PROVE  GoInv'
  <2>1. /\ UNCHANGED <<jobs, fstep, pool>> /\ future[e][t] \in {"waiting", "running"}
        /\ \E o \in State \ {"none"} : future' = [future EXCEPT ![e][t] = o]
    BY <1>7 DEF StartTask, EndTask, Outcomes, Outcome, State
  <2>2. \A d \in Executor, u \in Tasks : (future'[d][u] = "none") = (future[d][u] = "none")
    BY <2>1, <1>1
  <2> QED  BY <2>1, <2>2, <1>1 DEF GoInv, Executor
<1> QED  BY <1>2, <1>3, <1>4, <1>5, <1>6, <1>7 DEF FitStep

(* Each step of the script takes one at least of those that it has left.   *)
LEMMA ScriptTakesOne ==
  ASSUME PoolInv,
         \/ SubmitTasks \/ RunSerial \/ LeavePool \/ WriteSummary
         \/ \E t \in Tasks : Collect(t)
  PROVE  ScriptLeft(fstep', pool', Cardinality(taken'))
           < ScriptLeft(fstep, pool, Cardinality(taken))
<1> DEFINE all == NumTasks
           c == Cardinality(taken)
           d == Cardinality(taken')
           A == ScriptLeft(fstep, pool, c)
           B == ScriptLeft(fstep', pool', d)
<1>0. all \in Nat
  BY TokenFacts
<1>1. /\ pool \in Executor /\ taken \in SUBSET Tasks /\ c \in 0..all
      /\ taken # Tasks => c < all
      /\ \A t \in Tasks \ taken : Cardinality(taken \cup {t}) = c + 1
  <2>1. pool \in Executor /\ taken \in SUBSET Tasks
    BY DEF PoolInv, FutureInv, RowInv
  <2> QED  BY <2>1, TakenFacts
<1>2. /\ fstep = "submit" => pool = "process" /\ taken = {}
      /\ fstep \in {"collect", "serial"} => c < all
  BY <1>1 DEF PoolInv, FutureInv, RowInv
<1>3. Cardinality({}) = 0
  BY FS_EmptySet
<1>4. /\ \A f, p, q : ScriptLeft(f, p, q) =
           CASE f = "submit" -> 2 * all + 5
             [] f = "collect" /\ p = "process" -> 2 * all + 4 - q
             [] f = "leave" /\ p = "process" -> all + 3
             [] f = "collect" /\ p = "thread" -> all + 2 - q
             [] f = "serial" -> all + 1 - q
             [] f = "leave" /\ p = "thread" -> 1
             [] f = "summary" -> 1
             [] OTHER -> 0
  BY DEF ScriptLeft
<1>5. CASE SubmitTasks
  <2>1. A = 2 * all + 5
    BY <1>4, <1>5 DEF SubmitTasks
  <2>2. d = 0 /\ pool' = "process" /\ fstep' \in {"serial", "collect", "leave"}
    BY <1>2, <1>3, <1>5 DEF SubmitTasks
  <2>3. B \in {2 * all + 4, all + 3, all + 1}
    <3>1. /\ ScriptLeft("serial", "process", 0) = all + 1 - 0
          /\ ScriptLeft("collect", "process", 0) = 2 * all + 4 - 0
          /\ ScriptLeft("leave", "process", 0) = all + 3
      BY <1>4
    <3> QED  BY <2>2, <3>1, <1>0
  <2> HIDE DEF A, B, all, c, d
  <2>4. B < A
    BY <2>1, <2>3, <1>0
  <2> QED  BY <2>4 DEF A, B, c, d
<1>6. CASE RunSerial
  <2>1. fstep = "serial" /\ fstep' \in {"summary", "serial", "died"} /\ A = all + 1 - c
    BY <1>4, <1>6 DEF RunSerial
  <2>2. d = c + 1
    <3>1. taken # Tasks /\ taken \subseteq Tasks
      BY <2>1 DEF PoolInv, RowInv
    <3>2. Tasks \ taken \in SUBSET Nat /\ Tasks \ taken # {}
      BY <3>1, PoolAssumption
    <3>3. Min(Tasks \ taken) \in Tasks \ taken
      BY <3>2, MinFacts
    <3>4. taken' = taken \cup {Min(Tasks \ taken)}
      BY <1>6 DEF RunSerial
    <3> QED  BY <3>3, <3>4, <1>1
  <2>3. B \in {all + 1 - d, 1, 0}
    BY <2>1, <1>4
  <2> HIDE DEF A, B, all, c, d
  <2>4. B < A
    BY <2>1, <2>2, <2>3, <1>0, <1>1, <1>2
  <2> QED  BY <2>4 DEF A, B, c, d
<1>7. CASE LeavePool
  <2>1. fstep = "leave"
    BY <1>7 DEF LeavePool
  <2>2. A \in {all + 3, 1} /\ (pool = "process" => A = all + 3)
    BY <2>1, <1>1, <1>4 DEF Executor
  <2>3. \/ pool = "process" /\ pool' = "thread" /\ fstep' = "collect" /\ d = 0
        \/ fstep' = "died"
    BY <1>3, <1>7 DEF LeavePool, Fallback
  <2>4. \/ pool = "process" /\ B = all + 2 - 0
        \/ B = 0
    BY <2>3, <1>4
  <2> HIDE DEF A, B, all, c, d
  <2>5. B < A
    BY <2>2, <2>4, <1>0
  <2> QED  BY <2>5 DEF A, B, c, d
<1>8. CASE WriteSummary
  <2>1. fstep = "summary" /\ fstep' \in {"report", "died"}
    BY <1>8 DEF WriteSummary
  <2>2. A = 1 /\ B = 0
    BY <2>1, <1>4
  <2> QED  BY <2>2
<1>9. ASSUME NEW t \in Tasks, Collect(t) PROVE B < A
  <2>1. /\ fstep = "collect" /\ pool' = pool /\ t \in Tasks \ taken /\ taken' = taken \cup {t}
        /\ fstep' \in {"summary", "collect", "leave"}
    BY <1>9 DEF Collect
  <2>2. d = c + 1 /\ c < all
    BY <2>1, <1>1, <1>2
  <2>3. CASE pool = "process"
    <3>1. A = 2 * all + 4 - c
      BY <2>1, <2>3, <1>4
    <3>2. B \in {1, 2 * all + 4 - d, all + 3}
      BY <2>1, <2>3, <1>4
    <3> HIDE DEF A, B, all, c, d
    <3> QED  BY <3>1, <3>2, <2>2, <1>0, <1>1
  <2>4. CASE pool = "thread"
    <3>1. A = all + 2 - c
      BY <2>1, <2>4, <1>4
    <3>2. B \in {1, all + 2 - d}
      BY <2>1, <2>4, <1>4
    <3> HIDE DEF A, B, all, c, d
    <3> QED  BY <3>1, <3>2, <2>2, <1>0, <1>1
  <2> QED  BY <2>3, <2>4, <1>1 DEF Executor
<1> QED  BY <1>5, <1>6, <1>7, <1>8, <1>9

(* The pool has at least one worker, and starts the first task that waits. *)
LEMMA JobsFacts == GoInv => _resolve_jobs \in Nat /\ _resolve_jobs >= 1
<1> SUFFICES ASSUME GoInv PROVE _resolve_jobs \in Nat /\ _resolve_jobs >= 1
  OBVIOUS
<1> DEFINE m == Min({jobs, NumTasks})
<1>1. NumTasks \in Nat /\ jobs \in Nat
  BY TokenFacts DEF GoInv
<1>2. m \in Nat
  <2>1. {jobs, NumTasks} \in SUBSET Nat /\ {jobs, NumTasks} # {}
    BY <1>1
  <2>2. m \in {jobs, NumTasks}
    BY <2>1, MinFacts
  <2> QED  BY <2>2, <1>1
<1>3. Max({1, m}) \in {1, m} /\ Max({1, m}) >= 1
  <2> HIDE DEF m
  <2>1. \E x \in {1, m} : \A y \in {1, m} : x >= y
    BY <1>2
  <2> QED  BY <2>1 DEF Max
<1> QED  BY <1>2, <1>3 DEF _resolve_jobs, NumTasks

LEMMA SomebodyCanGoOn ==
  ASSUME PoolInv, GoInv, fstep \notin {"report", "died"}
  PROVE  FitsCanGoOn
<1>1. /\ fstep \in {"submit", "serial", "collect", "leave", "summary"}
      /\ future \in [Executor -> [Tasks -> State]] /\ pool \in Executor
  BY DEF PoolInv, RowInv, FutureInv
<1> SUFFICES ASSUME \A t \in Tasks : future[pool][t] # "running",
                    fstep \notin {"submit", "serial", "summary"}
             PROVE  FitsCanGoOn
  BY DEF FitsCanGoOn
<1> DEFINE W == {t \in Tasks : future[pool][t] = "waiting"}
<1>2. CASE W # {}
  <2>1. W \in SUBSET Nat
    BY PoolAssumption
  <2>2. PICK t \in W : \A u \in W : t <= u
    BY <2>1, <1>2, LeastOf
  <2>3. \A u \in Tasks : u < t => future[pool][u] # "waiting"
    <3> SUFFICES ASSUME NEW u \in Tasks, u < t, future[pool][u] = "waiting" PROVE FALSE
      OBVIOUS
    <3>1. t <= u /\ u \in Nat /\ t \in Nat
      BY <2>1, <2>2
    <3> QED  BY <3>1
  <2>4. {u \in Tasks : future[pool][u] = "running"} = {}
    OBVIOUS
  <2>5. Cardinality({u \in Tasks : future[pool][u] = "running"}) < _resolve_jobs
    BY <2>4, JobsFacts, FS_EmptySet
  <2> QED  BY <2>2, <2>3, <2>5 DEF FitsCanGoOn
<1>3. CASE W = {}
  <2>1. CASE fstep = "leave"
    BY <2>1, <1>3 DEF AllEnded, FitsCanGoOn
  <2>2. CASE fstep = "collect"
    <3>1. PICK t \in Tasks \ taken : TRUE
      BY <2>2 DEF PoolInv, RowInv
    <3>2. future[pool][t] \in State /\ future[pool][t] \notin {"none", "waiting", "running"}
      BY <3>1, <2>2, <1>1, <1>3 DEF GoInv
    <3> QED  BY <3>1, <3>2, <2>2 DEF State, FitsCanGoOn
  <2> QED  BY <2>1, <2>2, <1>1
<1> QED  BY <1>2, <1>3

(* The fits are over after at most FitCost steps of the script and of the  *)
(* workers, however the tasks end and though all of them may run twice;    *)
(* and until then there is always somebody to take one.                    *)
FitIsBounded ==
  /\ [](FitLeft \in 0..FitCost /\ (fstep \notin {"report", "died"} => FitsCanGoOn))
  /\ [][FitLeft' < FitLeft]_fitvars

(* For every number of tasks, workers and failures.                        *)
THEOREM FitsAreBounded == PoolSpec => FitIsBounded
<1>1. ASSUME PoolInv PROVE FitLeft \in 0..FitCost
  <2>1. pool \in Executor /\ Cardinality(taken) \in 0..NumTasks
    BY <1>1, TakenFacts DEF PoolInv, FutureInv, RowInv
  <2>2. ScriptLeft(fstep, pool, Cardinality(taken)) \in 0..(2 * NumTasks + 5)
    BY <2>1, ScriptFacts
  <2>3. /\ Cardinality(Starts(future)) \in 0..(2 * NumTasks)
        /\ Cardinality(Ends(future)) \in 0..(2 * NumTasks) /\ NumTasks \in Nat
    BY TokenFacts
  <2> QED  BY <2>2, <2>3 DEF FitLeft, FitCost
<1>2. ASSUME PoolInv, PoolInv', GoInv, FitStep PROVE FitLeft' < FitLeft
  <2> DEFINE S == Cardinality(Starts(future))
             E == Cardinality(Ends(future))
             R == ScriptLeft(fstep, pool, Cardinality(taken))
             T == Cardinality(Starts(future'))
             F == Cardinality(Ends(future'))
             Q == ScriptLeft(fstep', pool', Cardinality(taken'))
  <2>1. S \in Nat /\ E \in Nat /\ T \in Nat /\ F \in Nat
    BY TokenFacts
  <2>2. R \in Nat /\ Q \in Nat
    <3>1. /\ pool \in Executor /\ Cardinality(taken) \in 0..NumTasks
          /\ pool' \in Executor /\ Cardinality(taken') \in 0..NumTasks
      BY <1>2, TakenFacts DEF PoolInv, FutureInv, RowInv
    <3>2. R \in 0..(2 * NumTasks + 5) /\ Q \in 0..(2 * NumTasks + 5)
      BY <3>1, ScriptFacts
    <3> QED  BY <3>2
  <2>3. FitLeft = S + E + R /\ FitLeft' = T + F + Q
    BY DEF FitLeft
  <2>4. CASE \/ SubmitTasks \/ RunSerial \/ LeavePool \/ WriteSummary
             \/ \E t \in Tasks : Collect(t)
    <3>1. T <= S /\ F <= E /\ Q < R
      BY <1>2, <2>4, TokensStay, ScriptTakesOne
    <3> HIDE DEF S, E, R, T, F, Q
    <3> QED  BY <2>1, <2>2, <2>3, <3>1
  <2>5. ASSUME NEW e \in Executor, NEW t \in Tasks, StartTask(e, t) \/ EndTask(e, t)
        PROVE  FitLeft' < FitLeft
    <3>1. T + F < S + E /\ UNCHANGED <<fstep, pool, taken>>
      BY <1>2, <2>5, WorkerTakesOne DEF PoolInv
    <3>2. Q = R
      BY <3>1
    <3> HIDE DEF S, E, R, T, F, Q
    <3> QED  BY <2>1, <2>2, <2>3, <3>1, <3>2
  <2> QED  BY <1>2, <2>4, <2>5 DEF FitStep
<1>3. PoolInv /\ GoInv =>
        FitLeft \in 0..FitCost /\ (fstep \notin {"report", "died"} => FitsCanGoOn)
  BY <1>1, SomebodyCanGoOn
<1>4. PoolInv /\ PoolInv' /\ GoInv /\ [FitStep]_fitvars => [FitLeft' < FitLeft]_fitvars
  BY <1>2
<1> QED  BY <1>3, <1>4, PoolStarts, PoolKeeps, GoStarts, GoKeeps, PTL DEF PoolSpec, FitIsBounded

-----------------------------------------------------------------------------
(* How long a scan takes.                                                  *)

(* The longest way of a command from each of its steps, and that of any    *)
(* command.                                                                *)
CommandCost == MaxAttempts + NumChannels + 3

CommandLeft(s, at) ==
  CASE s = "sync" -> MaxAttempts - at + NumChannels + 3
    [] s = "poll" -> NumChannels + 2
    [] s \in {"channel", "stop"} -> NumChannels - at + 1
    [] s \in {"apply", "stopApply"} -> 1
    [] OTHER -> 0

(* The steps of a point; of so many points and the stop command after      *)
(* them; and those that are left of the point at hand.                     *)
PointCost == Waveforms + CommandCost + 7
StopCost == CommandCost + 5
After(points) == points * PointCost + StopCost

PointLeft(p, begun, got) ==
  CASE p = "led" -> Waveforms + CommandCost + 6
    [] p = "meta" -> IF begun THEN Waveforms + 6 ELSE 1
    [] p \in {"ledWait", "configure"} -> Waveforms + 5
    [] p = "open" -> Waveforms + 4
    [] p = "acquire" -> Waveforms - got + 3
    [] p = "analysis" -> 2

(* The steps of the scan's process, and of the commands that it has still  *)
(* to start, when it is at p with so many points from the one at hand to   *)
(* the last of all; whether the stop command is done, the point has only   *)
(* begun, and the frames it has got.                                       *)
ProcessLeft(p, points, all, dark, begun, got) ==
  CASE p = "off" -> 0
    [] p = "manifest" -> IF dark THEN 2 ELSE After(all) + CommandCost + 4
    [] p \in {"calLed", "sweepLed"} -> After(all) + CommandCost + 3
    [] p \in {"calLedWait", "sweepLedWait"} -> After(all) + 2
    [] p \in {"calibrate", "ledManifest"} -> After(all) + 1
    [] p = "point" -> After(points)
    [] p \in AtPoint -> After(points - 1) + PointLeft(p, begun, got)
    [] p = "stop" -> CommandCost + 4
    [] p = "stopWait" -> 3
    [] p = "end" -> 1

(* The points from the one at hand to the last, and the frames it has.     *)
PointsLeft == Len(inclusive_range) + 1 - i
Frames == IF pc = "acquire" THEN Here.raw.n ELSE 0

ProcessNow ==
  ProcessLeft(pc, PointsLeft, Len(inclusive_range), stopped # None,
              status = "started", Frames)

ScanLeft == CommandLeft(ssp, k) + ProcessNow

(* A whole scan.                                                           *)
ScanCost == After(Len(inclusive_range)) + CommandCost + 4

(* What the bounds and the costs are.                                      *)
LEMMA CostFacts ==
  /\ Waveforms \in Nat /\ CommandCost \in Nat /\ CommandCost >= 4
  /\ PointCost = Waveforms + CommandCost + 7
  /\ After(0) = CommandCost + 5
  /\ \A p \in Nat : After(p) \in Nat /\ After(p + 1) = After(p) + PointCost
  /\ \A p, q \in Nat : p <= q => After(p) <= After(q)
<1>1. Waveforms \in Nat /\ CommandCost \in Nat /\ CommandCost >= 4
  BY LedFacts, ScanAssumption DEF CommandCost
<1> HIDE DEF CommandCost
<1>2. PointCost = Waveforms + CommandCost + 7 /\ PointCost \in Nat
  BY <1>1 DEF PointCost
<1> HIDE DEF PointCost
<1>3. ASSUME NEW p \in Nat PROVE After(p) \in Nat /\ After(p + 1) = After(p) + PointCost
  <2>1. p * PointCost \in Nat /\ (p + 1) * PointCost = p * PointCost + PointCost
    BY <1>2
  <2> QED  BY <1>1, <1>2, <2>1 DEF After, StopCost
<1>4. ASSUME NEW p \in Nat, NEW q \in Nat, p <= q PROVE After(p) <= After(q)
  <2>1. p * PointCost <= q * PointCost /\ p * PointCost \in Nat /\ q * PointCost \in Nat
    BY <1>2, <1>4
  <2> QED  BY <1>1, <2>1 DEF After, StopCost
<1>5. After(0) = CommandCost + 5
  <2>1. 0 * PointCost = 0
    BY <1>2
  <2> QED  BY <1>1, <2>1 DEF After, StopCost
<1> QED  BY <1>1, <1>2, <1>3, <1>4, <1>5

(* A command is over after CommandCost steps.                              *)
LEMMA CommandFacts ==
  ASSUME SspInv
  PROVE  /\ CommandLeft(ssp, k) \in 0..CommandCost
         /\ ssp = "idle" => CommandLeft(ssp, k) = 0
         /\ ssp # "idle" => CommandLeft(ssp, k) >= 1
<1>1. /\ k \in 0..(NumChannels + MaxAttempts)
      /\ ssp \in {"idle", "sync", "poll", "channel", "apply", "stop", "stopApply"}
      /\ ssp \in {"channel", "stop"} => k <= NumChannels
  BY DEF SspInv, SspTypeOK, StopSteps
<1>2. /\ k \in Nat /\ k <= NumChannels + MaxAttempts
      /\ NumChannels \in Nat /\ NumChannels >= 1 /\ MaxAttempts \in Nat
  BY <1>1, LedFacts
<1>3. CASE ssp = "idle"
  BY <1>2, <1>3 DEF CommandLeft, CommandCost
<1>4. CASE ssp = "sync"
  BY <1>2, <1>4 DEF CommandLeft, CommandCost
<1>5. CASE ssp \in {"channel", "stop"}
  BY <1>1, <1>2, <1>5 DEF CommandLeft, CommandCost
<1>6. CASE ssp \in {"poll", "apply", "stopApply"}
  BY <1>2, <1>6 DEF CommandLeft, CommandCost
<1> QED  BY <1>1, <1>3, <1>4, <1>5, <1>6

LEMMA CommandTakes ==
  ASSUME SspInv, SspStep
  PROVE  CommandLeft(ssp, k)' < CommandLeft(ssp, k)
<1>1. SspInv' /\ ssp # "idle"
  BY SspKeeps DEF SspEffect
<1>2. /\ \/ ssp' = "idle"
         \/ ssp = "sync" /\ k < MaxAttempts /\ ssp' = "sync" /\ k' = k + 1
         \/ ssp = "sync" /\ k < MaxAttempts /\ ssp' = "poll"
         \/ ssp = "sync" /\ k = 0 /\ ssp' = "poll"
         \/ ssp = "poll" /\ ssp' = "channel" /\ k' = 0
         \/ ssp = "channel" /\ k \in Led /\ ssp' \in {"channel", "apply"} /\ k' = k + 1
         \/ ssp = "stop" /\ k \in Led /\ ssp' \in {"stop", "stopApply"} /\ k' = k + 1
  BY DEF SspStep, ConnectionFails, AlreadySynced, Attempt, SyncFailed, Poll, WriteChannel,
     ApplyBias, StopChannel, Then, Goto, Exit, Raise
<1>3. k \in 0..(NumChannels + MaxAttempts)
  BY DEF SspInv, SspTypeOK
<1>4. CASE ssp' = "idle"
  BY <1>1, <1>4, CommandFacts DEF CommandLeft
<1> QED  BY <1>2, <1>3, <1>4, LedFacts DEF CommandLeft

(* Where a scan can be among its points.                                   *)
LEMMA PointsFacts ==
  ASSUME NEW L, L = Len(inclusive_range), NEW j \in 1..(L + 1), NEW w, w = L + 1 - j
  PROVE  /\ After(L) \in Nat /\ After(w) \in Nat /\ After(w) <= After(L)
         /\ CommandCost + 5 <= After(w)
         /\ j <= L => /\ After(w - 1) \in Nat /\ CommandCost + 5 <= After(w - 1)
                      /\ After(w) = After(w - 1) + (Waveforms + CommandCost + 7)
         /\ j > L => After(w) = CommandCost + 5
<1>1. L \in Nat /\ j \in Nat /\ w \in Nat /\ w <= L /\ 0 \in Nat /\ 0 <= w /\ (j > L => w = 0)
  BY RangeFacts
<1>2. ASSUME j <= L
      PROVE  /\ After(w - 1) \in Nat /\ CommandCost + 5 <= After(w - 1)
             /\ After(w) = After(w - 1) + (Waveforms + CommandCost + 7)
  <2>1. w - 1 \in Nat /\ 0 <= w - 1 /\ (w - 1) + 1 = w
    BY <1>1, <1>2
  <2> QED  BY <1>1, <2>1, CostFacts
<1>3. j > L => After(w) = CommandCost + 5
  BY <1>1, CostFacts
<1> QED  BY <1>1, <1>2, <1>3, CostFacts

LEMMA PlaceFacts ==
  ASSUME ScanInv
  PROVE  /\ Len(inclusive_range) \in Nat /\ i \in 1..(Len(inclusive_range) + 1)
         /\ pc \in AtPoint => i <= Len(inclusive_range)
         /\ Frames \in 0..Waveforms
<1>1. /\ Len(inclusive_range) \in Nat /\ i \in 1..(Len(inclusive_range) + 1)
      /\ pc \in AtPoint => i <= Len(inclusive_range)
  BY RangeFacts DEF ScanInv, PlaceInv
<1>2. CASE pc = "acquire"
  <2>1. i \in 1..Len(inclusive_range) /\ pc # "off"
    BY <1>1, <1>2 DEF AtPoint
  <2>2. PointOk(LightAt(dir, X), used[dir], prog, X, Here)
    BY <2>1, AtHand DEF ScanInv, DataInv
  <2> QED  BY <1>1, <1>2, <2>2 DEF Frames, PointOk
<1>3. CASE pc # "acquire"
  BY <1>1, <1>3, CostFacts DEF Frames
<1> QED  BY <1>2, <1>3

(* What is left is never more than a whole scan, and nothing only when     *)
(* there is none.                                                          *)
LEMMA ProcessFacts ==
  ASSUME ScanInv
  PROVE  /\ ProcessNow \in 0..ScanCost
         /\ pc # "off" => ProcessNow >= 1
<1> DEFINE L == Len(inclusive_range)
           C == CommandCost
           A == After(L)
           R == After(PointsLeft)
           Q == After(PointsLeft - 1)
           T == ProcessNow
<1>1. /\ C \in Nat /\ C >= 4 /\ Waveforms \in Nat /\ Frames \in 0..Waveforms
      /\ A \in Nat /\ R \in Nat /\ R <= A /\ C + 5 <= R
      /\ pc \in AtPoint => Q \in Nat /\ R = Q + (Waveforms + C + 7)
      /\ ScanCost = A + C + 4
  <2>1. Len(inclusive_range) \in Nat /\ i \in 1..(Len(inclusive_range) + 1)
        /\ (pc \in AtPoint => i <= Len(inclusive_range)) /\ Frames \in 0..Waveforms
    BY PlaceFacts
  <2>2. PointsLeft = Len(inclusive_range) + 1 - i
    BY DEF PointsLeft
  <2>3. /\ After(L) \in Nat /\ After(PointsLeft) \in Nat /\ After(PointsLeft) <= After(L)
        /\ C + 5 <= After(PointsLeft)
        /\ i <= L => /\ After(PointsLeft - 1) \in Nat
                     /\ After(PointsLeft) = After(PointsLeft - 1) + (Waveforms + C + 7)
    BY <2>1, <2>2, PointsFacts
  <2> QED  BY <2>1, <2>3, CostFacts DEF ScanCost
<1>2. pc \in {"off", "manifest", "calLed", "calLedWait", "calibrate", "point", "sweepLed",
              "sweepLedWait", "ledManifest", "stop", "stopWait", "end"} \cup AtPoint
  BY DEF ScanInv, PlaceInv, IntensityLabels, SweepLabels, AtPoint
<1>3. /\ pc = "off" => T = 0
      /\ pc = "manifest" => T \in {2, A + C + 4}
      /\ pc \in {"calLed", "sweepLed"} => T = A + C + 3
      /\ pc \in {"calLedWait", "sweepLedWait"} => T = A + 2
      /\ pc \in {"calibrate", "ledManifest"} => T = A + 1
      /\ pc = "point" => T = R
      /\ pc = "led" => T = Q + (Waveforms + C + 6)
      /\ pc = "meta" => T \in {Q + (Waveforms + 6), Q + 1}
      /\ pc \in {"ledWait", "configure"} => T = Q + (Waveforms + 5)
      /\ pc = "open" => T = Q + (Waveforms + 4)
      /\ pc = "acquire" => T = Q + (Waveforms - Frames + 3)
      /\ pc = "analysis" => T = Q + 2
      /\ pc = "stop" => T = C + 4
      /\ pc = "stopWait" => T = 3
      /\ pc = "end" => T = 1
  BY DEF ProcessNow, ProcessLeft, PointLeft, AtPoint
<1> HIDE DEF L, C, A, R, Q, T
<1>4. T \in 0..ScanCost /\ (pc # "off" => T >= 1)
  BY <1>1, <1>2, <1>3 DEF AtPoint
<1> QED  BY <1>4 DEF T

(* The steps of the process, by where they lead.                           *)
Moves ==
  \/ /\ pc = "manifest" /\ stopped = None
     /\ pc' \in {"calLed", "sweepLed", "point"} /\ i' = i
  \/ pc = "manifest" /\ stopped # None /\ pc' = "end"
  \/ pc = "calLedWait" /\ pc' \in {"calibrate", "off"}
  \/ pc = "calibrate" /\ pc' \in {"point", "off"} /\ (pc' = "point" => i' = i)
  \/ pc = "point" /\ i <= Len(inclusive_range) /\ pc' \in {"led", "meta"} /\ i' = i
  \/ pc = "meta" /\ status = "started" /\ pc' = "configure" /\ i' = i
  \/ pc = "meta" /\ status # "started" /\ pc' = "point" /\ i' = i + 1
  \/ pc \in {"ledWait", "configure"} /\ pc' = "open" /\ i' = i
  \/ /\ pc \in {"ledWait", "configure", "acquire", "analysis"}
     /\ pc' = "meta" /\ status' # "started" /\ i' = i
  \/ pc = "configure" /\ pc' \in {"stop", "end"}
  \/ pc = "open" /\ pc' = "acquire" /\ i' = i /\ Frames' = 0
  \/ pc = "acquire" /\ pc' = "acquire" /\ i' = i /\ Frames < Waveforms /\ Frames' = Frames + 1
  \/ pc = "acquire" /\ pc' = "analysis" /\ i' = i
  \/ pc = "sweepLedWait" /\ pc' = "ledManifest"
  \/ pc = "ledManifest" /\ pc' \in {"point", "off"} /\ (pc' = "point" => i' = i)
  \/ pc = "point" /\ i > Len(inclusive_range) /\ pc' = "stop"
  \/ pc = "stopWait" /\ pc' = "manifest" /\ stopped' # None
  \/ pc = "stopWait" /\ pc' = "end"
  \/ pc = "end" /\ pc' = "off"

(* The point at hand after it is written.                                  *)
LEMMA HereIs ==
  ASSUME ScanInv, pc \in AtPoint, NEW q, SetPoint(q), i' = i, dir' = dir
  PROVE  Here' = q
<1>1. X \in Point /\ dir \in Dirs
  BY AtX DEF ScanInv, PlaceInv
<1>2. DOMAIN point = Dirs /\ DOMAIN point[dir] = Point
  BY <1>1 DEF ScanInv, DiskInv
<1>3. point' = [point EXCEPT ![dir][X] = q]
  BY DEF SetPoint
<1>4. Here' = point'[dir][X]
  BY DEF Here, X
<1> QED  BY <1>1, <1>2, <1>3, <1>4

(* Its raw files after they are written.                                   *)
LEMMA RawIs ==
  ASSUME ScanInv, pc \in AtPoint, NEW a, SetPoint([Here EXCEPT !.raw = a]), i' = i, dir' = dir
  PROVE  Here'.raw = a
<1>1. PointOk(LightAt(dir, X), used[dir], prog, X, Here)
  <2>1. X \in Point /\ dir \in Dirs
    BY AtX DEF ScanInv, PlaceInv
  <2> QED  BY <2>1, Zenon DEF ScanInv, DiskInv, Here
<1>2. Here = [made |-> Here.made, meta |-> Here.meta, analysis |-> Here.analysis,
              raw |-> Here.raw]
  BY <1>1, Zenon DEF PointOk
<1>3. Here' = [Here EXCEPT !.raw = a]
  BY HereIs
<1> QED  BY <1>2, <1>3

LEMMA StepMoves ==
  ASSUME ScanInv, ScanStep, ~RunLed
  PROVE  Moves /\ UNCHANGED <<ssp, k>>
<1>1. CASE WriteManifest
  BY <1>1 DEF WriteManifest, ScanInv, PlaceInv, StopInv, sspvars, Moves, None
<1>2. CASE CalibrationLed \/ Calibrate \/ EndScan
  BY <1>2 DEF CalibrationLed, Calibrate, EndScan, End, sspvars, Moves
<1>3. CASE BeginPoint
  BY <1>3 DEF BeginPoint, sspvars, Moves
<1>4. CASE WriteMeta
  BY <1>4 DEF WriteMeta, sspvars, Moves
<1>5. CASE PointLed
  BY <1>5 DEF PointLed, Meta, sspvars, Moves
<1>6. CASE Configure
  BY <1>6 DEF Configure, ConfigureOk, Raised, Meta, sspvars, Moves
<1>7. CASE OpenRaw
  <2>1. /\ pc = "open" /\ pc' = "acquire" /\ i' = i /\ dir' = dir /\ UNCHANGED <<ssp, k>>
        /\ SetPoint([Here EXCEPT !.raw = NoRaw])
    BY <1>7 DEF OpenRaw, sspvars, scanrest
  <2>2. Here'.raw = NoRaw
    BY <2>1, RawIs DEF AtPoint
  <2> QED  BY <2>1, <2>2 DEF Moves, Frames, NoRaw, Files
<1>8. CASE Acquire
  <2> DEFINE a == [n |-> Here.raw.n + 1, light |-> Here.raw.light \cup {Light},
                   vgain |-> Here.raw.vgain \cup {vgain}]
  <2>1. /\ pc = "acquire" /\ pc' = "acquire" /\ i' = i /\ dir' = dir /\ UNCHANGED <<ssp, k>>
        /\ Here.raw.n < Waveforms /\ SetPoint([Here EXCEPT !.raw = a])
    BY <1>8 DEF Acquire, sspvars, scanrest
  <2>2. a.n = Here.raw.n + 1
    OBVIOUS
  <2> HIDE DEF a
  <2>3. Here'.raw = a
    BY <2>1, RawIs DEF AtPoint
  <2> QED  BY <2>1, <2>2, <2>3 DEF Moves, Frames
<1>9. CASE AcquireFails \/ Acquired
  BY <1>9 DEF AcquireFails, Acquired, Meta, sspvars, Moves
<1>10. CASE WriteAnalysis
  BY <1>10 DEF WriteAnalysis, Meta, sspvars, Moves
<1>11. CASE SweepLed \/ RecordLed
  BY <1>11 DEF SweepLed, RecordLed, End, sspvars, Moves
<1>12. CASE LastPoint
  BY <1>12 DEF LastPoint, sspvars, Moves
<1>13. CASE StopEnds
  BY <1>13 DEF StopEnds, ScanInv, CommandInv, Waits, sspvars, Moves, None
<1> QED
  BY <1>1, <1>2, <1>3, <1>4, <1>5, <1>6, <1>7, <1>8, <1>9, <1>10, <1>11, <1>12, <1>13
  DEF ScanStep

(* Every such step takes one at least from what is left, and the start of  *)
(* a command, all that it will take.                                       *)
LEMMA MovesTake ==
  ASSUME ScanInv, Moves, i' \in 1..(Len(inclusive_range) + 1),
         pc' \in AtPoint => i' <= Len(inclusive_range)
  PROVE  ProcessNow' \in Int /\ ProcessNow' < ProcessNow
<1> DEFINE L == Len(inclusive_range)
           C == CommandCost
           A == After(L)
           R == After(PointsLeft)
           Q == After(PointsLeft - 1)
           R1 == After(PointsLeft')
           Q1 == After(PointsLeft' - 1)
           F == Frames
           F1 == Frames'
           T == ProcessNow
           T1 == ProcessNow'
<1>1. /\ C \in Nat /\ C >= 4 /\ Waveforms \in Nat /\ F \in 0..Waveforms
      /\ A \in Nat /\ R \in Nat /\ R <= A /\ C + 5 <= R
      /\ pc \in AtPoint => Q \in Nat /\ C + 5 <= Q /\ R = Q + (Waveforms + C + 7)
      /\ L \in Nat /\ i \in 1..(L + 1) /\ (pc \in AtPoint => i <= L)
      /\ pc = "point" /\ i <= L => Q \in Nat /\ R = Q + (Waveforms + C + 7)
      /\ pc = "point" /\ i > L => R = C + 5
  <2>1. Len(inclusive_range) \in Nat /\ i \in 1..(Len(inclusive_range) + 1)
        /\ (pc \in AtPoint => i <= Len(inclusive_range)) /\ Frames \in 0..Waveforms
    BY PlaceFacts
  <2>2. PointsLeft = Len(inclusive_range) + 1 - i
    BY DEF PointsLeft
  <2>3. /\ After(L) \in Nat /\ After(PointsLeft) \in Nat /\ After(PointsLeft) <= After(L)
        /\ C + 5 <= After(PointsLeft)
        /\ i <= L => /\ After(PointsLeft - 1) \in Nat /\ C + 5 <= After(PointsLeft - 1)
                     /\ After(PointsLeft) = After(PointsLeft - 1) + (Waveforms + C + 7)
        /\ i > L => After(PointsLeft) = C + 5
    <3>1. L = Len(inclusive_range) /\ i \in 1..(L + 1)
      BY <2>1
    <3>2. PointsLeft = L + 1 - i
      BY <2>2
    <3> QED BY <3>1, <3>2, PointsFacts, SMTT(60)
  <2> QED  BY <2>1, <2>3, CostFacts
<1>2. /\ R1 \in Nat /\ R1 <= A
      /\ pc' \in AtPoint => Q1 \in Nat /\ R1 = Q1 + (Waveforms + C + 7)
  BY PointsFacts DEF PointsLeft
<1>3. i' = i => R1 = R /\ Q1 = Q
  BY DEF PointsLeft
<1>4. i' = i + 1 => R1 = Q
  <2>1. i' = i + 1 => PointsLeft' = PointsLeft - 1
    BY <1>1 DEF PointsLeft
  <2> QED  BY <2>1
<1>5. /\ pc = "off" => T = 0
      /\ pc = "manifest" /\ stopped # None => T = 2
      /\ pc = "manifest" /\ stopped = None => T = A + C + 4
      /\ pc \in {"calLedWait", "sweepLedWait"} => T = A + 2
      /\ pc \in {"calibrate", "ledManifest"} => T = A + 1
      /\ pc = "point" => T = R
      /\ pc = "meta" /\ status = "started" => T = Q + (Waveforms + 6)
      /\ pc = "meta" /\ status # "started" => T = Q + 1
      /\ pc \in {"ledWait", "configure"} => T = Q + (Waveforms + 5)
      /\ pc = "open" => T = Q + (Waveforms + 4)
      /\ pc = "acquire" => T = Q + (Waveforms - F + 3)
      /\ pc = "analysis" => T = Q + 2
      /\ pc = "stopWait" => T = 3
      /\ pc = "end" => T = 1
  BY DEF ProcessNow, ProcessLeft, PointLeft, AtPoint
<1>6. /\ pc' = "off" => T1 = 0
      /\ pc' = "manifest" /\ stopped' # None => T1 = 2
      /\ pc' \in {"calLed", "sweepLed"} => T1 = A + C + 3
      /\ pc' \in {"calibrate", "ledManifest"} => T1 = A + 1
      /\ pc' = "point" => T1 = R1
      /\ pc' = "led" => T1 = Q1 + (Waveforms + C + 6)
      /\ pc' = "meta" /\ status' = "started" => T1 = Q1 + (Waveforms + 6)
      /\ pc' = "meta" /\ status' # "started" => T1 = Q1 + 1
      /\ pc' = "configure" => T1 = Q1 + (Waveforms + 5)
      /\ pc' = "open" => T1 = Q1 + (Waveforms + 4)
      /\ pc' = "acquire" => T1 = Q1 + (Waveforms - F1 + 3)
      /\ pc' = "analysis" => T1 = Q1 + 2
      /\ pc' = "stop" => T1 = C + 4
      /\ pc' = "end" => T1 = 1
  BY DEF ProcessNow, ProcessLeft, PointLeft, AtPoint
<1>7. Moves
  OBVIOUS
<1> HIDE DEF A, C, R, Q, R1, Q1, F, F1, T, T1
<1>8. T1 < T
  <2>1. CASE pc = "manifest"
    BY <1>1, <1>2, <1>3, <1>5, <1>6, <1>7, <2>1 DEF Moves
  <2>2. CASE pc \in {"calLedWait", "calibrate", "sweepLedWait", "ledManifest", "stopWait", "end"}
    BY <1>1, <1>2, <1>3, <1>5, <1>6, <1>7, <2>2 DEF Moves
  <2>3. CASE pc = "point"
    BY <1>1, <1>2, <1>3, <1>5, <1>6, <1>7, <2>3 DEF Moves, AtPoint
  <2>4. CASE pc = "meta"
    BY <1>1, <1>2, <1>3, <1>4, <1>5, <1>6, <1>7, <2>4 DEF Moves, AtPoint
  <2>5. CASE pc \in {"ledWait", "configure"}
    BY <1>1, <1>2, <1>3, <1>5, <1>6, <1>7, <2>5 DEF Moves, AtPoint
  <2>6. CASE pc \in {"open", "acquire", "analysis"}
    BY <1>1, <1>2, <1>3, <1>5, <1>6, <1>7, <2>6 DEF Moves, AtPoint, F, F1
  <2> QED  BY <1>7, <2>1, <2>2, <2>3, <2>4, <2>5, <2>6 DEF Moves
<1>9. pc' = "acquire" => F1 \in Int
  BY <1>1, <1>7 DEF Moves, F, F1
<1>10. /\ pc' \in {"off", "manifest", "calLed", "sweepLed", "calibrate", "ledManifest",
                   "point", "stop", "end", "led", "meta", "configure", "open", "acquire", "analysis"}
       /\ pc' = "manifest" => stopped' # None
  BY <1>7 DEF Moves
<1>11. T1 \in Int
  <2>1. CASE pc' \in {"led", "meta", "configure", "open", "acquire", "analysis"}
    <3>1. Q1 \in Nat
      BY <1>2, <2>1 DEF AtPoint
    <3> QED  BY <1>1, <1>6, <1>9, <2>1, <3>1
  <2>2. CASE pc' \notin {"led", "meta", "configure", "open", "acquire", "analysis"}
    BY <1>1, <1>2, <1>6, <1>10, <2>2
  <2> QED  BY <2>1, <2>2
<1> QED  BY <1>8, <1>11 DEF T, T1

LEMMA CommandStarts ==
  ASSUME ScanInv, RunLed
  PROVE  ScanLeft' < ScanLeft
<1> DEFINE C == CommandCost
           A == After(Len(inclusive_range))
           Q == After(PointsLeft - 1)
           T == ProcessNow
           T1 == ProcessNow'
           D == CommandLeft(ssp, k)
           D1 == CommandLeft(ssp, k)'
<1>1. /\ ssp = "idle" /\ i' = i
      /\ \/ pc = "calLed" /\ pc' = "calLedWait"
         \/ pc = "sweepLed" /\ pc' = "sweepLedWait"
         \/ pc = "led" /\ pc' = "ledWait"
         \/ pc = "stop" /\ pc' = "stopWait"
      /\ ssp' \in {"sync", "stop"} /\ k' = 0
  BY DEF RunLed, Command
<1>2. D = 0 /\ D1 \in 0..C /\ C \in Nat
  <2>1. D = 0 /\ C \in Nat
    BY <1>1, CommandFacts, CostFacts DEF ScanInv
  <2>2. D1 \in 0..C
    BY <1>1, LedFacts DEF CommandLeft, CommandCost
  <2> QED  BY <2>1, <2>2
<1>3. A \in Nat /\ Waveforms \in Nat /\ (pc = "led" => Q \in Nat)
  <2>1. Len(inclusive_range) \in Nat /\ i \in 1..(Len(inclusive_range) + 1)
        /\ (pc = "led" => i <= Len(inclusive_range))
    BY PlaceFacts DEF AtPoint
  <2>2. PointsLeft = Len(inclusive_range) + 1 - i
    BY DEF PointsLeft
  <2>3. /\ A \in Nat
        /\ i <= Len(inclusive_range) => Q \in Nat
    BY <2>1, <2>2, PointsFacts
  <2> QED  BY <2>1, <2>3, CostFacts
<1>4. /\ pc \in {"calLed", "sweepLed"} => T = A + C + 3
      /\ pc = "led" => T = Q + (Waveforms + C + 6)
      /\ pc = "stop" => T = C + 4
  BY DEF ProcessNow, ProcessLeft, PointLeft, AtPoint
<1>5. /\ pc' \in {"calLedWait", "sweepLedWait"} => T1 = A + 2
      /\ pc' = "ledWait" => T1 = Q + (Waveforms + 5)
      /\ pc' = "stopWait" => T1 = 3
  BY <1>1 DEF ProcessNow, ProcessLeft, PointLeft, AtPoint, PointsLeft
<1>6. ScanLeft = D + T /\ ScanLeft' = D1 + T1
  BY DEF ScanLeft
<1> HIDE DEF A, C, Q, T, T1, D, D1
<1> QED  BY <1>1, <1>2, <1>3, <1>4, <1>5, <1>6

(* A scan that is cut off stops its LED at most.                           *)
LEMMA CrashTakes ==
  ASSUME ScanInv, NEW kill \in BOOLEAN, Crash(kill)
  PROVE  ScanLeft' <= ScanLeft
<1> DEFINE C == CommandCost
           A == After(Len(inclusive_range))
           R == After(PointsLeft)
           Q == After(PointsLeft - 1)
           T == ProcessNow
           T1 == ProcessNow'
           D == CommandLeft(ssp, k)
           D1 == CommandLeft(ssp, k)'
<1>1. /\ pc # "off" /\ ssp' = "idle"
      /\ \/ pc' = "off"
         \/ /\ pc' = "stop" /\ prog = "sweep" /\ started /\ stopped = None /\ pc # "stopWait"
  BY DEF Crash, End, Raised, FinallyStops
<1>2. D \in 0..C /\ D1 = 0 /\ C \in Nat
  <2>1. D \in 0..C /\ C \in Nat
    BY CommandFacts, CostFacts DEF ScanInv
  <2> QED  BY <1>1, <2>1 DEF CommandLeft
<1>3. pc' = "off" => T1 = 0
  BY DEF ProcessNow, ProcessLeft, AtPoint
<1>4. pc' = "stop" => T1 = C + 4
  BY DEF ProcessNow, ProcessLeft, AtPoint
<1>5. T \in Nat
  <2>1. ScanCost \in Nat
    <3>1. After(Len(inclusive_range)) \in Nat /\ CommandCost \in Nat
      BY PlaceFacts, CostFacts
    <3> QED  BY <3>1 DEF ScanCost
  <2> QED  BY <2>1, ProcessFacts
<1>6. pc' = "stop" => T >= C + 4
  <2> SUFFICES ASSUME pc' = "stop" PROVE T >= C + 4
    OBVIOUS
  <2>1. pc \in {"point", "meta", "configure", "open", "acquire", "stop"}
    BY <1>1 DEF ScanInv, PlaceInv, StopInv, SweepLabels, None
  <2>2. Len(inclusive_range) \in Nat /\ i \in 1..(Len(inclusive_range) + 1)
        /\ (pc \in AtPoint => i <= Len(inclusive_range)) /\ Frames \in 0..Waveforms
    BY PlaceFacts
  <2>3. PointsLeft = Len(inclusive_range) + 1 - i
    BY DEF PointsLeft
  <2>4. /\ A \in Nat /\ R \in Nat /\ R <= A /\ C + 5 <= R
        /\ i <= Len(inclusive_range) => Q \in Nat /\ C + 5 <= Q
    BY <2>2, <2>3, PointsFacts
  <2>5. /\ pc = "point" => T = R
        /\ pc = "meta" => T \in {Q + (Waveforms + 6), Q + 1}
        /\ pc = "configure" => T = Q + (Waveforms + 5)
        /\ pc = "open" => T = Q + (Waveforms + 4)
        /\ pc = "acquire" => T = Q + (Waveforms - Frames + 3)
        /\ pc = "stop" => T = C + 4
    BY <1>1 DEF ProcessNow, ProcessLeft, PointLeft, AtPoint
  <2> DEFINE F == Frames
  <2>6. Waveforms \in Nat /\ F \in 0..Waveforms
    BY <2>2, CostFacts
  <2> HIDE DEF A, C, Q, R, T, F
  <2> QED  BY <1>2, <2>1, <2>2, <2>4, <2>5, <2>6 DEF AtPoint, F
<1>7. ScanLeft = D + T /\ ScanLeft' = D1 + T1
  BY DEF ScanLeft
<1> HIDE DEF A, C, R, Q, T, T1, D, D1
<1> QED  BY <1>1, <1>2, <1>3, <1>4, <1>5, <1>6, <1>7

(* What is left is at most a whole scan.                                   *)
LEMMA ScanLeftFacts == ASSUME ScanInv PROVE ScanLeft \in 0..ScanCost
<1> DEFINE C == CommandCost
           A == After(Len(inclusive_range))
           R == After(PointsLeft)
           Q == After(PointsLeft - 1)
           T == ProcessNow
           D == CommandLeft(ssp, k)
<1>1. D \in 0..C /\ C \in Nat /\ ScanCost = A + C + 4
  BY CommandFacts, CostFacts DEF ScanInv, ScanCost
<1>2. D = 0 \/ pc \in Waits
  BY CommandFacts DEF ScanInv, CommandInv
<1>3. /\ A \in Nat /\ R <= A /\ Waveforms \in Nat /\ C + 5 <= A
      /\ pc = "ledWait" => Q \in Nat /\ R = Q + (Waveforms + C + 7)
  <2>1. Len(inclusive_range) \in Nat /\ i \in 1..(Len(inclusive_range) + 1)
        /\ (pc = "ledWait" => i <= Len(inclusive_range))
    BY PlaceFacts DEF AtPoint
  <2>2. PointsLeft = Len(inclusive_range) + 1 - i
    BY DEF PointsLeft
  <2>3. /\ A \in Nat /\ R \in Nat /\ R <= A /\ C + 5 <= R
        /\ pc = "ledWait" => Q \in Nat /\ R = Q + (Waveforms + C + 7)
    BY <2>1, <2>2, PointsFacts
  <2> HIDE DEF A, R, Q
  <2> QED  BY <1>1, <2>3, CostFacts
<1>4. /\ pc \in {"calLedWait", "sweepLedWait"} => T = A + 2
      /\ pc = "ledWait" => T = Q + (Waveforms + 5)
      /\ pc = "stopWait" => T = 3
  BY DEF ProcessNow, ProcessLeft, PointLeft, AtPoint
<1>5. T \in 0..ScanCost
  BY ProcessFacts
<1>6. ScanLeft = D + T
  BY DEF ScanLeft
<1> HIDE DEF A, C, Q, R, T, D
<1> QED  BY <1>1, <1>2, <1>3, <1>4, <1>5, <1>6 DEF Waits, LedWaits

(* The steps that are left of a scan are never more than ScanCost, every   *)
(* step of the scan and of the command it waits for takes one at least,    *)
(* and no interrupt adds one: a scan is over after as many steps, whatever *)
(* the box, the front end and the acquisition answer.                      *)
ScanIsBounded ==
  /\ [](ScanLeft \in 0..ScanCost)
  /\ [][/\ ScanStep \/ SspStep => ScanLeft' < ScanLeft
        /\ \A kill \in BOOLEAN : Crash(kill) => ScanLeft' <= ScanLeft]_<<sspvars, scanvars>>

(* For every number of points, channels, waveforms and attempts: no scan   *)
(* and no command of one goes round for ever.                              *)
THEOREM ScansAreBounded == ScanSpec => ScanIsBounded
<1>1. ASSUME ScanInv, ScanStep, [ScanNext]_<<sspvars, scanvars>> PROVE ScanLeft' < ScanLeft
  <2>1. CASE RunLed
    BY <1>1, <2>1, CommandStarts
  <2>2. CASE ~RunLed
    <3>1. ScanInv'
      BY <1>1, ScanKeeps
    <3>2. Moves /\ UNCHANGED <<ssp, k>>
      BY <1>1, <2>2, StepMoves
    <3>3. /\ i' \in 1..(Len(inclusive_range) + 1)
          /\ pc' \in AtPoint => i' <= Len(inclusive_range)
      BY <3>1 DEF ScanInv, PlaceInv
    <3>4. ProcessNow' \in Int /\ ProcessNow' < ProcessNow
      BY <1>1, <3>2, <3>3, MovesTake
    <3>5. CommandLeft(ssp, k)' = CommandLeft(ssp, k)
      BY <3>2 DEF CommandLeft
    <3>6. CommandLeft(ssp, k) \in Int /\ ProcessNow \in Int
      BY <1>1, CommandFacts, ProcessFacts DEF ScanInv
    <3> QED  BY <3>4, <3>5, <3>6 DEF ScanLeft
  <2> QED  BY <2>1, <2>2
<1>2. ASSUME ScanInv, SspStep, UNCHANGED scanvars PROVE ScanLeft' < ScanLeft
  <2>1. SspInv /\ SspInv'
    BY <1>2, SspKeeps DEF ScanInv
  <2>2. CommandLeft(ssp, k)' < CommandLeft(ssp, k)
    BY <1>2, <2>1, CommandTakes
  <2>3. ProcessNow' = ProcessNow
    BY <1>2 DEF scanvars, disk, ProcessNow, PointsLeft, Frames, Here, X
  <2>4. ProcessNow \in Int /\ CommandLeft(ssp, k) \in Int /\ CommandLeft(ssp, k)' \in Int
    <3>1. ProcessNow \in Int /\ CommandLeft(ssp, k) \in Int
      BY <1>2, <2>1, ProcessFacts, CommandFacts
    <3>2. k' \in Int /\ MaxAttempts \in Int /\ NumChannels \in Int
      BY <2>1, LedFacts DEF SspInv, SspTypeOK
    <3>3. CommandLeft(ssp, k)' \in Int
      BY <3>2 DEF CommandLeft
    <3> QED  BY <3>1, <3>3
  <2> QED  BY <2>2, <2>3, <2>4 DEF ScanLeft
<1>3. ASSUME ScanInv, ScanNext, SspStep, ~ScanStep PROVE UNCHANGED scanvars
  <2>1. ssp # "idle" /\ (ssp' = "idle" => rc' \in {"ok", "error"})
    BY <1>3, SspKeeps DEF ScanInv, SspEffect
  <2>2. \A d \in Dirs, nm \in Wavelength : ~StartScan(d, nm)
    BY <2>1 DEF StartScan
  <2>3. \A kill \in BOOLEAN : ~Crash(kill)
    BY <2>1 DEF Crash
  <2> QED  BY <1>3, <2>2, <2>3 DEF ScanNext, ScanOther
<1>4. ScanInv /\ [ScanNext]_<<sspvars, scanvars>> =>
        [/\ ScanStep \/ SspStep => ScanLeft' < ScanLeft
         /\ \A kill \in BOOLEAN : Crash(kill) => ScanLeft' <= ScanLeft]_<<sspvars, scanvars>>
  BY <1>1, <1>2, <1>3, CrashTakes
<1> QED
  BY <1>4, ScanStarts, ScanKeeps, ScanLeftFacts, PTL DEF ScanSpec, ScanIsBounded
=============================================================================
