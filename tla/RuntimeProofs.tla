---------------------------- MODULE RuntimeProofs ----------------------------
(***************************************************************************)
(* Proofs about the event queue (EventQueue) and the voice part            *)
(* (VoiceRuntime) of the Realms native runtime, after the facts about       *)
(* numbers and queues (Queues) that these and those of BinaryProofs need.   *)
(***************************************************************************)
EXTENDS EventQueue, VoiceRuntime, SequencesExt, FiniteSetTheorems, SequenceTheorems, TLAPS

-----------------------------------------------------------------------------
(***************************************************************************)
(* Numbers and queues.  The library's induction theorems take an operator,  *)
(* which no prover here can instantiate; the least number of a set gives    *)
(* induction over a set instead.                                            *)
(***************************************************************************)
(* A set of numbers has a least one.  The library's well-founded order of   *)
(* finite sets gives it: the least of the intervals that end in the set.    *)
LEMMA LeastNumber ==
    ASSUME NEW S \in SUBSET Nat, S # {}
    PROVE  \E m \in S : \A k \in S : m <= k
<1> DEFINE R == StrictSubsetOrdering(Nat)
           F == FiniteSubsetsOf(Nat)
           T == {0 .. n : n \in S}
<1>1. IsWellFoundedOn(R, F)
  BY FS_StrictSubsetOrderingWellFounded
<1>2. T \subseteq F
  <2>1. ASSUME NEW n \in S PROVE 0 .. n \in F
    BY FS_Interval DEF FiniteSubsetsOf
  <2> QED
    BY <2>1
<1>3. T # {}
  OBVIOUS
<1>4. PICK U \in T : \A V \in T : <<V, U>> \notin R
  <2> HIDE DEF R, F, T
  <2> QED
    BY <1>1, <1>2, <1>3, WFMin
<1>5. PICK m \in S : U = 0 .. m
  OBVIOUS
<1>6. ASSUME NEW k \in S, k < m PROVE FALSE
  <2>1. 0 .. k \in T
    OBVIOUS
  <2>2. /\ 0 .. k \subseteq 0 .. m /\ 0 .. k # 0 .. m
        /\ 0 .. k \in SUBSET Nat /\ 0 .. m \in SUBSET Nat
    <3>1. m \in 0 .. m /\ m \notin 0 .. k
      BY <1>6
    <3> QED
      BY <1>6, <3>1
  <2>3. <<0 .. k, 0 .. m>> \in R
    BY <2>2 DEF StrictSubsetOrdering
  <2> QED
    BY <1>4, <1>5, <2>1, <2>3
<1> QED
  BY <1>6

(* A set that has 0, and with each number below N the next, has 0 .. N.      *)
LEMMA UpTo ==
    ASSUME NEW N \in Nat, NEW S, 0 \in S,
           \A n \in 0 .. N : n \in S /\ n # N => n + 1 \in S
    PROVE  \A n \in 0 .. N : n \in S
<1> DEFINE Bad == {n \in 0 .. N : n \notin S}
<1> SUFFICES ASSUME Bad # {} PROVE FALSE
  OBVIOUS
<1>1. PICK m \in Bad : \A k \in Bad : m <= k
  <2>1. Bad \in SUBSET Nat
    OBVIOUS
  <2> QED
    BY <2>1, LeastNumber
<1>2. m \in 0 .. N /\ m # 0 /\ m \notin S
  OBVIOUS
<1>3. m - 1 \in 0 .. N /\ m - 1 \notin Bad
  BY <1>1, <1>2
<1> QED
  BY <1>2, <1>3

-----------------------------------------------------------------------------
(* Keeping: the function over the prefixes exists.                          *)
LEMMA KeepingSteps ==
    ASSUME NEW T, NEW q \in Seq(T), NEW I
    PROVE  \E kept :
             /\ kept = [n \in 0 .. Len(q) |->
                          IF n = 0 THEN << >>
                          ELSE IF n \in I THEN Append(kept[n - 1], q[n]) ELSE kept[n - 1]]
             /\ Keeping(q, I) = kept[Len(q)]
<1> DEFINE Step(g, n) == IF n = 0 THEN << >>
                         ELSE IF n \in I THEN Append(g[n - 1], q[n]) ELSE g[n - 1]
           S == {m \in 0 .. Len(q) :
                   \E g \in [0 .. m -> Seq(T)] : \A n \in 0 .. m : g[n] = Step(g, n)}
<1>1. Len(q) \in Nat
  OBVIOUS
<1>2. 0 \in S
  <2> DEFINE g == [n \in 0 .. 0 |-> << >>]
  <2>1. g \in [0 .. 0 -> Seq(T)] /\ \A n \in 0 .. 0 : g[n] = Step(g, n)
    OBVIOUS
  <2> HIDE DEF g
  <2> QED
    BY <1>1, <2>1
<1>3. ASSUME NEW m \in 0 .. Len(q), m \in S, m # Len(q) PROVE m + 1 \in S
  <2>1. PICK g \in [0 .. m -> Seq(T)] : \A n \in 0 .. m : g[n] = Step(g, n)
    BY <1>3
  <2> DEFINE last == Step(g, m + 1)
             h == [n \in 0 .. m + 1 |-> IF n = m + 1 THEN last ELSE g[n]]
  <2>a. m \in Nat /\ m + 1 \in 1 .. Len(q) /\ g[m] \in Seq(T)
    BY <1>1, <1>3
  <2>b. last \in Seq(T)
    <3>1. q[m + 1] \in T
      BY <2>a
    <3>2. last = IF m + 1 \in I THEN Append(g[m], q[m + 1]) ELSE g[m]
      BY <2>a
    <3> QED
      BY <2>a, <3>1, <3>2
  <2> HIDE DEF last
  <2>c. h \in [0 .. m + 1 -> Seq(T)]
    BY <2>a, <2>b
  <2>2. \A n \in 0 .. m : h[n] = g[n]
    BY <2>a
  <2>3. h[m + 1] = last
    BY <2>a
  <2> HIDE DEF h
  <2>4. \A n \in 0 .. m + 1 : h[n] = Step(h, n)
    <3> SUFFICES ASSUME NEW n \in 0 .. m + 1 PROVE h[n] = Step(h, n)
      OBVIOUS
    <3>1. CASE n = 0
      BY <2>1, <2>2, <2>a, <3>1
    <3>2. CASE n = m + 1
      BY <2>2, <2>3, <2>a, <3>2 DEF last
    <3>3. CASE n \in 1 .. m
      <4>1. n - 1 \in 0 .. m /\ n \in 0 .. m
        BY <2>a, <3>3
      <4>2. h[n] = g[n] /\ h[n - 1] = g[n - 1] /\ g[n] = Step(g, n)
        BY <2>1, <2>2, <4>1
      <4> QED
        BY <3>3, <4>2
    <3> QED
      BY <2>a, <3>1, <3>2, <3>3
  <2> HIDE DEF Step
  <2>5. m + 1 \in 0 .. Len(q)
    BY <2>a
  <2> QED
    BY <2>4, <2>5, <2>c
<1>4. \A n \in 0 .. Len(q) : n \in S /\ n # Len(q) => n + 1 \in S
  BY <1>3
<1> HIDE DEF S
<1>5. Len(q) \in S
  <2>1. \A n \in 0 .. Len(q) : n \in S
    BY <1>1, <1>2, <1>4, UpTo
  <2> QED
    BY <1>1, <2>1
<1>6. PICK g \in [0 .. Len(q) -> Seq(T)] : \A n \in 0 .. Len(q) : g[n] = Step(g, n)
  BY <1>5 DEF S
<1>7. g = [n \in 0 .. Len(q) |-> Step(g, n)]
  BY <1>6
<1> DEFINE kept == CHOOSE k : k = [n \in 0 .. Len(q) |-> Step(k, n)]
<1>8. kept = [n \in 0 .. Len(q) |-> Step(kept, n)]
  <2> HIDE DEF Step
  <2> QED
    BY <1>7
<1>9. Keeping(q, I) = kept[Len(q)]
  BY DEF Keeping
<1> HIDE DEF kept
<1> QED
  BY <1>8, <1>9

-----------------------------------------------------------------------------
(* w holds the entries of q at the positions in I, in their order.           *)
Thinned(w, q, I) ==
  \E m \in [1 .. Len(w) -> I] :
    /\ \A i \in 1 .. Len(w) : w[i] = q[m[i]]
    /\ \A i, j \in 1 .. Len(w) : i < j => m[i] < m[j]
    /\ \A k \in I : \E i \in 1 .. Len(w) : m[i] = k

(* What is kept: the entries at the positions of I, in their order.         *)
LEMMA KeepingFacts ==
    ASSUME NEW T, NEW q \in Seq(T), NEW I \in SUBSET (1 .. Len(q))
    PROVE  /\ Keeping(q, I) \in Seq(T)
           /\ Len(Keeping(q, I)) <= Len(q)
           /\ Thinned(Keeping(q, I), q, I)
<1> DEFINE Step(g, n) == IF n = 0 THEN << >>
                         ELSE IF n \in I THEN Append(g[n - 1], q[n]) ELSE g[n - 1]
           Maps(w, n, m) ==
             /\ \A i \in 1 .. Len(w) : w[i] = q[m[i]] /\ m[i] <= n
             /\ \A i, j \in 1 .. Len(w) : i < j => m[i] < m[j]
             /\ \A k \in I : k <= n => \E i \in 1 .. Len(w) : m[i] = k
           Good(w, n) == /\ w \in Seq(T) /\ Len(w) <= n
                         /\ \E m \in [1 .. Len(w) -> I] : Maps(w, n, m)
<1>1. PICK kept : kept = [n \in 0 .. Len(q) |-> Step(kept, n)] /\ Keeping(q, I) = kept[Len(q)]
  BY KeepingSteps
<1>2. \A n \in 0 .. Len(q) : kept[n] = Step(kept, n)
  BY <1>1
<1> DEFINE S == {n \in 0 .. Len(q) : Good(kept[n], n)}
<1>3. Len(q) \in Nat
  OBVIOUS
<1>4. 0 \in S
  <2>1. kept[0] = << >> /\ 0 \in 0 .. Len(q)
    BY <1>2, <1>3
  <2>2. Good(<< >>, 0)
    <3> DEFINE m == [i \in 1 .. 0 |-> i]
    <3>1. m \in [1 .. 0 -> I]
      OBVIOUS
    <3>2. Maps(<< >>, 0, m)
      OBVIOUS
    <3>3. << >> \in Seq(T) /\ Len(<< >>) = 0
      OBVIOUS
    <3>4. m \in [1 .. Len(<< >>) -> I] /\ Len(<< >>) <= 0
      BY <3>1, <3>3
    <3> HIDE DEF m, Maps
    <3> QED
      BY <3>2, <3>3, <3>4
  <2> HIDE DEF Good
  <2> QED
    BY <2>1, <2>2
<1>5. ASSUME NEW n \in 0 .. Len(q), n \in S, n # Len(q) PROVE n + 1 \in S
  <2>1. n \in Nat /\ n + 1 \in 0 .. Len(q) /\ n + 1 # 0 /\ n + 1 \in 1 .. Len(q)
    BY <1>3, <1>5
  <2> DEFINE w == kept[n]
             v == kept[n + 1]
  <2>2. v = IF n + 1 \in I THEN Append(w, q[n + 1]) ELSE w
    <3>1. v = Step(kept, n + 1)
      BY <1>2, <2>1
    <3>2. (n + 1) - 1 = n
      BY <2>1
    <3> QED
      BY <2>1, <3>1, <3>2
  <2>3. Good(w, n)
    BY <1>5
  <2> HIDE DEF w, v
  <2>4. w \in Seq(T) /\ Len(w) \in Nat /\ Len(w) <= n
    BY <2>3
  <2>5. PICK m \in [1 .. Len(w) -> I] : Maps(w, n, m)
    BY <2>3
  <2>7. \A i \in 1 .. Len(w) : m[i] \in I
    OBVIOUS
  <2>8. \A k \in I : k \in Nat
    BY <1>3
  <2>9. \A i \in 1 .. Len(w) : w[i] = q[m[i]] /\ m[i] <= n /\ m[i] \in Nat
    BY <2>5, <2>7, <2>8
  <2>6. Good(v, n + 1)
    <3>1. CASE n + 1 \notin I
      <4>1. v = w
        BY <2>2, <3>1
      <4>a. \A i \in 1 .. Len(w) : w[i] = q[m[i]] /\ m[i] <= n + 1
        BY <2>1, <2>9
      <4>b. \A k \in I : k <= n + 1 => \E i \in 1 .. Len(w) : m[i] = k
        <5> SUFFICES ASSUME NEW k \in I, k <= n + 1 PROVE \E i \in 1 .. Len(w) : m[i] = k
          OBVIOUS
        <5>1. k \in Nat /\ k # n + 1
          BY <1>3, <3>1
        <5>2. k <= n
          BY <2>1, <5>1
        <5> QED
          BY <2>5, <5>2
      <4>2. Maps(w, n + 1, m)
        BY <2>5, <4>a, <4>b
      <4> HIDE DEF Maps
      <4> QED
        BY <2>1, <2>4, <4>1, <4>2
    <3>2. CASE n + 1 \in I
      <4> DEFINE l == Len(w) + 1
                 k == [i \in 1 .. l |-> IF i = l THEN n + 1 ELSE m[i]]
      <4>1. v = Append(w, q[n + 1]) /\ q[n + 1] \in T
        BY <2>1, <2>2, <3>2
      <4>2. /\ v \in Seq(T) /\ Len(v) = l
            /\ \A i \in 1 .. Len(w) : v[i] = w[i]
            /\ v[l] = q[n + 1]
        BY <2>4, <4>1
      <4>3. k \in [1 .. l -> I] /\ k[l] = n + 1 /\ \A i \in 1 .. Len(w) : k[i] = m[i]
        BY <2>4, <2>5, <3>2
      <4>4. l \in Nat /\ l <= n + 1 /\ \A i \in 1 .. l : i = l \/ i \in 1 .. Len(w)
        BY <2>1, <2>4
      <4> HIDE DEF l, k
      <4>5. \A i \in 1 .. l : v[i] = q[k[i]] /\ k[i] <= n + 1
        <5> SUFFICES ASSUME NEW i \in 1 .. l PROVE v[i] = q[k[i]] /\ k[i] <= n + 1
          OBVIOUS
        <5>1. CASE i = l
          BY <2>1, <4>2, <4>3, <5>1
        <5>2. CASE i \in 1 .. Len(w)
          BY <2>1, <2>9, <4>2, <4>3, <5>2
        <5> QED
          BY <4>4, <5>1, <5>2
      <4>6. \A i, j \in 1 .. l : i < j => k[i] < k[j]
        <5> SUFFICES ASSUME NEW i \in 1 .. l, NEW j \in 1 .. l, i < j PROVE k[i] < k[j]
          OBVIOUS
        <5>1. i \in 1 .. Len(w)
          BY <4>4
        <5>2. CASE j = l
          BY <2>1, <2>9, <4>3, <5>1, <5>2
        <5>3. CASE j \in 1 .. Len(w)
          BY <2>5, <4>3, <5>1, <5>3
        <5> QED
          BY <4>4, <5>2, <5>3
      <4>7. \A x \in I : x <= n + 1 => \E i \in 1 .. l : k[i] = x
        <5> SUFFICES ASSUME NEW x \in I, x <= n + 1 PROVE \E i \in 1 .. l : k[i] = x
          OBVIOUS
        <5>1. CASE x = n + 1
          BY <2>4, <4>3, <4>4, <5>1 DEF l
        <5>2. CASE x <= n
          BY <2>4, <2>5, <4>3, <4>4, <5>2 DEF l
        <5> QED
          BY <2>1, <5>1, <5>2
      <4>8. Maps(v, n + 1, k)
        BY <4>2, <4>5, <4>6, <4>7
      <4> HIDE DEF Maps
      <4> QED
        BY <4>2, <4>3, <4>4, <4>8
    <3> QED
      BY <3>1, <3>2
  <2> HIDE DEF Good
  <2> QED
    BY <2>1, <2>6 DEF v
<1>6. \A n \in 0 .. Len(q) : n \in S /\ n # Len(q) => n + 1 \in S
  BY <1>5
<1>7. Good(Keeping(q, I), Len(q))
  <2> HIDE DEF Good, S
  <2>1. \A n \in 0 .. Len(q) : n \in S
    BY <1>3, <1>4, <1>6, UpTo
  <2> QED
    BY <1>1, <1>3, <2>1 DEF S
<1> QED
  BY <1>7 DEF Thinned

(* RemoveAt leaves the other entries, in their order.                       *)
LEMMA RemovedAt ==
    ASSUME NEW T, NEW q \in Seq(T), NEW i \in 1 .. Len(q)
    PROVE  /\ RemoveAt(q, i) \in Seq(T)
           /\ Len(RemoveAt(q, i)) = Len(q) - 1
           /\ \A j \in 1 .. (Len(q) - 1) : RemoveAt(q, i)[j] = IF j < i THEN q[j] ELSE q[j + 1]
           /\ Thinned(RemoveAt(q, i), q, (1 .. Len(q)) \ {i})
<1> DEFINE a == SubSeq(q, 1, i - 1)
           b == SubSeq(q, i + 1, Len(q))
           r == RemoveAt(q, i)
<1>1. r = a \o b
  BY DEF RemoveAt
<1>2. a \in Seq(T) /\ Len(a) = i - 1 /\ \A j \in 1 .. (i - 1) : a[j] = q[j]
  OBVIOUS
<1>3. b \in Seq(T) /\ Len(b) = Len(q) - i /\ \A j \in 1 .. (Len(q) - i) : b[j] = q[i + j]
  OBVIOUS
<1>4. Len(q) \in Nat /\ i \in Nat
  OBVIOUS
<1> HIDE DEF a, b, r
<1>5. r \in Seq(T) /\ Len(r) = Len(q) - 1
  <2>1. r \in Seq(T) /\ Len(r) = Len(a) + Len(b)
    BY <1>1, <1>2, <1>3, ConcatProperties
  <2>2. PICK n \in Nat : n = Len(q)
    BY <1>4
  <2>3. Len(r) = (i - 1) + (n - i)
    BY <1>2, <1>3, <2>1, <2>2
  <2> QED
    BY <1>4, <2>1, <2>2, <2>3
<1>6. ASSUME NEW j \in 1 .. (Len(q) - 1) PROVE r[j] = IF j < i THEN q[j] ELSE q[j + 1]
  <2>1. r[j] = IF j <= Len(a) THEN a[j] ELSE b[j - Len(a)]
    BY <1>1, <1>2, <1>3, <1>4, ConcatProperties
  <2>2. CASE j < i
    BY <1>2, <1>4, <2>1, <2>2
  <2>3. CASE ~(j < i)
    <3>1. j - Len(a) \in 1 .. (Len(q) - i) /\ i + (j - Len(a)) = j + 1
      BY <1>2, <1>4, <2>3
    <3> QED
      BY <1>2, <1>3, <1>4, <2>1, <2>3, <3>1
  <2> QED
    BY <2>2, <2>3
<1>7. Thinned(r, q, (1 .. Len(q)) \ {i})
  <2> DEFINE m == [j \in 1 .. Len(r) |-> IF j < i THEN j ELSE j + 1]
             I == (1 .. Len(q)) \ {i}
  <2>1. m \in [1 .. Len(r) -> I]
    BY <1>4, <1>5
  <2>2. \A j \in 1 .. Len(r) : r[j] = q[m[j]]
    BY <1>4, <1>5, <1>6
  <2>3. \A j, k \in 1 .. Len(r) : j < k => m[j] < m[k]
    BY <1>4, <1>5
  <2>4. ASSUME NEW k \in I PROVE \E j \in 1 .. Len(r) : m[j] = k
    <3>1. CASE k < i
      <4>1. k \in 1 .. Len(r) /\ m[k] = k
        BY <1>4, <1>5, <3>1
      <4> QED
        BY <4>1
    <3>2. CASE ~(k < i)
      <4>1. k - 1 \in 1 .. Len(r) /\ m[k - 1] = k
        BY <1>4, <1>5, <3>2
      <4> QED
        BY <4>1
    <3> QED
      BY <3>1, <3>2
  <2> HIDE DEF m, I
  <2>5. Thinned(r, q, I)
    BY <2>1, <2>2, <2>3, <2>4 DEF Thinned
  <2> QED
    BY <2>5 DEF I
<1> QED
  BY <1>5, <1>6, <1>7 DEF r

(* Different entries of a finite set are no more than the set has.          *)
LEMMA DistinctBound ==
    ASSUME NEW B, IsFiniteSet(B), NEW n \in Nat, NEW f \in [1 .. n -> B],
           \A i, j \in 1 .. n : f[i] = f[j] => i = j
    PROVE  n <= Cardinality(B)
<1>1. IsFiniteSet(1 .. n) /\ Cardinality(1 .. n) = n
  BY FS_Interval
<1>2. Cardinality(B) \in Nat
  BY FS_CardinalityType
<1>3. ~(Cardinality(B) < n)
  BY <1>1, FS_PigeonHole
<1> QED
  BY <1>2, <1>3

-----------------------------------------------------------------------------
(* SumOf: the function over the prefixes exists, and there is only one.      *)
LEMMA SumSteps ==
    ASSUME NEW q \in Seq(Nat)
    PROVE  \E sum \in [0 .. Len(q) -> Nat] :
             /\ sum[0] = 0
             /\ \A n \in 1 .. Len(q) : sum[n] = sum[n - 1] + q[n]
             /\ SumOf(q) = sum[Len(q)]
<1> DEFINE Step(g, n) == IF n = 0 THEN 0 ELSE g[n - 1] + q[n]
           S == {m \in 0 .. Len(q) :
                   \E g \in [0 .. m -> Nat] : \A n \in 0 .. m : g[n] = Step(g, n)}
<1>1. Len(q) \in Nat
  OBVIOUS
<1>2. 0 \in S
  <2> DEFINE g == [n \in 0 .. 0 |-> 0]
  <2>1. g \in [0 .. 0 -> Nat] /\ \A n \in 0 .. 0 : g[n] = Step(g, n)
    OBVIOUS
  <2> HIDE DEF g
  <2> QED
    BY <1>1, <2>1
<1>3. ASSUME NEW m \in 0 .. Len(q), m \in S, m # Len(q) PROVE m + 1 \in S
  <2>1. PICK g \in [0 .. m -> Nat] : \A n \in 0 .. m : g[n] = Step(g, n)
    BY <1>3
  <2> DEFINE last == g[m] + q[m + 1]
             h == [n \in 0 .. m + 1 |-> IF n = m + 1 THEN last ELSE g[n]]
  <2>a. m \in Nat /\ m + 1 \in 1 .. Len(q) /\ g[m] \in Nat /\ (m + 1) - 1 = m
    BY <1>1, <1>3
  <2>b. last \in Nat
    BY <2>a
  <2>d. last = Step(g, m + 1)
    BY <2>a
  <2> HIDE DEF last
  <2>c. h \in [0 .. m + 1 -> Nat]
    BY <2>a, <2>b
  <2>2. \A n \in 0 .. m : h[n] = g[n]
    BY <2>a
  <2>3. h[m + 1] = last
    BY <2>a
  <2> HIDE DEF h
  <2>4. \A n \in 0 .. m + 1 : h[n] = Step(h, n)
    <3> SUFFICES ASSUME NEW n \in 0 .. m + 1 PROVE h[n] = Step(h, n)
      OBVIOUS
    <3>1. CASE n = 0
      BY <2>1, <2>2, <2>a, <3>1
    <3>2. CASE n = m + 1
      BY <2>2, <2>3, <2>a, <2>d, <3>2
    <3>3. CASE n \in 1 .. m
      <4>1. n - 1 \in 0 .. m /\ n \in 0 .. m
        BY <2>a, <3>3
      <4>2. h[n] = g[n] /\ h[n - 1] = g[n - 1] /\ g[n] = Step(g, n)
        BY <2>1, <2>2, <4>1
      <4> QED
        BY <3>3, <4>2
    <3> QED
      BY <2>a, <3>1, <3>2, <3>3
  <2> HIDE DEF Step
  <2>5. m + 1 \in 0 .. Len(q)
    BY <2>a
  <2> QED
    BY <2>4, <2>5, <2>c
<1>4. \A n \in 0 .. Len(q) : n \in S /\ n # Len(q) => n + 1 \in S
  BY <1>3
<1> HIDE DEF S
<1>5. Len(q) \in S
  <2>1. \A n \in 0 .. Len(q) : n \in S
    BY <1>1, <1>2, <1>4, UpTo
  <2> QED
    BY <1>1, <2>1
<1>6. PICK g \in [0 .. Len(q) -> Nat] : \A n \in 0 .. Len(q) : g[n] = Step(g, n)
  BY <1>5 DEF S
<1>7. g = [n \in 0 .. Len(q) |-> Step(g, n)]
  BY <1>6
<1> DEFINE sum == CHOOSE k : k = [n \in 0 .. Len(q) |-> Step(k, n)]
<1>8. sum = [n \in 0 .. Len(q) |-> Step(sum, n)]
  <2> HIDE DEF Step
  <2> QED
    BY <1>7
<1>9. SumOf(q) = sum[Len(q)]
  BY DEF SumOf
<1> HIDE DEF sum
<1>10. \A n \in 0 .. Len(q) : sum[n] = Step(sum, n)
  BY <1>8
<1>11. sum[0] = 0 /\ \A n \in 1 .. Len(q) : sum[n] = sum[n - 1] + q[n]
  BY <1>1, <1>10
<1>12. \A n \in 0 .. Len(q) : sum[n] \in Nat
  <2> DEFINE U == {n \in 0 .. Len(q) : sum[n] \in Nat}
  <2>1. 0 \in U
    BY <1>1, <1>11
  <2>2. ASSUME NEW n \in 0 .. Len(q), n \in U, n # Len(q) PROVE n + 1 \in U
    <3>1. n + 1 \in 1 .. Len(q) /\ (n + 1) - 1 = n /\ q[n + 1] \in Nat
      BY <1>1, <2>2
    <3> QED
      BY <1>11, <2>2, <3>1
  <2>3. \A n \in 0 .. Len(q) : n \in U /\ n # Len(q) => n + 1 \in U
    BY <2>2
  <2> HIDE DEF U
  <2>4. \A n \in 0 .. Len(q) : n \in U
    BY <1>1, <2>1, <2>3, UpTo
  <2> QED
    BY <2>4 DEF U
<1>13. sum \in [0 .. Len(q) -> Nat]
  BY <1>8, <1>12
<1> QED
  BY <1>9, <1>11, <1>13

(* Whatever adds up the queue from its start ends in its sum.               *)
LEMMA SumUnique ==
    ASSUME NEW q \in Seq(Nat), NEW g, g[0] = 0,
           \A n \in 1 .. Len(q) : g[n] = g[n - 1] + q[n]
    PROVE  SumOf(q) = g[Len(q)]
<1>1. PICK sum \in [0 .. Len(q) -> Nat] :
         /\ sum[0] = 0
         /\ \A n \in 1 .. Len(q) : sum[n] = sum[n - 1] + q[n]
         /\ SumOf(q) = sum[Len(q)]
  BY SumSteps
<1>2. Len(q) \in Nat
  OBVIOUS
<1> DEFINE S == {n \in 0 .. Len(q) : g[n] = sum[n]}
<1>3. 0 \in S
  BY <1>1, <1>2
<1>4. ASSUME NEW n \in 0 .. Len(q), n \in S, n # Len(q) PROVE n + 1 \in S
  <2>1. n + 1 \in 1 .. Len(q) /\ (n + 1) - 1 = n /\ n + 1 \in 0 .. Len(q)
    BY <1>2, <1>4
  <2>2. g[n + 1] = g[n] + q[n + 1] /\ sum[n + 1] = sum[n] + q[n + 1]
    BY <1>1, <2>1
  <2> QED
    BY <1>4, <2>1, <2>2
<1>5. \A n \in 0 .. Len(q) : n \in S /\ n # Len(q) => n + 1 \in S
  BY <1>4
<1> HIDE DEF S
<1>6. \A n \in 0 .. Len(q) : n \in S
  BY <1>2, <1>3, <1>5, UpTo
<1>7. Len(q) \in S
  BY <1>2, <1>6
<1> QED
  BY <1>1, <1>7 DEF S

(* What SumOf gives for queues made from others.                            *)
LEMMA SumType ==
    ASSUME NEW q \in Seq(Nat)
    PROVE  SumOf(q) \in Nat
<1>1. PICK sum \in [0 .. Len(q) -> Nat] : SumOf(q) = sum[Len(q)]
  BY SumSteps
<1>2. Len(q) \in 0 .. Len(q)
  OBVIOUS
<1> QED
  BY <1>1, <1>2

(* Nothing adds up to nothing.                                              *)
LEMMA SumZero ==
    ASSUME NEW q \in Seq(Nat), \A i \in 1 .. Len(q) : q[i] = 0
    PROVE  SumOf(q) = 0
<1> DEFINE g == [n \in 0 .. Len(q) |-> 0]
<1>1. Len(q) \in Nat
  OBVIOUS
<1>2. g[0] = 0 /\ (\A n \in 1 .. Len(q) : g[n] = g[n - 1] + q[n]) /\ g[Len(q)] = 0
  BY <1>1
<1> HIDE DEF g
<1> QED
  BY <1>2, SumUnique

(* A number at the end is added.                                            *)
LEMMA SumAppend ==
    ASSUME NEW q \in Seq(Nat), NEW x \in Nat
    PROVE  SumOf(Append(q, x)) = SumOf(q) + x
<1>1. PICK sum \in [0 .. Len(q) -> Nat] :
         /\ sum[0] = 0
         /\ \A n \in 1 .. Len(q) : sum[n] = sum[n - 1] + q[n]
         /\ SumOf(q) = sum[Len(q)]
  BY SumSteps
<1> DEFINE l == Len(q) + 1
           g == [n \in 0 .. l |-> IF n = l THEN sum[Len(q)] + x ELSE sum[n]]
           r == Append(q, x)
<1>2. /\ Len(q) \in Nat /\ r \in Seq(Nat) /\ Len(r) = l /\ r[l] = x
      /\ \A n \in 1 .. Len(q) : r[n] = q[n]
      /\ \A n \in 1 .. l : n = l \/ n \in 1 .. Len(q)
  OBVIOUS
<1>3. g[0] = 0 /\ g[l] = SumOf(q) + x
  BY <1>1, <1>2
<1>4. ASSUME NEW n \in 1 .. l PROVE g[n] = g[n - 1] + r[n]
  <2>1. CASE n = l
    BY <1>2, <2>1
  <2>2. CASE n \in 1 .. Len(q)
    <3>1. n - 1 \in 0 .. l /\ n - 1 # l /\ n # l /\ n \in 0 .. l
      BY <1>2, <2>2
    <3> QED
      BY <1>1, <1>2, <2>2, <3>1
  <2> QED
    BY <1>2, <2>1, <2>2
<1> HIDE DEF g, r, l
<1>5. SumOf(r) = g[Len(r)]
  BY <1>2, <1>3, <1>4, SumUnique
<1> QED
  BY <1>2, <1>3, <1>5 DEF r

(* Replacing one number replaces it in the sum.                             *)
LEMMA SumReplace ==
    ASSUME NEW q \in Seq(Nat), NEW r \in Seq(Nat), Len(r) = Len(q), NEW i \in 1 .. Len(q),
           \A j \in 1 .. Len(q) : j # i => r[j] = q[j]
    PROVE  SumOf(r) = (SumOf(q) - q[i]) + r[i]
<1>1. PICK sum \in [0 .. Len(q) -> Nat] :
         /\ sum[0] = 0
         /\ \A n \in 1 .. Len(q) : sum[n] = sum[n - 1] + q[n]
         /\ SumOf(q) = sum[Len(q)]
  BY SumSteps
<1>2. /\ Len(q) \in Nat /\ i \in Nat /\ q[i] \in Nat /\ r[i] \in Nat
      /\ \A n \in 0 .. Len(q) : sum[n] \in Nat
      /\ \A n \in 1 .. Len(q) : q[n] \in Nat
  <2>1. \A n \in 1 .. Len(q) : q[n] \in Nat
    OBVIOUS
  <2>2. Len(q) \in Nat /\ i \in Nat /\ r[i] \in Nat
    OBVIOUS
  <2> QED
    BY <1>1, <2>1, <2>2
<1> DEFINE g == [n \in 0 .. Len(q) |-> IF n < i THEN sum[n] ELSE (sum[n] - q[i]) + r[i]]
<1>3. g[0] = 0 /\ g[Len(q)] = (SumOf(q) - q[i]) + r[i]
  BY <1>1, <1>2
<1>4. ASSUME NEW n \in 1 .. Len(q) PROVE g[n] = g[n - 1] + r[n]
  <2>1. /\ n \in 0 .. Len(q) /\ n - 1 \in 0 .. Len(q) /\ sum[n] = sum[n - 1] + q[n]
        /\ sum[n - 1] \in Nat /\ q[n] \in Nat /\ n \in Nat
    <3>1. PICK l \in Nat : l = Len(q)
      BY <1>2
    <3>2. n \in 0 .. l /\ n - 1 \in 0 .. l /\ n \in Nat
      BY <3>1
    <3> QED
      BY <1>1, <1>2, <3>1, <3>2
  <2>2. CASE n = i
    BY <1>2, <2>1, <2>2
  <2>3. CASE n # i
    <3>1. r[n] = q[n]
      BY <2>3
    <3>2. CASE n < i
      <4>1. g[n] = sum[n] /\ g[n - 1] = sum[n - 1]
        BY <1>2, <2>1, <3>2
      <4> QED
        BY <2>1, <3>1, <4>1
    <3>3. CASE n > i
      <4>1. ~(n < i) /\ ~(n - 1 < i)
        BY <1>2, <2>1, <3>3
      <4>2. g[n] = (sum[n] - q[i]) + r[i]
        BY <2>1, <4>1
      <4>3. g[n - 1] = (sum[n - 1] - q[i]) + r[i]
        BY <2>1, <4>1
      <4>6. q[i] \in Nat /\ r[i] \in Nat
        BY <1>2
      <4>5. ((sum[n - 1] + q[n]) - q[i]) + r[i] = ((sum[n - 1] - q[i]) + r[i]) + q[n]
        <5> DEFINE a == sum[n - 1]
                   b == q[n]
                   x == q[i]
                   y == r[i]
        <5>1. a \in Nat /\ b \in Nat /\ x \in Nat /\ y \in Nat
          BY <2>1, <4>6
        <5> HIDE DEF a, b, x, y
        <5>2. ((a + b) - x) + y = ((a - x) + y) + b
          BY <5>1
        <5> QED
          BY <5>2 DEF a, b, x, y
      <4> HIDE DEF g
      <4> QED
        BY <2>1, <3>1, <4>2, <4>3, <4>5
    <3> QED
      BY <1>2, <2>1, <2>3, <3>2, <3>3
  <2> QED
    BY <2>2, <2>3
<1> HIDE DEF g
<1>5. SumOf(r) = g[Len(r)]
  <2>1. \A n \in 1 .. Len(r) : g[n] = g[n - 1] + r[n]
    BY <1>4
  <2> QED
    BY <1>3, <2>1, SumUnique
<1> QED
  BY <1>3, <1>5

(* No number is more than the sum.                                          *)
LEMMA SumMember ==
    ASSUME NEW q \in Seq(Nat), NEW i \in 1 .. Len(q)
    PROVE  q[i] <= SumOf(q)
<1> DEFINE r == [q EXCEPT ![i] = 0]
<1>1. r \in Seq(Nat) /\ Len(r) = Len(q) /\ r[i] = 0 /\ \A j \in 1 .. Len(q) : j # i => r[j] = q[j]
  OBVIOUS
<1>2. q[i] \in Nat
  OBVIOUS
<1> HIDE DEF r
<1>3. SumOf(r) = (SumOf(q) - q[i]) + r[i] /\ SumOf(r) \in Nat /\ SumOf(q) \in Nat
  BY <1>1, SumReplace, SumType
<1> QED
  BY <1>1, <1>2, <1>3

(* A number that is taken out is taken from the sum.                        *)
LEMMA SumRemove ==
    ASSUME NEW q \in Seq(Nat), NEW i \in 1 .. Len(q), NEW r \in Seq(Nat), Len(r) = Len(q) - 1,
           \A j \in 1 .. (Len(q) - 1) : r[j] = IF j < i THEN q[j] ELSE q[j + 1]
    PROVE  SumOf(r) = SumOf(q) - q[i]
<1>1. PICK sum \in [0 .. Len(q) -> Nat] :
         /\ sum[0] = 0
         /\ \A n \in 1 .. Len(q) : sum[n] = sum[n - 1] + q[n]
         /\ SumOf(q) = sum[Len(q)]
  BY SumSteps
<1>2. /\ Len(q) \in Nat /\ i \in Nat /\ q[i] \in Nat /\ Len(q) >= 1
      /\ \A n \in 0 .. Len(q) : sum[n] \in Nat
      /\ \A n \in 1 .. Len(q) : q[n] \in Nat
  <2>1. \A n \in 1 .. Len(q) : q[n] \in Nat
    OBVIOUS
  <2>2. Len(q) \in Nat /\ i \in Nat /\ i >= 1 /\ i <= Len(q)
    OBVIOUS
  <2>3. Len(q) >= 1 /\ q[i] \in Nat
    BY <2>1, <2>2
  <2>4. \A n \in 0 .. Len(q) : sum[n] \in Nat
    BY <1>1
  <2> QED
    BY <2>1, <2>2, <2>3, <2>4
<1> DEFINE l == Len(q) - 1
           g == [n \in 0 .. l |-> IF n < i THEN sum[n] ELSE sum[n + 1] - q[i]]
<1>3. g[0] = 0
  BY <1>1, <1>2
<1>4. g[l] = SumOf(q) - q[i]
  <2>1. CASE l < i
    <3>1. i = Len(q) /\ sum[i] = sum[i - 1] + q[i] /\ sum[i - 1] \in Nat
      BY <1>1, <1>2, <2>1
    <3> QED
      BY <1>1, <1>2, <2>1, <3>1
  <2>2. CASE ~(l < i)
    <3>1. l \in 0 .. l /\ l + 1 = Len(q)
      BY <1>2
    <3>2. g[l] = sum[l + 1] - q[i]
      BY <2>2, <3>1
    <3> QED
      BY <1>1, <3>1, <3>2
  <2> QED
    BY <2>1, <2>2
<1>5. ASSUME NEW n \in 1 .. l PROVE g[n] = g[n - 1] + r[n]
  <2>1. /\ n \in 1 .. Len(q) /\ n + 1 \in 1 .. Len(q) /\ n \in 0 .. l /\ n - 1 \in 0 .. l
        /\ n - 1 \in 0 .. Len(q) /\ n \in 0 .. Len(q) /\ n + 1 \in 0 .. Len(q)
        /\ (n + 1) - 1 = n /\ (n - 1) + 1 = n /\ n \in Nat
    <3>1. PICK k \in Nat : k = Len(q) /\ k >= 1
      BY <1>2
    <3>2. n \in 1 .. (k - 1)
      BY <3>1
    <3>3. /\ n \in 1 .. k /\ n + 1 \in 1 .. k /\ n \in 0 .. (k - 1) /\ n - 1 \in 0 .. (k - 1)
          /\ n - 1 \in 0 .. k /\ n \in 0 .. k /\ n + 1 \in 0 .. k
      BY <3>1, <3>2
    <3>4. (n + 1) - 1 = n /\ (n - 1) + 1 = n /\ n \in Nat
      BY <3>1, <3>2
    <3> QED
      BY <3>1, <3>3, <3>4
  <2>2. sum[n] = sum[n - 1] + q[n] /\ sum[n + 1] = sum[n] + q[n + 1]
    BY <1>1, <2>1
  <2>3. sum[n - 1] \in Nat /\ sum[n] \in Nat /\ sum[n + 1] \in Nat /\ q[n] \in Nat /\ q[n + 1] \in Nat
    BY <1>2, <2>1
  <2>4. g[n] = IF n < i THEN sum[n] ELSE sum[n + 1] - q[i]
    BY <2>1
  <2>5. g[n - 1] = IF n - 1 < i THEN sum[n - 1] ELSE sum[n] - q[i]
    BY <2>1
  <2>6. r[n] = IF n < i THEN q[n] ELSE q[n + 1]
    OBVIOUS
  <2> HIDE DEF g
  <2>7. CASE n < i
    <3>1. g[n] = sum[n] /\ g[n - 1] = sum[n - 1] /\ r[n] = q[n]
      BY <1>2, <2>1, <2>4, <2>5, <2>6, <2>7
    <3> QED
      BY <2>2, <3>1
  <2>8. CASE n = i
    <3>1. g[n] = sum[n + 1] - q[n] /\ g[n - 1] = sum[n - 1] /\ r[n] = q[n + 1]
      BY <1>2, <2>1, <2>4, <2>5, <2>6, <2>8
    <3>2. \A a, x, y \in Nat : ((a + x) + y) - x = a + y
      OBVIOUS
    <3>3. ((sum[n - 1] + q[n]) + q[n + 1]) - q[n] = sum[n - 1] + q[n + 1]
      BY <2>3, <3>2
    <3> QED
      BY <2>2, <3>1, <3>3
  <2>9. CASE n > i
    <3>1. ~(n < i) /\ ~(n - 1 < i)
      BY <1>2, <2>1, <2>9
    <3>2. g[n] = sum[n + 1] - q[i] /\ g[n - 1] = sum[n] - q[i] /\ r[n] = q[n + 1]
      BY <2>4, <2>5, <2>6, <3>1
    <3>3. q[i] \in Nat
      BY <1>2
    <3>4. (sum[n] + q[n + 1]) - q[i] = (sum[n] - q[i]) + q[n + 1]
      <4>1. PICK a \in Nat, x \in Nat, y \in Nat : a = sum[n] /\ x = q[i] /\ y = q[n + 1]
        BY <2>3, <3>3
      <4>2. (a + y) - x = (a - x) + y
        OBVIOUS
      <4> QED
        BY <4>1, <4>2
    <3> QED
      BY <2>2, <3>2, <3>4
  <2> QED
    BY <1>2, <2>1, <2>7, <2>8, <2>9
<1>6. Len(r) = l
  OBVIOUS
<1> HIDE DEF g, l
<1>7. SumOf(r) = g[Len(r)]
  BY <1>3, <1>5, <1>6, SumUnique
<1> QED
  BY <1>4, <1>6, <1>7

(* Sums are added number by number.                                         *)
LEMMA SumAdd ==
    ASSUME NEW q \in Seq(Nat), NEW r \in Seq(Nat), NEW t \in Seq(Nat), Len(r) = Len(q), Len(t) = Len(q),
           \A i \in 1 .. Len(q) : t[i] = q[i] + r[i]
    PROVE  SumOf(t) = SumOf(q) + SumOf(r)
<1>1. PICK s1 \in [0 .. Len(q) -> Nat] :
         s1[0] = 0 /\ (\A n \in 1 .. Len(q) : s1[n] = s1[n - 1] + q[n]) /\ SumOf(q) = s1[Len(q)]
  BY SumSteps
<1>2. PICK s2 \in [0 .. Len(r) -> Nat] :
         s2[0] = 0 /\ (\A n \in 1 .. Len(r) : s2[n] = s2[n - 1] + r[n]) /\ SumOf(r) = s2[Len(r)]
  BY SumSteps
<1> DEFINE g == [n \in 0 .. Len(q) |-> s1[n] + s2[n]]
<1>3. Len(q) \in Nat
  OBVIOUS
<1>4. g[0] = 0 /\ g[Len(q)] = SumOf(q) + SumOf(r)
  BY <1>1, <1>2, <1>3
<1>5. ASSUME NEW n \in 1 .. Len(t) PROVE g[n] = g[n - 1] + t[n]
  <2>1. n \in 1 .. Len(q) /\ n \in 0 .. Len(q) /\ n - 1 \in 0 .. Len(q)
    BY <1>3
  <2>2. s1[n - 1] \in Nat /\ s2[n - 1] \in Nat /\ q[n] \in Nat /\ r[n] \in Nat
    <3>1. q[n] \in Nat
      BY <2>1
    <3>2. r[n] \in Nat
      BY <2>1
    <3> QED
      BY <2>1, <3>1, <3>2
  <2>3. s1[n] = s1[n - 1] + q[n] /\ s2[n] = s2[n - 1] + r[n] /\ t[n] = q[n] + r[n]
    BY <1>1, <1>2, <2>1
  <2> QED
    <3>1. PICK a \in Nat, b \in Nat, x \in Nat, y \in Nat :
             a = s1[n - 1] /\ b = s2[n - 1] /\ x = q[n] /\ y = r[n]
      BY <2>2
    <3>2. g[n] = s1[n] + s2[n] /\ g[n - 1] = s1[n - 1] + s2[n - 1]
      BY <2>1
    <3> HIDE DEF g
    <3>3. (a + x) + (b + y) = (a + b) + (x + y)
      OBVIOUS
    <3> QED
      BY <2>3, <3>1, <3>2, <3>3
<1> HIDE DEF g
<1>6. SumOf(t) = g[Len(t)]
  BY <1>4, <1>5, SumUnique
<1> QED
  BY <1>4, <1>6

(***************************************************************************)
(* The bytes of a queue of messages.                                        *)
(***************************************************************************)
SizesOf(q) == [i \in DOMAIN q |-> q[i].size]

(* The sizes of the messages of a queue are a queue of numbers.              *)
LEMMA SizesAre ==
    ASSUME NEW T, \A m \in T : m.size \in Nat, NEW q \in Seq(T)
    PROVE  /\ SizesOf(q) \in Seq(Nat)
           /\ Len(SizesOf(q)) = Len(q)
           /\ \A i \in 1 .. Len(q) : SizesOf(q)[i] = q[i].size /\ q[i].size \in Nat
           /\ SumBytes(q) = SumOf(SizesOf(q))
<1>1. DOMAIN q = 1 .. Len(q) /\ Len(q) \in Nat
  OBVIOUS
<1>2. \A i \in 1 .. Len(q) : q[i].size \in Nat
  <2>1. \A i \in 1 .. Len(q) : q[i] \in T
    OBVIOUS
  <2> QED
    BY <2>1
<1>3. SizesOf(q) = [i \in 1 .. Len(q) |-> q[i].size]
  BY <1>1 DEF SizesOf
<1>4. SizesOf(q) \in Seq(Nat) /\ Len(SizesOf(q)) = Len(q)
  BY <1>1, <1>2, <1>3
<1>5. \A i \in 1 .. Len(q) : SizesOf(q)[i] = q[i].size
  BY <1>3
<1>6. SumBytes(q) = SumOf(SizesOf(q))
  BY DEF SumBytes, SizesOf
<1> QED
  BY <1>2, <1>4, <1>5, <1>6

(* The bytes of a queue are a number; those of an empty one are none.        *)
LEMMA BytesType ==
    ASSUME NEW T, \A m \in T : m.size \in Nat, NEW q \in Seq(T)
    PROVE  SumBytes(q) \in Nat /\ (q = << >> => SumBytes(q) = 0)
<1>1. SizesOf(q) \in Seq(Nat) /\ Len(SizesOf(q)) = Len(q) /\ SumBytes(q) = SumOf(SizesOf(q))
  BY SizesAre
<1>2. SumBytes(q) \in Nat
  BY <1>1, SumType
<1>3. ASSUME q = << >> PROVE SumBytes(q) = 0
  <2>1. \A i \in 1 .. Len(SizesOf(q)) : SizesOf(q)[i] = 0
    BY <1>1, <1>3
  <2> QED
    BY <1>1, <2>1, SumZero
<1> QED
  BY <1>2, <1>3

(* Queues of messages of the same sizes hold the same bytes.                 *)
LEMMA BytesSame ==
    ASSUME NEW T, \A m \in T : m.size \in Nat, NEW q \in Seq(T), NEW r \in Seq(T), Len(r) = Len(q),
           \A i \in 1 .. Len(q) : r[i].size = q[i].size
    PROVE  SumBytes(r) = SumBytes(q)
<1>1. DOMAIN r = DOMAIN q /\ \A i \in DOMAIN q : r[i].size = q[i].size
  OBVIOUS
<1>2. SizesOf(r) = SizesOf(q)
  BY <1>1 DEF SizesOf
<1> QED
  BY <1>2 DEF SumBytes, SizesOf

(* A message adds its bytes to a queue.                                      *)
LEMMA BytesAppend ==
    ASSUME NEW T, \A m \in T : m.size \in Nat, NEW q \in Seq(T), NEW x \in T
    PROVE  SumBytes(Append(q, x)) = SumBytes(q) + x.size
<1> DEFINE r == Append(q, x)
<1>1. r \in Seq(T) /\ Len(r) = Len(q) + 1 /\ r[Len(q) + 1] = x /\ \A i \in 1 .. Len(q) : r[i] = q[i]
  OBVIOUS
<1> HIDE DEF r
<1>2. /\ SizesOf(q) \in Seq(Nat) /\ Len(SizesOf(q)) = Len(q) /\ SumBytes(q) = SumOf(SizesOf(q))
      /\ \A i \in 1 .. Len(q) : SizesOf(q)[i] = q[i].size
  BY SizesAre
<1>3. /\ SizesOf(r) \in Seq(Nat) /\ Len(SizesOf(r)) = Len(r) /\ SumBytes(r) = SumOf(SizesOf(r))
      /\ \A i \in 1 .. Len(r) : SizesOf(r)[i] = r[i].size
  BY <1>1, SizesAre
<1>4. x.size \in Nat /\ Len(q) \in Nat
  OBVIOUS
<1> DEFINE t == Append(SizesOf(q), x.size)
<1>5. t \in Seq(Nat) /\ Len(t) = Len(q) + 1 /\ t[Len(q) + 1] = x.size
      /\ \A i \in 1 .. Len(q) : t[i] = SizesOf(q)[i]
  BY <1>2, <1>4
<1>6. \A i \in 1 .. Len(r) : SizesOf(r)[i] = t[i]
  <2>1. \A i \in 1 .. Len(r) : i \in 1 .. Len(q) \/ i = Len(q) + 1
    BY <1>1, <1>4
  <2> QED
    BY <1>1, <1>2, <1>3, <1>5, <2>1
<1>7. SizesOf(r) = t
  <2> HIDE DEF t
  <2> QED
    BY <1>1, <1>3, <1>5, <1>6, SeqEqual
<1>8. SumOf(t) = SumOf(SizesOf(q)) + x.size
  BY <1>2, <1>4, SumAppend
<1> HIDE DEF t
<1> QED
  BY <1>2, <1>3, <1>7, <1>8 DEF r

(* A message that is taken out of a queue takes its bytes with it.           *)
LEMMA BytesRemove ==
    ASSUME NEW T, \A m \in T : m.size \in Nat, NEW q \in Seq(T), NEW i \in 1 .. Len(q),
           NEW r \in Seq(T), Len(r) = Len(q) - 1,
           \A j \in 1 .. (Len(q) - 1) : r[j] = IF j < i THEN q[j] ELSE q[j + 1]
    PROVE  SumBytes(r) = SumBytes(q) - q[i].size /\ q[i].size \in Nat
<1>1. /\ SizesOf(q) \in Seq(Nat) /\ Len(SizesOf(q)) = Len(q) /\ SumBytes(q) = SumOf(SizesOf(q))
      /\ \A j \in 1 .. Len(q) : SizesOf(q)[j] = q[j].size /\ q[j].size \in Nat
  BY SizesAre
<1>2. /\ SizesOf(r) \in Seq(Nat) /\ Len(SizesOf(r)) = Len(r) /\ SumBytes(r) = SumOf(SizesOf(r))
      /\ \A j \in 1 .. Len(r) : SizesOf(r)[j] = r[j].size
  BY SizesAre
<1>3. ASSUME NEW j \in 1 .. (Len(q) - 1)
      PROVE  SizesOf(r)[j] = IF j < i THEN SizesOf(q)[j] ELSE SizesOf(q)[j + 1]
  <2>1. j \in 1 .. Len(q) /\ j + 1 \in 1 .. Len(q) /\ j \in 1 .. Len(r)
    OBVIOUS
  <2>2. r[j] = IF j < i THEN q[j] ELSE q[j + 1]
    OBVIOUS
  <2> QED
    BY <1>1, <1>2, <2>1, <2>2
<1>4. \A j \in 1 .. (Len(SizesOf(q)) - 1) :
        SizesOf(r)[j] = IF j < i THEN SizesOf(q)[j] ELSE SizesOf(q)[j + 1]
  BY <1>1, <1>3
<1>5. SumOf(SizesOf(r)) = SumOf(SizesOf(q)) - SizesOf(q)[i]
  BY <1>1, <1>2, <1>4, SumRemove
<1> QED
  BY <1>1, <1>2, <1>5

(* Taking the first message takes its bytes.                                *)
LEMMA BytesTail ==
    ASSUME NEW T, \A m \in T : m.size \in Nat, NEW q \in Seq(T), q # << >>
    PROVE  /\ SumBytes(Tail(q)) = SumBytes(q) - Head(q).size
           /\ Head(q).size \in Nat /\ Tail(q) \in Seq(T) /\ Len(Tail(q)) = Len(q) - 1
           /\ Head(q) = q[1] /\ 1 \in 1 .. Len(q)
           /\ \A j \in 1 .. (Len(q) - 1) : Tail(q)[j] = q[j + 1]
<1>1. Tail(q) \in Seq(T) /\ Len(Tail(q)) = Len(q) - 1 /\ Head(q) = q[1] /\ 1 \in 1 .. Len(q)
  OBVIOUS
<1>2. \A j \in 1 .. (Len(q) - 1) : Tail(q)[j] = q[j + 1]
  OBVIOUS
<1>3. \A j \in 1 .. (Len(q) - 1) : Tail(q)[j] = IF j < 1 THEN q[j] ELSE q[j + 1]
  BY <1>2
<1>4. SumBytes(Tail(q)) = SumBytes(q) - q[1].size /\ q[1].size \in Nat
  <2> DEFINE r == Tail(q)
  <2> HIDE DEF r
  <2>1. r \in Seq(T) /\ Len(r) = Len(q) - 1 /\ \A j \in 1 .. (Len(q) - 1) : r[j] = IF j < 1 THEN q[j] ELSE q[j + 1]
    BY <1>1, <1>3 DEF r
  <2>2. SumBytes(r) = SumBytes(q) - q[1].size /\ q[1].size \in Nat
    BY <1>1, <2>1, BytesRemove
  <2> QED
    BY <2>2 DEF r
<1> QED
  BY <1>1, <1>2, <1>4

(* What is kept of a queue and what is not are the whole of it.              *)
LEMMA KeepingSplits ==
    ASSUME NEW T, \A m \in T : m.size \in Nat, NEW q \in Seq(T), NEW I \in SUBSET (1 .. Len(q)),
           NEW J, J = (1 .. Len(q)) \ I
    PROVE  /\ Len(Keeping(q, I)) + Len(Keeping(q, J)) = Len(q)
           /\ SumBytes(Keeping(q, I)) + SumBytes(Keeping(q, J)) = SumBytes(q)
<1> DEFINE s == SizesOf(q)
<1>1. /\ s \in Seq(Nat) /\ Len(s) = Len(q) /\ SumBytes(q) = SumOf(s)
      /\ \A i \in 1 .. Len(q) : s[i] = q[i].size
  BY SizesAre
<1> HIDE DEF s
<1>2. PICK sum \in [0 .. Len(q) -> Nat] :
        /\ sum[0] = 0
        /\ \A n \in 1 .. Len(q) : sum[n] = sum[n - 1] + s[n]
        /\ SumOf(s) = sum[Len(q)]
  BY <1>1, SumSteps
<1> DEFINE Step(g, K, n) == IF n = 0 THEN << >>
                            ELSE IF n \in K THEN Append(g[n - 1], q[n]) ELSE g[n - 1]
<1>3. PICK k1 : k1 = [n \in 0 .. Len(q) |-> Step(k1, I, n)] /\ Keeping(q, I) = k1[Len(q)]
  BY KeepingSteps
<1>4. PICK k2 : k2 = [n \in 0 .. Len(q) |-> Step(k2, J, n)] /\ Keeping(q, J) = k2[Len(q)]
  BY KeepingSteps
<1>5. \A n \in 0 .. Len(q) : k1[n] = Step(k1, I, n) /\ k2[n] = Step(k2, J, n)
  <2> HIDE DEF Step
  <2> QED
    BY <1>3, <1>4
<1> DEFINE Splits(n) == /\ k1[n] \in Seq(T) /\ k2[n] \in Seq(T)
                        /\ Len(k1[n]) + Len(k2[n]) = n
                        /\ SumBytes(k1[n]) + SumBytes(k2[n]) = sum[n]
           S == {n \in 0 .. Len(q) : Splits(n)}
<1>6. Len(q) \in Nat
  OBVIOUS
<1>7. 0 \in S
  <2>1. k1[0] = << >> /\ k2[0] = << >> /\ 0 \in 0 .. Len(q)
    BY <1>5, <1>6
  <2>2. << >> \in Seq(T) /\ Len(<< >>) = 0
    OBVIOUS
  <2>3. SumBytes(<< >>) = 0
    BY <2>2, BytesType
  <2>4. Splits(0)
    BY <1>2, <2>1, <2>2, <2>3
  <2> QED
    BY <2>1, <2>4
<1>8. ASSUME NEW n \in 0 .. Len(q), n \in S, n # Len(q) PROVE n + 1 \in S
  <2> DEFINE m == n + 1
  <2>1. m \in 1 .. Len(q) /\ m - 1 = n /\ m \in 0 .. Len(q) /\ m # 0 /\ m = n + 1 /\ n \in Nat
    BY <1>6, <1>8
  <2> HIDE DEF m
  <2>2. q[m] \in T
    BY <2>1
  <2>3. sum[m] = sum[n] + q[m].size /\ q[m].size \in Nat /\ sum[n] \in Nat
    BY <1>1, <1>2, <2>1, <2>2
  <2>4. Splits(n)
    BY <1>8
  <2>5. /\ SumBytes(Append(k1[n], q[m])) = SumBytes(k1[n]) + q[m].size
        /\ SumBytes(Append(k2[n], q[m])) = SumBytes(k2[n]) + q[m].size
        /\ SumBytes(k1[n]) \in Nat /\ SumBytes(k2[n]) \in Nat
    BY <2>2, <2>4, BytesAppend, BytesType
  <2>6. /\ Append(k1[n], q[m]) \in Seq(T) /\ Len(Append(k1[n], q[m])) = Len(k1[n]) + 1
        /\ Append(k2[n], q[m]) \in Seq(T) /\ Len(Append(k2[n], q[m])) = Len(k2[n]) + 1
        /\ Len(k1[n]) \in Nat /\ Len(k2[n]) \in Nat
    BY <2>2, <2>4
  <2>7. CASE m \in I
    <3>1. k1[m] = Append(k1[n], q[m]) /\ k2[m] = k2[n]
      BY <1>5, <2>1, <2>7
    <3>2. Splits(m)
      <4>1. k1[m] \in Seq(T) /\ k2[m] \in Seq(T) /\ Len(k1[m]) + Len(k2[m]) = m
        <5>1. k1[m] \in Seq(T) /\ k2[m] \in Seq(T)
          BY <2>4, <2>6, <3>1
        <5>2. Len(k1[m]) = Len(k1[n]) + 1 /\ Len(k2[m]) = Len(k2[n]) /\ Len(k1[n]) + Len(k2[n]) = n
          BY <2>4, <2>6, <3>1
        <5>3. Len(k1[n]) \in Nat /\ Len(k2[n]) \in Nat
          BY <2>6
        <5>4. ASSUME NEW a \in Nat, NEW b \in Nat PROVE (a + 1) + b = (a + b) + 1
          OBVIOUS
        <5>5. Len(k1[m]) + Len(k2[m]) = (Len(k1[n]) + Len(k2[n])) + 1
          BY <5>2, <5>3, <5>4
        <5> QED
          BY <2>1, <5>1, <5>2, <5>5
      <4>2. SumBytes(k1[m]) = SumBytes(k1[n]) + q[m].size /\ SumBytes(k2[m]) = SumBytes(k2[n])
        BY <2>5, <3>1
      <4>3. ASSUME NEW a \in Nat, NEW b \in Nat, NEW x \in Nat PROVE (a + x) + b = (a + b) + x
        OBVIOUS
      <4>4. SumBytes(k1[m]) + SumBytes(k2[m]) = (SumBytes(k1[n]) + SumBytes(k2[n])) + q[m].size
        BY <2>3, <2>5, <4>2, <4>3
      <4> QED
        BY <2>3, <2>4, <4>1, <4>4
    <3> QED
      BY <2>1, <3>2
  <2>8. CASE m \notin I
    <3>1. k2[m] = Append(k2[n], q[m]) /\ k1[m] = k1[n]
      <4>1. m \in J
        BY <2>1, <2>8
      <4> QED
        BY <1>5, <2>1, <2>8, <4>1
    <3>2. Splits(m)
      <4>1. k1[m] \in Seq(T) /\ k2[m] \in Seq(T) /\ Len(k1[m]) + Len(k2[m]) = m
        <5>1. k1[m] \in Seq(T) /\ k2[m] \in Seq(T)
          BY <2>4, <2>6, <3>1
        <5>2. Len(k2[m]) = Len(k2[n]) + 1 /\ Len(k1[m]) = Len(k1[n]) /\ Len(k1[n]) + Len(k2[n]) = n
          BY <2>4, <2>6, <3>1
        <5>3. Len(k1[n]) \in Nat /\ Len(k2[n]) \in Nat
          BY <2>6
        <5>4. ASSUME NEW a \in Nat, NEW b \in Nat PROVE b + (a + 1) = (b + a) + 1
          OBVIOUS
        <5>5. Len(k1[m]) + Len(k2[m]) = (Len(k1[n]) + Len(k2[n])) + 1
          BY <5>2, <5>3, <5>4
        <5> QED
          BY <2>1, <5>1, <5>2, <5>5
      <4>2. SumBytes(k2[m]) = SumBytes(k2[n]) + q[m].size /\ SumBytes(k1[m]) = SumBytes(k1[n])
        BY <2>5, <3>1
      <4>3. ASSUME NEW a \in Nat, NEW b \in Nat, NEW x \in Nat PROVE a + (b + x) = (a + b) + x
        OBVIOUS
      <4>4. SumBytes(k1[m]) + SumBytes(k2[m]) = (SumBytes(k1[n]) + SumBytes(k2[n])) + q[m].size
        BY <2>3, <2>5, <4>2, <4>3
      <4> QED
        BY <2>3, <2>4, <4>1, <4>4
    <3> QED
      BY <2>1, <3>2
  <2> QED
    BY <2>1, <2>7, <2>8
<1>9. \A n \in 0 .. Len(q) : n \in S /\ n # Len(q) => n + 1 \in S
  BY <1>8
<1> HIDE DEF S
<1>10. \A n \in 0 .. Len(q) : n \in S
  BY <1>6, <1>7, <1>9, UpTo
<1>11. Splits(Len(q))
  <2>1. PICK n \in Nat : n = Len(q)
    BY <1>6
  <2>2. n \in 0 .. n
    BY <2>1
  <2>3. n \in S
    BY <1>10, <2>1, <2>2
  <2>4. Splits(n)
    <3> HIDE DEF Splits
    <3> QED
      BY <2>3 DEF S
  <2> QED
    BY <2>1, <2>4
<1> QED
  BY <1>1, <1>2, <1>3, <1>4, <1>11

(***************************************************************************)
(* Sums over numbered things, of which a step changes one.                  *)
(***************************************************************************)
(* The sum follows the one that changed.                                     *)
LEMMA SumOneChanges ==
    ASSUME NEW N \in Nat, NEW f \in [1 .. N -> Nat], NEW g \in [1 .. N -> Nat], NEW c \in 1 .. N,
           \A d \in 1 .. N : d # c => g[d] = f[d]
    PROVE  SumOf(g) = (SumOf(f) - f[c]) + g[c] /\ SumOf(f) \in Nat /\ f[c] <= SumOf(f)
<1>1. f \in Seq(Nat) /\ Len(f) = N /\ g \in Seq(Nat) /\ Len(g) = N
  OBVIOUS
<1>2. Len(g) = Len(f) /\ c \in 1 .. Len(f) /\ \A d \in 1 .. Len(f) : d # c => g[d] = f[d]
  BY <1>1
<1>3. SumOf(g) = (SumOf(f) - f[c]) + g[c]
  BY <1>1, <1>2, SumReplace
<1>4. SumOf(f) \in Nat /\ f[c] <= SumOf(f)
  BY <1>1, <1>2, SumType, SumMember
<1> QED
  BY <1>3, <1>4

-----------------------------------------------------------------------------
(***************************************************************************)
(* No event of the Realms runtime is lost without a word, for a queue of    *)
(* any size and any number of events (EventQueue).                          *)
(*                                                                          *)
(* The books need the order: events are numbered as they were pushed, what  *)
(* is queued is newer than what was delivered, and while a poll is about to *)
(* pop, whatever was dropped meanwhile is newer than the whole queue.       *)
(***************************************************************************)

EventTypes ==
  /\ events \in Seq(Nat)
  /\ dropped \in Nat
  /\ polling \in {"rest", "validate", "pop"}
  /\ pushes \in [count : Nat, from : Nat, lost : SUBSET Nat]
  /\ seen \in [last : Nat, count : Nat, told : Nat]

Books ==
  /\ pushes.count - pushes.from = seen.count + Len(events) + seen.told + dropped
  /\ pushes.lost \subseteq 1 .. pushes.count
  /\ Cardinality(pushes.lost) = dropped

Order ==
  /\ seen.last <= pushes.count
  /\ \A i \in 1 .. Len(events) : seen.last < events[i] /\ events[i] <= pushes.count
  /\ \A i, j \in 1 .. Len(events) : i < j => events[i] < events[j]
  /\ \A e \in pushes.lost : seen.last < e

\* Between the exchange of the count and the pop: the queue can only be full when something was dropped.
Popping ==
  polling = "pop" =>
    /\ pushes.lost # {} => Len(events) >= MaxEvents
    /\ \A e \in pushes.lost, i \in 1 .. Len(events) : events[i] < e

EventInv == EventTypes /\ Books /\ Order /\ Popping

-----------------------------------------------------------------------------
LEMMA LostIsFinite ==
  ASSUME NEW n \in Nat, NEW S \in SUBSET (1 .. n)
  PROVE  IsFiniteSet(S)
<1>1. IsFiniteSet(1 .. n)
  BY FS_Interval
<1> QED
  BY <1>1, FS_Subset

LEMMA EventInvInit == EventInit => EventInv
<1> SUFFICES ASSUME EventInit PROVE EventInv
  OBVIOUS
<1>1. Cardinality({}) = 0
  BY FS_EmptySet
<1> QED
  BY <1>1 DEF EventInit, EventInv, EventTypes, Books, Order, Popping

-----------------------------------------------------------------------------
\* push_runtime_event
LEMMA PushStep ==
  ASSUME EventInv, PushEvent
  PROVE  EventInv'
<1> USE DEF EventInv, EventTypes
<1>1. pushes'.from = pushes.from /\ pushes'.count = pushes.count + 1
  BY DEF PushEvent, Pushed
<1>2. CASE Len(events) >= MaxEvents
  <2>1. /\ pushes'.lost = pushes.lost \cup {pushes.count + 1} /\ dropped' = dropped + 1
        /\ events' = events /\ polling' = polling /\ seen' = seen
    BY <1>2 DEF PushEvent, Pushed
  <2>2. EventTypes'
    <3>1. pushes' = [count |-> pushes.count + 1, from |-> pushes.from, lost |-> pushes.lost \cup {pushes.count + 1}]
      BY <1>2 DEF PushEvent, Pushed
    <3> QED
      BY <2>1, <3>1
  <2>3. Cardinality(pushes'.lost) = Cardinality(pushes.lost) + 1
    <3>1. IsFiniteSet(pushes.lost)
      BY LostIsFinite DEF Books
    <3>2. pushes.count + 1 \notin pushes.lost
      BY DEF Books
    <3>3. \A S, x : IsFiniteSet(S) /\ x \notin S => Cardinality(S \cup {x}) = Cardinality(S) + 1
      BY FS_AddElement
    <3>4. Cardinality(pushes.lost \cup {pushes.count + 1}) = Cardinality(pushes.lost) + 1
      <4> HIDE DEF EventInv, EventTypes
      <4> QED
        BY <3>1, <3>2, <3>3
    <3> QED
      BY <2>1, <3>4
  <2>4. Books'
    <3>1. pushes'.count - pushes'.from = seen'.count + Len(events') + seen'.told + dropped'
      <4> DEFINE n == Len(events)
      <4>1. /\ pushes.count \in Nat /\ pushes.from \in Nat /\ seen.count \in Nat /\ seen.told \in Nat
            /\ n \in Nat /\ dropped \in Nat
        OBVIOUS
      <4>2. pushes.count - pushes.from = seen.count + n + seen.told + dropped
        BY DEF Books
      <4> HIDE DEF n, EventInv, EventTypes
      <4>3. (pushes.count + 1) - pushes.from = seen.count + n + seen.told + (dropped + 1)
        <5>1. PICK a \in Nat, b \in Nat, c \in Nat, d \in Nat, e \in Nat :
                a = pushes.count /\ b = pushes.from /\ c = seen.count /\ d = seen.told /\ e = dropped
          BY <4>1
        <5>2. a - b = c + n + d + e
          BY <4>2, <5>1
        <5>3. (a + 1) - b = c + n + d + (e + 1)
          BY <4>1, <5>2
        <5> QED
          BY <5>1, <5>3
      <4> QED
        BY <1>1, <2>1, <4>3 DEF n
    <3>2. pushes'.lost \subseteq 1 .. pushes'.count
      BY <1>1, <2>1 DEF Books
    <3>3. Cardinality(pushes'.lost) = dropped'
      BY <2>1, <2>3 DEF Books
    <3> QED
      BY <3>1, <3>2, <3>3 DEF Books
  <2>5. Order'
    BY <1>1, <2>1 DEF Order
  <2>6. Popping'
    BY <1>1, <1>2, <2>1 DEF Popping, Order
  <2> QED
    BY <2>2, <2>4, <2>5, <2>6
<1>3. CASE ~(Len(events) >= MaxEvents)
  <2>1. /\ pushes'.lost = pushes.lost /\ dropped' = dropped
        /\ events' = Append(events, pushes.count + 1) /\ polling' = polling /\ seen' = seen
    BY <1>3 DEF PushEvent, Pushed
  <2>2. EventTypes'
    BY <1>1, <1>3, <2>1 DEF PushEvent, Pushed
  <2>3. /\ Len(events') = Len(events) + 1
        /\ \A i \in 1 .. Len(events) : events'[i] = events[i]
        /\ events'[Len(events) + 1] = pushes.count + 1
    BY <2>1
  <2>4. Books'
    <3>1. pushes'.count - pushes'.from = seen'.count + Len(events') + seen'.told + dropped'
      <4>1. pushes'.count = pushes.count + 1 /\ pushes'.from = pushes.from
        BY <1>1
      <4>2. seen'.count = seen.count /\ seen'.told = seen.told /\ dropped' = dropped
        BY <2>1
      <4>3. Len(events') = Len(events) + 1
        BY <2>3
      <4>4. (pushes.count + 1) - pushes.from = seen.count + (Len(events) + 1) + seen.told + dropped
        <5>1. /\ pushes.count \in Nat /\ pushes.from \in Nat /\ seen.count \in Nat /\ seen.told \in Nat
              /\ Len(events) \in Nat /\ dropped \in Nat
          OBVIOUS
        <5>2. pushes.count - pushes.from = seen.count + Len(events) + seen.told + dropped
          BY DEF Books
        <5>3. PICK n \in Nat : n = Len(events)
          BY <5>1
        <5>4. PICK a \in Nat, b \in Nat, c \in Nat, d \in Nat :
                a = pushes.count /\ b = pushes.from /\ c = seen.count /\ d = seen.told
          BY <5>1
        <5>5. a - b = c + n + d + dropped
          BY <5>2, <5>3, <5>4
        <5>6. (a + 1) - b = c + (n + 1) + d + dropped
          BY <5>1, <5>5
        <5> QED
          BY <5>3, <5>4, <5>6
      <4> QED
        BY <4>1, <4>2, <4>3, <4>4, Zenon
    <3>2. pushes'.lost \subseteq 1 .. pushes'.count
      BY <1>1, <2>1 DEF Books
    <3>3. Cardinality(pushes'.lost) = dropped'
      BY <2>1 DEF Books
    <3> QED
      BY <3>1, <3>2, <3>3 DEF Books
  <2>5. Order'
    <3>1. \A i \in 1 .. Len(events') : i \in 1 .. Len(events) \/ i = Len(events) + 1
      BY <2>3
    <3> QED
      BY <1>1, <2>1, <2>3, <3>1 DEF Order
  <2>6. Popping'
    BY <1>3, <2>1 DEF Popping
  <2> QED
    BY <2>2, <2>4, <2>5, <2>6
<1> QED
  BY <1>2, <1>3

\* clear_runtime_events
LEMMA ClearStep ==
  ASSUME EventInv, ClearEvents
  PROVE  EventInv'
<1> USE DEF EventInv, EventTypes
<1>1. Cardinality({}) = 0
  BY FS_EmptySet
<1>2. /\ events' = << >> /\ dropped' = 0 /\ polling' = "rest"
      /\ pushes' = [count |-> pushes.count, from |-> pushes.count, lost |-> {}]
      /\ seen' = [last |-> pushes.count, count |-> 0, told |-> 0]
  BY DEF ClearEvents
<1> QED
  BY <1>1, <1>2 DEF Books, Order, Popping

\* poll_runtime_event, up to the exchange of the count.
LEMMA TakeStep ==
  ASSUME EventInv, PollEvent \/ PollInvalid \/ TakeDropped
  PROVE  EventInv'
<1> USE DEF EventInv, EventTypes
<1>1. CASE PollEvent \/ PollInvalid
  BY <1>1 DEF PollEvent, PollInvalid, InvalidKeeps, Books, Order, Popping
<1>2. CASE TakeDropped /\ dropped # 0
  <2>1. /\ events' = events /\ dropped' = 0 /\ polling' = "rest"
        /\ pushes' = [count |-> pushes.count, from |-> pushes.from, lost |-> {}]
        /\ seen' = [last |-> seen.last, count |-> seen.count, told |-> seen.told + dropped]
    BY <1>2 DEF TakeDropped, Reports
  <2>2. Cardinality({}) = 0
    BY FS_EmptySet
  <2> QED
    BY <2>1, <2>2 DEF Books, Order, Popping
<1>3. CASE TakeDropped /\ dropped = 0
  <2>1. pushes.lost = {}
    BY <1>3, LostIsFinite, FS_EmptySet DEF Books
  <2>2. events' = events /\ dropped' = dropped /\ polling' = "pop" /\ pushes' = pushes /\ seen' = seen
    BY <1>3 DEF TakeDropped, Reports
  <2> QED
    BY <2>1, <2>2 DEF Books, Order, Popping
<1> QED
  BY <1>1, <1>2, <1>3

\* poll_runtime_event, when there was nothing to report.
LEMMA PopStep ==
  ASSUME EventInv, PopEvent
  PROVE  EventInv'
<1> USE DEF EventInv, EventTypes
<1>1. /\ events' = Tail(events) /\ events # << >> /\ polling = "pop" /\ polling' = "rest"
      /\ dropped' = dropped /\ pushes' = pushes
      /\ seen' = [last |-> events[1], count |-> seen.count + 1, told |-> seen.told]
  <2>1. Head(events) = events[1]
    BY DEF PopEvent
  <2> QED
    BY <2>1 DEF PopEvent
<1>2. /\ Len(events) \in Nat \ {0} /\ Len(events') = Len(events) - 1 /\ events[1] \in Nat
      /\ events' \in Seq(Nat) /\ \A i \in 1 .. Len(events') : events'[i] = events[i + 1]
  BY <1>1
<1>3. EventTypes'
  BY <1>1, <1>2
<1>4. Books'
  BY <1>1, <1>2 DEF Books
<1>5. Order' /\ Popping'
  BY <1>1, <1>2 DEF Order, Popping
<1> QED
  BY <1>3, <1>4, <1>5

-----------------------------------------------------------------------------
LEMMA EventInvStep ==
  ASSUME EventInv, [EventNext]_eventVars
  PROVE  EventInv'
<1>1. CASE UNCHANGED eventVars
  BY <1>1 DEF eventVars, EventInv, EventTypes, Books, Order, Popping
<1>2. CASE EventNext
  BY <1>2, PushStep, ClearStep, TakeStep, PopStep DEF EventNext
<1> QED
  BY <1>1, <1>2

LEMMA EventInvImplies == EventInv => EventsAccountedFor
<1> SUFFICES ASSUME EventInv PROVE EventsAccountedFor
  OBVIOUS
<1>1. events \in Seq(Nat)
  BY DEF EventInv, EventTypes
<1>2. DOMAIN events = 1 .. Len(events) /\ Len(events) \in Nat
  BY <1>1
<1>3. \A i \in DOMAIN events : seen.last < events[i] /\ (i > 1 => events[i - 1] < events[i])
  BY <1>2 DEF EventInv, Order
<1> QED
  BY <1>3 DEF EventInv, Books, Order, EventsAccountedFor

\* Every event of a session is delivered, queued, or reported as lost before a newer one is delivered, however
\* the pushes of other threads fall between the steps of a poll (realms_events.cpp).
THEOREM EventsCorrect == EventInit /\ [][EventNext]_eventVars => []EventsAccountedFor
  BY EventInvInit, EventInvStep, EventInvImplies, PTL

-----------------------------------------------------------------------------
(***************************************************************************)
(* The voice part of the native runtime, for any number of speakers and any *)
(* sizes of its queues.                                                     *)
(***************************************************************************)

GamePc == {"idle", "join", "disable", "uninit", "clear", "reopen", "resume", "stop", "replay", "recapture"}
WorkerPc == {"exited", "wait", "capture", "encode", "swap", "decode"}
VoicePacket == [speaker : Speaker, generation : Nat, remove : BOOLEAN]
VoiceDecoder == [speaker : Speaker, generation : Nat]
EncodedPacket == [stream : Nat, chunks : Seq(Nat)]

GameState == [pc : GamePc, resume : BOOLEAN, then : {"idle", "recapture", "reopen"}]
VoiceState ==
  [started : BOOLEAN, stopping : BOOLEAN, wake : BOOLEAN, failed : BOOLEAN, changes : SUBSET AudioDevice,
   capture : BOOLEAN, captureEnabled : BOOLEAN, transmitting : BOOLEAN, reference : BOOLEAN,
   echo : BOOLEAN, suppression : BOOLEAN, defaults : SUBSET AudioDevice]
CapturingState == [captured : Nat, processed : Seq(Nat), stream : Nat, outgoing : Seq(EncodedPacket)]
WorkerState == [pc : WorkerPc, packets : Seq(VoicePacket)]

VoiceType ==
  /\ game \in GameState
  /\ voice \in VoiceState
  /\ capturing \in CapturingState
  /\ worker \in WorkerState
  /\ incoming \in Seq(VoicePacket)
  /\ decoders \in Seq(VoiceDecoder)
  /\ talking \in [present : SUBSET Speaker, generation : [Speaker -> Nat]]

\* Where the game thread returns to after the steps it takes inside of a function.
GameReturns ==
  /\ game.pc \in {"idle", "join"} => game.then = "idle"
  /\ game.pc = "replay" => game.then \in {"idle", "recapture"}
  /\ game.pc \in {"disable", "uninit", "clear"} => game.then \in {"idle", "reopen"}

(***************************************************************************)
(* The three parts of the invariant.                                        *)
(***************************************************************************)
\* Chunks and packets are of the running stream, and there are some only while one transmits or
\* while capture is being switched off.
OfStream(c) ==
  /\ \A i \in 1 .. Len(c.outgoing) :
       /\ c.outgoing[i].stream = c.stream
       /\ \A j \in 1 .. Len(c.outgoing[i].chunks) : c.outgoing[i].chunks[j] = c.stream
  /\ \A i \in 1 .. Len(c.processed) : c.processed[i] = c.stream

ChunksOfStream ==
  /\ OfStream(capturing)
  /\ (game.pc \notin {"disable", "uninit", "clear"}
      /\ (capturing.outgoing # << >> \/ capturing.processed # << >>)) => voice.transmitting

ReferenceInv ==
  /\ voice.started /\ game.pc \notin {"join", "disable", "uninit", "clear"} =>
       (voice.reference <=> voice.capture /\ voice.echo)
  /\ game.pc = "clear" => ~voice.capture

WokenInv ==
  /\ WorkerIsWoken
  /\ worker.pc \in {"swap", "decode"} /\ ~voice.wake /\ voice.captureEnabled => capturing.captured = 0
  /\ worker.pc = "decode" /\ ~voice.wake => incoming = << >>
  /\ ~voice.captureEnabled /\ game.pc \notin {"uninit", "clear"} => capturing.captured = 0
  /\ game.pc \in {"uninit", "clear"} => ~voice.captureEnabled
  /\ worker.pc # "decode" => worker.packets = << >>

(***************************************************************************)
(* Streams: the queue of the worker (Q) and the packets it has taken (P)    *)
(* hold of a speaker at most one removal, ahead of its packets, and its     *)
(* packets are of one generation; those of another generation than the      *)
(* current one (G), and the decoders (D) for it, have a removal ahead.       *)
(***************************************************************************)
Removes(q, s) == \E i \in 1 .. Len(q) : q[i].remove /\ q[i].speaker = s
Speaks(q, s) == \E i \in 1 .. Len(q) : ~q[i].remove /\ q[i].speaker = s
RemovalsFirst(q) ==
  \A i, j \in 1 .. Len(q) : q[i].remove /\ q[j].speaker = q[i].speaker /\ i # j => i < j
Current(p, G) == p.generation = G[p.speaker]

OneStream(Q, P, D, G) ==
  /\ RemovalsFirst(Q)
  /\ RemovalsFirst(P)
  /\ \A i \in 1 .. Len(Q) : ~Q[i].remove => Current(Q[i], G)
  /\ \A i, j \in 1 .. Len(P) :
       ~P[i].remove /\ ~P[j].remove /\ P[i].speaker = P[j].speaker => P[i].generation = P[j].generation
  /\ \A i \in 1 .. Len(P) :
       ~P[i].remove => /\ P[i].generation <= G[P[i].speaker]
                       /\ ~Current(P[i], G) => Removes(Q, P[i].speaker)
  /\ \A d \in 1 .. Len(D) :
       /\ D[d].generation <= G[D[d].speaker]
       /\ ~Removes(P, D[d].speaker) =>
            /\ \A i \in 1 .. Len(P) :
                 ~P[i].remove /\ P[i].speaker = D[d].speaker => P[i].generation = D[d].generation
            /\ ~Current(D[d], G) => Removes(Q, D[d].speaker)

StreamsInOrder == OneStream(incoming, worker.packets, decoders, talking.generation)

(***************************************************************************)
(* Room: with every packet goes a set of the speakers that were present (R) *)
(* when it came.  All others have no decoder any more when its turn comes.  *)
(***************************************************************************)
HasDecoder(D, s) == \E d \in 1 .. Len(D) : D[d].speaker = s
Departed(s, G, R) == s \notin R /\ G[s] > 0
MayHaveDecoder(P, D, s) == Speaks(P, s) \/ (HasDecoder(D, s) /\ ~Removes(P, s))
RemovedBefore(q, s, j) == \E i \in 1 .. Len(q) : i < j /\ q[i].remove /\ q[i].speaker = s
SilentBefore(q, s, j) == \A i \in 1 .. Len(q) : i < j /\ q[i].speaker = s => q[i].remove
Crowd(B) == B \in SUBSET Speaker /\ IsFiniteSet(B) /\ Cardinality(B) < MaxSpeakers

RoomForTaken(P, D, j) ==
  \E B \in SUBSET Speaker :
    /\ Crowd(B)
    /\ P[j].speaker \in B
    /\ \A s \in Speaker \ B :
         SilentBefore(P, s, j) /\ (HasDecoder(D, s) => RemovedBefore(P, s, j))
RoomForQueued(Q, P, D, G, R, j) ==
  \E B \in SUBSET Speaker :
    /\ Crowd(B)
    /\ Q[j].speaker \in B
    /\ \A s \in Speaker \ B :
         SilentBefore(Q, s, j) /\ (MayHaveDecoder(P, D, s) => Departed(s, G, R) /\ RemovedBefore(Q, s, j))

DepartedAreSilent(Q, P, D, G, R) ==
  \A s \in Speaker \ R :
    /\ ~Speaks(Q, s)
    /\ \A i \in 1 .. Len(P) : ~P[i].remove /\ P[i].speaker = s => ~Current(P[i], G)
    /\ \A d \in 1 .. Len(D) : D[d].speaker = s => ~Current(D[d], G)

OneDecoderEach(D) == \A i, j \in 1 .. Len(D) : D[i].speaker = D[j].speaker => i = j

Room(Q, P, D, G, R) ==
  /\ Crowd(R)
  /\ OneDecoderEach(D)
  /\ DepartedAreSilent(Q, P, D, G, R)
  /\ \A j \in 1 .. Len(P) : ~P[j].remove => RoomForTaken(P, D, j)
  /\ \A j \in 1 .. Len(Q) : ~Q[j].remove => RoomForQueued(Q, P, D, G, R, j)

RoomInv == Room(incoming, worker.packets, decoders, talking.generation, talking.present)

-----------------------------------------------------------------------------
(* The effects a step can have on the queues.                               *)
Packet(s, g, r) == [speaker |-> s, generation |-> g, remove |-> r]

(* What stays of a queue when a packet or a removal is put into it: a packet *)
(* never displaces a removal, a removal displaces the packets and removals  *)
(* of its speaker only.                                                     *)
LEMMA EnqueuedFacts ==
    ASSUME VoiceAssumption, incoming \in Seq(VoicePacket), NEW p \in VoicePacket
    PROVE  \/ Enqueued(p) = incoming /\ ~p.remove /\ ~HasRoom
           \/ \E w \in Seq(VoicePacket), I \in SUBSET (1 .. Len(incoming)) :
                /\ Thinned(w, incoming, I)
                /\ Enqueued(p) = Append(w, p)
                /\ IF p.remove THEN I = {i \in 1 .. Len(incoming) : incoming[i].speaker # p.speaker}
                   ELSE \A i \in 1 .. Len(incoming) : incoming[i].remove => i \in I
<1>0. Len(incoming) \in Nat /\ DOMAIN incoming = 1 .. Len(incoming)
  OBVIOUS
<1>1. CASE p.remove
  <2> DEFINE I == {i \in 1 .. Len(incoming) : incoming[i].speaker # p.speaker}
             w == Keeping(incoming, I)
  <2>1. w \in Seq(VoicePacket) /\ Thinned(w, incoming, I)
    BY KeepingFacts
  <2>2. Enqueued(p) = Append(w, p)
    BY <1>0, <1>1 DEF Enqueued, Without
  <2> HIDE DEF w
  <2> QED
    BY <1>1, <2>1, <2>2
<1>2. CASE ~p.remove /\ Len(incoming) < PacketCapacity
  <2> DEFINE I == 1 .. Len(incoming)
             m == [i \in 1 .. Len(incoming) |-> i]
  <2>1. Thinned(incoming, incoming, I)
    <3>1. /\ m \in [1 .. Len(incoming) -> I]
          /\ \A i \in 1 .. Len(incoming) : incoming[i] = incoming[m[i]]
          /\ \A i, j \in 1 .. Len(incoming) : i < j => m[i] < m[j]
          /\ \A k \in I : \E i \in 1 .. Len(incoming) : m[i] = k
      BY <1>0
    <3> HIDE DEF m, I
    <3> QED
      BY <3>1 DEF Thinned
  <2>2. Enqueued(p) = Append(incoming, p)
    BY <1>2 DEF Enqueued
  <2> QED
    BY <1>2, <2>1, <2>2
<1>3. CASE ~p.remove /\ ~(Len(incoming) < PacketCapacity) /\ ~HasRoom
  BY <1>3 DEF Enqueued
<1>4. CASE ~p.remove /\ ~(Len(incoming) < PacketCapacity) /\ HasRoom
  <2>1. Ordinary(incoming) \in SUBSET Nat /\ Ordinary(incoming) # {}
    BY <1>0, <1>4 DEF HasRoom, Ordinary
  <2>2. \E i \in Ordinary(incoming) : \A j \in Ordinary(incoming) : i <= j
    BY <2>1, LeastNumber
  <2> DEFINE k == Oldest(Ordinary(incoming))
             w == RemoveAt(incoming, k)
             I == (1 .. Len(incoming)) \ {k}
  <2>3. k \in Ordinary(incoming)
    BY <2>2 DEF Oldest
  <2>4. k \in 1 .. Len(incoming) /\ ~incoming[k].remove
    BY <1>0, <2>3 DEF Ordinary
  <2>5. Enqueued(p) = Append(w, p)
    BY <1>4 DEF Enqueued
  <2> HIDE DEF k
  <2>6. w \in Seq(VoicePacket) /\ Thinned(w, incoming, I)
    BY <2>4, RemovedAt
  <2>7. \A i \in 1 .. Len(incoming) : incoming[i].remove => i \in I
    BY <2>4
  <2> HIDE DEF w, I
  <2>8. I \in SUBSET (1 .. Len(incoming))
    BY DEF I
  <2> QED
    BY <1>4, <2>5, <2>6, <2>7, <2>8
<1> QED
  BY <1>1, <1>2, <1>3, <1>4

(* The types of entries and decoders.                                       *)
LEMMA EntryType ==
    ASSUME NEW q \in Seq(VoicePacket), NEW i \in 1 .. Len(q)
    PROVE  /\ q[i] \in VoicePacket /\ q[i].speaker \in Speaker
           /\ q[i].generation \in Nat /\ q[i].remove \in BOOLEAN
<1>1. q[i] \in VoicePacket
  OBVIOUS
<1> QED
  BY <1>1 DEF VoicePacket

LEMMA DecoderType ==
    ASSUME NEW D \in Seq(VoiceDecoder), NEW d \in 1 .. Len(D)
    PROVE  D[d] \in VoiceDecoder /\ D[d].speaker \in Speaker /\ D[d].generation \in Nat
<1>1. D[d] \in VoiceDecoder
  OBVIOUS
<1> QED
  BY <1>1 DEF VoiceDecoder

(* The queue after an entry was put into it.                                *)
IsAppended(Q2, w, p) == Q2 = Append(w, p)

LEMMA AppendedLength ==
    ASSUME NEW w \in Seq(VoicePacket), NEW p \in VoicePacket, NEW Q2, IsAppended(Q2, w, p)
    PROVE  /\ Q2 \in Seq(VoicePacket) /\ Len(Q2) = Len(w) + 1 /\ Len(w) \in Nat
           /\ Q2[Len(w) + 1] = p /\ Len(w) + 1 \in 1 .. Len(Q2)
           /\ \A j \in 1 .. Len(Q2) : j = Len(w) + 1 \/ j \in 1 .. Len(w)
           /\ \A j \in 1 .. Len(w) : j \in 1 .. Len(Q2) /\ j < Len(w) + 1 /\ Q2[j] = w[j]
  BY DEF IsAppended

Placed(Q2, l, Q, I) ==
  \E m \in [1 .. l -> I] :
    /\ \A i \in 1 .. l : m[i] \in 1 .. Len(Q) /\ m[i] \in I /\ Q2[i] = Q[m[i]]
    /\ \A i, j \in 1 .. l : i < j => m[i] < m[j]
    /\ \A k \in I : \E i \in 1 .. l : m[i] = k

LEMMA Appended ==
    ASSUME NEW Q \in Seq(VoicePacket), NEW w \in Seq(VoicePacket), NEW I \in SUBSET (1 .. Len(Q)),
           Thinned(w, Q, I), NEW p \in VoicePacket, NEW Q2, IsAppended(Q2, w, p)
    PROVE  Placed(Q2, Len(w), Q, I)
<1>1. \A i \in 1 .. Len(w) : Q2[i] = w[i]
  BY AppendedLength
<1>2. PICK m \in [1 .. Len(w) -> I] :
         /\ \A i \in 1 .. Len(w) : w[i] = Q[m[i]]
         /\ \A i, j \in 1 .. Len(w) : i < j => m[i] < m[j]
         /\ \A k \in I : \E i \in 1 .. Len(w) : m[i] = k
  BY DEF Thinned
<1>3. \A i \in 1 .. Len(w) : m[i] \in 1 .. Len(Q) /\ m[i] \in I
  OBVIOUS
<1>4. \A i \in 1 .. Len(w) : m[i] \in 1 .. Len(Q) /\ m[i] \in I /\ Q2[i] = Q[m[i]]
  BY <1>1, <1>2, <1>3
<1> QED
  BY <1>2, <1>4 DEF Placed

LEMMA AppendedFrom ==
    ASSUME NEW Q \in Seq(VoicePacket), NEW w \in Seq(VoicePacket), NEW I \in SUBSET (1 .. Len(Q)),
           Thinned(w, Q, I), NEW p \in VoicePacket, NEW Q2, IsAppended(Q2, w, p), NEW i \in 1 .. Len(w)
    PROVE  \E k \in I : k \in 1 .. Len(Q) /\ Q2[i] = Q[k]
<1>x. Placed(Q2, Len(w), Q, I)
  BY Appended
<1>1. PICK m \in [1 .. Len(w) -> I] :
         /\ \A j \in 1 .. Len(w) : m[j] \in 1 .. Len(Q) /\ m[j] \in I /\ Q2[j] = Q[m[j]]
         /\ \A j, h \in 1 .. Len(w) : j < h => m[j] < m[h]
         /\ \A k \in I : \E j \in 1 .. Len(w) : m[j] = k
  BY <1>x DEF Placed
<1> QED
  BY <1>1

LEMMA AppendedRemovals ==
    ASSUME NEW Q \in Seq(VoicePacket), NEW w \in Seq(VoicePacket), NEW I \in SUBSET (1 .. Len(Q)),
           Thinned(w, Q, I), NEW p \in VoicePacket, NEW Q2, IsAppended(Q2, w, p),
           RemovalsFirst(Q), p.remove => \A i \in I : Q[i].speaker # p.speaker
    PROVE  /\ RemovalsFirst(Q2)
           /\ p.remove => Removes(Q2, p.speaker)
           /\ \A s : (\A i \in 1 .. Len(Q) : Q[i].remove /\ Q[i].speaker = s => i \in I)
                       => (Removes(Q, s) => Removes(Q2, s))
<1> DEFINE l == Len(w) + 1
<1>x. Placed(Q2, Len(w), Q, I)
  BY Appended
<1>1. PICK m \in [1 .. Len(w) -> I] :
         /\ \A i \in 1 .. Len(w) : m[i] \in 1 .. Len(Q) /\ m[i] \in I /\ Q2[i] = Q[m[i]]
         /\ \A i, j \in 1 .. Len(w) : i < j => m[i] < m[j]
         /\ \A k \in I : \E i \in 1 .. Len(w) : m[i] = k
  BY <1>x DEF Placed
<1>2. /\ Len(Q2) = l /\ Len(w) \in Nat /\ Q2[l] = p /\ l \in 1 .. Len(Q2)
      /\ \A j \in 1 .. Len(Q2) : j = l \/ j \in 1 .. Len(w)
      /\ \A j \in 1 .. Len(w) : j \in 1 .. Len(Q2) /\ j < l
  BY AppendedLength
<1> HIDE DEF l
<1>3. RemovalsFirst(Q2)
  <2> SUFFICES ASSUME NEW i \in 1 .. Len(Q2), NEW j \in 1 .. Len(Q2),
                      Q2[i].remove, Q2[j].speaker = Q2[i].speaker, i # j
               PROVE  i < j
    BY DEF RemovalsFirst
  <2>1. CASE i = l
    <3>1. j \in 1 .. Len(w) /\ p.remove /\ Q2[j].speaker = p.speaker
      BY <1>2, <2>1
    <3> QED
      BY <1>1, <3>1
  <2>2. CASE i \in 1 .. Len(w) /\ j = l
    BY <1>2, <2>2
  <2>3. CASE i \in 1 .. Len(w) /\ j \in 1 .. Len(w)
    <3>1. Q[m[i]].remove /\ Q[m[j]].speaker = Q[m[i]].speaker
      BY <1>1, <2>3
    <3>2. i < j \/ j < i
      BY <2>3
    <3>3. CASE j < i
      <4>1. m[j] < m[i] /\ m[i] \in 1 .. Len(Q) /\ m[j] \in 1 .. Len(Q)
        BY <1>1, <2>3, <3>3
      <4>2. m[i] # m[j]
        BY <4>1
      <4>3. m[i] < m[j]
        BY <3>1, <4>1, <4>2 DEF RemovalsFirst
      <4> QED
        BY <4>1, <4>3
    <3> QED
      BY <3>2, <3>3
  <2> QED
    BY <1>2, <2>1, <2>2, <2>3
<1>4. p.remove => Removes(Q2, p.speaker)
  BY <1>2 DEF Removes
<1>5. ASSUME NEW s, \A i \in 1 .. Len(Q) : Q[i].remove /\ Q[i].speaker = s => i \in I, Removes(Q, s)
      PROVE  Removes(Q2, s)
  <2>1. PICK k \in 1 .. Len(Q) : Q[k].remove /\ Q[k].speaker = s
    BY <1>5 DEF Removes
  <2>2. k \in I
    BY <1>5, <2>1
  <2>3. PICK i \in 1 .. Len(w) : m[i] = k
    BY <1>1, <2>2
  <2>4. i \in 1 .. Len(Q2) /\ Q2[i] = Q[k]
    BY <1>1, <1>2, <2>3
  <2> QED
    BY <2>1, <2>4 DEF Removes
<1> QED
  BY <1>3, <1>4, <1>5

-----------------------------------------------------------------------------
(* OneStream is kept by each effect.                                        *)
LEMMA StreamSubmit ==
    ASSUME NEW Q \in Seq(VoicePacket), NEW P \in Seq(VoicePacket), NEW D \in Seq(VoiceDecoder),
           NEW G \in [Speaker -> Nat], OneStream(Q, P, D, G),
           NEW w \in Seq(VoicePacket), NEW I \in SUBSET (1 .. Len(Q)), Thinned(w, Q, I),
           \A i \in 1 .. Len(Q) : Q[i].remove => i \in I,
           NEW p \in VoicePacket, ~p.remove, Current(p, G), NEW Q2, IsAppended(Q2, w, p)
    PROVE  OneStream(Q2, P, D, G)
<1>1. RemovalsFirst(Q2) /\ \A s : Removes(Q, s) => Removes(Q2, s)
  <2>1. RemovalsFirst(Q)
    BY DEF OneStream
  <2> QED
    BY <2>1, AppendedRemovals
<1>2. ASSUME NEW i \in 1 .. Len(Q2), ~Q2[i].remove PROVE Current(Q2[i], G)
  <2>1. CASE i = Len(w) + 1
    <3>1. Q2[i] = p
      BY <2>1, AppendedLength
    <3> QED
      BY <3>1
  <2>2. CASE i \in 1 .. Len(w)
    <3>0. Placed(Q2, Len(w), Q, I)
      BY Appended
    <3>1. PICK k \in I : k \in 1 .. Len(Q) /\ Q2[i] = Q[k]
      BY <2>2, <3>0 DEF Placed
    <3> QED
      BY <1>2, <3>1 DEF OneStream
  <2>3. i = Len(w) + 1 \/ i \in 1 .. Len(w)
    BY AppendedLength
  <2> QED
    BY <2>1, <2>2, <2>3
<1> QED
  BY <1>1, <1>2 DEF OneStream

LEMMA StreamRemove ==
    ASSUME NEW Q \in Seq(VoicePacket), NEW P \in Seq(VoicePacket), NEW D \in Seq(VoiceDecoder),
           NEW G \in [Speaker -> Nat], OneStream(Q, P, D, G),
           NEW w \in Seq(VoicePacket), NEW p \in VoicePacket, p.remove,
           Thinned(w, Q, {i \in 1 .. Len(Q) : Q[i].speaker # p.speaker}),
           NEW Q2, IsAppended(Q2, w, p), NEW G2, G2 = [G EXCEPT ![p.speaker] = @ + 1]
    PROVE  OneStream(Q2, P, D, G2)
<1> DEFINE t == p.speaker
           I == {i \in 1 .. Len(Q) : Q[i].speaker # t}
<1>0. I \in SUBSET (1 .. Len(Q)) /\ Thinned(w, Q, I) /\ \A i \in I : Q[i].speaker # t
  OBVIOUS
<1>a. t \in Speaker /\ G2[t] = G[t] + 1 /\ \A s \in Speaker : s # t => G2[s] = G[s]
  BY DEF VoicePacket
<1>b. \A s \in Speaker : G[s] \in Nat
  OBVIOUS
<1>c. \A i \in 1 .. Len(P) : P[i].speaker \in Speaker /\ P[i].generation \in Nat
  BY EntryType
<1>d. \A d \in 1 .. Len(D) : D[d].speaker \in Speaker /\ D[d].generation \in Nat
  BY DecoderType
<1>1. RemovalsFirst(Q2) /\ Removes(Q2, t) /\ \A s : s # t => (Removes(Q, s) => Removes(Q2, s))
  <2>1. RemovalsFirst(Q)
    BY DEF OneStream
  <2>2. RemovalsFirst(Q2) /\ Removes(Q2, t)
    BY <1>0, <2>1, AppendedRemovals
  <2>3. ASSUME NEW s, s # t, Removes(Q, s) PROVE Removes(Q2, s)
    <3>1. \A i \in 1 .. Len(Q) : Q[i].remove /\ Q[i].speaker = s => i \in I
      BY <2>3
    <3> HIDE DEF I, t
    <3> QED
      BY <1>0, <2>1, <2>3, <3>1, AppendedRemovals DEF t
  <2> QED
    BY <2>2, <2>3
<1>2. ASSUME NEW i \in 1 .. Len(Q2), ~Q2[i].remove PROVE Current(Q2[i], G2)
  <2>1. i = Len(w) + 1 => Q2[i] = p
    BY AppendedLength
  <2>2. CASE i \in 1 .. Len(w)
    <3>1. PICK k \in I : k \in 1 .. Len(Q) /\ Q2[i] = Q[k]
      <4> HIDE DEF I
      <4>1. Placed(Q2, Len(w), Q, I)
        BY <1>0, Appended
      <4> QED
        BY <2>2, <4>1 DEF Placed
    <3>2. k \in 1 .. Len(Q) /\ Q[k].speaker # t /\ Q[k].speaker \in Speaker
      BY <3>1, EntryType
    <3>3. Current(Q[k], G)
      BY <1>2, <3>1, <3>2 DEF OneStream
    <3> QED
      BY <1>a, <3>1, <3>2, <3>3 DEF Current
  <2>3. i = Len(w) + 1 \/ i \in 1 .. Len(w)
    BY AppendedLength
  <2> QED
    BY <1>2, <2>1, <2>2, <2>3
<1> HIDE DEF t, I
<1>3. ASSUME NEW i \in 1 .. Len(P), ~P[i].remove
      PROVE  /\ P[i].generation <= G2[P[i].speaker]
             /\ ~Current(P[i], G2) => Removes(Q2, P[i].speaker)
  <2>1. P[i].generation <= G[P[i].speaker] /\ (~Current(P[i], G) => Removes(Q, P[i].speaker))
    BY <1>3 DEF OneStream
  <2> QED
    BY <1>1, <1>a, <1>b, <1>c, <2>1 DEF Current
<1>4. ASSUME NEW d \in 1 .. Len(D)
      PROVE  /\ D[d].generation <= G2[D[d].speaker]
             /\ ~Removes(P, D[d].speaker) /\ ~Current(D[d], G2) => Removes(Q2, D[d].speaker)
  <2>1. /\ D[d].generation <= G[D[d].speaker]
        /\ ~Removes(P, D[d].speaker) /\ ~Current(D[d], G) => Removes(Q, D[d].speaker)
    BY DEF OneStream
  <2> QED
    BY <1>1, <1>a, <1>b, <1>d, <2>1 DEF Current
<1> QED
  BY <1>1, <1>2, <1>3, <1>4 DEF OneStream

LEMMA StreamTake ==
    ASSUME NEW Q \in Seq(VoicePacket), NEW D \in Seq(VoiceDecoder),
           NEW G \in [Speaker -> Nat], OneStream(Q, << >>, D, G)
    PROVE  OneStream(<< >>, Q, D, G)
<1>1. \A i \in 1 .. Len(Q) : ~Q[i].remove => Current(Q[i], G)
  BY DEF OneStream
<1>2. Len(<< >>) = 0 /\ 1 .. 0 = {} /\ RemovalsFirst(<< >>)
  BY DEF RemovalsFirst
<1>3. \A s : ~Removes(<< >>, s)
  BY <1>2 DEF Removes
<1>4. \A i, j \in 1 .. Len(Q) :
        ~Q[i].remove /\ ~Q[j].remove /\ Q[i].speaker = Q[j].speaker => Q[i].generation = Q[j].generation
  BY <1>1 DEF Current
<1>5. \A i \in 1 .. Len(Q) : Q[i].speaker \in Speaker /\ G[Q[i].speaker] \in Nat
  BY EntryType
<1>6. \A i \in 1 .. Len(Q) : ~Q[i].remove => Q[i].generation <= G[Q[i].speaker]
  BY <1>1, <1>5 DEF Current
<1>7. ASSUME NEW d \in 1 .. Len(D), ~Removes(Q, D[d].speaker)
      PROVE  /\ \A i \in 1 .. Len(Q) :
                  ~Q[i].remove /\ Q[i].speaker = D[d].speaker => Q[i].generation = D[d].generation
             /\ Current(D[d], G)
  <2>1. Current(D[d], G)
    BY <1>3, <1>7 DEF OneStream
  <2> QED
    BY <1>1, <2>1 DEF Current
<1>8. \A d \in 1 .. Len(D) : D[d].generation <= G[D[d].speaker]
  BY DEF OneStream
<1>9. RemovalsFirst(Q)
  BY DEF OneStream
<1> QED
  BY <1>1, <1>2, <1>4, <1>6, <1>7, <1>8, <1>9 DEF OneStream

(* The packets the worker has taken without the first.                      *)
IsTail(P2, P) == P # << >> /\ P2 = Tail(P)

LEMMA TailFacts ==
    ASSUME NEW P \in Seq(VoicePacket), NEW P2, IsTail(P2, P)
    PROVE  /\ P2 \in Seq(VoicePacket) /\ Len(P) \in Nat /\ 1 \in 1 .. Len(P) /\ Head(P) = P[1]
           /\ \A i \in 1 .. Len(P2) : i + 1 \in 1 .. Len(P) /\ P2[i] = P[i + 1] /\ i \in Nat
           /\ \A i \in 1 .. Len(P) : i = 1 \/ (i - 1 \in 1 .. Len(P2) /\ P2[i - 1] = P[i])
  BY DEF IsTail

LEMMA TailRemovals ==
    ASSUME NEW P \in Seq(VoicePacket), NEW P2, IsTail(P2, P), RemovalsFirst(P)
    PROVE  /\ RemovalsFirst(P2)
           /\ \A s : Removes(P2, s) => Removes(P, s)
           /\ \A s : Speaks(P2, s) => Speaks(P, s)
           /\ \A s : Removes(P, s) => Removes(P2, s) \/ (P[1].remove /\ P[1].speaker = s)
           /\ ~P[1].remove => ~Removes(P, P[1].speaker) /\ ~Removes(P2, P[1].speaker)
<1>1. RemovalsFirst(P2)
  <2> SUFFICES ASSUME NEW i \in 1 .. Len(P2), NEW j \in 1 .. Len(P2),
                      P2[i].remove, P2[j].speaker = P2[i].speaker, i # j
               PROVE  i < j
    BY DEF RemovalsFirst
  <2>1. /\ i + 1 \in 1 .. Len(P) /\ P2[i] = P[i + 1] /\ i \in Nat
        /\ j + 1 \in 1 .. Len(P) /\ P2[j] = P[j + 1] /\ j \in Nat
    BY TailFacts
  <2>2. i + 1 < j + 1
    BY <2>1 DEF RemovalsFirst
  <2> QED
    BY <2>1, <2>2
<1>a. \A i \in 1 .. Len(P2) : i + 1 \in 1 .. Len(P) /\ P2[i] = P[i + 1]
  BY TailFacts
<1>2. ASSUME NEW s, Removes(P2, s) PROVE Removes(P, s)
  <2>1. PICK i \in 1 .. Len(P2) : P2[i].remove /\ P2[i].speaker = s
    BY <1>2 DEF Removes
  <2>2. PICK j \in 1 .. Len(P) : P2[i] = P[j]
    BY <1>a
  <2>3. P[j].remove /\ P[j].speaker = s
    BY <2>1, <2>2
  <2> QED
    BY <2>3 DEF Removes
<1>3. ASSUME NEW s, Speaks(P2, s) PROVE Speaks(P, s)
  <2>1. PICK i \in 1 .. Len(P2) : ~P2[i].remove /\ P2[i].speaker = s
    BY <1>3 DEF Speaks
  <2>2. PICK j \in 1 .. Len(P) : P2[i] = P[j]
    BY <1>a
  <2>3. ~P[j].remove /\ P[j].speaker = s
    BY <2>1, <2>2
  <2> QED
    BY <2>3 DEF Speaks
<1>4. ASSUME NEW s, Removes(P, s) PROVE Removes(P2, s) \/ (P[1].remove /\ P[1].speaker = s)
  <2>1. PICK i \in 1 .. Len(P) : P[i].remove /\ P[i].speaker = s
    BY <1>4 DEF Removes
  <2>2. i = 1 \/ (i - 1 \in 1 .. Len(P2) /\ P2[i - 1] = P[i])
    BY TailFacts
  <2> QED
    BY <2>1, <2>2 DEF Removes
<1>5. ASSUME ~P[1].remove PROVE ~Removes(P, P[1].speaker)
  <2>1. 1 \in 1 .. Len(P)
    BY TailFacts
  <2>2. ASSUME NEW i \in 1 .. Len(P), P[i].remove, P[i].speaker = P[1].speaker PROVE FALSE
    <3>1. i # 1 /\ i \in Nat
      BY <1>5, <2>2, TailFacts
    <3>2. i < 1
      BY <2>1, <2>2, <3>1 DEF RemovalsFirst
    <3> QED
      BY <3>1, <3>2
  <2> QED
    BY <2>2 DEF Removes
<1> QED
  BY <1>1, <1>2, <1>3, <1>4, <1>5

(* The packets that are left, once the decoders are dealt with.             *)
LEMMA StreamTail ==
    ASSUME NEW Q \in Seq(VoicePacket), NEW P \in Seq(VoicePacket), NEW D \in Seq(VoiceDecoder),
           NEW G \in [Speaker -> Nat], OneStream(Q, P, D, G), NEW P2, IsTail(P2, P),
           NEW D2 \in Seq(VoiceDecoder),
           \A d \in 1 .. Len(D2) :
             /\ D2[d].generation <= G[D2[d].speaker]
             /\ ~Removes(P2, D2[d].speaker) =>
                  /\ \A i \in 1 .. Len(P) :
                       i # 1 /\ ~P[i].remove /\ P[i].speaker = D2[d].speaker => P[i].generation = D2[d].generation
                  /\ ~Current(D2[d], G) => Removes(Q, D2[d].speaker)
    PROVE  OneStream(Q, P2, D2, G)
<1>1. \A i \in 1 .. Len(P2) : i + 1 \in 1 .. Len(P) /\ P2[i] = P[i + 1] /\ i + 1 # 1
  <2>1. \A i \in 1 .. Len(P2) : i + 1 \in 1 .. Len(P) /\ P2[i] = P[i + 1] /\ i \in Nat
    BY TailFacts
  <2> QED
    BY <2>1
<1>2. RemovalsFirst(P2)
  BY TailRemovals DEF OneStream
<1>3. ASSUME NEW i \in 1 .. Len(P2), NEW j \in 1 .. Len(P2),
             ~P2[i].remove /\ ~P2[j].remove /\ P2[i].speaker = P2[j].speaker
      PROVE  P2[i].generation = P2[j].generation
  <2>1. PICK k \in 1 .. Len(P) : k = i + 1 /\ P2[i] = P[k]
    BY <1>1
  <2>2. PICK h \in 1 .. Len(P) : h = j + 1 /\ P2[j] = P[h]
    BY <1>1
  <2>3. ~P[k].remove /\ ~P[h].remove /\ P[k].speaker = P[h].speaker => P[k].generation = P[h].generation
    <3>1. \A x, y \in 1 .. Len(P) :
             ~P[x].remove /\ ~P[y].remove /\ P[x].speaker = P[y].speaker => P[x].generation = P[y].generation
      BY Zenon DEF OneStream
    <3> QED
      BY <3>1
  <2>4. ~P[k].remove /\ ~P[h].remove /\ P[k].speaker = P[h].speaker
    BY <1>3, <2>1, <2>2
  <2> QED
    BY <2>1, <2>2, <2>3, <2>4
<1>4. ASSUME NEW i \in 1 .. Len(P2), ~P2[i].remove
      PROVE  P2[i].generation <= G[P2[i].speaker] /\ (~Current(P2[i], G) => Removes(Q, P2[i].speaker))
  BY <1>1, <1>4 DEF OneStream
<1>5. ASSUME NEW d \in 1 .. Len(D2), ~Removes(P2, D2[d].speaker), NEW i \in 1 .. Len(P2),
             ~P2[i].remove, P2[i].speaker = D2[d].speaker
      PROVE  P2[i].generation = D2[d].generation
  BY <1>1, <1>5
<1> QED
  BY <1>2, <1>3, <1>4, <1>5 DEF OneStream

LEMMA StreamDrop ==
    ASSUME NEW Q \in Seq(VoicePacket), NEW P \in Seq(VoicePacket), NEW D \in Seq(VoiceDecoder),
           NEW G \in [Speaker -> Nat], OneStream(Q, P, D, G), NEW P2, IsTail(P2, P), ~P[1].remove
    PROVE  OneStream(Q, P2, D, G)
<1>1. \A s : Removes(P, s) => Removes(P2, s)
  BY TailRemovals DEF OneStream
<1>2. ASSUME NEW d \in 1 .. Len(D)
      PROVE  /\ D[d].generation <= G[D[d].speaker]
             /\ ~Removes(P2, D[d].speaker) =>
                  /\ \A i \in 1 .. Len(P) :
                       i # 1 /\ ~P[i].remove /\ P[i].speaker = D[d].speaker => P[i].generation = D[d].generation
                  /\ ~Current(D[d], G) => Removes(Q, D[d].speaker)
  BY <1>1 DEF OneStream
<1> QED
  BY <1>2, StreamTail

LEMMA StreamRemoveDecoder ==
    ASSUME NEW Q \in Seq(VoicePacket), NEW P \in Seq(VoicePacket), NEW D \in Seq(VoiceDecoder),
           NEW G \in [Speaker -> Nat], OneStream(Q, P, D, G), NEW P2, IsTail(P2, P), P[1].remove,
           NEW D2 \in Seq(VoiceDecoder), Thinned(D2, D, {d \in 1 .. Len(D) : D[d].speaker # P[1].speaker})
    PROVE  OneStream(Q, P2, D2, G)
<1> DEFINE I == {d \in 1 .. Len(D) : D[d].speaker # P[1].speaker}
<1>1. PICK m \in [1 .. Len(D2) -> I] : \A d \in 1 .. Len(D2) : D2[d] = D[m[d]]
  BY DEF Thinned
<1>2. \A d \in 1 .. Len(D2) : m[d] \in 1 .. Len(D) /\ D[m[d]].speaker # P[1].speaker
  OBVIOUS
<1>3. \A s : Removes(P, s) => Removes(P2, s) \/ P[1].speaker = s
  BY TailRemovals DEF OneStream
<1>4. ASSUME NEW d \in 1 .. Len(D2)
      PROVE  /\ D2[d].generation <= G[D2[d].speaker]
             /\ ~Removes(P2, D2[d].speaker) =>
                  /\ \A i \in 1 .. Len(P) :
                       i # 1 /\ ~P[i].remove /\ P[i].speaker = D2[d].speaker => P[i].generation = D2[d].generation
                  /\ ~Current(D2[d], G) => Removes(Q, D2[d].speaker)
  <2>1. m[d] \in 1 .. Len(D) /\ D2[d] = D[m[d]] /\ D2[d].speaker # P[1].speaker
    BY <1>1, <1>2
  <2>2. Removes(P, D2[d].speaker) => Removes(P2, D2[d].speaker)
    BY <1>3, <2>1
  <2>3. PICK k \in 1 .. Len(D) : k = m[d]
    BY <2>1
  <2>4. /\ D[k].generation <= G[D[k].speaker]
        /\ ~Removes(P, D[k].speaker) =>
             /\ \A i \in 1 .. Len(P) :
                  ~P[i].remove /\ P[i].speaker = D[k].speaker => P[i].generation = D[k].generation
             /\ ~Current(D[k], G) => Removes(Q, D[k].speaker)
    BY DEF OneStream
  <2>5. D2[d] = D[k]
    BY <2>1, <2>3
  <2> QED
    BY <2>2, <2>4, <2>5
<1> QED
  BY <1>4, StreamTail

LEMMA StreamMakeDecoder ==
    ASSUME NEW Q \in Seq(VoicePacket), NEW P \in Seq(VoicePacket), NEW D \in Seq(VoiceDecoder),
           NEW G \in [Speaker -> Nat], OneStream(Q, P, D, G), NEW P2, IsTail(P2, P), ~P[1].remove,
           NEW D2, D2 = Append(D, [speaker |-> P[1].speaker, generation |-> P[1].generation])
    PROVE  OneStream(Q, P2, D2, G) /\ D2 \in Seq(VoiceDecoder)
<1> DEFINE e == [speaker |-> P[1].speaker, generation |-> P[1].generation]
<1>1. 1 \in 1 .. Len(P)
  BY TailFacts
<1>2. e \in VoiceDecoder /\ e.speaker = P[1].speaker /\ e.generation = P[1].generation
  BY <1>1, EntryType DEF VoiceDecoder
<1> HIDE DEF e
<1>3. /\ D2 \in Seq(VoiceDecoder)
      /\ \A d \in 1 .. Len(D2) : D2[d] = e \/ (d \in 1 .. Len(D) /\ D2[d] = D[d])
  BY <1>2 DEF e
<1>4. /\ \A s : Removes(P, s) => Removes(P2, s)
      /\ ~Removes(P, P[1].speaker)
  BY TailRemovals DEF OneStream
<1>5. ASSUME NEW d \in 1 .. Len(D2)
      PROVE  /\ D2[d].generation <= G[D2[d].speaker]
             /\ ~Removes(P2, D2[d].speaker) =>
                  /\ \A i \in 1 .. Len(P) :
                       i # 1 /\ ~P[i].remove /\ P[i].speaker = D2[d].speaker => P[i].generation = D2[d].generation
                  /\ ~Current(D2[d], G) => Removes(Q, D2[d].speaker)
  <2>1. CASE d \in 1 .. Len(D) /\ D2[d] = D[d]
    BY <1>4, <2>1 DEF OneStream
  <2>2. CASE D2[d] = e
    <3>1. /\ P[1].generation <= G[P[1].speaker]
          /\ ~Current(P[1], G) => Removes(Q, P[1].speaker)
      BY <1>1 DEF OneStream
    <3>2. Current(D2[d], G) <=> Current(P[1], G)
      BY <1>2, <2>2 DEF Current
    <3>3. \A i \in 1 .. Len(P) :
            i # 1 /\ ~P[i].remove /\ P[i].speaker = D2[d].speaker => P[i].generation = D2[d].generation
      BY <1>1, <1>2, <2>2 DEF OneStream
    <3> QED
      BY <1>2, <2>2, <3>1, <3>2, <3>3
  <2> QED
    BY <1>3, <2>1, <2>2
<1> QED
  BY <1>3, <1>5, StreamTail

-----------------------------------------------------------------------------
(* Room is kept by each effect.                                             *)

(* What goes with the queued packets that stay.                             *)
DepartedStay(Q, I, G, R, G2, R2) ==
  \A s \in Speaker : Departed(s, G, R) =>
    /\ Departed(s, G2, R2)
    /\ \A k \in 1 .. Len(Q) : Q[k].remove /\ Q[k].speaker = s => k \in I

LEMMA RoomKept ==
    ASSUME NEW Q \in Seq(VoicePacket), NEW P, NEW D, NEW G, NEW R, NEW G2, NEW R2,
           NEW Q2 \in Seq(VoicePacket), NEW l \in Nat, l <= Len(Q2), NEW I \in SUBSET (1 .. Len(Q)),
           Placed(Q2, l, Q, I), DepartedStay(Q, I, G, R, G2, R2), Room(Q, P, D, G, R),
           NEW j \in 1 .. l, ~Q2[j].remove
    PROVE  RoomForQueued(Q2, P, D, G2, R2, j)
<1>m. PICK m \in [1 .. l -> I] :
        /\ \A i \in 1 .. l : m[i] \in 1 .. Len(Q) /\ m[i] \in I /\ Q2[i] = Q[m[i]]
        /\ \A i, h \in 1 .. l : i < h => m[i] < m[h]
        /\ \A k \in I : \E i \in 1 .. l : m[i] = k
  BY DEF Placed
<1>r. RoomForQueued(Q, P, D, G, R, m[j])
  BY <1>m DEF Room
<1>0. Len(Q2) \in Nat /\ Len(Q) \in Nat /\ \A i \in 1 .. l : i \in 1 .. Len(Q2) /\ i \in Nat
  OBVIOUS
<1>1. PICK B \in SUBSET Speaker :
        /\ Crowd(B)
        /\ Q[m[j]].speaker \in B
        /\ \A s \in Speaker \ B :
             /\ SilentBefore(Q, s, m[j])
             /\ MayHaveDecoder(P, D, s) => Departed(s, G, R) /\ RemovedBefore(Q, s, m[j])
  BY <1>r DEF RoomForQueued
<1>2. ASSUME NEW s \in Speaker \ B PROVE SilentBefore(Q2, s, j)
  <2> SUFFICES ASSUME NEW i \in 1 .. Len(Q2), i < j, Q2[i].speaker = s PROVE Q2[i].remove
    BY DEF SilentBefore
  <2>1. i \in 1 .. l
    BY <1>0
  <2>2. m[i] < m[j] /\ m[i] \in 1 .. Len(Q) /\ Q2[i] = Q[m[i]]
    BY <1>m, <2>1
  <2> QED
    BY <1>1, <2>2 DEF SilentBefore
<1>3. ASSUME NEW s \in Speaker \ B, MayHaveDecoder(P, D, s)
      PROVE  Departed(s, G2, R2) /\ RemovedBefore(Q2, s, j)
  <2>1. Departed(s, G, R) /\ RemovedBefore(Q, s, m[j])
    BY <1>1, <1>3
  <2>2. PICK k \in 1 .. Len(Q) : k < m[j] /\ Q[k].remove /\ Q[k].speaker = s
    BY <2>1 DEF RemovedBefore
  <2>3. k \in I
    BY <2>1, <2>2 DEF DepartedStay
  <2>4. PICK i \in 1 .. l : m[i] = k
    BY <1>m, <2>3
  <2>5. i < j
    <3>1. CASE j < i
      <4>1. m[j] < m[i] /\ m[j] \in 1 .. Len(Q)
        BY <1>m, <3>1
      <4> QED
        BY <1>0, <2>2, <2>4, <4>1
    <3>2. CASE j = i
      <4>1. m[j] \in 1 .. Len(Q)
        BY <1>m
      <4> QED
        BY <1>0, <2>2, <2>4, <3>2, <4>1
    <3> QED
      BY <1>0, <3>1, <3>2
  <2>6. i \in 1 .. Len(Q2) /\ Q2[i] = Q[k]
    BY <1>0, <1>m, <2>4
  <2> QED
    BY <2>1, <2>2, <2>5, <2>6 DEF RemovedBefore, DepartedStay
<1>4. Q2[j].speaker \in B
  BY <1>1, <1>m
<1> QED
  BY <1>1, <1>2, <1>3, <1>4 DEF RoomForQueued

(* A speaker that is not present may have a decoder when the packets that   *)
(* were taken are worked off only if it has departed and its removal is     *)
(* still queued.                                                            *)
LEMMA AbsentHaveRemovals ==
    ASSUME NEW Q \in Seq(VoicePacket), NEW P \in Seq(VoicePacket), NEW D \in Seq(VoiceDecoder),
           NEW G \in [Speaker -> Nat], NEW R, OneStream(Q, P, D, G), DepartedAreSilent(Q, P, D, G, R),
           NEW s \in Speaker \ R, MayHaveDecoder(P, D, s)
    PROVE  Departed(s, G, R) /\ Removes(Q, s)
<1>1. CASE Speaks(P, s)
  <2>1. PICK i \in 1 .. Len(P) : ~P[i].remove /\ P[i].speaker = s
    BY <1>1 DEF Speaks
  <2>2. P[i].generation \in Nat /\ G[s] \in Nat
    BY EntryType
  <2>3. P[i].generation <= G[s] /\ ~Current(P[i], G) /\ Removes(Q, s)
    BY <2>1 DEF OneStream, DepartedAreSilent
  <2> QED
    BY <2>1, <2>2, <2>3 DEF Current, Departed
<1>2. CASE HasDecoder(D, s) /\ ~Removes(P, s)
  <2>1. PICK d \in 1 .. Len(D) : D[d].speaker = s
    BY <1>2 DEF HasDecoder
  <2>2. D[d].generation \in Nat /\ G[s] \in Nat
    BY DecoderType
  <2>3. D[d].generation <= G[s] /\ ~Current(D[d], G) /\ Removes(Q, s)
    BY <1>2, <2>1 DEF OneStream, DepartedAreSilent
  <2> QED
    BY <2>1, <2>2, <2>3 DEF Current, Departed
<1> QED
  BY <1>1, <1>2 DEF MayHaveDecoder

LEMMA RoomSubmit ==
    ASSUME MaxSpeakers \in Nat,
           NEW Q \in Seq(VoicePacket), NEW P \in Seq(VoicePacket), NEW D \in Seq(VoiceDecoder),
           NEW G \in [Speaker -> Nat], NEW R, OneStream(Q, P, D, G), Room(Q, P, D, G, R),
           NEW w \in Seq(VoicePacket), NEW I \in SUBSET (1 .. Len(Q)), Thinned(w, Q, I),
           \A i \in 1 .. Len(Q) : Q[i].remove => i \in I,
           NEW p \in VoicePacket, ~p.remove, Current(p, G), NEW Q2, IsAppended(Q2, w, p),
           p.speaker \in R \/ (G[p.speaker] = 0 /\ Cardinality(R) < MaxSpeakers - 1),
           NEW R2, R2 = R \cup {p.speaker}
    PROVE  Room(Q2, P, D, G, R2)
<1> DEFINE l == Len(w) + 1
<1>0. p.speaker \in Speaker
  BY DEF VoicePacket
<1>1. Placed(Q2, Len(w), Q, I)
  BY Appended
<1>2. PICK m \in [1 .. Len(w) -> I] :
        /\ \A i \in 1 .. Len(w) : m[i] \in 1 .. Len(Q) /\ m[i] \in I /\ Q2[i] = Q[m[i]]
        /\ \A i, j \in 1 .. Len(w) : i < j => m[i] < m[j]
        /\ \A k \in I : \E i \in 1 .. Len(w) : m[i] = k
  BY <1>1 DEF Placed
<1>3. /\ Q2 \in Seq(VoicePacket) /\ Len(Q2) = l /\ Len(w) \in Nat /\ Q2[l] = p
      /\ \A j \in 1 .. Len(Q2) : j = l \/ j \in 1 .. Len(w)
      /\ \A j \in 1 .. Len(w) : j \in 1 .. Len(Q2) /\ j < l
  BY AppendedLength
<1>4. Len(w) <= Len(Q2)
  BY <1>3
<1> HIDE DEF l
<1>5. Crowd(R2)
  <2>1. Crowd(R)
    BY DEF Room
  <2>2. /\ IsFiniteSet(R2)
        /\ Cardinality(R2) = IF p.speaker \in R THEN Cardinality(R) ELSE Cardinality(R) + 1
    BY <2>1, FS_AddElement DEF Crowd
  <2>3. Cardinality(R) \in Nat
    BY <2>1, FS_CardinalityType DEF Crowd
  <2> QED
    BY <1>0, <2>1, <2>2, <2>3 DEF Crowd
<1>6. DepartedAreSilent(Q2, P, D, G, R2)
  <2> SUFFICES ASSUME NEW s \in Speaker \ R2
               PROVE  /\ ~Speaks(Q2, s)
                      /\ \A i \in 1 .. Len(P) : ~P[i].remove /\ P[i].speaker = s => ~Current(P[i], G)
                      /\ \A d \in 1 .. Len(D) : D[d].speaker = s => ~Current(D[d], G)
    BY DEF DepartedAreSilent
  <2>1. s \in Speaker \ R /\ s # p.speaker
    OBVIOUS
  <2>2. /\ ~Speaks(Q, s)
        /\ \A i \in 1 .. Len(P) : ~P[i].remove /\ P[i].speaker = s => ~Current(P[i], G)
        /\ \A d \in 1 .. Len(D) : D[d].speaker = s => ~Current(D[d], G)
    BY <2>1 DEF Room, DepartedAreSilent
  <2>3. ~Speaks(Q2, s)
    <3> SUFFICES ASSUME NEW i \in 1 .. Len(Q2), ~Q2[i].remove, Q2[i].speaker = s PROVE FALSE
      BY DEF Speaks
    <3>1. i \in 1 .. Len(w)
      BY <1>3, <2>1
    <3> QED
      BY <1>2, <2>2, <3>1 DEF Speaks
  <2> QED
    BY <2>2, <2>3
<1>7. ASSUME NEW s \in Speaker, Departed(s, G, R) PROVE Departed(s, G, R2)
  BY <1>7 DEF Departed
<1>8. ASSUME NEW j \in 1 .. Len(Q2), ~Q2[j].remove PROVE RoomForQueued(Q2, P, D, G, R2, j)
  <2>1. CASE j \in 1 .. Len(w)
    <3>1. DepartedStay(Q, I, G, R, G, R2)
      BY <1>7 DEF DepartedStay
    <3> QED
      BY <1>1, <1>3, <1>4, <1>8, <2>1, <3>1, RoomKept
  <2>2. CASE j = l
    <3>1. ASSUME NEW s \in Speaker \ R2 PROVE SilentBefore(Q2, s, j)
      BY <1>6, <3>1 DEF SilentBefore, DepartedAreSilent, Speaks
    <3>2. ASSUME NEW s \in Speaker \ R2, MayHaveDecoder(P, D, s)
          PROVE  Departed(s, G, R2) /\ RemovedBefore(Q2, s, j)
      <4>1. Departed(s, G, R) /\ Removes(Q, s)
        <5>1. s \in Speaker \ R /\ DepartedAreSilent(Q, P, D, G, R)
          BY DEF Room
        <5> QED
          BY <3>2, <5>1, AbsentHaveRemovals
      <4>2. PICK k \in 1 .. Len(Q) : Q[k].remove /\ Q[k].speaker = s
        BY <4>1 DEF Removes
      <4>3. PICK i \in 1 .. Len(w) : m[i] = k
        BY <1>2, <4>2
      <4>4. i \in 1 .. Len(Q2) /\ i < j /\ Q2[i] = Q[k]
        BY <1>2, <1>3, <2>2, <4>3
      <4> QED
        BY <1>7, <4>1, <4>2, <4>4 DEF RemovedBefore
    <3>3. Q2[j].speaker \in R2 /\ R2 \in SUBSET Speaker
      BY <1>3, <1>5, <2>2 DEF Crowd
    <3> QED
      BY <1>5, <3>1, <3>2, <3>3 DEF RoomForQueued
  <2> QED
    BY <1>3, <2>1, <2>2
<1> QED
  BY <1>5, <1>6, <1>8 DEF Room

(* A packet may be refused by a queue full of removals.                     *)
LEMMA RoomRefused ==
    ASSUME MaxSpeakers \in Nat,
           NEW Q \in Seq(VoicePacket), NEW P \in Seq(VoicePacket), NEW D \in Seq(VoiceDecoder),
           NEW G \in [Speaker -> Nat], NEW R, Room(Q, P, D, G, R), NEW t \in Speaker,
           t \in R \/ (G[t] = 0 /\ Cardinality(R) < MaxSpeakers - 1),
           NEW R2, R2 = R \cup {t}
    PROVE  Room(Q, P, D, G, R2)
<1>1. Crowd(R2)
  <2>1. Crowd(R)
    BY DEF Room
  <2>2. /\ IsFiniteSet(R2)
        /\ Cardinality(R2) = IF t \in R THEN Cardinality(R) ELSE Cardinality(R) + 1
    BY <2>1, FS_AddElement DEF Crowd
  <2>3. Cardinality(R) \in Nat
    BY <2>1, FS_CardinalityType DEF Crowd
  <2> QED
    BY <2>1, <2>2, <2>3 DEF Crowd
<1>2. DepartedAreSilent(Q, P, D, G, R2)
  BY DEF Room, DepartedAreSilent
<1>3. \A s \in Speaker : Departed(s, G, R) => Departed(s, G, R2)
  BY DEF Departed
<1>4. ASSUME NEW j \in 1 .. Len(Q), RoomForQueued(Q, P, D, G, R, j) PROVE RoomForQueued(Q, P, D, G, R2, j)
  BY <1>3, <1>4 DEF RoomForQueued
<1> QED
  BY <1>1, <1>2, <1>4 DEF Room

LEMMA RoomRemove ==
    ASSUME MaxSpeakers \in Nat,
           NEW Q \in Seq(VoicePacket), NEW P \in Seq(VoicePacket), NEW D \in Seq(VoiceDecoder),
           NEW G \in [Speaker -> Nat], NEW R, OneStream(Q, P, D, G), Room(Q, P, D, G, R),
           NEW w \in Seq(VoicePacket), NEW p \in VoicePacket, p.remove,
           Thinned(w, Q, {i \in 1 .. Len(Q) : Q[i].speaker # p.speaker}),
           NEW Q2, IsAppended(Q2, w, p), NEW G2, G2 = [G EXCEPT ![p.speaker] = @ + 1],
           p.speaker \in R \/ (G[p.speaker] = 0 /\ Cardinality(R) < MaxSpeakers - 1),
           NEW R2, R2 = R \cup {p.speaker} \/ R2 = R \ {p.speaker}
    PROVE  Room(Q2, P, D, G2, R2)
<1> DEFINE l == Len(w) + 1
           t == p.speaker
           I == {i \in 1 .. Len(Q) : Q[i].speaker # t}
<1>0. /\ t \in Speaker /\ I \in SUBSET (1 .. Len(Q)) /\ Thinned(w, Q, I)
      /\ \A i \in I : Q[i].speaker # t
      /\ \A i \in 1 .. Len(Q) : Q[i].speaker # t => i \in I
  BY DEF VoicePacket
<1>a. /\ G2[t] = G[t] + 1 /\ G[t] \in Nat
      /\ \A s \in Speaker : s # t => G2[s] = G[s]
  BY <1>0
<1>3. /\ Q2 \in Seq(VoicePacket) /\ Len(Q2) = l /\ Len(w) \in Nat /\ Q2[l] = p
      /\ \A j \in 1 .. Len(Q2) : j = l \/ j \in 1 .. Len(w)
      /\ \A j \in 1 .. Len(w) : j \in 1 .. Len(Q2) /\ j < l
  BY AppendedLength
<1>4. Len(w) <= Len(Q2)
  BY <1>3
<1>p. p.speaker = t /\ p.remove
  OBVIOUS
<1>q. /\ t \in R \/ (G[t] = 0 /\ Cardinality(R) < MaxSpeakers - 1)
      /\ R2 = R \cup {t} \/ R2 = R \ {t}
  OBVIOUS
<1> HIDE DEF l, t, I
<1>1. Placed(Q2, Len(w), Q, I)
  BY <1>0, Appended
<1>2. PICK m \in [1 .. Len(w) -> I] :
        /\ \A i \in 1 .. Len(w) : m[i] \in 1 .. Len(Q) /\ m[i] \in I /\ Q2[i] = Q[m[i]]
        /\ \A i, j \in 1 .. Len(w) : i < j => m[i] < m[j]
        /\ \A k \in I : \E i \in 1 .. Len(w) : m[i] = k
  BY <1>1 DEF Placed
<1>5. Crowd(R2)
  <2>1. Crowd(R)
    BY DEF Room
  <2>2. /\ IsFiniteSet(R \cup {t}) /\ IsFiniteSet(R \ {t})
        /\ Cardinality(R \cup {t}) = IF t \in R THEN Cardinality(R) ELSE Cardinality(R) + 1
        /\ Cardinality(R \ {t}) = IF t \in R THEN Cardinality(R) - 1 ELSE Cardinality(R)
    BY <2>1, FS_AddElement, FS_RemoveElement DEF Crowd
  <2>3. Cardinality(R) \in Nat
    BY <2>1, FS_CardinalityType DEF Crowd
  <2>4. R2 \in SUBSET Speaker
    BY <1>0, <1>q, <2>1 DEF Crowd
  <2>c. Cardinality(R) < MaxSpeakers
    BY <2>1 DEF Crowd
  <2>d. Cardinality(R \cup {t}) < MaxSpeakers
    BY <1>q, <2>2, <2>3, <2>c
  <2>e. Cardinality(R \ {t}) < MaxSpeakers
    BY <2>2, <2>3, <2>c
  <2>5. IsFiniteSet(R2) /\ Cardinality(R2) < MaxSpeakers
    <3>1. CASE R2 = R \cup {t}
      BY <2>2, <2>d, <3>1
    <3>2. CASE R2 = R \ {t}
      BY <2>2, <2>e, <3>2
    <3> QED
      BY <1>q, <3>1, <3>2
  <2> QED
    BY <2>4, <2>5 DEF Crowd
<1>6. DepartedAreSilent(Q2, P, D, G2, R2)
  <2> SUFFICES ASSUME NEW s \in Speaker \ R2
               PROVE  /\ ~Speaks(Q2, s)
                      /\ \A i \in 1 .. Len(P) : ~P[i].remove /\ P[i].speaker = s => ~Current(P[i], G2)
                      /\ \A d \in 1 .. Len(D) : D[d].speaker = s => ~Current(D[d], G2)
    BY DEF DepartedAreSilent
  <2>1. CASE s # t
    <3>1. s \in Speaker \ R /\ G2[s] = G[s]
      BY <1>a, <1>q, <2>1
    <3>2. /\ ~Speaks(Q, s)
          /\ \A i \in 1 .. Len(P) : ~P[i].remove /\ P[i].speaker = s => ~Current(P[i], G)
          /\ \A d \in 1 .. Len(D) : D[d].speaker = s => ~Current(D[d], G)
      BY <3>1 DEF Room, DepartedAreSilent
    <3>3. ~Speaks(Q2, s)
      <4> SUFFICES ASSUME NEW i \in 1 .. Len(Q2), ~Q2[i].remove, Q2[i].speaker = s PROVE FALSE
        BY DEF Speaks
      <4>1. i \in 1 .. Len(w)
        BY <1>3
      <4> QED
        BY <1>2, <3>2, <4>1 DEF Speaks
    <3> QED
      BY <3>1, <3>2, <3>3 DEF Current
  <2>2. CASE s = t
    <3>1. ~Speaks(Q2, t)
      <4> SUFFICES ASSUME NEW i \in 1 .. Len(Q2), ~Q2[i].remove, Q2[i].speaker = t PROVE FALSE
        BY DEF Speaks
      <4>1. i \in 1 .. Len(w)
        BY <1>3
      <4> QED
        BY <1>0, <1>2, <4>1
    <3>2. ASSUME NEW i \in 1 .. Len(P), ~P[i].remove, P[i].speaker = t PROVE ~Current(P[i], G2)
      <4>1. P[i].generation <= G[t] /\ P[i].generation \in Nat
        BY <3>2, EntryType DEF OneStream
      <4> QED
        BY <1>a, <3>2, <4>1 DEF Current
    <3>3. ASSUME NEW d \in 1 .. Len(D), D[d].speaker = t PROVE ~Current(D[d], G2)
      <4>1. D[d].generation <= G[t] /\ D[d].generation \in Nat
        BY <3>3, DecoderType DEF OneStream
      <4> QED
        BY <1>a, <3>3, <4>1 DEF Current
    <3> QED
      BY <2>2, <3>1, <3>2, <3>3
  <2> QED
    BY <2>1, <2>2
<1>7. ASSUME NEW s \in Speaker, Departed(s, G, R) PROVE Departed(s, G2, R2) /\ s # t
  <2>1. s # t
    BY <1>7, <1>a, <1>q DEF Departed
  <2> QED
    BY <1>7, <1>a, <1>q, <2>1 DEF Departed
<1>8. ASSUME NEW j \in 1 .. Len(Q2), ~Q2[j].remove PROVE RoomForQueued(Q2, P, D, G2, R2, j)
  <2>1. j \in 1 .. Len(w)
    BY <1>3, <1>8
  <2>2. DepartedStay(Q, I, G, R, G2, R2)
    BY <1>0, <1>7 DEF DepartedStay
  <2> QED
    BY <1>0, <1>1, <1>3, <1>4, <1>8, <2>1, <2>2, RoomKept
<1> QED
  BY <1>5, <1>6, <1>8 DEF Room

LEMMA RoomTake ==
    ASSUME NEW Q \in Seq(VoicePacket), NEW D \in Seq(VoiceDecoder),
           NEW G \in [Speaker -> Nat], NEW R, Room(Q, << >>, D, G, R)
    PROVE  Room(<< >>, Q, D, G, R)
<1>1. Len(<< >>) = 0 /\ 1 .. 0 = {} /\ \A s : ~Removes(<< >>, s) /\ ~Speaks(<< >>, s)
  BY DEF Removes, Speaks
<1>2. DepartedAreSilent(<< >>, Q, D, G, R)
  BY <1>1 DEF Room, DepartedAreSilent, Speaks
<1>3. ASSUME NEW j \in 1 .. Len(Q), ~Q[j].remove PROVE RoomForTaken(Q, D, j)
  <2>1. RoomForQueued(Q, << >>, D, G, R, j)
    BY <1>3 DEF Room
  <2> QED
    BY <1>1, <2>1 DEF RoomForQueued, RoomForTaken, MayHaveDecoder
<1> QED
  BY <1>1, <1>2, <1>3 DEF Room

(* The packets that are left, once the decoders are dealt with.             *)
LEMMA RoomTail ==
    ASSUME NEW Q \in Seq(VoicePacket), NEW P \in Seq(VoicePacket), NEW D \in Seq(VoiceDecoder),
           NEW G \in [Speaker -> Nat], NEW R, OneStream(Q, P, D, G), Room(Q, P, D, G, R),
           NEW P2, IsTail(P2, P), NEW D2 \in Seq(VoiceDecoder), OneDecoderEach(D2),
           \A s : HasDecoder(D2, s) =>
             IF P[1].remove THEN HasDecoder(D, s) /\ s # P[1].speaker
             ELSE HasDecoder(D, s) \/ s = P[1].speaker,
           \A s \in Speaker \ R : \A d \in 1 .. Len(D2) : D2[d].speaker = s => ~Current(D2[d], G)
    PROVE  Room(Q, P2, D2, G, R)
<1>1. /\ \A s : Speaks(P2, s) => Speaks(P, s)
      /\ \A s : Removes(P, s) => Removes(P2, s) \/ (P[1].remove /\ P[1].speaker = s)
  BY TailRemovals DEF OneStream
<1>2. /\ 1 \in 1 .. Len(P) /\ P2 \in Seq(VoicePacket)
      /\ \A i \in 1 .. Len(P2) : i + 1 \in 1 .. Len(P) /\ P2[i] = P[i + 1] /\ i \in Nat
      /\ \A i \in 1 .. Len(P) : i = 1 \/ (i - 1 \in 1 .. Len(P2) /\ P2[i - 1] = P[i])
  BY TailFacts
<1>3. DepartedAreSilent(Q, P2, D2, G, R)
  BY <1>2 DEF Room, DepartedAreSilent
<1>4. ASSUME NEW s, MayHaveDecoder(P2, D2, s) PROVE MayHaveDecoder(P, D, s)
  <2>1. CASE Speaks(P2, s)
    BY <1>1, <2>1 DEF MayHaveDecoder
  <2>2. CASE HasDecoder(D2, s) /\ ~Removes(P2, s)
    <3>1. CASE HasDecoder(D, s)
      BY <1>1, <2>2, <3>1 DEF MayHaveDecoder
    <3>2. CASE ~HasDecoder(D, s)
      <4>1. ~P[1].remove /\ s = P[1].speaker
        BY <2>2, <3>2
      <4> QED
        BY <1>2, <4>1 DEF MayHaveDecoder, Speaks
    <3> QED
      BY <3>1, <3>2
  <2> QED
    BY <1>4, <2>1, <2>2 DEF MayHaveDecoder
<1>5. ASSUME NEW j \in 1 .. Len(P2), ~P2[j].remove PROVE RoomForTaken(P2, D2, j)
  <2>1. j + 1 \in 1 .. Len(P) /\ P2[j] = P[j + 1] /\ j \in Nat /\ j >= 1
    BY <1>2
  <2>2. RoomForTaken(P, D, j + 1)
    BY <1>5, <2>1 DEF Room
  <2>3. PICK B \in SUBSET Speaker :
          /\ Crowd(B)
          /\ P[j + 1].speaker \in B
          /\ \A s \in Speaker \ B :
               SilentBefore(P, s, j + 1) /\ (HasDecoder(D, s) => RemovedBefore(P, s, j + 1))
    BY <2>2 DEF RoomForTaken
  <2>4. ASSUME NEW s \in Speaker \ B PROVE SilentBefore(P2, s, j)
    <3> SUFFICES ASSUME NEW i \in 1 .. Len(P2), i < j, P2[i].speaker = s PROVE P2[i].remove
      BY DEF SilentBefore
    <3>1. i + 1 \in 1 .. Len(P) /\ P2[i] = P[i + 1] /\ i \in Nat
      BY <1>2
    <3>2. i + 1 < j + 1
      BY <2>1, <3>1
    <3>3. SilentBefore(P, s, j + 1)
      BY <2>3
    <3> QED
      BY <3>1, <3>2, <3>3 DEF SilentBefore
  <2>5. ASSUME NEW s \in Speaker \ B, HasDecoder(D2, s) PROVE RemovedBefore(P2, s, j)
    <3>1. HasDecoder(D, s) /\ ~(P[1].remove /\ s = P[1].speaker)
      <4>1. 1 < j + 1
        BY <2>1
      <4>2. SilentBefore(P, s, j + 1)
        BY <2>3
      <4>3. s = P[1].speaker => P[1].remove
        BY <1>2, <4>1, <4>2 DEF SilentBefore
      <4> QED
        BY <2>5, <4>3
    <3>2. PICK i \in 1 .. Len(P) : i < j + 1 /\ P[i].remove /\ P[i].speaker = s
      BY <2>3, <3>1 DEF RemovedBefore
    <3>3. i # 1 /\ i \in Nat
      BY <3>1, <3>2
    <3>4. i - 1 \in 1 .. Len(P2) /\ P2[i - 1] = P[i]
      BY <1>2, <3>3
    <3>5. i - 1 < j
      BY <2>1, <3>2, <3>3
    <3> QED
      BY <3>2, <3>4, <3>5 DEF RemovedBefore
  <2> QED
    BY <2>1, <2>3, <2>4, <2>5 DEF RoomForTaken
<1>6. ASSUME NEW j \in 1 .. Len(Q), ~Q[j].remove PROVE RoomForQueued(Q, P2, D2, G, R, j)
  <2>1. RoomForQueued(Q, P, D, G, R, j)
    BY <1>6 DEF Room
  <2> QED
    BY <1>4, <2>1 DEF RoomForQueued
<1> QED
  BY <1>3, <1>5, <1>6 DEF Room

LEMMA RoomDrop ==
    ASSUME NEW Q \in Seq(VoicePacket), NEW P \in Seq(VoicePacket), NEW D \in Seq(VoiceDecoder),
           NEW G \in [Speaker -> Nat], NEW R, OneStream(Q, P, D, G), Room(Q, P, D, G, R),
           NEW P2, IsTail(P2, P), ~P[1].remove
    PROVE  Room(Q, P2, D, G, R)
<1>1. /\ OneDecoderEach(D)
      /\ \A s \in Speaker \ R : \A d \in 1 .. Len(D) : D[d].speaker = s => ~Current(D[d], G)
  BY DEF Room, DepartedAreSilent
<1> QED
  BY <1>1, RoomTail

LEMMA RoomRemoveDecoder ==
    ASSUME NEW Q \in Seq(VoicePacket), NEW P \in Seq(VoicePacket), NEW D \in Seq(VoiceDecoder),
           NEW G \in [Speaker -> Nat], NEW R, OneStream(Q, P, D, G), Room(Q, P, D, G, R),
           NEW P2, IsTail(P2, P), P[1].remove,
           NEW D2 \in Seq(VoiceDecoder), Thinned(D2, D, {d \in 1 .. Len(D) : D[d].speaker # P[1].speaker})
    PROVE  Room(Q, P2, D2, G, R)
<1> DEFINE I == {d \in 1 .. Len(D) : D[d].speaker # P[1].speaker}
<1>1. PICK m \in [1 .. Len(D2) -> I] :
        /\ \A d \in 1 .. Len(D2) : D2[d] = D[m[d]]
        /\ \A i, j \in 1 .. Len(D2) : i < j => m[i] < m[j]
  BY DEF Thinned
<1>2. \A d \in 1 .. Len(D2) : m[d] \in 1 .. Len(D) /\ D2[d] = D[m[d]] /\ D2[d].speaker # P[1].speaker
  <2>1. \A d \in 1 .. Len(D2) : m[d] \in 1 .. Len(D) /\ D[m[d]].speaker # P[1].speaker
    OBVIOUS
  <2> QED
    BY <1>1, <2>1
<1> HIDE DEF I
<1>3. OneDecoderEach(D2)
  <2> SUFFICES ASSUME NEW i \in 1 .. Len(D2), NEW j \in 1 .. Len(D2), D2[i].speaker = D2[j].speaker
               PROVE  i = j
    BY DEF OneDecoderEach
  <2>0. /\ m[i] \in 1 .. Len(D) /\ m[j] \in 1 .. Len(D)
        /\ D[m[i]].speaker = D[m[j]].speaker
    BY <1>2
  <2>a. OneDecoderEach(D)
    BY DEF Room
  <2>1. m[i] = m[j]
    BY <2>0, <2>a DEF OneDecoderEach
  <2>2. m[i] \in 1 .. Len(D) /\ i \in Nat /\ j \in Nat
    BY <1>2
  <2>3. ~(i < j) /\ ~(j < i)
    BY <1>1, <2>1, <2>2
  <2> QED
    BY <2>2, <2>3
<1>4. ASSUME NEW s, HasDecoder(D2, s) PROVE HasDecoder(D, s) /\ s # P[1].speaker
  <2>1. PICK d \in 1 .. Len(D2) : D2[d].speaker = s
    BY <1>4 DEF HasDecoder
  <2>2. m[d] \in 1 .. Len(D) /\ D[m[d]].speaker = s /\ s # P[1].speaker
    BY <1>2, <2>1
  <2> QED
    BY <2>2 DEF HasDecoder
<1>5. ASSUME NEW s \in Speaker \ R, NEW d \in 1 .. Len(D2), D2[d].speaker = s PROVE ~Current(D2[d], G)
  <2>1. m[d] \in 1 .. Len(D) /\ D2[d] = D[m[d]]
    BY <1>2
  <2>2. \A k \in 1 .. Len(D) : D[k].speaker = s => ~Current(D[k], G)
    BY DEF Room, DepartedAreSilent
  <2> QED
    BY <1>5, <2>1, <2>2
<1> QED
  BY <1>3, <1>4, <1>5, RoomTail

LEMMA RoomMakeDecoder ==
    ASSUME NEW Q \in Seq(VoicePacket), NEW P \in Seq(VoicePacket), NEW D \in Seq(VoiceDecoder),
           NEW G \in [Speaker -> Nat], NEW R, OneStream(Q, P, D, G), Room(Q, P, D, G, R),
           NEW P2, IsTail(P2, P), ~P[1].remove, ~HasDecoder(D, P[1].speaker),
           NEW D2, D2 = Append(D, [speaker |-> P[1].speaker, generation |-> P[1].generation])
    PROVE  Room(Q, P2, D2, G, R)
<1> DEFINE e == [speaker |-> P[1].speaker, generation |-> P[1].generation]
<1>1. 1 \in 1 .. Len(P)
  BY TailFacts
<1>2. e \in VoiceDecoder /\ e.speaker = P[1].speaker /\ e.generation = P[1].generation
  BY <1>1, EntryType DEF VoiceDecoder
<1> HIDE DEF e
<1>3. /\ D2 \in Seq(VoiceDecoder)
      /\ \A d \in 1 .. Len(D2) : \/ d = Len(D2) /\ D2[d] = e
                                 \/ d \in 1 .. Len(D) /\ D2[d] = D[d]
  BY <1>2 DEF e
<1>4. OneDecoderEach(D2)
  <2> SUFFICES ASSUME NEW i \in 1 .. Len(D2), NEW j \in 1 .. Len(D2), D2[i].speaker = D2[j].speaker
               PROVE  i = j
    BY DEF OneDecoderEach
  <2>1. \A d \in 1 .. Len(D) : D[d].speaker # e.speaker
    BY <1>2 DEF HasDecoder
  <2>2. CASE i \in 1 .. Len(D) /\ D2[i] = D[i] /\ j \in 1 .. Len(D) /\ D2[j] = D[j]
    BY <2>2 DEF Room, OneDecoderEach
  <2>3. CASE i = Len(D2) /\ D2[i] = e
    BY <1>3, <2>1, <2>3
  <2>4. CASE j = Len(D2) /\ D2[j] = e
    BY <1>3, <2>1, <2>4
  <2> QED
    BY <1>3, <2>2, <2>3, <2>4
<1>5. ASSUME NEW s, HasDecoder(D2, s) PROVE HasDecoder(D, s) \/ s = P[1].speaker
  BY <1>2, <1>3, <1>5 DEF HasDecoder
<1>6. ASSUME NEW s \in Speaker \ R, NEW d \in 1 .. Len(D2), D2[d].speaker = s PROVE ~Current(D2[d], G)
  <2>1. CASE d \in 1 .. Len(D) /\ D2[d] = D[d]
    BY <1>6, <2>1 DEF Room, DepartedAreSilent
  <2>2. CASE D2[d] = e
    <3>1. ~Current(P[1], G)
      BY <1>1, <1>2, <1>6, <2>2 DEF Room, DepartedAreSilent
    <3> QED
      BY <1>2, <2>2, <3>1 DEF Current
  <2> QED
    BY <1>3, <2>1, <2>2
<1> QED
  BY <1>3, <1>4, <1>5, <1>6, RoomTail

(* The packet at the head of those taken has a decoder of its own stream or *)
(* finds room for one.                                                      *)
LEMMA RoomAtHead ==
    ASSUME MaxSpeakers \in Nat,
           NEW Q \in Seq(VoicePacket), NEW P \in Seq(VoicePacket), NEW D \in Seq(VoiceDecoder),
           NEW G \in [Speaker -> Nat], NEW R, OneStream(Q, P, D, G), Room(Q, P, D, G, R),
           P # << >>, ~P[1].remove
    PROVE  /\ \A d \in 1 .. Len(D) : D[d].speaker = P[1].speaker => D[d].generation = P[1].generation
           /\ Len(D) < MaxSpeakers
<1>1. 1 \in 1 .. Len(P) /\ \A i \in 1 .. Len(P) : i \in Nat
  OBVIOUS
<1>2. ~Removes(P, P[1].speaker)
  <2>1. ASSUME NEW i \in 1 .. Len(P), P[i].remove, P[i].speaker = P[1].speaker PROVE FALSE
    <3>1. i # 1
      BY <2>1
    <3>2. i < 1
      BY <1>1, <2>1, <3>1 DEF OneStream, RemovalsFirst
    <3> QED
      BY <1>1, <3>1, <3>2
  <2> QED
    BY <2>1 DEF Removes
<1>3. RoomForTaken(P, D, 1)
  BY <1>1 DEF Room
<1>4. PICK B \in SUBSET Speaker :
        /\ Crowd(B)
        /\ \A s \in Speaker \ B : HasDecoder(D, s) => RemovedBefore(P, s, 1)
  BY <1>3 DEF RoomForTaken
<1>5. \A s : ~RemovedBefore(P, s, 1)
  BY <1>1 DEF RemovedBefore
<1>6. \A d \in 1 .. Len(D) : D[d].speaker \in B
  BY <1>4, <1>5, DecoderType DEF HasDecoder
<1> DEFINE f == [d \in 1 .. Len(D) |-> D[d].speaker]
<1>7. f \in [1 .. Len(D) -> B] /\ \A i, j \in 1 .. Len(D) : f[i] = f[j] => i = j
  BY <1>6 DEF Room, OneDecoderEach
<1>8. Len(D) \in Nat /\ IsFiniteSet(B) /\ Cardinality(B) < MaxSpeakers /\ Cardinality(B) \in Nat
  BY <1>4, FS_CardinalityType DEF Crowd
<1> HIDE DEF f
<1>9. Len(D) <= Cardinality(B)
  BY <1>7, <1>8, DistinctBound
<1>10. ASSUME NEW d \in 1 .. Len(D), D[d].speaker = P[1].speaker PROVE D[d].generation = P[1].generation
  <2>1. ~Removes(P, D[d].speaker)
    BY <1>2, <1>10
  <2>2. \A i \in 1 .. Len(P) : ~P[i].remove /\ P[i].speaker = D[d].speaker => P[i].generation = D[d].generation
    BY <2>1 DEF OneStream
  <2> QED
    BY <1>1, <1>10, <2>2
<1>11. Len(D) < MaxSpeakers
  <2>1. PICK n \in Nat, b \in Nat : n = Len(D) /\ b = Cardinality(B)
    BY <1>8
  <2>2. n <= b /\ b < MaxSpeakers
    BY <1>8, <1>9, <2>1
  <2> QED
    BY <2>1, <2>2
<1> QED
  BY <1>10, <1>11

-----------------------------------------------------------------------------
(* The steps keep the types, and the game thread returns where it should.   *)
TypeInv == VoiceType /\ GameReturns

LEMMA TailType ==
    ASSUME NEW T, NEW q \in Seq(T), q # << >>
    PROVE  Tail(q) \in Seq(T) /\ Head(q) \in T
  OBVIOUS

LEMMA NewStreamType ==
    ASSUME VoiceAssumption, capturing \in CapturingState
    PROVE  NewStream \in CapturingState
<1>1. (capturing.stream + 1) % Streams \in Nat
  BY DEF VoiceAssumption, CapturingState
<1> QED
  BY <1>1 DEF NewStream, CapturingState

LEMMA DestroyingType ==
    ASSUME game \in GameState, NEW v \in VoiceState, Destroying(v)
    PROVE  game' \in GameState /\ GameReturns' /\ voice' \in VoiceState
<1>1. game' \in GameState /\ GameReturns'
  BY DEF Destroying, GameState, GamePc, GameReturns
<1>2. voice' \in VoiceState
  BY DEF Destroying, VoiceState
<1> QED
  BY <1>1, <1>2

LEMMA EnqueuedType ==
    ASSUME VoiceAssumption, incoming \in Seq(VoicePacket), NEW p \in VoicePacket
    PROVE  Enqueued(p) \in Seq(VoicePacket)
<1>1. Enqueued(p) = incoming \/ \E w \in Seq(VoicePacket) : Enqueued(p) = Append(w, p)
  BY EnqueuedFacts
<1>2. CASE \E w \in Seq(VoicePacket) : Enqueued(p) = Append(w, p)
  <2>1. PICK w \in Seq(VoicePacket) : Enqueued(p) = Append(w, p)
    BY <1>2
  <2> QED
    BY <2>1, AppendProperties
<1> QED
  BY <1>1, <1>2

LEMMA WithoutFacts ==
    ASSUME decoders \in Seq(VoiceDecoder), NEW s
    PROVE  /\ Without(decoders, s) \in Seq(VoiceDecoder)
           /\ Thinned(Without(decoders, s), decoders, {d \in 1 .. Len(decoders) : decoders[d].speaker # s})
<1> DEFINE I == {d \in 1 .. Len(decoders) : decoders[d].speaker # s}
<1>1. Keeping(decoders, I) \in Seq(VoiceDecoder) /\ Thinned(Keeping(decoders, I), decoders, I)
  BY KeepingFacts
<1>2. DOMAIN decoders = 1 .. Len(decoders)
  OBVIOUS
<1>3. Without(decoders, s) = Keeping(decoders, I)
  BY <1>2 DEF Without
<1> QED
  BY <1>1, <1>3

LEMMA TypeStep ==
    ASSUME VoiceAssumption, TypeInv, [VoiceNext]_voiceVars
    PROVE  TypeInv'
<1>a. /\ game \in GameState /\ voice \in VoiceState /\ capturing \in CapturingState /\ worker \in WorkerState
      /\ incoming \in Seq(VoicePacket) /\ decoders \in Seq(VoiceDecoder)
      /\ talking \in [present : SUBSET Speaker, generation : [Speaker -> Nat]]
      /\ GameReturns
  BY DEF TypeInv, VoiceType
<1>n. NewStream \in CapturingState
  BY <1>a, NewStreamType
<1>1. ASSUME NEW e \in BOOLEAN, NEW n \in BOOLEAN, NEW dd \in {{}, {"playback"}}, StartVoice(e, n, dd) PROVE TypeInv'
  <2>1. game' \in GameState /\ GameReturns'
    BY <1>a, <1>1 DEF StartVoice, GameReturns
  <2>2. voice' \in VoiceState
    BY <1>a, <1>1 DEF StartVoice, VoiceIdle, GameAt, NoVoice, NothingCaptured, VoiceState, AudioDevice
  <2>3. capturing' \in CapturingState
    BY <1>a, <1>1 DEF StartVoice, VoiceIdle, GameAt, NoVoice, NothingCaptured, CapturingState, VoiceAssumption
  <2>4. worker' \in WorkerState
    BY <1>a, <1>1 DEF StartVoice, VoiceIdle, GameAt, NoVoice, NothingCaptured, WorkerState, WorkerPc
  <2>5. incoming' \in Seq(VoicePacket) /\ decoders' \in Seq(VoiceDecoder)
       /\ talking' \in [present : SUBSET Speaker, generation : [Speaker -> Nat]]
    BY <1>a, <1>1 DEF StartVoice, VoiceIdle, GameAt, NoVoice, NothingCaptured, VoicePacket, VoiceDecoder
  <2> QED
    BY <2>1, <2>2, <2>3, <2>4, <2>5 DEF TypeInv, VoiceType
<1>2. ASSUME StopVoice PROVE TypeInv'
  <2>1. game' \in GameState /\ GameReturns'
    BY <1>a, <1>2 DEF StopVoice, Destroying, VoiceIdle, GameAt, GameState, GamePc, GameReturns
  <2>2. voice' \in VoiceState
    BY <1>a, <1>2 DEF StopVoice, Destroying, VoiceIdle, GameAt, VoiceState, AudioDevice
  <2>3. capturing' \in CapturingState
    BY <1>a, <1>2 DEF StopVoice
  <2>4. worker' \in WorkerState
    BY <1>a, <1>2 DEF StopVoice
  <2>5. incoming' \in Seq(VoicePacket) /\ decoders' \in Seq(VoiceDecoder)
       /\ talking' \in [present : SUBSET Speaker, generation : [Speaker -> Nat]]
    BY <1>a, <1>2 DEF StopVoice
  <2> QED
    BY <2>1, <2>2, <2>3, <2>4, <2>5 DEF TypeInv, VoiceType
<1>3. ASSUME JoinWorker PROVE TypeInv'
  <2>1. game' \in GameState /\ GameReturns'
    BY <1>a, <1>3 DEF JoinWorker, GameGoesTo, GameAt, GameState, GamePc, GameReturns
  <2>2. voice' \in VoiceState
    BY <1>a, <1>3 DEF JoinWorker, NoVoice, VoiceState, AudioDevice
  <2>3. capturing' \in CapturingState
    BY <1>a, <1>3 DEF JoinWorker, NothingCaptured, CapturingState
  <2>4. worker' \in WorkerState
    BY <1>a, <1>3 DEF JoinWorker, GameAt, GameGoesTo, NoVoice, NothingCaptured, NoWorker, WorkerState, WorkerPc
  <2>5. incoming' \in Seq(VoicePacket) /\ decoders' \in Seq(VoiceDecoder)
       /\ talking' \in [present : SUBSET Speaker, generation : [Speaker -> Nat]]
    BY <1>a, <1>3 DEF JoinWorker, GameAt, GameGoesTo, NoVoice, NothingCaptured, NoWorker, VoicePacket, VoiceDecoder
  <2> QED
    BY <2>1, <2>2, <2>3, <2>4, <2>5 DEF TypeInv, VoiceType
<1>4. ASSUME CaptureOff PROVE TypeInv'
  <2>1. game' \in GameState /\ GameReturns'
    BY <1>a, <1>4 DEF CaptureOff, VoiceIdle, GameAt, GameGoesTo, GameState, GamePc, GameReturns
  <2>2. voice' \in VoiceState
    BY <1>a, <1>4 DEF CaptureOff, VoiceIdle, GameAt, GameGoesTo, VoiceState, AudioDevice
  <2>3. capturing' \in CapturingState
    BY <1>a, <1>4 DEF CaptureOff
  <2>4. worker' \in WorkerState
    BY <1>a, <1>4 DEF CaptureOff
  <2>5. incoming' \in Seq(VoicePacket) /\ decoders' \in Seq(VoiceDecoder)
       /\ talking' \in [present : SUBSET Speaker, generation : [Speaker -> Nat]]
    BY <1>a, <1>4 DEF CaptureOff
  <2> QED
    BY <2>1, <2>2, <2>3, <2>4, <2>5 DEF TypeInv, VoiceType
<1>5. ASSUME DisableCapture PROVE TypeInv'
  <2>1. game' \in GameState /\ GameReturns'
    BY <1>a, <1>5 DEF DisableCapture, GameAt, GameGoesTo, GameState, GamePc, GameReturns
  <2>2. voice' \in VoiceState
    BY <1>a, <1>5 DEF DisableCapture, GameAt, GameGoesTo, VoiceState, AudioDevice
  <2>3. capturing' \in CapturingState
    BY <1>a, <1>5 DEF DisableCapture
  <2>4. worker' \in WorkerState
    BY <1>a, <1>5 DEF DisableCapture
  <2>5. incoming' \in Seq(VoicePacket) /\ decoders' \in Seq(VoiceDecoder)
       /\ talking' \in [present : SUBSET Speaker, generation : [Speaker -> Nat]]
    BY <1>a, <1>5 DEF DisableCapture
  <2> QED
    BY <2>1, <2>2, <2>3, <2>4, <2>5 DEF TypeInv, VoiceType
<1>6. ASSUME UninitCapture PROVE TypeInv'
  <2>1. game' \in GameState /\ GameReturns'
    BY <1>a, <1>6 DEF UninitCapture, GameAt, GameGoesTo, GameState, GamePc, GameReturns
  <2>2. voice' \in VoiceState
    BY <1>a, <1>6 DEF UninitCapture, GameAt, GameGoesTo, VoiceState, AudioDevice
  <2>3. capturing' \in CapturingState
    BY <1>a, <1>6 DEF UninitCapture
  <2>4. worker' \in WorkerState
    BY <1>a, <1>6 DEF UninitCapture
  <2>5. incoming' \in Seq(VoicePacket) /\ decoders' \in Seq(VoiceDecoder)
       /\ talking' \in [present : SUBSET Speaker, generation : [Speaker -> Nat]]
    BY <1>a, <1>6 DEF UninitCapture
  <2> QED
    BY <2>1, <2>2, <2>3, <2>4, <2>5 DEF TypeInv, VoiceType
<1>7. ASSUME ClearCapture PROVE TypeInv'
  <2>1. game' \in GameState /\ GameReturns'
    BY <1>a, <1>7 DEF ClearCapture, NewStream, GameAt, GameGoesTo, GameState, GamePc, GameReturns
  <2>2. voice' \in VoiceState
    BY <1>a, <1>7 DEF ClearCapture, NewStream, GameAt, GameGoesTo, VoiceState, AudioDevice
  <2>3. capturing' \in CapturingState
    BY <1>n, <1>7 DEF ClearCapture
  <2>4. worker' \in WorkerState
    BY <1>a, <1>7 DEF ClearCapture
  <2>5. incoming' \in Seq(VoicePacket) /\ decoders' \in Seq(VoiceDecoder)
       /\ talking' \in [present : SUBSET Speaker, generation : [Speaker -> Nat]]
    BY <1>a, <1>7 DEF ClearCapture
  <2> QED
    BY <2>1, <2>2, <2>3, <2>4, <2>5 DEF TypeInv, VoiceType
<1>8. ASSUME NEW dv \in BOOLEAN, NEW works \in BOOLEAN, CaptureOn(dv, works) PROVE TypeInv'
  <2>1. game' \in GameState /\ GameReturns'
    BY <1>a, <1>8 DEF CaptureOn, VoiceIdle, GameAt, GameGoesTo, GameState, GamePc, GameReturns
  <2>2. voice' \in VoiceState
    BY <1>a, <1>8 DEF CaptureOn, VoiceIdle, GameAt, GameGoesTo, VoiceState, AudioDevice
  <2>3. capturing' \in CapturingState
    BY <1>a, <1>8 DEF CaptureOn
  <2>4. worker' \in WorkerState
    BY <1>a, <1>8 DEF CaptureOn
  <2>5. incoming' \in Seq(VoicePacket) /\ decoders' \in Seq(VoiceDecoder)
       /\ talking' \in [present : SUBSET Speaker, generation : [Speaker -> Nat]]
    BY <1>a, <1>8 DEF CaptureOn
  <2> QED
    BY <2>1, <2>2, <2>3, <2>4, <2>5 DEF TypeInv, VoiceType
<1>9. ASSUME NEW en \in BOOLEAN, SetVoiceTransmission(en) PROVE TypeInv'
  <2>1. game' \in GameState /\ GameReturns'
    BY <1>a, <1>9 DEF SetVoiceTransmission, GameReturns
  <2>2. voice' \in VoiceState
    BY <1>a, <1>9 DEF SetVoiceTransmission, SetTransmission, NewStream, VoiceState, AudioDevice
  <2>3. capturing' \in CapturingState
    BY <1>a, <1>n, <1>9 DEF SetVoiceTransmission, SetTransmission
  <2>4. worker' \in WorkerState
    BY <1>a, <1>9 DEF SetVoiceTransmission
  <2>5. incoming' \in Seq(VoicePacket) /\ decoders' \in Seq(VoiceDecoder)
       /\ talking' \in [present : SUBSET Speaker, generation : [Speaker -> Nat]]
    BY <1>a, <1>9 DEF SetVoiceTransmission
  <2> QED
    BY <2>1, <2>2, <2>3, <2>4, <2>5 DEF TypeInv, VoiceType
<1>10. ASSUME NEW dv \in BOOLEAN, NEW works \in BOOLEAN, SetPlaybackDevice(dv, works) PROVE TypeInv'
  <2>1. game' \in GameState /\ GameReturns'
    <3>1. CASE works
      <4>1. game' = IF game.pc = "replay" THEN [game EXCEPT !.pc = game.then] ELSE game
        BY <1>10, <3>1 DEF SetPlaybackDevice, GameAt, GameGoesTo
      <4> QED
        BY <1>a, <4>1 DEF GameState, GamePc, GameReturns
    <3>2. CASE ~works
      BY <1>a, <1>10, <3>2, DestroyingType DEF SetPlaybackDevice
    <3> QED
      BY <3>1, <3>2
  <2>2. voice' \in VoiceState
    <3>1. CASE works
      <4>1. PICK d \in SUBSET AudioDevice :
              voice' = [voice EXCEPT !.reference = voice.capture /\ voice.echo, !.defaults = d]
        BY <1>a, <1>10, <3>1 DEF SetPlaybackDevice, Reopened, VoiceState, AudioDevice
      <4> QED
        BY <1>a, <4>1 DEF VoiceState
    <3>2. CASE ~works
      BY <1>a, <1>10, <3>2, DestroyingType DEF SetPlaybackDevice
    <3> QED
      BY <3>1, <3>2
  <2>3. capturing' \in CapturingState
    BY <1>a, <1>10 DEF SetPlaybackDevice
  <2>4. worker' \in WorkerState
    BY <1>a, <1>10 DEF SetPlaybackDevice
  <2>5. incoming' \in Seq(VoicePacket) /\ decoders' \in Seq(VoiceDecoder)
       /\ talking' \in [present : SUBSET Speaker, generation : [Speaker -> Nat]]
    BY <1>a, <1>10 DEF SetPlaybackDevice
  <2> QED
    BY <2>1, <2>2, <2>3, <2>4, <2>5 DEF TypeInv, VoiceType
<1>11. ASSUME NEW e \in BOOLEAN, NEW n \in BOOLEAN, NEW works \in BOOLEAN, SetVoiceProcessing(e, n, works) PROVE TypeInv'
  <2>1. game' \in GameState /\ GameReturns'
    BY <1>a, <1>11 DEF SetVoiceProcessing, Destroying, VoiceIdle, GameAt, GameState, GamePc, GameReturns
  <2>2. voice' \in VoiceState
    <3>1. CASE works
      BY ZenonT(60), <1>a, <1>11, <3>1 DEF SetVoiceProcessing, VoiceState
    <3>2. CASE ~works
      BY <1>a, <1>11, <3>2, DestroyingType DEF SetVoiceProcessing
    <3> QED
      BY <3>1, <3>2
  <2>3. capturing' \in CapturingState
    <3>1. CASE works
      <4>1. capturing' = [capturing EXCEPT !.processed = << >>] /\ << >> \in Seq(Nat)
        BY <1>11, <3>1 DEF SetVoiceProcessing
      <4> QED
        BY <1>a, <4>1 DEF CapturingState
    <3>2. CASE ~works
      BY <1>a, <1>11, <3>2 DEF SetVoiceProcessing
    <3> QED
      BY <3>1, <3>2
  <2>4. worker' \in WorkerState
    BY <1>a, <1>11 DEF SetVoiceProcessing
  <2>5. incoming' \in Seq(VoicePacket) /\ decoders' \in Seq(VoiceDecoder)
       /\ talking' \in [present : SUBSET Speaker, generation : [Speaker -> Nat]]
    BY <1>a, <1>11 DEF SetVoiceProcessing
  <2> QED
    BY <2>1, <2>2, <2>3, <2>4, <2>5 DEF TypeInv, VoiceType
<1>12. ASSUME UpdateVoice PROVE TypeInv'
  <2>1. game' \in GameState /\ GameReturns'
    <3>1. CASE voice.failed
      BY <1>a, <1>12, <3>1, DestroyingType DEF UpdateVoice
    <3>2. CASE ~voice.failed
      <4>1. PICK c \in {"recapture", "idle"} :
              \/ game' = [pc |-> c, resume |-> voice.transmitting, then |-> c]
              \/ game' = [pc |-> "replay", resume |-> voice.transmitting, then |-> c]
        BY <1>12, <3>2 DEF UpdateVoice
      <4> QED
        BY <1>a, <4>1 DEF VoiceState, GameState, GamePc, GameReturns
    <3> QED
      BY <3>1, <3>2
  <2>2. voice' \in VoiceState
    <3>1. CASE voice.failed
      BY <1>a, <1>12, <3>1, DestroyingType DEF UpdateVoice
    <3>2. CASE ~voice.failed
      <4>1. voice' = [voice EXCEPT !.changes = {}]
        BY <1>12, <3>2 DEF UpdateVoice
      <4>2. voice \in VoiceState
        BY <1>a
      <4> QED
        BY <4>1, <4>2 DEF VoiceState
    <3> QED
      BY <3>1, <3>2
  <2>3. capturing' \in CapturingState
    BY <1>a, <1>12 DEF UpdateVoice
  <2>4. worker' \in WorkerState
    BY <1>a, <1>12 DEF UpdateVoice
  <2>5. incoming' \in Seq(VoicePacket) /\ decoders' \in Seq(VoiceDecoder)
       /\ talking' \in [present : SUBSET Speaker, generation : [Speaker -> Nat]]
    BY <1>a, <1>12 DEF UpdateVoice
  <2> QED
    BY <2>1, <2>2, <2>3, <2>4, <2>5 DEF TypeInv, VoiceType
<1>13. ASSUME Recapture PROVE TypeInv'
  <2>1. game' \in GameState /\ GameReturns'
    BY <1>a, <1>13 DEF Recapture, GameAt, GameState, GamePc, GameReturns
  <2>2. voice' \in VoiceState
    BY <1>a, <1>13 DEF Recapture, GameAt, VoiceState, AudioDevice
  <2>3. capturing' \in CapturingState
    BY <1>a, <1>13 DEF Recapture
  <2>4. worker' \in WorkerState
    BY <1>a, <1>13 DEF Recapture
  <2>5. incoming' \in Seq(VoicePacket) /\ decoders' \in Seq(VoiceDecoder)
       /\ talking' \in [present : SUBSET Speaker, generation : [Speaker -> Nat]]
    BY <1>a, <1>13 DEF Recapture
  <2> QED
    BY <2>1, <2>2, <2>3, <2>4, <2>5 DEF TypeInv, VoiceType
<1>14. ASSUME ResumeTransmission PROVE TypeInv'
  <2>1. game' \in GameState /\ GameReturns'
    BY <1>a, <1>14 DEF ResumeTransmission, SetTransmission, NewStream, GameAt, GameState, GamePc, GameReturns
  <2>2. voice' \in VoiceState
    BY ZenonT(60), <1>a, <1>14 DEF ResumeTransmission, SetTransmission, NewStream, GameAt, VoiceState, AudioDevice
  <2>3. capturing' \in CapturingState
    BY <1>a, <1>n, <1>14 DEF ResumeTransmission, SetTransmission
  <2>4. worker' \in WorkerState
    BY <1>a, <1>14 DEF ResumeTransmission
  <2>5. incoming' \in Seq(VoicePacket) /\ decoders' \in Seq(VoiceDecoder)
       /\ talking' \in [present : SUBSET Speaker, generation : [Speaker -> Nat]]
    BY <1>a, <1>14 DEF ResumeTransmission
  <2> QED
    BY <2>1, <2>2, <2>3, <2>4, <2>5 DEF TypeInv, VoiceType
<1>15. ASSUME UpdateFails PROVE TypeInv'
  <2>1. game' \in GameState /\ GameReturns'
    BY <1>a, <1>15 DEF UpdateFails, Destroying, GameAt, GameState, GamePc, GameReturns
  <2>2. voice' \in VoiceState
    BY ZenonT(60), <1>a, <1>15 DEF UpdateFails, Destroying, GameAt, VoiceState, AudioDevice
  <2>3. capturing' \in CapturingState
    BY <1>a, <1>15 DEF UpdateFails
  <2>4. worker' \in WorkerState
    BY <1>a, <1>15 DEF UpdateFails
  <2>5. incoming' \in Seq(VoicePacket) /\ decoders' \in Seq(VoiceDecoder)
       /\ talking' \in [present : SUBSET Speaker, generation : [Speaker -> Nat]]
    BY <1>a, <1>15 DEF UpdateFails
  <2> QED
    BY <2>1, <2>2, <2>3, <2>4, <2>5 DEF TypeInv, VoiceType
<1>16. ASSUME PollVoicePacket PROVE TypeInv'
  <2>1. game' \in GameState /\ GameReturns'
    BY <1>a, <1>16 DEF PollVoicePacket, GameReturns
  <2>2. voice' \in VoiceState
    BY <1>a, <1>16 DEF PollVoicePacket
  <2>3. capturing' \in CapturingState
    <3>1. capturing' = [capturing EXCEPT !.outgoing = Tail(capturing.outgoing)] /\ capturing.outgoing # << >>
      BY <1>16 DEF PollVoicePacket
    <3>2. Tail(capturing.outgoing) \in Seq(EncodedPacket)
      BY <1>a, <3>1, TailType DEF CapturingState
    <3> QED
      BY <1>a, <3>1, <3>2 DEF CapturingState
  <2>4. worker' \in WorkerState
    BY <1>a, <1>16 DEF PollVoicePacket
  <2>5. incoming' \in Seq(VoicePacket) /\ decoders' \in Seq(VoiceDecoder)
       /\ talking' \in [present : SUBSET Speaker, generation : [Speaker -> Nat]]
    BY <1>a, <1>16 DEF PollVoicePacket
  <2> QED
    BY <2>1, <2>2, <2>3, <2>4, <2>5 DEF TypeInv, VoiceType
<1>17. ASSUME NEW s \in Speaker, SubmitVoicePacket(s) PROVE TypeInv'
  <2>1. game' \in GameState /\ GameReturns'
    BY <1>a, <1>17 DEF SubmitVoicePacket, GameReturns
  <2>2. voice' \in VoiceState
    BY <1>a, <1>17 DEF SubmitVoicePacket, VoiceState, AudioDevice
  <2>3. capturing' \in CapturingState
    BY <1>a, <1>17 DEF SubmitVoicePacket
  <2>4. worker' \in WorkerState
    BY <1>a, <1>17 DEF SubmitVoicePacket
  <2>5. incoming' \in Seq(VoicePacket) /\ decoders' \in Seq(VoiceDecoder)
       /\ talking' \in [present : SUBSET Speaker, generation : [Speaker -> Nat]]
    <3>1. Packet(s, talking.generation[s], FALSE) \in VoicePacket
      BY <1>a DEF Packet, VoicePacket
    <3>2. /\ incoming' = Enqueued(Packet(s, talking.generation[s], FALSE))
          /\ talking' = [talking EXCEPT !.present = @ \cup {s}] /\ decoders' = decoders
      BY <1>17 DEF SubmitVoicePacket, Packet
    <3> QED
      BY <1>a, <3>1, <3>2, EnqueuedType
  <2> QED
    BY <2>1, <2>2, <2>3, <2>4, <2>5 DEF TypeInv, VoiceType
<1>18. ASSUME NEW s \in Speaker, NEW leaves \in BOOLEAN, RemoveVoiceSpeaker(s, leaves) PROVE TypeInv'
  <2>1. game' \in GameState /\ GameReturns'
    BY <1>a, <1>18 DEF RemoveVoiceSpeaker, GameReturns
  <2>2. voice' \in VoiceState
    BY <1>a, <1>18 DEF RemoveVoiceSpeaker, VoiceState, AudioDevice
  <2>3. capturing' \in CapturingState
    BY <1>a, <1>18 DEF RemoveVoiceSpeaker
  <2>4. worker' \in WorkerState
    BY <1>a, <1>18 DEF RemoveVoiceSpeaker
  <2>5. incoming' \in Seq(VoicePacket) /\ decoders' \in Seq(VoiceDecoder)
       /\ talking' \in [present : SUBSET Speaker, generation : [Speaker -> Nat]]
    <3>1. Packet(s, talking.generation[s], TRUE) \in VoicePacket
      BY <1>a DEF Packet, VoicePacket
    <3>2. /\ incoming' = Enqueued(Packet(s, talking.generation[s], TRUE)) /\ decoders' = decoders
          /\ talking' = [talking EXCEPT !.present = IF leaves THEN @ \ {s} ELSE @ \cup {s},
                                        !.generation[s] = @ + 1]
      BY <1>18 DEF RemoveVoiceSpeaker, Packet
    <3>3. incoming' \in Seq(VoicePacket)
      BY <1>a, <3>1, <3>2, EnqueuedType
    <3>4. talking' \in [present : SUBSET Speaker, generation : [Speaker -> Nat]]
      <4>1. [talking.generation EXCEPT ![s] = @ + 1] \in [Speaker -> Nat]
        BY <1>a
      <4>2. PICK r \in SUBSET Speaker :
              talking' = [talking EXCEPT !.present = r, !.generation = [talking.generation EXCEPT ![s] = @ + 1]]
        BY <1>a, <3>2
      <4> QED
        BY <1>a, <4>1, <4>2
    <3> QED
      BY <1>a, <3>2, <3>3, <3>4
  <2> QED
    BY <2>1, <2>2, <2>3, <2>4, <2>5 DEF TypeInv, VoiceType
<1>19. ASSUME CaptureCallback PROVE TypeInv'
  <2>1. game' \in GameState /\ GameReturns'
    BY <1>a, <1>19 DEF CaptureCallback, GameReturns
  <2>2. voice' \in VoiceState
    BY <1>a, <1>19 DEF CaptureCallback, VoiceState, AudioDevice
  <2>3. capturing' \in CapturingState
    <3>1. PICK c \in {capturing.captured, capturing.captured + 1} : capturing' = [capturing EXCEPT !.captured = c]
      BY <1>19 DEF CaptureCallback
    <3>2. c \in Nat
      BY <1>a, <3>1 DEF CapturingState
    <3> QED
      BY <1>a, <3>1, <3>2 DEF CapturingState
  <2>4. worker' \in WorkerState
    BY <1>a, <1>19 DEF CaptureCallback
  <2>5. incoming' \in Seq(VoicePacket) /\ decoders' \in Seq(VoiceDecoder)
       /\ talking' \in [present : SUBSET Speaker, generation : [Speaker -> Nat]]
    BY <1>a, <1>19 DEF CaptureCallback
  <2> QED
    BY <2>1, <2>2, <2>3, <2>4, <2>5 DEF TypeInv, VoiceType
<1>20. ASSUME PlaybackCallback PROVE TypeInv'
  <2>1. game' \in GameState /\ GameReturns'
    BY <1>a, <1>20 DEF PlaybackCallback, GameReturns
  <2>2. voice' \in VoiceState
    BY <1>a, <1>20 DEF PlaybackCallback, VoiceState, AudioDevice
  <2>3. capturing' \in CapturingState
    BY <1>a, <1>20 DEF PlaybackCallback
  <2>4. worker' \in WorkerState
    BY <1>a, <1>20 DEF PlaybackCallback
  <2>5. incoming' \in Seq(VoicePacket) /\ decoders' \in Seq(VoiceDecoder)
       /\ talking' \in [present : SUBSET Speaker, generation : [Speaker -> Nat]]
    BY <1>a, <1>20 DEF PlaybackCallback
  <2> QED
    BY <2>1, <2>2, <2>3, <2>4, <2>5 DEF TypeInv, VoiceType
<1>21. ASSUME NEW d \in AudioDevice, DeviceStops(d) PROVE TypeInv'
  <2>1. game' \in GameState /\ GameReturns'
    BY <1>a, <1>21 DEF DeviceStops, GameReturns
  <2>2. voice' \in VoiceState
    BY <1>a, <1>21 DEF DeviceStops, VoiceState, AudioDevice
  <2>3. capturing' \in CapturingState
    BY <1>a, <1>21 DEF DeviceStops
  <2>4. worker' \in WorkerState
    BY <1>a, <1>21 DEF DeviceStops
  <2>5. incoming' \in Seq(VoicePacket) /\ decoders' \in Seq(VoiceDecoder)
       /\ talking' \in [present : SUBSET Speaker, generation : [Speaker -> Nat]]
    BY <1>a, <1>21 DEF DeviceStops
  <2> QED
    BY <2>1, <2>2, <2>3, <2>4, <2>5 DEF TypeInv, VoiceType
<1>22. ASSUME Wakes PROVE TypeInv'
  <2>1. game' \in GameState /\ GameReturns'
    BY <1>a, <1>22 DEF Wakes, GameReturns
  <2>2. voice' \in VoiceState
    BY <1>a, <1>22 DEF Wakes, WorkerAt, WorkerGoes, VoiceState, AudioDevice
  <2>3. capturing' \in CapturingState
    BY <1>a, <1>22 DEF Wakes
  <2>4. worker' \in WorkerState
    BY <1>a, <1>22 DEF Wakes, WorkerAt, WorkerGoes, WorkerState, WorkerPc
  <2>5. incoming' \in Seq(VoicePacket) /\ decoders' \in Seq(VoiceDecoder)
       /\ talking' \in [present : SUBSET Speaker, generation : [Speaker -> Nat]]
    BY <1>a, <1>22 DEF Wakes
  <2> QED
    BY <2>1, <2>2, <2>3, <2>4, <2>5 DEF TypeInv, VoiceType
<1>23. ASSUME LockCapture PROVE TypeInv'
  <2>1. game' \in GameState /\ GameReturns'
    BY <1>a, <1>23 DEF LockCapture, GameReturns
  <2>2. voice' \in VoiceState
    BY <1>a, <1>23 DEF LockCapture
  <2>3. capturing' \in CapturingState
    <3>1. 2 * Chunks \in Nat
      BY DEF VoiceAssumption
    <3> QED
      BY <1>a, <3>1, <1>23 DEF LockCapture, CapturingState
  <2>4. worker' \in WorkerState
    BY <1>a, <1>23 DEF LockCapture, WorkerAt, WorkerGoes, WorkerState, WorkerPc
  <2>5. incoming' \in Seq(VoicePacket) /\ decoders' \in Seq(VoiceDecoder)
       /\ talking' \in [present : SUBSET Speaker, generation : [Speaker -> Nat]]
    BY <1>a, <1>23 DEF LockCapture
  <2> QED
    BY <2>1, <2>2, <2>3, <2>4, <2>5 DEF TypeInv, VoiceType
<1>24. ASSUME EncodeChunk PROVE TypeInv'
  <2>1. game' \in GameState /\ GameReturns'
    BY <1>a, <1>24 DEF EncodeChunk, GameReturns
  <2>2. voice' \in VoiceState
    BY <1>a, <1>24 DEF EncodeChunk
  <2>3. capturing' \in CapturingState
    <3> DEFINE processed == Append(capturing.processed, capturing.stream)
               packet == [stream |-> capturing.stream, chunks |-> processed]
               out == Append(capturing.outgoing, packet)
    <3>1. processed \in Seq(Nat)
      BY <1>a DEF CapturingState
    <3>2. packet \in EncodedPacket
      BY <1>a, <3>1 DEF CapturingState, EncodedPacket
    <3>3. capturing.captured > 0 /\ (\/ capturing' = [capturing EXCEPT !.captured = @ - 1]
             \/ \E pr \in {<< >>, processed}, o \in {capturing.outgoing, out} :
                  capturing' = [capturing EXCEPT !.captured = @ - 1, !.processed = pr, !.outgoing = o])
      BY <1>24 DEF EncodeChunk
    <3> HIDE DEF processed, packet
    <3>4. out \in Seq(EncodedPacket) /\ << >> \in Seq(Nat)
      BY <1>a, <3>2 DEF CapturingState
    <3> HIDE DEF out
    <3>5. capturing.captured - 1 \in Nat
      BY <1>a, <3>3 DEF CapturingState
    <3>6. CASE capturing' = [capturing EXCEPT !.captured = @ - 1]
      BY <1>a, <3>5, <3>6 DEF CapturingState
    <3>7. ASSUME NEW pr \in {<< >>, processed}, NEW o \in {capturing.outgoing, out},
                 capturing' = [capturing EXCEPT !.captured = @ - 1, !.processed = pr, !.outgoing = o]
          PROVE  capturing' \in CapturingState
      <4>1. pr \in Seq(Nat) /\ o \in Seq(EncodedPacket)
        BY <1>a, <3>1, <3>4 DEF CapturingState
      <4> QED
        BY <1>a, <3>5, <3>7, <4>1 DEF CapturingState
    <3> QED
      BY <3>3, <3>6, <3>7
  <2>4. worker' \in WorkerState
    BY <1>a, <1>24 DEF EncodeChunk
  <2>5. incoming' \in Seq(VoicePacket) /\ decoders' \in Seq(VoiceDecoder)
       /\ talking' \in [present : SUBSET Speaker, generation : [Speaker -> Nat]]
    BY <1>a, <1>24 DEF EncodeChunk
  <2> QED
    BY <2>1, <2>2, <2>3, <2>4, <2>5 DEF TypeInv, VoiceType
<1>25. ASSUME EncodeFails PROVE TypeInv'
  <2>1. game' \in GameState /\ GameReturns'
    BY <1>a, <1>25 DEF EncodeFails, GameReturns
  <2>2. voice' \in VoiceState
    BY <1>a, <1>25 DEF EncodeFails, WorkerAt, WorkerGoes, WorkerFails, VoiceState, AudioDevice
  <2>3. capturing' \in CapturingState
    BY <1>a, <1>25 DEF EncodeFails
  <2>4. worker' \in WorkerState
    BY <1>a, <1>25 DEF EncodeFails, WorkerAt, WorkerGoes, WorkerFails, WorkerState, WorkerPc
  <2>5. incoming' \in Seq(VoicePacket) /\ decoders' \in Seq(VoiceDecoder)
       /\ talking' \in [present : SUBSET Speaker, generation : [Speaker -> Nat]]
    BY <1>a, <1>25 DEF EncodeFails
  <2> QED
    BY <2>1, <2>2, <2>3, <2>4, <2>5 DEF TypeInv, VoiceType
<1>26. ASSUME UnlockCapture PROVE TypeInv'
  <2>1. game' \in GameState /\ GameReturns'
    BY <1>a, <1>26 DEF UnlockCapture, GameReturns
  <2>2. voice' \in VoiceState
    BY <1>a, <1>26 DEF UnlockCapture
  <2>3. capturing' \in CapturingState
    BY <1>a, <1>26 DEF UnlockCapture
  <2>4. worker' \in WorkerState
    BY <1>a, <1>26 DEF UnlockCapture, WorkerAt, WorkerGoes, WorkerState, WorkerPc
  <2>5. incoming' \in Seq(VoicePacket) /\ decoders' \in Seq(VoiceDecoder)
       /\ talking' \in [present : SUBSET Speaker, generation : [Speaker -> Nat]]
    BY <1>a, <1>26 DEF UnlockCapture
  <2> QED
    BY <2>1, <2>2, <2>3, <2>4, <2>5 DEF TypeInv, VoiceType
<1>27. ASSUME TakePackets PROVE TypeInv'
  <2>1. game' \in GameState /\ GameReturns'
    BY <1>a, <1>27 DEF TakePackets, GameReturns
  <2>2. voice' \in VoiceState
    BY <1>a, <1>27 DEF TakePackets
  <2>3. capturing' \in CapturingState
    BY <1>a, <1>27 DEF TakePackets
  <2>4. worker' \in WorkerState
    BY <1>a, <1>27 DEF TakePackets, WorkerState, WorkerPc
  <2>5. incoming' \in Seq(VoicePacket) /\ decoders' \in Seq(VoiceDecoder)
       /\ talking' \in [present : SUBSET Speaker, generation : [Speaker -> Nat]]
    BY <1>a, <1>27 DEF TakePackets, VoicePacket, VoiceDecoder
  <2> QED
    BY <2>1, <2>2, <2>3, <2>4, <2>5 DEF TypeInv, VoiceType
<1>28. ASSUME Decode PROVE TypeInv'
  <2>1. game' \in GameState /\ GameReturns'
    BY <1>a, <1>28 DEF Decode, GameReturns
  <2>2. voice' \in VoiceState
    BY ZenonT(60), <1>a, <1>28 DEF Decode, NextPacket, WorkerFails, VoiceState, AudioDevice
  <2>3. capturing' \in CapturingState
    BY <1>a, <1>28 DEF Decode
  <2>4. worker' \in WorkerState
    <3>1. worker' = [worker EXCEPT !.packets = Tail(worker.packets)] /\ worker.packets # << >>
      BY <1>28 DEF Decode, NextPacket
    <3>2. Tail(worker.packets) \in Seq(VoicePacket)
      BY <1>a, <3>1, TailType DEF WorkerState
    <3> QED
      BY <1>a, <3>1, <3>2 DEF WorkerState
  <2>5. incoming' \in Seq(VoicePacket) /\ decoders' \in Seq(VoiceDecoder)
       /\ talking' \in [present : SUBSET Speaker, generation : [Speaker -> Nat]]
    <3> DEFINE p == Head(worker.packets)
               e == [speaker |-> p.speaker, generation |-> p.generation]
    <3>1. worker.packets # << >>
      BY <1>28 DEF Decode
    <3>2. p \in VoicePacket
      BY <1>a, <3>1, TailType DEF WorkerState
    <3> HIDE DEF p
    <3>3. e \in VoiceDecoder
      BY <3>2 DEF VoicePacket, VoiceDecoder
    <3>4. Without(decoders, p.speaker) \in Seq(VoiceDecoder)
      BY <1>a, WithoutFacts
    <3>5. decoders' \in {decoders, Without(decoders, p.speaker), Append(decoders, e)}
      BY <1>28 DEF Decode, NewDecoder, p
    <3> HIDE DEF e
    <3>6. Append(decoders, e) \in Seq(VoiceDecoder)
      BY <1>a, <3>3
    <3>7. incoming' = incoming /\ talking' = talking
      BY <1>28 DEF Decode
    <3> QED
      BY <1>a, <3>4, <3>5, <3>6, <3>7
  <2> QED
    BY <2>1, <2>2, <2>3, <2>4, <2>5 DEF TypeInv, VoiceType
<1>29. ASSUME PacketExpired PROVE TypeInv'
  <2>1. game' \in GameState /\ GameReturns'
    BY <1>a, <1>29 DEF PacketExpired, GameReturns
  <2>2. voice' \in VoiceState
    BY <1>a, <1>29 DEF PacketExpired
  <2>3. capturing' \in CapturingState
    BY <1>a, <1>29 DEF PacketExpired
  <2>4. worker' \in WorkerState
    <3>1. worker' = [worker EXCEPT !.packets = Tail(worker.packets)] /\ worker.packets # << >>
      BY <1>29 DEF PacketExpired, NextPacket
    <3>2. Tail(worker.packets) \in Seq(VoicePacket)
      BY <1>a, <3>1, TailType DEF WorkerState
    <3> QED
      BY <1>a, <3>1, <3>2 DEF WorkerState
  <2>5. incoming' \in Seq(VoicePacket) /\ decoders' \in Seq(VoiceDecoder)
       /\ talking' \in [present : SUBSET Speaker, generation : [Speaker -> Nat]]
    BY <1>a, <1>29 DEF PacketExpired
  <2> QED
    BY <2>1, <2>2, <2>3, <2>4, <2>5 DEF TypeInv, VoiceType
<1>30. ASSUME DecodeFails PROVE TypeInv'
  <2>1. game' \in GameState /\ GameReturns'
    BY <1>a, <1>30 DEF DecodeFails, GameReturns
  <2>2. voice' \in VoiceState
    BY <1>a, <1>30 DEF DecodeFails, NextPacket, WorkerFails, VoiceState, AudioDevice
  <2>3. capturing' \in CapturingState
    BY <1>a, <1>30 DEF DecodeFails
  <2>4. worker' \in WorkerState
    <3>1. worker' = [worker EXCEPT !.packets = Tail(worker.packets)] /\ worker.packets # << >>
      BY <1>30 DEF DecodeFails, NextPacket
    <3>2. Tail(worker.packets) \in Seq(VoicePacket)
      BY <1>a, <3>1, TailType DEF WorkerState
    <3> QED
      BY <1>a, <3>1, <3>2 DEF WorkerState
  <2>5. incoming' \in Seq(VoicePacket) /\ decoders' \in Seq(VoiceDecoder)
       /\ talking' \in [present : SUBSET Speaker, generation : [Speaker -> Nat]]
    BY <1>a, <1>30 DEF DecodeFails
  <2> QED
    BY <2>1, <2>2, <2>3, <2>4, <2>5 DEF TypeInv, VoiceType
<1>31. ASSUME MixAndLoop PROVE TypeInv'
  <2>1. game' \in GameState /\ GameReturns'
    BY <1>a, <1>31 DEF MixAndLoop, GameReturns
  <2>2. voice' \in VoiceState
    BY <1>a, <1>31 DEF MixAndLoop
  <2>3. capturing' \in CapturingState
    BY <1>a, <1>31 DEF MixAndLoop
  <2>4. worker' \in WorkerState
    BY <1>a, <1>31 DEF MixAndLoop, WorkerAt, WorkerGoes, WorkerState, WorkerPc
  <2>5. incoming' \in Seq(VoicePacket) /\ decoders' \in Seq(VoiceDecoder)
       /\ talking' \in [present : SUBSET Speaker, generation : [Speaker -> Nat]]
    BY <1>a, <1>31 DEF MixAndLoop
  <2> QED
    BY <2>1, <2>2, <2>3, <2>4, <2>5 DEF TypeInv, VoiceType
<1>u. ASSUME UNCHANGED voiceVars PROVE TypeInv'
  BY <1>a, <1>u DEF TypeInv, VoiceType, GameReturns, voiceVars
<1> QED
  BY <1>1, <1>2, <1>3, <1>4, <1>5, <1>6, <1>7, <1>8, <1>9, <1>10, <1>11, <1>12, <1>13, <1>14, <1>15, <1>16, <1>17, <1>18, <1>19, <1>20, <1>21, <1>22, <1>23, <1>24, <1>25, <1>26, <1>27, <1>28, <1>29, <1>30, <1>31, <1>u
     DEF VoiceNext, GameOperation, GameStep, AudioDevices, VoiceWorker

(* The echo reference is kept by every step.                                *)
LEMMA ReferenceStep ==
    ASSUME TypeInv, ReferenceInv, [VoiceNext]_voiceVars
    PROVE  ReferenceInv'
<1>a. voice \in VoiceState /\ game \in GameState /\ GameReturns /\ ReferenceInv
  BY DEF TypeInv, VoiceType
<1> USE DEF VoiceState, GameState, GamePc, GameReturns, Healthy
<1>1. ASSUME NEW e \in BOOLEAN, NEW n \in BOOLEAN, NEW dd \in {{}, {"playback"}}, StartVoice(e, n, dd) PROVE ReferenceInv'
  BY <1>a, <1>1 DEF StartVoice, VoiceIdle, GameAt, NoVoice, NothingCaptured, ReferenceInv
<1>2. ASSUME StopVoice PROVE ReferenceInv'
  BY <1>a, <1>2 DEF StopVoice, Destroying, VoiceIdle, GameAt, ReferenceInv
<1>3. ASSUME JoinWorker PROVE ReferenceInv'
  BY <1>a, <1>3 DEF JoinWorker, GameAt, GameGoesTo, NoVoice, NothingCaptured, NoWorker, ReferenceInv
<1>4. ASSUME CaptureOff PROVE ReferenceInv'
  BY <1>a, <1>4 DEF CaptureOff, VoiceIdle, GameAt, GameGoesTo, ReferenceInv
<1>5. ASSUME DisableCapture PROVE ReferenceInv'
  BY <1>a, <1>5 DEF DisableCapture, GameAt, GameGoesTo, ReferenceInv
<1>6. ASSUME UninitCapture PROVE ReferenceInv'
  BY <1>a, <1>6 DEF UninitCapture, GameAt, GameGoesTo, ReferenceInv
<1>7. ASSUME ClearCapture PROVE ReferenceInv'
  BY <1>a, <1>7 DEF ClearCapture, NewStream, GameAt, GameGoesTo, ReferenceInv
<1>8. ASSUME NEW dv \in BOOLEAN, NEW works \in BOOLEAN, CaptureOn(dv, works) PROVE ReferenceInv'
  BY <1>a, <1>8 DEF CaptureOn, VoiceIdle, GameAt, GameGoesTo, ReferenceInv
<1>9. ASSUME NEW en \in BOOLEAN, SetVoiceTransmission(en) PROVE ReferenceInv'
  BY <1>a, <1>9 DEF SetVoiceTransmission, SetTransmission, NewStream, ReferenceInv
<1>10. ASSUME NEW dv \in BOOLEAN, NEW works \in BOOLEAN, SetPlaybackDevice(dv, works) PROVE ReferenceInv'
  BY <1>a, <1>10 DEF SetPlaybackDevice, Reopened, Destroying, VoiceIdle, GameAt, GameGoesTo, ReferenceInv
<1>11. ASSUME NEW e \in BOOLEAN, NEW n \in BOOLEAN, NEW works \in BOOLEAN, SetVoiceProcessing(e, n, works) PROVE ReferenceInv'
  BY <1>a, <1>11 DEF SetVoiceProcessing, Destroying, VoiceIdle, GameAt, ReferenceInv
<1>12. ASSUME UpdateVoice PROVE ReferenceInv'
  <2>1. CASE voice.failed
    BY <1>a, <1>12, <2>1 DEF UpdateVoice, Destroying, ReferenceInv
  <2>2. CASE ~voice.failed
    <3>1. PICK c \in {"recapture", "idle"} :
            \/ game' = [pc |-> c, resume |-> voice.transmitting, then |-> c]
            \/ game' = [pc |-> "replay", resume |-> voice.transmitting, then |-> c]
      BY <1>12, <2>2 DEF UpdateVoice
    <3>2. voice' = [voice EXCEPT !.changes = {}] /\ game.pc = "idle"
      BY <1>12, <2>2 DEF UpdateVoice, VoiceIdle, GameAt
    <3> QED
      BY <1>a, <3>1, <3>2 DEF ReferenceInv
  <2> QED
    BY <2>1, <2>2
<1>13. ASSUME Recapture PROVE ReferenceInv'
  BY <1>a, <1>13 DEF Recapture, GameAt, ReferenceInv
<1>14. ASSUME ResumeTransmission PROVE ReferenceInv'
  BY <1>a, <1>14 DEF ResumeTransmission, SetTransmission, NewStream, GameAt, ReferenceInv
<1>15. ASSUME UpdateFails PROVE ReferenceInv'
  BY <1>a, <1>15 DEF UpdateFails, Destroying, GameAt, ReferenceInv
<1>16. ASSUME PollVoicePacket PROVE ReferenceInv'
  BY <1>a, <1>16 DEF PollVoicePacket, ReferenceInv
<1>17. ASSUME NEW s \in Speaker, SubmitVoicePacket(s) PROVE ReferenceInv'
  BY <1>a, <1>17 DEF SubmitVoicePacket, ReferenceInv
<1>18. ASSUME NEW s \in Speaker, NEW leaves \in BOOLEAN, RemoveVoiceSpeaker(s, leaves) PROVE ReferenceInv'
  BY <1>a, <1>18 DEF RemoveVoiceSpeaker, ReferenceInv
<1>19. ASSUME CaptureCallback PROVE ReferenceInv'
  BY <1>a, <1>19 DEF CaptureCallback, ReferenceInv
<1>20. ASSUME PlaybackCallback PROVE ReferenceInv'
  BY <1>a, <1>20 DEF PlaybackCallback, ReferenceInv
<1>21. ASSUME NEW d \in AudioDevice, DeviceStops(d) PROVE ReferenceInv'
  BY <1>a, <1>21 DEF DeviceStops, ReferenceInv
<1>22. ASSUME Wakes PROVE ReferenceInv'
  BY <1>a, <1>22 DEF Wakes, WorkerAt, WorkerGoes, ReferenceInv
<1>23. ASSUME LockCapture PROVE ReferenceInv'
  BY <1>a, <1>23 DEF LockCapture, WorkerAt, WorkerGoes, ReferenceInv
<1>24. ASSUME EncodeChunk PROVE ReferenceInv'
  BY <1>a, <1>24 DEF EncodeChunk, ReferenceInv
<1>25. ASSUME EncodeFails PROVE ReferenceInv'
  BY <1>a, <1>25 DEF EncodeFails, WorkerAt, WorkerGoes, WorkerFails, ReferenceInv
<1>26. ASSUME UnlockCapture PROVE ReferenceInv'
  BY <1>a, <1>26 DEF UnlockCapture, WorkerAt, WorkerGoes, ReferenceInv
<1>27. ASSUME TakePackets PROVE ReferenceInv'
  BY <1>a, <1>27 DEF TakePackets, ReferenceInv
<1>28. ASSUME Decode PROVE ReferenceInv'
  BY <1>a, <1>28 DEF Decode, NextPacket, WorkerFails, ReferenceInv
<1>29. ASSUME PacketExpired PROVE ReferenceInv'
  BY <1>a, <1>29 DEF PacketExpired, NextPacket, ReferenceInv
<1>30. ASSUME DecodeFails PROVE ReferenceInv'
  BY <1>a, <1>30 DEF DecodeFails, NextPacket, WorkerFails, ReferenceInv
<1>31. ASSUME MixAndLoop PROVE ReferenceInv'
  BY <1>a, <1>31 DEF MixAndLoop, WorkerAt, WorkerGoes, ReferenceInv
<1>u. ASSUME UNCHANGED voiceVars PROVE ReferenceInv'
  BY <1>a, <1>u DEF ReferenceInv, voiceVars
<1> QED
  BY <1>1, <1>2, <1>3, <1>4, <1>5, <1>6, <1>7, <1>8, <1>9, <1>10, <1>11, <1>12, <1>13, <1>14, <1>15, <1>16, <1>17, <1>18, <1>19, <1>20, <1>21, <1>22, <1>23, <1>24, <1>25, <1>26, <1>27, <1>28, <1>29, <1>30, <1>31, <1>u
     DEF VoiceNext, GameOperation, GameStep, AudioDevices, VoiceWorker

LEMMA DestroyingWakes ==
    ASSUME voice \in VoiceState, WokenInv, game.pc \notin {"uninit", "clear"}, Destroying(voice),
           UNCHANGED <<capturing, worker, incoming>>
    PROVE  WokenInv'
<1>1. game'.pc = "join" \/ game'.pc = game.pc
  BY DEF Destroying
<1>2. /\ voice'.wake /\ voice'.captureEnabled = voice.captureEnabled
      /\ game'.pc \notin {"uninit", "clear"}
  BY <1>1 DEF Destroying, VoiceState
<1> QED
  BY <1>2 DEF WokenInv, WorkerIsWoken

(* The worker is woken after every step.                                    *)
LEMMA WokenStep ==
    ASSUME VoiceAssumption, TypeInv, WokenInv, [VoiceNext]_voiceVars
    PROVE  WokenInv'
<1>a. voice \in VoiceState /\ game \in GameState /\ GameReturns /\ worker \in WorkerState /\ capturing \in CapturingState
      /\ incoming \in Seq(VoicePacket) /\ WokenInv
  BY DEF TypeInv, VoiceType
<1> USE DEF VoiceState, GameState, GamePc, GameReturns, WorkerState, WorkerPc, CapturingState
<1>1. ASSUME NEW e \in BOOLEAN, NEW n \in BOOLEAN, NEW dd \in {{}, {"playback"}}, StartVoice(e, n, dd) PROVE WokenInv'
  BY <1>a, <1>1 DEF StartVoice, VoiceIdle, GameAt, NoVoice, NothingCaptured, WokenInv, WorkerIsWoken
<1>2. ASSUME StopVoice PROVE WokenInv'
  BY <1>a, <1>2 DEF StopVoice, Destroying, VoiceIdle, GameAt, WokenInv, WorkerIsWoken
<1>3. ASSUME JoinWorker PROVE WokenInv'
  BY <1>a, <1>3 DEF JoinWorker, GameAt, GameGoesTo, NoVoice, NothingCaptured, NoWorker, WokenInv, WorkerIsWoken
<1>4. ASSUME CaptureOff PROVE WokenInv'
  BY <1>a, <1>4 DEF CaptureOff, VoiceIdle, GameAt, GameGoesTo, WokenInv, WorkerIsWoken
<1>5. ASSUME DisableCapture PROVE WokenInv'
  BY <1>a, <1>5 DEF DisableCapture, GameAt, GameGoesTo, WokenInv, WorkerIsWoken
<1>6. ASSUME UninitCapture PROVE WokenInv'
  BY <1>a, <1>6 DEF UninitCapture, GameAt, GameGoesTo, WokenInv, WorkerIsWoken
<1>7. ASSUME ClearCapture PROVE WokenInv'
  BY <1>a, <1>7 DEF ClearCapture, NewStream, GameAt, GameGoesTo, WokenInv, WorkerIsWoken
<1>8. ASSUME NEW dv \in BOOLEAN, NEW works \in BOOLEAN, CaptureOn(dv, works) PROVE WokenInv'
  BY <1>a, <1>8 DEF CaptureOn, VoiceIdle, GameAt, GameGoesTo, WokenInv, WorkerIsWoken
<1>9. ASSUME NEW en \in BOOLEAN, SetVoiceTransmission(en) PROVE WokenInv'
  BY <1>a, <1>9 DEF SetVoiceTransmission, SetTransmission, NewStream, WokenInv, WorkerIsWoken
<1>10. ASSUME NEW dv \in BOOLEAN, NEW works \in BOOLEAN, SetPlaybackDevice(dv, works) PROVE WokenInv'
  <2>1. CASE works
    BY ZenonT(60), <1>a, <1>10, <2>1 DEF SetPlaybackDevice, Reopened, VoiceIdle, GameAt, GameGoesTo, WokenInv, WorkerIsWoken
  <2>2. CASE ~works
    BY <1>a, <1>10, <2>2, DestroyingWakes DEF SetPlaybackDevice, VoiceIdle, GameAt
  <2> QED
    BY <2>1, <2>2
<1>11. ASSUME NEW e \in BOOLEAN, NEW n \in BOOLEAN, NEW works \in BOOLEAN, SetVoiceProcessing(e, n, works) PROVE WokenInv'
  <2>1. CASE works
    BY ZenonT(60), <1>a, <1>11, <2>1 DEF SetVoiceProcessing, VoiceIdle, GameAt, WokenInv, WorkerIsWoken
  <2>2. CASE ~works
    BY <1>a, <1>11, <2>2, DestroyingWakes DEF SetVoiceProcessing, VoiceIdle, GameAt
  <2> QED
    BY <2>1, <2>2
<1>12. ASSUME UpdateVoice PROVE WokenInv'
  <2>1. CASE voice.failed
    BY <1>a, <1>12, <2>1, DestroyingWakes DEF UpdateVoice, VoiceIdle, GameAt
  <2>2. CASE ~voice.failed
    <3>1. PICK c \in {"recapture", "idle"} :
            \/ game' = [pc |-> c, resume |-> voice.transmitting, then |-> c]
            \/ game' = [pc |-> "replay", resume |-> voice.transmitting, then |-> c]
      BY <1>12, <2>2 DEF UpdateVoice
    <3>2. voice' = [voice EXCEPT !.changes = {}] /\ game.pc = "idle"
      BY <1>12, <2>2 DEF UpdateVoice, VoiceIdle, GameAt
    <3>3. UNCHANGED <<capturing, worker, incoming>>
      BY <1>12 DEF UpdateVoice
    <3> QED
      BY <1>a, <3>1, <3>2, <3>3 DEF WokenInv, WorkerIsWoken
  <2> QED
    BY <2>1, <2>2
<1>13. ASSUME Recapture PROVE WokenInv'
  BY <1>a, <1>13 DEF Recapture, GameAt, WokenInv, WorkerIsWoken
<1>14. ASSUME ResumeTransmission PROVE WokenInv'
  <2>1. capturing' = capturing \/ capturing'.captured = 0
    BY <1>14 DEF ResumeTransmission, SetTransmission, NewStream
  <2>2. /\ voice'.wake = voice.wake /\ voice'.stopping = voice.stopping
        /\ voice'.captureEnabled = voice.captureEnabled
    BY <1>a, <1>14 DEF ResumeTransmission, SetTransmission
  <2>3. game.pc = "resume" /\ game'.pc = "idle" /\ UNCHANGED <<worker, incoming>>
    BY <1>a, <1>14 DEF ResumeTransmission, GameAt
  <2> QED
    BY <1>a, <2>1, <2>2, <2>3 DEF WokenInv, WorkerIsWoken
<1>15. ASSUME UpdateFails PROVE WokenInv'
  BY ZenonT(60), <1>a, <1>15 DEF UpdateFails, Destroying, GameAt, WokenInv, WorkerIsWoken
<1>16. ASSUME PollVoicePacket PROVE WokenInv'
  BY <1>a, <1>16 DEF PollVoicePacket, WokenInv, WorkerIsWoken
<1>17. ASSUME NEW s \in Speaker, SubmitVoicePacket(s) PROVE WokenInv'
  <2>0. Packet(s, talking.generation[s], FALSE) \in VoicePacket
    BY DEF TypeInv, VoiceType, Packet, VoicePacket
  <2>1. /\ incoming' = Enqueued(Packet(s, talking.generation[s], FALSE))
        /\ UNCHANGED <<game, capturing, worker>>
        /\ voice' = [voice EXCEPT !.wake = @ \/ HasRoom]
    BY <1>17 DEF SubmitVoicePacket, Packet
  <2>2. CASE HasRoom
    <3>1. voice'.wake /\ voice'.captureEnabled = voice.captureEnabled
      BY <1>a, <2>1, <2>2
    <3> QED
      BY <1>a, <2>1, <3>1 DEF WokenInv, WorkerIsWoken
  <2>3. CASE ~HasRoom
    <3>1. incoming' = incoming
      BY <2>1, <2>3 DEF Enqueued, HasRoom, Packet
    <3>2. voice' = voice
      BY <1>a, <2>1, <2>3 DEF HasRoom
    <3> QED
      BY <1>a, <2>1, <3>1, <3>2 DEF WokenInv, WorkerIsWoken
  <2> QED
    BY <2>2, <2>3
<1>18. ASSUME NEW s \in Speaker, NEW leaves \in BOOLEAN, RemoveVoiceSpeaker(s, leaves) PROVE WokenInv'
  BY <1>a, <1>18 DEF RemoveVoiceSpeaker, WokenInv, WorkerIsWoken
<1>19. ASSUME CaptureCallback PROVE WokenInv'
  BY <1>a, <1>19 DEF CaptureCallback, WokenInv, WorkerIsWoken
<1>20. ASSUME PlaybackCallback PROVE WokenInv'
  BY <1>a, <1>20 DEF PlaybackCallback, WokenInv, WorkerIsWoken
<1>21. ASSUME NEW d \in AudioDevice, DeviceStops(d) PROVE WokenInv'
  BY <1>a, <1>21 DEF DeviceStops, WokenInv, WorkerIsWoken
<1>22. ASSUME Wakes PROVE WokenInv'
  BY <1>a, <1>22 DEF Wakes, WorkerAt, WorkerGoes, WokenInv, WorkerIsWoken
<1>23. ASSUME LockCapture PROVE WokenInv'
  BY <1>a, <1>23 DEF LockCapture, WorkerAt, WorkerGoes, WokenInv, WorkerIsWoken
<1>24. ASSUME EncodeChunk PROVE WokenInv'
  BY <1>a, <1>24 DEF EncodeChunk, WokenInv, WorkerIsWoken
<1>25. ASSUME EncodeFails PROVE WokenInv'
  BY <1>a, <1>25 DEF EncodeFails, WorkerAt, WorkerGoes, WorkerFails, WokenInv, WorkerIsWoken
<1>26. ASSUME UnlockCapture PROVE WokenInv'
  BY <1>a, <1>26 DEF UnlockCapture, WorkerAt, WorkerGoes, WokenInv, WorkerIsWoken
<1>27. ASSUME TakePackets PROVE WokenInv'
  <2>1. /\ worker.pc = "swap" /\ worker'.pc = "decode" /\ incoming' = << >>
        /\ UNCHANGED <<game, voice, capturing>>
    BY <1>27 DEF TakePackets, WorkerAt
  <2> QED
    BY <1>a, <2>1 DEF WokenInv, WorkerIsWoken
<1>28. ASSUME Decode PROVE WokenInv'
  BY <1>a, <1>28 DEF Decode, NextPacket, WorkerFails, WokenInv, WorkerIsWoken
<1>29. ASSUME PacketExpired PROVE WokenInv'
  BY <1>a, <1>29 DEF PacketExpired, NextPacket, WokenInv, WorkerIsWoken
<1>30. ASSUME DecodeFails PROVE WokenInv'
  BY <1>a, <1>30 DEF DecodeFails, NextPacket, WorkerFails, WokenInv, WorkerIsWoken
<1>31. ASSUME MixAndLoop PROVE WokenInv'
  BY <1>a, <1>31 DEF MixAndLoop, WorkerAt, WorkerGoes, WokenInv, WorkerIsWoken
<1>u. ASSUME UNCHANGED voiceVars PROVE WokenInv'
  BY <1>a, <1>u DEF WokenInv, WorkerIsWoken, voiceVars
<1> QED
  BY <1>1, <1>2, <1>3, <1>4, <1>5, <1>6, <1>7, <1>8, <1>9, <1>10, <1>11, <1>12, <1>13, <1>14, <1>15, <1>16, <1>17, <1>18, <1>19, <1>20, <1>21, <1>22, <1>23, <1>24, <1>25, <1>26, <1>27, <1>28, <1>29, <1>30, <1>31, <1>u
     DEF VoiceNext, GameOperation, GameStep, AudioDevices, VoiceWorker

(* A new stream has no chunks.                                              *)
LEMMA NewStreamIsOne ==
    OfStream(NewStream) /\ NewStream.outgoing = << >> /\ NewStream.processed = << >>
  BY DEF OfStream, NewStream

(* Parts of the queues of one stream are of one stream.                     *)
LEMMA FewerChunks ==
    ASSUME NEW c \in CapturingState, OfStream(c), NEW d \in CapturingState, d.stream = c.stream,
           d.outgoing = c.outgoing \/ (c.outgoing # << >> /\ d.outgoing = Tail(c.outgoing)),
           d.processed = c.processed \/ d.processed = << >>
    PROVE  OfStream(d)
<1>1. c.outgoing \in Seq(EncodedPacket)
  BY DEF CapturingState
<1>2. ASSUME NEW i \in 1 .. Len(d.outgoing)
      PROVE  /\ d.outgoing[i].stream = c.stream
             /\ \A j \in 1 .. Len(d.outgoing[i].chunks) : d.outgoing[i].chunks[j] = c.stream
  <2>1. PICK k \in 1 .. Len(c.outgoing) : d.outgoing[i] = c.outgoing[k]
    <3>1. CASE d.outgoing = c.outgoing
      BY <3>1
    <3>2. CASE c.outgoing # << >> /\ d.outgoing = Tail(c.outgoing)
      <4>1. i + 1 \in 1 .. Len(c.outgoing) /\ d.outgoing[i] = c.outgoing[i + 1]
        BY <1>1, <3>2
      <4> QED
        BY <4>1
    <3> QED
      BY <3>1, <3>2
  <2> QED
    BY <2>1 DEF OfStream
<1>3. ASSUME NEW i \in 1 .. Len(d.processed) PROVE d.processed[i] = c.stream
  BY DEF OfStream
<1> QED
  BY <1>2, <1>3 DEF OfStream

(* Chunks stay of the running stream.                                       *)
LEMMA ChunksStep ==
    ASSUME VoiceAssumption, TypeInv, ChunksOfStream, [VoiceNext]_voiceVars
    PROVE  ChunksOfStream'
<1>a. voice \in VoiceState /\ game \in GameState /\ GameReturns /\ capturing \in CapturingState
      /\ ChunksOfStream /\ OfStream(capturing)
  BY DEF TypeInv, VoiceType, ChunksOfStream
<1>b. capturing' \in CapturingState
  BY TypeStep DEF TypeInv, VoiceType
<1> USE DEF VoiceState, GameState, GamePc, GameReturns, CapturingState
<1>1. ASSUME NEW e \in BOOLEAN, NEW n \in BOOLEAN, NEW dd \in {{}, {"playback"}}, StartVoice(e, n, dd) PROVE ChunksOfStream'
  <2>1. capturing' = NothingCaptured
    BY <1>1 DEF StartVoice
  <2> QED
    BY <2>1 DEF ChunksOfStream, OfStream, NothingCaptured
<1>2. ASSUME StopVoice PROVE ChunksOfStream'
  BY <1>a, <1>2 DEF StopVoice, Destroying, VoiceIdle, GameAt, ChunksOfStream
<1>3. ASSUME JoinWorker PROVE ChunksOfStream'
  <2>1. capturing' = NothingCaptured
    BY <1>3 DEF JoinWorker
  <2> QED
    BY <2>1 DEF ChunksOfStream, OfStream, NothingCaptured
<1>4. ASSUME CaptureOff PROVE ChunksOfStream'
  BY <1>a, <1>4 DEF CaptureOff, VoiceIdle, GameAt, GameGoesTo, ChunksOfStream
<1>5. ASSUME DisableCapture PROVE ChunksOfStream'
  BY <1>a, <1>5 DEF DisableCapture, GameAt, GameGoesTo, ChunksOfStream
<1>6. ASSUME UninitCapture PROVE ChunksOfStream'
  BY <1>a, <1>6 DEF UninitCapture, GameAt, GameGoesTo, ChunksOfStream
<1>7. ASSUME ClearCapture PROVE ChunksOfStream'
  <2>1. capturing' = NewStream
    BY <1>7 DEF ClearCapture
  <2> QED
    BY <2>1, NewStreamIsOne DEF ChunksOfStream
<1>8. ASSUME NEW dv \in BOOLEAN, NEW works \in BOOLEAN, CaptureOn(dv, works) PROVE ChunksOfStream'
  BY <1>a, <1>8 DEF CaptureOn, VoiceIdle, GameAt, GameGoesTo, ChunksOfStream
<1>9. ASSUME NEW en \in BOOLEAN, SetVoiceTransmission(en) PROVE ChunksOfStream'
  <2>1. capturing' = NewStream
    BY <1>9 DEF SetVoiceTransmission, SetTransmission
  <2> QED
    BY <2>1, NewStreamIsOne DEF ChunksOfStream
<1>10. ASSUME NEW dv \in BOOLEAN, NEW works \in BOOLEAN, SetPlaybackDevice(dv, works) PROVE ChunksOfStream'
  <2>1. capturing' = capturing /\ voice'.transmitting = voice.transmitting
    BY <1>a, <1>10 DEF SetPlaybackDevice, Reopened, Destroying
  <2>2. game.pc \notin {"disable", "uninit", "clear"}
    BY <1>10 DEF SetPlaybackDevice, VoiceIdle, GameAt
  <2> QED
    BY <1>a, <2>1, <2>2 DEF ChunksOfStream
<1>11. ASSUME NEW e \in BOOLEAN, NEW n \in BOOLEAN, NEW works \in BOOLEAN, SetVoiceProcessing(e, n, works) PROVE ChunksOfStream'
  <2>1. /\ capturing' = capturing \/ capturing' = [capturing EXCEPT !.processed = << >>]
        /\ voice'.transmitting = voice.transmitting
        /\ game.pc = "idle"
    BY <1>a, <1>11 DEF SetVoiceProcessing, Destroying, VoiceIdle, GameAt
  <2>2. OfStream(capturing') /\ capturing'.outgoing = capturing.outgoing
        /\ (capturing'.processed = capturing.processed \/ capturing'.processed = << >>)
    <3>1. capturing'.stream = capturing.stream /\ capturing'.outgoing = capturing.outgoing
          /\ (capturing'.processed = capturing.processed \/ capturing'.processed = << >>)
      BY <1>a, <2>1
    <3> QED
      BY <1>a, <1>b, <3>1, FewerChunks
  <2> QED
    BY <1>a, <2>1, <2>2 DEF ChunksOfStream
<1>12. ASSUME UpdateVoice PROVE ChunksOfStream'
  <2>1. /\ capturing' = capturing /\ voice'.transmitting = voice.transmitting /\ game.pc = "idle"
    BY <1>a, <1>12 DEF UpdateVoice, Destroying, VoiceIdle, GameAt
  <2> QED
    BY <1>a, <2>1 DEF ChunksOfStream
<1>13. ASSUME Recapture PROVE ChunksOfStream'
  BY <1>a, <1>13 DEF Recapture, GameAt, ChunksOfStream
<1>14. ASSUME ResumeTransmission PROVE ChunksOfStream'
  <2>1. CASE game.resume
    <3>1. capturing' = NewStream
      BY <1>14, <2>1 DEF ResumeTransmission, SetTransmission
    <3> QED
      BY <3>1, NewStreamIsOne DEF ChunksOfStream
  <2>2. CASE ~game.resume
    BY <1>a, <1>14, <2>2 DEF ResumeTransmission, GameAt, ChunksOfStream
  <2> QED
    BY <2>1, <2>2
<1>15. ASSUME UpdateFails PROVE ChunksOfStream'
  BY ZenonT(60), <1>a, <1>15 DEF UpdateFails, Destroying, GameAt, ChunksOfStream
<1>16. ASSUME PollVoicePacket PROVE ChunksOfStream'
  <2>1. /\ capturing'.stream = capturing.stream /\ capturing'.processed = capturing.processed
        /\ capturing'.outgoing = Tail(capturing.outgoing) /\ capturing.outgoing # << >>
        /\ UNCHANGED <<game, voice>>
    BY <1>a, <1>16 DEF PollVoicePacket
  <2>2. OfStream(capturing')
    BY <1>a, <1>b, <2>1, FewerChunks
  <2> QED
    BY <1>a, <2>1, <2>2 DEF ChunksOfStream
<1>17. ASSUME NEW s \in Speaker, SubmitVoicePacket(s) PROVE ChunksOfStream'
  BY <1>a, <1>17 DEF SubmitVoicePacket, ChunksOfStream
<1>18. ASSUME NEW s \in Speaker, NEW leaves \in BOOLEAN, RemoveVoiceSpeaker(s, leaves) PROVE ChunksOfStream'
  BY <1>a, <1>18 DEF RemoveVoiceSpeaker, ChunksOfStream
<1>19. ASSUME CaptureCallback PROVE ChunksOfStream'
  <2>1. /\ capturing'.stream = capturing.stream /\ capturing'.processed = capturing.processed
        /\ capturing'.outgoing = capturing.outgoing /\ game' = game
        /\ voice'.transmitting = voice.transmitting
    BY <1>a, <1>19 DEF CaptureCallback
  <2>2. OfStream(capturing')
    BY <1>a, <1>b, <2>1, FewerChunks
  <2> QED
    BY <1>a, <2>1, <2>2 DEF ChunksOfStream
<1>20. ASSUME PlaybackCallback PROVE ChunksOfStream'
  BY <1>a, <1>20 DEF PlaybackCallback, ChunksOfStream
<1>21. ASSUME NEW d \in AudioDevice, DeviceStops(d) PROVE ChunksOfStream'
  BY <1>a, <1>21 DEF DeviceStops, ChunksOfStream
<1>22. ASSUME Wakes PROVE ChunksOfStream'
  BY <1>a, <1>22 DEF Wakes, WorkerAt, WorkerGoes, ChunksOfStream
<1>23. ASSUME LockCapture PROVE ChunksOfStream'
  <2>1. /\ capturing'.stream = capturing.stream /\ capturing'.processed = capturing.processed
        /\ capturing'.outgoing = capturing.outgoing /\ UNCHANGED <<game, voice>>
    BY <1>a, <1>23 DEF LockCapture
  <2>2. OfStream(capturing')
    BY <1>a, <1>b, <2>1, FewerChunks
  <2> QED
    BY <1>a, <2>1, <2>2 DEF ChunksOfStream
<1>24. ASSUME EncodeChunk PROVE ChunksOfStream'
  <2> DEFINE processed == Append(capturing.processed, capturing.stream)
             packet == [stream |-> capturing.stream, chunks |-> processed]
             out == Append(capturing.outgoing, packet)
  <2>1. /\ UNCHANGED <<game, voice>>
        /\ \/ capturing' = [capturing EXCEPT !.captured = @ - 1]
           \/ /\ voice.transmitting
              /\ \E pr \in {<< >>, processed}, o \in {capturing.outgoing, out} :
                   capturing' = [capturing EXCEPT !.captured = @ - 1, !.processed = pr, !.outgoing = o]
    BY <1>24 DEF EncodeChunk
  <2>2. CASE capturing' = [capturing EXCEPT !.captured = @ - 1]
    <3>1. /\ capturing'.stream = capturing.stream /\ capturing'.processed = capturing.processed
          /\ capturing'.outgoing = capturing.outgoing
      BY <1>a, <2>2
    <3>2. OfStream(capturing')
      BY <1>a, <1>b, <3>1, FewerChunks
    <3> QED
      BY <1>a, <2>1, <3>1, <3>2 DEF ChunksOfStream
  <2>3. ASSUME voice.transmitting, NEW pr \in {<< >>, processed}, NEW o \in {capturing.outgoing, out},
               capturing' = [capturing EXCEPT !.captured = @ - 1, !.processed = pr, !.outgoing = o]
        PROVE  ChunksOfStream'
    <3>1. /\ capturing'.stream = capturing.stream /\ capturing'.processed = pr /\ capturing'.outgoing = o
          /\ voice'.transmitting
      BY <1>a, <2>1, <2>3
    <3>2. capturing.processed \in Seq(Nat) /\ capturing.stream \in Nat /\ capturing.outgoing \in Seq(EncodedPacket)
      BY <1>a
    <3>3. \A i \in 1 .. Len(processed) : processed[i] = capturing.stream
      BY <1>a, <3>2 DEF ChunksOfStream, OfStream
    <3>4. packet.stream = capturing.stream /\ packet.chunks = processed /\ packet \in EncodedPacket
      BY <3>2 DEF EncodedPacket
    <3>5. \A i \in 1 .. Len(pr) : pr[i] = capturing.stream
      BY <3>3
    <3> HIDE DEF processed, packet
    <3>6. \A i \in 1 .. Len(out) : out[i] = packet \/ (i \in 1 .. Len(capturing.outgoing) /\ out[i] = capturing.outgoing[i])
      BY <3>2, <3>4
    <3> HIDE DEF out
    <3>7. ASSUME NEW i \in 1 .. Len(o)
          PROVE  o[i].stream = capturing.stream /\ \A j \in 1 .. Len(o[i].chunks) : o[i].chunks[j] = capturing.stream
      <4>1. o[i] = packet \/ (i \in 1 .. Len(capturing.outgoing) /\ o[i] = capturing.outgoing[i])
        BY <3>6
      <4>2. CASE o[i] = packet
        BY <3>3, <3>4, <4>2
      <4>3. CASE i \in 1 .. Len(capturing.outgoing) /\ o[i] = capturing.outgoing[i]
        BY <1>a, <4>3 DEF ChunksOfStream, OfStream
      <4> QED
        BY <4>1, <4>2, <4>3
    <3>8. OfStream(capturing')
      BY <3>1, <3>5, <3>7 DEF OfStream
    <3> QED
      BY <3>1, <3>8 DEF ChunksOfStream
  <2> QED
    BY <2>1, <2>2, <2>3
<1>25. ASSUME EncodeFails PROVE ChunksOfStream'
  BY <1>a, <1>25 DEF EncodeFails, WorkerAt, WorkerGoes, WorkerFails, ChunksOfStream
<1>26. ASSUME UnlockCapture PROVE ChunksOfStream'
  BY <1>a, <1>26 DEF UnlockCapture, WorkerAt, WorkerGoes, ChunksOfStream
<1>27. ASSUME TakePackets PROVE ChunksOfStream'
  BY <1>a, <1>27 DEF TakePackets, ChunksOfStream
<1>28. ASSUME Decode PROVE ChunksOfStream'
  BY <1>a, <1>28 DEF Decode, NextPacket, WorkerFails, ChunksOfStream
<1>29. ASSUME PacketExpired PROVE ChunksOfStream'
  BY <1>a, <1>29 DEF PacketExpired, NextPacket, ChunksOfStream
<1>30. ASSUME DecodeFails PROVE ChunksOfStream'
  BY <1>a, <1>30 DEF DecodeFails, NextPacket, WorkerFails, ChunksOfStream
<1>31. ASSUME MixAndLoop PROVE ChunksOfStream'
  BY <1>a, <1>31 DEF MixAndLoop, WorkerAt, WorkerGoes, ChunksOfStream
<1>u. ASSUME UNCHANGED voiceVars PROVE ChunksOfStream'
  BY <1>a, <1>u DEF ChunksOfStream, voiceVars
<1> QED
  BY <1>1, <1>2, <1>3, <1>4, <1>5, <1>6, <1>7, <1>8, <1>9, <1>10, <1>11, <1>12, <1>13, <1>14, <1>15, <1>16, <1>17, <1>18, <1>19, <1>20, <1>21, <1>22, <1>23, <1>24, <1>25, <1>26, <1>27, <1>28, <1>29, <1>30, <1>31, <1>u
     DEF VoiceNext, GameOperation, GameStep, AudioDevices, VoiceWorker

(* The line of the packets of the speakers: what a step can do to it.       *)
LineRests == /\ UNCHANGED <<incoming, decoders, talking>>
             /\ worker'.packets = worker.packets
LineEmptied == /\ incoming' = << >> /\ decoders' = << >> /\ worker'.packets = << >>
               /\ talking' = [present |-> {}, generation |-> [s \in Speaker |-> 0]]
LineAdded(s) ==
  /\ MaySpeak(s)
  /\ UNCHANGED decoders /\ worker'.packets = worker.packets
  /\ incoming' = Enqueued(Packet(s, talking.generation[s], FALSE))
  /\ talking' = [talking EXCEPT !.present = @ \cup {s}]
LineRemoved(s) ==
  /\ MaySpeak(s)
  /\ UNCHANGED decoders /\ worker'.packets = worker.packets
  /\ incoming' = Enqueued(Packet(s, talking.generation[s], TRUE))
  /\ talking'.generation = [talking.generation EXCEPT ![s] = @ + 1]
  /\ talking'.present = talking.present \cup {s} \/ talking'.present = talking.present \ {s}
LineTaken ==
  /\ UNCHANGED <<decoders, talking>>
  /\ worker.packets = << >> /\ worker'.packets = incoming /\ incoming' = << >>
LineWorked ==
  LET p == Head(worker.packets) IN
  /\ worker.packets # << >>
  /\ UNCHANGED <<incoming, talking>>
  /\ worker'.packets = Tail(worker.packets)
  /\ \/ ~p.remove /\ decoders' = decoders
     \/ p.remove /\ decoders' = Without(decoders, p.speaker)
     \/ ~p.remove /\ DecoderOf(p.speaker) = {} /\ decoders' = NewDecoder(p)

LEMMA LineSteps ==
    ASSUME TypeInv, WokenInv, [VoiceNext]_voiceVars
    PROVE  \/ LineRests \/ LineEmptied \/ LineTaken \/ LineWorked
           \/ \E s \in Speaker : LineAdded(s) \/ LineRemoved(s)
<1> DEFINE Goal == \/ LineRests \/ LineEmptied \/ LineTaken \/ LineWorked
                   \/ \E s \in Speaker : LineAdded(s) \/ LineRemoved(s)
<1>a. worker \in WorkerState /\ talking \in [present : SUBSET Speaker, generation : [Speaker -> Nat]]
  BY DEF TypeInv, VoiceType
<1>b. worker.pc # "decode" => worker.packets = << >>
  BY DEF WokenInv
<1> USE DEF WorkerState
<1>1. ASSUME NEW e \in BOOLEAN, NEW n \in BOOLEAN, NEW dd \in {{}, {"playback"}}, StartVoice(e, n, dd) PROVE Goal
  BY <1>a, <1>1 DEF StartVoice, LineEmptied
<1>2. ASSUME StopVoice PROVE Goal
  BY <1>a, <1>2 DEF StopVoice, LineRests
<1>3. ASSUME JoinWorker PROVE Goal
  BY <1>a, <1>3 DEF JoinWorker, NoWorker, LineEmptied
<1>4. ASSUME CaptureOff PROVE Goal
  BY <1>a, <1>4 DEF CaptureOff, LineRests
<1>5. ASSUME DisableCapture PROVE Goal
  BY <1>a, <1>5 DEF DisableCapture, LineRests
<1>6. ASSUME UninitCapture PROVE Goal
  BY <1>a, <1>6 DEF UninitCapture, LineRests
<1>7. ASSUME ClearCapture PROVE Goal
  BY <1>a, <1>7 DEF ClearCapture, LineRests
<1>8. ASSUME NEW dv \in BOOLEAN, NEW works \in BOOLEAN, CaptureOn(dv, works) PROVE Goal
  BY <1>a, <1>8 DEF CaptureOn, LineRests
<1>9. ASSUME NEW en \in BOOLEAN, SetVoiceTransmission(en) PROVE Goal
  BY <1>a, <1>9 DEF SetVoiceTransmission, LineRests
<1>10. ASSUME NEW dv \in BOOLEAN, NEW works \in BOOLEAN, SetPlaybackDevice(dv, works) PROVE Goal
  BY <1>a, <1>10 DEF SetPlaybackDevice, LineRests
<1>11. ASSUME NEW e \in BOOLEAN, NEW n \in BOOLEAN, NEW works \in BOOLEAN, SetVoiceProcessing(e, n, works) PROVE Goal
  BY <1>a, <1>11 DEF SetVoiceProcessing, LineRests
<1>12. ASSUME UpdateVoice PROVE Goal
  BY <1>a, <1>12 DEF UpdateVoice, LineRests
<1>13. ASSUME Recapture PROVE Goal
  BY <1>a, <1>13 DEF Recapture, LineRests
<1>14. ASSUME ResumeTransmission PROVE Goal
  BY <1>a, <1>14 DEF ResumeTransmission, LineRests
<1>15. ASSUME UpdateFails PROVE Goal
  BY <1>a, <1>15 DEF UpdateFails, LineRests
<1>16. ASSUME PollVoicePacket PROVE Goal
  BY <1>a, <1>16 DEF PollVoicePacket, LineRests
<1>17. ASSUME NEW s \in Speaker, SubmitVoicePacket(s) PROVE Goal
  BY <1>a, <1>17 DEF SubmitVoicePacket, LineAdded, Packet
<1>18. ASSUME NEW s \in Speaker, NEW leaves \in BOOLEAN, RemoveVoiceSpeaker(s, leaves) PROVE Goal
  <2>1. /\ MaySpeak(s) /\ UNCHANGED <<decoders, worker>>
        /\ incoming' = Enqueued(Packet(s, talking.generation[s], TRUE))
        /\ talking' = [talking EXCEPT !.present = IF leaves THEN @ \ {s} ELSE @ \cup {s}, !.generation[s] = @ + 1]
    BY <1>18 DEF RemoveVoiceSpeaker, Packet
  <2>2. /\ talking'.generation = [talking.generation EXCEPT ![s] = @ + 1]
        /\ talking'.present = talking.present \cup {s} \/ talking'.present = talking.present \ {s}
    BY <1>a, <2>1
  <2>3. LineRemoved(s)
    BY <2>1, <2>2 DEF LineRemoved
  <2> QED
    BY <2>3
<1>19. ASSUME CaptureCallback PROVE Goal
  BY <1>a, <1>19 DEF CaptureCallback, LineRests
<1>20. ASSUME PlaybackCallback PROVE Goal
  BY <1>a, <1>20 DEF PlaybackCallback, LineRests
<1>21. ASSUME NEW d \in AudioDevice, DeviceStops(d) PROVE Goal
  BY <1>a, <1>21 DEF DeviceStops, LineRests
<1>22. ASSUME Wakes PROVE Goal
  BY <1>a, <1>22 DEF Wakes, WorkerAt, WorkerGoes, LineRests
<1>23. ASSUME LockCapture PROVE Goal
  BY <1>a, <1>23 DEF LockCapture, WorkerAt, WorkerGoes, LineRests
<1>24. ASSUME EncodeChunk PROVE Goal
  BY <1>a, <1>24 DEF EncodeChunk, LineRests
<1>25. ASSUME EncodeFails PROVE Goal
  BY <1>a, <1>25 DEF EncodeFails, WorkerAt, WorkerGoes, WorkerFails, LineRests
<1>26. ASSUME UnlockCapture PROVE Goal
  BY <1>a, <1>26 DEF UnlockCapture, WorkerAt, WorkerGoes, LineRests
<1>27. ASSUME TakePackets PROVE Goal
  BY <1>a, <1>b, <1>27 DEF TakePackets, WorkerAt, LineTaken
<1>28. ASSUME Decode PROVE Goal
  BY <1>a, <1>28 DEF Decode, NextPacket, LineWorked
<1>29. ASSUME PacketExpired PROVE Goal
  BY <1>a, <1>29 DEF PacketExpired, NextPacket, LineWorked
<1>30. ASSUME DecodeFails PROVE Goal
  BY <1>a, <1>30 DEF DecodeFails, NextPacket, LineWorked
<1>31. ASSUME MixAndLoop PROVE Goal
  BY <1>a, <1>31 DEF MixAndLoop, WorkerAt, WorkerGoes, LineRests
<1>u. ASSUME UNCHANGED voiceVars PROVE Goal
  BY <1>u DEF voiceVars, LineRests
<1> HIDE DEF Goal
<1>q. Goal
  BY <1>1, <1>2, <1>3, <1>4, <1>5, <1>6, <1>7, <1>8, <1>9, <1>10, <1>11, <1>12, <1>13, <1>14, <1>15, <1>16, <1>17, <1>18, <1>19, <1>20, <1>21, <1>22, <1>23, <1>24, <1>25, <1>26, <1>27, <1>28, <1>29, <1>30, <1>31, <1>u
     DEF VoiceNext, GameOperation, GameStep, AudioDevices, VoiceWorker
<1> QED
  BY <1>q DEF Goal

(* Both parts of the invariant about the line of packets are kept.          *)
LineInv == StreamsInOrder /\ RoomInv

LEMMA LineStep ==
    ASSUME VoiceAssumption, TypeInv, WokenInv, LineInv, [VoiceNext]_voiceVars
    PROVE  LineInv'
<1>a. /\ worker \in WorkerState /\ worker.packets \in Seq(VoicePacket)
      /\ incoming \in Seq(VoicePacket) /\ decoders \in Seq(VoiceDecoder)
      /\ talking \in [present : SUBSET Speaker, generation : [Speaker -> Nat]]
      /\ talking.generation \in [Speaker -> Nat]
  BY DEF TypeInv, VoiceType, WorkerState
<1>b. /\ OneStream(incoming, worker.packets, decoders, talking.generation)
      /\ Room(incoming, worker.packets, decoders, talking.generation, talking.present)
  BY DEF LineInv, StreamsInOrder, RoomInv
<1>c. MaxSpeakers \in Nat /\ MaxSpeakers > 0
  BY DEF VoiceAssumption
<1> DEFINE Goal == /\ OneStream(incoming', worker'.packets, decoders', talking'.generation)
                   /\ Room(incoming', worker'.packets, decoders', talking'.generation, talking'.present)
<1>1. ASSUME LineRests PROVE Goal
  BY <1>1, <1>b DEF LineRests
<1>2. ASSUME LineEmptied PROVE Goal
  <2>1. /\ incoming' = << >> /\ worker'.packets = << >> /\ decoders' = << >> /\ talking'.present = {}
    BY <1>2 DEF LineEmptied
  <2>2. Len(<< >>) = 0 /\ 1 .. 0 = {} /\ Crowd({})
    BY <1>c, FS_EmptySet DEF Crowd
  <2>3. OneStream(<< >>, << >>, << >>, talking'.generation)
    BY <2>2 DEF OneStream, RemovalsFirst
  <2>4. Room(<< >>, << >>, << >>, talking'.generation, {})
    BY <2>2 DEF Room, OneDecoderEach, DepartedAreSilent, Speaks
  <2> QED
    BY <2>1, <2>3, <2>4
<1>3. ASSUME LineTaken PROVE Goal
  <2>1. /\ incoming' = << >> /\ worker'.packets = incoming /\ decoders' = decoders /\ talking' = talking
        /\ worker.packets = << >>
    BY <1>3 DEF LineTaken
  <2>2. OneStream(incoming, << >>, decoders, talking.generation)
        /\ Room(incoming, << >>, decoders, talking.generation, talking.present)
    BY <1>b, <2>1
  <2>3. OneStream(<< >>, incoming, decoders, talking.generation)
    BY <1>a, <2>2, StreamTake
  <2>4. Room(<< >>, incoming, decoders, talking.generation, talking.present)
    BY <1>a, <2>2, RoomTake
  <2> QED
    BY <2>1, <2>3, <2>4
<1>4. ASSUME LineWorked PROVE Goal
  <2> DEFINE P == worker.packets
             p == Head(worker.packets)
  <2>1. /\ P # << >> /\ p = P[1] /\ UNCHANGED <<incoming, talking>> /\ IsTail(worker'.packets, P)
        /\ 1 \in 1 .. Len(P)
    BY <1>4, <1>a DEF LineWorked, IsTail
  <2>2. CASE ~P[1].remove /\ decoders' = decoders
    <3>1. OneStream(incoming, worker'.packets, decoders, talking.generation)
      BY <1>a, <1>b, <2>1, <2>2, StreamDrop
    <3>2. Room(incoming, worker'.packets, decoders, talking.generation, talking.present)
      BY <1>a, <1>b, <2>1, <2>2, RoomDrop
    <3> QED
      BY <2>1, <2>2, <3>1, <3>2
  <2>3. CASE P[1].remove /\ decoders' = Without(decoders, P[1].speaker)
    <3>1. /\ decoders' \in Seq(VoiceDecoder)
          /\ Thinned(decoders', decoders, {d \in 1 .. Len(decoders) : decoders[d].speaker # P[1].speaker})
      BY <1>a, <2>3, WithoutFacts
    <3>2. OneStream(incoming, worker'.packets, decoders', talking.generation)
      BY <1>a, <1>b, <2>1, <2>3, <3>1, StreamRemoveDecoder
    <3>3. Room(incoming, worker'.packets, decoders', talking.generation, talking.present)
      BY <1>a, <1>b, <2>1, <2>3, <3>1, RoomRemoveDecoder
    <3> QED
      BY <2>1, <3>2, <3>3
  <2>4. CASE ~P[1].remove /\ DecoderOf(P[1].speaker) = {} /\ decoders' = NewDecoder(P[1])
    <3>1. ~HasDecoder(decoders, P[1].speaker)
      <4>1. DOMAIN decoders = 1 .. Len(decoders)
        BY <1>a
      <4> QED
        BY <2>4, <4>1 DEF HasDecoder, DecoderOf
    <3>2. decoders' = Append(decoders, [speaker |-> P[1].speaker, generation |-> P[1].generation])
      BY <2>4 DEF NewDecoder
    <3>3. OneStream(incoming, worker'.packets, decoders', talking.generation)
      BY <1>a, <1>b, <2>1, <2>4, <3>2, StreamMakeDecoder
    <3>4. Room(incoming, worker'.packets, decoders', talking.generation, talking.present)
      BY <1>a, <1>b, <2>1, <2>4, <3>1, <3>2, RoomMakeDecoder
    <3> QED
      BY <2>1, <3>3, <3>4
  <2> QED
    BY <1>4, <2>1, <2>2, <2>3, <2>4 DEF LineWorked
<1>5. ASSUME NEW s \in Speaker, LineAdded(s) PROVE Goal
  <2> DEFINE p == Packet(s, talking.generation[s], FALSE)
  <2>1. /\ p \in VoicePacket /\ ~p.remove /\ p.speaker = s /\ Current(p, talking.generation)
    BY <1>a DEF Packet, VoicePacket, Current
  <2>2. /\ UNCHANGED decoders /\ worker'.packets = worker.packets /\ incoming' = Enqueued(p)
        /\ talking'.present = talking.present \cup {s} /\ talking'.generation = talking.generation
        /\ s \in talking.present \/ (talking.generation[s] = 0 /\ Cardinality(talking.present) < MaxSpeakers - 1)
    BY <1>5, <1>a DEF LineAdded, MaySpeak
  <2> HIDE DEF p
  <2>3. CASE incoming' = incoming
    <3>1. Room(incoming, worker.packets, decoders, talking.generation, talking'.present)
      BY <1>a, <1>b, <1>c, <2>2, RoomRefused
    <3> QED
      BY <1>b, <2>2, <2>3, <3>1
  <2>4. ASSUME NEW w \in Seq(VoicePacket), NEW I \in SUBSET (1 .. Len(incoming)),
               Thinned(w, incoming, I), incoming' = Append(w, p),
               \A i \in 1 .. Len(incoming) : incoming[i].remove => i \in I
        PROVE  Goal
    <3>1. IsAppended(incoming', w, p)
      BY <2>4 DEF IsAppended
    <3>2. OneStream(incoming', worker.packets, decoders, talking.generation)
      BY <1>a, <1>b, <2>1, <2>4, <3>1, StreamSubmit
    <3>3. Room(incoming', worker.packets, decoders, talking.generation, talking'.present)
      BY <1>a, <1>b, <1>c, <2>1, <2>2, <2>4, <3>1, RoomSubmit
    <3> QED
      BY <2>2, <3>2, <3>3
  <2> HIDE DEF Goal
  <2> QED
    BY <1>a, <2>1, <2>2, <2>3, <2>4, EnqueuedFacts
<1>6. ASSUME NEW s \in Speaker, LineRemoved(s) PROVE Goal
  <2> DEFINE p == Packet(s, talking.generation[s], TRUE)
  <2>1. /\ p \in VoicePacket /\ p.remove /\ p.speaker = s
    BY <1>a DEF Packet, VoicePacket
  <2>2. /\ UNCHANGED decoders /\ worker'.packets = worker.packets /\ incoming' = Enqueued(p)
        /\ talking'.generation = [talking.generation EXCEPT ![s] = @ + 1]
        /\ talking'.present = talking.present \cup {s} \/ talking'.present = talking.present \ {s}
        /\ s \in talking.present \/ (talking.generation[s] = 0 /\ Cardinality(talking.present) < MaxSpeakers - 1)
    BY <1>6, <1>a DEF LineRemoved, MaySpeak
  <2> HIDE DEF p
  <2>3. PICK w \in Seq(VoicePacket) :
          /\ Thinned(w, incoming, {i \in 1 .. Len(incoming) : incoming[i].speaker # p.speaker})
          /\ incoming' = Append(w, p)
    BY ZenonT(60), <1>a, <2>1, <2>2, EnqueuedFacts
  <2>4. IsAppended(incoming', w, p)
    BY <2>3 DEF IsAppended
  <2>5. /\ talking'.generation = [talking.generation EXCEPT ![p.speaker] = @ + 1]
        /\ talking'.present = talking.present \cup {p.speaker} \/ talking'.present = talking.present \ {p.speaker}
        /\ \/ p.speaker \in talking.present
           \/ talking.generation[p.speaker] = 0 /\ Cardinality(talking.present) < MaxSpeakers - 1
    BY <2>1, <2>2
  <2>6. OneStream(incoming', worker.packets, decoders, talking'.generation)
    BY <1>a, <1>b, <2>1, <2>3, <2>4, <2>5, StreamRemove
  <2>7. Room(incoming', worker.packets, decoders, talking'.generation, talking'.present)
    BY <1>a, <1>b, <1>c, <2>1, <2>3, <2>4, <2>5, RoomRemove
  <2> QED
    BY <2>2, <2>6, <2>7
<1> HIDE DEF Goal
<1>7. Goal
  BY <1>1, <1>2, <1>3, <1>4, <1>5, <1>6, LineSteps
<1> QED
  BY <1>7 DEF Goal, LineInv, StreamsInOrder, RoomInv

-----------------------------------------------------------------------------
(* The invariant of the voice: its parts hold at first and after each step. *)
VoiceInv == TypeInv /\ ChunksOfStream /\ ReferenceInv /\ WokenInv /\ LineInv

LEMMA VoiceInitInv ==
    ASSUME VoiceAssumption, VoiceInit
    PROVE  VoiceInv
<1>1. /\ game = [pc |-> "idle", resume |-> FALSE, then |-> "idle"] /\ voice = NoVoice
      /\ capturing = NothingCaptured /\ worker = NoWorker /\ incoming = << >> /\ decoders = << >>
      /\ talking = [present |-> {}, generation |-> [s \in Speaker |-> 0]]
  BY DEF VoiceInit
<1>2. TypeInv
  <2>1. game \in GameState /\ GameReturns
    BY <1>1 DEF GameState, GamePc, GameReturns
  <2>2. voice \in VoiceState
    BY <1>1 DEF VoiceState, NoVoice
  <2>3. capturing \in CapturingState
    BY <1>1 DEF CapturingState, NothingCaptured
  <2>4. worker \in WorkerState
    BY <1>1 DEF WorkerState, WorkerPc, NoWorker
  <2>5. incoming \in Seq(VoicePacket) /\ decoders \in Seq(VoiceDecoder)
    BY <1>1
  <2>6. talking \in [present : SUBSET Speaker, generation : [Speaker -> Nat]]
    BY <1>1
  <2> QED
    BY <2>1, <2>2, <2>3, <2>4, <2>5, <2>6 DEF TypeInv, VoiceType
<1>3. ChunksOfStream
  BY <1>1 DEF ChunksOfStream, OfStream, NothingCaptured
<1>4. ReferenceInv
  BY <1>1 DEF ReferenceInv, NoVoice
<1>5. WokenInv
  BY <1>1 DEF WokenInv, WorkerIsWoken, NoVoice, NoWorker, NothingCaptured
<1>6. LineInv
  <2>1. incoming = << >> /\ worker.packets = << >> /\ decoders = << >> /\ talking.present = {}
    BY <1>1 DEF NoWorker
  <2>2. Len(<< >>) = 0 /\ 1 .. 0 = {} /\ Crowd({})
    BY FS_EmptySet DEF Crowd, VoiceAssumption
  <2>3. OneStream(<< >>, << >>, << >>, talking.generation)
    BY <2>2 DEF OneStream, RemovalsFirst
  <2>4. Room(<< >>, << >>, << >>, talking.generation, {})
    BY <2>2 DEF Room, OneDecoderEach, DepartedAreSilent, Speaks
  <2> QED
    BY <2>1, <2>3, <2>4 DEF LineInv, StreamsInOrder, RoomInv
<1> QED
  BY <1>2, <1>3, <1>4, <1>5, <1>6 DEF VoiceInv

(* The types of the voice runtime, the order of what is queued, the life of *)
(* its worker and the mailboxes of its speakers (realms_voice.cpp).         *)
THEOREM VoiceInvariant == VoiceSpec => []VoiceInv
<1>1. VoiceInit => VoiceInv
  BY VoiceInitInv, VoiceAssumption
<1>2. VoiceInv /\ [VoiceNext]_voiceVars => VoiceInv'
  <2> SUFFICES ASSUME VoiceInv, [VoiceNext]_voiceVars PROVE VoiceInv'
    OBVIOUS
  <2>1. TypeInv /\ ChunksOfStream /\ ReferenceInv /\ WokenInv /\ LineInv
    BY DEF VoiceInv
  <2>2. TypeInv'
    BY <2>1, TypeStep, VoiceAssumption
  <2>3. ChunksOfStream'
    BY <2>1, ChunksStep, VoiceAssumption
  <2>4. ReferenceInv'
    BY <2>1, ReferenceStep
  <2>5. WokenInv'
    BY <2>1, WokenStep, VoiceAssumption
  <2>6. LineInv'
    BY <2>1, LineStep, VoiceAssumption
  <2> QED
    BY <2>2, <2>3, <2>4, <2>5, <2>6 DEF VoiceInv
<1> QED
  BY <1>1, <1>2, PTL DEF VoiceSpec

(* Push-to-talk (encode_capture, new_stream, set_transmission in            *)
(* realms_voice.cpp): between two operations everything that waits to be    *)
(* encoded or sent belongs to the running transmission, whatever the sizes  *)
(* of the frames and queues and however the worker and the game thread meet. *)
THEOREM TransmissionsCorrect == VoiceSpec => []OnlyTheRunningTransmission
<1>1. VoiceInv => OnlyTheRunningTransmission
  <2> SUFFICES ASSUME VoiceInv, VoiceIdle
               PROVE  /\ \A i \in DOMAIN capturing.outgoing :
                           /\ capturing.outgoing[i].stream = capturing.stream
                           /\ \A j \in DOMAIN capturing.outgoing[i].chunks :
                                capturing.outgoing[i].chunks[j] = capturing.outgoing[i].stream
                      /\ \A i \in DOMAIN capturing.processed : capturing.processed[i] = capturing.stream
                      /\ capturing.outgoing # << >> \/ capturing.processed # << >> => voice.transmitting
    BY DEF OnlyTheRunningTransmission
  <2>1. capturing.outgoing \in Seq(EncodedPacket) /\ capturing.processed \in Seq(Nat)
    BY DEF VoiceInv, TypeInv, VoiceType, CapturingState
  <2>2. OfStream(capturing)
    BY DEF VoiceInv, ChunksOfStream
  <2>3. capturing.outgoing # << >> \/ capturing.processed # << >> => voice.transmitting
    BY DEF VoiceInv, ChunksOfStream, VoiceIdle, GameAt
  <2>4. ASSUME NEW i \in DOMAIN capturing.outgoing, NEW j \in DOMAIN capturing.outgoing[i].chunks
        PROVE  capturing.outgoing[i].chunks[j] = capturing.outgoing[i].stream
    <3>1. i \in 1 .. Len(capturing.outgoing) /\ capturing.outgoing[i] \in EncodedPacket
      BY <2>1
    <3>2. capturing.outgoing[i].chunks \in Seq(Nat)
      BY <3>1 DEF EncodedPacket
    <3>3. j \in 1 .. Len(capturing.outgoing[i].chunks)
      BY <3>2
    <3> QED
      BY <2>2, <3>1, <3>3 DEF OfStream
  <2>5. ASSUME NEW i \in DOMAIN capturing.outgoing PROVE capturing.outgoing[i].stream = capturing.stream
    BY <2>1, <2>2 DEF OfStream
  <2>6. ASSUME NEW i \in DOMAIN capturing.processed PROVE capturing.processed[i] = capturing.stream
    <3>1. i \in 1 .. Len(capturing.processed)
      BY <2>1
    <3> QED
      BY <2>2, <3>1 DEF OfStream
  <2> QED
    BY <2>3, <2>4, <2>5, <2>6
<1> QED
  BY <1>1, VoiceInvariant, PTL

(* Voices of others (enqueue_packet, decode_packet, refresh_capture and the *)
(* worker's loop in realms_voice.cpp): a packet is decoded by the decoder   *)
(* of its own stream, a new speaker always finds room, the echo reference   *)
(* runs exactly while it is of use, and the worker never sleeps while       *)
(* something waits for it, for any number of members and any capacity of    *)
(* the queue.                                                               *)
THEOREM SpeakersCorrect == VoiceSpec => []SpeakersAreHeard
<1>1. VoiceInv => SpeakersAreHeard
  <2> SUFFICES ASSUME VoiceInv PROVE SpeakersAreHeard
    OBVIOUS
  <2>1. DecodersFollowStreams
    <3> DEFINE P == worker.packets
    <3> SUFFICES ASSUME P # << >>, ~Head(P).remove
                 PROVE  /\ \A i \in DecoderOf(Head(P).speaker) : decoders[i].generation = Head(P).generation
                        /\ DecoderOf(Head(P).speaker) = {} => Len(decoders) < MaxSpeakers
      BY DEF DecodersFollowStreams
    <3>1. /\ P \in Seq(VoicePacket) /\ incoming \in Seq(VoicePacket) /\ decoders \in Seq(VoiceDecoder)
          /\ talking.generation \in [Speaker -> Nat]
      BY DEF VoiceInv, TypeInv, VoiceType, WorkerState
    <3>2. /\ OneStream(incoming, P, decoders, talking.generation)
          /\ Room(incoming, P, decoders, talking.generation, talking.present)
      BY DEF VoiceInv, LineInv, StreamsInOrder, RoomInv
    <3>3. Head(P) = P[1] /\ DOMAIN decoders = 1 .. Len(decoders)
      BY <3>1
    <3>4. MaxSpeakers \in Nat
      BY VoiceAssumption DEF VoiceAssumption
    <3> HIDE DEF P
    <3>5. /\ \A d \in 1 .. Len(decoders) : decoders[d].speaker = P[1].speaker
                                              => decoders[d].generation = P[1].generation
          /\ Len(decoders) < MaxSpeakers
      BY <3>1, <3>2, <3>3, <3>4, RoomAtHead
    <3> QED
      BY <3>3, <3>5 DEF DecoderOf
  <2>2. ReferenceFollowsCapture
    BY DEF VoiceInv, ReferenceInv, ReferenceFollowsCapture, VoiceIdle, GameAt
  <2>3. WorkerIsWoken
    BY DEF VoiceInv, WokenInv
  <2> QED
    BY <2>1, <2>2, <2>3 DEF SpeakersAreHeard
<1> QED
  BY <1>1, VoiceInvariant, PTL

=============================================================================
