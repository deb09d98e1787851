---------------------------- MODULE Lists_proofs ----------------------------
(***************************************************************************)
(* What Select returns, by induction over the natural numbers in the form  *)
(* of its least counterexample (WFMin), the form the provers can apply;    *)
(* and what RemoveAt leaves behind.                                        *)
(***************************************************************************)
EXTENDS Lists, SequencesExt, SequenceTheorems, WellFoundedInduction, TLAPS

LEMMA Least == ASSUME NEW T, T \subseteq Nat, T # {}
               PROVE  \E x \in T : \A y \in T : x <= y
<1>1. PICK x \in T : \A y \in T : ~(<<y, x>> \in OpToRel(<, Nat))
  BY NatLessThanWellFounded, WFMin
<1>2. ASSUME NEW y \in T  PROVE ~(y < x)
  BY <1>1 DEF OpToRel
<1> QED
  BY <1>2

LEMMA MinIsLeast == ASSUME NEW T, T \subseteq Nat, T # {}
                    PROVE  Min(T) \in T /\ \A y \in T : Min(T) <= y
  BY Least DEF Min

(***************************************************************************)
(* The recursive function in Select is what it says: for every n some f    *)
(* satisfies its equation on 0 .. n.                                       *)
(***************************************************************************)
Step(s, K, f, n) ==
  IF n = 0 THEN <<>> ELSE IF n \in K THEN Append(f[n - 1], s[n]) ELSE f[n - 1]
Computes(s, K, f, n) == f = [m \in 0 .. n |-> Step(s, K, f, m)]

LEMMA StepsExist ==
  ASSUME NEW s, NEW K, NEW N \in Nat  PROVE \E f : Computes(s, K, f, N)
<1> DEFINE T == {n \in Nat : ~\E f : Computes(s, K, f, n)}
<1>1. SUFFICES ASSUME T # {}  PROVE FALSE
  OBVIOUS
<1>2. PICK n \in T : \A m \in T : n <= m
  <2> HIDE DEF T
  <2>1. T \subseteq Nat
    BY DEF T
  <2> QED
    BY <1>1, <2>1, Least
<1>3. CASE n = 0
  <2>1. [m \in 0 .. 0 |-> <<>>] = [m \in 0 .. 0 |-> Step(s, K, [j \in 0 .. 0 |-> <<>>], m)]
    BY DEF Step
  <2> QED
    BY <1>2, <1>3, <2>1 DEF Computes
<1>4. CASE n # 0
  <2>1. n - 1 \in Nat /\ n - 1 \notin T
    BY <1>2, <1>4
  <2>2. PICK f : Computes(s, K, f, n - 1)
    BY <2>1
  <2> DEFINE g == [m \in 0 .. n |-> IF m = n THEN Step(s, K, f, n) ELSE f[m]]
  <2>3. ASSUME NEW m \in 0 .. n  PROVE g[m] = Step(s, K, g, m)
    <3>1. m # 0 => g[m - 1] = f[m - 1]
      BY <1>2, <2>3
    <3>2. Step(s, K, g, m) = Step(s, K, f, m)
      BY <3>1 DEF Step
    <3>3. CASE m = n
      BY <3>2, <3>3
    <3>4. CASE m # n
      <4>1. m \in 0 .. n - 1 /\ g[m] = f[m]
        BY <1>2, <2>3, <3>4
      <4> QED
        BY <2>2, <3>2, <4>1 DEF Computes
    <3> QED
      BY <3>3, <3>4
  <2>4. Computes(s, K, g, n)
    BY <2>3 DEF Computes
  <2> QED
    BY <1>2, <2>4
<1> QED
  BY <1>3, <1>4

LEMMA SelectComputed ==
  ASSUME NEW s, NEW K, Len(s) \in Nat
  PROVE  \E f : Computes(s, K, f, Len(s)) /\ Select(s, K) = f[Len(s)]
<1> DEFINE F == CHOOSE f : f = [n \in 0 .. Len(s) |->
        IF n = 0 THEN <<>> ELSE IF n \in K THEN Append(f[n - 1], s[n]) ELSE f[n - 1]]
<1>1. PICK f : Computes(s, K, f, Len(s))
  BY StepsExist
<1>2. f = [n \in 0 .. Len(s) |->
        IF n = 0 THEN <<>> ELSE IF n \in K THEN Append(f[n - 1], s[n]) ELSE f[n - 1]]
  BY <1>1, Zenon DEF Computes, Step
<1>3. F = [n \in 0 .. Len(s) |->
        IF n = 0 THEN <<>> ELSE IF n \in K THEN Append(F[n - 1], s[n]) ELSE F[n - 1]]
  BY <1>2, Zenon
<1>4. Computes(s, K, F, Len(s))
  BY <1>3, Zenon DEF Computes, Step
<1>5. Select(s, K) = F[Len(s)]
  BY DEF Select
<1> QED
  BY <1>4, <1>5

(***************************************************************************)
(* Its value, step by step.                                                *)
(***************************************************************************)
\* u has the elements of s at the positions K up to n, in their order: h says where
\* they come from.
Selects(s, K, n, u) ==
  \E h : /\ Len(u) \in Nat /\ h \in [1 .. Len(u) -> K \cap 1 .. n]
         /\ \A i, j \in 1 .. Len(u) : i < j => h[i] < h[j]
         /\ \A k \in K \cap 1 .. n : \E i \in 1 .. Len(u) : h[i] = k
         /\ u = [i \in 1 .. Len(u) |-> s[h[i]]]

LEMMA SelectsNothing == ASSUME NEW s, NEW K  PROVE Selects(s, K, 0, <<>>)
<1> DEFINE h == [i \in 1 .. 0 |-> 0]
<1>1. Len(<<>>) = 0 /\ 1 .. 0 = {} /\ <<>> = [i \in 1 .. 0 |-> s[h[i]]]
  OBVIOUS
<1>2. h \in [1 .. 0 -> K \cap 1 .. 0]
  BY <1>1
<1> HIDE DEF h
<1> QED
  BY <1>1, <1>2 DEF Selects

LEMMA SelectsNot ==
  ASSUME NEW s, NEW K, NEW n \in Nat, n \notin K, n > 0, NEW u, Selects(s, K, n - 1, u)
  PROVE  Selects(s, K, n, u)
<1>1. K \cap 1 .. n = K \cap 1 .. n - 1
  OBVIOUS
<1> QED
  BY <1>1 DEF Selects

LEMMA SelectsOne ==
  ASSUME NEW S, NEW s \in Seq(S), NEW K, NEW n \in 1 .. Len(s), n \in K,
         NEW u \in Seq(S), Selects(s, K, n - 1, u)
  PROVE  Selects(s, K, n, Append(u, s[n]))
<1>1. PICK h : /\ Len(u) \in Nat /\ h \in [1 .. Len(u) -> K \cap 1 .. n - 1]
               /\ \A i, j \in 1 .. Len(u) : i < j => h[i] < h[j]
               /\ \A k \in K \cap 1 .. n - 1 : \E i \in 1 .. Len(u) : h[i] = k
               /\ u = [i \in 1 .. Len(u) |-> s[h[i]]]
  BY DEF Selects
<1> DEFINE m == Len(u) + 1
           g == [i \in 1 .. m |-> IF i = m THEN n ELSE h[i]]
           w == Append(u, s[n])
<1>2. n \in Nat /\ Len(u) \in Nat /\ m \in Nat
  BY <1>1
<1>3. Len(w) = m /\ w = [i \in 1 .. m |-> IF i = m THEN s[n] ELSE u[i]]
  OBVIOUS
<1>4. \A i \in 1 .. m : i # m => i \in 1 .. Len(u)
  BY <1>2
<1>5. \A i \in 1 .. Len(u) : i \in 1 .. m /\ i # m /\ i < m /\ g[i] = h[i]
  BY <1>2
<1>6. \A i \in 1 .. Len(u) : h[i] \in K /\ h[i] \in 1 .. n - 1
  BY <1>1
<1>7. g[m] = n
  BY <1>2
<1>8. g \in [1 .. m -> K \cap 1 .. n]
  <2>1. \A i \in 1 .. m : (IF i = m THEN n ELSE h[i]) \in K \cap 1 .. n
    BY <1>2, <1>4, <1>6
  <2> QED
    BY <2>1
<1>9. ASSUME NEW i \in 1 .. m, NEW j \in 1 .. m, i < j  PROVE g[i] < g[j]
  <2>1. i \in 1 .. Len(u) /\ g[i] = h[i] /\ h[i] \in 1 .. n - 1
    BY <1>2, <1>4, <1>5, <1>6, <1>9
  <2>2. CASE j = m
    BY <1>2, <1>7, <2>1, <2>2
  <2>3. CASE j # m
    BY <1>1, <1>4, <1>5, <1>9, <2>1, <2>3
  <2> QED
    BY <2>2, <2>3
<1>10. ASSUME NEW k \in K \cap 1 .. n  PROVE \E i \in 1 .. m : g[i] = k
  <2>1. CASE k = n
    BY <1>2, <1>7, <2>1
  <2>2. CASE k # n
    <3>1. k \in K \cap 1 .. n - 1
      BY <1>2, <1>10, <2>2
    <3> QED
      BY <1>1, <1>5, <3>1
  <2> QED
    BY <2>1, <2>2
<1>11. w = [i \in 1 .. m |-> s[g[i]]]
  <2>1. ASSUME NEW i \in 1 .. m  PROVE w[i] = s[g[i]]
    BY <1>1, <1>3, <1>4, <1>5, <1>7
  <2> HIDE DEF g
  <2> QED
    BY <1>3, <2>1
<1> HIDE DEF g, w, m
<1>12. /\ Len(w) \in Nat /\ g \in [1 .. Len(w) -> K \cap 1 .. n]
       /\ \A i, j \in 1 .. Len(w) : i < j => g[i] < g[j]
       /\ \A k \in K \cap 1 .. n : \E i \in 1 .. Len(w) : g[i] = k
       /\ w = [i \in 1 .. Len(w) |-> s[g[i]]]
  BY <1>2, <1>3, <1>8, <1>9, <1>10, <1>11
<1>13. Selects(s, K, n, w)
  BY <1>12, Zenon DEF Selects
<1> QED
  BY <1>13 DEF w

LEMMA StepSelects ==
  ASSUME NEW S, NEW s \in Seq(S), NEW K, NEW N \in Nat, N <= Len(s), NEW f, Computes(s, K, f, N)
  PROVE  f[N] \in Seq(S) /\ Selects(s, K, N, f[N])
<1> DEFINE T == {n \in 0 .. N : ~(f[n] \in Seq(S) /\ Selects(s, K, n, f[n]))}
<1>1. SUFFICES ASSUME T # {}  PROVE FALSE
  OBVIOUS
<1>2. PICK n \in T : \A m \in T : n <= m
  <2> HIDE DEF T
  <2>1. T \subseteq Nat
    BY DEF T
  <2> QED
    BY <1>1, <2>1, Least
<1>3. n \in Nat /\ n <= Len(s) /\ n <= N /\ f[n] = Step(s, K, f, n)
  <2>1. n \in 0 .. N /\ Len(s) \in Nat
    BY <1>2
  <2> QED
    BY <2>1 DEF Computes
<1>4. CASE n = 0
  <2>1. f[n] = <<>>
    BY <1>3, <1>4 DEF Step
  <2>2. f[n] \in Seq(S)
    BY <2>1
  <2>3. Selects(s, K, n, f[n])
    BY <1>4, <2>1, SelectsNothing
  <2> QED
    BY <1>2, <2>2, <2>3
<1>5. CASE n > 0
  <2>1. f[n - 1] \in Seq(S) /\ Selects(s, K, n - 1, f[n - 1]) /\ n \in 1 .. Len(s)
    <3>1. n - 1 \in 0 .. N /\ ~(n <= n - 1)
      BY <1>3, <1>5
    <3> QED
      BY <1>2, <1>3, <1>5, <3>1
  <2>2. CASE n \in K
    <3>1. f[n] = Append(f[n - 1], s[n])
      BY <1>3, <1>5, <2>2 DEF Step
    <3>2. Append(f[n - 1], s[n]) \in Seq(S)
      BY <2>1
    <3>3. Selects(s, K, n, Append(f[n - 1], s[n]))
      BY <2>1, <2>2, SelectsOne
    <3> QED
      BY <1>2, <3>1, <3>2, <3>3
  <2>3. CASE n \notin K
    BY <1>2, <1>3, <1>5, <2>1, <2>3, SelectsNot DEF Step
  <2> QED
    BY <2>2, <2>3
<1> QED
  BY <1>3, <1>4, <1>5

\* The elements of Select(s, K) come from the positions h, in the order they had.
Order(s, K, h) ==
  LET n == Len(Select(s, K))
  IN /\ h \in [1 .. n -> K]
     /\ \A i, j \in 1 .. n : i < j => h[i] < h[j]
     /\ \A k \in K : \E i \in 1 .. n : h[i] = k
     /\ \A i \in 1 .. n : Select(s, K)[i] = s[h[i]]

\* Select removes nothing but what it is told to remove, and keeps the order.
THEOREM SelectOrder ==
  ASSUME NEW S, NEW s \in Seq(S), NEW K, K \subseteq DOMAIN s
  PROVE  Select(s, K) \in Seq(S) /\ \E h : Order(s, K, h)
<1>1. PICK f : Computes(s, K, f, Len(s)) /\ Select(s, K) = f[Len(s)]
  BY SelectComputed
<1>2. Select(s, K) \in Seq(S) /\ Selects(s, K, Len(s), Select(s, K))
  BY <1>1, StepSelects
<1>3. K \cap 1 .. Len(s) = K
  OBVIOUS
<1> DEFINE n == Len(Select(s, K))
<1>4. PICK h : /\ h \in [1 .. n -> K]
               /\ \A i, j \in 1 .. n : i < j => h[i] < h[j]
               /\ \A k \in K : \E i \in 1 .. n : h[i] = k
               /\ Select(s, K) = [i \in 1 .. n |-> s[h[i]]]
  BY <1>2, <1>3 DEF Selects
<1> HIDE DEF n
<1>5. \A i \in 1 .. n : Select(s, K)[i] = s[h[i]]
  BY <1>4
<1> USE DEF n
<1> QED
  BY <1>2, <1>4, <1>5, Zenon DEF Order

\* The list does not get longer.
LEMMA SelectShorter ==
  ASSUME NEW S, NEW s \in Seq(S), NEW K, K \subseteq DOMAIN s
  PROVE  Len(Select(s, K)) <= Len(s)
<1> DEFINE n == Len(Select(s, K))
<1>1. n \in Nat /\ K \subseteq 1 .. Len(s) /\ Len(s) \in Nat
  BY SelectOrder
<1>2. PICK h : /\ h \in [1 .. n -> K]
               /\ \A i, j \in 1 .. n : i < j => h[i] < h[j]
  BY SelectOrder DEF Order
<1> HIDE DEF n
<1> DEFINE T == {i \in 1 .. n : h[i] < i}
<1>3. T = {}
  <2>1. SUFFICES ASSUME T # {}  PROVE FALSE
    OBVIOUS
  <2>2. PICK i \in T : \A j \in T : i <= j
    <3> HIDE DEF T
    <3>1. T \subseteq Nat
      BY <1>1 DEF T
    <3> QED
      BY <2>1, <3>1, Least
  <2>3. i \in 1 .. n /\ h[i] < i /\ h[i] \in 1 .. Len(s)
    BY <1>1, <1>2, <2>2
  <2>4. i - 1 \in 1 .. n /\ h[i - 1] \in 1 .. Len(s) /\ h[i - 1] < h[i]
    <3>1. i - 1 \in 1 .. n /\ i - 1 < i
      BY <1>1, <2>3
    <3> QED
      BY <1>1, <1>2, <2>3, <3>1
  <2>5. i - 1 \notin T
    BY <1>1, <2>2, <2>3
  <2> QED
    BY <1>1, <2>3, <2>4, <2>5
<1>4. CASE n > 0
  <2>1. n \in 1 .. n /\ h[n] \in 1 .. Len(s) /\ n \notin T
    BY <1>1, <1>2, <1>3, <1>4
  <2> QED
    BY <1>1, <2>1 DEF n
<1> QED
  BY <1>1, <1>4 DEF n

LEMMA RemoveAtType ==
  ASSUME NEW S, NEW s \in Seq(S), NEW i \in 1 .. Len(s)
  PROVE  RemoveAt(s, i) \in Seq(S)
<1>1. SubSeq(s, 1, i - 1) \in Seq(S) /\ SubSeq(s, i + 1, Len(s)) \in Seq(S)
  OBVIOUS
<1> QED
  BY <1>1 DEF RemoveAt

\* What RemoveAt leaves behind: the elements after the removed one move up.
LEMMA RemoveAtElements ==
  ASSUME NEW S, NEW s \in Seq(S), NEW k \in 1 .. Len(s)
  PROVE  /\ DOMAIN RemoveAt(s, k) = 1 .. Len(s) - 1
         /\ \A i \in 1 .. Len(s) - 1 : RemoveAt(s, k)[i] = s[IF i < k THEN i ELSE i + 1]
<1> DEFINE A == SubSeq(s, 1, k - 1)
           B == SubSeq(s, k + 1, Len(s))
<1>1. /\ A \in Seq(S) /\ Len(A) = k - 1 /\ \A i \in 1 .. k - 1 : A[i] = s[i]
  OBVIOUS
<1>2. /\ B \in Seq(S) /\ Len(B) = Len(s) - k /\ \A i \in 1 .. Len(s) - k : B[i] = s[i + k]
  OBVIOUS
<1>3. RemoveAt(s, k) = A \o B
  BY DEF RemoveAt
<1> HIDE DEF A, B
<1>4. /\ A \o B \in Seq(S) /\ Len(A \o B) = Len(A) + Len(B)
      /\ \A i \in 1 .. Len(A) + Len(B) :
           (A \o B)[i] = IF i <= Len(A) THEN A[i] ELSE B[i - Len(A)]
  BY <1>1, <1>2, ConcatProperties, Zenon
<1>5. Len(s) \in Nat /\ k \in Nat
  OBVIOUS
<1>6. DOMAIN RemoveAt(s, k) = 1 .. Len(s) - 1
  BY <1>1, <1>2, <1>3, <1>4, <1>5
<1>7. ASSUME NEW i \in 1 .. Len(s) - 1
      PROVE  RemoveAt(s, k)[i] = s[IF i < k THEN i ELSE i + 1]
  <2>1. CASE i < k
    BY <1>1, <1>2, <1>3, <1>4, <1>5, <2>1
  <2>2. CASE i >= k
    <3>1. i - (k - 1) \in 1 .. Len(s) - k /\ i - (k - 1) + k = i + 1
      BY <1>5, <2>2
    <3>2. (A \o B)[i] = B[i - (k - 1)]
      BY <1>1, <1>2, <1>4, <1>5, <2>2
    <3>3. B[i - (k - 1)] = s[i + 1]
      BY <1>2, <3>1
    <3> QED
      BY <1>3, <1>5, <2>2, <3>2, <3>3
  <2> QED
    BY <1>5, <2>1, <2>2
<1> QED
  BY <1>6, <1>7
=============================================================================
