--------------------------- MODULE SortingProofs ---------------------------
(***************************************************************************)
(* The sort of the pods to evict (healer.go:1593) for any number of pods:   *)
(* two loops that swap in place leave the pods they were given, in order   *)
(* of importance.                                                          *)
(*                                                                         *)
(* The loops are recursive functions over Nat.  That one exists is shown   *)
(* from the least number at which something would go wrong, since < on Nat *)
(* is well-founded; what holds after n + 1 rounds if it does after n is    *)
(* collected into a set of numbers, and that set is Nat.                   *)
(***************************************************************************)
EXTENDS ResourceOptimization, TLAPS, WellFoundedInduction, FiniteSetTheorems

\* A set of numbers that has an element has a least one.
LEMMA LeastElement ==
  ASSUME NEW T \in SUBSET Nat, T # {}
  PROVE  \E n \in T : \A m \in T : n <= m
  <1> DEFINE R == OpToRel(<, Nat)
  <1>1. IsWellFoundedOn(R, Nat)
    BY NatLessThanWellFounded
  <1>2. PICK n \in T : \A m \in T : <<m, n>> \notin R
    <2> HIDE DEF R
    <2> QED
      BY <1>1, WFMin
  <1>3. \A m \in T : m < n => <<m, n>> \in R
    BY DEF OpToRel
  <1>4. \A m \in T : ~(m < n)
    BY <1>2, <1>3
  <1>5. \A m \in T : m \in Nat /\ n \in Nat
    OBVIOUS
  <1>6. QED
    BY <1>4, <1>5

\* Induction over the numbers, for a set instead of a property.
LEMMA SetInduction ==
  ASSUME NEW T \in SUBSET Nat, 0 \in T, \A n \in T : n + 1 \in T
  PROVE  T = Nat
  <1>1. SUFFICES ASSUME Nat \ T # {} PROVE FALSE
    OBVIOUS
  <1>2. PICK n \in Nat \ T : \A m \in Nat \ T : n <= m
    BY <1>1, LeastElement
  <1>3. n # 0 /\ n - 1 \in Nat /\ n - 1 \notin Nat \ T
    BY <1>2
  <1>4. QED
    BY <1>3

\* A function is determined by its value at 0 and the step from each value to
\* the next: the recursive functions below have the values they are written with.
LEMMA PrimitiveRecursion ==
  ASSUME NEW S, NEW base \in S, NEW step \in [Nat -> [S -> S]]
  PROVE  \E f \in [Nat -> S] : f = [n \in Nat |-> IF n = 0 THEN base ELSE step[n][f[n - 1]]]
  <1> DEFINE Computes(n, g) ==
               g[0] = base /\ \A i \in 1..n : g[i] = step[i][g[i - 1]]
             Computable == {n \in Nat : \E g \in [0..n -> S] : Computes(n, g)}
  <1>1. Computable = Nat
    <2>1. 0 \in Computable
      <3>1. [i \in 0..0 |-> base] \in [0..0 -> S]
        OBVIOUS
      <3>2. Computes(0, [i \in 0..0 |-> base])
        OBVIOUS
      <3>3. QED
        BY <3>1, <3>2
    <2>2. ASSUME NEW n \in Computable
          PROVE  n + 1 \in Computable
      <3>1. PICK g \in [0..n -> S] : Computes(n, g)
        OBVIOUS
      <3> DEFINE h == [i \in 0..(n + 1) |-> IF i = n + 1 THEN step[n + 1][g[n]] ELSE g[i]]
      <3>2. h \in [0..(n + 1) -> S]
        <4>1. step[n + 1][g[n]] \in S
          OBVIOUS
        <4>2. \A i \in 0..(n + 1) : i # n + 1 => i \in 0..n
          OBVIOUS
        <4>3. QED
          BY <4>1, <4>2
      <3>3. h[0] = base
        BY <3>1
      <3>4. ASSUME NEW i \in 1..(n + 1)
            PROVE  h[i] = step[i][h[i - 1]]
        <4>1. CASE i = n + 1
          <5>1. n \in 0..(n + 1) /\ h[n] = g[n] /\ i - 1 = n
            BY <4>1
          <5>2. QED
            BY <4>1, <5>1
        <4>2. CASE i # n + 1
          <5>1. i \in 1..n /\ i - 1 \in 0..n /\ i - 1 # n + 1
            BY <4>2
          <5>2. h[i] = g[i] /\ h[i - 1] = g[i - 1]
            BY <5>1
          <5>3. QED
            BY <3>1, <5>1, <5>2
        <4>3. QED
          BY <4>1, <4>2
      <3> HIDE DEF h
      <3>5. Computes(n + 1, h) /\ n + 1 \in Nat
        BY <3>3, <3>4
      <3> HIDE DEF Computes
      <3>6. QED
        BY <3>2, <3>5
    <2>3. Computable \in SUBSET Nat
      OBVIOUS
    <2> HIDE DEF Computable
    <2>4. QED
      BY <2>1, <2>2, <2>3, SetInduction
  <1>2. PICK c \in [Nat -> UNION {[0..n -> S] : n \in Nat}] :
          \A n \in Nat : c[n] \in [0..n -> S] /\ Computes(n, c[n])
    <2> DEFINE d == [n \in Nat |-> CHOOSE g : g \in [0..n -> S] /\ Computes(n, g)]
    <2> HIDE DEF Computes
    <2>1. \A n \in Nat : d[n] \in [0..n -> S] /\ Computes(n, d[n])
      BY <1>1
    <2>2. d \in [Nat -> UNION {[0..n -> S] : n \in Nat}]
      BY <2>1
    <2> HIDE DEF d
    <2>3. QED
      BY <2>1, <2>2
  <1>3. ASSUME NEW m \in Nat
        PROVE  \A i \in 0..m : c[m][i] = c[i][i]
    <2> DEFINE Agrees == {i \in Nat : \A n \in Nat : i <= n => c[n][i] = c[i][i]}
    <2>1. 0 \in Agrees
      BY <1>2
    <2>2. ASSUME NEW i \in Agrees
          PROVE  i + 1 \in Agrees
      <3>1. ASSUME NEW n \in Nat, i + 1 <= n
            PROVE  c[n][i + 1] = step[i + 1][c[i][i]]
        <4>1. i + 1 \in 1..n /\ (i + 1) - 1 = i /\ i <= n
          BY <3>1
        <4>2. c[n][i + 1] = step[i + 1][c[n][i]]
          BY <4>1, <1>2
        <4>3. QED
          BY <4>1, <4>2
      <3>2. QED
        BY <3>1
    <2>3. Agrees \in SUBSET Nat
      OBVIOUS
    <2>4. Agrees = Nat
      <3> HIDE DEF Agrees
      <3> QED
        BY <2>1, <2>2, <2>3, SetInduction
    <2>5. ASSUME NEW i \in 0..m
          PROVE  c[m][i] = c[i][i]
      <3>1. i \in Nat /\ i <= m
        OBVIOUS
      <3>2. i \in Agrees
        BY <2>4, <3>1
      <3>3. QED
        BY <3>1, <3>2
    <2>6. QED
      BY <2>5
  <1> DEFINE f == [n \in Nat |-> c[n][n]]
  <1>4. f \in [Nat -> S]
    BY <1>2
  <1>5. ASSUME NEW n \in Nat
        PROVE  f[n] = IF n = 0 THEN base ELSE step[n][f[n - 1]]
    <2>1. CASE n = 0
      BY <1>2, <2>1
    <2>2. CASE n # 0
      <3>1. n \in 1..n /\ n - 1 \in Nat /\ n - 1 \in 0..n
        BY <2>2
      <3>2. c[n][n] = step[n][c[n][n - 1]]
        BY <3>1, <1>2
      <3>3. c[n][n - 1] = c[n - 1][n - 1]
        BY <3>1, <1>3
      <3>4. QED
        BY <2>2, <3>1, <3>2, <3>3
    <2>3. QED
      BY <2>1, <2>2
  <1>6. f = [n \in Nat |-> IF n = 0 THEN base ELSE step[n][f[n - 1]]]
    BY <1>5
  <1> HIDE DEF f
  <1>7. QED
    BY <1>4, <1>6

-----------------------------------------------------------------------------

\* The pods at the first i places are in order, and no more important than
\* those behind them.
InPlace(s, i) ==
  \A a \in 1..i, b \in DOMAIN s : a <= b => GetPodPriority(s[a]) <= GetPodPriority(s[b])

\* Priorities (checks.go:666) are numbers up to 100.
LEMMA PriorityType == \A p : GetPodPriority(p) \in 0..100
  BY DEF GetPodPriority

\* An order of a finite set is a function from 1..n that takes no value twice.
LEMMA OrderType ==
  ASSUME NEW T, IsFiniteSet(T), NEW s \in SetToSeqs(T)
  PROVE  /\ Cardinality(T) \in Nat
         /\ s \in [1..Cardinality(T) -> T]
         /\ \A a, b \in 1..Cardinality(T) : a # b => s[a] # s[b]
         /\ Len(s) = Cardinality(T)
         /\ DOMAIN s = 1..Cardinality(T)
  <1>1. Cardinality(T) \in Nat
    BY FS_CardinalityType
  <1>2. s \in [1..Cardinality(T) -> T] /\ \A a, b \in 1..Cardinality(T) : a # b => s[a] # s[b]
    BY DEF SetToSeqs
  <1>3. s \in Seq(T) /\ Len(s) = Cardinality(T)
    BY <1>1, <1>2
  <1>4. QED
    BY <1>1, <1>2, <1>3

\* A swap (healer.go:1600) of an order of T is an order of T, with the two places
\* exchanged.
LEMMA SwapPermutes ==
  ASSUME NEW T, IsFiniteSet(T), NEW s \in SetToSeqs(T),
         NEW i \in 1..Cardinality(T), NEW j \in 1..Cardinality(T)
  PROVE  /\ Swap(s, i, j) \in SetToSeqs(T)
         /\ \A k \in 1..Cardinality(T) :
              Swap(s, i, j)[k] = IF k = j THEN s[i] ELSE IF k = i THEN s[j] ELSE s[k]
  <1> DEFINE n == Cardinality(T)
             w == Swap(s, i, j)
  <1>1. s \in [1..n -> T] /\ \A a, b \in 1..n : a # b => s[a] # s[b]
    BY OrderType
  <1>2. w \in [1..n -> T]
    BY <1>1 DEF Swap
  <1>3. \A k \in 1..n : w[k] = IF k = j THEN s[i] ELSE IF k = i THEN s[j] ELSE s[k]
    BY <1>1 DEF Swap
  <1> HIDE DEF w
  <1>4. \A a, b \in 1..n : a # b => w[a] # w[b]
    BY <1>1, <1>3
  <1>5. w \in SetToSeqs(T)
    BY <1>2, <1>4 DEF SetToSeqs
  <1>6. QED
    BY <1>3, <1>5 DEF w

\* The inner loop, for any i.
LEMMA PassesOfInnerLoop ==
  ASSUME NEW T, IsFiniteSet(T), NEW s \in SetToSeqs(T), NEW i \in Nat \ {0}
  PROVE  \E pass \in [Nat -> SetToSeqs(T)] :
           /\ pass[0] = s
           /\ \A j \in Nat \ {0} :
                pass[j] = IF /\ j \in (i + 1)..Cardinality(T)
                             /\ GetPodPriority(pass[j - 1][i]) > GetPodPriority(pass[j - 1][j])
                          THEN Swap(pass[j - 1], i, j) ELSE pass[j - 1]
           /\ SortedFrom(s, i) = pass[Cardinality(T)]
  <1> DEFINE n == Cardinality(T)
             Next1(t, j) == IF j \in (i + 1)..n /\ GetPodPriority(t[i]) > GetPodPriority(t[j])
                            THEN Swap(t, i, j) ELSE t
             step == [j \in Nat |-> [t \in SetToSeqs(T) |-> Next1(t, j)]]
  <1>1. n \in Nat /\ Len(s) = n
    BY OrderType
  <1>2. ASSUME NEW t \in SetToSeqs(T), NEW j \in Nat
        PROVE  Next1(t, j) \in SetToSeqs(T)
    <2>1. CASE j \in (i + 1)..n
      <3>1. i \in 1..n /\ j \in 1..n
        BY <1>1, <2>1
      <3>2. Swap(t, i, j) \in SetToSeqs(T)
        BY <3>1, SwapPermutes
      <3>3. QED
        BY <3>2
    <2>2. CASE j \notin (i + 1)..n
      BY <2>2
    <2>3. QED
      BY <2>1, <2>2
  <1> HIDE DEF Next1
  <1>3. step \in [Nat -> [SetToSeqs(T) -> SetToSeqs(T)]]
    BY <1>2
  <1>4. PICK f \in [Nat -> SetToSeqs(T)] :
          f = [j \in Nat |-> IF j = 0 THEN s ELSE step[j][f[j - 1]]]
    <2> HIDE DEF step
    <2>1. QED
      BY <1>3, PrimitiveRecursion
  <1> DEFINE pass == CHOOSE r : r = [j \in Nat |-> IF j = 0 THEN s ELSE Next1(r[j - 1], j)]
  <1>5. f = [j \in Nat |-> IF j = 0 THEN s ELSE Next1(f[j - 1], j)]
    <2>1. ASSUME NEW j \in Nat
          PROVE  f[j] = IF j = 0 THEN s ELSE Next1(f[j - 1], j)
      <3>1. CASE j = 0
        BY <3>1, <1>4
      <3>2. CASE j # 0
        <4>1. f[j] = step[j][f[j - 1]] /\ f[j - 1] \in SetToSeqs(T)
          BY <3>2, <1>4
        <4>2. QED
          BY <3>2, <4>1
      <3>3. QED
        BY <3>1, <3>2
    <2>2. QED
      BY <2>1, <1>4
  <1>6. pass = [j \in Nat |-> IF j = 0 THEN s ELSE Next1(pass[j - 1], j)]
    BY <1>5
  <1>7. SortedFrom(s, i) = pass[n]
    BY <1>1, Zenon DEF SortedFrom, Next1
  <1> HIDE DEF pass
  <1>8. pass[0] = s /\ \A j \in Nat \ {0} : pass[j] = Next1(pass[j - 1], j)
    BY <1>6
  <1>9. \A j \in Nat : pass[j] \in SetToSeqs(T)
    <2> DEFINE Good == {j \in Nat : pass[j] \in SetToSeqs(T)}
    <2>1. 0 \in Good
      BY <1>8
    <2>2. \A j \in Good : j + 1 \in Good
      BY <1>2, <1>8
    <2>3. Good \in SUBSET Nat
      OBVIOUS
    <2>4. Good = Nat
      <3> HIDE DEF Good
      <3>1. QED
        BY <2>1, <2>2, <2>3, SetInduction
    <2>5. QED
      BY <2>4
  <1>10. pass \in [Nat -> SetToSeqs(T)]
    BY <1>6, <1>9
  <1>11. QED
    BY <1>7, <1>8, <1>10 DEF Next1

\* One round of the outer loop puts one more pod in place.
LEMMA RoundSorts ==
  ASSUME NEW T, IsFiniteSet(T), NEW s \in SetToSeqs(T), NEW i \in Nat \ {0}
  PROVE  /\ SortedFrom(s, i) \in SetToSeqs(T)
         /\ i <= Cardinality(T) /\ InPlace(s, i - 1) => InPlace(SortedFrom(s, i), i)
  <1> DEFINE n == Cardinality(T)
  <1>1. n \in Nat
    BY OrderType
  <1>2. PICK pass \in [Nat -> SetToSeqs(T)] :
          /\ pass[0] = s
          /\ \A j \in Nat \ {0} :
               pass[j] = IF /\ j \in (i + 1)..n
                            /\ GetPodPriority(pass[j - 1][i]) > GetPodPriority(pass[j - 1][j])
                         THEN Swap(pass[j - 1], i, j) ELSE pass[j - 1]
          /\ SortedFrom(s, i) = pass[n]
    BY PassesOfInnerLoop
  <1>3. SortedFrom(s, i) \in SetToSeqs(T)
    BY <1>1, <1>2
  <1>4. ASSUME i <= n, InPlace(s, i - 1)
        PROVE  InPlace(pass[n], i)
    <2> DEFINE Least(t, j) == \A b \in i..j : b <= n => GetPodPriority(t[i]) <= GetPodPriority(t[b])
               Good == {j \in Nat : InPlace(pass[j], i - 1) /\ Least(pass[j], j)}
    <2>1. 0 \in Good
      BY <1>2, <1>4
    <2>2. ASSUME NEW j \in Good
          PROVE  j + 1 \in Good
      <3> DEFINE t == pass[j]
                 u == pass[j + 1]
      <3>1. t \in SetToSeqs(T) /\ InPlace(t, i - 1) /\ Least(t, j)
        BY <1>2
      <3>2. u = IF j + 1 \in (i + 1)..n /\ GetPodPriority(t[i]) > GetPodPriority(t[j + 1])
                THEN Swap(t, i, j + 1) ELSE t
        BY <1>2
      <3>3. DOMAIN t = 1..n /\ i \in 1..n
        BY <1>1, <1>4, <3>1, OrderType
      <3> HIDE DEF t, u
      <3>4. CASE j + 1 \in (i + 1)..n /\ GetPodPriority(t[i]) > GetPodPriority(t[j + 1])
        <4>1. j + 1 \in 1..n /\ j + 1 > i
          BY <3>4
        <4>2. /\ u \in SetToSeqs(T)
              /\ \A k \in 1..n : u[k] = IF k = j + 1 THEN t[i] ELSE IF k = i THEN t[j + 1] ELSE t[k]
          <5>1. u = Swap(t, i, j + 1)
            BY <3>2, <3>4
          <5>2. Swap(t, i, j + 1) \in SetToSeqs(T)
            BY <3>1, <3>3, <4>1, SwapPermutes
          <5>3. \A k \in 1..n : Swap(t, i, j + 1)[k]
                  = IF k = j + 1 THEN t[i] ELSE IF k = i THEN t[j + 1] ELSE t[k]
            BY <3>1, <3>3, <4>1, OrderType DEF Swap
          <5>4. QED
            BY <5>1, <5>2, <5>3
        <4>3. DOMAIN u = 1..n
          BY <4>2, OrderType
        <4>4. ASSUME NEW a \in 1..(i - 1), NEW b \in 1..n, a <= b
              PROVE  GetPodPriority(u[a]) <= GetPodPriority(u[b])
          <5>0. a \in 1..n /\ a # i /\ a # j + 1
            BY <1>1, <3>3, <4>1
          <5>1. a \in 1..n /\ a # i /\ a # j + 1 /\ u[a] = t[a]
            BY <4>2, <5>0
          <5>2. \A k \in 1..n : a <= k => GetPodPriority(t[a]) <= GetPodPriority(t[k])
            BY <3>1, <3>3 DEF InPlace
          <5>3. a <= i /\ a <= j + 1
            BY <4>1
          <5>4. QED
            BY <3>3, <4>1, <4>2, <4>4, <5>1, <5>2, <5>3
        <4>5. ASSUME NEW b \in i..(j + 1), b <= n
              PROVE  GetPodPriority(u[i]) <= GetPodPriority(u[b])
          <5>0. b \in 1..n /\ i # j + 1
            BY <1>1, <3>3, <4>1, <4>5
          <5>1. b \in 1..n /\ u[i] = t[j + 1]
            BY <3>3, <4>2, <5>0
          <5>2. \A k \in Nat : GetPodPriority(t[k]) \in 0..100
            BY PriorityType
          <5>3. CASE b = j + 1
            <6>1. u[b] = t[i]
              BY <4>1, <4>2, <5>3
            <6>2. QED
              BY <3>4, <5>1, <6>1, PriorityType
          <5>4. CASE b = i
            BY <5>4, PriorityType
          <5>5. CASE b # i /\ b # j + 1
            <6>1. b \in i..j /\ u[b] = t[b]
              BY <4>2, <5>1, <5>5
            <6>2. GetPodPriority(t[i]) <= GetPodPriority(t[b])
              BY <3>1, <4>5, <6>1
            <6>3. /\ GetPodPriority(t[j + 1]) \in 0..100 /\ GetPodPriority(t[i]) \in 0..100
                  /\ GetPodPriority(t[b]) \in 0..100
              BY PriorityType
            <6>4. GetPodPriority(t[j + 1]) <= GetPodPriority(t[b])
              <7> DEFINE p == GetPodPriority(t[j + 1])
                         q == GetPodPriority(t[i])
                         r == GetPodPriority(t[b])
              <7>1. p \in 0..100 /\ q \in 0..100 /\ r \in 0..100 /\ p < q /\ q <= r
                BY <3>4, <6>2, <6>3
              <7> HIDE DEF p, q, r
              <7>2. p <= r
                BY <7>1
              <7>3. QED
                BY <7>2 DEF p, r
            <6>5. QED
              BY <5>1, <6>1, <6>4
          <5>6. QED
            BY <5>3, <5>4, <5>5
        <4>6. InPlace(u, i - 1) /\ Least(u, j + 1)
          BY <4>3, <4>4, <4>5 DEF InPlace
        <4>7. QED
          BY <4>6 DEF u
      <3>5. CASE ~(j + 1 \in (i + 1)..n /\ GetPodPriority(t[i]) > GetPodPriority(t[j + 1]))
        <4>1. u = t
          BY <3>2, <3>5
        <4>2. Least(t, j + 1)
          <5>1. ASSUME NEW b \in i..(j + 1), b <= n
                PROVE  GetPodPriority(t[i]) <= GetPodPriority(t[b])
            <6>1. CASE b = i
              BY <6>1, PriorityType
            <6>2. CASE b # i /\ b = j + 1
              <7>1. j + 1 \in (i + 1)..n
                BY <1>1, <5>1, <6>2
              <7>2. GetPodPriority(t[i]) \in Nat /\ GetPodPriority(t[b]) \in Nat
                BY PriorityType
              <7>3. QED
                BY <3>5, <6>2, <7>1, <7>2
            <6>3. CASE b # j + 1
              <7>1. b \in i..j
                BY <6>3
              <7>2. QED
                BY <3>1, <5>1, <7>1
            <6>4. QED
              BY <6>1, <6>2, <6>3
          <5>2. QED
            BY <5>1
        <4>3. QED
          BY <3>1, <4>1, <4>2 DEF t, u
      <3>6. QED
        BY <3>4, <3>5
    <2>3. Good \in SUBSET Nat
      OBVIOUS
    <2>4. n \in Good
      <3>1. Good = Nat
        <4> HIDE DEF Good
        <4>1. QED
          BY <2>1, <2>2, <2>3, SetInduction
      <3>2. QED
        BY <1>1, <3>1
    <2>5. DOMAIN pass[n] = 1..n
      BY <1>1, <1>2, OrderType
    <2>6. ASSUME NEW a \in 1..i, NEW b \in 1..n, a <= b
          PROVE  GetPodPriority(pass[n][a]) <= GetPodPriority(pass[n][b])
      <3>1. CASE a = i
        BY <1>1, <2>4, <2>6, <3>1
      <3>2. CASE a # i
        <4>1. a \in 1..(i - 1)
          BY <3>2
        <4>2. QED
          BY <2>4, <2>5, <2>6, <4>1 DEF InPlace
      <3>3. QED
        BY <3>1, <3>2
    <2>7. QED
      BY <2>5, <2>6 DEF InPlace
  <1>5. QED
    BY <1>2, <1>3, <1>4

\* The rounds of the outer loop.
LEMMA RoundsOfOuterLoop ==
  ASSUME NEW T, IsFiniteSet(T), NEW s \in SetToSeqs(T)
  PROVE  \E round \in [Nat -> SetToSeqs(T)] :
           /\ round[0] = s
           /\ \A i \in Nat \ {0} : round[i] = SortedFrom(round[i - 1], i)
           /\ SortedByPriority(s) = round[Cardinality(T)]
  <1> DEFINE n == Cardinality(T)
             Round(t, i) == SortedFrom(t, i)
             step == [i \in Nat |-> [t \in SetToSeqs(T) |-> IF i = 0 THEN t ELSE Round(t, i)]]
  <1>1. n \in Nat /\ Len(s) = n
    BY OrderType
  <1>2. \A t \in SetToSeqs(T), i \in Nat \ {0} : Round(t, i) \in SetToSeqs(T)
    BY RoundSorts
  <1> HIDE DEF Round
  <1>3. step \in [Nat -> [SetToSeqs(T) -> SetToSeqs(T)]]
    BY <1>2
  <1>4. PICK f \in [Nat -> SetToSeqs(T)] :
          f = [i \in Nat |-> IF i = 0 THEN s ELSE step[i][f[i - 1]]]
    <2> HIDE DEF step
    <2>1. QED
      BY <1>3, PrimitiveRecursion
  <1> DEFINE round == CHOOSE r : r = [i \in Nat |-> IF i = 0 THEN s ELSE Round(r[i - 1], i)]
  <1>5. f = [i \in Nat |-> IF i = 0 THEN s ELSE Round(f[i - 1], i)]
    <2>1. ASSUME NEW i \in Nat
          PROVE  f[i] = IF i = 0 THEN s ELSE Round(f[i - 1], i)
      <3>1. CASE i = 0
        BY <3>1, <1>4
      <3>2. CASE i # 0
        <4>1. f[i] = step[i][f[i - 1]] /\ f[i - 1] \in SetToSeqs(T)
          BY <3>2, <1>4
        <4>2. QED
          BY <3>2, <4>1
      <3>3. QED
        BY <3>1, <3>2
    <2>2. QED
      BY <2>1, <1>4
  <1>6. round = [i \in Nat |-> IF i = 0 THEN s ELSE Round(round[i - 1], i)]
    BY <1>5
  <1>7. SortedByPriority(s) = round[n]
    BY <1>1, Zenon DEF SortedByPriority, Round
  <1> HIDE DEF round
  <1>8. round[0] = s /\ \A i \in Nat \ {0} : round[i] = Round(round[i - 1], i)
    BY <1>6
  <1>9. \A i \in Nat : round[i] \in SetToSeqs(T)
    <2> DEFINE Good == {i \in Nat : round[i] \in SetToSeqs(T)}
    <2>1. 0 \in Good
      BY <1>8
    <2>2. \A i \in Good : i + 1 \in Good
      BY <1>2, <1>8
    <2>3. Good \in SUBSET Nat
      OBVIOUS
    <2>4. Good = Nat
      <3> HIDE DEF Good
      <3>1. QED
        BY <2>1, <2>2, <2>3, SetInduction
    <2>5. QED
      BY <2>4
  <1>10. round \in [Nat -> SetToSeqs(T)]
    BY <1>6, <1>9
  <1>11. QED
    BY <1>7, <1>8, <1>10 DEF Round

\* The sort of the collected pods (healer.go:1597) loses and repeats none and puts
\* them in order of importance, for any number of them in whatever order the
\* goroutines collected them.
THEOREM SortedByPrioritySorts ==
  ASSUME NEW T, IsFiniteSet(T), NEW s \in SetToSeqs(T)
  PROVE  /\ SortedByPriority(s) \in SetToSeqs(T)
         /\ InPlace(SortedByPriority(s), Cardinality(T))
  <1> DEFINE n == Cardinality(T)
  <1>1. n \in Nat
    BY OrderType
  <1>2. PICK round \in [Nat -> SetToSeqs(T)] :
          /\ round[0] = s
          /\ \A i \in Nat \ {0} : round[i] = SortedFrom(round[i - 1], i)
          /\ SortedByPriority(s) = round[n]
    BY RoundsOfOuterLoop
  <1> DEFINE Good == {i \in Nat : i <= n => InPlace(round[i], i)}
  <1>3. 0 \in Good
    BY DEF InPlace
  <1>4. ASSUME NEW i \in Good
        PROVE  i + 1 \in Good
    <2>1. /\ i + 1 \in Nat \ {0} /\ (i + 1) - 1 = i
          /\ round[i] \in SetToSeqs(T)
      BY <1>2
    <2>2. round[i + 1] = SortedFrom(round[i], i + 1)
      BY <1>2, <2>1
    <2>3. i + 1 <= n /\ InPlace(round[i], i) => InPlace(SortedFrom(round[i], i + 1), i + 1)
      BY <2>1, RoundSorts
    <2>4. i + 1 <= n => i <= n
      BY <1>1
    <2>5. QED
      BY <2>1, <2>2, <2>3, <2>4
  <1>5. Good \in SUBSET Nat
    OBVIOUS
  <1>6. Good = Nat
    <2> HIDE DEF Good
    <2>1. QED
      BY <1>3, <1>4, <1>5, SetInduction
  <1>7. InPlace(round[n], n)
    BY <1>1, <1>6
  <1>8. QED
    BY <1>1, <1>2, <1>7
=============================================================================
