---------------------------- MODULE BlockedProofs -----------------------------
(* _getNumberOfBlockedAnyCpuWorkers for any RAM sizes: the two-pointer loop   *)
(* finds the least N such that any N workers can process all reserved tasks    *)
(* at once (BlockedIsLeast), and the daemon therefore never gives away a       *)
(* worker they need for that (ReservationsAlwaysProtected).                    *)
EXTENDS DaemonProofs, MCBlockedWorkers

\* A lower bound of a set that is in it is its minimum.
LEMMA LeastIs ==
    ASSUME NEW S \in SUBSET Nat, NEW x \in S, \A y \in S : x <= y
    PROVE  Least(S) = x
<1>1. Least(S) \in S /\ Least(S) <= x
  BY LeastIsMember
<1>2. x <= Least(S) /\ x \in Nat /\ Least(S) \in Nat
  BY <1>1
<1> QED
  BY <1>1, <1>2

\* Induction for a set of naturals, which the provers can apply.
LEMMA InductiveSet ==
    ASSUME NEW P \in SUBSET Nat, 0 \in P, \A n \in P : n + 1 \in P
    PROVE  \A n \in Nat : n \in P
<1> DEFINE C == Nat \ P
<1> SUFFICES ASSUME NEW x \in C PROVE FALSE
  OBVIOUS
<1>1. Least(C) \in C /\ \A y \in C : Least(C) <= y
  <2>1. C \in SUBSET Nat
    OBVIOUS
  <2> HIDE DEF C
  <2> QED
    BY <2>1, LeastIsMember
<1> DEFINE z == Least(C)
<1>2. z \in Nat /\ z \notin P /\ z # 0
  BY <1>1
<1> HIDE DEF z
<1>3. z - 1 \in Nat /\ z - 1 \in P
  BY <1>1, <1>2 DEF z
<1> QED
  BY <1>2, <1>3

\* The cardinality of an interval from 1.
LEMMA CountUpTo ==
    ASSUME NEW k \in Nat
    PROVE  IsFiniteSet(1..k) /\ Cardinality(1..k) = k
BY FS_Interval

-----------------------------------------------------------------------------
(***************************************************************************)
(* Sorted lists.  p lists the elements of S in the order of their sizes.   *)
(***************************************************************************)
Sorts(p, S, size) ==
    /\ p \in [1..Cardinality(S) -> S]
    /\ \A x \in S : \E i \in 1..Cardinality(S) : p[i] = x
    /\ \A i, j \in 1..Cardinality(S) : p[i] = p[j] => i = j
    /\ \A i, j \in 1..Cardinality(S) : i <= j => size[p[i]] <= size[p[j]]

\* Every finite set can be sorted: first an element of the least size, then the
\* others.
LEMMA SortExists ==
    ASSUME NEW S, IsFiniteSet(S), NEW size, \A x \in S : size[x] \in Nat
    PROVE  \E p : Sorts(p, S, size)
<1> DEFINE P == {n \in Nat : \A T \in SUBSET S :
                    Cardinality(T) = n => \E p : Sorts(p, T, size)}
<1>1. 0 \in P
  <2> SUFFICES ASSUME NEW T \in SUBSET S, Cardinality(T) = 0
               PROVE  \E p : Sorts(p, T, size)
    OBVIOUS
  <2>1. T = {}
    BY FS_Subset, FS_EmptySet
  <2>2. Sorts([i \in 1..0 |-> i], T, size)
    BY <2>1, FS_EmptySet DEF Sorts
  <2> QED
    BY <2>2
<1>2. ASSUME NEW n \in P PROVE n + 1 \in P
  <2> SUFFICES ASSUME NEW T \in SUBSET S, Cardinality(T) = n + 1
               PROVE  \E p : Sorts(p, T, size)
    OBVIOUS
  <2>0. IsFiniteSet(T) /\ n \in Nat
    BY FS_Subset
  <2>1. T # {}
    BY <2>0, FS_EmptySet
  <2> DEFINE sizes == {size[x] : x \in T}
  <2>2. sizes \in SUBSET Nat /\ sizes # {}
    BY <2>1
  <2>3. PICK x \in T : size[x] = Least(sizes)
    <3>1. Least(sizes) \in sizes
      <4> HIDE DEF sizes
      <4> QED
        BY <2>2, LeastIsMember
    <3> QED
      BY <3>1
  <2>4. \A y \in T : size[x] <= size[y]
    <3>1. \A s \in sizes : Least(sizes) <= s
      <4> HIDE DEF sizes
      <4> QED
        BY <2>2, LeastIsMember
    <3> QED
      BY <3>1, <2>3
  <2> DEFINE rest == T \ {x}
  <2>5. rest \in SUBSET S /\ Cardinality(rest) = n
    <3>1. Cardinality(rest) = Cardinality(T) - 1
      BY <2>0, FS_RemoveElement, Zenon
    <3> QED
      BY <3>1, <2>0
  <2>6. PICK q : Sorts(q, rest, size)
    BY <2>5
  <2> DEFINE p == [i \in 1..(n + 1) |-> IF i = 1 THEN x ELSE q[i - 1]]
  <2>7. /\ q \in [1..n -> rest]
        /\ \A y \in rest : \E i \in 1..n : q[i] = y
        /\ \A i, j \in 1..n : q[i] = q[j] => i = j
        /\ \A i, j \in 1..n : i <= j => size[q[i]] <= size[q[j]]
    BY <2>5, <2>6 DEF Sorts
  <2>8. /\ p[1] = x
        /\ \A i \in 1..n : p[i + 1] = q[i] /\ i + 1 \in 1..(n + 1)
        /\ \A i \in 1..(n + 1) : i # 1 => i - 1 \in 1..n /\ p[i] = q[i - 1]
    BY <2>0
  <2>9. p \in [1..(n + 1) -> T]
    BY <2>0, <2>7, <2>8
  <2> HIDE DEF p
  <2>10. \A y \in T : \E i \in 1..(n + 1) : p[i] = y
    <3> TAKE y \in T
    <3>1. CASE y = x
      BY <3>1, <2>8, <2>0
    <3>2. CASE y # x
      <4>1. PICK i \in 1..n : q[i] = y
        BY <3>2, <2>7
      <4> QED
        BY <4>1, <2>8
    <3> QED
      BY <3>1, <3>2
  <2>11. \A i, j \in 1..(n + 1) : p[i] = p[j] => i = j
    <3> SUFFICES ASSUME NEW i \in 1..(n + 1), NEW j \in 1..(n + 1), p[i] = p[j]
                 PROVE  i = j
      OBVIOUS
    <3>1. i # 1 => p[i] # x
      BY <2>7, <2>8
    <3>2. j # 1 => p[j] # x
      BY <2>7, <2>8
    <3>3. CASE i # 1 /\ j # 1
      <4>1. i - 1 = j - 1
        BY <3>3, <2>7, <2>8
      <4> QED
        BY <4>1, <2>0
    <3> QED
      BY <3>1, <3>2, <3>3, <2>8
  <2>12. \A i, j \in 1..(n + 1) : i <= j => size[p[i]] <= size[p[j]]
    <3> SUFFICES ASSUME NEW i \in 1..(n + 1), NEW j \in 1..(n + 1), i <= j
                 PROVE  size[p[i]] <= size[p[j]]
      OBVIOUS
    <3>1. CASE i = 1
      BY <3>1, <2>4, <2>8, <2>9
    <3>2. CASE i # 1
      <4>1. j # 1 /\ i - 1 <= j - 1
        BY <3>2, <2>0
      <4> QED
        BY <3>2, <4>1, <2>7, <2>8
    <3> QED
      BY <3>1, <3>2
  <2> QED
    BY <2>9, <2>10, <2>11, <2>12 DEF Sorts
<1>3. \A n \in Nat : n \in P
  <2>1. P \in SUBSET Nat
    OBVIOUS
  <2> HIDE DEF P
  <2> QED
    BY <1>1, <1>2, <2>1, InductiveSet
<1>4. Cardinality(S) \in Nat
  BY FS_CardinalityType
<1> QED
  BY <1>3, <1>4

\* SortedSizes lists the sizes in that order.
LEMMA SortedSizesIs ==
    ASSUME NEW S, IsFiniteSet(S), NEW size, \A x \in S : size[x] \in Nat,
           NEW p, Sorts(p, S, size), NEW k \in 1..Cardinality(S)
    PROVE  SortedSizes(S, size)[k] = size[p[k]]
<1> DEFINE n == Cardinality(S)
           upTo(y) == {z \in S : size[z] <= size[y]}
           R == {size[x] : x \in {y \in S : Cardinality(upTo(y)) >= k}}
<1>1. /\ n \in Nat /\ k \in 1..n
      /\ p \in [1..n -> S]
      /\ \A x \in S : \E i \in 1..n : p[i] = x
      /\ \A i, j \in 1..n : p[i] = p[j] => i = j
      /\ \A i, j \in 1..n : i <= j => size[p[i]] <= size[p[j]]
  BY FS_CardinalityType DEF Sorts
<1>2. SortedSizes(S, size)[k] = Least(R)
  BY DEF SortedSizes
<1> HIDE DEF n
<1>3. \A y \in S : IsFiniteSet(upTo(y)) /\ Cardinality(upTo(y)) \in Nat
  BY FS_Subset, FS_CardinalityType
<1>4. Cardinality(upTo(p[k])) >= k
  <2> DEFINE f == [i \in 1..k |-> p[i]]
             U == upTo(p[k])
  <2>1. \A i \in 1..k : p[i] \in U
    BY <1>1
  <2>2. f \in [1..k -> U] /\ \A i, j \in 1..k : f[i] = f[j] => i = j
    BY <1>1, <2>1
  <2>3. IsFiniteSet(U) /\ Cardinality(U) \in Nat
    BY <1>1, <1>3
  <2> HIDE DEF f, U
  <2>4. f \in Injection(1..k, U)
    BY <2>2 DEF Injection, IsInjective
  <2>5. Cardinality(1..k) <= Cardinality(U)
    BY <2>3, <2>4, FS_Injection, Zenon
  <2>6. Cardinality(1..k) = k
    BY <1>1, CountUpTo
  <2> QED
    BY <2>3, <2>5, <2>6, <1>1 DEF U
<1>5. ASSUME NEW y \in S, Cardinality(upTo(y)) >= k PROVE size[p[k]] <= size[y]
  <2> SUFFICES ASSUME ~(size[p[k]] <= size[y]) PROVE FALSE
    OBVIOUS
  <2> DEFINE U == upTo(y)
             f == [z \in U |-> CHOOSE i \in 1..n : p[i] = z]
  <2>1. \A z \in U : f[z] \in 1..n /\ p[f[z]] = z
    BY <1>1
  <2>2. \A z \in U : f[z] \in 1..(k - 1)
    <3> SUFFICES ASSUME NEW z \in U PROVE f[z] \in 1..(k - 1)
      OBVIOUS
    <3>1. f[z] \in 1..n /\ p[f[z]] = z /\ size[z] <= size[y]
      BY <2>1
    <3> HIDE DEF f, U
    <3>2. ~(k <= f[z])
      BY <1>1, <3>1
    <3> QED
      BY <3>1, <3>2, <1>1
  <2>3. f \in [U -> 1..(k - 1)] /\ \A u, v \in U : f[u] = f[v] => u = v
    BY <2>1, <2>2
  <2>4. IsFiniteSet(1..(k - 1)) /\ Cardinality(1..(k - 1)) = k - 1 /\ k - 1 \in Nat
    <3>1. k - 1 \in Nat
      BY <1>1
    <3> QED
      BY <3>1, CountUpTo
  <2>5. Cardinality(U) \in Nat /\ Cardinality(U) >= k
    BY <1>3, <1>5
  <2> HIDE DEF f, U
  <2>6. f \in Injection(U, 1..(k - 1))
    BY <2>3 DEF Injection, IsInjective
  <2>7. Cardinality(U) <= Cardinality(1..(k - 1))
    BY <2>4, <2>6, FS_Injection, Zenon
  <2> QED
    BY <2>4, <2>5, <2>7, <1>1
<1>6. R \in SUBSET Nat
  OBVIOUS
<1>7. size[p[k]] \in R
  BY <1>1, <1>4
<1>8. \A r \in R : size[p[k]] <= r
  BY <1>5
<1> HIDE DEF R
<1> QED
  BY <1>2, <1>6, <1>7, <1>8, LeastIs

\* The k-th of some of the elements is at least as large as the k-th of all.
LEMMA SubsetSorted ==
    ASSUME NEW S, IsFiniteSet(S), NEW size, \A x \in S : size[x] \in Nat,
           NEW p, Sorts(p, S, size),
           NEW T \in SUBSET S, NEW q, Sorts(q, T, size), NEW k \in 1..Cardinality(T)
    PROVE  k \in 1..Cardinality(S) /\ size[q[k]] >= size[p[k]]
<1> DEFINE n == Cardinality(S)
           m == Cardinality(T)
<1>1. n \in Nat /\ m \in Nat /\ m <= n /\ IsFiniteSet(T)
  BY FS_Subset, FS_CardinalityType
<1>2. /\ p \in [1..n -> S]
      /\ \A x \in S : \E i \in 1..n : p[i] = x
      /\ \A i, j \in 1..n : i <= j => size[p[i]] <= size[p[j]]
  BY DEF Sorts
<1>3. /\ q \in [1..m -> T]
      /\ \A i, j \in 1..m : q[i] = q[j] => i = j
      /\ \A i, j \in 1..m : i <= j => size[q[i]] <= size[q[j]]
  BY DEF Sorts
<1> HIDE DEF n, m
<1>4. k \in 1..m /\ k \in 1..n
  BY <1>1 DEF m
<1>5. SUFFICES ASSUME ~(size[q[k]] >= size[p[k]]) PROVE FALSE
  BY <1>4 DEF n
<1> DEFINE f == [j \in 1..k |-> CHOOSE i \in 1..n : p[i] = q[j]]
<1>6. \A j \in 1..k : j \in 1..m /\ f[j] \in 1..n /\ p[f[j]] = q[j]
  <2> SUFFICES ASSUME NEW j \in 1..k
               PROVE  j \in 1..m /\ f[j] \in 1..n /\ p[f[j]] = q[j]
    OBVIOUS
  <2>1. j \in 1..m
    BY <1>1, <1>4
  <2>2. \E i \in 1..n : p[i] = q[j]
    BY <1>2, <1>3, <2>1
  <2>3. f[j] = CHOOSE i \in 1..n : p[i] = q[j]
    OBVIOUS
  <2> QED
    BY <2>1, <2>2, <2>3
<1>7. \A j \in 1..k : f[j] \in 1..(k - 1)
  <2> SUFFICES ASSUME NEW j \in 1..k PROVE f[j] \in 1..(k - 1)
    OBVIOUS
  <2>1. j \in 1..m /\ f[j] \in 1..n /\ p[f[j]] = q[j]
    BY <1>6
  <2> HIDE DEF f
  <2>2. size[q[j]] <= size[q[k]] /\ size[q[j]] \in Nat /\ size[q[k]] \in Nat /\ size[p[k]] \in Nat
    BY <2>1, <1>2, <1>3, <1>4
  <2>3. ~(k <= f[j])
    BY <1>2, <1>4, <1>5, <2>1, <2>2
  <2> QED
    BY <2>1, <2>3, <1>4
<1>8. f \in [1..k -> 1..(k - 1)]
  BY <1>7
<1> HIDE DEF f
<1>9. /\ IsFiniteSet(1..k) /\ IsFiniteSet(1..(k - 1))
      /\ Cardinality(1..(k - 1)) < Cardinality(1..k)
  <2>0. k \in Nat /\ k - 1 \in Nat
    BY <1>4
  <2>1. IsFiniteSet(1..k) /\ Cardinality(1..k) = k
    BY <2>0, CountUpTo
  <2>2. IsFiniteSet(1..(k - 1)) /\ Cardinality(1..(k - 1)) = k - 1
    BY <2>0, CountUpTo
  <2> QED
    BY <2>1, <2>2, <1>4
<1>10. PICK i, j \in 1..k : i # j /\ f[i] = f[j]
  BY <1>8, <1>9, FS_PigeonHole, Zenon
<1> QED
  BY <1>3, <1>6, <1>10

-----------------------------------------------------------------------------
(***************************************************************************)
(* The two-pointer loop.  g[i] is next_worker_index after i of the tasks a *)
(* have taken a worker of b.                                               *)
(***************************************************************************)
FitsFrom(a, b, i, from) == {k \in (from + 1)..Len(b) : b[k] >= a[i]}

Loop(g, a, b, m) ==
    /\ g \in [0..m -> 0..Len(b)]
    /\ g[0] = 0
    /\ \A i \in 1..m :
          g[i] = IF FitsFrom(a, b, i, g[i - 1]) = {} THEN Len(b)
                 ELSE Least(FitsFrom(a, b, i, g[i - 1]))

\* When some later worker fits, the loop goes to the first one that does.
LEMMA FitsLeast ==
    ASSUME NEW a, NEW b, Len(b) \in Nat, NEW i, NEW from \in Nat, NEW k \in FitsFrom(a, b, i, from)
    PROVE  /\ FitsFrom(a, b, i, from) \in SUBSET Nat
           /\ Least(FitsFrom(a, b, i, from)) \in FitsFrom(a, b, i, from)
           /\ Least(FitsFrom(a, b, i, from)) <= k
<1> DEFINE F == FitsFrom(a, b, i, from)
<1>1. F \in SUBSET Nat /\ k \in F
  BY DEF FitsFrom
<1> HIDE DEF F
<1>2. Least(F) \in F /\ Least(F) <= k
  BY <1>1, LeastIsMember
<1> QED
  BY <1>1, <1>2 DEF F

\* The loop runs to its end, whatever the lists.
LEMMA LoopExists ==
    ASSUME NEW a, NEW b, Len(b) \in Nat, NEW m \in Nat
    PROVE  \E g : Loop(g, a, b, m)
<1> DEFINE P == {n \in Nat : \E g : Loop(g, a, b, n)}
<1>1. 0 \in P
  <2>1. Loop([i \in 0..0 |-> 0], a, b, 0)
    BY DEF Loop
  <2> QED
    BY <2>1
<1>2. ASSUME NEW n \in P PROVE n + 1 \in P
  <2>1. n \in Nat
    OBVIOUS
  <2>2. PICK g : Loop(g, a, b, n)
    OBVIOUS
  <2>3. /\ g \in [0..n -> 0..Len(b)]
        /\ g[0] = 0
        /\ \A i \in 1..n :
              g[i] = IF FitsFrom(a, b, i, g[i - 1]) = {} THEN Len(b)
                     ELSE Least(FitsFrom(a, b, i, g[i - 1]))
    BY <2>2 DEF Loop
  <2> DEFINE F == FitsFrom(a, b, n + 1, g[n])
             last == IF F = {} THEN Len(b) ELSE Least(F)
             h == [i \in 0..(n + 1) |-> IF i = n + 1 THEN last ELSE g[i]]
  <2>4. last \in 0..Len(b)
    <3>0. g[n] \in Nat
      BY <2>1, <2>3
    <3>1. CASE F = {}
      BY <3>1
    <3>2. CASE F # {}
      <4>1. Least(F) \in F
        BY <3>0, <3>2, FitsLeast
      <4>2. \A k \in F : k \in 0..Len(b)
        BY <3>0 DEF FitsFrom
      <4> QED
        BY <3>2, <4>1, <4>2
    <3> QED
      BY <3>1, <3>2
  <2>5. /\ h[n + 1] = last
        /\ \A i \in 0..n : i \in 0..(n + 1) /\ h[i] = g[i]
    BY <2>1
  <2> HIDE DEF last
  <2>6. h \in [0..(n + 1) -> 0..Len(b)]
    BY <2>1, <2>3, <2>4
  <2> HIDE DEF h
  <2>7. \A i \in 1..(n + 1) :
            h[i] = IF FitsFrom(a, b, i, h[i - 1]) = {} THEN Len(b)
                   ELSE Least(FitsFrom(a, b, i, h[i - 1]))
    <3> TAKE i \in 1..(n + 1)
    <3>1. CASE i = n + 1
      <4>1. i - 1 = n /\ h[i - 1] = g[n]
        BY <2>1, <2>5, <3>1
      <4> QED
        BY <4>1, <2>5, <3>1 DEF last
    <3>2. CASE i # n + 1
      <4>1. i \in 1..n /\ i \in 0..n /\ i - 1 \in 0..n
        BY <2>1, <3>2
      <4> QED
        BY <4>1, <2>3, <2>5
    <3> QED
      BY <3>1, <3>2
  <2>8. h[0] = 0
    BY <2>1, <2>3, <2>5
  <2>9. Loop(h, a, b, n + 1)
    BY <2>6, <2>7, <2>8 DEF Loop
  <2> QED
    BY <2>1, <2>9
<1>3. \A n \in Nat : n \in P
  <2>1. P \in SUBSET Nat
    OBVIOUS
  <2> HIDE DEF P
  <2> QED
    BY <1>1, <1>2, <2>1, InductiveSet
<1> QED
  BY <1>3

\* GreedyIndex is the value of a function that satisfies its recursive definition,
\* when there is one.
LEMMA GreedyIndexUnfolds ==
    ASSUME NEW a, NEW b,
           NEW g, g = [i \in 0..Len(a) |->
                IF i = 0 THEN 0
                ELSE IF {k \in (g[i - 1] + 1)..Len(b) : b[k] >= a[i]} = {} THEN Len(b)
                ELSE Least({k \in (g[i - 1] + 1)..Len(b) : b[k] >= a[i]})]
    PROVE  \E h : /\ GreedyIndex(a, b) = h[Len(a)]
                  /\ h = [i \in 0..Len(a) |->
                        IF i = 0 THEN 0
                        ELSE IF {k \in (h[i - 1] + 1)..Len(b) : b[k] >= a[i]} = {} THEN Len(b)
                        ELSE Least({k \in (h[i - 1] + 1)..Len(b) : b[k] >= a[i]})]
BY DEF GreedyIndex

\* GreedyIndex is where the loop stops.
LEMMA GreedyIndexIs ==
    ASSUME NEW a, NEW b, Len(a) \in Nat, Len(b) \in Nat
    PROVE  \E g : Loop(g, a, b, Len(a)) /\ GreedyIndex(a, b) = g[Len(a)]
<1>1. PICK g : Loop(g, a, b, Len(a))
  BY LoopExists
<1> DEFINE body(h) == [i \in 0..Len(a) |->
                IF i = 0 THEN 0
                ELSE IF {k \in (h[i - 1] + 1)..Len(b) : b[k] >= a[i]} = {} THEN Len(b)
                ELSE Least({k \in (h[i - 1] + 1)..Len(b) : b[k] >= a[i]})]
<1>2. g = body(g)
  <2>1. \A i \in 0..Len(a) : g[i] = body(g)[i]
    BY <1>1 DEF Loop, FitsFrom
  <2>2. g = [i \in 0..Len(a) |-> g[i]]
    BY <1>1 DEF Loop
  <2> QED
    BY <2>1, <2>2
<1>3. PICK h : h = body(h) /\ GreedyIndex(a, b) = h[Len(a)]
  BY <1>2, GreedyIndexUnfolds
<1>4. \A i \in 0..Len(a) : h[i] = g[i]
  <2> DEFINE P == {n \in Nat : n <= Len(a) => h[n] = g[n]}
  <2>1. 0 \in P
    BY <1>2, <1>3
  <2>2. ASSUME NEW n \in P PROVE n + 1 \in P
    <3> SUFFICES ASSUME n + 1 <= Len(a) PROVE h[n + 1] = g[n + 1]
      OBVIOUS
    <3>1. n \in Nat /\ n <= Len(a) /\ h[n] = g[n] /\ n + 1 \in 0..Len(a) /\ (n + 1) - 1 = n
      OBVIOUS
    <3>2. body(h)[n + 1] = body(g)[n + 1]
      BY <3>1
    <3> QED
      BY <3>2, <1>2, <1>3
  <2>3. \A n \in Nat : n \in P
    <3>1. P \in SUBSET Nat
      OBVIOUS
    <3> HIDE DEF P
    <3> QED
      BY <2>1, <2>2, <3>1, InductiveSet
  <2> QED
    BY <2>3
<1>5. h[Len(a)] = g[Len(a)]
  BY <1>4
<1> HIDE DEF body
<1> QED
  BY <1>1, <1>3, <1>5

\* Properties of lists of length m: in order, in strict order, without repetition;
\* worker f[i] has the RAM for task i.
Ascending(a, m) == \A i, j \in 1..m : i <= j => a[i] <= a[j]
Rising(h, m) == \A i, j \in 1..m : i < j => h[i] < h[j]
Distinct(f, m) == \A i, j \in 1..m : f[i] = f[j] => i = j
Serves(f, a, b, m) == \A i \in 1..m : b[f[i]] >= a[i]

\* Every task took a worker of its own, each one further up than the ones before.
Takes(g, a, b, m, n) ==
    \A i \in 1..m : /\ g[i] \in 1..n /\ b[g[i]] >= a[i]
                    /\ \A j \in 0..(i - 1) : g[j] < g[i]

\* If the tasks can be given to workers of rising index, h, then the loop gives
\* each of them one, and never one further up than h does.
LEMMA LoopStaysBehind ==
    ASSUME NEW m \in Nat, NEW n \in Nat, NEW a \in [1..m -> Nat], NEW b, Len(b) = n,
           b \in [1..n -> Nat], NEW g, Loop(g, a, b, m),
           NEW h \in [1..m -> 1..n], Rising(h, m), Serves(h, a, b, m)
    PROVE  Takes(g, a, b, m, n) /\ \A i \in 1..m : g[i] <= h[i]
<1> DEFINE Good(i) == /\ g[i] \in 1..n /\ g[i] <= h[i] /\ b[g[i]] >= a[i]
                      /\ \A j \in 0..(i - 1) : g[j] < g[i]
           P == {k \in Nat : \A i \in 1..k : i <= m => Good(i)}
<1>0. /\ g \in [0..m -> 0..n] /\ g[0] = 0
      /\ \A i \in 1..m :
            g[i] = IF FitsFrom(a, b, i, g[i - 1]) = {} THEN Len(b)
                   ELSE Least(FitsFrom(a, b, i, g[i - 1]))
  BY DEF Loop
<1>1. 0 \in P
  OBVIOUS
<1>2. ASSUME NEW k \in P PROVE k + 1 \in P
  <2>0. k \in Nat /\ \A j \in 1..k : j <= m => Good(j)
    OBVIOUS
  <2> DEFINE i == k + 1
  <2>1. SUFFICES ASSUME i <= m PROVE Good(i)
    <3> SUFFICES ASSUME NEW j \in 1..(k + 1), j <= m PROVE Good(j)
      BY <2>0
    <3>1. CASE j = i
      BY <3>1, <2>1
    <3>2. CASE j # i
      <4>1. j \in 1..k
        BY <3>2, <2>0
      <4> QED
        BY <4>1
    <3> QED
      BY <3>1, <3>2
  <2> HIDE DEF P, Good
  <2>2. i \in 1..m /\ i - 1 = k /\ k \in 0..m /\ g[k] \in 0..n
    BY <2>0, <2>1, <1>0
  <2>3. g[k] < h[i] /\ \A j \in 0..k : g[j] <= g[k]
    <3>1. CASE k = 0
      BY <3>1, <2>2, <1>0
    <3>2. CASE k # 0
      <4>1. k \in 1..k /\ k <= m
        BY <3>2, <2>0, <2>2
      <4>2. Good(k)
        BY <4>1, <2>0
      <4>3. k \in 1..m /\ h[k] < h[i] /\ h[k] \in Nat /\ h[i] \in Nat
        BY <4>1, <2>0, <2>2 DEF Rising
      <4>4. g[k] <= h[k] /\ \A j \in 0..(k - 1) : g[j] < g[k]
        BY <4>2 DEF Good
      <4>5. ASSUME NEW j \in 0..k PROVE g[j] <= g[k]
        <5>1. g[j] \in Nat
          BY <2>2, <1>0
        <5>2. j = k \/ j \in 0..(k - 1)
          BY <2>0
        <5>3. j = k => g[j] = g[k]
          OBVIOUS
        <5> QED
          BY <5>1, <5>2, <5>3, <4>4, <2>2
      <4> QED
        BY <4>3, <4>4, <4>5, <2>2
    <3> QED
      BY <3>1, <3>2
  <2> DEFINE F == FitsFrom(a, b, i, g[k])
  <2>4. h[i] \in F
    BY <2>2, <2>3 DEF FitsFrom, Serves
  <2>5. g[i] = Least(F)
    BY <2>2, <2>4, <1>0
  <2>6. g[i] \in F /\ g[i] <= h[i]
    BY <2>2, <2>4, <2>5, FitsLeast
  <2> DEFINE u == g[k]
             v == g[i]
  <2>7. v \in 1..n /\ b[v] >= a[i] /\ u < v
    <3>1. u \in Nat /\ v \in FitsFrom(a, b, i, u)
      BY <2>2, <2>6
    <3> HIDE DEF u, v, i
    <3> QED
      BY <3>1 DEF FitsFrom
  <2>8. ASSUME NEW j \in 0..(i - 1) PROVE g[j] < g[i]
    <3> DEFINE w == g[j]
    <3>0. j \in 0..k
      BY <2>0
    <3>1. w \in Nat /\ u \in Nat /\ w <= u
      <4>1. w <= u
        BY <3>0, <2>3
      <4>2. j \in 0..m
        BY <3>0, <2>2
      <4>3. w \in 0..n /\ u \in 0..n
        BY <4>2, <2>2, <1>0
      <4> HIDE DEF u, w
      <4> QED
        BY <4>1, <4>3
    <3> HIDE DEF u, v, w
    <3>2. w < v
      BY <3>1, <2>7
    <3> QED
      BY <3>2 DEF v, w
  <2> QED
    BY <2>6, <2>7, <2>8 DEF Good
<1>3. \A k \in Nat : k \in P
  <2>1. P \in SUBSET Nat
    OBVIOUS
  <2> HIDE DEF P
  <2> QED
    BY <1>1, <1>2, <2>1, InductiveSet
<1>4. m \in P
  BY <1>3
<1>5. \A i \in 1..m : i <= m => Good(i)
  BY <1>4
<1>6. \A i \in 1..m : i <= m
  OBVIOUS
<1> QED
  BY <1>5, <1>6 DEF Takes

\* If the tasks, in the order of their sizes, can be given to the first N workers in
\* any way, then also in the order of the workers.
LEMMA Rearranged ==
    ASSUME NEW m \in Nat, NEW n \in Nat, NEW N \in Nat, N <= n,
           NEW a \in [1..m -> Nat], NEW b \in [1..n -> Nat],
           Ascending(a, m), Ascending(b, n),
           NEW f \in [1..m -> 1..N], Distinct(f, m), Serves(f, a, b, m)
    PROVE  \E h \in [1..m -> 1..N] : Rising(h, m) /\ Serves(h, a, b, m)
<1> DEFINE F == {f[i] : i \in 1..m}
           self == [x \in 1..N |-> x]
<1>1. F \subseteq 1..N /\ f \in [1..m -> F]
  OBVIOUS
<1>2. IsFiniteSet(F) /\ Cardinality(F) = m
  <2>1. f \in Surjection(1..m, F) /\ f \in Injection(1..m, F)
    BY <1>1 DEF Surjection, Injection, IsInjective, Distinct
  <2>2. IsFiniteSet(1..m) /\ Cardinality(1..m) = m
    BY CountUpTo
  <2> HIDE DEF F
  <2>3. IsFiniteSet(F) /\ Cardinality(F) = Cardinality(1..m)
    BY <2>1, <2>2, FS_Surjection, Zenon
  <2> QED
    BY <2>2, <2>3
<1>3. PICK h : Sorts(h, F, self)
  <2>1. \A x \in F : self[x] \in Nat
    BY <1>1
  <2> HIDE DEF F, self
  <2> QED
    BY <1>2, <2>1, SortExists
<1>4. /\ h \in [1..m -> F] /\ h \in [1..m -> 1..N]
      /\ \A x \in F : \E i \in 1..m : h[i] = x
      /\ \A i, j \in 1..m : h[i] = h[j] => i = j
      /\ \A i, j \in 1..m : i <= j => self[h[i]] <= self[h[j]]
  <2> HIDE DEF F, self
  <2> QED
    BY <1>1, <1>2, <1>3 DEF Sorts
<1>5. \A i, j \in 1..m : i <= j => h[i] <= h[j]
  BY <1>4
<1>6. \A i, j \in 1..m : i < j => h[i] < h[j]
  <2> SUFFICES ASSUME NEW i \in 1..m, NEW j \in 1..m, i < j PROVE h[i] < h[j]
    OBVIOUS
  <2> DEFINE u == h[i]
             v == h[j]
  <2>1. u \in 1..N /\ v \in 1..N
    BY <1>4
  <2>2. u <= v
    BY <1>5
  <2>3. u # v
    BY <1>4
  <2> HIDE DEF u, v
  <2>4. u < v
    BY <2>1, <2>2, <2>3
  <2> QED
    BY <2>4 DEF u, v
<1>7. ASSUME NEW j \in 1..m PROVE b[h[j]] >= a[j]
  <2> DEFINE r == [i \in j..m |-> CHOOSE l \in 1..m : h[l] = f[i]]
  <2>1. \A i \in j..m : i \in 1..m /\ r[i] \in 1..m /\ h[r[i]] = f[i]
    <3> TAKE i \in j..m
    <3>1. i \in 1..m
      OBVIOUS
    <3>2. \E l \in 1..m : h[l] = f[i]
      BY <3>1, <1>4
    <3>3. r[i] = CHOOSE l \in 1..m : h[l] = f[i]
      OBVIOUS
    <3> QED
      BY <3>1, <3>2, <3>3
  <2>2. \E i \in j..m : r[i] <= j
    <3> SUFFICES ASSUME \A i \in j..m : ~(r[i] <= j) PROVE FALSE
      OBVIOUS
    <3>1. \A i \in j..m : r[i] \in (j + 1)..m
      <4> TAKE i \in j..m
      <4> DEFINE u == r[i]
      <4>1. u \in 1..m /\ ~(u <= j)
        BY <2>1
      <4> HIDE DEF u
      <4>2. u \in (j + 1)..m
        BY <4>1
      <4> QED
        BY <4>2 DEF u
    <3>2. r \in [j..m -> (j + 1)..m]
      BY <3>1
    <3> HIDE DEF r
    <3>3. /\ IsFiniteSet(j..m) /\ IsFiniteSet((j + 1)..m)
          /\ Cardinality((j + 1)..m) < Cardinality(j..m)
      <4>1. j \in Int /\ m \in Int /\ j + 1 \in Int /\ j <= m
        OBVIOUS
      <4>2. IsFiniteSet(j..m) /\ Cardinality(j..m) = IF j > m THEN 0 ELSE m - j + 1
        BY <4>1, FS_Interval, Zenon
      <4>3. /\ IsFiniteSet((j + 1)..m)
            /\ Cardinality((j + 1)..m) = IF j + 1 > m THEN 0 ELSE m - (j + 1) + 1
        BY <4>1, FS_Interval, Zenon
      <4> QED
        BY <4>1, <4>2, <4>3
    <3>4. PICK x, y \in j..m : x # y /\ r[x] = r[y]
      BY <3>2, <3>3, FS_PigeonHole, Zenon
    <3>5. x \in 1..m /\ y \in 1..m /\ f[x] = f[y]
      BY <2>1, <3>4
    <3>6. x = y
      BY <3>5 DEF Distinct
    <3> QED
      BY <3>4, <3>6
  <2>3. PICK i \in j..m : r[i] <= j
    BY <2>2
  <2>4. i \in 1..m /\ r[i] \in 1..m /\ h[r[i]] = f[i]
    BY <2>1
  <2> HIDE DEF r
  <2> DEFINE u == f[i]
             v == h[j]
  <2>5. u <= v
    BY <1>5, <2>3, <2>4
  <2>6. u \in 1..n /\ v \in 1..n /\ j <= i
    <3>1. u \in 1..N
      BY <2>4
    <3>2. v \in 1..N
      BY <1>4
    <3> HIDE DEF u, v
    <3> QED
      BY <3>1, <3>2
  <2>7. b[u] >= a[i]
    BY <2>4 DEF Serves
  <2> HIDE DEF u, v
  <2>8. b[u] <= b[v] /\ a[j] <= a[i]
    BY <2>4, <2>5, <2>6 DEF Ascending
  <2>9. b[v] >= a[j]
    BY <2>4, <2>6, <2>7, <2>8
  <2> QED
    BY <2>9 DEF v
<1> QED
  BY <1>4, <1>6, <1>7 DEF Rising, Serves

\* The loop ends at the last worker when a task finds none: where it ends earlier,
\* every task took one.
LEMMA LoopTakes ==
    ASSUME NEW m \in Nat, NEW n \in Nat, NEW a, NEW b, Len(b) = n,
           NEW g, Loop(g, a, b, m), g[m] < n
    PROVE  Takes(g, a, b, m, n)
<1>0. /\ g \in [0..m -> 0..n] /\ g[0] = 0
      /\ \A i \in 1..m :
            g[i] = IF FitsFrom(a, b, i, g[i - 1]) = {} THEN n
                   ELSE Least(FitsFrom(a, b, i, g[i - 1]))
  BY DEF Loop
<1>1. ASSUME NEW i \in 1..m, FitsFrom(a, b, i, g[i - 1]) # {}
      PROVE  /\ g[i] \in 1..n /\ b[g[i]] >= a[i] /\ g[i - 1] < g[i]
  <2> DEFINE u == g[i - 1]
             v == g[i]
  <2>1. u \in Nat
    BY <1>0
  <2>2. v = Least(FitsFrom(a, b, i, u))
    BY <1>0, <1>1
  <2>3. FitsFrom(a, b, i, u) # {}
    BY <1>1
  <2> HIDE DEF u, v
  <2>4. v \in FitsFrom(a, b, i, u)
    BY <2>1, <2>2, <2>3, FitsLeast
  <2>5. v \in 1..n /\ b[v] >= a[i] /\ u < v
    BY <2>1, <2>4 DEF FitsFrom
  <2> QED
    BY <2>5 DEF u, v
<1>2. ASSUME NEW i \in 1..m, FitsFrom(a, b, i, g[i - 1]) = {} PROVE g[i] = n
  BY <1>0, <1>2
\* Once at n the loop stays there.
<1>3. ASSUME NEW i \in 1..m, g[i - 1] = n PROVE g[i] = n
  <2>1. FitsFrom(a, b, i, n) = {}
    BY DEF FitsFrom
  <2> QED
    BY <1>2, <1>3, <2>1
<1>4. \A i \in 0..m : g[i] # n
  <2> DEFINE P == {k \in Nat : k <= m => g[m - k] # n}
  <2>1. 0 \in P
    BY <1>0
  <2>2. ASSUME NEW k \in P PROVE k + 1 \in P
    <3> SUFFICES ASSUME k + 1 <= m, g[m - (k + 1)] = n PROVE FALSE
      OBVIOUS
    <3> DEFINE i == m - k
    <3>1. i \in 1..m /\ g[i] # n /\ m - (k + 1) = i - 1
      OBVIOUS
    <3>2. g[i - 1] = n
      BY <3>1
    <3> HIDE DEF i
    <3> QED
      BY <1>3, <3>1, <3>2
  <2>3. \A k \in Nat : k \in P
    <3>1. P \in SUBSET Nat
      OBVIOUS
    <3> HIDE DEF P
    <3> QED
      BY <2>1, <2>2, <3>1, InductiveSet
  <2>4. ASSUME NEW i \in 0..m PROVE g[i] # n
    <3>1. m - i \in Nat /\ m - i <= m /\ m - (m - i) = i
      OBVIOUS
    <3>2. m - i \in P
      BY <3>1, <2>3
    <3> QED
      BY <3>1, <3>2
  <2> QED
    BY <2>4
<1>5. ASSUME NEW i \in 1..m
      PROVE  g[i] \in 1..n /\ b[g[i]] >= a[i] /\ g[i - 1] < g[i]
  <2>1. i \in 0..m
    OBVIOUS
  <2> QED
    BY <2>1, <1>1, <1>2, <1>4
<1>6. \A i \in 1..m : \A j \in 0..(i - 1) : g[j] < g[i]
  <2> DEFINE P == {k \in Nat : k <= m => \A j \in 0..(k - 1) : g[j] < g[k]}
  <2>1. 0 \in P
    OBVIOUS
  <2>2. ASSUME NEW k \in P PROVE k + 1 \in P
    <3>0. k \in Nat
      OBVIOUS
    <3> SUFFICES ASSUME k + 1 <= m, NEW j \in 0..k PROVE g[j] < g[k + 1]
      BY <3>0
    <3>1. \A l \in 0..(k - 1) : g[l] < g[k]
      OBVIOUS
    <3> HIDE DEF P
    <3> DEFINE u == g[j]
               v == g[k]
               w == g[k + 1]
    <3>2. k + 1 \in 1..m /\ (k + 1) - 1 = k /\ j \in 0..m /\ k \in 0..m /\ k + 1 \in 0..m
      BY <3>0
    <3>3. u \in Nat /\ v \in Nat /\ w \in Nat
      BY <3>2, <1>0
    <3>4. v < w
      BY <3>2, <1>5
    <3>5. j # k => j \in 0..(k - 1)
      BY <3>0
    <3>6. j # k => u < v
      BY <3>1, <3>5
    <3>7. j = k => u = v
      OBVIOUS
    <3> HIDE DEF u, v, w
    <3>8. u < w
      BY <3>3, <3>4, <3>6, <3>7
    <3> QED
      BY <3>8 DEF u, w
  <2>3. \A k \in Nat : k \in P
    <3>1. P \in SUBSET Nat
      OBVIOUS
    <3> HIDE DEF P
    <3> QED
      BY <2>1, <2>2, <3>1, InductiveSet
  <2>4. ASSUME NEW i \in 1..m PROVE \A j \in 0..(i - 1) : g[j] < g[i]
    <3>1. i \in Nat /\ i <= m
      OBVIOUS
    <3>2. i \in P
      BY <3>1, <2>3
    <3> QED
      BY <3>1, <3>2
  <2> QED
    BY <2>4
<1> QED
  BY <1>5, <1>6 DEF Takes

-----------------------------------------------------------------------------
(***************************************************************************)
(* What the function promises: N is sufficient if any N workers can        *)
(* process the tasks at the same time.                                     *)
(***************************************************************************)
SufficientNumbers(reserved, taskRam, pool, workerRam) ==
    {N \in 0..Cardinality(pool) : \A S \in SUBSET pool :
        Cardinality(S) = N => AtOnce(reserved, taskRam, S, workerRam)}

\* More workers never hurt.
LEMMA AtOnceUpward ==
    ASSUME NEW reserved, NEW taskRam, NEW workerRam, NEW S, NEW T \in SUBSET S,
           AtOnce(reserved, taskRam, T, workerRam)
    PROVE  AtOnce(reserved, taskRam, S, workerRam)
BY DEF AtOnce

\* The N smallest elements of a set.
LEMMA FirstN ==
    ASSUME NEW S, NEW size, NEW p, Sorts(p, S, size), NEW N \in Nat,
           Cardinality(S) \in Nat, N <= Cardinality(S)
    PROVE  /\ {p[i] : i \in 1..N} \in SUBSET S
           /\ Cardinality({p[i] : i \in 1..N}) = N
<1> DEFINE T == {p[i] : i \in 1..N}
           f == [i \in 1..N |-> p[i]]
           n == Cardinality(S)
<1>1. p \in [1..n -> S] /\ \A i, j \in 1..n : p[i] = p[j] => i = j
  BY DEF Sorts
<1>2. \A i \in 1..N : i \in 1..n
  OBVIOUS
<1>3. T \in SUBSET S
  BY <1>1, <1>2
<1>4. f \in Surjection(1..N, T) /\ f \in Injection(1..N, T)
  BY <1>1, <1>2 DEF Surjection, Injection, IsInjective
<1>5. IsFiniteSet(1..N) /\ Cardinality(1..N) = N
  BY CountUpTo
<1> HIDE DEF T, f
<1>6. IsFiniteSet(T) /\ Cardinality(T) = Cardinality(1..N)
  BY <1>4, <1>5, FS_Surjection, Zenon
<1> QED
  BY <1>3, <1>5, <1>6 DEF T

\* As many workers are needed as there are tasks.
LEMMA AtOnceNeeds ==
    ASSUME NEW reserved, NEW taskRam, NEW workerRam, NEW S, IsFiniteSet(S),
           AtOnce(reserved, taskRam, S, workerRam)
    PROVE  IsFiniteSet(reserved) /\ Cardinality(reserved) <= Cardinality(S)
<1>1. PICK f \in [reserved -> S] : \A t, u \in reserved : f[t] = f[u] => t = u
  BY DEF AtOnce
<1>2. f \in Injection(reserved, S)
  BY <1>1 DEF Injection, IsInjective
<1> QED
  BY <1>2, FS_Injection, Zenon

\* What both the least and the greatest cases below use: the two lists.
LEMMA ListFacts ==
    ASSUME NEW S, IsFiniteSet(S), NEW size, \A x \in S : size[x] \in Nat,
           NEW p, Sorts(p, S, size)
    PROVE  LET n == Cardinality(S)
               b == SortedSizes(S, size)
           IN  /\ n \in Nat /\ Len(b) = n /\ b \in [1..n -> Nat] /\ Ascending(b, n)
               /\ \A k \in 1..n : b[k] = size[p[k]] /\ p[k] \in S
<1> DEFINE n == Cardinality(S)
           b == SortedSizes(S, size)
<1>1. n \in Nat
  BY FS_CardinalityType
<1>2. p \in [1..n -> S] /\ \A i, j \in 1..n : i <= j => size[p[i]] <= size[p[j]]
  BY DEF Sorts
<1>3. \A k \in 1..n : b[k] = size[p[k]]
  BY SortedSizesIs
<1>4. Len(b) = n /\ DOMAIN b = 1..n /\ b = [k \in 1..n |-> b[k]]
  BY <1>1 DEF SortedSizes
<1> HIDE DEF b, n
<1>5. \A k \in 1..n : p[k] \in S /\ b[k] \in Nat
  BY <1>2, <1>3
<1>6. b \in [1..n -> Nat]
  BY <1>4, <1>5
<1>7. Ascending(b, n)
  BY <1>2, <1>3 DEF Ascending
<1> QED
  BY <1>1, <1>3, <1>4, <1>5, <1>6, <1>7 DEF b, n

\* Where every task took a worker, any set of as many workers as the loop went through
\* can process them: its k-th worker is no smaller than the k-th of all.
LEMMA TakenIsEnough ==
    ASSUME NEW reserved, IsFiniteSet(reserved), NEW taskRam, \A t \in reserved : taskRam[t] \in Nat,
           NEW pool, IsFiniteSet(pool), NEW workerRam,
           \A w \in pool : workerRam[w] \in Nat,
           NEW g, Takes(g, SortedSizes(reserved, taskRam), SortedSizes(pool, workerRam),
                        Cardinality(reserved), Cardinality(pool)),
           NEW S \in SUBSET pool,
           reserved # {} => g[Cardinality(reserved)] <= Cardinality(S)
    PROVE  AtOnce(reserved, taskRam, S, workerRam)
<1> DEFINE m == Cardinality(reserved)
           n == Cardinality(pool)
           N == Cardinality(S)
           a == SortedSizes(reserved, taskRam)
           b == SortedSizes(pool, workerRam)
<1>0. IsFiniteSet(S) /\ N \in Nat /\ \A w \in S : workerRam[w] \in Nat
  BY FS_Subset, FS_CardinalityType
<1>1. PICK tau : Sorts(tau, reserved, taskRam)
  BY SortExists
<1>2. PICK p : Sorts(p, pool, workerRam)
  BY SortExists
<1>3. PICK q : Sorts(q, S, workerRam)
  BY <1>0, SortExists
<1>4. /\ m \in Nat /\ \A k \in 1..m : a[k] = taskRam[tau[k]]
      /\ \A t \in reserved : \E i \in 1..m : tau[i] = t
  <2>1. m \in Nat /\ \A k \in 1..m : a[k] = taskRam[tau[k]]
    BY <1>1, ListFacts
  <2>2. \A t \in reserved : \E i \in 1..m : tau[i] = t
    BY <1>1 DEF Sorts
  <2> QED
    BY <2>1, <2>2
<1>5. n \in Nat /\ \A k \in 1..n : b[k] = workerRam[p[k]] /\ b[k] \in Nat
  BY <1>2, ListFacts
<1>6. \A k \in 1..N : k \in 1..n /\ workerRam[q[k]] >= workerRam[p[k]]
  BY <1>2, <1>3, SubsetSorted
<1>7. q \in [1..N -> S] /\ \A i, j \in 1..N : q[i] = q[j] => i = j
  BY <1>3 DEF Sorts
<1>8. \A i \in 1..m : /\ g[i] \in 1..n /\ b[g[i]] >= a[i]
                      /\ \A j \in 0..(i - 1) : g[j] < g[i]
  BY DEF Takes
<1>9. \A i \in 1..m : g[i] \in 1..N
  <2> SUFFICES ASSUME NEW i \in 1..m PROVE g[i] \in 1..N
    OBVIOUS
  <2>1. m \in 1..m /\ reserved # {}
    BY <1>4, FS_EmptySet
  <2> DEFINE u == g[i]
             v == g[m]
  <2>2. u \in 1..n /\ v \in 1..n /\ v <= N
    BY <1>8, <2>1
  <2>3. i # m => i \in 0..(m - 1)
    BY <1>4
  <2>4. u <= v
    <3>1. i # m => u < v
      BY <1>8, <2>1, <2>3
    <3>2. i = m => u = v
      OBVIOUS
    <3> HIDE DEF u, v
    <3> QED
      BY <2>2, <3>1, <3>2
  <2> HIDE DEF u, v
  <2>5. u \in 1..N
    BY <2>2, <2>4, <1>0, <1>5
  <2> QED
    BY <2>5 DEF u
<1> DEFINE rank == [t \in reserved |-> CHOOSE i \in 1..m : tau[i] = t]
           f == [t \in reserved |-> q[g[rank[t]]]]
<1>10. \A t \in reserved : rank[t] \in 1..m /\ tau[rank[t]] = t
  BY <1>4
<1> HIDE DEF rank, m, n, N, a, b
<1>11. f \in [reserved -> S]
  BY <1>7, <1>9, <1>10
<1>12. \A t, u \in reserved : f[t] = f[u] => t = u
  <2> SUFFICES ASSUME NEW t \in reserved, NEW u \in reserved, f[t] = f[u] PROVE t = u
    OBVIOUS
  <2> DEFINE i == rank[t]
             j == rank[u]
  <2>1. i \in 1..m /\ j \in 1..m /\ tau[i] = t /\ tau[j] = u
    BY <1>10
  <2>2. q[g[i]] = q[g[j]]
    OBVIOUS
  <2> HIDE DEF i, j
  <2>3. g[i] = g[j]
    BY <1>7, <1>9, <2>1, <2>2
  <2>4. i = j
    <3>1. ~(g[i] < g[j]) /\ ~(g[j] < g[i])
      BY <2>1, <2>3, <1>8, <1>5
    <3>2. i \in 0..(j - 1) => g[i] < g[j]
      BY <2>1, <1>8
    <3>3. j \in 0..(i - 1) => g[j] < g[i]
      BY <2>1, <1>8
    <3>4. i # j => i \in 0..(j - 1) \/ j \in 0..(i - 1)
      BY <2>1, <1>4
    <3> QED
      BY <3>1, <3>2, <3>3, <3>4
  <2> QED
    BY <2>1, <2>4
<1>13. \A t \in reserved : workerRam[f[t]] >= taskRam[t]
  <2> TAKE t \in reserved
  <2> DEFINE i == rank[t]
             k == g[i]
  <2>1. i \in 1..m /\ tau[i] = t
    BY <1>10
  <2>2. f[t] = q[k]
    OBVIOUS
  <2> HIDE DEF i, f
  <2>3. k \in 1..N /\ k \in 1..n /\ b[k] >= a[i]
    BY <2>1, <1>8, <1>9
  <2> HIDE DEF k
  <2>4. workerRam[q[k]] >= workerRam[p[k]] /\ b[k] = workerRam[p[k]]
    BY <2>3, <1>5, <1>6
  <2>5. a[i] = taskRam[t]
    BY <2>1, <1>4
  <2> DEFINE x == workerRam[q[k]]
             y == b[k]
             z == taskRam[t]
  <2>6. x >= y /\ y >= z
    BY <2>3, <2>4, <2>5
  <2>7. x \in Nat /\ y \in Nat /\ z \in Nat
    <3>1. y \in Nat
      BY <2>3, <1>5
    <3>2. q[k] \in S
      BY <2>3, <1>7
    <3> QED
      BY <3>1, <3>2, <1>0
  <2> HIDE DEF x, y, z
  <2>8. x >= z
    BY <2>6, <2>7
  <2> QED
    BY <2>2, <2>8 DEF x, z
<1> HIDE DEF f
<1> QED
  BY <1>11, <1>12, <1>13 DEF AtOnce

\* The easy case: every task fits on the smallest worker, and N workers are sufficient
\* exactly when there are as many tasks.
LEMMA SmallTasksNeedTheirNumber ==
    ASSUME NEW reserved, IsFiniteSet(reserved), NEW taskRam, \A t \in reserved : taskRam[t] \in Nat,
           NEW pool, IsFiniteSet(pool), NEW workerRam,
           \A w \in pool : workerRam[w] \in Nat,
           \A t \in reserved, w \in pool : taskRam[t] <= workerRam[w]
    PROVE  LET Enough == SufficientNumbers(reserved, taskRam, pool, workerRam)
               m == Cardinality(reserved)
           IN  /\ Enough = {} => m >= Cardinality(pool)
               /\ Enough # {} => m = Least(Enough)
<1> DEFINE Enough == SufficientNumbers(reserved, taskRam, pool, workerRam)
           m == Cardinality(reserved)
           n == Cardinality(pool)
<1>0. m \in Nat /\ n \in Nat
  BY FS_CardinalityType
<1>1. m <= n => m \in Enough
  <2> SUFFICES ASSUME m <= n, NEW S \in SUBSET pool, Cardinality(S) = m
               PROVE  AtOnce(reserved, taskRam, S, workerRam)
    BY <1>0 DEF SufficientNumbers
  <2>1. IsFiniteSet(S)
    BY FS_Subset
  <2>2. ExistsBijection(reserved, S)
    BY <2>1, FS_SameCardinalityBij
  <2>3. PICK f : f \in Bijection(reserved, S)
    BY <2>2 DEF ExistsBijection
  <2>4. f \in [reserved -> S] /\ \A t, u \in reserved : f[t] = f[u] => t = u
    BY <2>3 DEF Bijection, Injection, IsInjective
  <2>5. \A t \in reserved : workerRam[f[t]] >= taskRam[t]
    BY <2>4
  <2> QED
    BY <2>4, <2>5 DEF AtOnce
<1>2. \A N \in Enough : m <= N /\ N <= n /\ N \in Nat
  <2> SUFFICES ASSUME NEW N \in Enough PROVE m <= N /\ N <= n /\ N \in Nat
    OBVIOUS
  <2>1. /\ N \in Nat /\ N <= n
        /\ \A S \in SUBSET pool : Cardinality(S) = N => AtOnce(reserved, taskRam, S, workerRam)
    BY <1>0 DEF SufficientNumbers
  <2>2. PICK p : Sorts(p, pool, workerRam)
    BY SortExists
  <2> DEFINE T == {p[i] : i \in 1..N}
  <2>3. T \in SUBSET pool /\ Cardinality(T) = N
    <3>1. N \in Nat /\ N <= Cardinality(pool) /\ Cardinality(pool) \in Nat
      BY <1>0, <2>1
    <3> HIDE DEF Enough
    <3> QED
      BY <3>1, <2>2, FirstN
  <2> HIDE DEF T
  <2>4. AtOnce(reserved, taskRam, T, workerRam)
    BY <2>1, <2>3
  <2>5. IsFiniteSet(T)
    BY <2>3, FS_Subset
  <2> QED
    BY <2>1, <2>3, <2>4, <2>5, AtOnceNeeds
<1>3. Enough \in SUBSET Nat
  BY <1>2
<1> HIDE DEF Enough, m, n
<1>4. Enough = {} => m >= n
  BY <1>0, <1>1
<1>5. Enough # {} => m \in Enough
  BY <1>0, <1>1, <1>2
<1>6. Enough # {} => m = Least(Enough)
  BY <1>2, <1>3, <1>5, LeastIs
<1> QED
  BY <1>4, <1>6 DEF Enough, m, n

\* The other case: the loop over the two sorted lists ends at the least sufficient
\* number, and at the number of all workers when there is none.
LEMMA GreedyIndexIsLeast ==
    ASSUME NEW reserved, IsFiniteSet(reserved), reserved # {},
           NEW taskRam, \A t \in reserved : taskRam[t] \in Nat,
           NEW pool, IsFiniteSet(pool), NEW workerRam,
           \A w \in pool : workerRam[w] \in Nat
    PROVE  LET Enough == SufficientNumbers(reserved, taskRam, pool, workerRam)
               index == GreedyIndex(SortedSizes(reserved, taskRam),
                                    SortedSizes(pool, workerRam))
           IN  /\ index \in Nat
               /\ Enough = {} => index >= Cardinality(pool)
               /\ Enough # {} => index = Least(Enough)
<1> DEFINE Enough == SufficientNumbers(reserved, taskRam, pool, workerRam)
           m == Cardinality(reserved)
           n == Cardinality(pool)
           a == SortedSizes(reserved, taskRam)
           b == SortedSizes(pool, workerRam)
           Index == GreedyIndex(a, b)
<1>1. PICK tau : Sorts(tau, reserved, taskRam)
  BY SortExists
<1>2. PICK p : Sorts(p, pool, workerRam)
  BY SortExists
<1>3. /\ m \in Nat /\ Len(a) = m /\ a \in [1..m -> Nat] /\ Ascending(a, m)
      /\ \A k \in 1..m : a[k] = taskRam[tau[k]] /\ tau[k] \in reserved
  BY <1>1, ListFacts
<1>4. /\ n \in Nat /\ Len(b) = n /\ b \in [1..n -> Nat] /\ Ascending(b, n)
      /\ \A k \in 1..n : b[k] = workerRam[p[k]] /\ p[k] \in pool
  BY <1>2, ListFacts
<1>5. \A i, j \in 1..m : tau[i] = tau[j] => i = j
  BY <1>1 DEF Sorts
<1>6. m # 0
  BY FS_EmptySet
<1>7. PICK g : Loop(g, a, b, m) /\ Index = g[m]
  BY <1>3, <1>4, GreedyIndexIs
<1>8. Index \in 0..n
  BY <1>3, <1>4, <1>7 DEF Loop
<1>9. Takes(g, a, b, m, n) => Index \in Enough
  <2> SUFFICES ASSUME Takes(g, a, b, m, n), NEW S \in SUBSET pool,
                      Cardinality(S) = g[m]
               PROVE  AtOnce(reserved, taskRam, S, workerRam)
    BY <1>7, <1>8 DEF SufficientNumbers
  <2>1. g[m] <= Cardinality(S)
    BY <1>7, <1>8, <1>4
  <2> QED
    BY <2>1, TakenIsEnough
<1>10. Enough = {} => Index >= n
  <2> SUFFICES ASSUME Index < n PROVE Enough # {}
    BY <1>4, <1>8
  <2>1. Takes(g, a, b, m, n)
    BY <1>3, <1>4, <1>7, LoopTakes
  <2> QED
    BY <2>1, <1>9
<1>11. ASSUME NEW N \in Enough PROVE Index <= N /\ Index \in Enough
  <2>1. /\ N \in Nat /\ N <= n
        /\ \A S \in SUBSET pool : Cardinality(S) = N => AtOnce(reserved, taskRam, S, workerRam)
    BY <1>4 DEF SufficientNumbers
  <2> DEFINE T == {p[i] : i \in 1..N}
  <2>2. T \in SUBSET pool /\ Cardinality(T) = N
    BY <1>2, <1>4, <2>1, FirstN
  <2>3. PICK e \in [reserved -> T] :
            /\ \A t, u \in reserved : e[t] = e[u] => t = u
            /\ \A t \in reserved : workerRam[e[t]] >= taskRam[t]
    BY <2>1, <2>2 DEF AtOnce
  <2> DEFINE f == [i \in 1..m |-> CHOOSE k \in 1..N : p[k] = e[tau[i]]]
  <2>4. \A i \in 1..m : f[i] \in 1..N /\ f[i] \in 1..n /\ p[f[i]] = e[tau[i]]
    <3> TAKE i \in 1..m
    <3>1. e[tau[i]] \in T
      BY <1>3, <2>3
    <3>2. \E k \in 1..N : p[k] = e[tau[i]]
      BY <3>1
    <3>3. f[i] \in 1..N /\ p[f[i]] = e[tau[i]]
      BY <3>2
    <3> HIDE DEF f
    <3>4. f[i] \in 1..n
      BY <3>3, <2>1, <1>4
    <3> QED
      BY <3>3, <3>4
  <2>5. f \in [1..m -> 1..N]
    BY <2>4
  <2> HIDE DEF f, T
  <2>6. Distinct(f, m)
    <3> SUFFICES ASSUME NEW i \in 1..m, NEW j \in 1..m, f[i] = f[j] PROVE i = j
      BY DEF Distinct
    <3>1. e[tau[i]] = e[tau[j]] /\ tau[i] \in reserved /\ tau[j] \in reserved
      BY <1>3, <2>4
    <3>2. tau[i] = tau[j]
      BY <3>1, <2>3
    <3> QED
      BY <3>2, <1>5
  <2>7. Serves(f, a, b, m)
    <3> SUFFICES ASSUME NEW i \in 1..m PROVE b[f[i]] >= a[i]
      BY DEF Serves
    <3>1. b[f[i]] = workerRam[p[f[i]]] /\ p[f[i]] = e[tau[i]]
      BY <1>4, <2>4
    <3>2. a[i] = taskRam[tau[i]] /\ tau[i] \in reserved
      BY <1>3
    <3>3. workerRam[e[tau[i]]] >= taskRam[tau[i]]
      BY <3>2, <2>3
    <3> QED
      BY <3>1, <3>2, <3>3
  <2> HIDE DEF m, n, a, b, Index
  <2>8. PICK h \in [1..m -> 1..N] : Rising(h, m) /\ Serves(h, a, b, m)
    BY <1>3, <1>4, <2>1, <2>5, <2>6, <2>7, Rearranged
  <2>9. h \in [1..m -> 1..n]
    <3>1. \A k \in 1..N : k \in 1..n
      BY <2>1, <1>4
    <3> QED
      BY <2>8, <3>1
  <2>10. Takes(g, a, b, m, n) /\ \A i \in 1..m : g[i] <= h[i]
    BY <1>3, <1>4, <1>7, <2>8, <2>9, LoopStaysBehind
  <2>11. Index <= N
    <3>1. m \in 1..m
      BY <1>3, <1>6
    <3>2. g[m] <= h[m] /\ h[m] \in 1..N
      BY <3>1, <2>8, <2>10
    <3> QED
      BY <3>2, <1>4, <1>7, <1>8, <2>1
  <2> QED
    BY <2>10, <2>11, <1>9
<1>12. Enough # {} => Index = Least(Enough)
  <2>1. Enough \in SUBSET Nat
    BY <1>4 DEF SufficientNumbers
  <2> HIDE DEF Enough
  <2> QED
    BY <2>1, <1>11, LeastIs
<1> QED
  BY <1>4, <1>8, <1>10, <1>12

\* Finitely many tasks and workers with their RAM, and the least RAM of a worker.
Rams(reserved, taskRam, pool, workerRam) ==
    /\ IsFiniteSet(reserved) /\ \A t \in reserved : taskRam[t] \in Nat
    /\ IsFiniteSet(pool) /\ \A w \in pool : workerRam[w] \in Nat

IsMinRam(minRam, none, pool, workerRam) ==
    minRam = IF pool = {} THEN none ELSE Least({workerRam[w] : w \in pool})

IsLeastSufficient(N, reserved, taskRam, pool, workerRam) ==
    LET Enough == SufficientNumbers(reserved, taskRam, pool, workerRam)
    IN  /\ N \in Nat
        /\ IF Enough = {} THEN N >= Cardinality(pool) ELSE N = Least(Enough)

\* _getNumberOfBlockedAnyCpuWorkers, with the cached minimum up to date, is the least
\* sufficient number, and blocks every worker when there is none.
LEMMA BlockedIsLeast ==
    ASSUME NEW reserved, NEW taskRam, NEW pool, NEW workerRam,
           Rams(reserved, taskRam, pool, workerRam),
           NEW none, none \notin Nat, NEW minRam, IsMinRam(minRam, none, pool, workerRam)
    PROVE  IsLeastSufficient(
               NumberOfBlocked(minRam, none, reserved, taskRam, pool, workerRam),
               reserved, taskRam, pool, workerRam)
<1> USE DEF Rams, IsMinRam
<1> DEFINE Enough == SufficientNumbers(reserved, taskRam, pool, workerRam)
           blocked == NumberOfBlocked(minRam, none, reserved, taskRam, pool, workerRam)
           rams == {workerRam[w] : w \in pool}
<1> SUFFICES /\ blocked \in Nat
             /\ Enough = {} => blocked >= Cardinality(pool)
             /\ Enough # {} => blocked = Least(Enough)
  BY DEF IsLeastSufficient
<1>0. Cardinality(pool) \in Nat /\ Enough \in SUBSET Nat
  BY FS_CardinalityType DEF SufficientNumbers
<1>1. rams \in SUBSET Nat /\ (pool # {} => rams # {})
  OBVIOUS
<1>2. pool # {} => minRam \in Nat /\ \A w \in pool : minRam <= workerRam[w]
  <2> SUFFICES ASSUME pool # {}
               PROVE  minRam \in Nat /\ \A w \in pool : minRam <= workerRam[w]
    OBVIOUS
  <2>1. minRam = Least(rams)
    OBVIOUS
  <2>2. \A w \in pool : workerRam[w] \in rams
    OBVIOUS
  <2> HIDE DEF rams
  <2>3. minRam \in rams /\ \A r \in rams : minRam <= r
    BY <1>1, <2>1, LeastIsMember
  <2> QED
    BY <1>1, <2>2, <2>3
<1>3. CASE pool = {}
  <2>1. blocked = 0 /\ Cardinality(pool) = 0
    BY <1>3, FS_EmptySet DEF NumberOfBlocked
  <2>2. Enough # {} => 0 \in Enough
    BY <2>1 DEF SufficientNumbers
  <2> HIDE DEF Enough
  <2>3. Enough # {} => Least(Enough) = 0
    BY <2>2, <1>0, LeastIs
  <2> QED
    BY <2>1, <2>3 DEF Enough
<1>4. CASE pool # {} /\ reserved = {}
  <2>1. blocked = 0
    BY <1>4 DEF NumberOfBlocked
  <2>2. 0 \in Enough
    <3>1. ASSUME NEW S PROVE AtOnce(reserved, taskRam, S, workerRam)
      <4>1. [t \in reserved |-> t] \in [reserved -> S]
        BY <1>4
      <4> QED
        BY <4>1, <1>4 DEF AtOnce
    <3> QED
      BY <1>0, <3>1 DEF SufficientNumbers
  <2> HIDE DEF Enough
  <2>3. Least(Enough) = 0
    BY <2>2, <1>0, LeastIs
  <2> QED
    BY <2>1, <2>2, <2>3 DEF Enough
<1>5. CASE pool # {} /\ reserved # {} /\ \A t \in reserved : taskRam[t] <= minRam
  <2>1. blocked = Cardinality(reserved)
    BY <1>2, <1>5 DEF NumberOfBlocked
  <2>2. ASSUME NEW t \in reserved, NEW w \in pool PROVE taskRam[t] <= workerRam[w]
    <3>1. taskRam[t] <= minRam /\ minRam <= workerRam[w] /\ minRam \in Nat
      BY <1>2, <1>5
    <3>2. taskRam[t] \in Nat /\ workerRam[w] \in Nat
      OBVIOUS
    <3> QED
      BY <3>1, <3>2
  <2> QED
    BY <2>1, <2>2, SmallTasksNeedTheirNumber, FS_CardinalityType
<1>6. CASE pool # {} /\ reserved # {} /\ ~ \A t \in reserved : taskRam[t] <= minRam
  <2>1. blocked = GreedyIndex(SortedSizes(reserved, taskRam), SortedSizes(pool, workerRam))
    BY <1>2, <1>6 DEF NumberOfBlocked
  <2> QED
    BY <2>1, <1>6, GreedyIndexIsLeast
<1> QED
  BY <1>3, <1>4, <1>5, <1>6

-----------------------------------------------------------------------------
(***************************************************************************)
(* What the number protects in the daemon.                                 *)
(***************************************************************************)
\* Where schedule() runs, the arguments of the computation are the daemon's any-cpu
\* workers and their least RAM, and the any-cpu queue holds some of them, once each.
LEMMA ScheduleSees ==
    ASSUME DaemonInv, scheduling
    PROVE  LET pool == {v \in registered : CpuEnabled[v]}
           IN  /\ Rams(waiting, Ram, pool, TotalRam)
               /\ IsMinRam(minAnyCpuWorkerRam, None, pool, TotalRam)
               /\ AnyCpuIds \in SUBSET pool
               /\ Cardinality(AnyCpuIds) = Cardinality(anyCpuQueue)
<1> DEFINE pool == {v \in registered : CpuEnabled[v]}
<1>1. /\ registered = workers /\ workers \subseteq Workers
      /\ minAnyCpuWorkerRam = MinAnyCpuRam(registered)
  BY DEF DaemonInv, ControlInv, WorkersAgree, Leaving, SchedInv, SchedTypeOK
<1>2. Rams(waiting, Ram, pool, TotalRam)
  <2>1. waiting \subseteq Tasks /\ pool \subseteq Workers
    BY <1>1 DEF DaemonInv, SchedInv, SchedTypeOK
  <2>2. IsFiniteSet(waiting) /\ IsFiniteSet(pool)
    BY <2>1, FS_Subset, WorkersAssumption, TasksAssumption
  <2> QED
    BY <2>1, <2>2, WorkersAssumption, TasksAssumption DEF Rams
<1>3. IsMinRam(minAnyCpuWorkerRam, None, pool, TotalRam)
  BY <1>1 DEF IsMinRam, MinAnyCpuRam
<1>4. \A e \in anyCpuQueue : \E v \in workers :
          e \in CurrentAnyCpuEntry(v)
  BY DEF DaemonInv, SchedInv, WorkerQueuesMatchCounters
<1>5. \A v \in workers : \A e \in CurrentAnyCpuEntry(v) :
          e = [id |-> v, busy |-> running[v] > 0, ram |-> TotalRam[v] - usedRam[v]]
              /\ e.id = v /\ CpuEnabled[v]
  BY NoneAssumption DEF CurrentAnyCpuEntry, AnyCpuEntry, getQueueName
<1>6. AnyCpuIds \in SUBSET pool
  BY <1>1, <1>4, <1>5 DEF AnyCpuIds
<1>7. \A d, e \in anyCpuQueue : d.id = e.id => d = e
  BY <1>4, <1>5
<1>8. Cardinality(AnyCpuIds) = Cardinality(anyCpuQueue)
  <2> DEFINE f == [e \in anyCpuQueue |-> e.id]
             g == [v \in AnyCpuIds |-> CHOOSE e \in anyCpuQueue : e.id = v]
  <2>1. \A v \in AnyCpuIds : g[v] \in anyCpuQueue /\ g[v].id = v
    BY DEF AnyCpuIds
  <2>2. g \in Surjection(AnyCpuIds, anyCpuQueue) /\ g \in Injection(AnyCpuIds, anyCpuQueue)
    <3>1. g \in [AnyCpuIds -> anyCpuQueue] /\ \A u, v \in AnyCpuIds : g[u] = g[v] => u = v
      BY <2>1
    <3>2. \A e \in anyCpuQueue : e.id \in AnyCpuIds /\ g[e.id] = e
      <4> TAKE e \in anyCpuQueue
      <4>1. e.id \in AnyCpuIds
        BY DEF AnyCpuIds
      <4> QED
        BY <4>1, <2>1, <1>7
    <3> HIDE DEF g
    <3> QED
      BY <3>1, <3>2 DEF Surjection, Injection, IsInjective
  <2> HIDE DEF g
  <2>3. IsFiniteSet(AnyCpuIds)
    BY <1>2, <1>6, FS_Subset DEF Rams
  <2> QED
    BY <2>2, <2>3, FS_Surjection, Zenon
<1> QED
  BY <1>2, <1>3, <1>6, <1>8

\* The condition under which schedule() looks at the tasks that are not reserved.
LEMMA AllowedProtects ==
    ASSUME DaemonInv, scheduling, AnyCpuAllowed, NEW w
    PROVE  AtOnce(waiting, Ram, AnyCpuIds \ {w}, TotalRam)
<1> DEFINE pool == {v \in registered : CpuEnabled[v]}
           ids == AnyCpuIds
           B == getNumberOfBlockedAnyCpuWorkers
           sufficient == SufficientNumbers(waiting, Ram, pool, TotalRam)
           S == ids \ {w}
<1>1. /\ Rams(waiting, Ram, pool, TotalRam)
      /\ IsMinRam(minAnyCpuWorkerRam, None, pool, TotalRam)
      /\ ids \in SUBSET pool
      /\ Cardinality(ids) > B
  BY ScheduleSees DEF AnyCpuAllowed
<1>2. IsLeastSufficient(B, waiting, Ram, pool, TotalRam)
  <2>1. None \notin Nat
    BY NoneAssumption
  <2>2. B = NumberOfBlocked(minAnyCpuWorkerRam, None, waiting, Ram, pool, TotalRam)
    BY DEF getNumberOfBlockedAnyCpuWorkers
  <2> HIDE DEF pool, B
  <2> QED
    BY <1>1, <2>1, <2>2, BlockedIsLeast
<1> HIDE DEF pool, ids, B
<1>3. /\ IsFiniteSet(pool) /\ Cardinality(pool) \in Nat
      /\ IsFiniteSet(ids) /\ Cardinality(ids) \in Nat /\ Cardinality(ids) <= Cardinality(pool)
  BY <1>1, FS_Subset, FS_CardinalityType DEF Rams
<1>4. sufficient \in SUBSET Nat
  BY <1>3 DEF SufficientNumbers
<1>5. B \in sufficient
  <2>1. sufficient # {}
    <3> SUFFICES ASSUME sufficient = {} PROVE FALSE
      OBVIOUS
    <3>1. B >= Cardinality(pool)
      BY <1>2 DEF IsLeastSufficient
    <3>2. B \in Nat
      BY <1>2 DEF IsLeastSufficient
    <3> QED
      BY <1>1, <1>3, <3>1, <3>2
  <2>2. B = Least(sufficient)
    BY <1>2, <2>1 DEF IsLeastSufficient
  <2> HIDE DEF sufficient
  <2> QED
    BY <2>1, <2>2, <1>4, LeastIsMember
<1>6. /\ B \in Nat
      /\ \A U \in SUBSET pool : Cardinality(U) = B => AtOnce(waiting, Ram, U, TotalRam)
  BY <1>4, <1>5 DEF SufficientNumbers
<1>7. /\ S \in SUBSET pool /\ IsFiniteSet(S)
      /\ Cardinality(S) \in Nat /\ B <= Cardinality(S)
  <2>1. IsFiniteSet(S) /\ Cardinality(S) \in Nat
    BY <1>3, FS_RemoveElement, FS_CardinalityType
  <2>2. Cardinality(S) = IF w \in ids THEN Cardinality(ids) - 1 ELSE Cardinality(ids)
    BY <1>3, FS_RemoveElement
  <2> QED
    BY <1>1, <1>3, <1>6, <2>1, <2>2
<1> HIDE DEF S
<1>8. PICK p : Sorts(p, S, TotalRam)
  BY <1>1, <1>7, SortExists DEF Rams
<1> DEFINE U == {p[i] : i \in 1..B}
<1>9. U \in SUBSET S /\ Cardinality(U) = B
  BY <1>6, <1>7, <1>8, FirstN
<1> HIDE DEF U
<1>10. AtOnce(waiting, Ram, U, TotalRam)
  BY <1>6, <1>7, <1>9
<1>11. AtOnce(waiting, Ram, S, TotalRam)
  BY <1>9, <1>10, AtOnceUpward
<1> QED
  BY <1>11 DEF S, ids

\* _scheduleOnce never lends a worker that a reserved task will need: after every step
\* that gives an any-cpu worker to a task without a reservation, the rest of the any-cpu
\* queue suffices for all reserved tasks.  It is the daemon's theorem and not the
\* scheduler's: the number is computed from the worker manager's statistics, which are
\* fresh only because the handlers notify in the right order.
THEOREM ReservationsAlwaysProtected == Spec => ReservationsProtected
<1>1. DaemonInv /\ [Next]_vars =>
          [\A t \in Tasks, w \in Workers :
              /\ assigned[t] = None /\ assigned'[t] = w
              /\ t \notin waiting /\ CpuEnabled[w]
              => AtOnce(waiting, Ram, AnyCpuIds \ {w}, TotalRam)]_vars
  <2> SUFFICES ASSUME DaemonInv, [Next]_vars, NEW t \in Tasks, NEW w \in Workers,
                      assigned[t] = None, assigned'[t] = w, t \notin waiting, CpuEnabled[w]
               PROVE  AtOnce(waiting, Ram, AnyCpuIds \ {w}, TotalRam)
    OBVIOUS
  <2>1. [SchedNext]_schedVars
    BY StepsKeepInterface
  <2>2. None \notin Workers /\ assigned \in [Tasks -> Workers \cup {None}]
    BY NoneAssumption DEF DaemonInv, SchedInv, SchedTypeOK
  <2>3. ASSUME NEW u \in Tasks, NEW v \in Workers, AttachTaskToWorker(u, v)
        PROVE  u = t /\ v = w
    BY <2>2, <2>3 DEF AttachTaskToWorker
  <2>4. ASSUME NEW u \in Tasks, NEW v \in Workers, ScheduleVcpuOnly(u, v) PROVE FALSE
    <3>1. v = w /\ v \in vcpuOnlyQueue
      BY <2>3, <2>4 DEF ScheduleVcpuOnly, BestVcpuOnly, BestForVirtualCpu
    <3>2. \A x \in vcpuOnlyQueue : ~CpuEnabled[x]
      BY NoneAssumption DEF DaemonInv, SchedInv, WorkerQueuesMatchCounters,
         CurrentVcpuOnlyEntry, VcpuOnlyEntry, getQueueName
    <3> QED
      BY <3>1, <3>2
  <2>5. ASSUME NEW u \in Tasks, NEW v \in Workers, ScheduleWaiting(u, v) PROVE FALSE
    BY <2>3, <2>5 DEF ScheduleWaiting, WaitingHead
  <2>6. ASSUME NEW u \in Tasks, NEW v \in Workers, ScheduleAnyCpu(u, v)
        PROVE  AtOnce(waiting, Ram, AnyCpuIds \ {w}, TotalRam)
    BY <2>6, AllowedProtects DEF ScheduleAnyCpu
  <2>7. ASSUME NEW u \in Tasks, assigned' = [assigned EXCEPT ![u] = None] PROVE FALSE
    BY <2>2, <2>7
  <2>8. ASSUME UNCHANGED assigned PROVE FALSE
    BY <2>2, <2>8
  <2>9. \A u \in tasks : u \in Tasks
    BY DEF DaemonInv, SchedInv, SchedTypeOK
  <2> QED
    BY <2>1, <2>4, <2>5, <2>6, <2>7, <2>8, <2>9
    DEF SchedNext, Operation, ManagerChanges, ScheduleCall, ScheduleReturn, ScheduleOnce,
        Reserve, UpdateContest, AddWorker, DelWorker, AddTask, DelTask, taskVars, schedVars
<1> QED
  BY <1>1, DaemonConsistent, PTL DEF Spec, ReservationsProtected

-----------------------------------------------------------------------------
(***************************************************************************)
(* The instance the model checker explores, for any bounds and sizes.      *)
(***************************************************************************)
\* The lists hold sizes, which is all the instance says of them.
Lists == taskRams \in Seq(Sizes) /\ workerRams \in Seq(Sizes)

\* What the proof needs of a list of sizes.
LEMMA SizeList ==
    ASSUME NEW s \in Seq(Sizes)
    PROVE  /\ Len(s) \in Nat /\ DOMAIN s = 1..Len(s) /\ (s = <<>> <=> DOMAIN s = {})
           /\ \A i \in DOMAIN s : s[i] \in Nat
           /\ IsFiniteSet(DOMAIN s) /\ Cardinality(DOMAIN s) = Len(s)
           /\ \A r \in Sizes : Append(s, r) \in Seq(Sizes)
<1>1. Len(s) \in Nat /\ DOMAIN s = 1..Len(s)
  OBVIOUS
<1>2. \A i \in DOMAIN s : s[i] \in Nat
  <2>1. \A i \in 1..Len(s) : s[i] \in Sizes
    OBVIOUS
  <2> QED
    BY <1>1, <2>1, SizesAssumption
<1>3. s = <<>> <=> DOMAIN s = {}
  <2>1. ASSUME DOMAIN s = {} PROVE s = <<>>
    <3>1. Len(s) = 0
      BY <1>1, <2>1
    <3> QED
      BY <3>1
  <2>2. DOMAIN <<>> = {}
    OBVIOUS
  <2> QED
    BY <2>1, <2>2, Zenon
<1>4. IsFiniteSet(DOMAIN s) /\ Cardinality(DOMAIN s) = Len(s)
  BY <1>1, CountUpTo
<1>5. \A r \in Sizes : Append(s, r) \in Seq(Sizes)
  OBVIOUS
<1> QED
  BY <1>1, <1>2, <1>3, <1>4, <1>5

\* For lists of sizes, what the run checks is BlockedIsLeast with positions as tasks
\* and as workers.
LEMMA ListsMinimal ==
    ASSUME Lists
    PROVE  BlockedIsMinimal
<1> DEFINE T == DOMAIN taskRams
           W == DOMAIN workerRams
           n == Len(workerRams)
           sufficient == SufficientNumbers(T, taskRams, W, workerRams)
           minRam == IF W = {} THEN NoRam ELSE Least({workerRams[w] : w \in W})
           blocked == NumberOfBlocked(minRam, NoRam, T, taskRams, W, workerRams)
<1>1. /\ Len(taskRams) \in Nat /\ T = 1..Len(taskRams) /\ \A t \in T : taskRams[t] \in Nat
      /\ n \in Nat /\ W = 1..n /\ \A w \in W : workerRams[w] \in Nat
      /\ workerRams = <<>> <=> W = {}
  BY SizeList DEF Lists
<1>2. IsFiniteSet(T) /\ IsFiniteSet(W) /\ Cardinality(W) = n
  BY SizeList DEF Lists
<1>3. NoRam \notin Nat
  BY SizesAssumption
<1>4. Blocked = blocked
  BY <1>1 DEF Blocked, NumberOfBlocked
<1>5. Sufficient = sufficient
  BY <1>2
  DEF Sufficient, SufficientNumbers, AtOnce
<1>6. /\ sufficient = {} => blocked >= Cardinality(W)
      /\ sufficient # {} => blocked = Least(sufficient)
  <2>1. Rams(T, taskRams, W, workerRams) /\ IsMinRam(minRam, NoRam, W, workerRams)
    BY <1>1, <1>2 DEF Rams, IsMinRam
  <2> HIDE DEF T, W, minRam
  <2>2. IsLeastSufficient(blocked, T, taskRams, W, workerRams)
    BY <2>1, <1>3, BlockedIsLeast
  <2> QED
    BY <2>2 DEF IsLeastSufficient
<1> HIDE DEF T, W, sufficient, blocked
<1> QED
  BY <1>2, <1>4, <1>5, <1>6 DEF BlockedIsMinimal

\* _getNumberOfBlockedAnyCpuWorkers returns what its docstring says, for lists of any
\* length of reserved tasks and of any-cpu workers: the minimum N such that any N
\* workers can process all reserved tasks at the same time, and no less than the number
\* of all workers when there is no such N.
THEOREM BlockedIsAlwaysMinimal == ListSpec => []BlockedIsMinimal
<1>1. ListInit => Lists
  BY DEF ListInit, Lists
<1>2. Lists /\ [ListNext]_listVars => Lists'
  <2> SUFFICES ASSUME Lists, [ListNext]_listVars PROVE Lists'
    OBVIOUS
  <2>1. CASE ListNext
    BY <2>1, SizeList DEF ListNext, ReserveTask, ConnectWorker, Lists
  <2>2. CASE UNCHANGED listVars
    BY <2>2 DEF listVars, Lists
  <2> QED
    BY <2>1, <2>2
<1>3. Lists => BlockedIsMinimal
  BY ListsMinimal
<1> QED
  BY <1>1, <1>2, <1>3, PTL DEF ListSpec
=============================================================================
