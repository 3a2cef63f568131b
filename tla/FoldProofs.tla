----------------------------- MODULE FoldProofs -----------------------------
(* Induction, and what the folds of the community modules do.

   The library's induction theorems take the induction hypothesis as an
   operator, which the provers cannot instantiate.  Here it is a set of numbers:
   a set that holds 0 and the successor of each of its members holds them all,
   since otherwise the numbers below one it lacks would be mapped into
   themselves one to one by adding one, and none of them onto 0.

   FoldLeft is a function on the sets of places of a sequence, chosen as one that
   does at the greatest place of a set what the fold does there.  FoldExists
   says that there is such a function, FoldWalk that every one of them goes
   through the sequence place by place.                                       *)
EXTENDS Integers, SequencesExt, FiniteSetTheorems, TLAPS

(* Induction over the natural numbers, for a set. *)
LEMMA Induction ==
    ASSUME NEW T \in SUBSET Nat, 0 \in T, \A n \in T : n + 1 \in T
    PROVE  T = Nat
<1> SUFFICES ASSUME NEW m \in Nat, m \notin T PROVE FALSE
  OBVIOUS
<1> DEFINE A == {k \in T : k <= m}
           f == [k \in A |-> k + 1]
<1>1. IsFiniteSet(A)
  BY FS_BoundedSetOfNaturals
<1>2. f \in [A -> A]
  <2>1. \A k \in A : k + 1 \in A
    <3> SUFFICES ASSUME NEW k \in A PROVE k + 1 \in T /\ k + 1 <= m
      OBVIOUS
    <3>1. k + 1 \in T /\ k # m /\ k + 1 # m
      OBVIOUS
    <3> QED
      BY <3>1
  <2> QED
    BY <2>1
<1>3. \A k, l \in A : f[k] = f[l] => k = l
  OBVIOUS
<1>4. f \in Surjection(A, A)
  <2> HIDE DEF A, f
  <2>1. f \in Injection(A, A)
    BY <1>2, <1>3 DEF Injection, IsInjective
  <2> QED
    BY <1>1, <2>1, FS_Injection
<1>5. \E k \in A : f[k] = 0
  <2>1. 0 \in A
    OBVIOUS
  <2> HIDE DEF A, f
  <2> QED
    BY <1>4, <2>1 DEF Surjection
<1> QED
  BY <1>5

(* A step at each of n places, as a function of the place and of what has been
   gathered, stays in V.                                                      *)
Maps(h, n, V) == \A i \in 1 .. n, v \in V : h[i][v] \in V

(* The function FoldLeft is made of, over the first n places. *)
Folds(g, n, V, b, h) ==
    /\ g \in [SUBSET (1 .. n) -> V]
    /\ \A s \in SUBSET (1 .. n) : g[s] = IF s = {} THEN b ELSE h[Max(s)][g[s \ {Max(s)}]]

(* The greatest of the first k + 1 places, and what is left without it. *)
LEMMA TopOf ==
    ASSUME NEW k \in Nat, NEW s \in SUBSET (1 .. k + 1), k + 1 \in s
    PROVE  Max(s) = k + 1 /\ s \ {k + 1} \in SUBSET (1 .. k)
<1>1. \A x \in s : x \in Nat /\ x <= k + 1
  OBVIOUS
<1>2. Max(s) \in s /\ \A x \in s : Max(s) >= x
  <2>1. \E x \in s : \A y \in s : x >= y
    BY <1>1
  <2> QED
    BY <2>1 DEF Max
<1>3. Max(s) = k + 1
  <2>1. Max(s) \in Nat /\ Max(s) <= k + 1 /\ Max(s) >= k + 1
    BY <1>1, <1>2
  <2> QED
    BY <2>1
<1>4. s \ {k + 1} \in SUBSET (1 .. k)
  BY <1>1
<1> QED
  BY <1>3, <1>4

(* A fold over k places makes one over k + 1. *)
LEMMA FoldGrows ==
    ASSUME NEW k \in Nat, NEW V, NEW b \in V, NEW h,
           \A v \in V : h[k + 1][v] \in V,
           NEW p, Folds(p, k, V, b, h)
    PROVE  \E g : Folds(g, k + 1, V, b, h)
<1> DEFINE g == [s \in SUBSET (1 .. k + 1) |->
                    IF k + 1 \in s THEN h[k + 1][p[s \ {k + 1}]] ELSE p[s]]
<1>1. ASSUME NEW s \in SUBSET (1 .. k + 1), k + 1 \notin s
      PROVE  s \in SUBSET (1 .. k) /\ s \ {Max(s)} \in SUBSET (1 .. k)
  <2>1. \A x \in s : x \in 1 .. k
    BY <1>1
  <2> QED
    BY <2>1
<1>2. ASSUME NEW s \in SUBSET (1 .. k + 1), k + 1 \in s
      PROVE  /\ g[s] \in V /\ s # {}
             /\ g[s] = h[Max(s)][g[s \ {Max(s)}]]
  <2>1. Max(s) = k + 1 /\ s \ {k + 1} \in SUBSET (1 .. k)
    BY <1>2, TopOf
  <2>2. s \ {k + 1} \in SUBSET (1 .. k + 1)
    OBVIOUS
  <2>3. g[s \ {k + 1}] = p[s \ {k + 1}] /\ p[s \ {k + 1}] \in V
    BY <2>1, <2>2 DEF Folds
  <2>4. g[s] = h[k + 1][p[s \ {k + 1}]]
    BY <1>2
  <2> QED
    BY <1>2, <2>1, <2>3, <2>4
<1>3. ASSUME NEW s \in SUBSET (1 .. k + 1), k + 1 \notin s
      PROVE  /\ g[s] \in V
             /\ g[s] = IF s = {} THEN b ELSE h[Max(s)][g[s \ {Max(s)}]]
  <2>1. s \in SUBSET (1 .. k) /\ s \ {Max(s)} \in SUBSET (1 .. k) /\ s \ {Max(s)} \in SUBSET (1 .. k + 1)
    BY <1>1, <1>3
  <2>2. g[s] = p[s] /\ g[s \ {Max(s)}] = p[s \ {Max(s)}]
    BY <1>3, <2>1
  <2>3. p[s] \in V /\ p[s] = IF s = {} THEN b ELSE h[Max(s)][p[s \ {Max(s)}]]
    BY <2>1 DEF Folds
  <2> HIDE DEF g
  <2> QED
    BY <2>2, <2>3
<1>4. g \in [SUBSET (1 .. k + 1) -> V]
  <2>1. \A s \in SUBSET (1 .. k + 1) : g[s] \in V
    BY <1>2, <1>3
  <2> QED
    BY <2>1
<1>5. Folds(g, k + 1, V, b, h)
  <2> HIDE DEF g
  <2> QED
    BY <1>2, <1>3, <1>4 DEF Folds
<1> QED
  BY <1>5

(* There is a fold over any number of places. *)
LEMMA FoldExists ==
    ASSUME NEW n \in Nat, NEW V, NEW b \in V, NEW h, Maps(h, n, V)
    PROVE  \E g : Folds(g, n, V, b, h)
<1> DEFINE T == {k \in Nat : k <= n => \E g : Folds(g, k, V, b, h)}
<1>1. 0 \in T
  <2> DEFINE g == [s \in SUBSET (1 .. 0) |-> b]
  <2>1. \A s \in SUBSET (1 .. 0) : s = {}
    OBVIOUS
  <2>2. Folds(g, 0, V, b, h)
    BY <2>1 DEF Folds
  <2> QED
    BY <2>2
<1>2. ASSUME NEW k \in T PROVE k + 1 \in T
  <2> SUFFICES ASSUME k + 1 <= n PROVE \E g : Folds(g, k + 1, V, b, h)
    OBVIOUS
  <2>1. k \in Nat /\ \E p : Folds(p, k, V, b, h)
    OBVIOUS
  <2>2. \A v \in V : h[k + 1][v] \in V
    BY <2>1 DEF Maps
  <2> QED
    BY <2>1, <2>2, FoldGrows
<1>3. T = Nat
  <2>1. T \in SUBSET Nat
    OBVIOUS
  <2> HIDE DEF T
  <2> QED
    BY <1>1, <1>2, <2>1, Induction
<1> QED
  BY <1>3
(* g does to a set what h does at its greatest element. *)
Unrolls(g, n, V, b, h) ==
    /\ g[{}] = b
    /\ \A s \in SUBSET (1 .. n) :
          s # {} /\ g[s \ {Max(s)}] \in V => g[s] = h[Max(s)][g[s \ {Max(s)}]]

(* The values a fold goes through, from b, place by place. *)
Walks(f, n, V, b, h) ==
    /\ f \in [0 .. n -> V]
    /\ f[0] = b
    /\ \A k \in 0 .. n - 1 : f[k + 1] = h[k + 1][f[k]]

(* A function that unrolls goes through the places one by one. *)
LEMMA FoldWalk ==
    ASSUME NEW n \in Nat, NEW V, NEW b \in V, NEW h, Maps(h, n, V),
           NEW g, Unrolls(g, n, V, b, h)
    PROVE  \E f : Walks(f, n, V, b, h) /\ f[n] = g[1 .. n]
<1> DEFINE T == {k \in Nat : k <= n => g[1 .. k] \in V}
<1>1. g[1 .. 0] = b
  <2>1. 1 .. 0 = {}
    OBVIOUS
  <2> QED
    BY <2>1 DEF Unrolls
<1>2. ASSUME NEW k \in Nat, k + 1 <= n, g[1 .. k] \in V PROVE g[1 .. (k + 1)] = h[k + 1][g[1 .. k]]
  <2> DEFINE s == 1 .. (k + 1)
  <2>0. \A x \in 1 .. k + 1 : x \in 1 .. n
    BY <1>2
  <2>1. s \in SUBSET (1 .. k + 1) /\ k + 1 \in s /\ s \in SUBSET (1 .. n) /\ s # {}
    <3>1. s \in SUBSET (1 .. n) /\ k + 1 \in 1 .. k + 1
      BY <2>0
    <3> QED
      BY <3>1
  <2>2. s \ {k + 1} = 1 .. k
    BY <1>2
  <2> HIDE DEF s
  <2>3. Max(s) = k + 1
    BY <2>1, TopOf
  <2> QED
    BY <1>2, <2>1, <2>2, <2>3 DEF s, Unrolls
<1>3. 0 \in T
  BY <1>1
<1>4. ASSUME NEW k \in T PROVE k + 1 \in T
  <2> SUFFICES ASSUME k + 1 <= n PROVE g[1 .. (k + 1)] \in V
    OBVIOUS
  <2>1. k \in Nat /\ g[1 .. k] \in V /\ k + 1 \in 1 .. n
    OBVIOUS
  <2> QED
    BY <1>2, <2>1 DEF Maps
<1>5. T = Nat
  <2>1. T \in SUBSET Nat
    OBVIOUS
  <2> HIDE DEF T
  <2> QED
    BY <1>3, <1>4, <2>1, Induction
<1> DEFINE f == [k \in 0 .. n |-> g[1 .. k]]
<1>6. f \in [0 .. n -> V]
  BY <1>5
<1>7. ASSUME NEW k \in 0 .. n - 1 PROVE f[k + 1] = h[k + 1][f[k]]
  <2>1. k \in Nat /\ k + 1 <= n /\ k \in 0 .. n /\ k + 1 \in 0 .. n
    OBVIOUS
  <2>2. f[k + 1] = g[1 .. (k + 1)] /\ f[k] = g[1 .. k]
    BY <2>1
  <2>3. g[1 .. k] \in V
    BY <1>5, <2>1
  <2> QED
    BY <1>2, <2>1, <2>2, <2>3
<1>8. f[0] = b /\ f[n] = g[1 .. n]
  BY <1>1
<1> HIDE DEF f
<1> QED
  BY <1>6, <1>7, <1>8 DEF Walks

(* Places have a greatest one. *)
LEMMA GreatestIn ==
    ASSUME NEW n \in Nat, NEW s \in SUBSET (1 .. n), s # {}
    PROVE  Max(s) \in s /\ Max(s) \in 1 .. n /\ s \ {Max(s)} \in SUBSET (1 .. n)
<1> DEFINE T == {k \in Nat : \A z \in SUBSET (1 .. k) : z # {} => \E x \in z : \A y \in z : x >= y}
<1>1. 0 \in T
  <2>1. \A z \in SUBSET (1 .. 0) : z = {}
    OBVIOUS
  <2> QED
    BY <2>1
<1>2. ASSUME NEW k \in T PROVE k + 1 \in T
  <2> SUFFICES ASSUME NEW z \in SUBSET (1 .. k + 1), z # {}
               PROVE  \E x \in z : \A y \in z : x >= y
    OBVIOUS
  <2>1. CASE k + 1 \in z
    BY <2>1
  <2>2. CASE k + 1 \notin z
    <3>1. \A x \in z : x \in 1 .. k
      BY <2>2
    <3> QED
      BY <3>1
  <2> QED
    BY <2>1, <2>2
<1>3. T = Nat
  <2>1. T \in SUBSET Nat
    OBVIOUS
  <2> HIDE DEF T
  <2> QED
    BY <1>1, <1>2, <2>1, Induction
<1>4. \E x \in s : \A y \in s : x >= y
  BY <1>3
<1>5. Max(s) \in s
  BY <1>4 DEF Max
<1> QED
  BY <1>5

(* Places have a least one. *)
LEMMA LeastIn ==
    ASSUME NEW n \in Nat, NEW s \in SUBSET (1 .. n), s # {}
    PROVE  Min(s) \in s
<1> DEFINE T == {k \in Nat : \A z \in SUBSET (1 .. k) : z # {} => \E x \in z : \A y \in z : x <= y}
<1>1. 0 \in T
  <2>1. \A z \in SUBSET (1 .. 0) : z = {}
    OBVIOUS
  <2> QED
    BY <2>1
<1>2. ASSUME NEW k \in T PROVE k + 1 \in T
  <2> SUFFICES ASSUME NEW z \in SUBSET (1 .. k + 1), z # {}
               PROVE  \E x \in z : \A y \in z : x <= y
    OBVIOUS
  <2> DEFINE rest == z \ {k + 1}
  <2>1. rest \in SUBSET (1 .. k) /\ k \in Nat
    <3>1. \A x \in rest : x \in 1 .. k
      OBVIOUS
    <3> QED
      BY <3>1
  <2>2. CASE rest = {}
    <3>1. \A x \in z : x = k + 1
      BY <2>2
    <3> QED
      BY <2>1, <3>1
  <2>3. CASE rest # {}
    <3>1. PICK x \in rest : \A y \in rest : x <= y
      BY <2>1, <2>3
    <3>2. \A y \in z : x <= y
      <4>1. x <= k + 1
        BY <2>1, <3>1
      <4> QED
        BY <3>1, <4>1
    <3> QED
      BY <3>1, <3>2
  <2> QED
    BY <2>2, <2>3
<1>3. T = Nat
  <2>1. T \in SUBSET Nat
    OBVIOUS
  <2> HIDE DEF T
  <2> QED
    BY <1>1, <1>2, <2>1, Induction
<1>4. \E x \in s : \A y \in s : x <= y
  BY <1>3
<1> QED
  BY <1>4 DEF Min

(* g does h at the greatest place of every set of places. *)
Makes(g, n, V, b, h) ==
    /\ g \in [SUBSET (1 .. n) -> V] /\ g[{}] = b
    /\ \A z \in SUBSET (1 .. n) : z # {} =>
          /\ Max(z) \in 1 .. n /\ g[z \ {Max(z)}] \in V
          /\ g[z] = h[Max(z)][g[z \ {Max(z)}]]

(* There is a function that can be recognised as the one FoldLeft has chosen. *)
LEMMA FoldMakes ==
    ASSUME NEW n \in Nat, NEW V, NEW b \in V, NEW h, Maps(h, n, V)
    PROVE  \E g : Makes(g, n, V, b, h)
<1>1. PICK g : Folds(g, n, V, b, h)
  BY FoldExists
<1>2. g \in [SUBSET (1 .. n) -> V] /\ g[{}] = b
  <2>1. {} \in SUBSET (1 .. n)
    OBVIOUS
  <2> QED
    BY <1>1, <2>1 DEF Folds
<1>3. ASSUME NEW z \in SUBSET (1 .. n), z # {}
      PROVE  /\ Max(z) \in 1 .. n /\ g[z \ {Max(z)}] \in V
             /\ g[z] = h[Max(z)][g[z \ {Max(z)}]]
  <2>1. Max(z) \in 1 .. n /\ z \ {Max(z)} \in SUBSET (1 .. n)
    BY <1>3, GreatestIn
  <2> QED
    BY <1>1, <1>2, <1>3, <2>1 DEF Folds
<1> QED
  BY <1>2, <1>3 DEF Makes

(* Where such a function ends. *)
LEMMA FoldStays ==
    ASSUME NEW n \in Nat, NEW V, NEW b \in V, NEW h, Maps(h, n, V),
           NEW g, Unrolls(g, n, V, b, h)
    PROVE  g[1 .. n] \in V
<1>1. PICK f : Walks(f, n, V, b, h) /\ f[n] = g[1 .. n]
  BY FoldWalk
<1> QED
  BY <1>1 DEF Walks
=============================================================================
