------------------------------ MODULE Folding ------------------------------
(***************************************************************************)
(* FoldLeft taken step by step.  Op(p, x, a) is what the fold makes of x   *)
(* and the next element a, with a parameter p that stays; a module that    *)
(* proves something of a fold takes an instance of this one for it.        *)
(*                                                                         *)
(* The lemmas ask for the fact LeastNumber (of the modules that take an    *)
(* instance) where they are cited, so that an instance of this module      *)
(* brings nothing but them.                                                *)
(***************************************************************************)
EXTENDS Integers, TLAPS

CONSTANT Op(_, _, _)

Top(t) == CHOOSE x \in t : \A y \in t : x >= y

\* The function on sets of places that FoldLeft is defined by.
IsIter(p, base, s, n, iter) ==
    iter = [t \in SUBSET (1..n) |->
              IF t = {} THEN base ELSE Op(p, iter[t \ {Top(t)}], s[Top(t)])]

\* What the fold has made of the first k elements.
IsSteps(p, base, s, n, h) ==
    h = [k \in 0..n |-> IF k = 0 THEN base ELSE Op(p, h[k - 1], s[k])]
-----------------------------------------------------------------------------
\* A set of natural numbers that is not empty has a least element.
HasLeast ==
    \A S \in SUBSET Nat : S # {} => \E m \in S : \A k \in S : m <= k

LEMMA TopOf ==
    ASSUME HasLeast, NEW n \in Nat, NEW t \in SUBSET (1..n), t # {}
    PROVE  Top(t) \in t /\ \A y \in t : Top(t) >= y
<1> DEFINE D == {n - x : x \in t}
<1>1. D \in SUBSET Nat /\ D # {}
  <2>1. \A x \in t : n - x \in Nat
      OBVIOUS
  <2> QED
      BY <2>1
<1>2. PICK d \in D : \A e \in D : d <= e
  <2> HIDE DEF D
  <2> QED
      BY <1>1 DEF HasLeast
<1>3. PICK x \in t : d = n - x
    OBVIOUS
<1>4. \A y \in t : x >= y
  <2> SUFFICES ASSUME NEW y \in t PROVE x >= y
      OBVIOUS
  <2>1. n - y \in D /\ x \in Int /\ y \in Int
      OBVIOUS
  <2>2. n - x <= n - y
      BY <2>1, <1>2, <1>3
  <2> QED
      BY <2>1, <2>2
<1> QED
    BY <1>4 DEF Top

LEMMA BelowTop ==
    ASSUME HasLeast, NEW n \in Nat, NEW t \in SUBSET (1..n), t # {}
    PROVE  /\ Top(t) \in 1..n
           /\ t \ {Top(t)} \in SUBSET (1..n - 1)
<1>1. Top(t) \in t /\ \A y \in t : Top(t) >= y
    BY TopOf
<1>2. ASSUME NEW z \in t, z # Top(t) PROVE z \in 1..n - 1
  <2>1. z <= Top(t) /\ z \in 1..n /\ Top(t) \in 1..n
      BY <1>1
  <2> QED
      BY <2>1, <1>2
<1> QED
    BY <1>1, <1>2

LEMMA FoldExists ==
    ASSUME HasLeast, NEW p, NEW base, NEW s, NEW n \in Nat
    PROVE  \E iter : IsIter(p, base, s, n, iter)
<1> DEFINE S == {m \in Nat : \E iter : IsIter(p, base, s, m, iter)}
<1>1. 0 \in S
  <2> DEFINE f == [t \in SUBSET (1..0) |-> base]
  <2>1. \A t \in SUBSET (1..0) : t = {}
      OBVIOUS
  <2>2. \A t \in SUBSET (1..0) :
           f[t] = IF t = {} THEN base ELSE Op(p, f[t \ {Top(t)}], s[Top(t)])
      BY <2>1
  <2>3. f = [t \in SUBSET (1..0) |-> f[t]]
      BY Zenon
  <2> HIDE DEF f
  <2>4. f = [t \in SUBSET (1..0) |->
               IF t = {} THEN base ELSE Op(p, f[t \ {Top(t)}], s[Top(t)])]
      BY <2>2, <2>3, Zenon
  <2>5. IsIter(p, base, s, 0, f)
      BY <2>4 DEF IsIter
  <2> QED
      BY <2>5
<1>2. ASSUME NEW m \in 1..n, m - 1 \in S PROVE m \in S
  <2>1. PICK f : IsIter(p, base, s, m - 1, f)
      BY <1>2
  <2> DEFINE g == [t \in SUBSET (1..m) |->
                     IF t = {} THEN base ELSE Op(p, f[t \ {Top(t)}], s[Top(t)])]
  <2>2. \A t \in SUBSET (1..m - 1) :
           f[t] = IF t = {} THEN base ELSE Op(p, f[t \ {Top(t)}], s[Top(t)])
      BY <2>1, Zenon DEF IsIter
  <2>3. SUBSET (1..m - 1) \subseteq SUBSET (1..m)
      OBVIOUS
  <2>4. \A t \in SUBSET (1..m) :
           g[t] = IF t = {} THEN base ELSE Op(p, f[t \ {Top(t)}], s[Top(t)])
      BY Zenon
  <2>5. \A t \in SUBSET (1..m - 1) : g[t] = f[t]
      BY <2>2, <2>3, <2>4, Zenon
  <2>6. \A t \in SUBSET (1..m) : t # {} => t \ {Top(t)} \in SUBSET (1..m - 1)
      BY BelowTop
  <2>7. \A t \in SUBSET (1..m) :
           g[t] = IF t = {} THEN base ELSE Op(p, g[t \ {Top(t)}], s[Top(t)])
      BY <2>4, <2>5, <2>6, Zenon
  <2>8. g = [t \in SUBSET (1..m) |-> g[t]]
      BY Zenon
  <2> HIDE DEF g
  <2>9. g = [t \in SUBSET (1..m) |->
               IF t = {} THEN base ELSE Op(p, g[t \ {Top(t)}], s[Top(t)])]
      BY <2>7, <2>8, Zenon
  <2>10. IsIter(p, base, s, m, g)
      BY <2>9 DEF IsIter
  <2> QED
      BY <2>10
<1> HIDE DEF S
<1>3. 0..n \subseteq S
  <2> SUFFICES ASSUME (0..n) \ S # {} PROVE FALSE
      OBVIOUS
  <2> DEFINE T == (0..n) \ S
  <2>1. T \in SUBSET Nat
      OBVIOUS
  <2>2. PICK m \in T : \A k \in T : m <= k
    <3> HIDE DEF T
    <3> QED
        BY <2>1 DEF HasLeast, T
  <2>3. m \in 1..n /\ m - 1 \in 0..n
      BY <1>1, <2>2
  <2>4. m - 1 \in S
      BY <2>2, <2>3
  <2> QED
      BY <1>2, <2>2, <2>3, <2>4
<1> QED
    BY <1>3 DEF S

LEMMA FoldSteps ==
    ASSUME HasLeast, NEW p, NEW base, NEW s, NEW n \in Nat,
           NEW iter, IsIter(p, base, s, n, iter)
    PROVE  \E h : IsSteps(p, base, s, n, h) /\ h[n] = iter[1..n]
<1> DEFINE h == [k \in 0..n |-> iter[1..k]]
<1>1. \A t \in SUBSET (1..n) :
         iter[t] = IF t = {} THEN base ELSE Op(p, iter[t \ {Top(t)}], s[Top(t)])
    BY Zenon DEF IsIter
<1>2. \A k \in 0..n : h[k] = iter[1..k] /\ 1..k \in SUBSET (1..n)
    OBVIOUS
<1>3. 1..0 = {}
    OBVIOUS
<1>4. ASSUME NEW k \in 1..n
      PROVE  1..k # {} /\ Top(1..k) = k /\ (1..k) \ {Top(1..k)} = 1..(k - 1)
  <2>0. k \in Nat /\ k >= 1
      OBVIOUS
  <2>1. k \in 1..k /\ 1..k \in SUBSET (1..k)
      BY <2>0
  <2>2. Top(1..k) \in 1..k /\ Top(1..k) >= k
      BY <2>0, <2>1, TopOf
  <2>3. Top(1..k) = k
      BY <2>2
  <2> QED
      BY <2>1, <2>3
<1>5. \A k \in 0..n : h[k] = IF k = 0 THEN base ELSE Op(p, h[k - 1], s[k])
  <2> HIDE DEF h
  <2> SUFFICES ASSUME NEW k \in 0..n
               PROVE  h[k] = IF k = 0 THEN base ELSE Op(p, h[k - 1], s[k])
      OBVIOUS
  <2>1. CASE k = 0
      BY <2>1, <1>1, <1>2, <1>3
  <2>2. CASE k # 0
    <3>1. k \in 1..n /\ k - 1 \in 0..n
        BY <2>2
    <3>2. iter[1..k] = Op(p, iter[(1..k) \ {Top(1..k)}], s[Top(1..k)])
        BY <3>1, <1>1, <1>2, <1>4
    <3>3. iter[1..k] = Op(p, iter[1..(k - 1)], s[k])
        BY <3>1, <3>2, <1>4
    <3> QED
        BY <3>1, <3>3, <2>2, <1>2
  <2> QED
      BY <2>1, <2>2
<1>6. h = [k \in 0..n |-> h[k]]
    OBVIOUS
<1> HIDE DEF h
<1>7. h = [k \in 0..n |-> IF k = 0 THEN base ELSE Op(p, h[k - 1], s[k])]
    BY <1>5, <1>6, Zenon
<1> QED
    BY <1>2, <1>7 DEF IsSteps
=============================================================================
