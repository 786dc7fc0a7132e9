--------------------------- MODULE ControlFlowProofs ---------------------------
(***************************************************************************)
(* Facts that the proofs about the passes share: about numbers and         *)
(* sequences, and about ControlFlow's notions for every graph,             *)
(* reachability, dominance, paths, components and natural loops.  Those    *)
(* are stated through sets closed under the edges, so what would be an     *)
(* induction over a path is the choice of a set; an induction over a       *)
(* numbering is the choice of a least number (LeastNumber).                *)
(***************************************************************************)
EXTENDS ControlFlow, FiniteSetTheorems, SequenceTheorems, WellFoundedInduction, TLAPS

\* A set of natural numbers that is not empty has a least element: the initial
\* segments below its elements are finite, so one of them is minimal under
\* strict inclusion.
LEMMA LeastNumber ==
    ASSUME NEW S \in SUBSET Nat, S # {}
    PROVE  \E n \in S : \A m \in S : n <= m
<1> DEFINE R == StrictSubsetOrdering(Nat)
           F == FiniteSubsetsOf(Nat)
           T == {0..m : m \in S}
<1>1. IsWellFoundedOn(R, F)
    BY FS_StrictSubsetOrderingWellFounded
<1>2. T \subseteq F /\ T # {}
  <2>1. \A m \in S : IsFiniteSet(0..m) /\ 0..m \subseteq Nat
      BY FS_Interval
  <2> QED
      BY <2>1 DEF FiniteSubsetsOf
<1>3. \E I \in T : \A J \in T : <<J, I>> \notin R
  <2> HIDE DEF R, T, F
  <2> QED
      BY <1>1, <1>2, WFMin
<1>4. PICK n \in S : \A m \in S : <<0..m, 0..n>> \notin R
    BY <1>3
<1>5. ASSUME NEW m \in S, m < n PROVE FALSE
  <2>1. n \in 0..n /\ n \notin 0..m
      BY <1>5
  <2>2. 0..m \subseteq 0..n /\ 0..m # 0..n /\ 0..m \in SUBSET Nat /\ 0..n \in SUBSET Nat
      BY <1>5, <2>1
  <2> QED
      BY <2>2, <1>4, <1>5 DEF StrictSubsetOrdering
<1> QED
    BY <1>5

\* What holds of 0, and of a number when it holds of the one before, holds of
\* every number up to n.
LEMMA UpTo ==
    ASSUME NEW n \in Nat, NEW S, 0 \in S, \A k \in 1..n : k - 1 \in S => k \in S
    PROVE  0..n \subseteq S
<1> SUFFICES ASSUME (0..n) \ S # {} PROVE FALSE
    OBVIOUS
<1> DEFINE T == (0..n) \ S
<1>1. PICK m \in T : \A k \in T : m <= k
  <2>1. T \in SUBSET Nat
      OBVIOUS
  <2> HIDE DEF T
  <2> QED
      BY <2>1, LeastNumber DEF T
<1>2. m \in 1..n /\ m - 1 \in 0..n
    BY <1>1
<1>3. m - 1 \in S
    BY <1>1, <1>2
<1> QED
    BY <1>1, <1>2, <1>3

\* Taking the last element off a sequence.
LEMMA FrontLast ==
    ASSUME NEW S, NEW s \in Seq(S), s # <<>>
    PROVE  /\ Front(s) \in Seq(S)
           /\ Len(Front(s)) = Len(s) - 1
           /\ \A i \in 1..Len(s) - 1 : Front(s)[i] = s[i]
           /\ Last(s) \in S
           /\ Len(s) \in Nat \ {0}
           /\ Last(s) = s[Len(s)]
<1>1. Len(s) \in Nat \ {0}
    BY EmptySeq
<1> DEFINE n == Len(s) - 1
<1>2. n \in Nat /\ \A i \in 1..n : s[i] \in S
    BY ElementOfSeq, <1>1
<1>3. /\ SubSeq(s, 1, n) \in Seq(S)
      /\ Len(SubSeq(s, 1, n)) = IF 1 <= n THEN n - 1 + 1 ELSE 0
      /\ \A i \in 1..n - 1 + 1 : SubSeq(s, 1, n)[i] = s[1 + i - 1]
  <2> HIDE DEF n
  <2> QED
      BY <1>2, SubSeqProperties
<1>4. n - 1 + 1 = n /\ \A i \in Int : 1 + i - 1 = i
    BY <1>1
<1>5. Len(SubSeq(s, 1, n)) = n /\ \A i \in 1..n : SubSeq(s, 1, n)[i] = s[i]
    BY <1>2, <1>3, <1>4
<1> QED
    BY <1>1, <1>3, <1>5, ElementOfSeq DEF Front, Last
-----------------------------------------------------------------------------
\* The entry can be reached, and so can what a reachable block branches to.
LEMMA ReachableEntry ==
    ASSUME NEW g \in CFGs
    PROVE  IsReachable(g, Entry)
    BY DEF IsReachable

LEMMA ReachableStep ==
    ASSUME NEW g \in CFGs, NEW a \in Blocks, IsReachable(g, a), NEW b \in g[a]
    PROVE  IsReachable(g, b)
    BY DEF IsReachable

\* A closed set that holds the entry holds every reachable block.
LEMMA ReachableInClosed ==
    ASSUME NEW g \in CFGs, NEW S \in SUBSET Blocks,
           Entry \in S, \A s \in S : g[s] \subseteq S,
           NEW b, IsReachable(g, b)
    PROVE  b \in S
    BY DEF IsReachable

-----------------------------------------------------------------------------
LEMMA GraphType ==
    ASSUME NEW g \in CFGs, NEW b \in Blocks
    PROVE  g[b] \subseteq Blocks \ {Entry}
    BY BlocksAssumption DEF BlocksAssumption

\* Every strict dominator of a block dominates its predecessors.
LEMMA DominatesPred ==
    ASSUME NEW g \in CFGs, NEW a \in Blocks, NEW b \in Blocks,
           StrictlyDominates(g, a, b), NEW p \in PreBlocks(g, b)
    PROVE  Dominates(g, a, p)
<1>1. CASE a = Entry
    BY <1>1 DEF Dominates
<1>2. CASE a # Entry
  <2>1. PICK S \in SUBSET (Blocks \ {a, b}) :
           Entry \in S /\ \A s \in S : g[s] \subseteq S \cup {a}
      BY <1>2 DEF StrictlyDominates, Dominates
  <2>2. p \notin S
      BY <2>1 DEF PreBlocks, StrictlyDominates
  <2>3. S \in SUBSET (Blocks \ {a, p})
      BY <2>2
  <2> QED
      BY <2>1, <2>3 DEF Dominates
<1> QED
    BY <1>1, <1>2

\* A block that dominates all predecessors of b, or those among them that can
\* be reached, dominates b.
LEMMA DominatesFromPreds ==
    ASSUME NEW g \in CFGs, NEW a \in Blocks, NEW b \in Blocks \ {Entry},
           \A p \in PreBlocks(g, b) : IsReachable(g, p) => Dominates(g, a, p)
    PROVE  Dominates(g, a, b)
<1> SUFFICES ASSUME a # Entry, a # b PROVE Dominates(g, a, b)
    BY DEF Dominates
<1> DEFINE S == {x \in Blocks \ {a, b} : IsReachable(g, x) /\ ~Dominates(g, a, x)}
<1>1. Entry \in S
    BY ReachableEntry, BlocksAssumption DEF BlocksAssumption, Dominates
<1>2. ASSUME NEW s \in S, NEW y \in g[s], y # a PROVE y \in S
  <2>1. y \in Blocks /\ IsReachable(g, y)
      BY <1>2, ReachableStep, GraphType
  <2>2. s \in PreBlocks(g, y)
      BY <1>2 DEF PreBlocks
  <2>3. y # b
      BY <2>2
  <2>4. ~Dominates(g, a, y)
      BY <1>2, <2>1, <2>2, DominatesPred DEF StrictlyDominates
  <2> QED
      BY <1>2, <2>1, <2>3, <2>4
<1>3. S \in SUBSET (Blocks \ {a, b})
    OBVIOUS
<1> HIDE DEF S
<1>4. \A s \in S : g[s] \subseteq S \cup {a}
    BY <1>2
<1> QED
    BY <1>1, <1>3, <1>4 DEF Dominates

\* Only the entry dominates the entry.
LEMMA DominatesEntry ==
    ASSUME NEW g, NEW a, Dominates(g, a, Entry)
    PROVE  a = Entry
    BY DEF Dominates

-----------------------------------------------------------------------------
(***************************************************************************)
(* Paths and strongly connected components.                                *)
(***************************************************************************)
LEMMA PathEdge ==
    ASSUME NEW g, NEW N, NEW s, NEW t \in g[s] \cap N
    PROVE  Path(g, N, s, t)
    BY DEF Path

LEMMA PathTrans ==
    ASSUME NEW g, NEW N, NEW s, NEW t, NEW u, Path(g, N, s, t), Path(g, N, t, u)
    PROVE  Path(g, N, s, u)
<1> SUFFICES ASSUME NEW S \in SUBSET N, g[s] \cap N \subseteq S,
                    \A x \in S : g[x] \cap N \subseteq S
             PROVE  u \in S
    BY DEF Path
<1>1. t \in S
    BY DEF Path
<1> QED
    BY <1>1 DEF Path

\* A path stays inside a closed set.
LEMMA PathInClosed ==
    ASSUME NEW g, NEW N, NEW S \in SUBSET N, \A x \in S : g[x] \cap N \subseteq S,
           NEW s \in S, NEW t, Path(g, N, s, t)
    PROVE  t \in S
    BY DEF Path

\* A path of a part of a graph is a path of the graph.
LEMMA PathOfPart ==
    ASSUME NEW g, NEW N, NEW h, NEW M \in SUBSET N, NEW s, NEW t,
           h[s] \cap M \subseteq g[s], \A x \in M : h[x] \cap M \subseteq g[x],
           Path(h, M, s, t)
    PROVE  Path(g, N, s, t)
<1> SUFFICES ASSUME NEW S \in SUBSET N, g[s] \cap N \subseteq S,
                    \A x \in S : g[x] \cap N \subseteq S
             PROVE  t \in S
    BY DEF Path
<1>1. S \cap M \in SUBSET M /\ h[s] \cap M \subseteq S \cap M
      /\ \A x \in S \cap M : h[x] \cap M \subseteq S \cap M
    OBVIOUS
<1> QED
    BY <1>1 DEF Path

\* A component of two blocks or more: any two of its blocks, and each with
\* itself, are connected, and no other block is connected with them.
LEMMA ComponentPaths ==
    ASSUME NEW g, NEW N \in SUBSET Blocks, NEW C \in Components(g, N)
    PROVE  /\ C \subseteq N /\ IsFiniteSet(C) /\ Cardinality(C) > 1
           /\ \A a, b \in C : Path(g, N, a, b)
           /\ \A a \in C, b \in N : Path(g, N, a, b) /\ Path(g, N, b, a) => b \in C
<1>1. PICK a \in N : C = {b \in N : b = a \/ (Path(g, N, a, b) /\ Path(g, N, b, a))}
    BY DEF Components
<1>2. C \subseteq N /\ Cardinality(C) > 1 /\ IsFiniteSet(C)
    BY FS_Subset, BlocksAssumption DEF Components, BlocksAssumption
<1>3. PICK c \in C : c # a
  <2> SUFFICES ASSUME \A c \in C : c = a PROVE FALSE
      OBVIOUS
  <2>1. C = {a}
      BY <1>1
  <2> QED
      BY <1>2, <2>1, FS_Singleton
<1>4. Path(g, N, a, a)
    BY <1>1, <1>3, PathTrans
<1>5. \A b \in C : Path(g, N, a, b) /\ Path(g, N, b, a)
    BY <1>1, <1>4
<1>6. \A b, d \in C : Path(g, N, b, d)
    BY <1>5, PathTrans
<1>7. ASSUME NEW d \in C, NEW b \in N, Path(g, N, d, b), Path(g, N, b, d) PROVE b \in C
    BY <1>1, <1>5, <1>7, PathTrans
<1> QED
    BY <1>2, <1>6, <1>7

LEMMA ComponentIf ==
    ASSUME NEW g, NEW N, NEW C \in SUBSET N, Cardinality(C) > 1, NEW a \in C,
           \A b \in C : b # a => Path(g, N, a, b) /\ Path(g, N, b, a),
           \A b \in N : Path(g, N, a, b) /\ Path(g, N, b, a) => b \in C
    PROVE  C \in Components(g, N)
<1>1. C = {b \in N : b = a \/ (Path(g, N, a, b) /\ Path(g, N, b, a))}
    OBVIOUS
<1> QED
    BY <1>1 DEF Components

\* Two components are equal or disjoint.
LEMMA ComponentsDisjoint ==
    ASSUME NEW g, NEW N \in SUBSET Blocks, NEW C \in Components(g, N),
           NEW D \in Components(g, N), NEW b \in C \cap D
    PROVE  C = D
<1>1. \A x \in C : Path(g, N, b, x) /\ Path(g, N, x, b) /\ x \in N
    BY ComponentPaths
<1>2. \A x \in D : Path(g, N, b, x) /\ Path(g, N, x, b) /\ x \in N
    BY ComponentPaths
<1>3. \A x \in C : x \in D
    BY <1>1, ComponentPaths
<1>4. \A x \in D : x \in C
    BY <1>2, ComponentPaths
<1> QED
    BY <1>3, <1>4

\* A path begins with an edge, and goes on from there.
LEMMA PathFirst ==
    ASSUME NEW g, NEW N, NEW s, NEW t, Path(g, N, s, t)
    PROVE  \E y \in g[s] \cap N : y = t \/ Path(g, N, y, t)
<1> DEFINE S == {z \in N : \E y \in g[s] \cap N : y = z \/ Path(g, N, y, z)}
<1>1. g[s] \cap N \subseteq S
    OBVIOUS
<1>2. ASSUME NEW x \in S, NEW z \in g[x] \cap N PROVE z \in S
  <2>1. PICK y \in g[s] \cap N : y = x \/ Path(g, N, y, x)
      OBVIOUS
  <2>2. Path(g, N, x, z)
      BY PathEdge
  <2> QED
      BY <1>2, <2>1, <2>2, PathTrans
<1>3. S \in SUBSET N
    OBVIOUS
<1> HIDE DEF S
<1>4. t \in S
    BY <1>1, <1>2, <1>3 DEF Path
<1> QED
    BY <1>4 DEF S

\* Between two parts of a component an edge leads from each to the other.
LEMMA ComponentEdge ==
    ASSUME NEW g, NEW N \in SUBSET Blocks, NEW C \in Components(g, N)
    PROVE  \A Z : Z \subseteq C /\ Z # {} /\ Z # C =>
               \E x \in Z : \E y \in C : y \notin Z /\ y \in g[x]
<1> SUFFICES ASSUME NEW Z, Z \subseteq C, Z # {}, Z # C, \A x \in Z : \A y \in C \ Z : y \notin g[x]
             PROVE  FALSE
    OBVIOUS
<1>1. /\ C \subseteq N
      /\ \A a, b \in C : Path(g, N, a, b)
      /\ \A a \in C, b \in N : Path(g, N, a, b) /\ Path(g, N, b, a) => b \in C
    BY ComponentPaths
<1>2. PICK z \in Z : TRUE
    OBVIOUS
<1>3. PICK d \in C : d \notin Z
    OBVIOUS
<1> DEFINE S == Z \cup {x \in N \ C : ~Path(g, N, x, d)}
<1>4. ASSUME NEW x \in Z, NEW y \in g[x] \cap N PROVE y \in S
  <2> SUFFICES ASSUME y \notin C, Path(g, N, y, d) PROVE FALSE
      BY <1>4
  <2>1. Path(g, N, x, y) /\ Path(g, N, d, x)
      BY <1>1, <1>3, <1>4, PathEdge
  <2>2. Path(g, N, y, x)
      BY <2>1, PathTrans
  <2> QED
      BY <1>1, <1>4, <2>1, <2>2
<1>5. ASSUME NEW x \in N \ C, ~Path(g, N, x, d), NEW y \in g[x] \cap N PROVE y \in S
  <2>1. Path(g, N, x, y)
      BY <1>5, PathEdge
  <2>2. ~Path(g, N, y, d)
      BY <1>5, <2>1, PathTrans
  <2>3. y \notin C
      BY <1>1, <1>3, <2>2
  <2> QED
      BY <1>5, <2>2, <2>3
<1>6. S \in SUBSET N /\ z \in S /\ d \notin S /\ \A x \in S : g[x] \cap N \subseteq S
    BY <1>1, <1>2, <1>3, <1>4, <1>5
<1>7. Path(g, N, z, d)
    BY <1>1, <1>2, <1>3
<1> HIDE DEF S
<1> QED
    BY <1>6, <1>7, PathInClosed

-----------------------------------------------------------------------------
(***************************************************************************)
(* Natural loops.                                                          *)
(***************************************************************************)

\* Two blocks that dominate each other are one, unless neither is reached.
LEMMA DominatesBoth ==
    ASSUME NEW g \in CFGs, NEW a \in Blocks, NEW b \in Blocks,
           Dominates(g, a, b), Dominates(g, b, a), IsReachable(g, a)
    PROVE  a = b
<1> SUFFICES ASSUME a # b PROVE FALSE
    OBVIOUS
<1>1. a # Entry /\ b # Entry
    BY DominatesEntry
<1>2. PICK S \in SUBSET (Blocks \ {a, b}) :
         Entry \in S /\ \A s \in S : g[s] \subseteq S \cup {a}
    BY <1>1 DEF Dominates
<1>3. PICK T \in SUBSET (Blocks \ {a, b}) :
         Entry \in T /\ \A s \in T : g[s] \subseteq T \cup {b}
    BY <1>1 DEF Dominates
<1>4. S \cap T \in SUBSET Blocks /\ Entry \in S \cap T /\ \A s \in S \cap T : g[s] \subseteq S \cap T
    BY <1>2, <1>3
<1>5. a \in S \cap T
    BY <1>4, ReachableInClosed
<1> QED
    BY <1>2, <1>5

LEMMA LoopType ==
    ASSUME NEW g \in CFGs, NEW h \in Headers(g)
    PROVE  /\ h \in Blocks \ {Entry} /\ h \in NaturalLoop(g, h)
           /\ NaturalLoop(g, h) \subseteq Blocks
           /\ Latches(g, h) \subseteq NaturalLoop(g, h) \ {h}
<1>1. h \in Blocks /\ \E n \in Blocks : h \in g[n]
    BY DEF Headers, Latches, PreBlocks
<1>2. h # Entry
    BY <1>1, GraphType
<1> QED
    BY <1>1, <1>2 DEF NaturalLoop, Latches, PreBlocks

\* A natural loop is entered at its header only.
LEMMA LoopPred ==
    ASSUME NEW g \in CFGs, NEW h \in Blocks, NEW y \in NaturalLoop(g, h) \ {h},
           NEW x \in PreBlocks(g, y)
    PROVE  x \in NaturalLoop(g, h)
<1> SUFFICES ASSUME x # h PROVE x \in NaturalLoop(g, h)
    BY DEF NaturalLoop
<1>1. PICK n \in Latches(g, h) : y = n \/ Path(g, Blocks \ {h}, y, n)
    BY DEF NaturalLoop
<1>2. x \in Blocks \ {h} /\ y \in g[x] \cap (Blocks \ {h})
    BY DEF PreBlocks, NaturalLoop, Latches
<1>3. Path(g, Blocks \ {h}, x, y)
    BY <1>2, PathEdge
<1>4. Path(g, Blocks \ {h}, x, n)
    BY <1>1, <1>3, PathTrans
<1> QED
    BY <1>2, <1>4 DEF NaturalLoop

\* The header dominates the loop.
LEMMA LoopDominated ==
    ASSUME NEW g \in CFGs, NEW h \in Blocks, NEW b \in NaturalLoop(g, h)
    PROVE  Dominates(g, h, b)
<1> SUFFICES ASSUME b # h, ~Dominates(g, h, b) PROVE FALSE
    BY DEF Dominates
<1>1. PICK n \in Latches(g, h) : b = n \/ Path(g, Blocks \ {h}, b, n)
    BY DEF NaturalLoop
<1>2. Dominates(g, h, n)
    BY DEF Latches
<1>3. Path(g, Blocks \ {h}, b, n) /\ b \in Blocks \ {h}
    BY <1>1, <1>2 DEF NaturalLoop
<1> DEFINE S == {x \in Blocks \ {h} : ~Dominates(g, h, x)}
<1>4. ASSUME NEW x \in S, NEW y \in g[x] \cap (Blocks \ {h}) PROVE y \in S
    BY <1>4, DominatesPred DEF PreBlocks, StrictlyDominates
<1>5. S \in SUBSET (Blocks \ {h}) /\ b \in S /\ \A x \in S : g[x] \cap (Blocks \ {h}) \subseteq S
    BY <1>3, <1>4
<1> HIDE DEF S
<1>6. n \in S
    BY <1>3, <1>5, PathInClosed
<1> QED
    BY <1>2, <1>6 DEF S

\* A natural loop whose blocks can be reached is strongly connected, by paths
\* in it, so in every part f of the graph, on the blocks N, that holds it.
LEMMA LoopConnected ==
    ASSUME NEW g \in CFGs, NEW h \in Headers(g), NEW N \in SUBSET Blocks,
           NaturalLoop(g, h) \subseteq N, NEW f, \A x \in N : f[x] \cap N = g[x] \cap N,
           NEW b \in NaturalLoop(g, h) \ {h}, IsReachable(g, b)
    PROVE  Path(f, N, h, b) /\ Path(f, N, b, h)
<1> DEFINE L == NaturalLoop(g, h)
<1>1. h \in Blocks /\ h \in L /\ h # Entry /\ L \subseteq Blocks /\ h \in N
    BY LoopType
<1>2. Path(f, N, h, b)
  <2> SUFFICES ASSUME ~Path(f, N, h, b) PROVE FALSE
      OBVIOUS
  <2> DEFINE S == {x \in L \ {h} : ~Path(f, N, h, x)}
  <2>1. Entry \notin S
    <3> SUFFICES ASSUME Entry \in L PROVE FALSE
        OBVIOUS
    <3>1. Dominates(g, h, Entry)
        BY <1>1, LoopDominated
    <3> QED
        BY <1>1, <3>1, DominatesEntry
  <2>2. ASSUME NEW x \in Blocks \ S, NEW y \in g[x], y \in S PROVE FALSE
    <3>1. x \in PreBlocks(g, y) /\ y \in NaturalLoop(g, h) \ {h}
        BY <2>2 DEF PreBlocks
    <3>2. x \in L
        BY <1>1, <3>1, LoopPred
    <3>3. x \in N /\ y \in f[x] \cap N
        BY <2>2, <3>2
    <3>4. Path(f, N, x, y)
        BY <3>3, PathEdge
    <3>5. x = h \/ Path(f, N, h, x)
        BY <2>2, <3>2
    <3>6. Path(f, N, h, y)
        BY <3>4, <3>5, PathTrans
    <3> QED
        BY <2>2, <3>6
  <2>3. Entry \in Blocks \ S /\ \A x \in Blocks \ S : g[x] \subseteq Blocks \ S
      BY <2>1, <2>2, GraphType, BlocksAssumption DEF BlocksAssumption
  <2>4. b \in S /\ Blocks \ S \in SUBSET Blocks
      OBVIOUS
  <2> HIDE DEF S
  <2>5. b \in Blocks \ S
      BY <2>3, <2>4, ReachableInClosed
  <2> QED
      BY <2>4, <2>5
<1>3. Path(f, N, b, h)
  <2> SUFFICES ASSUME ~Path(f, N, b, h) PROVE FALSE
      OBVIOUS
  <2>1. PICK n \in Latches(g, h) : b = n \/ Path(g, Blocks \ {h}, b, n)
      BY DEF NaturalLoop
  <2>2. n \in L \ {h} /\ n \in N /\ h \in f[n] \cap N
      BY <1>1, LoopType DEF Latches, PreBlocks
  <2>3. Path(f, N, n, h)
      BY <2>2, PathEdge
  <2> DEFINE S == {x \in Blocks \ {h} : x \in L => ~Path(f, N, x, h)}
  <2>4. ASSUME NEW x \in S, NEW y \in g[x] \cap (Blocks \ {h}) PROVE y \in S
    <3> SUFFICES ASSUME y \in L, Path(f, N, y, h) PROVE FALSE
        BY <2>4
    <3>1. x \in PreBlocks(g, y)
        BY <2>4 DEF PreBlocks
    <3>2. x \in L
        BY <1>1, <2>4, <3>1, LoopPred
    <3>3. x \in N /\ y \in f[x] \cap N
        BY <2>4, <3>2
    <3>4. Path(f, N, x, h)
        BY <3>3, PathEdge, PathTrans
    <3> QED
        BY <2>4, <3>2, <3>4
  <2>5. b \in S /\ S \in SUBSET (Blocks \ {h}) /\ \A x \in S : g[x] \cap (Blocks \ {h}) \subseteq S
      BY <1>1, <2>4
  <2>6. n \notin S
      BY <2>2, <2>3
  <2> HIDE DEF S
  <2> QED
      BY <2>1, <2>5, <2>6, PathInClosed
<1> QED
    BY <1>2, <1>3

\* If every block with a branch can be reached, so can the blocks of a loop.
LEMMA LoopReachable ==
    ASSUME NEW g \in CFGs, \A b \in Blocks : g[b] # {} => IsReachable(g, b),
           NEW h \in Headers(g), NEW b \in NaturalLoop(g, h)
    PROVE  IsReachable(g, b)
<1>1. \A n \in Latches(g, h) : n \in Blocks /\ h \in g[n] /\ IsReachable(g, n)
    BY DEF Latches, PreBlocks
<1>2. CASE b = h
  <2>1. PICK n \in Latches(g, h) : TRUE
      BY DEF Headers
  <2> QED
      BY <1>1, <1>2, <2>1, ReachableStep
<1>3. CASE b # h
  <2>1. PICK n \in Latches(g, h) : b = n \/ Path(g, Blocks \ {h}, b, n)
      BY <1>3 DEF NaturalLoop
  <2>2. CASE b = n
      BY <1>1, <2>2
  <2>3. CASE Path(g, Blocks \ {h}, b, n)
    <3>1. g[b] # {} /\ b \in Blocks
        BY <1>3, <2>3, PathFirst DEF NaturalLoop
    <3> QED
        BY <3>1
  <2> QED
      BY <2>1, <2>2, <2>3
<1> QED
    BY <1>2, <1>3
=============================================================================
