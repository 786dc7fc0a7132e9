--------------------------- MODULE LoopSearchProofs ---------------------------
(***************************************************************************)
(* Theorems about LoopSearch, for every function and every graph.  A       *)
(* round's search is Tarjan's algorithm, whatever the order of roots and   *)
(* successors: it ends with exactly the strongly connected components of   *)
(* the blocks that are left.  From there: every loop has a base, loops     *)
(* nest and bb2base names the innermost, the loops of a reducible function *)
(* are its natural loops and get_parent_loop the loops next around.        *)
(***************************************************************************)
EXTENDS LoopSearch, ControlFlowProofs

USE DEF graphVars, tarjanVars, loopVars

Depth == Len(calls)
Height == Len(stack)
Node(i) == calls[i].n

\* The blocks the round has met, and those it is done with: in a component
\* that has been popped.
Visited == {b \in nodes : index[b] # -1}
Off == Visited \ onStack

Reach(a, b) == a = b \/ Path(succs, nodes, a, b)

Searching == pc = "scc"

\* The bases are the blocks taken out; what is left of the graph is the
\* function's graph between the blocks that are left, and a base still has its
\* edges to them.
GraphInv ==
    /\ reserved = Blocks \ nodes
    /\ \A a \in nodes : succs[a] = succ[a] \cap nodes /\ prevs[a] = PreBlocks(succ, a) \cap nodes
    /\ \A r \in reserved : succ[r] \cap nodes \subseteq succs[r] /\ succs[r] \subseteq succ[r]

\* Visited blocks are told apart by their indices, which rise along the stack
\* and along the calls.
StackInv ==
    /\ onStack = {stack[i] : i \in 1..Height}
    /\ onStack \subseteq Visited
    /\ \A i, j \in 1..Height : i < j => index[stack[i]] < index[stack[j]]
    /\ \A b \in Visited : index[b] \in 0..index_count - 1
    /\ \A a, b \in Visited : index[a] = index[b] => a = b

\* The calls are a path of blocks on the stack.  The successors a block has
\* examined are visited, and all of them when its call has ended.
CallInv ==
    /\ \A i \in 1..Depth : Node(i) \in onStack /\ calls[i].todo \subseteq succs[Node(i)]
    /\ \A i, j \in 1..Depth : i < j => index[Node(i)] < index[Node(j)] /\ Reach(Node(i), Node(j))
    /\ \A i \in 1..Depth : succs[Node(i)] \ calls[i].todo \subseteq Visited
    /\ \A b \in Visited : (\A i \in 1..Depth : Node(i) # b) => succs[b] \subseteq Visited

\* A block on the stack leads to those above it, and to an active block that
\* is not above it.
ReachInv ==
    /\ \A x, y \in onStack : index[x] <= index[y] => Reach(x, y)
    /\ \A y \in onStack : \E i \in 1..Depth : index[Node(i)] <= index[y] /\ Reach(y, Node(i))

\* What has left the stack is closed, and sccs are the components in it.
OffInv ==
    /\ \A b \in Off : succs[b] \subseteq Off
    /\ sccs = {C \in Components(succs, nodes) : C \subseteq Off}

\* u belongs to call i: it is on the stack from the call's block on, below the
\* next call's.
Within(i, u) ==
    /\ u \in onStack /\ index[Node(i)] <= index[u]
    /\ i < Depth => index[u] < index[Node(i + 1)]

\* The edge from u to w is one that call i has seen.
Seen(i, u, w) == u = Node(i) => w \notin calls[i].todo /\ (i < Depth => w # Node(i + 1))

\* lowlink is the index of a block on the stack that can be reached, and is
\* not above any block on the stack that an edge seen by the call leads to.
LowInv ==
    \A i \in 1..Depth :
        /\ lowlink[Node(i)] <= index[Node(i)]
        /\ \E w \in onStack : index[w] = lowlink[Node(i)] /\ Reach(Node(i), w)
        /\ \A u \in onStack : Within(i, u) =>
             \A w \in succs[u] \cap onStack : Seen(i, u, w) => lowlink[Node(i)] <= index[w]

\* Between the searches nothing is active, and what is left to process are
\* components of the blocks that are left.
RestInv ==
    /\ calls = <<>> /\ stack = <<>> /\ onStack = {}
    /\ sccs \subseteq Components(succs, nodes)

SearchInv ==
    /\ TypeOK /\ GraphInv
    /\ Searching => StackInv /\ CallInv /\ ReachInv /\ OffInv /\ LowInv
    /\ ~Searching => RestInv

-----------------------------------------------------------------------------
(***************************************************************************)
(* Types.                                                                  *)
(***************************************************************************)
Calls == [n : Blocks, todo : SUBSET Blocks]

\* Entering a block keeps the types, and what it does to the sequences.
LEMMA EnterType ==
    ASSUME TypeOK, NEW n \in Blocks, NEW below \in Seq(Calls), Enter(n, below)
    PROVE  /\ index' \in [Blocks -> Nat \cup {-1}] /\ lowlink' \in [Blocks -> Nat \cup {-1}]
           /\ index_count' \in Nat /\ stack' \in Seq(Blocks) /\ onStack' \subseteq Blocks
           /\ calls' \in Seq(Calls)
<1>1. succs[n] \in SUBSET Blocks /\ [n |-> n, todo |-> succs[n]] \in Calls
    BY DEF TypeOK, Calls
<1>2. calls' \in Seq(Calls)
    BY <1>1, AppendProperties DEF Enter
<1>3. stack' \in Seq(Blocks)
    BY AppendProperties DEF Enter, TypeOK
<1> QED
    BY <1>2, <1>3 DEF Enter, TypeOK

\* The active calls below the top one, and the top one with a successor less.
LEMMA TopType ==
    ASSUME TypeOK, calls # <<>>
    PROVE  /\ Depth \in Nat \ {0} /\ calls \in Seq(Calls)
           /\ Top = calls[Depth] /\ Top.n \in Blocks /\ Top.todo \subseteq Blocks
           /\ \A i \in 1..Depth : Node(i) \in Blocks
           /\ Front(calls) \in Seq(Calls) /\ Len(Front(calls)) = Depth - 1
           /\ \A i \in 1..Depth - 1 : Front(calls)[i] = calls[i]
<1>1. calls \in Seq(Calls)
    BY DEF TypeOK, Calls
<1>2. /\ Depth \in Nat \ {0} /\ Top = calls[Depth] /\ Top \in Calls
      /\ Front(calls) \in Seq(Calls) /\ Len(Front(calls)) = Depth - 1
      /\ \A i \in 1..Depth - 1 : Front(calls)[i] = calls[i]
    BY <1>1, FrontLast DEF Top, Depth
<1>3. \A i \in 1..Depth : calls[i] \in Calls
    BY <1>1, ElementOfSeq DEF Depth
<1> QED
    BY <1>1, <1>2, <1>3 DEF Calls, Node

LEMMA ExaminedType ==
    ASSUME TypeOK, calls # <<>>, NEW su
    PROVE  /\ Examined(su) \in Seq(Calls) /\ Len(Examined(su)) = Depth
           /\ \A i \in 1..Depth : Examined(su)[i].n = Node(i)
           /\ \A i \in 1..Depth - 1 : Examined(su)[i] = calls[i]
           /\ Examined(su)[Depth].todo = Top.todo \ {su}
<1> DEFINE top == [Top EXCEPT !.todo = @ \ {su}]
<1>1. Top \in Calls
    BY TopType, ElementOfSeq DEF Depth
<1>2. top \in Calls /\ top.n = Top.n /\ top.todo = Top.todo \ {su}
    BY <1>1 DEF Calls
<1> HIDE DEF top
<1>3. /\ Append(Front(calls), top) \in Seq(Calls)
      /\ Len(Append(Front(calls), top)) = Len(Front(calls)) + 1
      /\ \A i \in 1..Len(Front(calls)) : Append(Front(calls), top)[i] = Front(calls)[i]
      /\ Append(Front(calls), top)[Len(Front(calls)) + 1] = top
    BY <1>2, TopType, AppendProperties
<1>4. Examined(su) = Append(Front(calls), top)
    BY DEF Examined, top
<1>5. Len(Front(calls)) = Depth - 1 /\ Depth \in Nat \ {0}
    BY TopType
<1>6. /\ Examined(su) \in Seq(Calls) /\ Len(Examined(su)) = Depth
      /\ \A i \in 1..Depth - 1 : Examined(su)[i] = calls[i]
      /\ Examined(su)[Depth] = top
    BY <1>3, <1>4, <1>5, TopType
<1>7. \A i \in 1..Depth : Examined(su)[i].n = Node(i)
    BY <1>2, <1>5, <1>6, TopType DEF Node
<1> QED
    BY <1>2, <1>6, <1>7

LEMMA PoppedType ==
    ASSUME TypeOK, NEW n
    PROVE  /\ Height \in Nat /\ Popped(n) \subseteq Blocks
           /\ IsFiniteSet(Popped(n)) /\ Cardinality(Popped(n)) \in Nat
           /\ Remaining(n) \in Seq(Blocks)
<1>1. Height \in Nat /\ \A i \in 1..Height : stack[i] \in Blocks
    BY LenProperties, ElementOfSeq DEF TypeOK, Height
<1>2. Popped(n) \subseteq Blocks
    BY <1>1 DEF Popped, Height
<1>3. IsFiniteSet(Popped(n)) /\ Cardinality(Popped(n)) \in Nat
    BY <1>2, FS_Subset, FS_CardinalityType, BlocksAssumption DEF BlocksAssumption
<1>4. \A i \in 1..Height - Cardinality(Popped(n)) : stack[i] \in Blocks
    BY <1>1, <1>3
<1>5. Remaining(n) \in Seq(Blocks)
    BY <1>1, <1>3, <1>4, SubSeqProperties DEF Remaining, Height
<1> QED
    BY <1>1, <1>2, <1>3, <1>5

LEMMA TypeInit == Init => TypeOK
<1> SUFFICES ASSUME Init PROVE TypeOK
    OBVIOUS
<1>1. succ \in [Blocks -> SUBSET Blocks] /\ Entry \in Blocks
    BY BlocksAssumption DEF Init, BlocksAssumption
<1>2. <<>> \in Seq(Blocks) /\ <<>> \in Seq([n : Blocks, todo : SUBSET Blocks])
    BY EmptySeq
<1> QED
    BY <1>1, <1>2 DEF Init, TypeOK, PreBlocks

LEMMA TypeStep == TypeOK /\ [Next]_vars => TypeOK'
<1> SUFFICES ASSUME TypeOK, [Next]_vars PROVE TypeOK'
    OBVIOUS
<1>1. CASE TraverseRoot
  <2>1. PICK n \in nodes : Enter(n, <<>>)
      BY <1>1 DEF TraverseRoot
  <2>2. n \in Blocks /\ <<>> \in Seq(Calls)
      BY EmptySeq DEF TypeOK
  <2> QED
      BY <1>1, <2>1, <2>2, EnterType DEF TraverseRoot, TypeOK, Calls
<1>2. CASE TraverseSuccessor
  <2>1. PICK su \in Top.todo : Enter(su, Examined(su))
      BY <1>2 DEF TraverseSuccessor
  <2>2. su \in Blocks /\ Examined(su) \in Seq(Calls)
      BY <1>2, TopType, ExaminedType DEF TraverseSuccessor
  <2> QED
      BY <1>2, <2>1, <2>2, EnterType DEF TraverseSuccessor, TypeOK, Calls
<1>3. CASE ExamineVisited
  <2>1. PICK su \in Top.todo : /\ index[su] # -1 /\ calls' = Examined(su)
                               /\ lowlink' = IF su \in onStack
                                    THEN [lowlink EXCEPT ![Top.n] = Least(index[su], @)]
                                    ELSE lowlink
      BY <1>3 DEF ExamineVisited
  <2>2. /\ su \in Blocks /\ Examined(su) \in Seq(Calls)
        /\ index[su] \in Nat \cup {-1} /\ lowlink[Top.n] \in Nat \cup {-1}
      BY <1>3, TopType, ExaminedType DEF ExamineVisited, TypeOK
  <2>3. lowlink' \in [Blocks -> Nat \cup {-1}]
      BY <2>1, <2>2 DEF Least, TypeOK
  <2> QED
      BY <1>3, <2>1, <2>2, <2>3 DEF ExamineVisited, TypeOK, Calls
<1>4. CASE Return
  <2>1. /\ Depth \in Nat \ {0} /\ Top.n \in Blocks /\ Front(calls) \in Seq(Calls)
        /\ Depth - 1 # 0 => calls[Depth - 1].n \in Blocks
      BY <1>4, TopType DEF Return, Node
  <2>2. lowlink' \in [Blocks -> Nat \cup {-1}]
      BY <1>4, <2>1 DEF Return, Least, TypeOK, Depth
  <2>3. /\ stack' \in Seq(Blocks) /\ onStack' \subseteq Blocks /\ sccs' \subseteq SUBSET Blocks
      BY <1>4, PoppedType DEF Return, TypeOK
  <2> QED
      BY <1>4, <2>1, <2>2, <2>3 DEF Return, TypeOK, Calls
<1>5. CASE LoopsFound \/ NoLoopFound
    BY <1>5 DEF LoopsFound, NoLoopFound, TypeOK
<1>6. CASE ProcessLoop
  <2>1. PICK scc \in sccs : \E base \in BaseChoices(scc) :
           /\ base2loop' = [base2loop EXCEPT ![base] = scc]
           /\ bb2base' = [b \in Blocks |-> IF b \in scc THEN base ELSE bb2base[b]]
           /\ reserved' = reserved \cup {base}
      BY <1>6 DEF ProcessLoop
  <2>2. scc \subseteq Blocks /\ \A base \in BaseChoices(scc) : base \in scc
      BY DEF TypeOK, BaseChoices, EnteredFromOutside, AfterReserved
  <2>3. prevs' \in [Blocks -> SUBSET Blocks] /\ succs' \in [Blocks -> SUBSET Blocks]
      BY <1>6 DEF ProcessLoop, TypeOK
  <2> QED
      BY <1>6, <2>1, <2>2, <2>3 DEF ProcessLoop, TypeOK
<1>7. CASE NextRound
  <2>1. <<>> \in Seq(Blocks)
      BY EmptySeq
  <2> QED
      BY <1>7, <2>1 DEF NextRound, TypeOK
<1>8. CASE Done \/ UNCHANGED vars
    BY <1>8 DEF Done, vars, TypeOK
<1> QED
    BY <1>1, <1>2, <1>3, <1>4, <1>5, <1>6, <1>7, <1>8 DEF Next

\* The variables of LoopSearch keep their types, whatever the graph.
THEOREM TypeCorrect == Spec => []TypeOK
    BY TypeInit, TypeStep, PTL DEF Spec

-----------------------------------------------------------------------------
(***************************************************************************)
(* The blocks that are left.                                               *)
(***************************************************************************)

\* Only run takes blocks out.
LEMMA GraphFrame ==
    ASSUME [Next]_vars, ~ProcessLoop
    PROVE  UNCHANGED <<succ, nodes, succs, prevs, reserved, base2loop, bb2base>>
    BY DEF Next, vars, Enter, TraverseRoot, TraverseSuccessor, ExamineVisited, Return,
       LoopsFound, NoLoopFound, NextRound, Done

\* Taking out the base of a component.
LEMMA ProcessLoopEffect ==
    ASSUME TypeOK, RestInv, ProcessLoop
    PROVE  \E scc \in sccs : \E base \in scc :
              /\ base \in BaseChoices(scc)
              /\ scc \in Components(succs, nodes) /\ scc \subseteq nodes
              /\ nodes' = nodes \ {base} /\ reserved' = reserved \cup {base}
              /\ sccs' = sccs \ {scc} /\ succ' = succ /\ base \in Blocks /\ scc \subseteq Blocks
              /\ base2loop' = [base2loop EXCEPT ![base] = scc]
              /\ bb2base' = [b \in Blocks |-> IF b \in scc THEN base ELSE bb2base[b]]
              /\ prevs' = [b \in Blocks |-> IF b \in succs[base] THEN prevs[b] \ {base}
                                                                 ELSE prevs[b]]
              /\ succs' = [b \in Blocks |-> IF b \in prevs'[base] THEN succs[b] \ {base}
                                                                  ELSE succs[b]]
<1>1. PICK scc \in sccs : \E base \in BaseChoices(scc) :
         /\ nodes' = nodes \ {base} /\ reserved' = reserved \cup {base}
         /\ sccs' = sccs \ {scc} /\ succ' = succ
         /\ base2loop' = [base2loop EXCEPT ![base] = scc]
         /\ bb2base' = [b \in Blocks |-> IF b \in scc THEN base ELSE bb2base[b]]
         /\ prevs' = [b \in Blocks |-> IF b \in succs[base] THEN prevs[b] \ {base} ELSE prevs[b]]
         /\ succs' = [b \in Blocks |-> IF b \in prevs'[base] THEN succs[b] \ {base} ELSE succs[b]]
    BY DEF ProcessLoop
<1>2. \A base \in BaseChoices(scc) : base \in scc
    BY DEF BaseChoices, EnteredFromOutside, AfterReserved
<1>3. scc \in Components(succs, nodes) /\ nodes \in SUBSET Blocks
    BY DEF RestInv, TypeOK
<1>4. scc \subseteq nodes
    BY <1>3, ComponentPaths
<1> QED
    BY <1>1, <1>2, <1>3, <1>4

LEMMA GraphInvInit == Init => GraphInv
<1> SUFFICES ASSUME Init PROVE GraphInv
    OBVIOUS
<1>1. \A b \in Blocks : succ[b] \subseteq Blocks
    BY GraphType DEF Init
<1> QED
    BY <1>1 DEF Init, GraphInv, PreBlocks

LEMMA GraphInvStep == TypeOK /\ GraphInv /\ (~Searching => RestInv) /\ [Next]_vars => GraphInv'
<1> SUFFICES ASSUME TypeOK, GraphInv, ~Searching => RestInv, [Next]_vars PROVE GraphInv'
    OBVIOUS
<1>1. CASE ~ProcessLoop
    BY <1>1, GraphFrame DEF GraphInv, PreBlocks
<1>2. CASE ProcessLoop
  <2>1. RestInv
      BY <1>2 DEF ProcessLoop, Searching
  <2>2. PICK scc \in sccs : \E base \in scc :
           /\ base \in nodes /\ base \in Blocks
           /\ nodes' = nodes \ {base} /\ reserved' = reserved \cup {base} /\ succ' = succ
           /\ prevs' = [b \in Blocks |-> IF b \in succs[base] THEN prevs[b] \ {base} ELSE prevs[b]]
           /\ succs' = [b \in Blocks |-> IF b \in prevs'[base] THEN succs[b] \ {base} ELSE succs[b]]
      BY <1>2, <2>1, ProcessLoopEffect
  <2>3. PICK base \in scc :
           /\ base \in nodes /\ base \in Blocks
           /\ nodes' = nodes \ {base} /\ reserved' = reserved \cup {base} /\ succ' = succ
           /\ prevs' = [b \in Blocks |-> IF b \in succs[base] THEN prevs[b] \ {base} ELSE prevs[b]]
           /\ succs' = [b \in Blocks |-> IF b \in prevs'[base] THEN succs[b] \ {base} ELSE succs[b]]
      BY <2>2
  <2>4. nodes \subseteq Blocks
      BY DEF TypeOK
  <2>5. \A a : a \in prevs[base] <=> a \in nodes /\ base \in succ[a]
      BY <2>3, <2>4 DEF GraphInv, PreBlocks
  <2>6. \A a \in nodes' : prevs'[a] = PreBlocks(succ, a) \cap nodes'
    <3> SUFFICES ASSUME NEW a \in nodes' PROVE prevs'[a] = PreBlocks(succ, a) \cap nodes'
        OBVIOUS
    <3>1. prevs[a] = PreBlocks(succ, a) \cap nodes /\ a \in nodes /\ a \in Blocks
        BY <2>3, <2>4 DEF GraphInv
    <3>2. a \in succs[base] <=> base \in PreBlocks(succ, a)
        BY <2>3, <2>4, <3>1 DEF GraphInv, PreBlocks
    <3> QED
        BY <2>3, <3>1, <3>2
  <2>7. \A a \in nodes' : succs'[a] = succ[a] \cap nodes'
    <3> SUFFICES ASSUME NEW a \in nodes' PROVE succs'[a] = succ[a] \cap nodes'
        OBVIOUS
    <3>1. succs[a] = succ[a] \cap nodes /\ a \in nodes /\ a \in Blocks /\ a # base
        BY <2>3, <2>4 DEF GraphInv
    <3>2. a \in prevs'[base] <=> base \in succ[a]
        BY <2>3, <2>5, <3>1
    <3> QED
        BY <2>3, <3>1, <3>2
  <2>8. \A r \in reserved' : succ[r] \cap nodes' \subseteq succs'[r] /\ succs'[r] \subseteq succ[r]
    <3>1. \A r \in Blocks : succs[r] \ {base} \subseteq succs'[r] /\ succs'[r] \subseteq succs[r]
        BY <2>3
    <3>2. \A r \in reserved : succ[r] \cap nodes \subseteq succs[r] /\ succs[r] \subseteq succ[r]
        BY DEF GraphInv
    <3>3. succs[base] = succ[base] \cap nodes
        BY <2>3 DEF GraphInv
    <3>4. reserved \subseteq Blocks
        BY DEF TypeOK
    <3> QED
        BY <2>3, <3>1, <3>2, <3>3, <3>4
  <2>9. reserved' = Blocks \ nodes'
      BY <2>3 DEF GraphInv
  <2> QED
      BY <2>3, <2>6, <2>7, <2>8, <2>9 DEF GraphInv
<1> QED
    BY <1>1, <1>2

\* A component loses nothing when a block outside it is taken out: no path
\* between its blocks leaves it.
LEMMA ComponentKept ==
    ASSUME NEW g, NEW N \in SUBSET Blocks, NEW C \in Components(g, N), NEW base \in N \ C,
           NEW h, \A x \in N \ {base} : h[x] \cap N = (g[x] \cap N) \ {base}
    PROVE  C \in Components(h, N \ {base})
<1>1. /\ C \subseteq N /\ IsFiniteSet(C) /\ Cardinality(C) > 1
      /\ \A a, b \in C : Path(g, N, a, b)
      /\ \A a \in C, b \in N : Path(g, N, a, b) /\ Path(g, N, b, a) => b \in C
    BY ComponentPaths
<1> DEFINE M == N \ {base}
<1>2. ASSUME NEW a \in C, NEW b \in C PROVE Path(h, M, a, b)
  <2> SUFFICES ASSUME NEW S \in SUBSET M, h[a] \cap M \subseteq S,
                      \A x \in S : h[x] \cap M \subseteq S
               PROVE  b \in S
      BY DEF Path
  <2> DEFINE T == {x \in N : (x \in S /\ Path(g, N, a, x)) \/ ~Path(g, N, x, a)}
  <2>1. ASSUME NEW x \in N, Path(g, N, a, x) \/ x = a, x \in S \/ x = a, NEW y \in g[x] \cap N
        PROVE  y \in T
    <3>1. Path(g, N, a, y)
        BY <2>1, PathEdge, PathTrans
    <3>2. CASE y = base
        BY <1>1, <2>1, <3>1, <3>2
    <3>3. CASE y # base
      <4>1. x # base
          BY <2>1
      <4>2. y \in h[x] \cap M
          BY <2>1, <3>3, <4>1
      <4>3. y \in S
          BY <2>1, <4>2
      <4> QED
          BY <2>1, <3>1, <4>3
    <3> QED
        BY <3>2, <3>3
  <2>2. ASSUME NEW x \in T, ~Path(g, N, x, a), NEW y \in g[x] \cap N PROVE y \in T
      BY <2>2, PathEdge, PathTrans
  <2>3. g[a] \cap N \subseteq T
      BY <1>1, <2>1
  <2>4. \A x \in T : g[x] \cap N \subseteq T
      BY <2>1, <2>2
  <2>5. T \in SUBSET N
      OBVIOUS
  <2> HIDE DEF T
  <2>6. b \in T
      BY <1>1, <2>3, <2>4, <2>5 DEF Path
  <2> QED
      BY <1>1, <2>6 DEF T
<1>3. PICK a \in C : TRUE
    BY <1>1, FS_EmptySet
<1>4. ASSUME NEW s, NEW t, s \in M, Path(h, M, s, t) PROVE Path(g, N, s, t)
    BY <1>4, PathOfPart
<1>5. \A b \in M : Path(h, M, a, b) /\ Path(h, M, b, a) => b \in C
    BY <1>1, <1>4
<1>6. C \in SUBSET M
    BY <1>1
<1> QED
    BY <1>1, <1>2, <1>5, <1>6, ComponentIf

-----------------------------------------------------------------------------
(***************************************************************************)
(* Facts about one state of a search.                                      *)
(***************************************************************************)
TarjanInv == StackInv /\ CallInv /\ ReachInv /\ OffInv /\ LowInv

LEMMA ReachTrans == \A a, b, c : Reach(a, b) /\ Reach(b, c) => Reach(a, c)
    BY PathTrans DEF Reach

LEMMA NodesFacts ==
    ASSUME TypeOK, GraphInv
    PROVE  /\ nodes \subseteq Blocks
           /\ \A a \in nodes : succs[a] \subseteq nodes /\ \A b \in succs[a] : Reach(a, b)
           /\ \A a \in nodes : index[a] \in Nat \cup {-1} /\ lowlink[a] \in Nat \cup {-1}
<1>1. nodes \subseteq Blocks /\ \A a \in nodes : succs[a] \subseteq nodes
    BY DEF TypeOK, GraphInv
<1>2. ASSUME NEW a \in nodes, NEW b \in succs[a] PROVE Reach(a, b)
    BY <1>1, <1>2, PathEdge DEF Reach
<1> QED
    BY <1>1, <1>2 DEF TypeOK

LEMMA StackFacts ==
    ASSUME TypeOK, StackInv, CallInv
    PROVE  /\ Depth \in Nat /\ Height \in Nat /\ index_count \in Nat
           /\ \A i \in 1..Height : stack[i] \in onStack
           /\ \A i \in 1..Depth : Node(i) \in onStack
           /\ onStack \subseteq Visited /\ Visited \subseteq nodes
           /\ \A b \in Visited : index[b] \in Nat /\ index[b] < index_count
<1>1. Depth \in Nat /\ Height \in Nat /\ index_count \in Nat
    BY LenProperties DEF TypeOK, Depth, Height
<1> QED
    BY <1>1 DEF StackInv, CallInv, Visited

-----------------------------------------------------------------------------
(***************************************************************************)
(* A block is entered: by traverse's loop over the successors of the block *)
(* below, which has taken it from its todo, or as a root.                  *)
(***************************************************************************)
LEMMA EnterKeeps ==
    ASSUME TypeOK, GraphInv, TarjanInv, UNCHANGED <<succ, nodes, succs, sccs>>,
           NEW n \in nodes, index[n] = -1,
           NEW below \in Seq(Calls), Enter(n, below), Len(below) = Depth,
           \A i \in 1..Depth : below[i].n = Node(i),
           \A i \in 1..Depth : i < Depth => below[i].todo = calls[i].todo,
           \A i \in 1..Depth : i = Depth => /\ n \in calls[i].todo
                                            /\ below[i].todo = calls[i].todo \ {n}
    PROVE  TarjanInv'
<1>1. /\ Depth \in Nat /\ Height \in Nat /\ index_count \in Nat
      /\ \A i \in 1..Height : stack[i] \in onStack
      /\ \A i \in 1..Depth : Node(i) \in onStack
      /\ onStack \subseteq Visited /\ Visited \subseteq nodes /\ nodes \subseteq Blocks
      /\ \A b \in Visited : index[b] \in Nat /\ index[b] < index_count
    BY StackFacts, NodesFacts DEF TarjanInv
<1>2. PICK d \in Nat : d = Depth
    BY <1>1
<1>3. /\ Depth' = d + 1
      /\ \A i \in 1..d : Node(i)' = Node(i)
      /\ Node(d + 1)' = n
      /\ \A i \in 1..d : i < d => calls'[i].todo = calls[i].todo
      /\ d # 0 => calls'[d].todo = calls[d].todo \ {n} /\ n \in calls[d].todo
      /\ calls'[d + 1].todo = succs[n]
  <2>1. [n |-> n, todo |-> succs[n]] \in Calls
      BY <1>1 DEF Calls, TypeOK
  <2>2. /\ Len(calls') = d + 1 /\ \A i \in 1..d : calls'[i] = below[i]
        /\ calls'[d + 1] = [n |-> n, todo |-> succs[n]]
      BY <1>2, <2>1, AppendProperties DEF Enter
  <2>3. \A i \in 1..d : Node(i)' = Node(i)
      BY <1>2, <2>2 DEF Node
  <2> QED
      BY <1>2, <2>2, <2>3 DEF Node, Depth
<1>4. PICK h \in Nat : /\ h = Height /\ Height' = h + 1 /\ stack'[h + 1] = n
                       /\ \A i \in 1..h : stack'[i] = stack[i]
  <2>1. stack \in Seq(Blocks) /\ n \in Blocks
      BY <1>1 DEF TypeOK
  <2> QED
      BY <1>1, <2>1, AppendProperties DEF Enter, Height
<1>5. /\ n \notin onStack /\ n \notin Visited /\ onStack' = onStack \cup {n}
      /\ index_count' = index_count + 1 /\ index'[n] = index_count
      /\ \A b \in nodes : b # n => index'[b] = index[b] /\ lowlink'[b] = lowlink[b]
      /\ lowlink'[n] = index_count
    BY <1>1 DEF Enter, Visited, TypeOK
<1>6. Visited' = Visited \cup {n} /\ Off' = Off
    BY <1>1, <1>5 DEF Visited, Off
<1>7. \A a, b : Reach(a, b)' <=> Reach(a, b)
    BY DEF Reach
<1>8. \A i \in 1..d : Node(i) # n /\ Node(i) \in nodes /\ Node(i) \in onStack
    BY <1>1, <1>2, <1>5
<1>9. StackInv'
  <2>1. onStack' = {stack'[i] : i \in 1..h + 1}
      BY <1>4, <1>5 DEF TarjanInv, StackInv
  <2>2. \A i, j \in 1..h + 1 : i < j => index'[stack'[i]] < index'[stack'[j]]
    <3> SUFFICES ASSUME NEW i \in 1..h + 1, NEW j \in 1..h + 1, i < j
                 PROVE  index'[stack'[i]] < index'[stack'[j]]
        OBVIOUS
    <3>1. i \in 1..h /\ stack'[i] = stack[i] /\ stack[i] \in Visited /\ stack[i] # n
        BY <1>1, <1>4, <1>5
    <3>2. index'[stack'[i]] = index[stack[i]] /\ index[stack[i]] < index_count
        BY <1>1, <1>5, <3>1
    <3>3. CASE j = h + 1
        BY <1>4, <1>5, <3>2, <3>3
    <3>4. CASE j # h + 1
      <4>1. j \in 1..h /\ stack'[j] = stack[j] /\ stack[j] \in Visited /\ stack[j] # n
          BY <1>1, <1>4, <1>5, <3>4
      <4>2. index[stack[i]] < index[stack[j]]
          BY <1>4, <3>1, <4>1 DEF TarjanInv, StackInv
      <4> QED
          BY <1>1, <1>5, <3>2, <4>1, <4>2
    <3> QED
        BY <3>3, <3>4
  <2>3. \A b \in Visited' : index'[b] \in 0..index_count' - 1
      BY <1>1, <1>5, <1>6
  <2>4. \A a, b \in Visited' : index'[a] = index'[b] => a = b
    <3>1. \A a \in Visited : index'[a] = index[a] /\ index[a] < index_count /\ index[a] \in Nat
        BY <1>1, <1>5
    <3>2. \A a, b \in Visited : index[a] = index[b] => a = b
        BY DEF TarjanInv, StackInv
    <3> QED
        BY <1>1, <1>5, <1>6, <3>1, <3>2
  <2> QED
      BY <1>1, <1>4, <1>5, <1>6, <2>1, <2>2, <2>3, <2>4 DEF StackInv
<1>10. ASSUME NEW i \in 1..d PROVE Reach(Node(i), n)
  <2>1. n \in succs[Node(d)] /\ d \in 1..d
      BY <1>2, <1>3, <1>10 DEF TarjanInv, CallInv
  <2>2. Reach(Node(d), n)
      BY <1>8, <2>1, NodesFacts
  <2>3. i # d => Reach(Node(i), Node(d))
      BY <1>2, <2>1 DEF TarjanInv, CallInv
  <2> QED
      BY <2>2, <2>3, ReachTrans
<1>11. CallInv'
  <2>1. ASSUME NEW i \in 1..d + 1
        PROVE  /\ Node(i)' \in onStack' /\ calls'[i].todo \subseteq succs'[Node(i)']
               /\ succs'[Node(i)'] \ calls'[i].todo \subseteq Visited'
    <3>1. CASE i = d + 1
        BY <1>3, <1>5, <3>1
    <3>2. CASE i # d + 1
      <4>1. i \in 1..d /\ Node(i)' = Node(i) /\ Node(i) \in onStack
            /\ calls[i].todo \subseteq succs[Node(i)] /\ succs[Node(i)] \ calls[i].todo \subseteq Visited
          BY <1>2, <1>3, <1>8, <3>2 DEF TarjanInv, CallInv
      <4>2. calls'[i].todo = calls[i].todo \/ calls'[i].todo = calls[i].todo \ {n}
          BY <1>3, <4>1
      <4> QED
          BY <1>5, <1>6, <4>1, <4>2
    <3> QED
        BY <3>1, <3>2
  <2>2. ASSUME NEW i \in 1..d + 1, NEW j \in 1..d + 1, i < j
        PROVE  index'[Node(i)'] < index'[Node(j)'] /\ Reach(Node(i)', Node(j)')
    <3>1. i \in 1..d /\ Node(i)' = Node(i) /\ index'[Node(i)] = index[Node(i)]
          /\ index[Node(i)] < index_count
        BY <1>1, <1>2, <1>3, <1>5, <1>8, <2>2
    <3>2. CASE j = d + 1
        BY <1>3, <1>5, <1>10, <3>1, <3>2
    <3>3. CASE j # d + 1
      <4>1. j \in 1..d /\ Node(j)' = Node(j) /\ index'[Node(j)] = index[Node(j)]
          BY <1>2, <1>3, <1>5, <1>8, <3>3
      <4>2. index[Node(i)] < index[Node(j)] /\ Reach(Node(i), Node(j))
          BY <1>2, <2>2, <3>1, <4>1 DEF TarjanInv, CallInv
      <4> QED
          BY <3>1, <4>1, <4>2
    <3> QED
        BY <3>2, <3>3
  <2>3. ASSUME NEW b \in Visited', \A i \in 1..d + 1 : Node(i)' # b
        PROVE  succs'[b] \subseteq Visited'
    <3>1. b \in Visited /\ \A i \in 1..d : Node(i) # b
        BY <1>3, <1>6, <2>3
    <3> QED
        BY <1>2, <1>6, <3>1 DEF TarjanInv, CallInv
  <2>4. \A i \in 1..d + 1, j \in 1..d + 1 : Reach(Node(i), Node(j))' <=> Reach(Node(i)', Node(j)')
      BY DEF Reach
  <2> QED
      BY <1>3, <2>1, <2>2, <2>3, <2>4 DEF CallInv
<1>12. ReachInv'
  <2>1. ASSUME NEW x \in onStack', NEW y \in onStack', index'[x] <= index'[y]
        PROVE  Reach(x, y)
    <3>1. CASE y = n /\ x # n
      <4>1. x \in onStack
          BY <1>5, <3>1
      <4>2. PICK i \in 1..d : Reach(x, Node(i))
          BY <1>2, <4>1 DEF TarjanInv, ReachInv
      <4> QED
          BY <1>10, <3>1, <4>2, ReachTrans
    <3>2. CASE x = n /\ y # n
      <4>1. y \in Visited /\ index'[y] = index[y] /\ index[y] < index_count /\ index[y] \in Nat
          BY <1>1, <1>5, <3>2
      <4> QED
          BY <1>1, <1>5, <2>1, <3>2, <4>1
    <3>3. CASE x # n /\ y # n
      <4>1. x \in onStack /\ y \in onStack /\ index[x] <= index[y]
          BY <1>1, <1>5, <2>1, <3>3
      <4> QED
          BY <4>1 DEF TarjanInv, ReachInv
    <3>4. CASE x = y
        BY <3>4 DEF Reach
    <3> QED
        BY <3>1, <3>2, <3>3, <3>4
  <2>2. ASSUME NEW y \in onStack'
        PROVE  \E i \in 1..d + 1 : index'[Node(i)'] <= index'[y] /\ Reach(y, Node(i)')
    <3>1. CASE y = n
        BY <1>1, <1>2, <1>3, <1>5, <3>1 DEF Reach
    <3>2. CASE y # n
      <4>1. y \in onStack /\ index'[y] = index[y]
          BY <1>1, <1>5, <3>2
      <4>2. PICK i \in 1..d : index[Node(i)] <= index[y] /\ Reach(y, Node(i))
          BY <1>2, <4>1 DEF TarjanInv, ReachInv
      <4>3. i \in 1..d + 1 /\ Node(i)' = Node(i) /\ index'[Node(i)] = index[Node(i)]
          BY <1>3, <1>5, <1>8
      <4> QED
          BY <4>1, <4>2, <4>3
    <3> QED
        BY <3>1, <3>2
  <2>3. \A x, y : Reach(x, y)' <=> Reach(x, y)
      BY <1>7
  <2>4. \A y, i : Reach(y, Node(i))' <=> Reach(y, Node(i)')
      BY DEF Reach
  <2> QED
      BY <1>3, <2>1, <2>2, <2>3, <2>4 DEF ReachInv
<1>13. OffInv'
    BY <1>6 DEF TarjanInv, OffInv
<1>14. ASSUME NEW i \in 1..d
       PROVE  /\ lowlink'[Node(i)] = lowlink[Node(i)] /\ index'[Node(i)] = index[Node(i)]
              /\ \E w \in onStack' : index'[w] = lowlink'[Node(i)] /\ Reach(Node(i), w)
              /\ \A u \in onStack' : Within(i, u)' =>
                   \A w \in succs[u] \cap onStack' : Seen(i, u, w)' =>
                       lowlink'[Node(i)] <= index'[w]
  <2>1. lowlink'[Node(i)] = lowlink[Node(i)] /\ index'[Node(i)] = index[Node(i)]
        /\ Node(i)' = Node(i) /\ Node(i) # n
      BY <1>3, <1>5, <1>8
  <2>2. \E w \in onStack' : index'[w] = lowlink'[Node(i)] /\ Reach(Node(i), w)
    <3>1. PICK w \in onStack : index[w] = lowlink[Node(i)] /\ Reach(Node(i), w)
        BY <1>2 DEF TarjanInv, LowInv
    <3>2. w \in onStack' /\ index'[w] = index[w]
        BY <1>1, <1>5
    <3> QED
        BY <2>1, <3>1, <3>2
  <2>3. ASSUME NEW u \in onStack', Within(i, u)', NEW w \in succs[u] \cap onStack', Seen(i, u, w)'
        PROVE  lowlink'[Node(i)] <= index'[w]
    <3>1. index'[Node(i)] <= index'[u] /\ index'[u] < index'[Node(i + 1)']
        BY <1>3, <2>1, <2>3 DEF Within, Node
    <3>2. u # n /\ u \in onStack /\ index'[u] = index[u]
      <4>1. u # n
        <5>1. CASE i = d
            BY <1>1, <1>3, <1>5, <3>1, <5>1
        <5>2. CASE i # d
          <6>1. i + 1 \in 1..d /\ Node(i + 1)' = Node(i + 1) /\ Node(i + 1) \in Visited
                /\ Node(i + 1) # n
              BY <1>1, <1>2, <1>3, <1>8, <5>2
          <6>2. index'[Node(i + 1)] < index_count /\ index'[Node(i + 1)] \in Nat
              BY <1>1, <1>5, <6>1
          <6> QED
              BY <1>1, <1>5, <3>1, <6>1, <6>2
        <5> QED
            BY <5>1, <5>2
      <4> QED
          BY <1>1, <1>5, <4>1
    <3>3. Within(i, u)
      <4>1. index[Node(i)] <= index[u]
          BY <2>1, <3>1, <3>2
      <4>2. i < Depth => index[u] < index[Node(i + 1)]
        <5> SUFFICES ASSUME i < d PROVE index[u] < index[Node(i + 1)]
            BY <1>2
        <5>1. i + 1 \in 1..d
            BY <1>2
        <5>2. Node(i + 1)' = Node(i + 1) /\ index'[Node(i + 1)] = index[Node(i + 1)]
            BY <1>3, <1>5, <1>8, <5>1
        <5> QED
            BY <3>1, <3>2, <5>2
      <4> QED
          BY <3>2, <4>1, <4>2 DEF Within
    <3>4. CASE w = n
      <4>1. u = Node(i)
        <5> SUFFICES ASSUME u # Node(i) PROVE FALSE
            OBVIOUS
        <5>1. \A k \in 1..d : Node(k) # u
          <6> SUFFICES ASSUME NEW k \in 1..d, Node(k) = u PROVE FALSE
              OBVIOUS
          <6>1. k # i
              OBVIOUS
          <6>2. CASE k < i
            <7>1. index[u] < index[Node(i)]
                BY <1>2, <6>2 DEF TarjanInv, CallInv
            <7> QED
                BY <1>1, <1>2, <3>2, <3>3, <7>1 DEF Within
          <6>3. CASE k > i
            <7>1. i < d /\ i + 1 \in 1..d /\ index[u] < index[Node(i + 1)]
                BY <1>2, <3>3, <6>3 DEF Within
            <7>2. k = i + 1 \/ index[Node(i + 1)] < index[u]
                BY <1>2, <6>3, <7>1 DEF TarjanInv, CallInv
            <7> QED
                BY <1>1, <1>2, <3>2, <7>1, <7>2
          <6> QED
              BY <6>1, <6>2, <6>3
        <5>2. succs[u] \subseteq Visited
            BY <1>1, <1>2, <3>2, <5>1 DEF TarjanInv, CallInv
        <5> QED
            BY <1>5, <2>3, <3>4, <5>2
      <4>2. w \notin calls'[i].todo /\ w # Node(i + 1)'
          BY <1>2, <1>3, <2>1, <2>3, <4>1 DEF Seen, Node
      <4>3. i < d
          BY <1>3, <3>4, <4>2
      <4>4. w \in Visited
          BY <1>2, <1>3, <2>3, <4>1, <4>2, <4>3 DEF TarjanInv, CallInv
      <4> QED
          BY <1>5, <3>4, <4>4
    <3>5. CASE w # n
      <4>1. w \in onStack /\ index'[w] = index[w]
          BY <1>1, <1>5, <2>3, <3>5
      <4>2. Seen(i, u, w)
        <5> SUFFICES ASSUME u = Node(i)
                     PROVE  w \notin calls[i].todo /\ (i < d => w # Node(i + 1))
            BY <1>2 DEF Seen
        <5>1. w \notin calls'[i].todo /\ w # Node(i + 1)'
            BY <1>2, <1>3, <2>1, <2>3 DEF Seen, Node
        <5>2. w \notin calls[i].todo
            BY <1>2, <1>3, <3>5, <5>1
        <5>3. i < d => Node(i + 1)' = Node(i + 1)
            BY <1>2, <1>3
        <5> QED
            BY <5>1, <5>2, <5>3
      <4>3. lowlink[Node(i)] <= index[w]
          BY <1>2, <2>3, <3>2, <3>3, <4>1, <4>2 DEF TarjanInv, LowInv
      <4> QED
          BY <2>1, <4>1, <4>3
    <3> QED
        BY <3>4, <3>5
  <2> QED
      BY <2>1, <2>2, <2>3
<1>15. LowInv'
  <2>1. lowlink'[n] = index'[n]
      BY <1>5
  <2>2. \A u \in onStack' : Within(d + 1, u)' => u = n
    <3> SUFFICES ASSUME NEW u \in onStack', Within(d + 1, u)', u # n PROVE FALSE
        OBVIOUS
    <3>1. u \in Visited /\ index'[u] = index[u] /\ index[u] \in Nat /\ index[u] < index_count
        BY <1>1, <1>5
    <3>2. index'[Node(d + 1)'] <= index'[u]
        BY DEF Within, Node
    <3> QED
        BY <1>1, <1>3, <1>5, <3>1, <3>2
  <2>3. \A w : ~Seen(d + 1, n, w)' \/ w \notin succs[n]
    <3> SUFFICES ASSUME NEW w \in succs[n], Seen(d + 1, n, w)' PROVE FALSE
        OBVIOUS
    <3>1. n = Node(d + 1)' => w \notin calls'[d + 1].todo
        BY DEF Seen, Node
    <3> QED
        BY <1>3, <3>1
  <2>4. Reach(n, n) /\ n \in onStack'
      BY <1>5 DEF Reach
  <2>5. ASSUME NEW i \in 1..d + 1
        PROVE  /\ lowlink'[Node(i)'] <= index'[Node(i)']
               /\ \E w \in onStack' : index'[w] = lowlink'[Node(i)'] /\ Reach(Node(i)', w)
               /\ \A u \in onStack' : Within(i, u)' =>
                    \A w \in succs[u] \cap onStack' : Seen(i, u, w)' =>
                        lowlink'[Node(i)'] <= index'[w]
    <3>1. CASE i = d + 1
        BY <1>1, <1>3, <1>5, <2>1, <2>2, <2>3, <2>4, <3>1
    <3>2. CASE i # d + 1
      <4>1. i \in 1..d /\ Node(i)' = Node(i)
          BY <1>2, <1>3, <3>2
      <4>2. lowlink[Node(i)] <= index[Node(i)]
          BY <1>2, <4>1 DEF TarjanInv, LowInv
      <4> QED
          BY <1>14, <4>1, <4>2
    <3> QED
        BY <3>1, <3>2
  <2>6. \A i, w : Reach(Node(i), w)' <=> Reach(Node(i)', w)
      BY DEF Reach
  <2> QED
      BY <1>3, <2>5, <2>6 DEF LowInv
<1> QED
    BY <1>9, <1>11, <1>12, <1>13, <1>15 DEF TarjanInv

LEMMA RootKeeps == TypeOK /\ GraphInv /\ TarjanInv /\ TraverseRoot => TarjanInv'
<1> SUFFICES ASSUME TypeOK, GraphInv, TarjanInv, TraverseRoot PROVE TarjanInv'
    OBVIOUS
<1>1. PICK n \in nodes : index[n] = -1 /\ Enter(n, <<>>)
    BY DEF TraverseRoot
<1>2. Depth = 0 /\ Len(<<>>) = 0 /\ <<>> \in Seq(Calls)
    BY EmptySeq DEF TraverseRoot, Depth
<1>3. UNCHANGED <<succ, nodes, succs, sccs>>
    BY DEF TraverseRoot
<1>4. /\ Len(<<>>) = Depth
      /\ \A i \in 1..Depth : FALSE
    BY <1>2
<1>5. /\ \A i \in 1..Depth : <<>>[i].n = Node(i)
      /\ \A i \in 1..Depth : i < Depth => <<>>[i].todo = calls[i].todo
      /\ \A i \in 1..Depth : i = Depth => /\ n \in calls[i].todo
                                         /\ <<>>[i].todo = calls[i].todo \ {n}
    BY <1>4
<1> QED
    BY <1>1, <1>2, <1>3, <1>4, <1>5, EnterKeeps

LEMMA SuccessorKeeps == TypeOK /\ GraphInv /\ TarjanInv /\ TraverseSuccessor => TarjanInv'
<1> SUFFICES ASSUME TypeOK, GraphInv, TarjanInv, TraverseSuccessor PROVE TarjanInv'
    OBVIOUS
<1>1. PICK su \in Top.todo : index[su] = -1 /\ Enter(su, Examined(su))
    BY DEF TraverseSuccessor
<1>2. calls # <<>>
    BY DEF TraverseSuccessor
<1>3. /\ Depth \in Nat \ {0} /\ Top = calls[Depth]
      /\ Examined(su) \in Seq(Calls) /\ Len(Examined(su)) = Depth
      /\ \A i \in 1..Depth : Examined(su)[i].n = Node(i)
      /\ \A i \in 1..Depth - 1 : Examined(su)[i] = calls[i]
      /\ Examined(su)[Depth].todo = Top.todo \ {su}
    BY <1>2, TopType, ExaminedType
<1>4. su \in nodes
  <2>1. Node(Depth) \in nodes /\ calls[Depth].todo \subseteq succs[Node(Depth)]
      BY <1>3, StackFacts DEF TarjanInv, CallInv
  <2> QED
      BY <1>3, <2>1, NodesFacts
<1>5. UNCHANGED <<succ, nodes, succs, sccs>>
    BY DEF TraverseSuccessor
<1>6. \A i \in 1..Depth : i < Depth => Examined(su)[i].todo = calls[i].todo
    BY <1>3
<1>7. \A i \in 1..Depth : i = Depth => /\ su \in calls[i].todo
                                       /\ Examined(su)[i].todo = calls[i].todo \ {su}
    BY <1>3
<1> QED
    BY <1>1, <1>3, <1>4, <1>5, <1>6, <1>7, EnterKeeps

-----------------------------------------------------------------------------
(***************************************************************************)
(* A visited successor is examined.                                        *)
(***************************************************************************)
LEMMA ExamineKeeps == TypeOK /\ GraphInv /\ TarjanInv /\ ExamineVisited => TarjanInv'
<1> SUFFICES ASSUME TypeOK, GraphInv, TarjanInv, ExamineVisited PROVE TarjanInv'
    OBVIOUS
<1>1. PICK su \in Top.todo : /\ index[su] # -1 /\ calls' = Examined(su)
                             /\ lowlink' = IF su \in onStack
                                  THEN [lowlink EXCEPT ![Top.n] = Least(index[su], @)]
                                  ELSE lowlink
    BY DEF ExamineVisited
<1>2. /\ calls # <<>>
      /\ UNCHANGED <<succ, nodes, succs, prevs, index, onStack, index_count, stack, sccs>>
    BY DEF ExamineVisited
<1>3. /\ Depth \in Nat \ {0} /\ Top = calls[Depth] /\ Top.n = Node(Depth)
      /\ Len(Examined(su)) = Depth
      /\ \A i \in 1..Depth : Examined(su)[i].n = Node(i)
      /\ \A i \in 1..Depth - 1 : Examined(su)[i] = calls[i]
      /\ Examined(su)[Depth].todo = Top.todo \ {su}
    BY <1>2, TopType, ExaminedType DEF Node
<1>4. PICK d \in Nat : d = Depth /\ d \in 1..d
    BY <1>3
<1>5. /\ Depth' = d /\ \A i \in 1..d : Node(i)' = Node(i)
      /\ \A i \in 1..d : i # d => calls'[i].todo = calls[i].todo
      /\ calls'[d].todo = calls[d].todo \ {su} /\ su \in calls[d].todo
    BY <1>1, <1>3, <1>4 DEF Depth, Node
<1>6. /\ \A i \in 1..d : Node(i) \in onStack
      /\ onStack \subseteq Visited /\ Visited \subseteq nodes
      /\ \A b \in Visited : index[b] \in Nat
    BY <1>4, StackFacts DEF TarjanInv
<1>7. su \in succs[Node(d)] /\ su \in Visited
  <2>1. su \in succs[Node(d)]
      BY <1>3, <1>4, <1>5 DEF TarjanInv, CallInv
  <2>2. su \in nodes
      BY <1>4, <1>6, <2>1, NodesFacts
  <2> QED
      BY <1>1, <2>1, <2>2 DEF Visited
<1>8. Visited' = Visited /\ Off' = Off /\ Height' = Height
    BY <1>2 DEF Visited, Off, Height
<1>9. \A a, b : Reach(a, b)' <=> Reach(a, b)
    BY <1>2 DEF Reach
<1>10. StackInv'
    BY <1>2, <1>8 DEF TarjanInv, StackInv
<1>11. CallInv'
  <2>1. ASSUME NEW i \in 1..d
        PROVE  /\ Node(i)' \in onStack' /\ calls'[i].todo \subseteq succs'[Node(i)']
               /\ succs'[Node(i)'] \ calls'[i].todo \subseteq Visited'
    <3>1. Node(i) \in onStack /\ calls[i].todo \subseteq succs[Node(i)]
          /\ succs[Node(i)] \ calls[i].todo \subseteq Visited
        BY <1>4 DEF TarjanInv, CallInv
    <3>2. calls'[i].todo = calls[i].todo \/ (i = d /\ calls'[i].todo = calls[i].todo \ {su})
        BY <1>5
    <3> QED
        BY <1>2, <1>5, <1>7, <1>8, <3>1, <3>2
  <2>2. ASSUME NEW i \in 1..d, NEW j \in 1..d, i < j
        PROVE  index'[Node(i)'] < index'[Node(j)'] /\ Reach(Node(i)', Node(j)')
    <3>1. index[Node(i)] < index[Node(j)] /\ Reach(Node(i), Node(j))
        BY <1>4, <2>2 DEF TarjanInv, CallInv
    <3> QED
        BY <1>2, <1>5, <3>1
  <2>3. ASSUME NEW b \in Visited', \A i \in 1..d : Node(i)' # b
        PROVE  succs'[b] \subseteq Visited'
    <3>1. b \in Visited /\ \A i \in 1..d : Node(i) # b
        BY <1>5, <1>8, <2>3
    <3> QED
        BY <1>2, <1>4, <1>8, <3>1 DEF TarjanInv, CallInv
  <2>4. \A i, j : Reach(Node(i), Node(j))' <=> Reach(Node(i)', Node(j)')
      BY <1>2 DEF Reach
  <2> QED
      BY <1>5, <2>1, <2>2, <2>3, <2>4 DEF CallInv
<1>12. ReachInv'
  <2>1. \A x, y \in onStack : index[x] <= index[y] => Reach(x, y)
      BY DEF TarjanInv, ReachInv
  <2>2. ASSUME NEW y \in onStack'
        PROVE  \E i \in 1..d : index'[Node(i)'] <= index'[y] /\ Reach(y, Node(i)')
    <3>1. PICK i \in 1..d : index[Node(i)] <= index[y] /\ Reach(y, Node(i))
        BY <1>2, <1>4 DEF TarjanInv, ReachInv
    <3> QED
        BY <1>2, <1>5, <3>1
  <2>3. \A y, i : Reach(y, Node(i))' <=> Reach(y, Node(i)')
      BY <1>2 DEF Reach
  <2> QED
      BY <1>2, <1>5, <1>9, <2>1, <2>2, <2>3 DEF ReachInv
<1>13. OffInv'
    BY <1>2, <1>8 DEF TarjanInv, OffInv
<1>14. /\ \A i \in 1..d : i # d => lowlink'[Node(i)] = lowlink[Node(i)]
       /\ su \notin onStack => lowlink'[Node(d)] = lowlink[Node(d)]
       /\ su \in onStack => lowlink'[Node(d)] = Least(index[su], lowlink[Node(d)])
       /\ \A i \in 1..d : lowlink[Node(i)] \in Nat \cup {-1}
  <2>1. \A i \in 1..d : i # d => Node(i) # Node(d)
    <3> SUFFICES ASSUME NEW i \in 1..d, i # d PROVE Node(i) # Node(d)
        OBVIOUS
    <3>1. index[Node(i)] < index[Node(d)]
        BY <1>4 DEF TarjanInv, CallInv
    <3> QED
        BY <1>4, <1>6, <3>1
  <2>2. \A i \in 1..d : Node(i) \in nodes /\ Node(i) \in Blocks
      BY <1>6, NodesFacts
  <2>3. Top.n = Node(d) /\ lowlink \in [Blocks -> Nat \cup {-1}]
      BY <1>3, <1>4 DEF TypeOK
  <2> QED
      BY <1>1, <1>4, <2>1, <2>2, <2>3
<1>15. LowInv'
  <2>1. ASSUME NEW i \in 1..d
        PROVE  /\ lowlink'[Node(i)] <= index'[Node(i)]
               /\ \E w \in onStack : index'[w] = lowlink'[Node(i)] /\ Reach(Node(i), w)
               /\ \A u \in onStack : Within(i, u)' =>
                    \A w \in succs[u] \cap onStack : Seen(i, u, w)' =>
                        lowlink'[Node(i)] <= index'[w]
    <3>1. /\ lowlink[Node(i)] <= index[Node(i)]
          /\ \E w \in onStack : index[w] = lowlink[Node(i)] /\ Reach(Node(i), w)
          /\ \A u \in onStack : Within(i, u) =>
               \A w \in succs[u] \cap onStack : Seen(i, u, w) => lowlink[Node(i)] <= index[w]
        BY <1>4 DEF TarjanInv, LowInv
    <3>2. i < d => Node(i + 1)' = Node(i + 1)
        BY <1>4, <1>5
    <3>3. \A u : Within(i, u)' <=> Within(i, u)
        BY <1>2, <1>4, <1>5, <3>2 DEF Within, Node
    <3>4. CASE i # d
      <4>1. \A u, w : Seen(i, u, w)' <=> Seen(i, u, w)
          BY <1>4, <1>5, <3>2, <3>4 DEF Seen, Node
      <4> QED
          BY <1>2, <1>14, <3>1, <3>3, <3>4, <4>1
    <3>5. CASE i = d
      <4>1. \A u, w : Seen(i, u, w)' /\ ~(u = Node(d) /\ w = su) => Seen(i, u, w)
          BY <1>4, <1>5, <3>5 DEF Seen, Node
      <4>2. CASE su \notin onStack
        <5>1. lowlink'[Node(i)] = lowlink[Node(i)]
            BY <1>14, <3>5, <4>2
        <5> QED
            BY <1>2, <3>1, <3>3, <4>1, <4>2, <5>1
      <4>3. CASE su \in onStack
        <5>1. /\ lowlink'[Node(d)] = Least(index[su], lowlink[Node(d)])
              /\ index[su] \in Nat /\ lowlink[Node(d)] \in Nat \cup {-1}
            BY <1>6, <1>7, <1>14, <3>5, <4>3
        <5>2. /\ lowlink'[Node(d)] <= index[su] /\ lowlink'[Node(d)] <= lowlink[Node(d)]
              /\ lowlink'[Node(d)] \in {index[su], lowlink[Node(d)]}
            BY <5>1 DEF Least
        <5>3. Reach(Node(d), su)
            BY <1>4, <1>6, <1>7, NodesFacts
        <5>4. lowlink'[Node(d)] \in Int /\ index[Node(d)] \in Nat
            BY <1>4, <1>6, <5>1, <5>2
        <5>5. \E w \in onStack : index'[w] = lowlink'[Node(d)] /\ Reach(Node(d), w)
            BY <1>2, <3>1, <3>5, <4>3, <5>2, <5>3
        <5>6. ASSUME NEW u \in onStack, Within(i, u)', NEW w \in succs[u] \cap onStack,
                     Seen(i, u, w)'
              PROVE  lowlink'[Node(d)] <= index[w]
          <6>1. CASE u = Node(d) /\ w = su
              BY <5>2, <6>1
          <6>2. CASE ~(u = Node(d) /\ w = su)
            <7>1. lowlink[Node(d)] <= index[w] /\ index[w] \in Nat
                BY <1>6, <3>1, <3>3, <3>5, <4>1, <5>6, <6>2
            <7> QED
                BY <5>1, <5>2, <5>4, <7>1
          <6> QED
              BY <6>1, <6>2
        <5> QED
            BY <1>2, <3>1, <3>5, <5>1, <5>2, <5>4, <5>5, <5>6
      <4> QED
          BY <4>2, <4>3
    <3> QED
        BY <3>4, <3>5
  <2>2. \A i, w : Reach(Node(i), w)' <=> Reach(Node(i)', w)
      BY <1>2 DEF Reach
  <2> QED
      BY <1>2, <1>5, <1>9, <2>1, <2>2 DEF LowInv
<1> QED
    BY <1>10, <1>11, <1>12, <1>13, <1>15 DEF TarjanInv

-----------------------------------------------------------------------------
(***************************************************************************)
(* A call returns: as the root of a component, or handing its lowlink to   *)
(* the caller.                                                             *)
(***************************************************************************)
Above(n) == {u \in onStack : index[n] <= index[u]}

\* What is popped is the stack from n on, and what remains the stack below n.
LEMMA PoppedIs ==
    ASSUME TypeOK, GraphInv, StackInv, CallInv, NEW n \in onStack
    PROVE  /\ Popped(n) = Above(n)
           /\ \E k \in 1..Height :
                 /\ stack[k] = n /\ Len(Remaining(n)) = k - 1
                 /\ \A i \in 1..k - 1 : Remaining(n)[i] = stack[i]
                 /\ onStack \ Above(n) = {stack[i] : i \in 1..k - 1}
<1>1. /\ Height \in Nat /\ onStack = {stack[i] : i \in 1..Height}
      /\ onStack \subseteq nodes /\ nodes \subseteq Blocks
      /\ \A b \in onStack : index[b] \in Nat
    BY StackFacts, NodesFacts DEF StackInv
<1>2. PICK k \in 1..Height : stack[k] = n
    BY <1>1
<1>3. \A i, j \in 1..Height : i < j => index[stack[i]] < index[stack[j]]
    BY DEF StackInv
<1>4. \A i \in 1..Height : stack[i] \in onStack /\ index[stack[i]] \in Nat
    BY <1>1
<1>5. \A i \in 1..Height : k <= i <=> index[n] <= index[stack[i]]
  <2> SUFFICES ASSUME NEW i \in 1..Height PROVE k <= i <=> index[n] <= index[stack[i]]
      OBVIOUS
  <2>1. CASE i = k
      BY <1>2, <1>4, <2>1
  <2>2. CASE i < k
      BY <1>1, <1>2, <1>3, <1>4, <2>2
  <2>3. CASE k < i
      BY <1>1, <1>2, <1>3, <1>4, <2>3
  <2> QED
      BY <1>1, <2>1, <2>2, <2>3
<1>6. Above(n) = {stack[i] : i \in k..Height}
  <2>1. ASSUME NEW u \in Above(n) PROVE u \in {stack[i] : i \in k..Height}
    <3>1. PICK i \in 1..Height : u = stack[i]
        BY <1>1 DEF Above
    <3> QED
        BY <1>1, <1>5, <3>1 DEF Above
  <2>2. ASSUME NEW i \in k..Height PROVE stack[i] \in Above(n)
      BY <1>1, <1>2, <1>4, <1>5 DEF Above
  <2> QED
      BY <2>1, <2>2
<1>7. \A i, j \in 1..Height : stack[i] = stack[j] => i = j
  <2> SUFFICES ASSUME NEW i \in 1..Height, NEW j \in 1..Height, stack[i] = stack[j], i # j
               PROVE  FALSE
      OBVIOUS
  <2>1. i < j \/ j < i
      BY <1>1
  <2> QED
      BY <1>3, <1>4, <2>1
<1>8. {j \in 1..Height : \E m \in 1..j : stack[m] = n} = k..Height
    BY <1>1, <1>2, <1>7
<1>9. Popped(n) = Above(n)
    BY <1>6, <1>8 DEF Popped, Height
<1>10. Cardinality(Above(n)) = Height - k + 1
  <2> DEFINE f == [i \in k..Height |-> stack[i]]
  <2>1. /\ f \in [k..Height -> Above(n)]
        /\ \A i, j \in k..Height : f[i] = f[j] => i = j
        /\ \A u \in Above(n) : \E i \in k..Height : f[i] = u
      BY <1>1, <1>2, <1>6, <1>7
  <2>2. ExistsBijection(k..Height, Above(n))
      BY <2>1 DEF ExistsBijection, Bijection, Injection, Surjection, IsInjective
  <2>3. IsFiniteSet(k..Height) /\ Cardinality(k..Height) = Height - k + 1
      BY <1>1, <1>2, FS_Interval
  <2> QED
      BY <2>2, <2>3, FS_Bijection
<1>11. Remaining(n) = SubSeq(stack, 1, k - 1)
    BY <1>1, <1>2, <1>9, <1>10 DEF Remaining, Height
<1>12. \A i \in 1..k - 1 : stack[i] \in Blocks
    BY <1>1, <1>2, <1>4
<1>13. /\ Len(Remaining(n)) = k - 1
       /\ \A i \in 1..k - 1 : Remaining(n)[i] = stack[i]
    BY <1>1, <1>2, <1>11, <1>12, SubSeqProperties
<1>14. onStack \ Above(n) = {stack[i] : i \in 1..k - 1}
  <2>1. ASSUME NEW u \in onStack \ Above(n) PROVE u \in {stack[i] : i \in 1..k - 1}
    <3>1. PICK i \in 1..Height : u = stack[i]
        BY <1>1
    <3>2. ~(k <= i)
        BY <1>5, <2>1, <3>1 DEF Above
    <3> QED
        BY <1>1, <3>1, <3>2
  <2>2. ASSUME NEW i \in 1..k - 1 PROVE stack[i] \in onStack \ Above(n)
      BY <1>1, <1>2, <1>4, <1>5 DEF Above
  <2> QED
      BY <2>1, <2>2
<1> QED
    BY <1>2, <1>9, <1>13, <1>14

\* When the top call has examined its successors, the stack from its block n
\* on is strongly connected, and no edge leads from there to a block on the
\* stack below the one whose index is n's lowlink.
LEMMA TopFacts ==
    ASSUME TypeOK, GraphInv, TarjanInv, calls # <<>>, Top.todo = {},
           NEW n, n = Top.n
    PROVE  /\ n = Node(Depth) /\ n \in Above(n) /\ succs[n] \subseteq Visited
           /\ \A u \in Above(n) : Reach(n, u) /\ Reach(u, n)
           /\ \A u \in Above(n) : succs[u] \subseteq Visited
           /\ \A u \in Above(n) : \A w \in succs[u] \cap onStack : lowlink[n] <= index[w]
           /\ lowlink[n] <= index[n]
           /\ \E w \in onStack : index[w] = lowlink[n] /\ Reach(n, w)
           /\ \A i \in 1..Depth : i < Depth => index[Node(i)] < index[n]
<1>1. Depth \in Nat \ {0} /\ n = Node(Depth) /\ calls[Depth].todo = {} /\ Depth \in 1..Depth
    BY TopType DEF Node
<1>2. /\ n \in onStack /\ onStack \subseteq Visited /\ Visited \subseteq nodes
      /\ \A b \in Visited : index[b] \in Nat
    BY <1>1, StackFacts DEF TarjanInv
<1>3. n \in Above(n)
    BY <1>2 DEF Above
<1>4. succs[n] \subseteq Visited
    BY <1>1 DEF TarjanInv, CallInv
<1>5. \A i \in 1..Depth : i < Depth => index[Node(i)] < index[n] /\ Reach(Node(i), n)
    BY <1>1 DEF TarjanInv, CallInv
<1>6. ASSUME NEW u \in Above(n)
      PROVE  Reach(n, u) /\ Reach(u, n) /\ succs[u] \subseteq Visited /\ Within(Depth, u)
  <2>1. u \in onStack /\ index[n] <= index[u] /\ u \in Visited
      BY <1>2 DEF Above
  <2>2. Reach(n, u)
      BY <1>2, <2>1 DEF TarjanInv, ReachInv
  <2>3. PICK i \in 1..Depth : Reach(u, Node(i))
      BY <2>1 DEF TarjanInv, ReachInv
  <2>4. i = Depth \/ Reach(Node(i), n)
      BY <1>1, <1>5
  <2>5. Reach(u, n)
      BY <1>1, <2>3, <2>4, ReachTrans
  <2>6. CASE u = n
      BY <1>1, <1>4, <2>1, <2>2, <2>5, <2>6 DEF Within
  <2>7. CASE u # n
    <3>1. ASSUME NEW j \in 1..Depth, Node(j) = u PROVE FALSE
      <4>1. j < Depth
          BY <1>1, <2>7, <3>1
      <4>2. index[u] < index[n]
          BY <1>5, <3>1, <4>1
      <4> QED
          BY <1>2, <2>1, <4>2
    <3>2. succs[u] \subseteq Visited
        BY <2>1, <3>1 DEF TarjanInv, CallInv
    <3> QED
        BY <1>1, <2>1, <2>2, <2>5, <3>2 DEF Within
  <2> QED
      BY <2>6, <2>7
<1>7. /\ lowlink[n] <= index[n]
      /\ \E w \in onStack : index[w] = lowlink[n] /\ Reach(n, w)
      /\ \A u \in onStack : Within(Depth, u) =>
           \A w \in succs[u] \cap onStack : Seen(Depth, u, w) => lowlink[n] <= index[w]
    BY <1>1 DEF TarjanInv, LowInv
<1>8. \A u, w : Seen(Depth, u, w)
    BY <1>1 DEF Seen
<1>9. \A u \in Above(n) : \A w \in succs[u] \cap onStack : lowlink[n] <= index[w]
    BY <1>6, <1>7, <1>8 DEF Above
<1> QED
    BY <1>1, <1>3, <1>4, <1>5, <1>6, <1>7, <1>9

\* What is popped from the stack is closed together with what was before, and
\* is a component unless it is a single block.
LEMMA PoppedIsComponent ==
    ASSUME TypeOK, GraphInv, TarjanInv, calls # <<>>, Top.todo = {},
           NEW n, n = Top.n, index[n] = lowlink[n],
           NEW T, T = Above(n)
    PROVE  /\ T \subseteq nodes /\ n \in T
           /\ \A b \in Off \cup T : succs[b] \subseteq Off \cup T
           /\ \A C \in Components(succs, nodes) :
                C \subseteq Off \cup T <=> C \subseteq Off \/ C = T
           /\ Cardinality(T) # 1 <=> T \in Components(succs, nodes)
<1>1. /\ n \in T
      /\ \A u \in T : Reach(n, u) /\ Reach(u, n) /\ succs[u] \subseteq Visited
      /\ \A u \in T : \A w \in succs[u] \cap onStack : lowlink[n] <= index[w]
    BY TopFacts
<1>2. onStack \subseteq Visited /\ Visited \subseteq nodes /\ nodes \subseteq Blocks
    BY StackFacts, NodesFacts DEF TarjanInv
<1>3. T \subseteq onStack /\ T \subseteq nodes /\ T \cap Off = {}
    BY <1>2 DEF Above, Off
<1>4. ASSUME NEW b \in Off \cup T PROVE succs[b] \subseteq Off \cup T
  <2>1. CASE b \in Off
      BY <2>1 DEF TarjanInv, OffInv
  <2>2. CASE b \in T
    <3>1. \A w \in succs[b] : w \in Visited /\ (w \in onStack => index[n] <= index[w])
        BY <1>1, <2>2
    <3> QED
        BY <3>1 DEF Above, Off
  <2> QED
      BY <2>1, <2>2
<1>5. ASSUME NEW b, Path(succs, nodes, n, b), Path(succs, nodes, b, n) PROVE b \in T
  <2>1. b \in Off \cup T
    <3>1. Off \cup T \in SUBSET nodes /\ \A x \in Off \cup T : succs[x] \cap nodes \subseteq Off \cup T
        BY <1>2, <1>3, <1>4 DEF Off
    <3> QED
        BY <1>1, <1>5, <3>1, PathInClosed
  <2>2. b \notin Off
    <3> SUFFICES ASSUME b \in Off PROVE FALSE
        OBVIOUS
    <3>1. Off \in SUBSET nodes /\ \A x \in Off : succs[x] \cap nodes \subseteq Off
      <4>1. \A x \in Off : succs[x] \subseteq Off
          BY DEF TarjanInv, OffInv
      <4> QED
          BY <1>2, <4>1 DEF Off
    <3>2. n \in Off
        BY <1>5, <3>1, PathInClosed
    <3> QED
        BY <1>1, <1>3, <3>2
  <2> QED
      BY <2>1, <2>2
<1>6. IsFiniteSet(T) /\ Cardinality(T) \in Nat
    BY <1>2, <1>3, FS_Subset, FS_CardinalityType, BlocksAssumption DEF BlocksAssumption
<1>7. ASSUME Cardinality(T) # 1 PROVE T \in Components(succs, nodes)
  <2>1. Cardinality(T) # 0
      BY <1>1, <1>6, FS_EmptySet
  <2>2. Cardinality(T) > 1
      BY <1>6, <1>7, <2>1
  <2>3. \A b \in T : b # n => Path(succs, nodes, n, b) /\ Path(succs, nodes, b, n)
      BY <1>1 DEF Reach
  <2>4. T \in SUBSET nodes
      BY <1>3
  <2> QED
      BY <1>1, <1>5, <2>2, <2>3, <2>4, ComponentIf
<1>8. ASSUME NEW C \in Components(succs, nodes), C \subseteq Off \cup T
      PROVE  C \subseteq Off \/ C = T
  <2> SUFFICES ASSUME ~(C \subseteq Off) PROVE C = T
      OBVIOUS
  <2>1. PICK c \in C : c \in T
      BY <1>8
  <2>2. /\ C \subseteq nodes
        /\ \A a, b \in C : Path(succs, nodes, a, b)
        /\ \A a \in C, b \in nodes : Path(succs, nodes, a, b) /\ Path(succs, nodes, b, a) => b \in C
      BY <1>2, ComponentPaths
  <2>3. \A u \in T : \A v \in T : Reach(u, v)
      BY <1>1, ReachTrans
  <2>4. T \subseteq C
    <3> SUFFICES ASSUME NEW u \in T PROVE u \in C
        OBVIOUS
    <3>1. u = c \/ (Path(succs, nodes, c, u) /\ Path(succs, nodes, u, c))
        BY <2>1, <2>3 DEF Reach
    <3> QED
        BY <1>3, <2>1, <2>2, <3>1
  <2>5. C \subseteq T
    <3> SUFFICES ASSUME NEW b \in C PROVE b \in T
        OBVIOUS
    <3>1. Path(succs, nodes, n, b) /\ Path(succs, nodes, b, n)
        BY <1>1, <2>2, <2>4
    <3> QED
        BY <1>5, <3>1
  <2> QED
      BY <2>4, <2>5
<1>9. T \in Components(succs, nodes) => Cardinality(T) # 1
    BY <1>2, <1>6, ComponentPaths
<1> QED
    BY <1>1, <1>3, <1>4, <1>7, <1>8, <1>9

\* What a return leaves alone.
LEMMA ReturnFrame ==
    ASSUME TypeOK, GraphInv, TarjanInv, Return, NEW d, d = Depth, NEW n, n = Top.n
    PROVE  /\ calls # <<>> /\ Top.todo = {} /\ d \in Nat \ {0} /\ n = Node(d)
           /\ Depth' = d - 1
           /\ \A i \in 1..d - 1 : Node(i)' = Node(i) /\ calls'[i].todo = calls[i].todo
           /\ \A i \in 1..d : Node(i) \in onStack /\ (i < d => index[Node(i)] < index[n])
           /\ \A i, j \in 1..d : i # j => Node(i) # Node(j)
           /\ UNCHANGED <<succ, nodes, succs, prevs, index, index_count>>
           /\ \A i \in 1..d - 1 : i < d - 1 => lowlink'[Node(i)] = lowlink[Node(i)]
           /\ d # 1 => lowlink'[Node(d - 1)] = Least(lowlink[n], lowlink[Node(d - 1)])
           /\ \A i \in 1..d : index[Node(i)] \in Nat /\ lowlink[Node(i)] \in Nat \cup {-1}
           /\ Visited' = Visited
           /\ \A a, b : Reach(a, b)' <=> Reach(a, b)
<1>1. calls # <<>> /\ Top.todo = {} /\ UNCHANGED <<succ, nodes, succs, prevs, index, index_count>>
    BY DEF Return
<1>2. /\ d \in Nat \ {0} /\ n = Node(d) /\ Len(Front(calls)) = d - 1
      /\ \A i \in 1..d - 1 : Front(calls)[i] = calls[i]
    BY <1>1, TopType DEF Node
<1>3. /\ Depth' = d - 1
      /\ \A i \in 1..d - 1 : Node(i)' = Node(i) /\ calls'[i].todo = calls[i].todo
    BY <1>2 DEF Return, Depth, Node
<1>4. /\ \A i \in 1..d : Node(i) \in onStack
      /\ \A i, j \in 1..d : i < j => index[Node(i)] < index[Node(j)]
    BY DEF TarjanInv, CallInv
<1>5. /\ onStack \subseteq Visited /\ Visited \subseteq nodes /\ nodes \subseteq Blocks
      /\ \A b \in Visited : index[b] \in Nat
    BY StackFacts, NodesFacts DEF TarjanInv
<1>6. \A i \in 1..d : index[Node(i)] \in Nat /\ lowlink[Node(i)] \in Nat \cup {-1}
    BY <1>4, <1>5 DEF TypeOK
<1>7. \A i, j \in 1..d : i # j => Node(i) # Node(j)
  <2> SUFFICES ASSUME NEW i \in 1..d, NEW j \in 1..d, i # j PROVE Node(i) # Node(j)
      OBVIOUS
  <2>1. i < j \/ j < i
      BY <1>2
  <2> QED
      BY <1>4, <1>6, <2>1
<1>8. lowlink' = IF d - 1 = 0 THEN lowlink
                 ELSE [lowlink EXCEPT ![Node(d - 1)] = Least(lowlink[n], @)]
    BY DEF Return, Depth, Node
<1>9. \A i \in 1..d : Node(i) \in Blocks
    BY <1>4, <1>5
<1>10. d - 1 # 0 => d - 1 \in 1..d
    BY <1>2
<1>11. /\ \A i \in 1..d - 1 : i < d - 1 => lowlink'[Node(i)] = lowlink[Node(i)]
       /\ d # 1 => lowlink'[Node(d - 1)] = Least(lowlink[n], lowlink[Node(d - 1)])
    BY <1>2, <1>7, <1>8, <1>9, <1>10 DEF TypeOK
<1>12. Visited' = Visited /\ \A a, b : Reach(a, b)' <=> Reach(a, b)
    BY <1>1 DEF Visited, Reach
<1> QED
    BY <1>1, <1>2, <1>3, <1>4, <1>6, <1>7, <1>11, <1>12

\* The calls that go on are as they were, the returning one being visited with
\* all its successors.
LEMMA ReturnKeepsCalls ==
    ASSUME TypeOK, GraphInv, TarjanInv, Return,
           \A i \in 1..Depth - 1 : Node(i) \in onStack'
    PROVE  CallInv'
<1>1. PICK d, n : d = Depth /\ n = Top.n
    OBVIOUS
<1>2. /\ calls # <<>> /\ Top.todo = {} /\ d \in Nat \ {0} /\ n = Node(d)
      /\ Depth' = d - 1
      /\ \A i \in 1..d - 1 : Node(i)' = Node(i) /\ calls'[i].todo = calls[i].todo
      /\ UNCHANGED <<nodes, succs, index>> /\ Visited' = Visited
      /\ \A a, b : Reach(a, b)' <=> Reach(a, b)
    BY <1>1, ReturnFrame
<1>3. ASSUME NEW i \in 1..d - 1
      PROVE  /\ Node(i)' \in onStack' /\ calls'[i].todo \subseteq succs'[Node(i)']
             /\ succs'[Node(i)'] \ calls'[i].todo \subseteq Visited'
    BY <1>1, <1>2 DEF TarjanInv, CallInv
<1>4. ASSUME NEW i \in 1..d - 1, NEW j \in 1..d - 1, i < j
      PROVE  index'[Node(i)'] < index'[Node(j)'] /\ Reach(Node(i)', Node(j)')
  <2>1. i \in 1..d /\ j \in 1..d
      BY <1>2
  <2>2. index[Node(i)] < index[Node(j)] /\ Reach(Node(i), Node(j))
      BY <1>1, <1>4, <2>1 DEF TarjanInv, CallInv
  <2> QED
      BY <1>2, <2>2
<1>5. ASSUME NEW b \in Visited', \A i \in 1..d - 1 : Node(i)' # b
      PROVE  succs'[b] \subseteq Visited'
  <2>1. CASE b = n
      BY <1>1, <1>2, <2>1, TopFacts
  <2>2. CASE b # n
    <3>1. ASSUME NEW i \in 1..d PROVE Node(i) # b
      <4>1. i = d \/ i \in 1..d - 1
          BY <1>2
      <4> QED
          BY <1>2, <1>5, <2>2, <4>1
    <3> QED
        BY <1>1, <1>2, <1>5, <3>1 DEF TarjanInv, CallInv
  <2> QED
      BY <2>1, <2>2
<1>6. \A i, j : Reach(Node(i), Node(j))' <=> Reach(Node(i)', Node(j)')
    BY <1>2 DEF Reach
<1> QED
    BY <1>2, <1>3, <1>4, <1>5, <1>6 DEF CallInv

\* The root of a component returns and pops it.
LEMMA RootReturnKeeps ==
    ASSUME TypeOK, GraphInv, TarjanInv, Return, index[Top.n] = lowlink[Top.n]
    PROVE  TarjanInv'
<1>1. PICK d, n, T : d = Depth /\ n = Top.n /\ T = Above(n)
    OBVIOUS
<1>2. /\ calls # <<>> /\ Top.todo = {} /\ d \in Nat \ {0} /\ n = Node(d)
      /\ Depth' = d - 1
      /\ \A i \in 1..d - 1 : Node(i)' = Node(i) /\ calls'[i].todo = calls[i].todo
      /\ \A i \in 1..d : Node(i) \in onStack /\ (i < d => index[Node(i)] < index[n])
      /\ UNCHANGED <<nodes, succs, index, index_count>> /\ Visited' = Visited
      /\ \A i \in 1..d - 1 : i < d - 1 => lowlink'[Node(i)] = lowlink[Node(i)]
      /\ d # 1 => lowlink'[Node(d - 1)] = Least(lowlink[n], lowlink[Node(d - 1)])
      /\ \A i \in 1..d : index[Node(i)] \in Nat /\ lowlink[Node(i)] \in Nat \cup {-1}
      /\ \A a, b : Reach(a, b)' <=> Reach(a, b)
    BY <1>1, ReturnFrame
<1>3. /\ onStack \subseteq Visited /\ Visited \subseteq nodes
      /\ \A b \in Visited : index[b] \in Nat
    BY StackFacts DEF TarjanInv
<1>4. n \in onStack /\ Popped(n) = T /\ index[n] = lowlink[n]
    BY <1>1, <1>2, PoppedIs DEF TarjanInv
<1>5. PICK k \in 1..Height :
         /\ Len(Remaining(n)) = k - 1
         /\ \A i \in 1..k - 1 : Remaining(n)[i] = stack[i]
         /\ onStack \ T = {stack[i] : i \in 1..k - 1}
    BY <1>1, <1>4, PoppedIs DEF TarjanInv
<1>6. /\ stack' = Remaining(n) /\ onStack' = onStack \ T
      /\ sccs' = IF Cardinality(T) # 1 THEN sccs \cup {T} ELSE sccs
    BY <1>1, <1>4 DEF Return
<1>7. /\ T \subseteq nodes /\ n \in T
      /\ \A b \in Off \cup T : succs[b] \subseteq Off \cup T
      /\ \A C \in Components(succs, nodes) :
           C \subseteq Off \cup T <=> C \subseteq Off \/ C = T
      /\ Cardinality(T) # 1 <=> T \in Components(succs, nodes)
    BY <1>1, <1>2, <1>4, PoppedIsComponent
<1>8. \A u : u \in onStack' <=> u \in onStack /\ index[u] < index[n]
    BY <1>1, <1>3, <1>4, <1>6 DEF Above
<1>9. Off' = Off \cup T
  <2>1. T \subseteq onStack
      BY <1>1 DEF Above
  <2>2. Off' = Visited \ (onStack \ T)
      BY <1>2, <1>6 DEF Off
  <2> QED
      BY <1>3, <2>1, <2>2 DEF Off
<1>10. StackInv'
  <2>1. Height' = k - 1 /\ Height \in Nat
      BY <1>5, <1>6, StackFacts DEF Height, TarjanInv
  <2>2. onStack' = {stack'[i] : i \in 1..k - 1} /\ \A i \in 1..k - 1 : stack'[i] = stack[i]
      BY <1>5, <1>6
  <2>3. \A i, j \in 1..k - 1 : i < j => index'[stack'[i]] < index'[stack'[j]]
      BY <1>2, <1>5, <2>1, <2>2 DEF TarjanInv, StackInv
  <2>4. /\ onStack' \subseteq Visited'
        /\ \A b \in Visited' : index'[b] \in 0..index_count' - 1
        /\ \A a, b \in Visited' : index'[a] = index'[b] => a = b
      BY <1>2, <1>3, <1>6 DEF TarjanInv, StackInv
  <2> QED
      BY <2>1, <2>2, <2>3, <2>4 DEF StackInv
<1>11. \A i \in 1..d - 1 : i \in 1..d /\ i < d /\ Node(i) \in onStack'
    BY <1>2, <1>8
<1>12. CallInv'
    BY <1>1, <1>11, ReturnKeepsCalls
<1>13. ReachInv'
  <2>1. \A x, y \in onStack' : index[x] <= index[y] => Reach(x, y)
      BY <1>6 DEF TarjanInv, ReachInv
  <2>2. ASSUME NEW y \in onStack'
        PROVE  \E i \in 1..d - 1 : index[Node(i)] <= index[y] /\ Reach(y, Node(i)')
    <3>1. y \in onStack /\ index[y] < index[n] /\ index[y] \in Nat
        BY <1>3, <1>8
    <3>2. PICK i \in 1..d : index[Node(i)] <= index[y] /\ Reach(y, Node(i))
        BY <1>1, <3>1 DEF TarjanInv, ReachInv
    <3>3. i # d
        BY <1>2, <3>1, <3>2
    <3>4. i \in 1..d - 1
        BY <1>2, <3>3
    <3> QED
        BY <1>2, <3>2, <3>4
  <2>3. \A y, i : Reach(y, Node(i))' <=> Reach(y, Node(i)')
      BY <1>2 DEF Reach
  <2>4. \A i \in 1..d - 1 : index'[Node(i)'] = index[Node(i)]
      BY <1>2
  <2> QED
      BY <1>2, <2>1, <2>2, <2>3, <2>4 DEF ReachInv
<1>14. OffInv'
  <2>1. \A b \in Off' : succs'[b] \subseteq Off'
      BY <1>2, <1>7, <1>9
  <2>2. sccs = {C \in Components(succs, nodes) : C \subseteq Off}
      BY DEF TarjanInv, OffInv
  <2>3. sccs' = {C \in Components(succs, nodes) : C \subseteq Off \cup T}
    <3>1. \A C : C \in sccs' <=> C \in sccs \/ (C = T /\ T \in Components(succs, nodes))
        BY <1>6, <1>7
    <3>2. \A C : C \in sccs <=> C \in Components(succs, nodes) /\ C \subseteq Off
        BY <2>2
    <3>3. \A C : C \in sccs' <=> C \in Components(succs, nodes) /\ C \subseteq Off \cup T
        BY <1>7, <3>1, <3>2
    <3> QED
        BY <3>3
  <2> QED
      BY <1>2, <1>9, <2>1, <2>3 DEF OffInv
<1>15. LowInv'
  <2>1. ASSUME NEW i \in 1..d - 1
        PROVE  /\ lowlink'[Node(i)] <= index[Node(i)]
               /\ \E w \in onStack' : index[w] = lowlink'[Node(i)] /\ Reach(Node(i), w)
               /\ \A u \in onStack' : Within(i, u)' =>
                    \A w \in succs[u] \cap onStack' : Seen(i, u, w)' =>
                        lowlink'[Node(i)] <= index[w]
    <3>1. /\ lowlink[Node(i)] <= index[Node(i)]
          /\ \E w \in onStack : index[w] = lowlink[Node(i)] /\ Reach(Node(i), w)
          /\ \A u \in onStack : Within(i, u) =>
               \A w \in succs[u] \cap onStack : Seen(i, u, w) => lowlink[Node(i)] <= index[w]
        BY <1>1, <1>11 DEF TarjanInv, LowInv
    <3>2. lowlink[Node(i)] < index[n] /\ lowlink[Node(i)] \in Int /\ index[n] \in Int
      <4>1. index[Node(i)] < index[n] /\ i \in 1..d
          BY <1>2, <1>11
      <4> QED
          BY <1>2, <3>1, <4>1
    <3>3. lowlink'[Node(i)] = lowlink[Node(i)]
      <4>1. CASE i < d - 1
          BY <1>2, <4>1
      <4>2. CASE i = d - 1
        <5>1. lowlink'[Node(i)] = Least(index[n], lowlink[Node(i)])
            BY <1>2, <1>4, <4>2
        <5> QED
            BY <3>2, <5>1 DEF Least
      <4> QED
          BY <1>2, <4>1, <4>2
    <3>4. \E w \in onStack' : index[w] = lowlink'[Node(i)] /\ Reach(Node(i), w)
        BY <1>8, <3>1, <3>2, <3>3
    <3>5. ASSUME NEW u \in onStack', Within(i, u)', NEW w \in succs[u] \cap onStack', Seen(i, u, w)'
          PROVE  lowlink'[Node(i)] <= index[w]
      <4>1. u \in onStack /\ w \in onStack /\ index[u] < index[n] /\ w # n
          BY <1>6, <1>7, <1>8, <3>5
      <4>2. i < d - 1 => i + 1 \in 1..d - 1 /\ Node(i + 1)' = Node(i + 1)
          BY <1>2
      <4>3. i + 1 = d \/ i < d - 1
          BY <1>2
      <4>4. Within(i, u)
        <5>1. index[Node(i)] <= index[u]
            BY <1>2, <3>5 DEF Within, Node
        <5>2. index[u] < index[Node(i + 1)]
          <6>1. CASE i + 1 = d
              BY <1>2, <4>1, <6>1
          <6>2. CASE i < d - 1
              BY <1>2, <3>5, <4>2, <6>2 DEF Within, Node
          <6> QED
              BY <4>3, <6>1, <6>2
        <5> QED
            BY <4>1, <5>1, <5>2 DEF Within
      <4>5. Seen(i, u, w)
        <5>1. SUFFICES ASSUME u = Node(i) PROVE w \notin calls[i].todo /\ w # Node(i + 1)
            BY DEF Seen
        <5>2. w \notin calls'[i].todo /\ (i < d - 1 => w # Node(i + 1)')
            BY <1>2, <3>5, <5>1 DEF Seen, Node
        <5>3. w # Node(i + 1)
            BY <1>2, <4>1, <4>2, <4>3, <5>2
        <5> QED
            BY <1>2, <5>2, <5>3
      <4> QED
          BY <3>1, <3>3, <3>5, <4>1, <4>4, <4>5
    <3> QED
        BY <3>1, <3>3, <3>4, <3>5
  <2>2. \A i, w : Reach(Node(i), w)' <=> Reach(Node(i)', w)
      BY <1>2 DEF Reach
  <2>3. \A i \in 1..d - 1 : index'[Node(i)'] = index[Node(i)] /\ lowlink'[Node(i)'] = lowlink'[Node(i)]
      BY <1>2
  <2> QED
      BY <1>2, <2>1, <2>2, <2>3 DEF LowInv
<1> QED
    BY <1>10, <1>12, <1>13, <1>14, <1>15 DEF TarjanInv

\* A block inside a component returns, and its caller takes over its lowlink.
LEMMA InnerReturnKeeps ==
    ASSUME TypeOK, GraphInv, TarjanInv, Return, index[Top.n] # lowlink[Top.n]
    PROVE  TarjanInv'
<1>1. PICK d, n : d = Depth /\ n = Top.n
    OBVIOUS
<1>2. /\ calls # <<>> /\ Top.todo = {} /\ d \in Nat \ {0} /\ n = Node(d)
      /\ Depth' = d - 1
      /\ \A i \in 1..d - 1 : Node(i)' = Node(i) /\ calls'[i].todo = calls[i].todo
      /\ \A i \in 1..d : Node(i) \in onStack /\ (i < d => index[Node(i)] < index[n])
      /\ UNCHANGED <<nodes, succs, index, index_count>> /\ Visited' = Visited
      /\ \A i \in 1..d - 1 : i < d - 1 => lowlink'[Node(i)] = lowlink[Node(i)]
      /\ d # 1 => lowlink'[Node(d - 1)] = Least(lowlink[n], lowlink[Node(d - 1)])
      /\ \A i \in 1..d : index[Node(i)] \in Nat /\ lowlink[Node(i)] \in Nat \cup {-1}
      /\ \A a, b : Reach(a, b)' <=> Reach(a, b)
    BY <1>1, ReturnFrame
<1>3. /\ onStack \subseteq Visited /\ Visited \subseteq nodes
      /\ \A b \in Visited : index[b] \in Nat
    BY StackFacts DEF TarjanInv
<1>4. UNCHANGED <<stack, onStack, sccs>>
    BY <1>1 DEF Return
<1>5. /\ \A u \in Above(n) : \A w \in succs[u] \cap onStack : lowlink[n] <= index[w]
      /\ lowlink[n] <= index[n]
      /\ \E w \in onStack : index[w] = lowlink[n] /\ Reach(n, w)
    BY <1>1, <1>2, TopFacts
<1>6. PICK w0 \in onStack : index[w0] = lowlink[n] /\ Reach(n, w0)
    BY <1>5
<1>7. index[w0] < index[n] /\ index[w0] \in Nat /\ index[n] \in Nat
    BY <1>1, <1>2, <1>3, <1>5, <1>6
<1>8. PICK a \in 1..d : index[Node(a)] <= index[w0] /\ Reach(w0, Node(a))
    BY <1>1, <1>6 DEF TarjanInv, ReachInv
<1>9. a # d
    BY <1>2, <1>7, <1>8
<1>10. a \in 1..d - 1 /\ d - 1 \in 1..d - 1 /\ d # 1 /\ d - 1 < d
    BY <1>2, <1>9
<1>11. Off' = Off /\ Height' = Height
    BY <1>2, <1>4 DEF Off, Height
<1>12. StackInv'
    BY <1>2, <1>4, <1>11 DEF TarjanInv, StackInv
<1>13. CallInv'
  <2>1. \A i \in 1..Depth - 1 : Node(i) \in onStack'
      BY <1>1, <1>2, <1>4
  <2> QED
      BY <2>1, ReturnKeepsCalls
<1>14. ReachInv'
  <2>1. \A x, y \in onStack' : index[x] <= index[y] => Reach(x, y)
      BY <1>4 DEF TarjanInv, ReachInv
  <2>2. ASSUME NEW y \in onStack'
        PROVE  \E i \in 1..d - 1 : index[Node(i)] <= index[y] /\ Reach(y, Node(i))
    <3>1. y \in onStack /\ index[y] \in Nat
        BY <1>3, <1>4
    <3>2. PICK i \in 1..d : index[Node(i)] <= index[y] /\ Reach(y, Node(i))
        BY <1>1, <3>1 DEF TarjanInv, ReachInv
    <3>3. CASE i = d
      <4>1. index[Node(a)] <= index[y]
          BY <1>2, <1>7, <1>8, <3>1, <3>2, <3>3
      <4>2. Reach(y, Node(a))
          BY <1>2, <1>6, <1>8, <3>2, <3>3, ReachTrans
      <4> QED
          BY <1>10, <4>1, <4>2
    <3>4. CASE i # d
        BY <1>2, <3>2, <3>4
    <3> QED
        BY <3>3, <3>4
  <2>3. \A y, i : Reach(y, Node(i))' <=> Reach(y, Node(i)')
      BY <1>2 DEF Reach
  <2>4. \A i \in 1..d - 1 : index'[Node(i)'] = index[Node(i)] /\ Node(i)' = Node(i)
      BY <1>2
  <2> QED
      BY <1>2, <2>1, <2>2, <2>3, <2>4 DEF ReachInv
<1>15. OffInv'
    BY <1>2, <1>4, <1>11 DEF TarjanInv, OffInv
<1>16. LowInv'
  <2>1. ASSUME NEW i \in 1..d - 1
        PROVE  /\ lowlink'[Node(i)] <= index[Node(i)]
               /\ \E w \in onStack : index[w] = lowlink'[Node(i)] /\ Reach(Node(i), w)
               /\ \A u \in onStack : Within(i, u)' =>
                    \A w \in succs[u] \cap onStack : Seen(i, u, w)' =>
                        lowlink'[Node(i)] <= index[w]
    <3>1. i \in 1..d
        BY <1>2
    <3>2. /\ lowlink[Node(i)] <= index[Node(i)]
          /\ \E w \in onStack : index[w] = lowlink[Node(i)] /\ Reach(Node(i), w)
          /\ \A u \in onStack : Within(i, u) =>
               \A w \in succs[u] \cap onStack : Seen(i, u, w) => lowlink[Node(i)] <= index[w]
        BY <1>1, <3>1 DEF TarjanInv, LowInv
    <3>3. CASE i < d - 1
      <4>1. i + 1 \in 1..d - 1 /\ Node(i + 1)' = Node(i + 1) /\ i < d
          BY <1>2, <3>3
      <4>2. \A u : Within(i, u)' <=> Within(i, u)
          BY <1>1, <1>2, <1>4, <3>3, <4>1 DEF Within, Node
      <4>3. \A u, w : Seen(i, u, w)' <=> Seen(i, u, w)
          BY <1>1, <1>2, <3>3, <4>1 DEF Seen, Node
      <4> QED
          BY <1>2, <3>2, <3>3, <4>2, <4>3
    <3>4. CASE i = d - 1
      <4>1. /\ lowlink'[Node(i)] = Least(lowlink[n], lowlink[Node(i)])
            /\ lowlink[n] \in Nat /\ lowlink[Node(i)] \in Nat \cup {-1}
          BY <1>2, <1>6, <1>7, <1>10, <3>1, <3>4
      <4>2. /\ lowlink'[Node(i)] <= lowlink[n] /\ lowlink'[Node(i)] <= lowlink[Node(i)]
            /\ lowlink'[Node(i)] \in {lowlink[n], lowlink[Node(i)]}
            /\ lowlink'[Node(i)] \in Int
          BY <4>1 DEF Least
      <4>3. lowlink'[Node(i)] <= index[Node(i)]
          BY <1>2, <3>1, <3>2, <4>1, <4>2
      <4>4. Reach(Node(i), n)
          BY <1>1, <1>2, <3>1, <3>4 DEF TarjanInv, CallInv
      <4>5. \E w \in onStack : index[w] = lowlink'[Node(i)] /\ Reach(Node(i), w)
          BY <1>6, <3>2, <4>2, <4>4, ReachTrans
      <4>6. ASSUME NEW u \in onStack, Within(i, u)', NEW w \in succs[u] \cap onStack,
                   Seen(i, u, w)'
            PROVE  lowlink'[Node(i)] <= index[w]
        <5>1. index[u] \in Nat /\ index[w] \in Nat
            BY <1>3, <4>6
        <5>2. CASE index[n] <= index[u]
          <6>1. lowlink[n] <= index[w]
              BY <1>5, <4>6, <5>2 DEF Above
          <6> QED
              BY <4>1, <4>2, <5>1, <6>1
        <5>3. CASE index[u] < index[n]
          <6>1. i + 1 = d /\ index[Node(i)] <= index[u]
              BY <1>2, <3>4, <4>6 DEF Within, Node
          <6>2. Within(i, u)
              BY <1>1, <1>2, <5>3, <6>1 DEF Within
          <6>3. CASE u = Node(i) /\ w = n
              BY <1>5, <1>7, <4>1, <4>2, <6>3
          <6>4. CASE ~(u = Node(i) /\ w = n)
            <7>1. u = Node(i) => w \notin calls[i].todo
                BY <1>2, <4>6 DEF Seen, Node
            <7>2. Seen(i, u, w)
                BY <1>1, <1>2, <6>1, <6>4, <7>1 DEF Seen
            <7>3. lowlink[Node(i)] <= index[w]
                BY <3>2, <4>6, <6>2, <7>2
            <7> QED
                BY <4>1, <4>2, <5>1, <7>3
          <6> QED
              BY <6>3, <6>4
        <5> QED
            BY <1>7, <5>1, <5>2, <5>3
      <4> QED
          BY <4>3, <4>5, <4>6
    <3> QED
        BY <1>2, <3>3, <3>4
  <2>2. \A i, w : Reach(Node(i), w)' <=> Reach(Node(i)', w)
      BY <1>2 DEF Reach
  <2>3. /\ \A i \in 1..d - 1 : index'[Node(i)'] = index[Node(i)]
        /\ \A i \in 1..d - 1 : lowlink'[Node(i)'] = lowlink'[Node(i)] /\ Node(i)' = Node(i)
      BY <1>2
  <2> QED
      BY <1>2, <1>4, <2>1, <2>2, <2>3 DEF LowInv
<1> QED
    BY <1>12, <1>13, <1>14, <1>15, <1>16 DEF TarjanInv

-----------------------------------------------------------------------------
(***************************************************************************)
(* The rounds.                                                             *)
(***************************************************************************)

\* A round starts with nothing visited.
LEMMA RoundStarts ==
    ASSUME TypeOK', calls' = <<>>, stack' = <<>>, onStack' = {}, sccs' = {},
           \A b \in nodes' : index'[b] = -1
    PROVE  TarjanInv'
<1>1. Depth' = 0 /\ Height' = 0
    BY DEF Depth, Height
<1>2. \A i \in 1..0 : FALSE
    OBVIOUS
<1>3. Visited' = {} /\ Off' = {}
    BY DEF Visited, Off
<1>4. StackInv'
    BY <1>1, <1>2, <1>3 DEF StackInv
<1>5. CallInv'
    BY <1>1, <1>2, <1>3 DEF CallInv
<1>6. ReachInv'
    BY DEF ReachInv
<1>7. OffInv'
  <2>1. \A C \in Components(succs', nodes') : C # {}
    <3> SUFFICES ASSUME {} \in Components(succs', nodes') PROVE FALSE
        OBVIOUS
    <3>1. nodes' \in SUBSET Blocks
        BY DEF TypeOK
    <3> QED
        BY <3>1, ComponentPaths, FS_EmptySet
  <2> QED
      BY <1>3, <2>1 DEF OffInv
<1>8. LowInv'
    BY <1>1, <1>2 DEF LowInv
<1> QED
    BY <1>4, <1>5, <1>6, <1>7, <1>8 DEF TarjanInv

\* When a search is over, the stack is empty and every block has left it.
LEMMA SearchEnds ==
    ASSUME TypeOK, GraphInv, TarjanInv, SearchDone
    PROVE  calls = <<>> /\ stack = <<>> /\ onStack = {} /\ sccs = Components(succs, nodes)
<1>1. calls = <<>> /\ Depth = 0
    BY DEF SearchDone, Depth
<1>2. onStack = {}
    BY <1>1 DEF TarjanInv, ReachInv
<1>3. Height \in Nat /\ \A i \in 1..Height : stack[i] \in onStack
    BY StackFacts DEF TarjanInv
<1>4. Height = 0
    BY <1>2, <1>3
<1>5. stack = <<>>
    BY <1>4, EmptySeq DEF TypeOK, Height
<1>6. Off = nodes
    BY <1>2 DEF SearchDone, Off, Visited
<1>7. nodes \in SUBSET Blocks /\ \A C \in Components(succs, nodes) : C \subseteq nodes
  <2>1. nodes \in SUBSET Blocks
      BY DEF TypeOK
  <2> QED
      BY <2>1, ComponentPaths
<1>8. sccs = {C \in Components(succs, nodes) : C \subseteq nodes}
    BY <1>6 DEF TarjanInv, OffInv
<1>9. sccs = Components(succs, nodes)
    BY <1>7, <1>8
<1> QED
    BY <1>1, <1>2, <1>5, <1>9

\* Taking out the base of one component leaves the others as they are.
LEMMA ProcessLoopKeeps == TypeOK /\ GraphInv /\ RestInv /\ ProcessLoop => RestInv'
<1> SUFFICES ASSUME TypeOK, GraphInv, RestInv, ProcessLoop PROVE RestInv'
    OBVIOUS
<1>1. UNCHANGED tarjanVars
    BY DEF ProcessLoop
<1>2. PICK scc \in sccs : \E base \in scc :
         /\ scc \in Components(succs, nodes) /\ scc \subseteq nodes /\ base \in Blocks
         /\ nodes' = nodes \ {base} /\ sccs' = sccs \ {scc}
    BY ProcessLoopEffect
<1>3. PICK base \in scc : nodes' = nodes \ {base} /\ sccs' = sccs \ {scc}
    BY <1>2
<1>4. nodes \in SUBSET Blocks /\ nodes' \in SUBSET nodes
    BY <1>3 DEF TypeOK
<1>5. GraphInv'
    BY GraphInvStep DEF Next
<1>6. succ' = succ
    BY DEF ProcessLoop
<1>7. \A a \in nodes' : succs'[a] = succs[a] \cap nodes'
    BY <1>4, <1>5, <1>6 DEF GraphInv
<1>8. base \in nodes /\ \A x \in nodes \ {base} : succs'[x] \cap nodes = (succs[x] \cap nodes) \ {base}
    BY <1>2, <1>3, <1>7
<1>9. ASSUME NEW C \in sccs' PROVE C \in Components(succs', nodes')
  <2>1. C \in Components(succs, nodes) /\ C # scc
      BY <1>3 DEF RestInv
  <2>2. base \notin C
      BY <1>2, <1>4, <2>1, ComponentsDisjoint
  <2>3. C \subseteq nodes
      BY <1>4, <2>1, ComponentPaths
  <2> QED
      BY <1>3, <1>4, <1>8, <2>1, <2>2, <2>3, ComponentKept
<1> QED
    BY <1>1, <1>9 DEF RestInv

LEMMA SearchInit == Init => SearchInv
<1> SUFFICES ASSUME Init PROVE SearchInv
    OBVIOUS
<1>1. TypeOK /\ GraphInv /\ Searching
    BY TypeInit, GraphInvInit DEF Init, Searching
<1>2. TarjanInv
  <2>1. calls = <<>> /\ stack = <<>> /\ onStack = {} /\ sccs = {} /\ \A b \in nodes : index[b] = -1
      BY DEF Init
  <2>2. Depth = 0 /\ Height = 0
      BY <2>1 DEF Depth, Height
  <2>3. \A i \in 1..0 : FALSE
      OBVIOUS
  <2>4. Visited = {} /\ Off = {}
      BY <2>1 DEF Visited, Off
  <2>5. \A C \in Components(succs, nodes) : C # {}
    <3> SUFFICES ASSUME {} \in Components(succs, nodes) PROVE FALSE
        OBVIOUS
    <3>1. nodes \in SUBSET Blocks
        BY <1>1 DEF TypeOK
    <3> QED
        BY <3>1, ComponentPaths, FS_EmptySet
  <2>6. StackInv /\ CallInv
      BY <2>1, <2>2, <2>3, <2>4 DEF StackInv, CallInv
  <2>7. ReachInv /\ OffInv /\ LowInv
      BY <2>1, <2>2, <2>3, <2>4, <2>5 DEF ReachInv, OffInv, LowInv
  <2> QED
      BY <2>6, <2>7 DEF TarjanInv
<1> QED
    BY <1>1, <1>2 DEF SearchInv, TarjanInv

LEMMA SearchStep == SearchInv /\ [Next]_vars => SearchInv'
<1> SUFFICES ASSUME SearchInv, [Next]_vars PROVE SearchInv'
    OBVIOUS
<1>1. TypeOK /\ GraphInv /\ (Searching => TarjanInv) /\ (~Searching => RestInv)
    BY DEF SearchInv, TarjanInv
<1>2. TypeOK' /\ GraphInv'
    BY <1>1, TypeStep, GraphInvStep
<1>3. SUFFICES (Searching' => TarjanInv') /\ (~Searching' => RestInv')
    BY <1>2 DEF SearchInv, TarjanInv
<1>4. CASE TraverseRoot
    BY <1>1, <1>4, RootKeeps DEF TraverseRoot, Searching
<1>5. CASE TraverseSuccessor
    BY <1>1, <1>5, SuccessorKeeps DEF TraverseSuccessor, Searching
<1>6. CASE ExamineVisited
    BY <1>1, <1>6, ExamineKeeps DEF ExamineVisited, Searching
<1>7. CASE Return
    BY <1>1, <1>7, RootReturnKeeps, InnerReturnKeeps DEF Return, Searching
<1>8. CASE LoopsFound \/ NoLoopFound
  <2>1. ~Searching' /\ UNCHANGED <<nodes, succs, calls, stack, onStack, sccs>>
      BY <1>8 DEF LoopsFound, NoLoopFound, Searching
  <2>2. Searching /\ SearchDone
      BY <1>8 DEF LoopsFound, NoLoopFound, SearchDone, Searching
  <2>3. calls = <<>> /\ stack = <<>> /\ onStack = {} /\ sccs = Components(succs, nodes)
      BY <1>1, <2>2, SearchEnds
  <2>4. RestInv
      BY <2>3 DEF RestInv
  <2> QED
      BY <2>1, <2>4 DEF RestInv
<1>9. CASE ProcessLoop
    BY <1>1, <1>9, ProcessLoopKeeps DEF ProcessLoop, Searching
<1>10. CASE NextRound
  <2>1. RestInv /\ Searching'
      BY <1>1, <1>10 DEF NextRound, Searching
  <2>2. /\ calls' = <<>> /\ stack' = <<>> /\ onStack' = {} /\ sccs' = {}
        /\ \A b \in nodes' : index'[b] = -1
      BY <1>1, <1>10, <2>1 DEF NextRound, RestInv, TypeOK
  <2> QED
      BY <1>2, <2>1, <2>2, RoundStarts
<1>11. CASE Done \/ UNCHANGED vars
  <2>1. UNCHANGED vars
      BY <1>11 DEF Done
  <2>2. Searching' <=> Searching
      BY <2>1 DEF vars, Searching
  <2>3. RestInv' <=> RestInv
      BY <2>1 DEF vars, RestInv
  <2>4. TarjanInv' <=> TarjanInv
      BY <2>1 DEF vars, TarjanInv, StackInv, CallInv, ReachInv, OffInv, LowInv, Reach, Within,
         Seen, Off, Visited, Depth, Height, Node
  <2> QED
      BY <1>1, <2>2, <2>3, <2>4
<1> QED
    BY <1>4, <1>5, <1>6, <1>7, <1>8, <1>9, <1>10, <1>11 DEF Next

LEMMA SearchInvariant == Spec => []SearchInv
    BY SearchInit, SearchStep, PTL DEF Spec

\* Tarjan's algorithm as traverse writes it is correct in every round: when no
\* block is left to start from, sccs holds the strongly connected components of
\* two blocks or more, and nothing else, in whatever order roots and successors
\* were taken.
THEOREM SearchFindsAllComponents == Spec => []SearchFindsComponents
<1>1. SearchInv => SearchFindsComponents
  <2> SUFFICES ASSUME SearchInv, SearchDone PROVE sccs = Components(succs, nodes)
      BY DEF SearchFindsComponents
  <2>1. TypeOK /\ GraphInv /\ TarjanInv
      BY DEF SearchInv, TarjanInv, SearchDone, Searching
  <2> QED
      BY <2>1, SearchEnds
<1> QED
    BY <1>1, SearchInvariant, PTL

-----------------------------------------------------------------------------
(***************************************************************************)
(* Bases.                                                                  *)
(***************************************************************************)

\* No cycle of the function floats free of the other blocks.  The blocks of a
\* loop the IR builder makes are entered by the branch it puts before the loop,
\* whether or not that branch is reached.
EveryLoopIsEntered ==
    \A g \in CFGs : \A C \in Components(g, Blocks) : \E b \in C : PreBlocks(g, b) \ C # {}

\* No branch is dead: every block that has one can be reached.
EveryBranchIsReached ==
    \A g \in CFGs : \A b \in Blocks : g[b] # {} => IsReachable(g, b)

\* Then the loops are entered: the entry is in no component, and the blocks
\* outside a component with no edge into it are closed.
LEMMA ReachedLoopsAreEntered == EveryBranchIsReached => EveryLoopIsEntered
<1> SUFFICES ASSUME EveryBranchIsReached PROVE EveryLoopIsEntered
    OBVIOUS
<1> SUFFICES ASSUME NEW g \in CFGs, NEW C \in Components(g, Blocks),
                    \A b \in C : PreBlocks(g, b) \subseteq C
             PROVE  FALSE
    BY DEF EveryLoopIsEntered
<1>1. /\ C \subseteq Blocks /\ IsFiniteSet(C) /\ Cardinality(C) > 1
      /\ \A a, b \in C : Path(g, Blocks, a, b)
    BY ComponentPaths
<1>2. PICK c \in C : TRUE
    BY <1>1, FS_EmptySet
<1>3. Entry \notin C
  <2> SUFFICES ASSUME Entry \in C PROVE FALSE
      OBVIOUS
  <2>1. Path(g, Blocks, Entry, Entry)
      BY <1>1
  <2>2. \A b \in Blocks : g[b] \subseteq Blocks \ {Entry}
      BY GraphType
  <2>3. Blocks \ {Entry} \in SUBSET Blocks /\ Entry \in Blocks
      BY BlocksAssumption DEF BlocksAssumption
  <2>4. Entry \in Blocks \ {Entry}
      BY <2>1, <2>2, <2>3 DEF Path
  <2> QED
      BY <2>4
<1>4. \A x \in Blocks \ C : g[x] \subseteq Blocks \ C
  <2> SUFFICES ASSUME NEW x \in Blocks \ C, NEW y \in g[x] PROVE y \in Blocks \ C
      OBVIOUS
  <2>1. y \in Blocks
      BY GraphType
  <2>2. y \in C => x \in PreBlocks(g, y)
      BY DEF PreBlocks
  <2> QED
      BY <2>1, <2>2
<1>5. Entry \in Blocks \ C
    BY <1>3, BlocksAssumption DEF BlocksAssumption
<1>6. Blocks \ C \in SUBSET Blocks /\ IsReachable(g, c)
  <2>1. g[c] # {}
      BY <1>1, <1>2, PathFirst
  <2> QED
      BY <1>1, <1>2, <2>1 DEF EveryBranchIsReached
<1>7. c \in Blocks \ C
    BY <1>4, <1>5, <1>6, ReachableInClosed
<1> QED
    BY <1>2, <1>7

\* find_loop_base never returns the nullptr that run would dereference: every
\* component to be processed has a block entered from outside it or a successor
\* of a base taken out before, whatever was taken out.
THEOREM BaseAlwaysExists ==
    ASSUME EveryLoopIsEntered
    PROVE  Spec => []BaseExists
<1>1. ASSUME SearchInv PROVE BaseExists
  <2> SUFFICES ASSUME pc = "loops", NEW D \in sccs PROVE BaseChoices(D) # {}
      BY DEF BaseExists
  <2>1. TypeOK /\ GraphInv /\ RestInv
      BY <1>1 DEF SearchInv, Searching
  <2>2. D \in Components(succs, nodes) /\ nodes \in SUBSET Blocks /\ succ \in CFGs
      BY <2>1 DEF RestInv, TypeOK
  <2>3. /\ D \subseteq nodes /\ Cardinality(D) > 1 /\ IsFiniteSet(D)
        /\ \A a, b \in D : Path(succs, nodes, a, b)
      BY <2>2, ComponentPaths
  <2>4. PICK d \in D : TRUE
      BY <2>3, FS_EmptySet
  <2>5. \E y \in D : \E x \in Blocks \ D : y \in succ[x]
    <3> SUFFICES ASSUME \A x \in Blocks \ D : \A y \in D : y \notin succ[x] PROVE FALSE
        OBVIOUS
    <3>1. \A b \in Blocks : succ[b] \subseteq Blocks
        BY <2>2, GraphType
    <3>2. \A a \in nodes : succs[a] \subseteq succ[a]
        BY <2>1 DEF GraphInv
    <3>3. \A a, b \in D : Path(succ, Blocks, a, b)
      <4> SUFFICES ASSUME NEW a \in D, NEW b \in D PROVE Path(succ, Blocks, a, b)
          OBVIOUS
      <4>1. Path(succs, nodes, a, b) /\ succs[a] \cap nodes \subseteq succ[a]
            /\ \A x \in nodes : succs[x] \cap nodes \subseteq succ[x]
          BY <2>3, <3>2
      <4> QED
          BY <2>2, <4>1, PathOfPart
    <3>4. ASSUME NEW b \in Blocks, Path(succ, Blocks, b, d) PROVE b \in D
      <4> SUFFICES ASSUME b \notin D PROVE FALSE
          OBVIOUS
      <4>1. \A x \in Blocks \ D : succ[x] \cap Blocks \subseteq Blocks \ D
          OBVIOUS
      <4>2. Blocks \ D \in SUBSET Blocks /\ b \in Blocks \ D
          OBVIOUS
      <4>3. d \in Blocks \ D
          BY <3>4, <4>1, <4>2, PathInClosed
      <4> QED
          BY <4>3
    <3>5. D \in SUBSET Blocks
        BY <2>2, <2>3
    <3>6. D \in Components(succ, Blocks)
        BY <2>3, <3>3, <3>4, <3>5, ComponentIf
    <3>7. PICK b \in D : PreBlocks(succ, b) \ D # {}
        BY <2>2, <3>6, EveryLoopIsEntered DEF EveryLoopIsEntered
    <3> QED
        BY <3>7 DEF PreBlocks
  <2>6. PICK y \in D : \E x \in Blocks \ D : y \in succ[x]
      BY <2>5
  <2>7. PICK x \in Blocks \ D : y \in succ[x]
      BY <2>6
  <2>8. CASE x \in nodes
    <3>1. x \in prevs[y]
        BY <2>1, <2>3, <2>8, <2>7 DEF GraphInv, PreBlocks
    <3> QED
        BY <3>1 DEF BaseChoices, EnteredFromOutside
  <2>9. CASE x \notin nodes
    <3>1. x \in reserved /\ y \in succs[x]
        BY <2>1, <2>3, <2>9, <2>7 DEF GraphInv
    <3> QED
        BY <3>1 DEF BaseChoices, AfterReserved
  <2> QED
      BY <2>8, <2>9
<1>2. SearchInv => BaseExists
    BY <1>1
<1> QED
    BY <1>2, SearchInvariant, PTL

-----------------------------------------------------------------------------
(***************************************************************************)
(* The loops found.                                                        *)
(***************************************************************************)
Mutual(x, y) == Path(succs, nodes, x, y) /\ Path(succs, nodes, y, x)

\* The loops are disjoint or nested, and no cycle of what is left crosses the
\* border of one: a component found later lies inside it or outside.
NestInv ==
    /\ \A a \in Bases : a \notin nodes
    /\ \A a, b \in Bases : \/ base2loop[a] \cap base2loop[b] = {}
                           \/ base2loop[a] \subseteq base2loop[b]
                           \/ base2loop[b] \subseteq base2loop[a]
    /\ \A a \in Bases : \A x \in nodes \cap base2loop[a] : \A y \in nodes \ base2loop[a] : ~Mutual(x, y)

\* The entry of bb2base is the smallest loop around the block.
InnerInv ==
    \A b \in Blocks :
        /\ bb2base[b] = Null => \A a \in Bases : b \notin base2loop[a]
        /\ bb2base[b] # Null => /\ bb2base[b] \in Bases /\ b \in base2loop[bb2base[b]]
                                /\ \A a \in Bases : b \in base2loop[a] =>
                                       base2loop[bb2base[b]] \subseteq base2loop[a]

LoopInv == SearchInv /\ NestInv /\ InnerInv

LEMMA NestStep == SearchInv /\ NestInv /\ InnerInv /\ ProcessLoop => NestInv' /\ InnerInv'
<1> SUFFICES ASSUME SearchInv, NestInv, InnerInv, ProcessLoop PROVE NestInv' /\ InnerInv'
    OBVIOUS
<1>1. TypeOK /\ GraphInv /\ RestInv
    BY DEF SearchInv, Searching, ProcessLoop
<1>2. PICK scc \in sccs : \E base \in scc :
         /\ scc \in Components(succs, nodes) /\ scc \subseteq nodes /\ base \in Blocks
         /\ nodes' = nodes \ {base}
         /\ base2loop' = [base2loop EXCEPT ![base] = scc]
         /\ bb2base' = [b \in Blocks |-> IF b \in scc THEN base ELSE bb2base[b]]
    BY <1>1, ProcessLoopEffect
<1>3. PICK base \in scc :
         /\ base \in Blocks /\ nodes' = nodes \ {base}
         /\ base2loop' = [base2loop EXCEPT ![base] = scc]
         /\ bb2base' = [b \in Blocks |-> IF b \in scc THEN base ELSE bb2base[b]]
    BY <1>2
<1>4. nodes \in SUBSET Blocks /\ nodes' \in SUBSET nodes /\ base \in nodes /\ scc \in SUBSET Blocks
    BY <1>1, <1>2, <1>3 DEF TypeOK
<1>5. /\ Bases' = Bases \cup {base} /\ base \notin Bases
      /\ base2loop'[base] = scc /\ \A a \in Bases : base2loop'[a] = base2loop[a]
  <2>1. base \notin Bases
      BY <1>4 DEF NestInv
  <2>2. base2loop'[base] = scc /\ \A a \in Blocks : a # base => base2loop'[a] = base2loop[a]
      BY <1>1, <1>3 DEF TypeOK
  <2> QED
      BY <1>3, <2>1, <2>2 DEF Bases
<1>6. /\ \A x, y \in scc : Path(succs, nodes, x, y)
      /\ \A x \in scc, y \in nodes : Path(succs, nodes, x, y) /\ Path(succs, nodes, y, x) => y \in scc
    BY <1>2, <1>4, ComponentPaths
<1>7. ASSUME NEW a \in Bases, NEW x \in scc \cap base2loop[a] PROVE scc \subseteq base2loop[a]
  <2> SUFFICES ASSUME NEW y \in scc, y \notin base2loop[a] PROVE FALSE
      OBVIOUS
  <2>1. Mutual(x, y) /\ x \in nodes \cap base2loop[a] /\ y \in nodes \ base2loop[a]
      BY <1>2, <1>6, <1>7 DEF Mutual
  <2> QED
      BY <2>1 DEF NestInv
<1>8. ASSUME NEW x \in nodes', NEW y \in nodes', Mutual(x, y)' PROVE Mutual(x, y)
  <2>1. GraphInv' /\ succ' = succ
      BY <1>1, GraphInvStep DEF Next, ProcessLoop
  <2>2. \A z \in nodes' : succs'[z] = succs[z] \cap nodes'
      BY <1>1, <1>3, <2>1 DEF GraphInv
  <2>3. Path(succs', nodes', x, y) /\ Path(succs', nodes', y, x)
      BY <1>8 DEF Mutual
  <2>4. Path(succs, nodes, x, y)
      BY <1>4, <2>2, <2>3, PathOfPart
  <2>5. Path(succs, nodes, y, x)
      BY <1>4, <2>2, <2>3, PathOfPart
  <2> QED
      BY <2>4, <2>5 DEF Mutual
<1>9. NestInv'
  <2>1. \A a \in Bases' : a \notin nodes'
      BY <1>3, <1>5 DEF NestInv
  <2>2. ASSUME NEW a \in Bases
        PROVE  base2loop[a] \cap scc = {} \/ scc \subseteq base2loop[a]
      BY <1>7
  <2>3. \A a, b \in Bases' : \/ base2loop'[a] \cap base2loop'[b] = {}
                             \/ base2loop'[a] \subseteq base2loop'[b]
                             \/ base2loop'[b] \subseteq base2loop'[a]
    <3> SUFFICES ASSUME NEW a \in Bases', NEW b \in Bases'
                 PROVE  \/ base2loop'[a] \cap base2loop'[b] = {}
                        \/ base2loop'[a] \subseteq base2loop'[b]
                        \/ base2loop'[b] \subseteq base2loop'[a]
        OBVIOUS
    <3>1. CASE a \in Bases /\ b \in Bases
        BY <1>5, <3>1 DEF NestInv
    <3>2. CASE a = base
        BY <1>5, <2>2, <3>2
    <3>3. CASE b = base
        BY <1>5, <2>2, <3>3
    <3> QED
        BY <1>5, <3>1, <3>2, <3>3
  <2>4. ASSUME NEW a \in Bases', NEW x \in nodes' \cap base2loop'[a],
               NEW y \in nodes' \ base2loop'[a], Mutual(x, y)'
        PROVE  FALSE
    <3>1. Mutual(x, y) /\ x \in nodes /\ y \in nodes
        BY <1>4, <1>8, <2>4
    <3>2. CASE a = base
        BY <1>5, <1>6, <2>4, <3>1, <3>2 DEF Mutual
    <3>3. CASE a # base
        BY <1>5, <2>4, <3>1, <3>3 DEF NestInv
    <3> QED
        BY <3>2, <3>3
  <2> QED
      BY <2>1, <2>3, <2>4 DEF NestInv
<1>10. InnerInv'
  <2> SUFFICES ASSUME NEW b \in Blocks
               PROVE  /\ bb2base'[b] = Null => \A a \in Bases' : b \notin base2loop'[a]
                      /\ bb2base'[b] # Null =>
                           /\ bb2base'[b] \in Bases' /\ b \in base2loop'[bb2base'[b]]
                           /\ \A a \in Bases' : b \in base2loop'[a] =>
                                  base2loop'[bb2base'[b]] \subseteq base2loop'[a]
      BY DEF InnerInv
  <2>1. CASE b \in scc
    <3>1. bb2base'[b] = base /\ base # Null
        BY <1>3, <2>1, BlocksAssumption DEF BlocksAssumption
    <3>2. \A a \in Bases : b \in base2loop[a] => scc \subseteq base2loop[a]
        BY <1>7, <2>1
    <3> QED
        BY <1>5, <2>1, <3>1, <3>2
  <2>2. CASE b \notin scc
    <3>1. bb2base'[b] = bb2base[b]
        BY <1>3, <2>2
    <3> QED
        BY <1>5, <2>2, <3>1 DEF InnerInv
  <2> QED
      BY <2>1, <2>2
<1> QED
    BY <1>9, <1>10

LEMMA LoopInvariant == Spec => []LoopInv
<1>1. Init => NestInv /\ InnerInv
  <2> SUFFICES ASSUME Init PROVE NestInv /\ InnerInv
      OBVIOUS
  <2>1. Bases = {} /\ \A b \in Blocks : bb2base[b] = Null
      BY DEF Init, Bases
  <2> QED
      BY <2>1 DEF NestInv, InnerInv
<1>2. SearchInv /\ NestInv /\ InnerInv /\ [Next]_vars => NestInv' /\ InnerInv'
  <2> SUFFICES ASSUME SearchInv, NestInv, InnerInv, [Next]_vars, ~ProcessLoop
               PROVE  NestInv' /\ InnerInv'
      BY NestStep
  <2>1. UNCHANGED <<nodes, succs, base2loop, bb2base>>
      BY GraphFrame
  <2> QED
      BY <2>1 DEF NestInv, InnerInv, Bases, Mutual
<1> QED
    BY <1>1, <1>2, SearchInvariant, PTL DEF Spec, LoopInv

\* Whatever the graph and whichever base each loop gets, two loops are disjoint
\* or nested and get_inner_loop answers the innermost one around a block.
THEOREM LoopsNest == Spec => []InnerLoopIsInnermost
<1>1. ASSUME LoopInv PROVE InnerLoopIsInnermost
  <2>1. TypeOK /\ NestInv /\ InnerInv
      BY <1>1 DEF LoopInv, SearchInv
  <2>2. ASSUME NEW b \in Blocks
        PROVE  get_inner_loop(b) = Smallest({base2loop[a] : a \in Bases} \cap
                                            {l \in SUBSET Blocks : b \in l})
    <3> DEFINE L == {base2loop[a] : a \in Bases} \cap {l \in SUBSET Blocks : b \in l}
    <3>1. CASE bb2base[b] = Null
      <4>1. L = {}
          BY <2>1, <3>1 DEF InnerInv
      <4> QED
          BY <3>1, <4>1 DEF get_inner_loop, Smallest
    <3>2. CASE bb2base[b] # Null
      <4> DEFINE m == base2loop[bb2base[b]]
      <4>1. bb2base[b] \in Bases /\ b \in m /\ m \in SUBSET Blocks
          BY <2>1, <3>2 DEF InnerInv, TypeOK, Bases
      <4>2. m \in L
          BY <4>1
      <4>3. \A l \in L : m \subseteq l
          BY <2>1, <3>2 DEF InnerInv
      <4> HIDE DEF L, m
      <4>4. Smallest(L) = m
          BY <4>2, <4>3 DEF Smallest
      <4>5. get_inner_loop(b) = m
          BY <3>2 DEF get_inner_loop, m
      <4> QED
          BY <4>4, <4>5 DEF L
    <3> QED
        BY <3>1, <3>2
  <2> QED
      BY <2>1, <2>2 DEF InnerLoopIsInnermost, NestInv
<1>2. LoopInv => InnerLoopIsInnermost
    BY <1>1
<1> QED
    BY <1>2, LoopInvariant, PTL

-----------------------------------------------------------------------------
(***************************************************************************)
(* On a reducible graph the loops found are the natural loops.             *)
(***************************************************************************)

\* In a reducible graph every component of a part of it has a block that
\* dominates the others: one that no edge of the component enters but from
\* blocks it dominates.  Without one, every block would have another before it
\* on a path without edges to dominators, and some path would be a cycle.
LEMMA ComponentHasTop ==
    ASSUME NEW g \in CFGs, Reducible(g), NEW N \in SUBSET Blocks,
           NEW f, \A x \in N : f[x] \cap N = g[x] \cap N, NEW D \in Components(f, N)
    PROVE  \E h \in D : \A d \in D : Dominates(g, h, d)
<1> DEFINE forward == [a \in Blocks |-> {b \in g[a] : ~Dominates(g, b, a)}]
           before(d) == {x \in D : Path(forward, Blocks, x, d)}
<1>1. D \subseteq N /\ D \subseteq Blocks /\ IsFiniteSet(D) /\ D # {}
    BY ComponentPaths, FS_EmptySet
<1>2. \A b \in Blocks : ~Path(forward, Blocks, b, b)
    BY DEF Reducible
<1>3. PICK h \in D : \A d \in D : Cardinality(before(h)) <= Cardinality(before(d))
  <2>1. \A d \in D : IsFiniteSet(before(d)) /\ Cardinality(before(d)) \in Nat
      BY <1>1, FS_Subset, FS_CardinalityType
  <2> HIDE DEF before
  <2> DEFINE S == {Cardinality(before(d)) : d \in D}
  <2>2. S \in SUBSET Nat /\ S # {}
      BY <1>1, <2>1
  <2>3. PICK n \in S : \A m \in S : n <= m
      BY <2>2, LeastNumber
  <2> QED
      BY <2>3
<1>4. ASSUME NEW x \in D, h \in g[x] PROVE Dominates(g, h, x)
  <2> SUFFICES ASSUME ~Dominates(g, h, x) PROVE FALSE
      OBVIOUS
  <2>1. h \in forward[x] \cap Blocks
      BY <1>1, <1>4
  <2> HIDE DEF forward
  <2>2. Path(forward, Blocks, x, h)
      BY <2>1, PathEdge
  <2>3. before(x) \subseteq before(h)
      BY <2>2, PathTrans
  <2>4. x \in before(h) /\ x \notin before(x)
      BY <1>1, <1>2, <2>2
  <2>5. IsFiniteSet(before(h)) /\ IsFiniteSet(before(x))
      BY <1>1, FS_Subset
  <2> HIDE DEF before
  <2>6. /\ Cardinality(before(x)) < Cardinality(before(h))
        /\ Cardinality(before(x)) \in Nat /\ Cardinality(before(h)) \in Nat
    <3>1. before(x) # before(h)
        BY <2>4
    <3> QED
        BY <2>3, <2>5, <3>1, FS_Subset, FS_CardinalityType
  <2> QED
      BY <1>3, <2>6
<1> HIDE DEF forward, before
<1> DEFINE Z == {d \in D : ~Dominates(g, h, d)}
<1>5. SUFFICES ASSUME Z # {} PROVE FALSE
    OBVIOUS
<1>6. Z \subseteq D /\ Z # D
    BY DEF Dominates
<1>7. \A Y : Y \subseteq D /\ Y # {} /\ Y # D => \E x \in Y : \E y \in D : y \notin Y /\ y \in f[x]
    BY ComponentEdge
<1>8. PICK x \in Z, y \in D : y \notin Z /\ y \in f[x]
    BY <1>5, <1>6, <1>7
<1>9. y \in g[x] /\ x \in Blocks /\ y \in Blocks
    BY <1>1, <1>8
<1>10. CASE y = h
    BY <1>4, <1>8, <1>9, <1>10
<1>11. CASE y # h
    BY <1>1, <1>8, <1>9, <1>11, DominatesPred DEF PreBlocks, StrictlyDominates
<1> QED
    BY <1>10, <1>11

\* It is then the natural loop of that block, if the part holds the loops of
\* its headers.
LEMMA ComponentIsLoop ==
    ASSUME NEW g \in CFGs, Reducible(g), \A b \in Blocks : g[b] # {} => IsReachable(g, b),
           NEW N \in SUBSET Blocks, \A h \in Headers(g) \cap N : NaturalLoop(g, h) \subseteq N,
           NEW f, \A x \in N : f[x] \cap N = g[x] \cap N, NEW D \in Components(f, N)
    PROVE  \E h \in D \cap Headers(g) : D = NaturalLoop(g, h)
<1>1. /\ D \subseteq N /\ D \subseteq Blocks /\ IsFiniteSet(D) /\ Cardinality(D) > 1
      /\ \A a \in D, b \in N : Path(f, N, a, b) /\ Path(f, N, b, a) => b \in D
    BY ComponentPaths
<1>2. PICK h \in D : \A d \in D : Dominates(g, h, d)
    BY ComponentHasTop
<1>3. ASSUME NEW x \in D, NEW y \in D, y \in f[x] PROVE y \in g[x] /\ x \in PreBlocks(g, y)
    BY <1>1, <1>3 DEF PreBlocks
<1>4. \A Z : Z \subseteq D /\ Z # {} /\ Z # D => \E x \in Z : \E y \in D : y \notin Z /\ y \in f[x]
    BY ComponentEdge
<1>5. h \in Headers(g)
  <2>1. D \ {h} # {}
      BY <1>1, FS_Singleton
  <2>2. D \ {h} \subseteq D /\ D \ {h} # D
      OBVIOUS
  <2>3. \E x \in D \ {h} : \E y \in D : y \notin D \ {h} /\ y \in f[x]
      BY <1>4, <2>1, <2>2
  <2>4. PICK x \in D \ {h} : h \in f[x]
      BY <2>3
  <2>5. x \in Latches(g, h)
      BY <1>2, <1>3, <2>4 DEF Latches
  <2> QED
      BY <1>1, <2>5 DEF Headers
<1>6. D \subseteq NaturalLoop(g, h)
  <2> DEFINE Z == D \ NaturalLoop(g, h)
  <2> SUFFICES ASSUME Z # {} PROVE FALSE
      OBVIOUS
  <2>1. Z \subseteq D /\ h \notin Z /\ Z # D
      BY <1>5, LoopType
  <2>2. PICK x \in Z, y \in D : y \notin Z /\ y \in f[x]
    <3> HIDE DEF Z
    <3> QED
        BY <1>4, <2>1
  <2>3. x \in PreBlocks(g, y) /\ h \in Blocks
      BY <1>1, <1>3, <2>2
  <2>4. CASE y = h
    <3>1. x \in Latches(g, h)
        BY <1>2, <2>1, <2>2, <2>3, <2>4 DEF Latches
    <3> QED
        BY <1>5, <2>2, <3>1, LoopType
  <2>5. CASE y # h
      BY <2>2, <2>3, <2>5, LoopPred
  <2> QED
      BY <2>4, <2>5
<1>7. NaturalLoop(g, h) \subseteq D
  <2> SUFFICES ASSUME NEW b \in NaturalLoop(g, h), b # h PROVE b \in D
      OBVIOUS
  <2>1. NaturalLoop(g, h) \subseteq N
      BY <1>1, <1>5
  <2>2. IsReachable(g, b)
      BY <1>5, LoopReachable
  <2>3. Path(f, N, h, b) /\ Path(f, N, b, h)
      BY <1>5, <2>1, <2>2, LoopConnected
  <2> QED
      BY <1>1, <2>1, <2>3
<1> QED
    BY <1>5, <1>6, <1>7

\* As long as the pass runs, the loops recorded are the natural loops of the
\* blocks taken out, and the loops of the headers left are left as a whole.
NatInv ==
    /\ Reducible(succ) =>
         /\ \A h \in Headers(succ) \cap nodes : NaturalLoop(succ, h) \subseteq nodes
         /\ \A b \in Blocks : base2loop[b] = IF b \in Headers(succ) \ nodes
                                             THEN NaturalLoop(succ, b) ELSE {}
    /\ pc = "done" => Components(succs, nodes) = {}

LEMMA NatStep ==
    ASSUME EveryBranchIsReached, SearchInv, NatInv, ProcessLoop, Reducible(succ)
    PROVE  /\ \A h \in Headers(succ) \cap nodes' : NaturalLoop(succ, h) \subseteq nodes'
           /\ \A b \in Blocks : base2loop'[b] = IF b \in Headers(succ) \ nodes'
                                                THEN NaturalLoop(succ, b) ELSE {}
<1>1. TypeOK /\ GraphInv /\ RestInv
    BY DEF SearchInv, Searching, ProcessLoop
<1>2. PICK scc \in sccs : \E base \in scc :
         /\ base \in BaseChoices(scc)
         /\ scc \in Components(succs, nodes) /\ scc \subseteq nodes /\ base \in Blocks
         /\ nodes' = nodes \ {base} /\ base2loop' = [base2loop EXCEPT ![base] = scc]
    BY <1>1, ProcessLoopEffect
<1>3. PICK base \in scc :
         /\ base \in BaseChoices(scc) /\ base \in Blocks
         /\ nodes' = nodes \ {base} /\ base2loop' = [base2loop EXCEPT ![base] = scc]
    BY <1>2
<1>4. /\ nodes \in SUBSET Blocks /\ succ \in CFGs
      /\ \A x \in nodes : succs[x] \cap nodes = succ[x] \cap nodes
      /\ \A b \in Blocks : succ[b] # {} => IsReachable(succ, b)
    BY <1>1 DEF TypeOK, GraphInv, EveryBranchIsReached
<1>5. \A h \in Headers(succ) \cap nodes : NaturalLoop(succ, h) \subseteq nodes
    BY DEF NatInv
<1>6. PICK h \in scc \cap Headers(succ) : scc = NaturalLoop(succ, h)
    BY <1>2, <1>4, <1>5, ComponentIsLoop
<1>7. h \in Blocks /\ \A n \in scc \ {h} : PreBlocks(succ, n) \subseteq scc
    BY <1>2, <1>4, <1>6, LoopPred
<1>8. base = h
  <2> SUFFICES ASSUME base # h PROVE FALSE
      OBVIOUS
  <2>1. PreBlocks(succ, base) \subseteq scc
      BY <1>7
  <2>2. base \notin EnteredFromOutside(scc)
      BY <1>1, <1>2, <2>1 DEF EnteredFromOutside, GraphInv
  <2>3. base \notin AfterReserved(scc)
    <3> SUFFICES ASSUME NEW r \in reserved, base \in succs[r] PROVE FALSE
        BY DEF AfterReserved
    <3>1. r \in PreBlocks(succ, base) /\ r \notin nodes
        BY <1>1 DEF GraphInv, PreBlocks
    <3> QED
        BY <1>2, <2>1, <3>1
  <2> QED
      BY <1>3, <2>2, <2>3 DEF BaseChoices
<1>9. ASSUME NEW k \in Headers(succ), k \in nodes'
      PROVE  NaturalLoop(succ, k) \subseteq nodes'
  <2>1. NaturalLoop(succ, k) \subseteq nodes /\ k \in nodes /\ k # h /\ k \in Blocks
      BY <1>3, <1>4, <1>5, <1>8, <1>9
  <2>2. h \notin NaturalLoop(succ, k)
    <3> SUFFICES ASSUME h \in NaturalLoop(succ, k) PROVE FALSE
        OBVIOUS
    <3>1. IsReachable(succ, h)
        BY <1>4, <1>9, LoopReachable
    <3>2. Path(succs, nodes, k, h) /\ Path(succs, nodes, h, k)
        BY <1>4, <1>9, <2>1, <3>1, LoopConnected
    <3>3. k \in scc
        BY <1>2, <1>4, <1>6, <2>1, <3>2, ComponentPaths
    <3>4. Dominates(succ, h, k) /\ Dominates(succ, k, h)
        BY <1>4, <1>6, <1>7, <2>1, <3>3, LoopDominated
    <3> QED
        BY <1>4, <1>7, <2>1, <3>1, <3>4, DominatesBoth
  <2> QED
      BY <1>3, <1>8, <2>1, <2>2
<1>10. ASSUME NEW b \in Blocks
       PROVE  base2loop'[b] = IF b \in Headers(succ) \ nodes' THEN NaturalLoop(succ, b) ELSE {}
  <2>1. base2loop[b] = IF b \in Headers(succ) \ nodes THEN NaturalLoop(succ, b) ELSE {}
      BY DEF NatInv
  <2>2. base2loop \in [Blocks -> SUBSET Blocks]
      BY <1>1 DEF TypeOK
  <2> QED
      BY <1>3, <1>6, <1>8, <2>1, <2>2
<1> QED
    BY <1>9, <1>10

LEMMA NatInvariant ==
    ASSUME EveryBranchIsReached
    PROVE  Spec => []NatInv
<1>1. Init => NatInv
  <2> SUFFICES ASSUME Init PROVE NatInv
      OBVIOUS
  <2>1. nodes = Blocks /\ pc # "done" /\ succ \in CFGs /\ \A b \in Blocks : base2loop[b] = {}
      BY DEF Init
  <2>2. \A h \in Headers(succ) : h \in Blocks /\ NaturalLoop(succ, h) \subseteq Blocks
      BY <2>1, LoopType
  <2> QED
      BY <2>1, <2>2 DEF NatInv
<1>2. SearchInv /\ NatInv /\ [Next]_vars => NatInv'
  <2> SUFFICES ASSUME SearchInv, NatInv, [Next]_vars PROVE NatInv'
      OBVIOUS
  <2>1. CASE ProcessLoop
    <3>1. succ' = succ /\ pc' # "done"
        BY <2>1 DEF ProcessLoop
    <3> QED
        BY <2>1, <3>1, NatStep DEF NatInv
  <2>2. CASE ~ProcessLoop
    <3>1. UNCHANGED <<succ, nodes, succs, base2loop>>
        BY <2>2, GraphFrame
    <3>2. CASE NoLoopFound
      <4>1. SearchDone /\ sccs = {} /\ TypeOK /\ GraphInv /\ TarjanInv
          BY <3>2 DEF NoLoopFound, SearchInv, TarjanInv, SearchDone, Searching
      <4>2. Components(succs, nodes) = {}
          BY <4>1, SearchEnds
      <4> QED
          BY <3>1, <4>2 DEF NatInv
    <3>3. CASE ~NoLoopFound
      <4>1. pc' = "done" => pc = "done"
          BY <2>2, <3>3 DEF Next, vars, TraverseRoot, TraverseSuccessor, ExamineVisited, Return,
             LoopsFound, NextRound, Done
      <4> QED
          BY <3>1, <4>1 DEF NatInv
    <3> QED
        BY <3>2, <3>3
  <2> QED
      BY <2>1, <2>2
<1> QED
    BY <1>1, <1>2, SearchInvariant, PTL DEF Spec

\* On a reducible function the pass finds the natural loops, with their headers
\* for bases: no header is missed although every round takes blocks out of the
\* graph, and no other block becomes a base.
THEOREM NaturalLoopsAreFound ==
    ASSUME EveryBranchIsReached
    PROVE  Spec => []FindsNaturalLoops
<1>1. ASSUME SearchInv, NatInv, pc = "done", Reducible(succ),
             NEW h \in Headers(succ), h \in nodes
      PROVE  FALSE
  <2>1. TypeOK /\ GraphInv
      BY <1>1 DEF SearchInv
  <2>2. /\ nodes \in SUBSET Blocks /\ succ \in CFGs
        /\ \A x \in nodes : succs[x] \cap nodes = succ[x] \cap nodes
        /\ \A b \in Blocks : succ[b] # {} => IsReachable(succ, b)
      BY <2>1 DEF TypeOK, GraphInv, EveryBranchIsReached
  <2>3. NaturalLoop(succ, h) \subseteq nodes
      BY <1>1 DEF NatInv
  <2>4. PICK n \in NaturalLoop(succ, h) : n # h
      BY <2>2, LoopType DEF Headers
  <2>5. Path(succs, nodes, h, n) /\ Path(succs, nodes, n, h)
    <3>1. IsReachable(succ, n)
        BY <2>2, LoopReachable
    <3> QED
        BY <2>2, <2>3, <2>4, <3>1, LoopConnected
  <2> DEFINE C == {b \in nodes : b = h \/ (Path(succs, nodes, h, b) /\ Path(succs, nodes, b, h))}
  <2>6. h \in C /\ n \in C
      BY <1>1, <2>3, <2>4, <2>5
  <2>7. IsFiniteSet(C)
      BY <2>2, FS_Subset, BlocksAssumption DEF BlocksAssumption
  <2>8. Cardinality(C) > 1
    <3>1. Cardinality(C) # 1
        BY <2>4, <2>6, <2>7, FS_Singleton
    <3>2. Cardinality(C) # 0 /\ Cardinality(C) \in Nat
        BY <2>6, <2>7, FS_EmptySet, FS_CardinalityType
    <3> QED
        BY <3>1, <3>2
  <2>9. C \in Components(succs, nodes)
      BY <1>1, <2>8 DEF Components
  <2> QED
      BY <1>1, <2>9 DEF NatInv
<1>2. SearchInv /\ NatInv => FindsNaturalLoops
    BY <1>1 DEF FindsNaturalLoops, NatInv
<1> QED
    BY <1>2, SearchInvariant, NatInvariant, PTL

\* Where loops are entered by unconditional branches only, a block before a
\* loop lies in just those loops that lie around it.
LEMMA BeforeLoop ==
    ASSUME NEW g \in CFGs, \A b \in Blocks : g[b] # {} => IsReachable(g, b), EnteredByBr(g),
           NEW h \in Headers(g), NEW p \in PreBlocks(g, h) \ NaturalLoop(g, h),
           NEW x \in Headers(g),
           \/ NaturalLoop(g, x) \cap NaturalLoop(g, h) = {}
           \/ NaturalLoop(g, x) \subseteq NaturalLoop(g, h)
           \/ NaturalLoop(g, h) \subseteq NaturalLoop(g, x)
    PROVE  p \in NaturalLoop(g, x) <=> x # h /\ NaturalLoop(g, h) \subseteq NaturalLoop(g, x)
<1> DEFINE L == NaturalLoop(g, x)
<1>1. /\ h \in Blocks /\ x \in Blocks /\ x \in L /\ h \in NaturalLoop(g, h) /\ L \subseteq Blocks
      /\ \E n \in L : n # x
    BY LoopType DEF Headers
<1>2. g[p] = {h}
    BY <1>1 DEF EnteredByBr
<1>3. ASSUME p \in L PROVE h \in L
  <2>1. \A b \in L \ {x} : IsReachable(g, b)
      BY LoopReachable
  <2>2. \A b \in L \ {x} : Path(g, L, x, b) /\ Path(g, L, b, x)
    <3> SUFFICES ASSUME NEW b \in L \ {x} PROVE Path(g, L, x, b) /\ Path(g, L, b, x)
        OBVIOUS
    <3>1. L \in SUBSET Blocks /\ L \subseteq L /\ IsReachable(g, b)
        BY <1>1, <2>1
    <3> QED
        BY <3>1, LoopConnected
  <2>3. \E b : Path(g, L, p, b)
      BY <1>1, <1>3, <2>2
  <2>4. g[p] \cap L # {}
      BY <2>3, PathFirst
  <2> QED
      BY <1>2, <2>4
<1>4. ASSUME x # h, h \in L PROVE p \in L
    BY <1>1, <1>4, LoopPred
<1> QED
    BY <1>1, <1>3, <1>4

\* get_parent_loop names the loop next around a loop of a reducible function
\* whose loops are entered by unconditional branches: the answer is the same
\* whichever block before the loop is asked, and there is one to ask.
THEOREM ParentLoopsAreNextAround ==
    ASSUME EveryBranchIsReached
    PROVE  Spec => []ParentLoopIsNextAround
<1>1. ASSUME TypeOK, InnerInv, InnerLoopIsInnermost, FindsNaturalLoops,
             pc = "done", Reducible(succ), EnteredByBr(succ), NEW h \in Bases,
             NEW K, K = {base2loop[a] : a \in {x \in Bases \ {h} :
                                               base2loop[h] \subseteq base2loop[x]}}
      PROVE  get_parent_loop(h) = {Smallest(K)}
  <2>1. succ \in CFGs /\ \A b \in Blocks : succ[b] # {} => IsReachable(succ, b)
      BY <1>1 DEF TypeOK, EveryBranchIsReached
  <2>2. \A b \in Headers(succ) : b \in Blocks /\ b \in NaturalLoop(succ, b) /\ b # Entry
                                 /\ NaturalLoop(succ, b) \subseteq Blocks
      BY <2>1, LoopType
  <2>3. /\ \A b \in Bases : b \in Headers(succ) /\ base2loop[b] = NaturalLoop(succ, b)
        /\ Headers(succ) \subseteq Bases
      BY <1>1, <2>2 DEF FindsNaturalLoops, Bases
  <2>4. \A a, b \in Bases : \/ base2loop[a] \cap base2loop[b] = {}
                            \/ base2loop[a] \subseteq base2loop[b]
                            \/ base2loop[b] \subseteq base2loop[a]
      BY <1>1 DEF InnerLoopIsInnermost
  <2> DEFINE outside == PreBlocks(succ, h) \ base2loop[h]
  <2>5. outside # {}
    <3> SUFFICES ASSUME PreBlocks(succ, h) \subseteq NaturalLoop(succ, h) PROVE FALSE
        BY <2>3
    <3> DEFINE S == Blocks \ NaturalLoop(succ, h)
    <3>1. h \in Blocks /\ h \in NaturalLoop(succ, h) /\ h # Entry /\ h \in Headers(succ)
        BY <2>2, <2>3
    <3>2. Entry \in S
      <4> SUFFICES ASSUME Entry \in NaturalLoop(succ, h) PROVE FALSE
          BY BlocksAssumption DEF BlocksAssumption
      <4>1. Dominates(succ, h, Entry)
          BY <2>1, <3>1, LoopDominated
      <4> QED
          BY <3>1, <4>1, DominatesEntry
    <3>3. ASSUME NEW x \in S, NEW y \in succ[x] PROVE y \in S
      <4> SUFFICES ASSUME y \in NaturalLoop(succ, h) PROVE FALSE
          BY <2>1, <3>3, GraphType
      <4>1. x \in PreBlocks(succ, y)
          BY <3>3 DEF PreBlocks
      <4>2. y # h
          BY <3>3, <4>1
      <4>3. x \in NaturalLoop(succ, h)
          BY <2>1, <3>1, <4>1, <4>2, LoopPred
      <4> QED
          BY <3>3, <4>3
    <3>4. IsReachable(succ, h)
        BY <2>1, <3>1, LoopReachable
    <3>5. S \in SUBSET Blocks /\ \A x \in S : succ[x] \subseteq S
        BY <3>3
    <3>6. h \in S
      <4> HIDE DEF S
      <4> QED
          BY <2>1, <3>2, <3>4, <3>5, ReachableInClosed
    <3> QED
        BY <3>1, <3>6
  <2> DEFINE answer(p) == IF h \in get_inner_loop(p) THEN get_inner_loop(p) ELSE {}
  <2>6. ASSUME NEW p \in outside PROVE answer(p) = Smallest(K)
    <3>1. p \in Blocks
        BY DEF PreBlocks
    <3>2. \A x \in Bases : p \in base2loop[x] <=> x # h /\ base2loop[h] \subseteq base2loop[x]
      <4> SUFFICES ASSUME NEW x \in Bases
                   PROVE  p \in base2loop[x] <=> x # h /\ base2loop[h] \subseteq base2loop[x]
          OBVIOUS
      <4>1. x \in Headers(succ) /\ h \in Headers(succ)
            /\ base2loop[x] = NaturalLoop(succ, x) /\ base2loop[h] = NaturalLoop(succ, h)
          BY <2>3
      <4>2. p \in PreBlocks(succ, h) \ NaturalLoop(succ, h)
          BY <4>1
      <4>3. \/ NaturalLoop(succ, x) \cap NaturalLoop(succ, h) = {}
            \/ NaturalLoop(succ, x) \subseteq NaturalLoop(succ, h)
            \/ NaturalLoop(succ, h) \subseteq NaturalLoop(succ, x)
          BY <2>4, <4>1
      <4> HIDE DEF outside
      <4> QED
          BY <1>1, <2>1, <4>1, <4>2, <4>3, BeforeLoop
    <3>3. {base2loop[a] : a \in Bases} \cap {l \in SUBSET Blocks : p \in l} = K
      <4>1. \A a \in Bases : base2loop[a] \in SUBSET Blocks
          BY <1>1 DEF TypeOK, Bases
      <4>2. \A l : l \in K <=> \E a \in Bases : l = base2loop[a] /\ p \in base2loop[a]
          BY <1>1, <3>2
      <4>3. \A l : l \in {base2loop[a] : a \in Bases} \cap {m \in SUBSET Blocks : p \in m} <=>
                  \E a \in Bases : l = base2loop[a] /\ p \in base2loop[a]
          BY <4>1
      <4> QED
          BY <4>2, <4>3
    <3>4. get_inner_loop(p) = Smallest(K)
        BY <1>1, <3>1, <3>3 DEF InnerLoopIsInnermost
    <3>5. \A l \in K : h \in l
        BY <1>1, <2>2, <2>3
    <3>6. get_inner_loop(p) = {} \/ get_inner_loop(p) \in K
      <4>1. CASE bb2base[p] = Null
          BY <4>1 DEF get_inner_loop
      <4>2. CASE bb2base[p] # Null
        <5>1. bb2base[p] \in Bases /\ p \in base2loop[bb2base[p]]
            BY <1>1, <3>1, <4>2 DEF InnerInv
        <5> QED
            BY <1>1, <3>2, <4>2, <5>1 DEF get_inner_loop
      <4> QED
          BY <4>1, <4>2
    <3> QED
        BY <3>4, <3>5, <3>6
  <2>7. get_parent_loop(h) = IF outside = {} THEN {{}} ELSE {answer(p) : p \in outside}
      BY DEF get_parent_loop
  <2> HIDE DEF outside, answer
  <2> QED
      BY <2>5, <2>6, <2>7
<1>2. LoopInv /\ InnerLoopIsInnermost /\ FindsNaturalLoops => ParentLoopIsNextAround
    BY <1>1 DEF LoopInv, SearchInv, ParentLoopIsNextAround
<1>3. Spec => []FindsNaturalLoops
    BY NaturalLoopsAreFound
<1> QED
    BY <1>2, <1>3, LoopInvariant, LoopsNest, PTL
=============================================================================
