--------------------------- MODULE DominatorsProofs ---------------------------
(***************************************************************************)
(* Theorems about Dominators, for every function and every graph: its      *)
(* variables keep their types, the asserts of create_idom and intersect    *)
(* hold, idom always climbs in the post order numbering, and reverse post  *)
(* order, the immediate dominators, the dominance frontiers and the        *)
(* dominator tree it computes are what ControlFlow defines.                *)
(*                                                                         *)
(* With the idoms of the invariant, following idom from a block meets      *)
(* exactly its dominators: idom is the immediate one, the runners of       *)
(* create_dominance_frontier collect the frontiers and the dominator tree  *)
(* spans what it should.                                                   *)
(***************************************************************************)
EXTENDS Dominators, ControlFlowProofs

USE DEF MaybeBlock, dfsVars, idomVars, dfVars

\* Reversing a sequence.
LEMMA ReverseSeq ==
    ASSUME NEW S, NEW s \in Seq(S)
    PROVE  /\ Reverse(s) \in Seq(S)
           /\ Len(Reverse(s)) = Len(s)
           /\ \A i \in 1..Len(s) : Reverse(s)[i] = s[(Len(s) - i) + 1]
<1>1. Len(s) \in Nat
    BY LenProperties
<1>2. \A i \in 1..Len(s) : s[(Len(s) - i) + 1] \in S
    BY <1>1, ElementOfSeq
<1> QED
    BY <1>1, <1>2 DEF Reverse

LEMMA SuccType ==
    ASSUME TypeOK, NEW b \in Blocks
    PROVE  succ[b] \subseteq Blocks \ {Entry}
    BY BlocksAssumption DEF TypeOK, BlocksAssumption

-----------------------------------------------------------------------------
\* TypeOK is not inductive by itself: the block put into a frontier is bb, which
\* is a block, and not nullptr, as long as a join block is being worked on.
TypeInv ==
    /\ TypeOK
    /\ (pc = "runner" \/ joinPreds # {}) => bb \in Blocks

LEMMA TypeInvInit == Init => TypeInv
<1> SUFFICES ASSUME Init PROVE TypeInv
    OBVIOUS
<1>1. stack \in Seq(Blocks) /\ reverse_post_order \in Seq(Blocks)
    BY BlocksAssumption, EmptySeq DEF Init, BlocksAssumption
<1>2. /\ post_order_id \in [Blocks -> Nat]
      /\ idom \in [MaybeBlock -> MaybeBlock]
      /\ dom_frontier \in [MaybeBlock -> SUBSET Blocks]
      /\ dom_tree_succ \in [MaybeBlock -> SUBSET Blocks]
    BY DEF Init
<1>3. visited \subseteq Blocks
    BY BlocksAssumption DEF Init, BlocksAssumption
<1>4. changed \in BOOLEAN
    BY DEF Init
<1> QED
    BY <1>1, <1>2, <1>3, <1>4 DEF Init, TypeOK, TypeInv

LEMMA TypeInvStep == TypeInv /\ [Next]_vars => TypeInv'
<1> SUFFICES ASSUME TypeInv, [Next]_vars PROVE TypeInv'
    OBVIOUS
<1> USE BlocksAssumption DEF BlocksAssumption, TypeInv
<1>1. CASE VisitSuccessor
  <2>1. Last(stack) \in Blocks
      BY <1>1, FrontLast DEF VisitSuccessor, TypeOK
  <2>2. PICK b \in Blocks : visited' = visited \cup {b} /\ stack' = Append(stack, b)
      BY <1>1, <2>1, SuccType DEF VisitSuccessor
  <2> QED
      BY <1>1, <2>2 DEF VisitSuccessor, TypeOK
<1>2. CASE FinishVisit
  <2>1. Last(stack) \in Blocks /\ Front(stack) \in Seq(Blocks)
      BY <1>2, FrontLast DEF FinishVisit, TypeOK
  <2>2. Append(reverse_post_order, Last(stack)) \in Seq(Blocks)
      BY <2>1 DEF TypeOK
  <2>3. [post_order_id EXCEPT ![Last(stack)] = Len(reverse_post_order)] \in [Blocks -> Nat]
      BY <2>1 DEF TypeOK
  <2> QED
      BY <1>2, <2>1, <2>2, <2>3 DEF FinishVisit, TypeOK
<1>3. CASE StartIdom
  <2>1. Reverse(reverse_post_order) \in Seq(Blocks)
      BY ReverseSeq DEF TypeOK
  <2>2. changed' \in BOOLEAN
      BY <1>3 DEF StartIdom
  <2>3. [b \in MaybeBlock |-> IF b = Entry THEN Entry ELSE Null] \in [MaybeBlock -> MaybeBlock]
      OBVIOUS
  <2> QED
      BY <1>3, <2>1, <2>2, <2>3 DEF StartIdom, TypeOK
<1>4. CASE SkipRoot
    BY <1>4 DEF SkipRoot, TypeOK
<1>5. CASE PickPred
    BY <1>5 DEF PickPred, TypeOK, PredsWithIdom, Pre, PreBlocks
<1>6. CASE CallIntersect
    BY <1>6 DEF CallIntersect, TypeOK
<1>7. CASE ClimbB1
    BY <1>7 DEF ClimbB1, TypeOK
<1>8. CASE ClimbB2
    BY <1>8 DEF ClimbB2, TypeOK
<1>9. CASE ReturnIntersect
    BY <1>9 DEF ReturnIntersect, TypeOK
<1>10. CASE SetIdom
  <2>1. [idom EXCEPT ![Current] = new_idom] \in [MaybeBlock -> MaybeBlock]
      BY DEF TypeOK
  <2>2. pos + 1 \in Nat \ {0}
      BY DEF TypeOK
  <2>3. changed' \in BOOLEAN
      BY <1>10 DEF SetIdom
  <2>4. /\ pc' = "create_idom" /\ pos' = pos + 1
        /\ idom' = [idom EXCEPT ![Current] = new_idom]
        /\ UNCHANGED <<succ, dfsVars, rest, new_idom, b1, dfVars, dom_tree_succ>>
      BY <1>10 DEF SetIdom
  <2> QED
      BY <2>1, <2>2, <2>3, <2>4 DEF TypeOK
<1>11. CASE NextPass
  <2>1. changed' \in BOOLEAN
      BY <1>11 DEF NextPass
  <2>2. /\ pos' = 1
        /\ UNCHANGED <<succ, pc, dfsVars, idom, rest, new_idom, b1, dfVars, dom_tree_succ>>
      BY <1>11 DEF NextPass
  <2> QED
      BY <2>1, <2>2 DEF TypeOK
<1>12. CASE StartFrontier
    BY <1>12 DEF StartFrontier, TypeOK, Joins
<1>13. CASE NextJoin
    BY <1>13 DEF NextJoin, TypeOK, Pre, PreBlocks
<1>14. CASE StartRunner
    BY <1>14 DEF StartRunner, TypeOK
<1>15. CASE MoveRunner
  <2>1. [dom_frontier EXCEPT ![runner] = @ \cup {bb}] \in [MaybeBlock -> SUBSET Blocks]
      BY <1>15 DEF MoveRunner, TypeOK
  <2> QED
      BY <1>15, <2>1 DEF MoveRunner, TypeOK
<1>16. CASE RunnerDone
    BY <1>16 DEF RunnerDone, TypeOK
<1>17. CASE CreateDomTreeSucc
    BY <1>17 DEF CreateDomTreeSucc, TypeOK
<1>18. CASE Done \/ UNCHANGED vars
    BY <1>18 DEF Done, vars, TypeOK
<1> QED
    BY <1>1, <1>2, <1>3, <1>4, <1>5, <1>6, <1>7, <1>8, <1>9, <1>10, <1>11, <1>12,
       <1>13, <1>14, <1>15, <1>16, <1>17, <1>18 DEF Next

\* The variables of Dominators keep their types whatever the graph; so does a
\* runner that has left the tree, since nullptr is a key of the maps too.
THEOREM TypeCorrect == Spec => []TypeOK
<1>1. TypeInv => TypeOK
    BY DEF TypeInv
<1> QED
    BY <1>1, TypeInvInit, TypeInvStep, PTL DEF Spec

-----------------------------------------------------------------------------
(***************************************************************************)
(* The inductive invariant of the asserts.                                 *)
(***************************************************************************)
InWalk == pc = "post_order_visit"
Size == Len(reverse_post_order)
Ordered(b) == \E i \in 1..Size : reverse_post_order[i] = b
HasIdom(b) == b \in Blocks /\ idom[b] # Null

\* During the walk, every finished block has the number of its place, the
\* stack is a path from the entry whose blocks are visited and not finished,
\* and a finished block has a predecessor that is still active or finished
\* later: the caller of its visit.
WalkInv == InWalk =>
    /\ \A i \in 1..Size :
         /\ reverse_post_order[i] \in visited
         /\ post_order_id[reverse_post_order[i]] = i - 1
    /\ \A i \in 1..Len(stack) : stack[i] \in visited /\ ~Ordered(stack[i])
    /\ \A i, j \in 1..Len(stack) : i # j => stack[i] # stack[j]
    /\ \A i \in 1..Len(stack) - 1 : stack[i + 1] \in succ[stack[i]]
    /\ Entry \in visited
    /\ stack # <<>> => stack[1] = Entry
    /\ stack = <<>> => Ordered(Entry)
    /\ \A i \in 1..Size : reverse_post_order[i] # Entry =>
         \/ \E k \in 1..Len(stack) : reverse_post_order[i] \in succ[stack[k]]
         \/ \E k \in i + 1..Size : reverse_post_order[i] \in succ[reverse_post_order[k]]

\* After the walk, numbers fall along reverse post order and every block but
\* the entry has a predecessor that comes earlier.
OrderInv == ~InWalk =>
    /\ \A i \in 1..Size : post_order_id[reverse_post_order[i]] = Size - i
    /\ Ordered(Entry)
    /\ \A i \in 1..Size : reverse_post_order[i] # Entry =>
         \E k \in 1..i - 1 : reverse_post_order[i] \in succ[reverse_post_order[k]]

\* A block with an idom is ordered, its idom has an idom, and is higher.
ClimbInv ==
    /\ idom[Null] = Null
    /\ InWalk => \A b \in Blocks : idom[b] = Null
    /\ ~InWalk => idom[Entry] = Entry
    /\ \A b \in Blocks : HasIdom(b) =>
         /\ Ordered(b)
         /\ HasIdom(idom[b])
         /\ b # Entry => post_order_id[b] < post_order_id[idom[b]]

\* The blocks the current pass is done with have an idom.
PassInv ==
    pc \in {"create_idom", "fold", "intersect"} =>
        \A i \in 1..Size : i < pos => HasIdom(reverse_post_order[i])

\* While a block's predecessors are folded, what is folded in so far lies at
\* or below new_idom or, inside intersect, one of the two fingers.
FoldInv ==
    pc \in {"fold", "intersect"} =>
        /\ pos \in 1..Size
        /\ Current # Entry
        /\ HasIdom(new_idom)
        /\ rest \subseteq PredsWithIdom(Current)
        /\ pc = "intersect" => HasIdom(b1)
        /\ \A p \in PredsWithIdom(Current) \ rest :
             \/ post_order_id[p] <= post_order_id[new_idom]
             \/ pc = "intersect" /\ post_order_id[p] <= post_order_id[b1]

IdomInv == TypeInv /\ WalkInv /\ OrderInv /\ ClimbInv /\ PassInv /\ FoldInv

LEMMA IdomInvInit == Init => IdomInv
<1> SUFFICES ASSUME Init PROVE IdomInv
    OBVIOUS
<1> USE BlocksAssumption DEF BlocksAssumption, Init
<1>1. TypeInv
    BY TypeInvInit
<1>2. WalkInv
    BY DEF WalkInv, InWalk, Size, Ordered
<1>3. OrderInv /\ PassInv /\ FoldInv
    BY DEF OrderInv, PassInv, FoldInv, InWalk
<1>4. ClimbInv
    BY DEF ClimbInv, HasIdom, InWalk
<1> QED
    BY <1>1, <1>2, <1>3, <1>4 DEF IdomInv

LEMMA WalkInvStep == TypeInv /\ WalkInv /\ [Next]_vars => WalkInv'
<1> SUFFICES ASSUME TypeInv, WalkInv, [Next]_vars PROVE WalkInv'
    OBVIOUS
<1> DEFINE n == Len(stack)
<1>0. TypeOK /\ n \in Nat /\ Size \in Nat
    BY LenProperties DEF TypeInv, TypeOK, Size
<1>1. CASE VisitSuccessor
  <2>1. InWalk /\ stack # <<>> /\ Last(stack) \in Blocks /\ n \in Nat \ {0}
        /\ Last(stack) = stack[n]
      BY <1>0, <1>1, FrontLast DEF VisitSuccessor, TypeOK, InWalk
  <2>2. PICK b \in Blocks : /\ b \in succ[stack[n]] /\ b \notin visited
                            /\ visited' = visited \cup {b}
                            /\ stack' = Append(stack, b)
      BY <1>0, <1>1, <2>1, SuccType DEF VisitSuccessor
  <2>3. /\ Len(stack') = n + 1 /\ stack'[n + 1] = b
        /\ \A i \in 1..n : stack'[i] = stack[i]
        /\ stack' # <<>>
      BY <1>0, <2>2, AppendProperties DEF TypeOK
  <2>4. UNCHANGED <<succ, reverse_post_order, post_order_id>>
      BY <1>1 DEF VisitSuccessor
  <2> HIDE DEF n
  <2>5. /\ \A i \in 1..n + 1 : i \in 1..n \/ i = n + 1
        /\ 1 \in 1..n /\ n \in 1..n
        /\ \A i \in 1..n : i \in 1..n + 1
      BY <2>1
  <2>6. \A i \in 1..Size : /\ reverse_post_order[i] \in visited'
                           /\ post_order_id[reverse_post_order[i]] = i - 1
      BY <2>1, <2>2 DEF WalkInv
  <2>7. \A i \in 1..n + 1 : stack'[i] \in visited' /\ ~Ordered(stack'[i])
      BY <2>1, <2>2, <2>3, <2>5 DEF WalkInv, Ordered, n
  <2>8. \A i, j \in 1..n + 1 : i # j => stack'[i] # stack'[j]
      BY <2>1, <2>2, <2>3, <2>5 DEF WalkInv, n
  <2>9. \A i \in 1..n : stack'[i + 1] \in succ[stack'[i]]
    <3> TAKE i \in 1..n
    <3>1. CASE i = n
        BY <3>1, <2>2, <2>3
    <3>2. CASE i # n
      <4>1. i \in 1..n - 1 /\ i + 1 \in 1..n
          BY <3>2, <2>1
      <4> QED
          BY <4>1, <2>1, <2>3 DEF WalkInv, n
    <3> QED
        BY <3>1, <3>2
  <2>10. Entry \in visited' /\ stack'[1] = Entry
      BY <2>1, <2>2, <2>3, <2>5 DEF WalkInv
  <2>11. \A i \in 1..Size : reverse_post_order[i] # Entry =>
           \/ \E k \in 1..n + 1 : reverse_post_order[i] \in succ[stack'[k]]
           \/ \E k \in i + 1..Size : reverse_post_order[i] \in succ[reverse_post_order[k]]
      BY <2>1, <2>3, <2>5 DEF WalkInv, n
  <2>12. n + 1 - 1 = n /\ Size' = Size
      BY <2>1, <2>4 DEF Size
  <2>13. \A i \in 1..Len(stack') : \A j \in 1..Size' : reverse_post_order'[j] # stack'[i]
      BY <2>3, <2>4, <2>7, <2>12 DEF Ordered
  <2>14. stack' # <<>>
      BY <2>3
  <2>15. \A i \in 1..Size' : /\ reverse_post_order'[i] \in visited'
                             /\ post_order_id'[reverse_post_order'[i]] = i - 1
      BY <2>4, <2>6, <2>12
  <2>16. \A i \in 1..Len(stack') - 1 : stack'[i + 1] \in succ'[stack'[i]]
    <3>1. Len(stack') - 1 = n /\ succ' = succ
        BY <2>1, <2>3, <2>4
    <3> QED
        BY <3>1, <2>9
  <2>17. \A i \in 1..Size' : reverse_post_order'[i] # Entry =>
           \/ \E k \in 1..Len(stack') : reverse_post_order'[i] \in succ'[stack'[k]]
           \/ \E k \in i + 1..Size' :
                reverse_post_order'[i] \in succ'[reverse_post_order'[k]]
    <3>1. reverse_post_order' = reverse_post_order /\ succ' = succ
        BY <2>4
    <3> QED
        BY <3>1, <2>3, <2>11, <2>12
  <2>18. \A i \in 1..Len(stack') : stack'[i] \in visited'
      BY <2>3, <2>7
  <2>19. \A i, j \in 1..Len(stack') : i # j => stack'[i] # stack'[j]
      BY <2>3, <2>8
  <2> QED
      BY ONLY <2>10, <2>13, <2>14, <2>15, <2>16, <2>17, <2>18, <2>19 DEF WalkInv, Ordered
<1>2. CASE FinishVisit
  <2> DEFINE last == stack[n]
  <2>1. /\ InWalk /\ stack # <<>> /\ last \in Blocks /\ n \in Nat \ {0}
        /\ Last(stack) = last
        /\ Len(Front(stack)) = n - 1
        /\ \A i \in 1..n - 1 : Front(stack)[i] = stack[i]
      BY <1>0, <1>2, FrontLast DEF FinishVisit, TypeOK, InWalk
  <2>2. /\ stack' = Front(stack) /\ reverse_post_order' = Append(reverse_post_order, last)
        /\ post_order_id' = [post_order_id EXCEPT ![last] = Size]
        /\ UNCHANGED <<succ, visited>>
      BY <1>2, <2>1 DEF FinishVisit, Size
  <2>3. /\ Size' = Size + 1 /\ reverse_post_order'[Size + 1] = last
        /\ \A i \in 1..Size : reverse_post_order'[i] = reverse_post_order[i]
      BY <1>0, <2>1, <2>2, AppendProperties DEF TypeOK, Size
  <2>4. /\ Len(stack') = n - 1 /\ \A i \in 1..n - 1 : stack'[i] = stack[i]
      BY <2>1, <2>2
  <2>5. /\ \A i \in 1..Size : /\ reverse_post_order[i] \in visited
                              /\ reverse_post_order[i] \in Blocks
                              /\ post_order_id[reverse_post_order[i]] = i - 1
        /\ \A i \in 1..n : stack[i] \in visited /\ ~Ordered(stack[i])
        /\ \A i, j \in 1..n : i # j => stack[i] # stack[j]
        /\ \A i \in 1..n - 1 : stack[i + 1] \in succ[stack[i]]
        /\ Entry \in visited
        /\ stack[1] = Entry
        /\ \A i \in 1..Size : reverse_post_order[i] # Entry =>
             \/ \E k \in 1..n : reverse_post_order[i] \in succ[stack[k]]
             \/ \E k \in i + 1..Size : reverse_post_order[i] \in succ[reverse_post_order[k]]
      BY <2>1, <1>0, ElementOfSeq DEF WalkInv, TypeOK, Size
  <2>6. /\ \A i \in 1..Size + 1 : i \in 1..Size \/ i = Size + 1
        /\ \A i \in 1..n - 1 : i \in 1..n /\ i # n
        /\ n \in 1..n
        /\ post_order_id'[last] = Size
        /\ \A b \in Blocks : b # last => post_order_id'[b] = post_order_id[b]
      BY <1>0, <2>1, <2>2 DEF TypeOK
  <2> HIDE DEF n, last
  <2>7. \A i \in 1..Size + 1 : /\ reverse_post_order'[i] \in visited
                               /\ post_order_id'[reverse_post_order'[i]] = i - 1
    <3> TAKE i \in 1..Size + 1
    <3>1. CASE i \in 1..Size
      <4>1. reverse_post_order[i] # last
          BY <3>1, <2>5, <2>6 DEF Ordered, last
      <4> QED
          BY <3>1, <4>1, <2>3, <2>5, <2>6
    <3>2. CASE i = Size + 1
        BY <3>2, <1>0, <2>3, <2>5, <2>6 DEF last
    <3> QED
        BY <3>1, <3>2, <2>6
  <2>8. \A i \in 1..n - 1 : \A j \in 1..Size + 1 :
           stack'[i] \in visited /\ reverse_post_order'[j] # stack'[i]
    <3> TAKE i \in 1..n - 1
    <3> TAKE j \in 1..Size + 1
    <3>1. stack'[i] = stack[i] /\ stack[i] # last /\ stack[i] \in visited /\ ~Ordered(stack[i])
        BY <2>4, <2>5, <2>6 DEF last
    <3> QED
        BY <3>1, <2>3, <2>6 DEF Ordered
  <2>9. \A i, j \in 1..n - 1 : i # j => stack'[i] # stack'[j]
      BY <2>4, <2>5, <2>6
  <2>10. \A i \in 1..n - 1 - 1 : stack'[i + 1] \in succ[stack'[i]]
    <3> TAKE i \in 1..n - 1 - 1
    <3>1. i \in 1..n - 1 /\ i + 1 \in 1..n - 1
        BY <2>1
    <3> QED
        BY <3>1, <2>4, <2>5
  <2>11. /\ stack' # <<>> => stack'[1] = Entry
         /\ stack' = <<>> => reverse_post_order'[Size + 1] = Entry
    <3>1. CASE n = 1
      <4>1. Len(stack') = 0 /\ stack' \in Seq(Blocks)
          BY <3>1, <2>4, TypeInvStep DEF TypeInv, TypeOK
      <4> QED
          BY <4>1, <3>1, <2>3, <2>5, EmptySeq DEF last
    <3>2. CASE n # 1
      <4>1. 1 \in 1..n - 1 /\ Len(stack') # 0
          BY <3>2, <2>1, <2>4
      <4> QED
          BY <4>1, <2>4, <2>5
    <3> QED
        BY <3>1, <3>2
  <2>12. \A i \in 1..Size + 1 : reverse_post_order'[i] # Entry =>
           \/ \E k \in 1..n - 1 : reverse_post_order'[i] \in succ[stack'[k]]
           \/ \E k \in i + 1..Size + 1 :
                reverse_post_order'[i] \in succ[reverse_post_order'[k]]
    <3> SUFFICES ASSUME NEW i \in 1..Size + 1, reverse_post_order'[i] # Entry
                 PROVE  \/ \E k \in 1..n - 1 : reverse_post_order'[i] \in succ[stack'[k]]
                        \/ \E k \in i + 1..Size + 1 :
                             reverse_post_order'[i] \in succ[reverse_post_order'[k]]
        OBVIOUS
    <3>1. CASE i = Size + 1
      <4>1. n # 1
          BY <3>1, <2>3, <2>5 DEF last
      <4>2. n - 1 \in 1..n - 1 /\ (n - 1) + 1 = n
          BY <4>1, <2>1
      <4> QED
          BY <3>1, <4>2, <2>3, <2>4, <2>5 DEF last
    <3>2. CASE i \in 1..Size
      <4>1. reverse_post_order'[i] = reverse_post_order[i]
          BY <3>2, <2>3
      <4>2. CASE \E k \in 1..n : reverse_post_order[i] \in succ[stack[k]]
        <5>1. PICK k \in 1..n : reverse_post_order[i] \in succ[stack[k]]
            BY <4>2
        <5>2. CASE k = n
          <6>1. Size + 1 \in i + 1..Size + 1
              BY <1>0, <3>2
          <6> QED
              BY <6>1, <5>1, <5>2, <4>1, <2>3 DEF last
        <5>3. CASE k # n
          <6>1. k \in 1..n - 1
              BY <5>3, <2>1
          <6> QED
              BY <6>1, <5>1, <4>1, <2>4
        <5> QED
            BY <5>2, <5>3
      <4>3. CASE \E k \in i + 1..Size : reverse_post_order[i] \in succ[reverse_post_order[k]]
        <5>1. PICK k \in i + 1..Size : reverse_post_order[i] \in succ[reverse_post_order[k]]
            BY <4>3
        <5>2. k \in 1..Size /\ k \in i + 1..Size + 1
            BY <1>0, <3>2
        <5> QED
            BY <5>1, <5>2, <4>1, <2>3
      <4> QED
          BY <3>2, <4>1, <4>2, <4>3, <2>5
    <3> QED
        BY <3>1, <3>2, <2>6
  <2>13. 1 \in 1..Size + 1 /\ Size + 1 \in 1..Size + 1
      BY <1>0
  <2>14. \A i \in 1..n - 1 : stack'[i] \in visited'
      BY <2>2, <2>8, <2>13
  <2> QED
      BY ONLY <2>2, <2>3, <2>4, <2>5, <2>7, <2>8, <2>9, <2>10, <2>11, <2>12, <2>13, <2>14
      DEF WalkInv, Ordered
<1>3. CASE StartIdom
    BY <1>3 DEF StartIdom, WalkInv, InWalk
<1>4. CASE UNCHANGED <<pc, succ, visited, stack, reverse_post_order, post_order_id>>
    BY <1>4 DEF WalkInv, InWalk, Size, Ordered
<1>5. CASE pc' # "post_order_visit"
    BY <1>5 DEF WalkInv, InWalk
<1> QED
    BY <1>1, <1>2, <1>3, <1>4, <1>5 DEF Next, vars, SkipRoot, PickPred, CallIntersect,
       ClimbB1, ClimbB2, ReturnIntersect, SetIdom, NextPass, StartFrontier, NextJoin,
       StartRunner, MoveRunner, RunnerDone, CreateDomTreeSucc, Done

\* What a step outside the walk leaves alone.
LEMMA AfterWalk ==
    ASSUME [Next]_vars, ~InWalk
    PROVE  /\ ~InWalk'
           /\ UNCHANGED <<succ, reverse_post_order, post_order_id>>
    BY DEF Next, vars, InWalk, VisitSuccessor, FinishVisit, StartIdom, SkipRoot, PickPred,
       CallIntersect, ClimbB1, ClimbB2, ReturnIntersect, SetIdom, NextPass, StartFrontier,
       NextJoin, StartRunner, MoveRunner, RunnerDone, CreateDomTreeSucc, Done

\* A step of the walk either stays in it or is StartIdom.
LEMMA InsideWalk ==
    ASSUME [Next]_vars, InWalk, ~StartIdom
    PROVE  InWalk' /\ idom' = idom
    BY DEF Next, vars, InWalk, VisitSuccessor, FinishVisit, SkipRoot, PickPred,
       CallIntersect, ClimbB1, ClimbB2, ReturnIntersect, SetIdom, NextPass, StartFrontier,
       NextJoin, StartRunner, MoveRunner, RunnerDone, CreateDomTreeSucc, Done

LEMMA OrderInvStep == TypeInv /\ WalkInv /\ OrderInv /\ [Next]_vars => OrderInv'
<1> SUFFICES ASSUME TypeInv, WalkInv, OrderInv, [Next]_vars PROVE OrderInv'
    OBVIOUS
<1>1. CASE StartIdom
  <2>1. Size \in Nat /\ reverse_post_order \in Seq(Blocks)
      BY LenProperties DEF TypeInv, TypeOK, Size
  <2>2. /\ Size' = Size
        /\ \A i \in 1..Size : reverse_post_order'[i] = reverse_post_order[(Size - i) + 1]
        /\ UNCHANGED <<succ, post_order_id>>
      BY <1>1, <2>1, ReverseSeq DEF StartIdom, Size
  <2>3. InWalk /\ stack = <<>> /\ Len(stack) = 0
      BY <1>1, EmptySeq DEF StartIdom, InWalk
  <2>4. \A i \in 1..Size : /\ (Size - i) + 1 \in 1..Size
                           /\ (Size - ((Size - i) + 1)) + 1 = i
      BY <2>1
  <2>5. \A i \in 1..Size : post_order_id'[reverse_post_order'[i]] = Size - i
    <3>0. \A m \in 1..Size : post_order_id[reverse_post_order[m]] = m - 1
        BY <2>3 DEF WalkInv
    <3> TAKE i \in 1..Size
    <3>1. post_order_id[reverse_post_order[(Size - i) + 1]] = (Size - i) + 1 - 1
        BY <3>0, <2>1, <2>4
    <3> QED
        BY <3>1, <2>1, <2>2
  <2>6. Ordered(Entry)'
    <3>1. PICK i \in 1..Size : reverse_post_order[i] = Entry
        BY <2>3 DEF WalkInv, Ordered
    <3>2. reverse_post_order'[(Size - i) + 1] = Entry
        BY <3>1, <2>2, <2>4
    <3> QED
        BY <3>2, <2>2, <2>4 DEF Ordered
  <2>7. \A i \in 1..Size : reverse_post_order'[i] # Entry =>
           \E k \in 1..i - 1 : reverse_post_order'[i] \in succ'[reverse_post_order'[k]]
    <3> SUFFICES ASSUME NEW i \in 1..Size, reverse_post_order'[i] # Entry
                 PROVE  \E k \in 1..i - 1 :
                          reverse_post_order'[i] \in succ'[reverse_post_order'[k]]
        OBVIOUS
    <3>1. PICK k \in ((Size - i) + 1) + 1..Size :
            reverse_post_order[(Size - i) + 1] \in succ[reverse_post_order[k]]
        BY <2>1, <2>2, <2>3, <2>4 DEF WalkInv
    <3>2. k \in 1..Size /\ (Size - k) + 1 \in 1..i - 1
        BY <2>1
    <3>3. reverse_post_order'[(Size - k) + 1] = reverse_post_order[k]
        BY <3>2, <2>2, <2>4
    <3> QED
        BY <3>1, <3>2, <3>3, <2>2
  <2> QED
      BY <2>2, <2>5, <2>6, <2>7 DEF OrderInv
<1>2. CASE InWalk /\ ~StartIdom
    BY <1>2, InsideWalk DEF OrderInv
<1>3. CASE ~InWalk
    BY <1>3, AfterWalk DEF OrderInv, Ordered, Size
<1> QED
    BY <1>1, <1>2, <1>3

\* A step that changes an idom outside the walk is SetIdom.
LEMMA IdomFrame ==
    ASSUME [Next]_vars, ~InWalk, ~SetIdom
    PROVE  idom' = idom
    BY DEF Next, vars, InWalk, VisitSuccessor, FinishVisit, StartIdom, SkipRoot, PickPred,
       CallIntersect, ClimbB1, ClimbB2, ReturnIntersect, NextPass, StartFrontier,
       NextJoin, StartRunner, MoveRunner, RunnerDone, CreateDomTreeSucc, Done

\* When all predecessors are folded in, new_idom is higher than the block.
LEMMA NewIdomHigher ==
    ASSUME IdomInv, SetIdom
    PROVE  /\ Current \in Blocks \ {Entry}
           /\ Ordered(Current)
           /\ HasIdom(new_idom)
           /\ post_order_id[Current] < post_order_id[new_idom]
<1> USE DEF IdomInv
<1>1. /\ pc = "fold" /\ rest = {} /\ ~InWalk
      /\ pos \in 1..Size /\ Current # Entry /\ HasIdom(new_idom)
    BY DEF SetIdom, FoldInv, InWalk
<1>2. Size \in Nat /\ Current \in Blocks
    BY <1>1, LenProperties, ElementOfSeq DEF TypeInv, TypeOK, Size, Current
<1>3. PICK k \in 1..pos - 1 : Current \in succ[reverse_post_order[k]]
    BY <1>1 DEF OrderInv, Current
<1>4. k \in 1..Size /\ k < pos
    BY <1>1, <1>2
<1> DEFINE p == reverse_post_order[k]
<1>5. p \in PredsWithIdom(Current)
    BY <1>1, <1>3, <1>4 DEF PassInv, HasIdom, PredsWithIdom, Pre, PreBlocks
<1>6. post_order_id[p] <= post_order_id[new_idom]
    BY <1>1, <1>5 DEF FoldInv
<1>7. post_order_id[p] = Size - k /\ post_order_id[Current] = Size - pos
    BY <1>1, <1>4 DEF OrderInv, Current
<1>8. post_order_id[new_idom] \in Nat
    BY <1>1 DEF TypeInv, TypeOK, HasIdom
<1>9. Ordered(Current)
    BY <1>1 DEF Ordered, Current
<1> QED
    BY <1>1, <1>2, <1>4, <1>6, <1>7, <1>8, <1>9

LEMMA ClimbInvStep == IdomInv /\ [Next]_vars => ClimbInv'
<1> SUFFICES ASSUME IdomInv, [Next]_vars PROVE ClimbInv'
    OBVIOUS
<1>0. OrderInv' /\ Entry \in Blocks /\ Null \notin Blocks /\ idom \in [MaybeBlock -> MaybeBlock]
    BY OrderInvStep, BlocksAssumption DEF IdomInv, BlocksAssumption, TypeInv, TypeOK
<1>1. CASE StartIdom
  <2>1. ~InWalk' /\ idom' = [b \in MaybeBlock |-> IF b = Entry THEN Entry ELSE Null]
      BY <1>1 DEF StartIdom, InWalk
  <2>2. Ordered(Entry)'
      BY <1>0, <2>1 DEF OrderInv
  <2>3. /\ idom'[Null] = Null /\ idom'[Entry] = Entry
        /\ \A b \in Blocks : idom'[b] # Null => b = Entry
      BY <1>0, <2>1
  <2> QED
      BY <1>0, <2>1, <2>2, <2>3 DEF ClimbInv, HasIdom
<1>2. CASE InWalk /\ ~StartIdom
    BY <1>2, InsideWalk DEF ClimbInv, HasIdom, IdomInv
<1>3. CASE ~InWalk /\ ~SetIdom
    BY <1>3, AfterWalk, IdomFrame DEF ClimbInv, HasIdom, Ordered, Size, IdomInv
<1>4. CASE SetIdom
  <2>1. ~InWalk /\ ~InWalk' /\ UNCHANGED <<succ, reverse_post_order, post_order_id>>
      BY <1>4, AfterWalk DEF SetIdom, InWalk
  <2>2. /\ Current \in Blocks \ {Entry} /\ Ordered(Current) /\ HasIdom(new_idom)
        /\ post_order_id[Current] < post_order_id[new_idom]
      BY <1>4, NewIdomHigher
  <2>3. idom' = [idom EXCEPT ![Current] = new_idom]
      BY <1>4 DEF SetIdom
  <2>4. /\ idom'[Current] = new_idom
        /\ \A b \in MaybeBlock : b # Current => idom'[b] = idom[b]
        /\ new_idom # Null /\ new_idom \in Blocks
      BY <1>0, <2>2, <2>3 DEF HasIdom
  <2>5. idom'[Null] = Null /\ idom'[Entry] = Entry
      BY <1>0, <2>1, <2>2, <2>4 DEF IdomInv, ClimbInv
  <2>6. \A b \in Blocks : HasIdom(b) => idom'[b] # Null
      BY <2>4 DEF HasIdom
  <2>7. \A b \in Blocks : idom'[b] # Null =>
          /\ Ordered(b)
          /\ idom'[b] \in Blocks /\ idom'[idom'[b]] # Null
          /\ b # Entry => post_order_id[b] < post_order_id[idom'[b]]
    <3> SUFFICES ASSUME NEW b \in Blocks, idom'[b] # Null
                 PROVE  /\ Ordered(b)
                        /\ idom'[b] \in Blocks /\ idom'[idom'[b]] # Null
                        /\ b # Entry => post_order_id[b] < post_order_id[idom'[b]]
        OBVIOUS
    <3>1. CASE b = Current
        BY <3>1, <2>2, <2>4, <2>6
    <3>2. CASE b # Current
      <4>1. HasIdom(b) /\ idom'[b] = idom[b]
          BY <3>2, <2>4 DEF HasIdom
      <4>2. Ordered(b) /\ HasIdom(idom[b])
            /\ (b # Entry => post_order_id[b] < post_order_id[idom[b]])
          BY <4>1 DEF IdomInv, ClimbInv
      <4> QED
          BY <4>1, <4>2, <2>6 DEF HasIdom
    <3> QED
        BY <3>1, <3>2
  <2> QED
      BY <2>1, <2>5, <2>7 DEF ClimbInv, HasIdom, Ordered, Size
<1> QED
    BY <1>1, <1>2, <1>3, <1>4

LEMMA PassInvStep == IdomInv /\ [Next]_vars => PassInv'
<1> SUFFICES ASSUME IdomInv, [Next]_vars PROVE PassInv'
    OBVIOUS
<1>0. TypeOK /\ Size \in Nat /\ Entry \in Blocks /\ Null \notin Blocks
    BY LenProperties, BlocksAssumption DEF IdomInv, TypeInv, TypeOK, Size, BlocksAssumption
<1>1. CASE pos' = 1
    BY <1>1, <1>0 DEF PassInv
<1>2. CASE SkipRoot
  <2>1. /\ HasIdom(Entry) /\ reverse_post_order[pos] = Entry
        /\ pos' = pos + 1 /\ UNCHANGED <<idom, reverse_post_order>>
        /\ pc = "create_idom"
      BY <1>0, <1>2 DEF SkipRoot, IdomInv, ClimbInv, InWalk, HasIdom, Current
  <2>2. \A i \in 1..Size : i < pos + 1 => i < pos \/ i = pos
      BY <1>0 DEF TypeOK
  <2>3. \A i \in 1..Size : i < pos + 1 => HasIdom(reverse_post_order[i])
      BY <2>1, <2>2 DEF IdomInv, PassInv
  <2> QED
      BY <2>1, <2>3 DEF PassInv, HasIdom, Size
<1>3. CASE SetIdom
  <2>1. /\ pc = "fold" /\ pos' = pos + 1
        /\ UNCHANGED reverse_post_order
        /\ idom' = [idom EXCEPT ![Current] = new_idom]
      BY <1>3 DEF SetIdom
  <2>2. HasIdom(new_idom) /\ Current \in Blocks
      BY <1>3, NewIdomHigher
  <2>3. /\ idom'[Current] # Null
        /\ \A b \in Blocks : HasIdom(b) => idom'[b] # Null
      BY <1>0, <2>1, <2>2 DEF TypeOK, HasIdom
  <2>4. \A i \in 1..Size : i < pos + 1 => i < pos \/ reverse_post_order[i] = Current
      BY <1>0 DEF TypeOK, Current
  <2>5. \A i \in 1..Size : i < pos => HasIdom(reverse_post_order[i])
      BY <2>1 DEF IdomInv, PassInv
  <2>6. \A i \in 1..Size : i < pos + 1 =>
          reverse_post_order[i] \in Blocks /\ idom'[reverse_post_order[i]] # Null
      BY <2>2, <2>3, <2>4, <2>5 DEF HasIdom
  <2> QED
      BY <2>1, <2>6 DEF PassInv, HasIdom, Size
<1>4. CASE UNCHANGED <<idom, pos, reverse_post_order>> /\ (pc' = pc \/ PickPred \/ CallIntersect \/ ReturnIntersect)
    BY <1>4 DEF IdomInv, PassInv, HasIdom, Size, PickPred, CallIntersect, ReturnIntersect
<1>5. CASE pc' \notin {"create_idom", "fold", "intersect"}
    BY <1>5 DEF PassInv
<1> QED
    BY <1>1, <1>2, <1>3, <1>4, <1>5 DEF Next, vars, VisitSuccessor, FinishVisit, StartIdom,
       PickPred, CallIntersect, ClimbB1, ClimbB2, ReturnIntersect, NextPass, StartFrontier,
       NextJoin, StartRunner, MoveRunner, RunnerDone, CreateDomTreeSucc, Done

LEMMA FoldInvStep == IdomInv /\ [Next]_vars => FoldInv'
<1> SUFFICES ASSUME IdomInv, [Next]_vars PROVE FoldInv'
    OBVIOUS
<1>0. /\ TypeOK /\ ClimbInv /\ FoldInv
      /\ Size \in Nat /\ \A b \in Blocks : post_order_id[b] \in Nat
    BY LenProperties DEF IdomInv, TypeInv, TypeOK, Size
<1>1. \A b \in Blocks : HasIdom(b) =>
        HasIdom(idom[b]) /\ (~InWalk => post_order_id[b] <= post_order_id[idom[b]])
    BY <1>0 DEF ClimbInv, HasIdom
<1>2. CASE PickPred
  <2>1. PICK pred \in PredsWithIdom(Current) :
           new_idom' = pred /\ rest' = PredsWithIdom(Current) \ {pred}
      BY <1>2 DEF PickPred
  <2>2. /\ pc' = "fold" /\ pos \in 1..Size /\ Current # Entry
        /\ UNCHANGED <<succ, idom, reverse_post_order, post_order_id, pos>>
      BY <1>0, <1>2 DEF PickPred, TypeOK, Size
  <2>3. pred \in Blocks /\ HasIdom(pred) /\ post_order_id[pred] <= post_order_id[pred]
      BY <1>0 DEF PredsWithIdom, Pre, PreBlocks, HasIdom
  <2>4. PredsWithIdom(Current)' = PredsWithIdom(Current) /\ Current' = Current
        /\ HasIdom(pred)' /\ Size' = Size
      BY <2>2, <2>3 DEF PredsWithIdom, Pre, PreBlocks, Current, HasIdom, Size
  <2> QED
      BY <2>1, <2>2, <2>3, <2>4 DEF FoldInv, HasIdom
<1>3. CASE CallIntersect
  <2>1. PICK p \in rest : b1' = p /\ rest' = rest \ {p}
      BY <1>3 DEF CallIntersect
  <2>2. /\ pc = "fold" /\ pc' = "intersect"
        /\ UNCHANGED <<succ, idom, reverse_post_order, post_order_id, pos, new_idom>>
      BY <1>3 DEF CallIntersect
  <2>3. p \in Blocks /\ HasIdom(p) /\ post_order_id[p] <= post_order_id[p]
      BY <1>0, <2>2 DEF FoldInv, PredsWithIdom, Pre, PreBlocks, HasIdom
  <2>4. PredsWithIdom(Current)' = PredsWithIdom(Current) /\ Current' = Current
        /\ Size' = Size /\ \A b \in Blocks : HasIdom(b)' <=> HasIdom(b)
      BY <2>2 DEF PredsWithIdom, Pre, PreBlocks, Current, HasIdom, Size
  <2> QED
      BY <1>0, <2>1, <2>2, <2>3, <2>4 DEF FoldInv, HasIdom
<1>4. CASE ClimbB1
  <2>1. /\ pc = "intersect" /\ pc' = pc /\ b1' = idom[b1]
        /\ UNCHANGED <<succ, idom, reverse_post_order, post_order_id, pos, new_idom, rest>>
      BY <1>4 DEF ClimbB1
  <2>2. /\ HasIdom(b1) /\ HasIdom(idom[b1])
        /\ post_order_id[b1] <= post_order_id[idom[b1]]
      BY <1>0, <1>1, <2>1 DEF FoldInv, HasIdom, InWalk
  <2>3. PredsWithIdom(Current)' = PredsWithIdom(Current) /\ Current' = Current
        /\ Size' = Size /\ \A b \in Blocks : HasIdom(b)' <=> HasIdom(b)
        /\ PredsWithIdom(Current) \subseteq Blocks
      BY <2>1 DEF PredsWithIdom, Pre, PreBlocks, Current, HasIdom, Size
  <2>4. \A p \in PredsWithIdom(Current) : post_order_id[p] <= post_order_id[b1]
          => post_order_id[p] <= post_order_id[idom[b1]]
    <3> TAKE p \in PredsWithIdom(Current)
    <3>1. p \in Blocks /\ b1 \in Blocks /\ idom[b1] \in Blocks
        BY <2>2 DEF PredsWithIdom, Pre, PreBlocks, HasIdom
    <3>2. /\ post_order_id[p] \in Nat
          /\ post_order_id[b1] \in Nat /\ post_order_id[idom[b1]] \in Nat
        BY <1>0, <3>1
    <3> QED
        BY <2>2, <3>2
  <2> QED
      BY <1>0, <2>1, <2>2, <2>3, <2>4 DEF FoldInv, HasIdom
<1>5. CASE ClimbB2
  <2>1. /\ pc = "intersect" /\ pc' = pc /\ new_idom' = idom[new_idom]
        /\ UNCHANGED <<succ, idom, reverse_post_order, post_order_id, pos, b1, rest>>
      BY <1>5 DEF ClimbB2
  <2>2. /\ HasIdom(new_idom) /\ HasIdom(idom[new_idom])
        /\ post_order_id[new_idom] <= post_order_id[idom[new_idom]]
      BY <1>0, <1>1, <2>1 DEF FoldInv, HasIdom, InWalk
  <2>3. PredsWithIdom(Current)' = PredsWithIdom(Current) /\ Current' = Current
        /\ Size' = Size /\ \A b \in Blocks : HasIdom(b)' <=> HasIdom(b)
        /\ PredsWithIdom(Current) \subseteq Blocks
      BY <2>1 DEF PredsWithIdom, Pre, PreBlocks, Current, HasIdom, Size
  <2>4. \A p \in PredsWithIdom(Current) : post_order_id[p] <= post_order_id[new_idom]
          => post_order_id[p] <= post_order_id[idom[new_idom]]
    <3> TAKE p \in PredsWithIdom(Current)
    <3>1. p \in Blocks /\ new_idom \in Blocks /\ idom[new_idom] \in Blocks
        BY <2>2 DEF PredsWithIdom, Pre, PreBlocks, HasIdom
    <3>2. /\ post_order_id[p] \in Nat
          /\ post_order_id[new_idom] \in Nat /\ post_order_id[idom[new_idom]] \in Nat
        BY <1>0, <3>1
    <3> QED
        BY <2>2, <3>2
  <2> QED
      BY <1>0, <2>1, <2>2, <2>3, <2>4 DEF FoldInv, HasIdom
<1>6. CASE ReturnIntersect
  <2>1. /\ pc = "intersect" /\ pc' = "fold" /\ b1 = new_idom
        /\ UNCHANGED <<succ, idom, reverse_post_order, post_order_id, pos, new_idom, rest>>
      BY <1>6 DEF ReturnIntersect
  <2>2. PredsWithIdom(Current)' = PredsWithIdom(Current) /\ Current' = Current
        /\ Size' = Size /\ \A b \in Blocks : HasIdom(b)' <=> HasIdom(b)
      BY <2>1 DEF PredsWithIdom, Pre, PreBlocks, Current, HasIdom, Size
  <2> QED
      BY <1>0, <2>1, <2>2 DEF FoldInv, HasIdom
<1>7. CASE UNCHANGED vars
    BY <1>0, <1>7 DEF vars, FoldInv, HasIdom, PredsWithIdom, Pre, PreBlocks, Current, Size
<1>8. CASE pc' \notin {"fold", "intersect"}
    BY <1>8 DEF FoldInv
<1> QED
    BY <1>2, <1>3, <1>4, <1>5, <1>6, <1>7, <1>8 DEF Next, VisitSuccessor, FinishVisit,
       StartIdom, SkipRoot, SetIdom, NextPass, StartFrontier, NextJoin, StartRunner,
       MoveRunner, RunnerDone, CreateDomTreeSucc, Done

LEMMA IdomInvariant == Spec => []IdomInv
<1>1. IdomInv /\ [Next]_vars => IdomInv'
    BY TypeInvStep, WalkInvStep, OrderInvStep, ClimbInvStep, PassInvStep, FoldInvStep
    DEF IdomInv
<1> QED
    BY <1>1, IdomInvInit, PTL DEF Spec

\* Following idom always climbs in the numbering, for every graph.
THEOREM IdomAlwaysClimbs == Spec => []IdomClimbs
<1>1. IdomInv => IdomClimbs
    BY DEF IdomInv, ClimbInv, HasIdom, IdomClimbs
<1> QED
    BY <1>1, IdomInvariant, PTL

\* The asserts of create_idom and intersect hold, for every graph.
THEOREM AssertsAlwaysHold == Spec => []AssertsHold
<1>1. IdomInv => AssertsHold
  <2> SUFFICES ASSUME IdomInv PROVE AssertsHold
      OBVIOUS
  <2>0. Size \in Nat /\ pos \in Nat \ {0} /\ Null \notin Blocks
      BY LenProperties, BlocksAssumption
      DEF IdomInv, TypeInv, TypeOK, Size, BlocksAssumption
  <2>1. ASSUME pc = "create_idom", pos <= Len(reverse_post_order), Current # Entry
        PROVE  PredsWithIdom(Current) # {}
    <3>1. pos \in 1..Size /\ ~InWalk
        BY <2>0, <2>1 DEF Size, InWalk
    <3>2. PICK k \in 1..pos - 1 : Current \in succ[reverse_post_order[k]]
        BY <2>1, <3>1 DEF IdomInv, OrderInv, Current
    <3>3. k \in 1..Size /\ k < pos
        BY <2>0, <3>1
    <3>4. reverse_post_order[k] \in PredsWithIdom(Current)
        BY <2>1, <3>2, <3>3 DEF IdomInv, PassInv, HasIdom, PredsWithIdom, Pre, PreBlocks
    <3> QED
        BY <3>4
  <2>2. ASSUME pc = "intersect"
        PROVE  /\ b1 # Null /\ new_idom # Null
               /\ b1 # new_idom => post_order_id[b1] # post_order_id[new_idom]
    <3>1. HasIdom(b1) /\ HasIdom(new_idom) /\ ~InWalk
        BY <2>2 DEF IdomInv, FoldInv, InWalk
    <3>2. Ordered(b1) /\ Ordered(new_idom)
        BY <3>1 DEF IdomInv, ClimbInv, HasIdom
    <3>3. \A i, j \in 1..Size :
            post_order_id[reverse_post_order[i]] = post_order_id[reverse_post_order[j]] => i = j
        BY <2>0, <3>1 DEF IdomInv, OrderInv
    <3> QED
        BY <2>0, <3>1, <3>2, <3>3 DEF Ordered, HasIdom
  <2> QED
      BY <2>1, <2>2 DEF AssertsHold
<1> QED
    BY <1>1, IdomInvariant, PTL
-----------------------------------------------------------------------------
(***************************************************************************)
(* The depth-first walk.                                                   *)
(***************************************************************************)
OnStack(b) == \E i \in 1..Len(stack) : stack[i] = b

\* During the walk a visited block is reachable and is active or finished; the
\* active blocks form a path; a finished block's successors are visited, and
\* one that is not finished before it leads back to it.
DfsInv == InWalk =>
    /\ \A b \in visited : Reachable(b) /\ (Ordered(b) \/ OnStack(b))
    /\ \A i, j \in 1..Len(stack) : i < j => Path(succ, Blocks, stack[i], stack[j])
    /\ \A i \in 1..Size : \A b \in succ[reverse_post_order[i]] :
         /\ b \in visited
         /\ \/ \E k \in 1..i - 1 : reverse_post_order[k] = b
            \/ Path(succ, Blocks, b, reverse_post_order[i])
    /\ stack = <<>> => Size > 0 /\ reverse_post_order[Size] = Entry

\* After the walk the ordered blocks are the reachable ones, the entry first,
\* and a branch to a block that is not later in the order closes a cycle.
RpoInv == ~InWalk =>
    /\ \A b \in Blocks : Ordered(b) <=> Reachable(b)
    /\ Size > 0 /\ reverse_post_order[1] = Entry
    /\ \A i \in 1..Size : \A b \in succ[reverse_post_order[i]] :
         \/ \E k \in i + 1..Size : reverse_post_order[k] = b
         \/ Path(succ, Blocks, b, reverse_post_order[i])

LEMMA PathToSuccessor ==
    ASSUME NEW g \in CFGs, NEW a \in Blocks, NEW b \in g[a]
    PROVE  /\ Path(g, Blocks, a, b)
           /\ \A c \in Blocks : Path(g, Blocks, c, a) => Path(g, Blocks, c, b)
<1>1. b \in g[a] \cap Blocks
    BY GraphType
<1>2. Path(g, Blocks, a, b)
    BY <1>1 DEF Path
<1>3. ASSUME NEW c \in Blocks, Path(g, Blocks, c, a) PROVE Path(g, Blocks, c, b)
    BY <1>1, <1>3 DEF Path
<1> QED
    BY <1>2, <1>3

\* The steps of the walk.
LEMMA WalkSteps ==
    ASSUME [Next]_vars, InWalk
    PROVE  VisitSuccessor \/ FinishVisit \/ StartIdom \/ UNCHANGED vars
    BY DEF Next, InWalk, SkipRoot, PickPred, CallIntersect, ClimbB1, ClimbB2,
       ReturnIntersect, SetIdom, NextPass, StartFrontier, NextJoin, StartRunner, MoveRunner,
       RunnerDone, CreateDomTreeSucc, Done

LEMMA DfsInvInit == Init => DfsInv
<1> SUFFICES ASSUME Init PROVE DfsInv
    OBVIOUS
<1>1. stack = <<Entry>> /\ Len(stack) = 1 /\ stack[1] = Entry /\ stack # <<>>
    BY DEF Init
<1>2. visited = {Entry} /\ reverse_post_order = <<>> /\ Size = 0 /\ succ \in CFGs
    BY DEF Init, Size
<1>3. Reachable(Entry) /\ OnStack(Entry)
    BY <1>1, <1>2, ReachableEntry DEF Reachable, OnStack
<1> QED
    BY <1>1, <1>2, <1>3 DEF DfsInv

LEMMA DfsInvStep == TypeInv /\ WalkInv /\ DfsInv /\ [Next]_vars => DfsInv'
<1> SUFFICES ASSUME TypeInv, WalkInv, DfsInv, [Next]_vars PROVE DfsInv'
    OBVIOUS
<1> DEFINE n == Len(stack)
<1>0. TypeOK /\ n \in Nat /\ Size \in Nat /\ succ \in CFGs
    BY LenProperties DEF TypeInv, TypeOK, Size
<1>1. CASE VisitSuccessor
  <2>1. /\ InWalk /\ stack # <<>> /\ Last(stack) \in Blocks /\ n \in Nat \ {0}
        /\ Last(stack) = stack[n]
      BY <1>0, <1>1, FrontLast DEF VisitSuccessor, TypeOK, InWalk
  <2>2. PICK b \in Blocks : /\ b \in succ[stack[n]] /\ b \notin visited
                            /\ visited' = visited \cup {b}
                            /\ stack' = Append(stack, b)
      BY <1>0, <1>1, <2>1, SuccType DEF VisitSuccessor
  <2>3. /\ Len(stack') = n + 1 /\ stack'[n + 1] = b
        /\ \A i \in 1..n : stack'[i] = stack[i]
        /\ stack' # <<>>
      BY <1>0, <2>2, AppendProperties DEF TypeOK
  <2>4. UNCHANGED <<pc, succ, reverse_post_order, post_order_id>>
      BY <1>1 DEF VisitSuccessor
  <2>5. \A i \in 1..n : stack[i] \in Blocks
      BY <1>0, ElementOfSeq DEF TypeOK
  <2> HIDE DEF n
  <2>6. /\ \A i \in 1..n + 1 : i \in 1..n \/ i = n + 1
        /\ n \in 1..n /\ n + 1 \in 1..n + 1
        /\ \A i \in 1..n : i \in 1..n + 1
      BY <2>1
  <2>7. stack[n] \in visited
      BY <2>1, <2>6 DEF WalkInv, n
  <2>8. \A x \in visited' : Reachable(x)' /\ (Ordered(x)' \/ OnStack(x)')
    <3>1. Reachable(b)
        BY <1>0, <2>1, <2>2, <2>5, <2>6, <2>7, ReachableStep DEF DfsInv, Reachable
    <3>2. OnStack(b)'
        BY <2>3, <2>6 DEF OnStack
    <3>3. \A x : OnStack(x) => OnStack(x)'
        BY <2>3, <2>6 DEF OnStack, n
    <3>4. \A x : (Ordered(x)' <=> Ordered(x)) /\ (Reachable(x)' <=> Reachable(x))
        BY <2>4 DEF Ordered, Size, Reachable
    <3> QED
        BY <2>1, <2>2, <3>1, <3>2, <3>3, <3>4 DEF DfsInv
  <2>9. \A i, j \in 1..n + 1 : i < j => Path(succ, Blocks, stack'[i], stack'[j])
    <3> SUFFICES ASSUME NEW i \in 1..n + 1, NEW j \in 1..n + 1, i < j
                 PROVE  Path(succ, Blocks, stack'[i], stack'[j])
        OBVIOUS
    <3>1. i \in 1..n
        BY <2>1
    <3>2. CASE j \in 1..n
        BY <2>1, <2>3, <3>1, <3>2 DEF DfsInv, n
    <3>3. CASE j = n + 1
      <4>1. i = n \/ Path(succ, Blocks, stack[i], stack[n])
          BY <2>1, <2>6, <3>1 DEF DfsInv, n
      <4> QED
          BY <1>0, <2>2, <2>3, <2>5, <2>6, <3>1, <3>3, <4>1, PathToSuccessor
    <3> QED
        BY <2>6, <3>2, <3>3
  <2>10. \A i \in 1..Size : \A x \in succ[reverse_post_order[i]] :
         /\ x \in visited'
         /\ \/ \E k \in 1..i - 1 : reverse_post_order[k] = x
            \/ Path(succ, Blocks, x, reverse_post_order[i])
      BY <2>1, <2>2 DEF DfsInv
  <2>11. Size' = Size
      BY <2>4 DEF Size
  <2> QED
      BY ONLY <2>3, <2>4, <2>8, <2>9, <2>10, <2>11 DEF DfsInv
<1>2. CASE FinishVisit
  <2> DEFINE last == stack[n]
  <2>1. /\ InWalk /\ stack # <<>> /\ last \in Blocks /\ n \in Nat \ {0}
        /\ Last(stack) = last
        /\ Front(stack) \in Seq(Blocks) /\ Len(Front(stack)) = n - 1
        /\ \A i \in 1..n - 1 : Front(stack)[i] = stack[i]
      BY <1>0, <1>2, FrontLast DEF FinishVisit, TypeOK, InWalk
  <2>2. /\ stack' = Front(stack) /\ reverse_post_order' = Append(reverse_post_order, last)
        /\ succ[last] \subseteq visited
        /\ UNCHANGED <<pc, succ, visited>>
      BY <1>2, <2>1 DEF FinishVisit, Size
  <2>3. /\ Size' = Size + 1 /\ reverse_post_order'[Size + 1] = last
        /\ \A i \in 1..Size : reverse_post_order'[i] = reverse_post_order[i]
      BY <1>0, <2>1, <2>2, AppendProperties DEF TypeOK, Size
  <2>4. /\ Len(stack') = n - 1 /\ \A i \in 1..n - 1 : stack'[i] = stack[i]
      BY <2>1, <2>2
  <2> HIDE DEF n, last
  <2>5. /\ \A i \in 1..Size + 1 : i \in 1..Size \/ i = Size + 1
        /\ \A i \in 1..Size : i \in 1..Size + 1
        /\ Size + 1 \in 1..Size + 1
        /\ \A i \in 1..n - 1 : i \in 1..n /\ i # n
        /\ \A i \in 1..n : i # n => i \in 1..n - 1
        /\ n \in 1..n
      BY <1>0, <2>1
  <2>6. \A x \in visited' : Reachable(x)' /\ (Ordered(x)' \/ OnStack(x)')
    <3> TAKE x \in visited'
    <3>1. Reachable(x)'
        BY <2>1, <2>2 DEF DfsInv, Reachable
    <3>2. CASE Ordered(x)
        BY <2>3, <2>5, <3>1, <3>2 DEF Ordered
    <3>3. CASE OnStack(x)
      <4>1. PICK i \in 1..n : stack[i] = x
          BY <3>3 DEF OnStack, n
      <4>2. CASE i = n
          BY <2>3, <2>5, <3>1, <4>1, <4>2 DEF Ordered, last
      <4>3. CASE i # n
          BY <2>4, <2>5, <3>1, <4>1, <4>3 DEF OnStack
      <4> QED
          BY <4>2, <4>3
    <3> QED
        BY <2>1, <2>2, <3>1, <3>2, <3>3 DEF DfsInv
  <2>7. \A i, j \in 1..n - 1 : i < j => Path(succ, Blocks, stack'[i], stack'[j])
      BY <2>1, <2>4, <2>5 DEF DfsInv, n
  <2>8. \A i \in 1..Size + 1 : \A x \in succ[reverse_post_order'[i]] :
         /\ x \in visited
         /\ \/ \E k \in 1..i - 1 : reverse_post_order'[k] = x
            \/ Path(succ, Blocks, x, reverse_post_order'[i])
    <3> SUFFICES ASSUME NEW i \in 1..Size + 1, NEW x \in succ[reverse_post_order'[i]]
                 PROVE  /\ x \in visited
                        /\ \/ \E k \in 1..i - 1 : reverse_post_order'[k] = x
                           \/ Path(succ, Blocks, x, reverse_post_order'[i])
        OBVIOUS
    <3>1. CASE i \in 1..Size
      <4>1. reverse_post_order'[i] = reverse_post_order[i]
            /\ \A k \in 1..i - 1 : reverse_post_order'[k] = reverse_post_order[k]
          BY <1>0, <2>3, <3>1
      <4>2. /\ x \in visited
            /\ \/ \E k \in 1..i - 1 : reverse_post_order[k] = x
               \/ Path(succ, Blocks, x, reverse_post_order[i])
          BY <2>1, <3>1, <4>1 DEF DfsInv
      <4> QED
          BY <4>1, <4>2
    <3>2. CASE i = Size + 1
      <4>1. reverse_post_order'[i] = last /\ x \in succ[last] /\ x \in visited
          BY <2>2, <2>3, <3>2
      <4>2. CASE Ordered(x)
        <5>0. i - 1 = Size
            BY <1>0, <3>2
        <5>1. PICK k \in 1..Size : reverse_post_order[k] = x
            BY <4>2 DEF Ordered
        <5>2. k \in 1..i - 1 /\ reverse_post_order'[k] = x
            BY <2>3, <5>0, <5>1
        <5> QED
            BY <4>1, <5>2
      <4>3. CASE OnStack(x)
        <5>1. PICK k \in 1..n : stack[k] = x
            BY <4>3 DEF OnStack, n
        <5>2. k = n \/ Path(succ, Blocks, x, last)
            BY <2>1, <2>5, <5>1 DEF DfsInv, n, last
        <5>3. Path(succ, Blocks, x, last)
            BY <1>0, <2>1, <4>1, <5>1, <5>2, PathToSuccessor DEF last
        <5> QED
            BY <4>1, <5>3
      <4> QED
          BY <2>1, <4>1, <4>2, <4>3 DEF DfsInv
    <3> QED
        BY <2>5, <3>1, <3>2
  <2>9. ASSUME stack' = <<>> PROVE Size + 1 > 0 /\ reverse_post_order'[Size + 1] = Entry
    <3>1. n - 1 = 0
        BY <2>4, <2>9, EmptySeq
    <3>2. last = Entry
        BY <2>1, <3>1 DEF WalkInv, last
    <3> QED
        BY <1>0, <2>3, <3>2
  <2> QED
      BY ONLY <2>2, <2>3, <2>4, <2>6, <2>7, <2>8, <2>9 DEF DfsInv
<1>3. CASE StartIdom
    BY <1>3 DEF StartIdom, DfsInv, InWalk
<1>4. CASE UNCHANGED vars
  <2>1. UNCHANGED <<pc, succ, visited, stack, reverse_post_order>>
      BY <1>4 DEF vars
  <2>2. \A b : /\ Reachable(b)' <=> Reachable(b)
               /\ Ordered(b)' <=> Ordered(b)
               /\ OnStack(b)' <=> OnStack(b)
      BY <2>1 DEF Size, Ordered, OnStack, Reachable
  <2> QED
      BY <2>1, <2>2 DEF DfsInv, InWalk, Size
<1>5. CASE ~InWalk
    BY <1>5, AfterWalk DEF DfsInv
<1> QED
    BY <1>1, <1>2, <1>3, <1>4, <1>5, WalkSteps


LEMMA RpoInvStep == TypeInv /\ WalkInv /\ DfsInv /\ RpoInv /\ [Next]_vars => RpoInv'
<1> SUFFICES ASSUME TypeInv, WalkInv, DfsInv, RpoInv, [Next]_vars PROVE RpoInv'
    OBVIOUS
<1>0. Size \in Nat /\ reverse_post_order \in Seq(Blocks) /\ succ \in CFGs
      /\ succ' \in CFGs /\ Entry \in Blocks
    BY LenProperties, TypeInvStep, BlocksAssumption
    DEF TypeInv, TypeOK, Size, BlocksAssumption
<1>1. CASE StartIdom
  <2>1. /\ Size' = Size
        /\ \A i \in 1..Size : reverse_post_order'[i] = reverse_post_order[(Size - i) + 1]
        /\ UNCHANGED succ
      BY <1>0, <1>1, ReverseSeq DEF StartIdom, Size
  <2>2. InWalk /\ stack = <<>> /\ Len(stack) = 0
      BY <1>1, EmptySeq DEF StartIdom, InWalk
  <2>3. \A i \in 1..Size : /\ (Size - i) + 1 \in 1..Size
                           /\ (Size - ((Size - i) + 1)) + 1 = i
      BY <1>0
  <2>4. \A b : Ordered(b)' <=> Ordered(b)
      BY <2>1, <2>3 DEF Ordered
  <2>5. \A b \in visited : Reachable(b) /\ Ordered(b)
      BY <2>2 DEF DfsInv, OnStack
  <2>6. ASSUME NEW b \in Blocks PROVE Ordered(b)' <=> Reachable(b)'
    <3> DEFINE S == {x \in Blocks : Ordered(x)}
    <3>1. Entry \in S
        BY <1>0, <2>2 DEF WalkInv
    <3>2. \A s \in S : succ[s] \subseteq S
      <4> SUFFICES ASSUME NEW s \in S, NEW x \in succ[s] PROVE x \in S
          OBVIOUS
      <4>1. PICK i \in 1..Size : reverse_post_order[i] = s
          BY DEF Ordered
      <4> QED
          BY <2>2, <2>5, <4>1, <1>0, GraphType DEF DfsInv
    <3>3. Reachable(b) => Ordered(b)
      <4> SUFFICES ASSUME Reachable(b) PROVE b \in S
          OBVIOUS
      <4> HIDE DEF S
      <4>1. S \in SUBSET Blocks
          BY DEF S
      <4> QED
          BY <1>0, <3>1, <3>2, <4>1, ReachableInClosed DEF Reachable
    <3>4. Ordered(b) => Reachable(b)
        BY <2>2, <2>5 DEF WalkInv, Ordered
    <3> QED
        BY <2>1, <2>4, <3>3, <3>4 DEF Reachable
  <2>7. Size > 0 /\ reverse_post_order'[1] = Entry
    <3>1. Size > 0 /\ reverse_post_order[Size] = Entry
        BY <2>2 DEF DfsInv
    <3>2. 1 \in 1..Size /\ (Size - 1) + 1 = Size
        BY <1>0, <3>1
    <3> QED
        BY <2>1, <3>1, <3>2
  <2>8. ASSUME NEW i \in 1..Size, NEW b \in succ[reverse_post_order'[i]]
        PROVE  \/ \E k \in i + 1..Size : reverse_post_order'[k] = b
               \/ Path(succ, Blocks, b, reverse_post_order'[i])
    <3> DEFINE m == (Size - i) + 1
    <3>1. m \in 1..Size /\ reverse_post_order'[i] = reverse_post_order[m]
        BY <2>1, <2>3
    <3> HIDE DEF m
    <3>2. \/ \E k \in 1..m - 1 : reverse_post_order[k] = b
          \/ Path(succ, Blocks, b, reverse_post_order[m])
        BY <2>2, <2>8, <3>1 DEF DfsInv
    <3>3. ASSUME NEW k \in 1..m - 1, reverse_post_order[k] = b
          PROVE  \E j \in i + 1..Size : reverse_post_order'[j] = b
      <4>1. (Size - k) + 1 \in i + 1..Size /\ (Size - ((Size - k) + 1)) + 1 = k
            /\ (Size - k) + 1 \in 1..Size
          BY <1>0, <3>3 DEF m
      <4> QED
          BY <2>1, <3>3, <4>1
    <3> QED
        BY <3>1, <3>2, <3>3
  <2> QED
      BY <2>1, <2>6, <2>7, <2>8 DEF RpoInv
<1>2. CASE InWalk /\ ~StartIdom
    BY <1>2, InsideWalk DEF RpoInv
<1>3. CASE ~InWalk
  <2>1. UNCHANGED <<succ, reverse_post_order>> /\ ~InWalk'
      BY <1>3, AfterWalk
  <2>2. \A b : (Ordered(b)' <=> Ordered(b)) /\ (Reachable(b)' <=> Reachable(b))
      BY <2>1 DEF Ordered, Size, Reachable
  <2> QED
      BY <1>3, <2>1, <2>2 DEF RpoInv, Size
<1> QED
    BY <1>1, <1>2, <1>3

RpoIInv == IdomInv /\ DfsInv /\ RpoInv

LEMMA RpoInvariant == Spec => []RpoIInv
<1>1. Init => RpoIInv
    BY IdomInvInit, DfsInvInit DEF Init, RpoIInv, RpoInv, InWalk
<1>2. RpoIInv /\ [Next]_vars => RpoIInv'
    BY DfsInvStep, RpoInvStep, TypeInvStep, WalkInvStep, OrderInvStep, ClimbInvStep,
       PassInvStep, FoldInvStep DEF RpoIInv, IdomInv
<1> QED
    BY <1>1, <1>2, PTL DEF Spec

\* The walk numbers exactly the reachable blocks, the entry highest, and only
\* an edge that closes a cycle goes up in the numbering, for every graph.
THEOREM WalkIsReversePostOrder == Spec => []ReversePostOrder
<1>1. ASSUME RpoIInv, Numbered PROVE ReversePostOrder
  <2>0. Size \in Nat /\ reverse_post_order \in Seq(Blocks) /\ ~InWalk
        /\ succ \in CFGs /\ \A i \in 1..Size : reverse_post_order[i] \in Blocks
      BY <1>1, LenProperties, ElementOfSeq
      DEF RpoIInv, IdomInv, TypeInv, TypeOK, Size, Numbered, InWalk
  <2>1. \A b : b \in Finished <=> Ordered(b)
      BY <2>0, RangeEquality DEF Finished, Ordered, Size
  <2>2. \A i \in 1..Size : post_order_id[reverse_post_order[i]] = Size - i
      BY <1>1, <2>0 DEF RpoIInv, IdomInv, OrderInv
  <2>3. Finished = {b \in Blocks : Reachable(b)}
      BY <1>1, <2>0, <2>1 DEF RpoIInv, RpoInv, Ordered
  <2>4. ASSUME NEW b \in Finished \ {Entry} PROVE post_order_id[b] < post_order_id[Entry]
    <3>1. PICK i \in 1..Size : reverse_post_order[i] = b
        BY <2>1 DEF Ordered
    <3>2. Size > 0 /\ reverse_post_order[1] = Entry /\ i # 1
        BY <1>1, <2>0, <3>1 DEF RpoIInv, RpoInv
    <3>3. 1 \in 1..Size
        BY <2>0, <3>2
    <3>4. post_order_id[b] = Size - i /\ post_order_id[Entry] = Size - 1
        BY <2>2, <3>1, <3>2, <3>3
    <3> QED
        BY <2>0, <3>2, <3>4
  <2>5. ASSUME NEW i \in 1..Size, NEW j \in 1..Size, i < j
        PROVE  post_order_id[reverse_post_order[i]] > post_order_id[reverse_post_order[j]]
    <3>1. /\ post_order_id[reverse_post_order[i]] = Size - i
          /\ post_order_id[reverse_post_order[j]] = Size - j
        BY <2>2
    <3> QED
        BY <2>0, <2>5, <3>1
  <2>6. ASSUME NEW a \in Finished, NEW b \in succ[a], post_order_id[a] <= post_order_id[b]
        PROVE  Path(succ, Blocks, b, a)
    <3>1. PICK i \in 1..Size : reverse_post_order[i] = a
        BY <2>1 DEF Ordered
    <3>2. ASSUME NEW k \in i + 1..Size, reverse_post_order[k] = b PROVE FALSE
      <4>1. k \in 1..Size /\ i < k
          BY <2>0
      <4>2. post_order_id[a] = Size - i /\ post_order_id[b] = Size - k
          BY <2>2, <3>1, <3>2, <4>1
      <4> QED
          BY <2>0, <2>6, <4>1, <4>2
    <3> QED
        BY <1>1, <2>0, <2>6, <3>1, <3>2 DEF RpoIInv, RpoInv
  <2> QED
      BY <2>3, <2>4, <2>5, <2>6 DEF ReversePostOrder, Size
<1>2. RpoIInv => ReversePostOrder
    BY <1>1 DEF ReversePostOrder
<1> QED
    BY <1>2, RpoInvariant, PTL

-----------------------------------------------------------------------------
(***************************************************************************)
(* Chains: what is met from a block by following idom.                     *)
(***************************************************************************)

\* y is x or is met by following f from x: every set that holds x and is
\* closed under f holds y.
OnChain(f, y, x) ==
    \A S \in SUBSET MaybeBlock : x \in S /\ (\A s \in S : f[s] \in S) => y \in S

Chain(y, x) == OnChain(idom, y, x)

Maps == [MaybeBlock -> MaybeBlock]

LEMMA ChainSelf == \A f, x : OnChain(f, x, x)
    BY DEF OnChain

\* A chain goes on with f, and the chain of what is on a chain is part of it.
LEMMA ChainNext ==
    ASSUME NEW f, NEW x, NEW y, OnChain(f, y, x)
    PROVE  OnChain(f, f[y], x)
    BY DEF OnChain

LEMMA ChainTrans ==
    ASSUME NEW f, NEW x, NEW y, NEW z, OnChain(f, y, x), OnChain(f, z, y)
    PROVE  OnChain(f, z, x)
    BY DEF OnChain

\* Above x the chain of x is the chain of f[x].
LEMMA ChainStep ==
    ASSUME NEW f \in Maps, NEW x \in MaybeBlock, NEW y, OnChain(f, y, x), y # x
    PROVE  OnChain(f, y, f[x])
<1> SUFFICES ASSUME NEW S \in SUBSET MaybeBlock, f[x] \in S, \A s \in S : f[s] \in S
             PROVE  y \in S
    BY DEF OnChain
<1>1. S \cup {x} \in SUBSET MaybeBlock
    OBVIOUS
<1> QED
    BY <1>1 DEF OnChain

\* Two blocks on one chain: one is on the chain of the other.
LEMMA ChainLinear ==
    ASSUME NEW f \in Maps, NEW x \in MaybeBlock, NEW y, NEW z,
           OnChain(f, y, x), OnChain(f, z, x)
    PROVE  OnChain(f, y, z) \/ OnChain(f, z, y)
<1> DEFINE S == {w \in MaybeBlock : OnChain(f, z, w) \/ OnChain(f, w, z)}
<1>1. x \in S
    OBVIOUS
<1>2. ASSUME NEW w \in S PROVE f[w] \in S
  <2>1. f[w] \in MaybeBlock
      BY DEF Maps
  <2>2. CASE OnChain(f, w, z)
      BY <2>1, <2>2, ChainNext
  <2>3. CASE OnChain(f, z, w) /\ w # z
      BY <2>1, <2>3, ChainStep
  <2> QED
      BY <2>2, <2>3, ChainSelf
<1>3. S \in SUBSET MaybeBlock
    OBVIOUS
<1> HIDE DEF S
<1>4. y \in S
    BY <1>1, <1>2, <1>3 DEF OnChain
<1> QED
    BY <1>4 DEF S

(***************************************************************************)
(* How chains change when f changes at c: below c not at all, elsewhere    *)
(* what lay above c is replaced by the chain of the new f[c].              *)
(***************************************************************************)
LEMMA ChainUntouched ==
    ASSUME NEW f \in Maps, NEW c, NEW v \in MaybeBlock, NEW x, ~OnChain(f, c, x)
    PROVE  \A y : OnChain([f EXCEPT ![c] = v], y, x) <=> OnChain(f, y, x)
<1> DEFINE h == [f EXCEPT ![c] = v]
<1>1. PICK U \in SUBSET MaybeBlock : x \in U /\ (\A s \in U : f[s] \in U) /\ c \notin U
    BY DEF OnChain
<1>2. \A s \in U : h[s] = f[s]
    BY <1>1 DEF Maps
<1> HIDE DEF h
<1>3. ASSUME NEW y, OnChain(h, y, x), NEW S \in SUBSET MaybeBlock, x \in S, \A s \in S : f[s] \in S
      PROVE  y \in S
  <2>1. S \cap U \in SUBSET MaybeBlock /\ x \in S \cap U /\ \A s \in S \cap U : h[s] \in S \cap U
      BY <1>1, <1>2, <1>3
  <2>2. y \in S \cap U
      BY <1>3, <2>1 DEF OnChain
  <2> QED
      BY <2>2
<1>4. ASSUME NEW y, OnChain(f, y, x), NEW S \in SUBSET MaybeBlock, x \in S, \A s \in S : h[s] \in S
      PROVE  y \in S
  <2>1. S \cap U \in SUBSET MaybeBlock /\ x \in S \cap U /\ \A s \in S \cap U : f[s] \in S \cap U
      BY <1>1, <1>2, <1>4
  <2>2. y \in S \cap U
      BY <1>4, <2>1 DEF OnChain
  <2> QED
      BY <2>2
<1>5. \A y : OnChain(h, y, x) => OnChain(f, y, x)
    BY <1>3 DEF OnChain
<1>6. \A y : OnChain(f, y, x) => OnChain(h, y, x)
    BY <1>4 DEF OnChain
<1> QED
    BY <1>5, <1>6 DEF h

LEMMA ChainBelow ==
    ASSUME NEW f \in Maps, NEW c \in MaybeBlock, NEW v \in MaybeBlock, NEW x \in MaybeBlock,
           NEW y, OnChain([f EXCEPT ![c] = v], y, x), OnChain(f, c, x)
    PROVE  \/ OnChain(f, y, x) /\ OnChain(f, c, y)
           \/ OnChain([f EXCEPT ![c] = v], y, v)
<1> DEFINE h == [f EXCEPT ![c] = v]
           S == {w \in MaybeBlock : \/ OnChain(f, w, x) /\ OnChain(f, c, w)
                                    \/ OnChain(h, w, v)}
<1>1. h \in Maps /\ h[c] = v /\ \A s \in MaybeBlock : s # c => h[s] = f[s]
    BY DEF Maps
<1> HIDE DEF h
<1>2. x \in S
    BY ChainSelf
<1>3. ASSUME NEW w \in S PROVE h[w] \in S
  <2>1. h[w] \in MaybeBlock
      BY <1>1 DEF Maps
  <2>2. CASE OnChain(h, w, v)
      BY <2>1, <2>2, ChainNext
  <2>3. CASE OnChain(f, w, x) /\ OnChain(f, c, w) /\ w # c
    <3>1. h[w] = f[w]
        BY <1>1, <2>3
    <3> QED
        BY <2>1, <2>3, <3>1, ChainNext, ChainStep
  <2>4. CASE w = c
      BY <1>1, <2>1, <2>4, ChainSelf
  <2> QED
      BY <2>2, <2>3, <2>4
<1>4. S \in SUBSET MaybeBlock
    OBVIOUS
<1> HIDE DEF S
<1>5. y \in S
    BY <1>2, <1>3, <1>4 DEF OnChain, h
<1> QED
    BY <1>5 DEF S, h

LEMMA ChainKept ==
    ASSUME NEW f \in Maps, NEW c \in MaybeBlock, NEW v \in MaybeBlock, NEW x \in MaybeBlock,
           NEW y, OnChain(f, y, x), OnChain(f, c, y), ~OnChain(f, c, f[c])
    PROVE  OnChain([f EXCEPT ![c] = v], y, x)
<1> DEFINE h == [f EXCEPT ![c] = v]
<1>1. \A s \in MaybeBlock : s # c => h[s] = f[s]
    BY DEF Maps
<1> HIDE DEF h
<1> SUFFICES ASSUME NEW S \in SUBSET MaybeBlock, x \in S, \A s \in S : h[s] \in S
             PROVE  y \in S
    BY DEF OnChain, h
<1> DEFINE T == {w \in MaybeBlock : OnChain(f, c, w) => w \in S}
<1>2. ASSUME NEW w \in T PROVE f[w] \in T
  <2>1. f[w] \in MaybeBlock
      BY DEF Maps
  <2> SUFFICES ASSUME OnChain(f, c, f[w]) PROVE f[w] \in S
      BY <2>1
  <2>2. w # c
      OBVIOUS
  <2>3. OnChain(f, c, w)
      BY ChainSelf, ChainNext, ChainTrans
  <2> QED
      BY <1>1, <2>2, <2>3
<1>3. x \in T /\ T \in SUBSET MaybeBlock
    OBVIOUS
<1> HIDE DEF T
<1>4. y \in T
    BY <1>2, <1>3 DEF OnChain
<1> QED
    BY <1>4 DEF T

LEMMA ChainAbove ==
    ASSUME NEW f \in Maps, NEW c \in MaybeBlock, NEW v \in MaybeBlock, NEW x \in MaybeBlock,
           OnChain(f, c, x), ~OnChain(f, c, f[c]),
           NEW y, OnChain([f EXCEPT ![c] = v], y, v)
    PROVE  OnChain([f EXCEPT ![c] = v], y, x)
<1> DEFINE h == [f EXCEPT ![c] = v]
<1>1. OnChain(h, c, x) /\ h[c] = v
    BY ChainKept, ChainSelf DEF Maps
<1> HIDE DEF h
<1>2. OnChain(h, v, x)
    BY <1>1, ChainNext
<1> QED
    BY <1>2, ChainTrans DEF h

-----------------------------------------------------------------------------
(***************************************************************************)
(* The inductive invariant of the iteration.                               *)
(***************************************************************************)
Folding == pc \in {"fold", "intersect"}
Iterating == pc \in {"create_idom", "fold", "intersect"}
Folded == PredsWithIdom(Current) \ rest

\* A block gets an idom after every block before it.
PrefixInv ==
    \A i \in 1..Size : ~InWalk /\ HasIdom(reverse_post_order[i]) =>
        \A k \in 1..i : HasIdom(reverse_post_order[k])

\* No dominator is ever skipped: a strict dominator of b dominates b's idom.
DominatorInv == ~InWalk =>
    \A b \in Blocks \ {Entry} : HasIdom(b) =>
        \A c \in Blocks : StrictDom(c, b) => Dom(c, idom[b])

\* While a block's predecessors are folded, new_idom (with b1, inside
\* intersect) is on the chain of those folded in, everything on all their
\* chains is on its chain, and no strict dominator of the block is lost.
MergeInv == Folding =>
    /\ \A p \in Folded : Chain(new_idom, p) \/ (pc = "intersect" /\ Chain(b1, p))
    /\ \A y \in Blocks : (\A p \in Folded : Chain(y, p)) =>
         Chain(y, new_idom) /\ (pc = "intersect" => Chain(y, b1))
    /\ \A c \in Blocks : StrictDom(c, Current) =>
         Dom(c, new_idom) /\ (pc = "intersect" => Dom(c, b1))

\* The block's idom is on the chain of every predecessor that has an idom.
Settled(b) == \A p \in PredsWithIdom(b) : Chain(idom[b], p)

\* As long as a pass changes nothing the blocks it is done with are settled;
\* when the iteration ends every block is, and has an idom.
SettledInv ==
    /\ Iterating /\ ~changed =>
         \A i \in 1..Size : i < pos /\ reverse_post_order[i] # Entry =>
             Settled(reverse_post_order[i])
    /\ IdomsFinal =>
         \A i \in 1..Size :
             /\ HasIdom(reverse_post_order[i])
             /\ reverse_post_order[i] # Entry => Settled(reverse_post_order[i])

\* What is on the chains of all predecessors is on the chain of the idom, even
\* when the idom is out of date.
MeetInv == ~InWalk =>
    \A b \in Blocks \ {Entry} : HasIdom(b) =>
        \A y \in Blocks : (\A p \in PredsWithIdom(b) : Chain(y, p)) => Chain(y, idom[b])

\* The chain of a block's idom is part of the chain of each predecessor earlier
\* in the order, up to blocks that have had their turn in this pass when the
\* block has not.
ForwardInv == Iterating =>
    \A i \in 1..Size : \A k \in 1..i - 1 :
        HasIdom(reverse_post_order[i]) /\ reverse_post_order[i] \in succ[reverse_post_order[k]] =>
            \A j \in 1..Size :
                /\ i < pos \/ pos <= j
                /\ Chain(reverse_post_order[j], idom[reverse_post_order[i]])
                => Chain(reverse_post_order[j], reverse_post_order[k])

-----------------------------------------------------------------------------
(***************************************************************************)
(* Facts about one state.                                                  *)
(***************************************************************************)

\* What the blocks, the order and the ideal idom look like after the walk.
LEMMA AfterWalkTypes ==
    ASSUME RpoIInv, ~InWalk
    PROVE  /\ succ \in CFGs /\ idom \in Maps
           /\ Entry \in Blocks /\ Null \notin Blocks
           /\ Size \in Nat
           /\ \A i \in 1..Size : reverse_post_order[i] \in Blocks
           /\ \A i \in 1..Size : post_order_id[reverse_post_order[i]] = Size - i
           /\ \A b \in Blocks : post_order_id[b] \in Nat
           /\ Size > 0 /\ reverse_post_order[1] = Entry
           /\ idom[Null] = Null /\ idom[Entry] = Entry
           /\ pos \in Nat \ {0}
    BY LenProperties, ElementOfSeq, BlocksAssumption
    DEF RpoIInv, RpoInv, IdomInv, TypeInv, TypeOK, OrderInv, ClimbInv, Size, Maps,
        BlocksAssumption

LEMMA IdomHigher ==
    ASSUME RpoIInv, ~InWalk, NEW b, HasIdom(b)
    PROVE  /\ b \in Blocks /\ Ordered(b) /\ HasIdom(idom[b]) /\ idom[b] \in Blocks
           /\ b # Entry => post_order_id[b] < post_order_id[idom[b]]
    BY DEF RpoIInv, IdomInv, ClimbInv, HasIdom

\* The places of the order are told apart by their blocks' numbers.
LEMMA PlaceByNumber ==
    ASSUME RpoIInv, ~InWalk, NEW i \in 1..Size, NEW j \in 1..Size
    PROVE  /\ post_order_id[reverse_post_order[i]] < post_order_id[reverse_post_order[j]]
                 <=> j < i
           /\ reverse_post_order[i] = reverse_post_order[j] <=> i = j
<1>1. /\ post_order_id[reverse_post_order[i]] = Size - i
      /\ post_order_id[reverse_post_order[j]] = Size - j
      /\ Size \in Nat
    BY AfterWalkTypes
<1> QED
    BY <1>1

\* The chain of a block with an idom climbs, among blocks that have an idom.
LEMMA ChainUp ==
    ASSUME RpoIInv, ~InWalk, NEW x, HasIdom(x), NEW y, Chain(y, x)
    PROVE  HasIdom(y) /\ (y = x \/ post_order_id[x] < post_order_id[y])
<1> DEFINE S == {z \in Blocks : HasIdom(z) /\ (z = x \/ post_order_id[x] < post_order_id[z])}
<1>0. x \in Blocks /\ \A b \in Blocks : post_order_id[b] \in Nat
    BY AfterWalkTypes DEF HasIdom
<1>1. ASSUME NEW z \in S PROVE idom[z] \in S
  <2>1. HasIdom(idom[z]) /\ idom[z] \in Blocks
      BY IdomHigher
  <2>2. CASE z = Entry
      BY <2>2, <1>0, AfterWalkTypes
  <2>3. CASE z # Entry
    <3>1. post_order_id[z] < post_order_id[idom[z]]
        BY <2>3, IdomHigher
    <3> QED
        BY <1>0, <2>1, <3>1
  <2> QED
      BY <2>2, <2>3
<1>2. x \in S /\ S \in SUBSET MaybeBlock
    BY <1>0
<1> HIDE DEF S
<1>3. y \in S
    BY <1>1, <1>2 DEF Chain, OnChain
<1> QED
    BY <1>3 DEF S

\* A strict dominator of an ordered block comes before it in the order: the
\* blocks up to it are reached along the walk without any later block.
LEMMA DominatorsEarlier ==
    ASSUME RpoIInv, ~InWalk, NEW i \in 1..Size, NEW c \in Blocks,
           StrictDom(c, reverse_post_order[i])
    PROVE  \E k \in 1..i - 1 : reverse_post_order[k] = c
<1> USE AfterWalkTypes
<1> DEFINE b == reverse_post_order[i]
<1>1. CASE c = Entry
  <2>1. i # 1
      BY <1>1 DEF StrictDom, StrictlyDominates
  <2>2. 1 \in 1..i - 1
      BY <2>1
  <2> QED
      BY <1>1, <2>2
<1>2. CASE c # Entry
  <2> SUFFICES ASSUME \A k \in 1..i - 1 : reverse_post_order[k] # c PROVE FALSE
      OBVIOUS
  <2>1. PICK S \in SUBSET (Blocks \ {c, b}) :
           Entry \in S /\ \A s \in S : succ[s] \subseteq S \cup {c}
      BY <1>2 DEF StrictDom, StrictlyDominates, Dominates
  <2> DEFINE Out == {k \in 1..i : reverse_post_order[k] \notin S}
  <2>2. i \in Out /\ Out \in SUBSET Nat
      BY <2>1
  <2>3. PICK k \in Out : \A m \in Out : k <= m
      BY <2>2, LeastNumber
  <2>4. k \in 1..Size /\ reverse_post_order[k] # Entry
      BY <2>1, <2>3
  <2>5. PICK m \in 1..k - 1 : reverse_post_order[k] \in succ[reverse_post_order[m]]
      BY <2>4 DEF RpoIInv, IdomInv, OrderInv
  <2>6. m \in 1..i /\ m < k
      BY <2>3
  <2>7. reverse_post_order[m] \in S
      BY <2>3, <2>6
  <2>8. reverse_post_order[k] = c
      BY <2>1, <2>3, <2>5, <2>7
  <2>9. k = i \/ k \in 1..i - 1
      BY <2>3
  <2> QED
      BY <2>8, <2>9 DEF StrictDom, StrictlyDominates
<1> QED
    BY <1>1, <1>2

-----------------------------------------------------------------------------
(***************************************************************************)
(* What a step does to chains.                                             *)
(***************************************************************************)
LEMMA StepFrame ==
    ASSUME [Next]_vars, ~InWalk
    PROVE  /\ ~InWalk' /\ Size' = Size
           /\ UNCHANGED <<succ, reverse_post_order, post_order_id>>
           /\ \A c, b : /\ Dom(c, b)' <=> Dom(c, b)
                        /\ StrictDom(c, b)' <=> StrictDom(c, b)
           /\ \A b : Reachable(b)' <=> Reachable(b)
<1>1. ~InWalk' /\ UNCHANGED <<succ, reverse_post_order, post_order_id>>
    BY AfterWalk
<1> QED
    BY <1>1 DEF Size, Dom, StrictDom, Reachable

LEMMA ChainFrame ==
    ASSUME [Next]_vars, ~InWalk, ~SetIdom
    PROVE  /\ idom' = idom
           /\ \A b : HasIdom(b)' <=> HasIdom(b)
           /\ \A b : PredsWithIdom(b)' = PredsWithIdom(b)
           /\ \A y, x : Chain(y, x)' <=> Chain(y, x)
           /\ \A b : Settled(b)' <=> Settled(b)
<1>1. idom' = idom /\ succ' = succ
    BY IdomFrame, AfterWalk
<1>2. \A b : PredsWithIdom(b)' = PredsWithIdom(b)
    BY <1>1 DEF PredsWithIdom, Pre, PreBlocks
<1>3. \A y, x : Chain(y, x)' <=> Chain(y, x)
    BY <1>1 DEF Chain
<1> QED
    BY <1>1, <1>2, <1>3 DEF HasIdom, Settled

\* SetIdom hangs the current block, c, under new_idom.
LEMMA SetIdomEffect ==
    ASSUME RpoIInv, SetIdom, NEW c, c = Current
    PROVE  /\ ~InWalk /\ pos \in 1..Size /\ c = reverse_post_order[pos]
           /\ pos' = pos + 1 /\ rest = {}
           /\ c \in Blocks \ {Entry} /\ HasIdom(new_idom) /\ new_idom \in Blocks
           /\ idom' = [idom EXCEPT ![c] = new_idom]
           /\ idom'[c] = new_idom /\ \A b \in MaybeBlock : b # c => idom'[b] = idom[b]
           /\ \A b : HasIdom(b)' <=> HasIdom(b) \/ b = c
           /\ post_order_id[c] < post_order_id[new_idom]
           /\ ~Chain(c, new_idom) /\ ~Chain(c, idom[c])
<1>1. /\ pc = "fold" /\ ~InWalk /\ pos' = pos + 1 /\ rest = {}
      /\ idom' = [idom EXCEPT ![c] = new_idom]
    BY DEF SetIdom, InWalk
<1>2. /\ c \in Blocks \ {Entry} /\ Ordered(c) /\ HasIdom(new_idom)
      /\ post_order_id[c] < post_order_id[new_idom] /\ pos \in 1..Size
    BY <1>1, NewIdomHigher DEF RpoIInv, IdomInv, FoldInv
<1>3. new_idom \in Blocks /\ idom \in Maps /\ Null \notin Blocks
      /\ \A b \in Blocks : post_order_id[b] \in Nat
    BY <1>1, <1>2, AfterWalkTypes DEF HasIdom
<1>4. idom'[c] = new_idom /\ \A b \in MaybeBlock : b # c => idom'[b] = idom[b]
    BY <1>1, <1>2, <1>3 DEF Maps
<1>5. \A b : HasIdom(b)' <=> HasIdom(b) \/ b = c
    BY <1>2, <1>3, <1>4 DEF HasIdom
<1>6. ~Chain(c, new_idom)
  <2> SUFFICES ASSUME Chain(c, new_idom) PROVE FALSE
      OBVIOUS
  <2>1. c = new_idom \/ post_order_id[new_idom] < post_order_id[c]
      BY <1>1, <1>2, ChainUp
  <2> QED
      BY <1>2, <1>3, <2>1
<1>7. ~Chain(c, idom[c])
  <2> SUFFICES ASSUME Chain(c, idom[c]) PROVE FALSE
      OBVIOUS
  <2>1. CASE HasIdom(c)
    <3>1. HasIdom(idom[c]) /\ idom[c] \in Blocks /\ post_order_id[c] < post_order_id[idom[c]]
        BY <1>1, <1>2, <2>1, IdomHigher
    <3>2. c = idom[c] \/ post_order_id[idom[c]] < post_order_id[c]
        BY <1>1, <3>1, ChainUp
    <3> QED
        BY <1>2, <1>3, <3>1, <3>2
  <2>2. CASE ~HasIdom(c)
    <3>1. idom[c] = Null /\ idom[Null] = Null
        BY <1>1, <1>2, <2>2, AfterWalkTypes DEF HasIdom
    <3>2. {Null} \in SUBSET MaybeBlock /\ \A s \in {Null} : idom[s] \in {Null}
        BY <3>1
    <3>3. c \in {Null}
        BY <3>1, <3>2 DEF Chain, OnChain
    <3> QED
        BY <1>2, <1>3, <3>3
  <2> QED
      BY <2>1, <2>2
<1> QED
    BY <1>1, <1>2, <1>3, <1>4, <1>5, <1>6, <1>7 DEF Current

\* The chains below the current block change above it; the others do not.
LEMMA SetIdomChains ==
    ASSUME RpoIInv, SetIdom, NEW c, c = Current, NEW x \in MaybeBlock, NEW y
    PROVE  /\ ~Chain(c, x) => (Chain(y, x)' <=> Chain(y, x))
           /\ Chain(y, new_idom)' <=> Chain(y, new_idom)
           /\ Chain(c, x) /\ Chain(y, x)' =>
                (Chain(y, x) /\ Chain(c, y)) \/ Chain(y, new_idom)
           /\ Chain(y, x) /\ Chain(c, y) => Chain(y, x)'
           /\ Chain(c, x) /\ Chain(y, new_idom) => Chain(y, x)'
<1>1. /\ c \in MaybeBlock /\ new_idom \in MaybeBlock
      /\ idom' = [idom EXCEPT ![c] = new_idom]
      /\ ~OnChain(idom, c, new_idom) /\ ~OnChain(idom, c, idom[c])
    BY SetIdomEffect DEF Chain
<1>2. idom \in Maps
    BY SetIdomEffect, AfterWalkTypes
<1>3. ~OnChain(idom, c, x) => (OnChain(idom', y, x) <=> OnChain(idom, y, x))
    BY <1>1, <1>2, ChainUntouched
<1>4. OnChain(idom', y, new_idom) <=> OnChain(idom, y, new_idom)
    BY <1>1, <1>2, ChainUntouched
<1>5. OnChain(idom, c, x) /\ OnChain(idom', y, x) =>
        (OnChain(idom, y, x) /\ OnChain(idom, c, y)) \/ OnChain(idom', y, new_idom)
    BY <1>1, <1>2, ChainBelow
<1>6. OnChain(idom, y, x) /\ OnChain(idom, c, y) => OnChain(idom', y, x)
    BY <1>1, <1>2, ChainKept
<1>7. OnChain(idom, c, x) /\ OnChain(idom', y, new_idom) => OnChain(idom', y, x)
    BY <1>1, <1>2, ChainAbove
<1>8. \A z : Chain(y, z)' <=> OnChain(idom', y, z)
    BY DEF Chain
<1>9. Chain(y, new_idom)' <=> OnChain(idom', y, new_idom)
    BY DEF SetIdom, Chain
<1> QED
    BY <1>3, <1>4, <1>5, <1>6, <1>7, <1>8, <1>9 DEF Chain

\* When all predecessors are folded in, new_idom is on all their chains, and on
\* the chain of the idom the block had.
LEMMA NewIdomMeets ==
    ASSUME RpoIInv, MergeInv, MeetInv, SetIdom, NEW c, c = Current
    PROVE  /\ \A p \in PredsWithIdom(c) : Chain(new_idom, p)
           /\ \A y \in Blocks : (\A p \in PredsWithIdom(c) : Chain(y, p)) => Chain(y, new_idom)
           /\ \A d \in Blocks : StrictDom(d, c) => Dom(d, new_idom)
           /\ HasIdom(c) => Chain(new_idom, idom[c])
<1>1. pc = "fold" /\ rest = {} /\ Folded = PredsWithIdom(c)
    BY DEF SetIdom, Folded
<1>2. /\ c \in Blocks \ {Entry} /\ new_idom \in Blocks /\ ~InWalk
    BY SetIdomEffect
<1>3. \A p \in PredsWithIdom(c) : Chain(new_idom, p)
    BY <1>1 DEF MergeInv, Folding
<1>4. HasIdom(c) => Chain(new_idom, idom[c])
    BY <1>2, <1>3 DEF MeetInv
<1> QED
    BY <1>1, <1>3, <1>4 DEF MergeInv, Folding

\* Chains only ever lose blocks.
LEMMA ChainsShrink ==
    ASSUME RpoIInv, MergeInv, MeetInv, SetIdom, NEW x, HasIdom(x), NEW y, Chain(y, x)'
    PROVE  Chain(y, x)
<1> DEFINE c == Current
<1>1. x \in MaybeBlock /\ ~InWalk
    BY SetIdomEffect DEF HasIdom
<1>2. CASE ~Chain(c, x)
    BY <1>1, <1>2, SetIdomChains
<1>3. CASE Chain(c, x)
  <2>1. HasIdom(c)
      BY <1>1, <1>3, ChainUp
  <2>2. Chain(new_idom, idom[c])
      BY <2>1, NewIdomMeets
  <2>3. Chain(idom[c], x)
      BY <1>3, ChainNext DEF Chain
  <2>4. Chain(new_idom, x)
      BY <2>2, <2>3, ChainTrans DEF Chain
  <2>5. Chain(y, new_idom) => Chain(y, x)
      BY <2>4, ChainTrans DEF Chain
  <2> QED
      BY <1>1, <1>3, <2>5, SetIdomChains
<1> QED
    BY <1>2, <1>3

-----------------------------------------------------------------------------
(***************************************************************************)
(* The steps preserve the invariant of the iteration.                      *)
(***************************************************************************)
LEMMA PrefixInvStep == RpoIInv /\ RpoIInv' /\ PrefixInv /\ [Next]_vars => PrefixInv'
<1> SUFFICES ASSUME RpoIInv, RpoIInv', PrefixInv, [Next]_vars PROVE PrefixInv'
    OBVIOUS
<1>1. CASE InWalk /\ ~StartIdom
    BY <1>1, InsideWalk DEF PrefixInv
<1>2. CASE StartIdom
  <2>1. ~InWalk' /\ idom' = [b \in MaybeBlock |-> IF b = Entry THEN Entry ELSE Null]
      BY <1>2 DEF StartIdom, InWalk
  <2>2. \A b : HasIdom(b)' => b = Entry
      BY <2>1 DEF HasIdom
  <2>3. Size' \in Nat /\ Size' > 0 /\ reverse_post_order'[1] = Entry
      BY <2>1, LenProperties DEF RpoIInv, RpoInv, IdomInv, TypeInv, TypeOK, Size
  <2>4. \A i, j \in 1..Size' : reverse_post_order'[i] = reverse_post_order'[j] => i = j
    <3>1. \A i \in 1..Size' : post_order_id'[reverse_post_order'[i]] = Size' - i
        BY <2>1 DEF RpoIInv, IdomInv, OrderInv
    <3> QED
        BY <2>3, <3>1
  <2>5. \A i \in 1..Size' : HasIdom(reverse_post_order[i])' => i = 1
      BY <2>2, <2>3, <2>4
  <2>6. \A k \in 1..1 : k = 1
      OBVIOUS
  <2> QED
      BY <2>5, <2>6 DEF PrefixInv
<1>3. CASE ~InWalk /\ ~SetIdom
    BY <1>3, ChainFrame, StepFrame DEF PrefixInv
<1>4. CASE SetIdom
  <2>1. /\ ~InWalk /\ pos \in 1..Size /\ Current = reverse_post_order[pos]
        /\ \A b : HasIdom(b)' <=> HasIdom(b) \/ b = Current
      BY <1>4, SetIdomEffect
  <2>2. /\ Size' = Size /\ reverse_post_order' = reverse_post_order
        /\ \A i, j \in 1..Size : reverse_post_order[i] = reverse_post_order[j] => i = j
        /\ Size \in Nat
      BY <2>1, StepFrame, PlaceByNumber, AfterWalkTypes
  <2>3. \A i \in 1..Size : i < pos => HasIdom(reverse_post_order[i])
      BY <1>4 DEF RpoIInv, IdomInv, PassInv, SetIdom
  <2>4. \A i \in 1..Size : HasIdom(reverse_post_order[i])'
          <=> HasIdom(reverse_post_order[i]) \/ i = pos
      BY <2>1, <2>2
  <2>5. ASSUME NEW i \in 1..Size, HasIdom(reverse_post_order[i])', NEW k \in 1..i
        PROVE  HasIdom(reverse_post_order[k])'
    <3>1. CASE HasIdom(reverse_post_order[i])
        BY <2>1, <2>2, <2>4, <2>5, <3>1 DEF PrefixInv
    <3>2. CASE i = pos
      <4>1. k \in 1..Size /\ (k < pos \/ k = pos)
          BY <2>2, <3>2
      <4> QED
          BY <2>3, <2>4, <4>1
    <3> QED
        BY <2>4, <2>5, <3>1, <3>2
  <2> QED
      BY <2>2, <2>5 DEF PrefixInv
<1> QED
    BY <1>1, <1>2, <1>3, <1>4

LEMMA DominatorInvStep ==
    RpoIInv /\ MergeInv /\ MeetInv /\ DominatorInv /\ [Next]_vars => DominatorInv'
<1> SUFFICES ASSUME RpoIInv, MergeInv, MeetInv, DominatorInv, [Next]_vars
             PROVE DominatorInv'
    OBVIOUS
<1>1. CASE InWalk /\ ~StartIdom
    BY <1>1, InsideWalk DEF DominatorInv
<1>2. CASE StartIdom
  <2>1. \A b : HasIdom(b)' => b = Entry
      BY <1>2 DEF StartIdom, HasIdom
  <2> QED
      BY <2>1 DEF DominatorInv
<1>3. CASE ~InWalk /\ ~SetIdom
    BY <1>3, ChainFrame, StepFrame DEF DominatorInv
<1>4. CASE SetIdom
  <2>1. /\ ~InWalk
        /\ \A b : HasIdom(b)' <=> HasIdom(b) \/ b = Current
        /\ idom'[Current] = new_idom /\ \A b \in MaybeBlock : b # Current => idom'[b] = idom[b]
      BY <1>4, SetIdomEffect
  <2>2. \A d \in Blocks : StrictDom(d, Current) => Dom(d, new_idom)
      BY <1>4, NewIdomMeets
  <2>3. ASSUME NEW b \in Blocks \ {Entry}, HasIdom(b)', NEW d \in Blocks, StrictDom(d, b)
        PROVE  Dom(d, idom'[b])
      BY <2>1, <2>2, <2>3 DEF DominatorInv
  <2>4. \A e, b : (Dom(e, b)' <=> Dom(e, b)) /\ (StrictDom(e, b)' <=> StrictDom(e, b))
      BY <2>1, StepFrame
  <2> QED
      BY <2>3, <2>4 DEF DominatorInv, Dom, StrictDom
<1> QED
    BY <1>1, <1>2, <1>3, <1>4

LEMMA MergeInvStep ==
    RpoIInv /\ DominatorInv /\ MergeInv /\ [Next]_vars => MergeInv'
<1> SUFFICES ASSUME RpoIInv, DominatorInv, MergeInv, [Next]_vars, Folding'
             PROVE  MergeInv'
    BY DEF MergeInv
<1>0. /\ PickPred \/ CallIntersect \/ ClimbB1 \/ ClimbB2 \/ ReturnIntersect \/ UNCHANGED vars
      /\ ~InWalk /\ ~SetIdom
    BY DEF Next, vars, Folding, InWalk, VisitSuccessor, FinishVisit, StartIdom, SkipRoot,
       PickPred, CallIntersect, ClimbB1, ClimbB2, ReturnIntersect, SetIdom, NextPass,
       StartFrontier, NextJoin, StartRunner, MoveRunner, RunnerDone, CreateDomTreeSucc, Done
<1>1. /\ UNCHANGED <<idom, pos>> /\ Current' = Current
      /\ PredsWithIdom(Current)' = PredsWithIdom(Current)
      /\ \A y, x : Chain(y, x)' <=> Chain(y, x)
      /\ \A c, b : (Dom(c, b)' <=> Dom(c, b)) /\ (StrictDom(c, b)' <=> StrictDom(c, b))
  <2>1. UNCHANGED <<idom, pos, succ, reverse_post_order>>
      BY <1>0 DEF PickPred, CallIntersect, ClimbB1, ClimbB2, ReturnIntersect, vars
  <2>2. PredsWithIdom(Current)' = PredsWithIdom(Current)
      BY <2>1 DEF PredsWithIdom, Pre, PreBlocks, Current
  <2> QED
      BY <1>0, <2>1, <2>2, ChainFrame, StepFrame DEF Current
<1> DEFINE c == Current
           P == PredsWithIdom(c)
           new == new_idom'
           Lower == \A p \in P \ rest' :
                      OnChain(idom, new, p) \/ (pc' = "intersect" /\ OnChain(idom, b1', p))
           Upper == \A y \in Blocks : (\A p \in P \ rest' : Chain(y, p)) =>
                      OnChain(idom, y, new) /\ (pc' = "intersect" => OnChain(idom, y, b1'))
           Doms == \A d \in Blocks : StrictDom(d, c) =>
                      /\ Dominates(succ, d, new)
                      /\ pc' = "intersect" => Dominates(succ, d, b1')
<1>2. ASSUME Lower, Upper, Doms PROVE MergeInv'
  <2>1. UNCHANGED <<idom, succ>>
      BY <1>1, <1>0, AfterWalk
  <2>2. \A p : Chain(new_idom, p)' <=> OnChain(idom, new, p)
      BY <2>1 DEF Chain
  <2>3. \A p : Chain(b1, p)' <=> OnChain(idom, b1', p)
      BY <2>1 DEF Chain
  <2>4. \A y : Chain(y, new_idom)' <=> OnChain(idom, y, new)
      BY <2>1 DEF Chain
  <2>5. \A y : Chain(y, b1)' <=> OnChain(idom, y, b1')
      BY <2>1 DEF Chain
  <2>6. \A d : Dom(d, new_idom)' <=> Dominates(succ, d, new)
      BY <2>1 DEF Dom
  <2>7. \A d : Dom(d, b1)' <=> Dominates(succ, d, b1')
      BY <2>1 DEF Dom
  <2>8. \A d : StrictDom(d, Current)' <=> StrictDom(d, c)
      BY <2>1, <1>1 DEF StrictDom
  <2>9. Folded' = P \ rest' /\ \A y, p : Chain(y, p)' <=> Chain(y, p)
      BY <1>1 DEF Folded
  <2>10. Folding' => pc' \in {"fold", "intersect"}
      BY DEF Folding
  <2> HIDE DEF c, P, new
  <2> QED
      BY <1>2, <2>2, <2>3, <2>4, <2>5, <2>6, <2>7, <2>8, <2>9 DEF MergeInv
<1>3. /\ idom \in Maps /\ c \in Blocks \ {Entry} /\ P \subseteq Blocks
      /\ \A p \in P : HasIdom(p) /\ p \in Pre(c)
      /\ \A b \in Blocks : post_order_id[b] \in Nat
      /\ succ \in CFGs
      /\ pos \in 1..Size
  <2>1. pos \in 1..Size /\ Current # Entry
    <3>1. FoldInv' /\ Size' = Size
        BY FoldInvStep, <1>0, StepFrame DEF RpoIInv
    <3> QED
        BY <3>1, <1>1 DEF FoldInv, Folding
  <2> QED
      BY <1>0, <2>1, AfterWalkTypes DEF Current, PredsWithIdom, Pre, PreBlocks, HasIdom
<1>4. \A d \in Blocks : \A p \in P : StrictDom(d, c) => Dominates(succ, d, p)
    BY <1>3, DominatesPred DEF StrictDom, Pre
<1>5. ASSUME NEW x, HasIdom(x), NEW y, HasIdom(y), post_order_id[x] < post_order_id[y]
      PROVE  /\ \A z \in Blocks : Chain(z, x) /\ Chain(z, y) => Chain(z, idom[x])
             /\ \A p : Chain(x, p) => Chain(idom[x], p)
             /\ \A d \in Blocks : Dom(d, x) /\ Dom(d, y) => Dom(d, idom[x])
             /\ x # Entry
  <2>1. x \in Blocks /\ y \in Blocks
      BY <1>5 DEF HasIdom
  <2>2. ~Chain(x, y)
    <3> SUFFICES ASSUME Chain(x, y) PROVE FALSE
        OBVIOUS
    <3>1. x = y \/ post_order_id[y] < post_order_id[x]
        BY <1>0, <1>5, ChainUp
    <3> QED
        BY <1>3, <1>5, <2>1, <3>1
  <2>3. \A z \in Blocks : Chain(z, x) /\ Chain(z, y) => Chain(z, idom[x])
      BY <1>3, <2>1, <2>2, ChainStep DEF Chain
  <2>4. \A p : Chain(x, p) => Chain(idom[x], p)
      BY ChainNext DEF Chain
  <2>5. ASSUME Dom(x, y) PROVE FALSE
    <3>1. PICK i \in 1..Size : reverse_post_order[i] = y
        BY <1>0, <1>5, IdomHigher DEF Ordered
    <3>2. StrictDom(x, y)
        BY <1>3, <1>5, <2>1, <2>5 DEF StrictDom, StrictlyDominates, Dom
    <3>3. PICK k \in 1..i - 1 : reverse_post_order[k] = x
        BY <1>0, <2>1, <3>1, <3>2, DominatorsEarlier
    <3>4. k \in 1..Size /\ k < i
        BY <1>0, AfterWalkTypes
    <3>5. post_order_id[y] < post_order_id[x]
        BY <1>0, <3>1, <3>3, <3>4, PlaceByNumber
    <3> QED
        BY <1>3, <1>5, <2>1, <3>5
  <2>6. x # Entry
      BY <2>1, <2>5 DEF Dom, Dominates
  <2>7. \A d \in Blocks : Dom(d, x) /\ Dom(d, y) => Dom(d, idom[x])
      BY <1>0, <1>5, <2>1, <2>5, <2>6 DEF DominatorInv, Dom, StrictDom, StrictlyDominates
  <2> QED
      BY <2>3, <2>4, <2>6, <2>7
<1>6. CASE PickPred
  <2>1. PICK pred \in P : new_idom' = pred /\ rest' = P \ {pred} /\ pc' = "fold"
      BY <1>6 DEF PickPred
  <2>2. P \ rest' = {pred}
      BY <2>1
  <2>3. Lower /\ Upper
      BY <2>1, <2>2, ChainSelf DEF Chain
  <2>4. Doms
      BY <1>4, <2>1
  <2> QED
      BY <1>2, <2>3, <2>4
<1>7. CASE CallIntersect
  <2>1. PICK p \in rest : /\ b1' = p /\ rest' = rest \ {p} /\ new_idom' = new_idom
                          /\ pc = "fold" /\ pc' = "intersect"
      BY <1>7 DEF CallIntersect
  <2>2. p \in P /\ P \ rest' = Folded \cup {p}
      BY <2>1 DEF RpoIInv, IdomInv, FoldInv, Folded
  <2>3. Lower
      BY <2>1, <2>2, ChainSelf DEF MergeInv, Folding, Chain
  <2>4. Upper
      BY <2>1, <2>2 DEF MergeInv, Folding, Chain
  <2>5. Doms
      BY <1>4, <2>1, <2>2 DEF MergeInv, Folding, Dom
  <2> QED
      BY <1>2, <2>3, <2>4, <2>5
<1>8. CASE ClimbB1
  <2>1. /\ pc = "intersect" /\ pc' = "intersect" /\ b1' = idom[b1] /\ new_idom' = new_idom
        /\ rest' = rest /\ post_order_id[b1] < post_order_id[new_idom]
      BY <1>8 DEF ClimbB1
  <2>2. HasIdom(b1) /\ HasIdom(new_idom) /\ Folded = P \ rest'
      BY <2>1 DEF RpoIInv, IdomInv, FoldInv, Folded
  <2>3. Lower
      BY <1>5, <2>1, <2>2 DEF MergeInv, Folding, Chain
  <2>4. Upper
      BY <1>5, <2>1, <2>2 DEF MergeInv, Folding, Chain
  <2>5. Doms
      BY <1>5, <2>1, <2>2 DEF MergeInv, Folding, Dom
  <2> QED
      BY <1>2, <2>3, <2>4, <2>5
<1>9. CASE ClimbB2
  <2>1. /\ pc = "intersect" /\ pc' = "intersect" /\ new_idom' = idom[new_idom] /\ b1' = b1
        /\ rest' = rest /\ post_order_id[new_idom] < post_order_id[b1]
      BY <1>9 DEF ClimbB2
  <2>2. HasIdom(b1) /\ HasIdom(new_idom) /\ Folded = P \ rest'
      BY <2>1 DEF RpoIInv, IdomInv, FoldInv, Folded
  <2>3. Lower
      BY <1>5, <2>1, <2>2 DEF MergeInv, Folding, Chain
  <2>4. Upper
      BY <1>5, <2>1, <2>2 DEF MergeInv, Folding, Chain
  <2>5. Doms
      BY <1>5, <2>1, <2>2 DEF MergeInv, Folding, Dom
  <2> QED
      BY <1>2, <2>3, <2>4, <2>5
<1>10. CASE ReturnIntersect
  <2>1. /\ pc = "intersect" /\ pc' = "fold" /\ b1 = new_idom /\ new_idom' = new_idom
        /\ rest' = rest
      BY <1>10 DEF ReturnIntersect
  <2>2. Folded = P \ rest'
      BY <2>1 DEF Folded
  <2>3. Lower /\ Upper
      BY <2>1, <2>2 DEF MergeInv, Folding, Chain
  <2>4. Doms
      BY <2>1, <2>2 DEF MergeInv, Folding, Dom
  <2> QED
      BY <1>2, <2>3, <2>4
<1>11. CASE UNCHANGED vars
  <2>1. UNCHANGED <<pc, new_idom, b1, rest>> /\ Folding
      BY <1>11 DEF vars, Folding
  <2>2. Folded = P \ rest'
      BY <2>1 DEF Folded
  <2>3. Lower /\ Upper
      BY <2>1, <2>2 DEF MergeInv, Chain
  <2>4. Doms
      BY <2>1, <2>2 DEF MergeInv, Dom
  <2> QED
      BY <1>2, <2>3, <2>4
<1> QED
    BY <1>0, <1>6, <1>7, <1>8, <1>9, <1>10, <1>11

\* A step that leaves idom alone leaves the settled blocks settled.
LEMMA SettledInvStep == RpoIInv /\ MergeInv /\ MeetInv /\ SettledInv /\ [Next]_vars => SettledInv'
<1> SUFFICES ASSUME RpoIInv, MergeInv, MeetInv, SettledInv, [Next]_vars PROVE SettledInv'
    OBVIOUS
<1>1. CASE InWalk
  <2>1. InWalk' \/ (pc' = "create_idom" /\ pos' = 1 /\ Size' \in Nat)
    <3>1. CASE StartIdom
      <4>1. TypeInv'
          BY TypeInvStep DEF RpoIInv, IdomInv
      <4> QED
          BY <3>1, <4>1, LenProperties DEF StartIdom, TypeInv, TypeOK, Size
    <3> QED
        BY <1>1, <3>1, InsideWalk
  <2> QED
      BY <2>1 DEF SettledInv, InWalk, Iterating, IdomsFinal
<1>2. CASE ~InWalk /\ ~SetIdom
  <2>0. /\ Size' = Size /\ reverse_post_order' = reverse_post_order
        /\ \A b : (Settled(b)' <=> Settled(b)) /\ (HasIdom(b)' <=> HasIdom(b))
        /\ Size \in Nat /\ pos \in Nat
        /\ \A i, j \in 1..Size : reverse_post_order[i] = reverse_post_order[j] => i = j
      BY <1>2, StepFrame, ChainFrame, AfterWalkTypes, PlaceByNumber
  <2>1. CASE SkipRoot
    <3>1. /\ pc = "create_idom" /\ pc' = pc /\ pos' = pos + 1 /\ changed' = changed
          /\ reverse_post_order[pos] = Entry
        BY <2>1 DEF SkipRoot, Current
    <3>2. \A i \in 1..Size : i < pos + 1 => i < pos \/ i = pos
        BY <2>0
    <3> QED
        BY <2>0, <3>1, <3>2 DEF SettledInv, Iterating, IdomsFinal
  <2>2. CASE NextPass
      BY <2>0, <2>2 DEF NextPass, SettledInv, Iterating, IdomsFinal
  <2>3. CASE StartFrontier
    <3>1. pc = "create_idom" /\ pos > Size /\ ~changed /\ pc' = "create_dominance_frontier"
        BY <2>3 DEF StartFrontier, Size
    <3>2. \A i \in 1..Size : i < pos
        BY <2>0, <3>1
    <3>3. \A i \in 1..Size : HasIdom(reverse_post_order[i])
        BY <3>1, <3>2 DEF RpoIInv, IdomInv, PassInv
    <3> QED
        BY <2>0, <3>1, <3>2, <3>3 DEF SettledInv, Iterating, IdomsFinal
  <2>4. CASE PickPred \/ CallIntersect \/ ClimbB1 \/ ClimbB2 \/ ReturnIntersect
    <3>1. Iterating /\ Iterating' /\ UNCHANGED <<pos, changed>>
        BY <2>4 DEF PickPred, CallIntersect, ClimbB1, ClimbB2, ReturnIntersect, Iterating
    <3> QED
        BY <2>0, <3>1 DEF SettledInv, Iterating, IdomsFinal
  <2>5. CASE NextJoin \/ StartRunner \/ MoveRunner \/ RunnerDone \/ CreateDomTreeSucc \/ Done
    <3>1. IdomsFinal /\ IdomsFinal'
        BY <2>5 DEF NextJoin, StartRunner, MoveRunner, RunnerDone, CreateDomTreeSucc, Done,
           IdomsFinal, vars
    <3> QED
        BY <2>0, <3>1 DEF SettledInv, Iterating, IdomsFinal
  <2>6. CASE UNCHANGED vars
    <3>1. UNCHANGED <<pc, pos, changed>>
        BY <2>6 DEF vars
    <3> QED
        BY <2>0, <3>1 DEF SettledInv, Iterating, IdomsFinal
  <2> QED
      BY <1>2, <2>1, <2>2, <2>3, <2>4, <2>5, <2>6
      DEF Next, VisitSuccessor, FinishVisit, StartIdom, InWalk
<1>3. CASE SetIdom
  <2>1. /\ pc = "fold" /\ pc' = "create_idom" /\ pos' = pos + 1 /\ ~InWalk
        /\ changed' = (changed \/ idom[Current] # new_idom)
      BY <1>3 DEF SetIdom, InWalk
  <2>2. SUFFICES ASSUME ~changed'
                 PROVE  \A i \in 1..Size' : i < pos + 1 /\ reverse_post_order'[i] # Entry =>
                            Settled(reverse_post_order[i])'
      BY <2>1 DEF SettledInv, Iterating, IdomsFinal
  <2>3. ~changed /\ idom[Current] = new_idom
      BY <2>1, <2>2
  <2>4. idom' = idom
    <3>1. idom \in Maps /\ idom' = [idom EXCEPT ![Current] = new_idom]
        BY <1>3, <2>1, AfterWalkTypes DEF SetIdom
    <3> QED
        BY <2>3, <3>1 DEF Maps
  <2>5. UNCHANGED <<succ, reverse_post_order>> /\ Size' = Size /\ Size \in Nat /\ pos \in Nat
      BY <2>1, StepFrame, AfterWalkTypes
  <2>6. \A b : Settled(b)' <=> Settled(b)
      BY <2>4, <2>5 DEF Settled, PredsWithIdom, Pre, PreBlocks, Chain
  <2>7. Settled(Current)
      BY <1>3, <2>3, NewIdomMeets DEF Settled
  <2>8. \A i \in 1..Size : i < pos + 1 => i < pos \/ reverse_post_order[i] = Current
      BY <2>5 DEF Current
  <2>9. \A i \in 1..Size : i < pos /\ reverse_post_order[i] # Entry =>
          Settled(reverse_post_order[i])
      BY <2>1, <2>3 DEF SettledInv, Iterating
  <2> QED
      BY <2>5, <2>6, <2>7, <2>8, <2>9
<1> QED
    BY <1>1, <1>2, <1>3

LEMMA MeetInvStep ==
    RpoIInv /\ PrefixInv /\ MergeInv /\ MeetInv /\ ForwardInv /\ [Next]_vars => MeetInv'
<1> SUFFICES ASSUME RpoIInv, PrefixInv, MergeInv, MeetInv, ForwardInv, [Next]_vars
             PROVE  MeetInv'
    OBVIOUS
<1>1. CASE InWalk /\ ~StartIdom
    BY <1>1, InsideWalk DEF MeetInv
<1>2. CASE StartIdom
  <2>1. \A b : HasIdom(b)' => b = Entry
      BY <1>2 DEF StartIdom, HasIdom
  <2> QED
      BY <2>1 DEF MeetInv
<1>3. CASE ~InWalk /\ ~SetIdom
    BY <1>3, ChainFrame, StepFrame DEF MeetInv, Chain
<1>4. CASE SetIdom
  <2> DEFINE c == Current
  <2>1. /\ ~InWalk /\ pos \in 1..Size /\ c = reverse_post_order[pos] /\ c \in Blocks
        /\ \A b : HasIdom(b)' <=> HasIdom(b) \/ b = c
        /\ idom'[c] = new_idom /\ \A b \in MaybeBlock : b # c => idom'[b] = idom[b]
        /\ new_idom \in Blocks
      BY <1>4, SetIdomEffect
  <2>2. UNCHANGED succ /\ idom \in Maps /\ Iterating
      BY <1>4, <2>1, StepFrame, AfterWalkTypes DEF SetIdom, Iterating
  <2> HIDE DEF c
  <2>3. ASSUME NEW b \in Blocks \ {Entry}, HasIdom(b)', NEW y \in Blocks,
               \A p \in PredsWithIdom(b)' : Chain(y, p)'
        PROVE  OnChain(idom', y, idom'[b])
    <3>1. \A p \in PredsWithIdom(b) : HasIdom(p) /\ p \in PredsWithIdom(b)'
        BY <2>1, <2>2 DEF PredsWithIdom, Pre, PreBlocks, HasIdom
    <3>2. \A p \in PredsWithIdom(b) : Chain(y, p)
        BY <1>4, <2>3, <3>1, ChainsShrink
    <3>3. CASE b = c
      <4>1. Chain(y, new_idom)
          BY <1>4, <2>3, <3>2, <3>3, NewIdomMeets DEF c
      <4>2. Chain(y, new_idom)'
          BY <1>4, <2>1, <4>1, SetIdomChains
      <4>3. new_idom' = new_idom
          BY <1>4 DEF SetIdom
      <4> QED
          BY <2>1, <3>3, <4>2, <4>3 DEF Chain
    <3>4. CASE b # c
      <4>1. PICK d \in MaybeBlock : d = idom[b] /\ HasIdom(b) /\ idom'[b] = d /\ Chain(y, d)
          BY <2>1, <2>2, <2>3, <3>2, <3>4 DEF MeetInv, Maps
      <4>2. SUFFICES Chain(y, d)'
          BY <4>1 DEF Chain
      <4>3. CASE ~Chain(c, d)
          BY <1>4, <4>1, <4>3, SetIdomChains DEF c
      <4>4. CASE Chain(c, d)
        <5>1. PICK i \in 1..Size : reverse_post_order[i] = b
            BY <2>1, <4>1, IdomHigher DEF Ordered
        <5>2. PICK k \in 1..i - 1 : b \in succ[reverse_post_order[k]]
            BY <2>1, <2>3, <5>1 DEF RpoIInv, IdomInv, OrderInv
        <5>3. k \in 1..i /\ k \in 1..Size
            BY <2>1, AfterWalkTypes
        <5>4. PICK p \in Blocks : p = reverse_post_order[k] /\ HasIdom(p)
            BY <2>1, <4>1, <5>1, <5>3 DEF PrefixInv, HasIdom
        <5>5. p \in PredsWithIdom(b)
            BY <2>3, <5>2, <5>4 DEF PredsWithIdom, Pre, PreBlocks, HasIdom
        <5>6. Chain(c, p)
          <6>1. pos <= pos
              BY <2>1, AfterWalkTypes
          <6> QED
              BY <2>1, <2>2, <4>1, <4>4, <5>1, <5>2, <5>4, <6>1 DEF ForwardInv
        <5>7. Chain(y, p)'
            BY <2>3, <3>1, <5>5
        <5>8. (Chain(y, p) /\ Chain(c, y)) \/ Chain(y, new_idom)
            BY <1>4, <5>4, <5>6, <5>7, SetIdomChains DEF c
        <5> QED
            BY <1>4, <4>1, <4>4, <5>8, SetIdomChains DEF c
      <4> QED
          BY <4>3, <4>4
    <3> QED
        BY <3>3, <3>4
  <2>4. ASSUME NEW b \in Blocks \ {Entry}, HasIdom(b)', NEW y \in Blocks,
               \A p \in PredsWithIdom(b)' : Chain(y, p)'
        PROVE  Chain(y, idom[b])'
    <3>1. OnChain(idom', y, idom'[b])
        BY <2>3, <2>4
    <3> QED
        BY <3>1 DEF Chain
  <2> QED
      BY <2>1, StepFrame, <2>4 DEF MeetInv
<1> QED
    BY <1>1, <1>2, <1>3, <1>4

LEMMA ForwardInvStep ==
    RpoIInv /\ PrefixInv /\ MergeInv /\ MeetInv /\ ForwardInv /\ [Next]_vars => ForwardInv'
<1> SUFFICES ASSUME RpoIInv, PrefixInv, MergeInv, MeetInv, ForwardInv, [Next]_vars
             PROVE  ForwardInv'
    OBVIOUS
<1>1. CASE InWalk /\ ~StartIdom
    BY <1>1, InsideWalk DEF ForwardInv, Iterating, InWalk
<1>2. CASE StartIdom
  <2>1. (\A b : HasIdom(b)' => b = Entry) /\ succ' \in CFGs
      BY <1>2, TypeInvStep DEF StartIdom, HasIdom, RpoIInv, IdomInv, TypeInv, TypeOK
  <2>2. TypeInv' /\ reverse_post_order' \in Seq(Blocks) /\ Size' = Len(reverse_post_order')
      BY TypeInvStep DEF RpoIInv, IdomInv, TypeInv, TypeOK, Size
  <2>3. \A k \in 1..Size' : Entry \notin succ'[reverse_post_order'[k]]
      BY <2>1, <2>2, ElementOfSeq, GraphType
  <2>4. Size' \in Nat
      BY <2>2, LenProperties
  <2>5. \A i \in 1..Size' : \A k \in 1..i - 1 : k \in 1..Size'
      BY <2>4
  <2> QED
      BY <2>1, <2>3, <2>5 DEF ForwardInv
<1>3. CASE ~InWalk /\ ~SetIdom
  <2>0. /\ Size' = Size /\ UNCHANGED <<succ, idom, reverse_post_order>>
        /\ \A y, x : Chain(y, x)' <=> Chain(y, x)
        /\ \A b : HasIdom(b)' <=> HasIdom(b)
        /\ Size \in Nat /\ pos \in Nat
        /\ \A i, j \in 1..Size : reverse_post_order[i] = reverse_post_order[j] => i = j
        /\ \A i \in 1..Size : Entry \notin succ[reverse_post_order[i]]
      BY <1>3, StepFrame, ChainFrame, AfterWalkTypes, PlaceByNumber, GraphType
  <2> SUFFICES ASSUME Iterating',
                      NEW i \in 1..Size, NEW k \in 1..i - 1, NEW j \in 1..Size,
                      HasIdom(reverse_post_order[i]),
                      reverse_post_order[i] \in succ[reverse_post_order[k]],
                      i < pos' \/ pos' <= j,
                      Chain(reverse_post_order[j], idom[reverse_post_order[i]])
               PROVE  Chain(reverse_post_order[j], reverse_post_order[k])
      BY <2>0 DEF ForwardInv, Chain
  <2>1. Iterating /\ (i < pos \/ pos <= j)
    <3>1. CASE SkipRoot
      <4>1. k \in 1..Size /\ pos' = pos + 1 /\ reverse_post_order[pos] = Entry
            /\ pc = "create_idom"
          BY <2>0, <3>1 DEF SkipRoot, Current
      <4>2. i # pos
          BY <2>0, <4>1
      <4>3. i < pos \/ pos <= j
          BY <2>0, <4>1, <4>2
      <4> QED
          BY <4>1, <4>3 DEF Iterating
    <3>2. CASE NextPass
      <4>1. pc = "create_idom" /\ pos > Size
          BY <3>2 DEF NextPass, Size
      <4> QED
          BY <2>0, <4>1 DEF Iterating
    <3>3. CASE UNCHANGED pos /\ Iterating
        BY <3>3
    <3> QED
        BY <1>3, <3>1, <3>2, <3>3
        DEF Next, vars, InWalk, Iterating, VisitSuccessor, FinishVisit, StartIdom, PickPred,
            CallIntersect, ClimbB1, ClimbB2, ReturnIntersect, StartFrontier, NextJoin,
            StartRunner, MoveRunner, RunnerDone, CreateDomTreeSucc, Done
  <2> QED
      BY <2>1 DEF ForwardInv
<1>4. CASE SetIdom
  <2>1. /\ ~InWalk /\ pos \in 1..Size /\ pos' = pos + 1
        /\ \A b : HasIdom(b)' <=> HasIdom(b) \/ b = Current
        /\ \A b \in MaybeBlock : b # Current => idom'[b] = idom[b]
      BY <1>4, SetIdomEffect
  <2>2. /\ Size' = Size /\ UNCHANGED <<succ, reverse_post_order>>
        /\ idom \in Maps /\ Size \in Nat /\ Iterating
        /\ \A b \in Blocks : post_order_id[b] \in Nat
      BY <1>4, <2>1, StepFrame, AfterWalkTypes DEF SetIdom, Iterating
  <2>3. PICK c \in Blocks : c = Current /\ c = reverse_post_order[pos]
      BY <1>4, SetIdomEffect
  <2>4. PICK new \in Blocks : /\ new = new_idom /\ HasIdom(new) /\ idom'[c] = new
                              /\ post_order_id[c] < post_order_id[new]
      BY <1>4, <2>3, SetIdomEffect
  <2> SUFFICES ASSUME NEW i \in 1..Size, NEW k \in 1..i - 1, NEW j \in 1..Size,
                      HasIdom(reverse_post_order[i])',
                      reverse_post_order[i] \in succ[reverse_post_order[k]],
                      i < pos + 1 \/ pos + 1 <= j,
                      OnChain(idom', reverse_post_order[j], idom'[reverse_post_order[i]])
               PROVE  OnChain(idom', reverse_post_order[j], reverse_post_order[k])
      BY <2>1, <2>2 DEF ForwardInv, Chain
  <2>5. PICK x \in Blocks, p \in Blocks, b \in Blocks :
           x = reverse_post_order[j] /\ p = reverse_post_order[k] /\ b = reverse_post_order[i]
    <3>1. k \in 1..Size
        BY <2>2
    <3> QED
        BY <2>1, <3>1, AfterWalkTypes
  <2>6. \A y, z : Chain(y, z)' <=> OnChain(idom', y, z)
      BY DEF Chain
  <2>7. k \in 1..Size /\ k \in 1..i /\ k < i
      BY <2>2
  <2>8. HasIdom(b) \/ b = c
    <3>1. reverse_post_order[i]' = b
        BY <2>2, <2>5
    <3>2. HasIdom(b)'
        BY <2>2, <2>5, <3>1 DEF HasIdom
    <3> QED
        BY <2>1, <2>3, <3>2
  <2>9. HasIdom(p) /\ p \in PredsWithIdom(b)
    <3>1. HasIdom(p)
      <4>1. CASE HasIdom(b)
          BY <2>1, <2>5, <2>7, <4>1 DEF PrefixInv
      <4>2. CASE b = c
        <5>1. i = pos
            BY <2>1, <2>3, <2>5, <4>2, PlaceByNumber
        <5> QED
            BY <1>4, <2>5, <2>7, <5>1 DEF RpoIInv, IdomInv, PassInv, SetIdom
      <4> QED
          BY <2>8, <4>1, <4>2
    <3> QED
        BY <2>5, <3>1 DEF PredsWithIdom, Pre, PreBlocks, HasIdom
  <2>10. ASSUME i <= pos PROVE ~Chain(c, p)
    <3>1. post_order_id[c] < post_order_id[p]
      <4>1. k < pos
          BY <2>1, <2>2, <2>7, <2>10
      <4> QED
          BY <2>1, <2>3, <2>5, <2>7, <4>1, PlaceByNumber
    <3>2. SUFFICES ASSUME Chain(c, p) PROVE FALSE
        OBVIOUS
    <3>3. c = p \/ post_order_id[p] < post_order_id[c]
        BY <2>1, <2>9, <3>2, ChainUp
    <3> QED
        BY <2>2, <3>1, <3>3
  <2>11. CASE i = pos
    <3>1. b = c /\ OnChain(idom', x, new)
        BY <2>3, <2>4, <2>5, <2>11
    <3>2. Chain(x, new)
      <4>1. Chain(x, new_idom)' <=> Chain(x, new_idom)
          BY <1>4, <2>3, SetIdomChains
      <4>2. new_idom' = new
          BY <1>4, <2>4 DEF SetIdom
      <4> QED
          BY <2>4, <3>1, <4>1, <4>2 DEF Chain
    <3>3. Chain(new, p)
        BY <1>4, <2>3, <2>4, <2>9, <3>1, NewIdomMeets
    <3>4. Chain(x, p) /\ ~Chain(c, p)
        BY <2>2, <2>10, <2>11, <3>2, <3>3, ChainTrans DEF Chain
    <3> QED
        BY <1>4, <2>3, <2>5, <2>6, <3>4, SetIdomChains
  <2>12. ASSUME i # pos
         PROVE  /\ b # c /\ HasIdom(b)
                /\ idom[b] \in Blocks /\ HasIdom(idom[b])
                /\ OnChain(idom', x, idom[b])
                /\ post_order_id[b] < post_order_id[idom[b]] \/ b = Entry
    <3>1. b # c
        BY <2>1, <2>3, <2>5, <2>12, PlaceByNumber
    <3>2. HasIdom(b) /\ idom'[b] = idom[b]
        BY <2>1, <2>3, <2>8, <3>1
    <3> QED
        BY <2>1, <2>5, <3>1, <3>2, IdomHigher
  <2>13. CASE i < pos
    <3>1. PICK d \in Blocks : d = idom[b] /\ HasIdom(d)
        BY <2>2, <2>12, <2>13
    <3>2. OnChain(idom', x, d)
        BY <2>2, <2>12, <2>13, <3>1
    <3>3. post_order_id[c] < post_order_id[d]
      <4>1. post_order_id[c] < post_order_id[b]
          BY <2>1, <2>3, <2>5, <2>13, PlaceByNumber
      <4>2. post_order_id[b] <= post_order_id[d]
        <5>1. CASE b = Entry
            BY <2>1, <2>2, <3>1, <5>1, AfterWalkTypes
        <5> QED
            BY <2>2, <2>12, <2>13, <3>1, <5>1
      <4> QED
          BY <2>2, <4>1, <4>2
    <3>4. ~Chain(c, d)
      <4> SUFFICES ASSUME Chain(c, d) PROVE FALSE
          OBVIOUS
      <4>1. c = d \/ post_order_id[d] < post_order_id[c]
          BY <2>1, <3>1, ChainUp
      <4> QED
          BY <2>2, <3>3, <4>1
    <3>5. Chain(x, d)
        BY <1>4, <2>3, <2>6, <3>2, <3>4, SetIdomChains
    <3>6. Chain(x, p)
        BY <2>2, <2>5, <2>12, <2>13, <3>1, <3>5 DEF ForwardInv
    <3>7. ~Chain(c, p)
      <4>1. i <= pos
          BY <2>1, <2>2, <2>13
      <4> QED
          BY <2>10, <4>1
    <3> QED
        BY <1>4, <2>3, <2>5, <2>6, <3>6, <3>7, SetIdomChains
  <2>14. CASE i > pos
    <3>0. pos + 1 <= j
        BY <2>2, <2>1, <2>14
    <3>1. PICK d \in Blocks : d = idom[b] /\ HasIdom(d) /\ OnChain(idom', x, d)
        BY <2>1, <2>2, <2>12, <2>14
    <3>2. post_order_id[x] < post_order_id[c]
      <4>1. pos < j
          BY <2>1, <2>2, <3>0
      <4> QED
          BY <2>1, <2>3, <2>5, <4>1, PlaceByNumber
    <3>3. ~Chain(x, new)
      <4> SUFFICES ASSUME Chain(x, new) PROVE FALSE
          OBVIOUS
      <4>1. x = new \/ post_order_id[new] < post_order_id[x]
          BY <2>1, <2>4, ChainUp
      <4> QED
          BY <2>2, <2>4, <3>2, <4>1
    <3>4. Chain(x, d)
        BY <1>4, <2>3, <2>4, <2>6, <3>1, <3>3, SetIdomChains
    <3>5. Chain(x, p)
      <4>1. pos <= j
          BY <2>1, <2>2, <3>0
      <4>2. HasIdom(b)
          BY <2>1, <2>2, <2>12, <2>14
      <4> QED
          BY <2>2, <2>5, <3>1, <3>4, <4>1, <4>2 DEF ForwardInv
    <3>6. CASE ~Chain(c, p)
        BY <1>4, <2>3, <2>5, <2>6, <3>5, <3>6, SetIdomChains
    <3>7. CASE Chain(c, p)
      <4>1. Chain(c, x) \/ Chain(x, c)
          BY <2>2, <3>5, <3>7, ChainLinear DEF Chain
      <4>2. ~Chain(x, c)
        <5> SUFFICES ASSUME Chain(x, c) PROVE FALSE
            OBVIOUS
        <5>1. HasIdom(c)
            BY <2>1, <2>9, <3>7, ChainUp
        <5>2. x = c \/ post_order_id[c] < post_order_id[x]
            BY <2>1, <5>1, ChainUp
        <5> QED
            BY <2>2, <3>2, <5>2
      <4> QED
          BY <1>4, <2>3, <2>5, <2>6, <3>5, <4>1, <4>2, SetIdomChains
    <3> QED
        BY <3>6, <3>7
  <2> QED
      BY <2>1, <2>2, <2>11, <2>13, <2>14
<1> QED
    BY <1>1, <1>2, <1>3, <1>4

TreeInv ==
    /\ RpoIInv /\ PrefixInv /\ DominatorInv /\ MergeInv /\ SettledInv /\ MeetInv
    /\ ForwardInv

LEMMA TreeInvInit == Init => TreeInv
<1>1. Init => RpoIInv
    BY IdomInvInit, DfsInvInit DEF Init, RpoIInv, RpoInv, InWalk
<1> QED
    BY <1>1 DEF Init, TreeInv, PrefixInv, DominatorInv, MergeInv, SettledInv, MeetInv,
       ForwardInv, InWalk, Folding, Iterating, IdomsFinal

LEMMA TreeInvStep == TreeInv /\ [Next]_vars => TreeInv'
<1>1. RpoIInv /\ [Next]_vars => RpoIInv'
    BY DfsInvStep, RpoInvStep, TypeInvStep, WalkInvStep, OrderInvStep, ClimbInvStep,
       PassInvStep, FoldInvStep DEF RpoIInv, IdomInv
<1> QED
    BY <1>1, PrefixInvStep, DominatorInvStep, MergeInvStep, SettledInvStep, MeetInvStep,
       ForwardInvStep DEF TreeInv

LEMMA TreeInvariant == Spec => []TreeInv
    BY TreeInvInit, TreeInvStep, PTL DEF Spec

\* While the passes repeat an idom that is set is only replaced by a higher
\* one, for every graph.
THEOREM IdomsRise == Spec => IdomOnlyRises
<1>1. ASSUME TreeInv, [Next]_vars, NEW b \in Blocks, pc = "fold", idom[b] # Null
      PROVE  post_order_id[idom'[b]] >= post_order_id[idom[b]]
  <2>1. ~InWalk /\ HasIdom(b) /\ RpoIInv
      BY <1>1 DEF InWalk, HasIdom, TreeInv
  <2>2. /\ HasIdom(idom[b]) /\ idom[b] \in Blocks
        /\ \A d \in Blocks : post_order_id[d] \in Nat
      BY <2>1, IdomHigher, AfterWalkTypes
  <2>3. CASE ~SetIdom
      BY <1>1, <2>1, <2>2, <2>3, ChainFrame
  <2>4. CASE SetIdom /\ b # Current
      BY <2>1, <2>2, <2>4, SetIdomEffect
  <2>5. CASE SetIdom /\ b = Current
    <3>1. Chain(new_idom, idom[b]) /\ idom'[b] = new_idom /\ new_idom \in Blocks
        BY <1>1, <2>1, <2>5, NewIdomMeets, SetIdomEffect DEF TreeInv
    <3>2. new_idom = idom[b] \/ post_order_id[idom[b]] < post_order_id[new_idom]
        BY <2>1, <2>2, <3>1, ChainUp
    <3> QED
        BY <2>2, <3>1, <3>2
  <2> QED
      BY <2>3, <2>4, <2>5
<1>2. TreeInv /\ [Next]_vars =>
        [\A b \in Blocks : pc = "fold" /\ idom[b] # Null =>
             post_order_id[idom'[b]] >= post_order_id[idom[b]]]_vars
    BY <1>1
<1> QED
    BY <1>2, TreeInvariant, PTL DEF Spec, IdomOnlyRises
-----------------------------------------------------------------------------
(***************************************************************************)
(* The chain of a block holds its dominators.                              *)
(***************************************************************************)

\* When create_idom has ended, the blocks with an idom are the reachable ones,
\* and each but the entry hangs higher, at a common point of its predecessors.
LEMMA FinalIdoms ==
    ASSUME TreeInv, IdomsFinal
    PROVE  /\ RpoIInv /\ ~InWalk
           /\ \A b \in Blocks : Reachable(b) <=> HasIdom(b)
           /\ \A b \in Blocks \ {Entry} : HasIdom(b) =>
                /\ Settled(b) /\ idom[b] \in Blocks /\ HasIdom(idom[b])
                /\ post_order_id[b] < post_order_id[idom[b]] /\ idom[b] # b
<1>1. RpoIInv /\ ~InWalk /\ \A b \in Blocks : post_order_id[b] \in Nat
    BY AfterWalkTypes DEF TreeInv, IdomsFinal, InWalk
<1>2. \A b \in Blocks : Reachable(b) <=> Ordered(b)
    BY <1>1 DEF RpoIInv, RpoInv
<1>3. \A b \in Blocks : Ordered(b) => HasIdom(b) /\ (b # Entry => Settled(b))
    BY DEF TreeInv, SettledInv, Ordered
<1>4. \A b \in Blocks : HasIdom(b) => Ordered(b)
    BY <1>1, IdomHigher
<1>5. \A b \in Blocks \ {Entry} : HasIdom(b) =>
         /\ idom[b] \in Blocks /\ HasIdom(idom[b])
         /\ post_order_id[b] < post_order_id[idom[b]]
    BY <1>1, IdomHigher
<1> QED
    BY <1>1, <1>2, <1>3, <1>4, <1>5

LEMMA ChainOfEntry ==
    ASSUME idom[Entry] = Entry, NEW a, Chain(a, Entry)
    PROVE  a = Entry
<1>1. {Entry} \in SUBSET MaybeBlock
    BY BlocksAssumption DEF BlocksAssumption
<1> QED
    BY <1>1 DEF Chain, OnChain

\* What is on the chain of a block dominates it: the blocks whose chains miss
\* a are left only through a, because the idom of every block is settled.
LEMMA ChainDominates ==
    ASSUME TreeInv, IdomsFinal, NEW x, HasIdom(x), NEW a, Chain(a, x)
    PROVE  Dom(a, x)
<1>1. /\ RpoIInv /\ ~InWalk /\ a \in Blocks /\ x \in Blocks
    BY FinalIdoms, ChainUp DEF HasIdom
<1> SUFFICES ASSUME a # x, a # Entry PROVE Dom(a, x)
    BY DEF Dom, Dominates
<1> DEFINE S == {z \in Blocks : HasIdom(z) /\ ~Chain(a, z)}
<1>2. Entry \in S
  <2>1. Entry \in Blocks /\ idom[Entry] = Entry /\ Null \notin Blocks
      BY <1>1, AfterWalkTypes
  <2> QED
      BY <2>1, ChainOfEntry DEF HasIdom
<1>3. S \in SUBSET (Blocks \ {a, x})
    BY ChainSelf DEF Chain
<1>4. ASSUME NEW s \in S, NEW y \in succ[s], y # a PROVE y \in S
  <2>1. succ \in CFGs /\ idom \in Maps /\ s \in Blocks /\ HasIdom(s) /\ ~Chain(a, s)
      BY <1>1, <1>4, AfterWalkTypes
  <2>2. y \in Blocks \ {Entry} /\ HasIdom(y) /\ s \in PredsWithIdom(y)
    <3>1. y \in Blocks \ {Entry}
        BY <2>1, GraphType
    <3>2. Reachable(y)
        BY <1>4, <2>1, FinalIdoms, ReachableStep DEF Reachable
    <3> QED
        BY <1>4, <2>1, <3>1, <3>2, FinalIdoms DEF PredsWithIdom, Pre, PreBlocks, HasIdom
  <2>3. Chain(idom[y], s)
      BY <2>2, FinalIdoms DEF Settled
  <2>4. Chain(a, y) => Chain(a, idom[y])
      BY <1>4, <2>1, <2>2, ChainStep DEF Chain
  <2>5. Chain(a, idom[y]) => Chain(a, s)
      BY <2>3, ChainTrans DEF Chain
  <2> QED
      BY <2>1, <2>2, <2>4, <2>5
<1> HIDE DEF S
<1>5. \A s \in S : succ[s] \subseteq S \cup {a}
    BY <1>4
<1> QED
    BY <1>2, <1>3, <1>5 DEF Dom, Dominates

\* Every dominator of a block is on its chain: the highest block on the chain
\* that it dominates is itself, or its idom would be one (DominatorInv).
LEMMA DominatorsOnChain ==
    ASSUME TreeInv, ~InWalk, NEW b, HasIdom(b), NEW c \in Blocks, Dom(c, b)
    PROVE  Chain(c, b)
<1> DEFINE P == {i \in 1..Size : /\ HasIdom(reverse_post_order[i])
                                 /\ Dom(c, reverse_post_order[i])
                                 /\ Chain(reverse_post_order[i], b)}
<1>0. RpoIInv /\ Size \in Nat
    BY AfterWalkTypes DEF TreeInv
<1>1. P # {} /\ P \in SUBSET Nat
  <2>1. PICK i \in 1..Size : reverse_post_order[i] = b
      BY <1>0, IdomHigher DEF Ordered
  <2>2. i \in P
      BY <2>1, ChainSelf DEF Chain
  <2> QED
      BY <2>2
<1>2. PICK i \in P : \A m \in P : i <= m
    BY <1>1, LeastNumber
<1>3. PICK x \in Blocks : x = reverse_post_order[i] /\ HasIdom(x) /\ Dom(c, x) /\ Chain(x, b)
    BY <1>2 DEF HasIdom
<1>4. ASSUME x # c PROVE FALSE
  <2>1. x # Entry
      BY <1>3, <1>4, DominatesEntry DEF Dom
  <2>2. Dom(c, idom[x])
      BY <1>3, <1>4, <2>1 DEF TreeInv, DominatorInv, StrictDom, StrictlyDominates, Dom
  <2>3. PICK k \in 1..Size : reverse_post_order[k] = idom[x]
      BY <1>0, <1>3, IdomHigher DEF Ordered
  <2>4. HasIdom(idom[x]) /\ post_order_id[x] < post_order_id[idom[x]]
      BY <1>0, <1>3, <2>1, IdomHigher
  <2>5. Chain(idom[x], b)
      BY <1>3, ChainNext DEF Chain
  <2>6. k \in P
      BY <2>2, <2>3, <2>4, <2>5
  <2>7. k < i
      BY <1>0, <1>2, <1>3, <2>3, <2>4, PlaceByNumber
  <2> QED
      BY <1>0, <1>2, <2>6, <2>7
<1> QED
    BY <1>3, <1>4

LEMMA IdomDominates ==
    ASSUME TreeInv, IdomsFinal, NEW b \in Blocks \ {Entry}, HasIdom(b)
    PROVE  IsImmediateDominator(idom[b], b)
<1>1. Chain(idom[b], b)
    BY ChainSelf, ChainNext DEF Chain
<1>2. StrictDom(idom[b], b)
    BY <1>1, ChainDominates, FinalIdoms DEF StrictDom, StrictlyDominates, Dom
<1>3. \A c \in Blocks : StrictDom(c, b) => Dom(c, idom[b])
    BY FinalIdoms DEF TreeInv, DominatorInv
<1> QED
    BY <1>2, <1>3 DEF IsImmediateDominator

\* When create_idom ends, idom is the immediate dominator of every reachable
\* block but the entry and nullptr for every unreachable one, whatever the
\* graph and the order of its lists.
THEOREM IdomsAreImmediateDominators == Spec => []IdomIsImmediateDominator
<1>1. TreeInv => IdomIsImmediateDominator
    BY FinalIdoms, IdomDominates DEF IdomIsImmediateDominator, HasIdom
<1> QED
    BY <1>1, TreeInvariant, PTL

-----------------------------------------------------------------------------
(***************************************************************************)
(* The dominance frontiers.                                                *)
(***************************************************************************)

\* The predecessors left are those of the join block bb; a runner that can be
\* reached is between a predecessor of bb and bb's idom.
RunnerInv ==
    /\ ~IdomsFinal => joinPreds = {}
    /\ IdomsFinal => todo \subseteq Joins
    /\ joinPreds # {} => bb \in Joins /\ joinPreds \subseteq Pre(bb)
    /\ pc = "runner" =>
         /\ bb \in Joins
         /\ HasIdom(runner) =>
              /\ HasIdom(bb) /\ Chain(idom[bb], runner)
              /\ \E p \in Pre(bb) : HasIdom(p) /\ Chain(runner, p)

\* A block in the frontier of a: a is on the chain of a predecessor, below the
\* block's idom.
SoundInv ==
    /\ ~IdomsFinal => dom_frontier = [b \in MaybeBlock |-> {}]
    /\ \A a \in Blocks : \A b \in dom_frontier[a] : HasIdom(a) =>
         /\ HasIdom(b) /\ ~Chain(a, idom[b])
         /\ \E p \in Pre(b) : HasIdom(p) /\ Chain(a, p)

\* A join block whose turn has come is in the frontier of every such a, unless
\* the predecessor is yet to be taken or the runner is yet to meet a.
FullInv == IdomsFinal =>
    \A b \in Joins \ todo : HasIdom(b) => \A p \in Pre(b) : HasIdom(p) =>
        \A a \in Blocks : Chain(a, p) /\ ~Chain(a, idom[b]) =>
            \/ b \in dom_frontier[a]
            \/ b = bb /\ p \in joinPreds
            \/ pc = "runner" /\ b = bb /\ Chain(a, runner)

\* From a predecessor that cannot be reached the runner never comes back.
LostInv == IdomsFinal =>
    /\ \A b \in Joins \ todo : HasIdom(b) => \A p \in Pre(b) : ~HasIdom(p) =>
         \/ b = bb /\ p \in joinPreds
         \/ pc = "runner" /\ b = bb /\ ~HasIdom(runner)
    /\ pc = "done" => todo = {} /\ joinPreds = {}

FrontierInv == RunnerInv /\ SoundInv /\ FullInv /\ LostInv

\* The steps after create_idom.
LEMMA FinalSteps ==
    ASSUME IdomsFinal, [Next]_vars
    PROVE  /\ IdomsFinal'
           /\ \/ NextJoin \/ StartRunner \/ MoveRunner \/ RunnerDone \/ CreateDomTreeSucc
              \/ UNCHANGED vars
<1>1. \/ NextJoin \/ StartRunner \/ MoveRunner \/ RunnerDone \/ CreateDomTreeSucc
      \/ UNCHANGED vars
    BY DEF Next, IdomsFinal, VisitSuccessor, FinishVisit, StartIdom, SkipRoot, PickPred,
       CallIntersect, ClimbB1, ClimbB2, ReturnIntersect, SetIdom, NextPass, StartFrontier, Done
<1> QED
    BY <1>1 DEF IdomsFinal, NextJoin, StartRunner, MoveRunner, RunnerDone, CreateDomTreeSucc,
       vars

\* They change neither the idoms nor the graph, and keep the types.
LEMMA FinalFrame ==
    ASSUME TreeInv, IdomsFinal, [Next]_vars
    PROVE  /\ succ' = succ /\ idom' = idom /\ Joins' = Joins
           /\ \A b : Pre(b)' = Pre(b)
           /\ \A b : HasIdom(b)' <=> HasIdom(b)
           /\ \A y, x : Chain(y, x)' <=> Chain(y, x)
           /\ todo \subseteq Blocks /\ joinPreds \subseteq Blocks
           /\ bb \in MaybeBlock /\ runner \in MaybeBlock
           /\ dom_frontier \in [MaybeBlock -> SUBSET Blocks]
           /\ succ \in CFGs /\ idom \in Maps /\ idom[Null] = Null
           /\ Joins \subseteq Blocks /\ \A b : Pre(b) \subseteq Blocks
<1>1. ~InWalk /\ ~SetIdom /\ RpoIInv
    BY FinalIdoms DEF SetIdom, IdomsFinal
<1>2. succ' = succ /\ \A y, x : Chain(y, x)' <=> Chain(y, x)
    BY <1>1, StepFrame, ChainFrame
<1>3. idom' = idom /\ \A b : HasIdom(b)' <=> HasIdom(b)
    BY <1>1, ChainFrame
<1>4. TypeOK /\ idom \in Maps /\ succ \in CFGs /\ idom[Null] = Null
    BY <1>1, AfterWalkTypes DEF RpoIInv, IdomInv, TypeInv
<1>5. \A b : Pre(b)' = Pre(b)
    BY <1>2 DEF Pre, PreBlocks
<1>6. Joins' = Joins
    BY <1>5 DEF Joins
<1> QED
    BY <1>2, <1>3, <1>4, <1>5, <1>6 DEF TypeOK, Joins, Pre, PreBlocks

\* Before them, nothing the frontiers are made of changes.
LEMMA StartFrame ==
    ASSUME ~IdomsFinal, [Next]_vars
    PROVE  /\ UNCHANGED <<joinPreds, bb, runner, dom_frontier>>
           /\ pc' # "runner" /\ pc' # "done"
           /\ IdomsFinal' => StartFrontier
    BY DEF Next, vars, IdomsFinal, VisitSuccessor, FinishVisit, StartIdom, SkipRoot, PickPred,
       CallIntersect, ClimbB1, ClimbB2, ReturnIntersect, SetIdom, NextPass, StartFrontier, Done,
       NextJoin, StartRunner, MoveRunner, RunnerDone, CreateDomTreeSucc

\* What is reached from the block a join block's runner starts from.
LEMMA SuccessorHasIdom ==
    ASSUME TreeInv, IdomsFinal, NEW b \in Blocks, NEW p \in Pre(b), HasIdom(p)
    PROVE  HasIdom(b) /\ b # Entry /\ Chain(idom[b], p)
<1>1. p \in Blocks /\ b \in succ[p] /\ succ \in CFGs
    BY FinalIdoms, AfterWalkTypes DEF Pre, PreBlocks
<1>2. HasIdom(b) /\ b # Entry
    BY <1>1, FinalIdoms, ReachableStep, GraphType DEF Reachable
<1>3. p \in PredsWithIdom(b)
    BY DEF PredsWithIdom, HasIdom
<1> QED
    BY <1>2, <1>3, FinalIdoms DEF Settled

LEMMA AfterStart ==
    ASSUME StartFrontier PROVE todo' = Joins'
<1>1. succ' = succ /\ todo' = Joins
    BY DEF StartFrontier
<1> QED
    BY <1>1 DEF Joins, Pre, PreBlocks

LEMMA RunnerInvStep == TreeInv /\ RunnerInv /\ [Next]_vars => RunnerInv'
<1> SUFFICES ASSUME TreeInv, RunnerInv, [Next]_vars PROVE RunnerInv'
    OBVIOUS
<1>1. CASE ~IdomsFinal
    BY <1>1, StartFrame, AfterStart DEF RunnerInv
<1>2. CASE IdomsFinal
  <2> USE <1>2
  <2>0. IdomsFinal'
      BY FinalSteps
  <2> USE FinalFrame DEF Chain, HasIdom, Pre, PreBlocks
  <2>1. CASE NextJoin
    <3>1. PICK b \in todo : bb' = b /\ joinPreds' = Pre(b) /\ pc' # "runner"
                           /\ todo' = todo \ {b}
        BY <2>1 DEF NextJoin
    <3>2. b \in Joins /\ todo \subseteq Joins
        BY DEF RunnerInv
    <3> QED
        BY <2>0, <3>1, <3>2 DEF RunnerInv
  <2>2. CASE StartRunner
    <3>1. PICK p \in joinPreds : runner' = p /\ joinPreds' = joinPreds \ {p}
        BY <2>2 DEF StartRunner
    <3>2. UNCHANGED <<todo, bb>> /\ bb \in Joins /\ joinPreds \subseteq Pre(bb) /\ bb \in Blocks
        BY <2>2, <3>1 DEF StartRunner, RunnerInv
    <3>3. HasIdom(p) => HasIdom(bb) /\ Chain(idom[bb], p)
        BY <3>1, <3>2, SuccessorHasIdom
    <3> QED
        BY <2>0, <3>1, <3>2, <3>3, ChainSelf DEF RunnerInv
  <2>3. CASE MoveRunner
    <3>1. /\ pc = "runner" /\ runner # idom[bb] /\ runner' = idom[runner]
          /\ UNCHANGED <<bb, joinPreds, todo>>
        BY <2>3 DEF MoveRunner
    <3>2. CASE HasIdom(idom[runner])
      <4>1. HasIdom(runner)
          BY <3>2
      <4>2. HasIdom(bb) /\ Chain(idom[bb], runner)
          BY <3>1, <4>1 DEF RunnerInv
      <4>3. Chain(idom[bb], idom[runner])
          BY <3>1, <4>1, <4>2, ChainStep
      <4>4. PICK p \in Pre(bb) : HasIdom(p) /\ Chain(runner, p)
          BY <3>1, <4>1 DEF RunnerInv
      <4>5. Chain(idom[runner], p)
          BY <4>4, ChainNext
      <4> QED
          BY <2>0, <3>1, <4>2, <4>3, <4>4, <4>5 DEF RunnerInv
    <3>3. CASE ~HasIdom(idom[runner])
        BY <2>0, <3>1, <3>3 DEF RunnerInv
    <3> QED
        BY <3>2, <3>3
  <2>4. CASE RunnerDone
      BY <2>0, <2>4 DEF RunnerDone, RunnerInv
  <2>5. CASE CreateDomTreeSucc
      BY <2>0, <2>5 DEF CreateDomTreeSucc, RunnerInv
  <2>6. CASE UNCHANGED vars
      BY <2>0, <2>6 DEF vars, RunnerInv
  <2> QED
      BY <2>1, <2>2, <2>3, <2>4, <2>5, <2>6, FinalSteps
<1> QED
    BY <1>1, <1>2

LEMMA SoundInvStep == TreeInv /\ RunnerInv /\ SoundInv /\ [Next]_vars => SoundInv'
<1> SUFFICES ASSUME TreeInv, RunnerInv, SoundInv, [Next]_vars PROVE SoundInv'
    OBVIOUS
<1>1. CASE ~IdomsFinal
    BY <1>1, StartFrame DEF SoundInv
<1>2. CASE IdomsFinal
  <2> USE <1>2, FinalFrame DEF Chain, HasIdom, Pre, PreBlocks
  <2>0. IdomsFinal'
      BY FinalSteps
  <2>1. CASE MoveRunner
    <3>1. /\ pc = "runner" /\ runner # idom[bb] /\ bb \in Blocks
          /\ dom_frontier' = [dom_frontier EXCEPT ![runner] = @ \cup {bb}]
        BY <2>1 DEF MoveRunner, RunnerInv
    <3> SUFFICES ASSUME NEW a \in Blocks, NEW b \in dom_frontier'[a], HasIdom(a)
                 PROVE  /\ HasIdom(b) /\ ~Chain(a, idom[b])
                        /\ \E p \in Pre(b) : HasIdom(p) /\ Chain(a, p)
        BY <2>0 DEF SoundInv
    <3>2. CASE b \in dom_frontier[a]
        BY <3>2 DEF SoundInv
    <3>3. CASE b \notin dom_frontier[a]
      <4>1. a = runner /\ b = bb
          BY <3>1, <3>3
      <4>2. /\ HasIdom(b) /\ Chain(idom[b], a)
            /\ \E p \in Pre(b) : HasIdom(p) /\ Chain(a, p)
          BY <3>1, <4>1 DEF RunnerInv
      <4>3. ~Chain(a, idom[b])
        <5> SUFFICES ASSUME Chain(a, idom[b]) PROVE FALSE
            OBVIOUS
        <5>1. PICK d \in Blocks : d = idom[b] /\ HasIdom(d) /\ d # a
            BY <3>1, <4>1, <4>2, IdomHigher, FinalIdoms
        <5>2. /\ d = a \/ post_order_id[a] < post_order_id[d]
              /\ a = d \/ post_order_id[d] < post_order_id[a]
            BY <4>2, <5>1, ChainUp, FinalIdoms
        <5>3. post_order_id[a] \in Nat /\ post_order_id[d] \in Nat
            BY FinalIdoms, AfterWalkTypes
        <5> QED
            BY <5>1, <5>2, <5>3
      <4> QED
          BY <4>2, <4>3
    <3> QED
        BY <3>2, <3>3
  <2>2. CASE NextJoin \/ StartRunner \/ RunnerDone \/ CreateDomTreeSucc \/ UNCHANGED vars
    <3>1. dom_frontier' = dom_frontier
        BY <2>2 DEF NextJoin, StartRunner, RunnerDone, CreateDomTreeSucc, vars
    <3> QED
        BY <2>0, <3>1 DEF SoundInv
  <2> QED
      BY <2>1, <2>2, FinalSteps
<1> QED
    BY <1>1, <1>2

LEMMA FullInvStep == TreeInv /\ RunnerInv /\ FullInv /\ [Next]_vars => FullInv'
<1> SUFFICES ASSUME TreeInv, RunnerInv, FullInv, [Next]_vars, IdomsFinal' PROVE FullInv'
    BY DEF FullInv
<1>1. CASE ~IdomsFinal
    BY <1>1, StartFrame, AfterStart DEF FullInv
<1>2. CASE IdomsFinal
  <2> USE <1>2, FinalFrame DEF Chain, HasIdom, Pre, PreBlocks
  <2> SUFFICES ASSUME NEW b \in Joins, b \notin todo', HasIdom(b), NEW p \in Pre(b), HasIdom(p),
                      NEW a \in Blocks, Chain(a, p), ~Chain(a, idom[b])
               PROVE  \/ b \in dom_frontier'[a]
                      \/ b = bb' /\ p \in joinPreds'
                      \/ pc' = "runner" /\ b = bb' /\ Chain(a, runner')
      BY DEF FullInv
  <2>1. b \notin todo => \/ b \in dom_frontier[a]
                         \/ b = bb /\ p \in joinPreds
                         \/ pc = "runner" /\ b = bb /\ Chain(a, runner)
      BY DEF FullInv
  <2>2. CASE NextJoin
      BY <2>1, <2>2 DEF NextJoin
  <2>3. CASE StartRunner
      BY <2>1, <2>3, ChainSelf DEF StartRunner
  <2>4. CASE MoveRunner
    <3>1. /\ dom_frontier' = [dom_frontier EXCEPT ![runner] = @ \cup {bb}]
          /\ runner' = idom[runner] /\ UNCHANGED <<pc, todo, bb, joinPreds>>
        BY <2>4 DEF MoveRunner
    <3>2. CASE a = runner /\ b = bb
        BY <3>1, <3>2
    <3>3. CASE b \in dom_frontier[a]
        BY <3>1, <3>3
    <3>4. CASE a # runner /\ Chain(a, runner)
        BY <2>1, <3>1, <3>3, <3>4, ChainStep
    <3> QED
        BY <2>1, <3>1, <3>2, <3>3, <3>4
  <2>5. CASE RunnerDone
      BY <2>1, <2>5 DEF RunnerDone
  <2>6. CASE CreateDomTreeSucc \/ UNCHANGED vars
      BY <2>1, <2>6 DEF CreateDomTreeSucc, vars
  <2> QED
      BY <2>2, <2>3, <2>4, <2>5, <2>6, FinalSteps
<1> QED
    BY <1>1, <1>2

LEMMA LostInvStep == TreeInv /\ RunnerInv /\ LostInv /\ [Next]_vars => LostInv'
<1> SUFFICES ASSUME TreeInv, RunnerInv, LostInv, [Next]_vars, IdomsFinal' PROVE LostInv'
    BY DEF LostInv
<1>1. CASE ~IdomsFinal
    BY <1>1, StartFrame, AfterStart DEF LostInv
<1>2. CASE IdomsFinal
  <2> USE <1>2, FinalFrame DEF HasIdom, Pre, PreBlocks
  <2>0. pc' = "done" => todo' = {} /\ joinPreds' = {}
    <3>1. CASE NextJoin \/ StartRunner \/ MoveRunner \/ RunnerDone
        BY <3>1 DEF NextJoin, StartRunner, MoveRunner, RunnerDone
    <3>2. CASE CreateDomTreeSucc \/ UNCHANGED vars
        BY <3>2 DEF CreateDomTreeSucc, vars, LostInv
    <3> QED
        BY <3>1, <3>2, FinalSteps
  <2> SUFFICES ASSUME NEW b \in Joins, b \notin todo', HasIdom(b), NEW p \in Pre(b), ~HasIdom(p)
               PROVE  \/ b = bb' /\ p \in joinPreds'
                      \/ pc' = "runner" /\ b = bb' /\ ~HasIdom(runner')
      BY <2>0 DEF LostInv
  <2>1. b \notin todo => \/ b = bb /\ p \in joinPreds
                         \/ pc = "runner" /\ b = bb /\ ~HasIdom(runner)
      BY DEF LostInv
  <2>2. CASE NextJoin
      BY <2>1, <2>2 DEF NextJoin
  <2>3. CASE StartRunner
      BY <2>1, <2>3 DEF StartRunner
  <2>4. CASE MoveRunner
      BY <2>1, <2>4, BlocksAssumption DEF MoveRunner, BlocksAssumption
  <2>5. CASE RunnerDone
    <3>1. b # Entry
        BY GraphType
    <3>2. HasIdom(idom[b])
        BY <3>1, FinalIdoms
    <3> QED
        BY <2>1, <2>5, <3>2 DEF RunnerDone
  <2>6. CASE CreateDomTreeSucc \/ UNCHANGED vars
      BY <2>1, <2>6 DEF CreateDomTreeSucc, vars
  <2> QED
      BY <2>2, <2>3, <2>4, <2>5, <2>6, FinalSteps
<1> QED
    BY <1>1, <1>2

LEMMA FrontierInvariant == Spec => [](TreeInv /\ FrontierInv)
<1>1. Init => FrontierInv
    BY DEF Init, FrontierInv, RunnerInv, SoundInv, FullInv, LostInv, IdomsFinal
<1>2. Init => TreeInv
    BY TreeInvInit
<1>3. TreeInv /\ FrontierInv /\ [Next]_vars => TreeInv' /\ FrontierInv'
    BY TreeInvStep, RunnerInvStep, SoundInvStep, FullInvStep, LostInvStep DEF FrontierInv
<1> QED
    BY <1>1, <1>2, <1>3, PTL DEF Spec

\* A block that is no join has one predecessor at most.
LEMMA OnePredecessor ==
    ASSUME TreeInv, NEW b \in Blocks \ Joins, NEW p \in Pre(b), NEW q \in Pre(b)
    PROVE  p = q
<1> SUFFICES ASSUME p # q PROVE FALSE
    OBVIOUS
<1>1. IsFiniteSet(Pre(b))
    BY FS_Subset, BlocksAssumption DEF BlocksAssumption, Pre, PreBlocks
<1>2. IsFiniteSet({p}) /\ Cardinality({p}) = 1
    BY FS_Singleton
<1>3. Cardinality({p} \cup {q}) = 2
  <2>1. q \notin {p}
      OBVIOUS
  <2> QED
      BY <1>2, <2>1, FS_AddElement
<1>4. Cardinality({p} \cup {q}) <= Cardinality(Pre(b))
    BY <1>1, FS_Subset
<1>5. Cardinality(Pre(b)) \in Nat
    BY <1>1, FS_CardinalityType
<1> QED
    BY <1>3, <1>4, <1>5 DEF Joins

\* A block's only predecessor is reached before it, and dominates it.
LEMMA OnlyPredecessor ==
    ASSUME TreeInv, IdomsFinal, NEW b \in Blocks \ Joins, HasIdom(b), NEW p \in Pre(b)
    PROVE  HasIdom(p) /\ post_order_id[b] < post_order_id[p]
<1>1. RpoIInv /\ ~InWalk /\ succ \in CFGs /\ p \in Blocks /\ b \in succ[p]
    BY FinalIdoms, AfterWalkTypes DEF Pre, PreBlocks
<1>2. b # Entry
    BY <1>1, GraphType
<1>3. PICK i \in 1..Size : reverse_post_order[i] = b
    BY <1>1, IdomHigher DEF Ordered
<1>4. PICK k \in 1..i - 1 : b \in succ[reverse_post_order[k]]
    BY <1>1, <1>2, <1>3 DEF RpoIInv, IdomInv, OrderInv
<1>5. k \in 1..Size /\ k < i /\ reverse_post_order[k] \in Blocks
    BY <1>1, AfterWalkTypes
<1>6. reverse_post_order[k] = p
    BY <1>4, <1>5, OnePredecessor DEF Pre, PreBlocks
<1>7. HasIdom(p)
    BY <1>5, <1>6 DEF TreeInv, SettledInv
<1> QED
    BY <1>1, <1>3, <1>5, <1>6, <1>7, PlaceByNumber

LEMMA FrontierSound ==
    ASSUME TreeInv, SoundInv, IdomsFinal, NEW a \in Blocks, HasIdom(a), NEW b \in dom_frontier[a]
    PROVE  b \in Frontier(a) /\ Reachable(b)
<1>1. PICK p \in Pre(b) : HasIdom(b) /\ ~Chain(a, idom[b]) /\ HasIdom(p) /\ Chain(a, p)
    BY DEF SoundInv
<1>2. b \in Blocks /\ Reachable(b) /\ b # Entry
    BY <1>1, FinalIdoms, SuccessorHasIdom DEF HasIdom
<1>3. Dom(a, p)
    BY <1>1, ChainDominates
<1>4. ~StrictDom(a, b)
  <2> SUFFICES ASSUME StrictDom(a, b) PROVE FALSE
      OBVIOUS
  <2>1. Dom(a, idom[b]) /\ HasIdom(idom[b]) /\ ~InWalk
      BY <1>1, <1>2, FinalIdoms DEF TreeInv, DominatorInv
  <2> QED
      BY <1>1, <2>1, DominatorsOnChain
<1> QED
    BY <1>2, <1>3, <1>4 DEF Frontier

LEMMA FrontierComplete ==
    ASSUME TreeInv, FrontierInv, pc = "done", NEW a \in Blocks, HasIdom(a),
           NEW b \in Frontier(a), Reachable(b)
    PROVE  b \in dom_frontier[a]
<1>1. IdomsFinal /\ ~InWalk /\ RpoIInv /\ succ \in CFGs /\ idom \in Maps
      /\ \A d \in Blocks : post_order_id[d] \in Nat
    BY FinalIdoms, AfterWalkTypes DEF IdomsFinal
<1>2. PICK p \in Pre(b) : b \in Blocks /\ Dom(a, p) /\ ~StrictDom(a, b)
    BY DEF Frontier
<1>3. HasIdom(b) /\ p \in Blocks /\ b # Entry
    BY <1>1, <1>2, FinalIdoms, GraphType DEF Pre, PreBlocks
<1>4. CASE b \in Joins
  <2>1. HasIdom(p)
      BY <1>1, <1>2, <1>3, <1>4 DEF FrontierInv, LostInv
  <2>2. Chain(a, p)
      BY <1>1, <1>2, <2>1, DominatorsOnChain
  <2>3. ~Chain(a, idom[b])
    <3> SUFFICES ASSUME Chain(a, idom[b]) PROVE FALSE
        OBVIOUS
    <3>1. HasIdom(idom[b]) /\ idom[b] \in Blocks /\ post_order_id[b] < post_order_id[idom[b]]
        BY <1>1, <1>2, <1>3, FinalIdoms
    <3>2. a = idom[b] \/ post_order_id[idom[b]] < post_order_id[a]
        BY <1>1, <3>1, ChainUp
    <3>3. a # b
        BY <1>1, <3>1, <3>2
    <3>4. Chain(a, b)
        BY ChainSelf, ChainNext, ChainTrans DEF Chain
    <3>5. Dom(a, b)
        BY <1>1, <1>3, <3>4, ChainDominates
    <3> QED
        BY <1>2, <3>3, <3>5 DEF StrictDom, StrictlyDominates, Dom
  <2> QED
      BY <1>1, <1>2, <1>3, <1>4, <2>1, <2>2, <2>3 DEF FrontierInv, FullInv, LostInv
<1>5. CASE b \notin Joins
  <2>1. HasIdom(p) /\ post_order_id[b] < post_order_id[p]
      BY <1>1, <1>2, <1>3, <1>5, OnlyPredecessor
  <2>2. \A q \in PreBlocks(succ, b) : Dominates(succ, a, q)
      BY <1>2, <1>5, OnePredecessor DEF Pre, Dom
  <2>3. Dom(a, b)
      BY <1>1, <1>2, <1>3, <2>2, DominatesFromPreds DEF Dom
  <2>4. a = b
      BY <1>2, <2>3 DEF StrictDom, StrictlyDominates, Dom
  <2>5. Chain(b, p)
      BY <1>1, <1>2, <2>1, <2>4, DominatorsOnChain
  <2>6. b = p \/ post_order_id[p] < post_order_id[b]
      BY <1>1, <2>1, <2>5, ChainUp
  <2> QED
      BY <1>1, <1>2, <1>3, <2>1, <2>6
<1> QED
    BY <1>4, <1>5

\* When the analysis ends, the frontier of every reachable block is its
\* dominance frontier, whatever the graph: where Mem2Reg's phis belong.
THEOREM FrontiersAreDominanceFrontiers == Spec => []FrontierIsDominanceFrontier
<1>1. ASSUME TreeInv, FrontierInv PROVE FrontierIsDominanceFrontier
  <2> SUFFICES ASSUME pc = "done", NEW a \in Blocks, Reachable(a)
               PROVE  dom_frontier[a] = {b \in Frontier(a) : Reachable(b)}
      BY DEF FrontierIsDominanceFrontier
  <2>1. IdomsFinal
      BY DEF IdomsFinal
  <2>2. HasIdom(a)
      BY <1>1, <2>1, FinalIdoms
  <2>3. \A b \in dom_frontier[a] : b \in Frontier(a) /\ Reachable(b)
      BY <1>1, <2>1, <2>2, FrontierSound DEF FrontierInv
  <2>4. \A b \in Frontier(a) : Reachable(b) => b \in dom_frontier[a]
      BY <1>1, <2>2, FrontierComplete
  <2> QED
      BY <2>3, <2>4
<1> QED
    BY <1>1, FrontierInvariant, PTL

-----------------------------------------------------------------------------
(***************************************************************************)
(* The dominator tree.                                                     *)
(***************************************************************************)
DomTreeInv == pc = "done" =>
    dom_tree_succ = [a \in MaybeBlock |-> {b \in Blocks : idom[b] = a /\ a # b}]

LEMMA DomTreeInvStep == TreeInv /\ DomTreeInv /\ [Next]_vars => DomTreeInv'
<1> SUFFICES ASSUME TreeInv, DomTreeInv, [Next]_vars, (pc = "done")' PROVE DomTreeInv'
    BY DEF DomTreeInv
<1>1. IdomsFinal
    BY StartFrame
<1>2. CASE CreateDomTreeSucc
  <2>1. idom' = idom
      BY <1>2 DEF CreateDomTreeSucc
  <2> QED
      BY <1>2, <2>1 DEF CreateDomTreeSucc, DomTreeInv
<1>3. CASE UNCHANGED vars
    BY <1>3 DEF vars, DomTreeInv
<1> QED
    BY <1>1, <1>2, <1>3, FinalSteps DEF NextJoin, StartRunner, MoveRunner, RunnerDone

\* When the analysis ends, the dominator tree below a block holds exactly what
\* it dominates: re_name, started at the entry, meets every reachable block.
THEOREM DomTreeSpansDominated == Spec => []DomTreeBelowIsDominated
<1>1. ASSUME TreeInv, DomTreeInv, pc = "done", NEW a \in Blocks, Reachable(a),
             NEW below, below = {b \in Blocks : Reachable(b) /\ Dom(a, b)}
      PROVE  /\ a \in below
             /\ \A s \in below : dom_tree_succ[s] \subseteq below
             /\ \A S \in SUBSET below :
                  a \in S /\ (\A s \in S : dom_tree_succ[s] \subseteq S) => S = below
  <2>1. /\ IdomsFinal /\ ~InWalk /\ RpoIInv /\ Size \in Nat /\ idom \in Maps
        /\ idom[Entry] = Entry /\ Null \notin Blocks
        /\ \A b \in Blocks : Reachable(b) <=> HasIdom(b)
      BY <1>1, FinalIdoms, AfterWalkTypes DEF IdomsFinal
  <2>2. \A b : b \in below <=> HasIdom(b) /\ Chain(a, b)
      BY <1>1, <2>1, ChainDominates, DominatorsOnChain DEF HasIdom
  <2>3. \A s \in Blocks : dom_tree_succ[s] = {b \in Blocks : idom[b] = s /\ s # b}
      BY <1>1 DEF DomTreeInv
  <2>4. a \in below
      BY <1>1, <2>1, <2>2, ChainSelf DEF Chain
  <2>5. ASSUME NEW s \in below, NEW t \in dom_tree_succ[s] PROVE t \in below
    <3>1. s \in Blocks /\ t \in Blocks /\ idom[t] = s
        BY <1>1, <2>3, <2>5
    <3>2. HasIdom(t)
        BY <2>1, <3>1 DEF HasIdom
    <3>3. Chain(s, t)
        BY <3>1, ChainSelf, ChainNext DEF Chain
    <3> QED
        BY <2>2, <2>5, <3>2, <3>3, ChainTrans DEF Chain
  <2>6. ASSUME NEW S \in SUBSET below, a \in S, \A s \in S : dom_tree_succ[s] \subseteq S
        PROVE  S = below
    <3> DEFINE P == {i \in 1..Size : reverse_post_order[i] \in below \ S}
    <3>1. CASE P = {}
      <4>1. \A b \in below : Ordered(b)
          BY <2>1, <2>2, IdomHigher
      <4> QED
          BY <2>6, <3>1, <4>1 DEF Ordered
    <3>2. CASE P # {}
      <4>1. PICK i \in P : \A m \in P : i <= m
        <5>1. P \in SUBSET Nat
            BY <2>1
        <5> QED
            BY <3>2, <5>1, LeastNumber
      <4>2. PICK x \in Blocks : /\ x = reverse_post_order[i] /\ x \in below /\ x \notin S
                                /\ HasIdom(x) /\ Chain(a, x) /\ x # a
          BY <1>1, <2>2, <2>6, <4>1
      <4>3. x # Entry
          BY <2>1, <4>2, ChainOfEntry
      <4>4. /\ HasIdom(idom[x]) /\ idom[x] \in Blocks /\ idom[x] # x
            /\ post_order_id[x] < post_order_id[idom[x]]
          BY <1>1, <2>1, <4>2, <4>3, FinalIdoms
      <4>5. idom[x] \in below
          BY <2>1, <2>2, <4>2, <4>4, ChainStep DEF Chain
      <4>6. PICK k \in 1..Size : reverse_post_order[k] = idom[x]
          BY <2>1, <4>4, IdomHigher DEF Ordered
      <4>7. k < i
          BY <2>1, <4>1, <4>2, <4>4, <4>6, PlaceByNumber
      <4>8. idom[x] \in S
          BY <2>1, <4>1, <4>5, <4>6, <4>7
      <4> QED
          BY <2>3, <2>6, <4>2, <4>4, <4>8
    <3> QED
        BY <3>1, <3>2
  <2> QED
      BY <2>4, <2>5, <2>6
<1>2. TreeInv /\ DomTreeInv => DomTreeBelowIsDominated
  <2> SUFFICES ASSUME TreeInv, DomTreeInv, pc = "done", NEW a \in Blocks, Reachable(a)
               PROVE  LET below == {b \in Blocks : Reachable(b) /\ Dom(a, b)}
                          Closed(S) == a \in S /\ \A s \in S : dom_tree_succ[s] \subseteq S
                      IN  Closed(below) /\ \A S \in SUBSET below : Closed(S) => S = below
      BY DEF DomTreeBelowIsDominated
  <2> DEFINE below == {b \in Blocks : Reachable(b) /\ Dom(a, b)}
  <2>1. /\ a \in below
        /\ \A s \in below : dom_tree_succ[s] \subseteq below
        /\ \A S \in SUBSET below :
             a \in S /\ (\A s \in S : dom_tree_succ[s] \subseteq S) => S = below
    <3> HIDE DEF below
    <3>1. below = {b \in Blocks : Reachable(b) /\ Dom(a, b)}
        BY DEF below
    <3> QED
        BY <1>1, <3>1
  <2> QED
      BY <2>1
<1>3. Init => DomTreeInv
    BY DEF Init, DomTreeInv
<1> QED
    BY <1>2, <1>3, TreeInvInit, TreeInvStep, DomTreeInvStep, PTL DEF Spec
=============================================================================
