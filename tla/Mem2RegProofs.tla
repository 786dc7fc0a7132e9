--------------------------- MODULE Mem2RegProofs ---------------------------
(***************************************************************************)
(* Mem2Reg for every graph, every set of variables and every function the  *)
(* IR builder can make: its types, the stacks of re_name, when the         *)
(* assertion of step 6 can fail, and when what it leaves is in SSA form.   *)
(*                                                                         *)
(* The pass is made of folds: over the instructions of a block, the phis   *)
(* to fill, the instructions to delete.  Each is taken apart by an         *)
(* instance of Folding into the sequence of what it has made so far, and a *)
(* fact about the fold goes up that sequence (UpTo, of ControlFlowProofs). *)
(*                                                                         *)
(* The invariant Inv says, besides types, what the pass may have made of   *)
(* the function so far (Derived: the accesses it has not deleted are those *)
(* of the source, what it added are phis), that the frames are a path of   *)
(* the dominator tree (PathInv), and that each stack is as deep as the     *)
(* blocks of that path have definitions of its variable (StacksHold).  The *)
(* last is what lets step 7 pop without finding a stack empty: what the    *)
(* block has defined is still counted.  The entry is the first block of    *)
(* the path and keeps its instructions until it is left (PhaseInv), so a   *)
(* variable it stores has a stack that is never empty while blocks are     *)
(* renamed.                                                                *)
(*                                                                         *)
(* SSAInv is Inv with three parts more, for a function whose entry stores  *)
(* each local first.  UseInv: the use lists are complete.  WalkInv: the    *)
(* calls of re_name walk the dominator tree, which spans the reachable     *)
(* blocks, so each of them has been entered at the end.  CompleteInv: a    *)
(* phi has a pair for each predecessor that has been entered, and in the   *)
(* blocks that have been, an access to a local waits for its deletion.     *)
(***************************************************************************)
EXTENDS Mem2Reg, ControlFlowProofs

\* The folds of the pass.
SkipAt(i, t, j) == IF j = i THEN t ELSE Append(t, j)
DeleteAt(b, g, i) == DeleteInstr(g, b, i)
PlaceAt(v, g, b) == AddPhi(g, b, v)
PushAt(p, stack, i) == PushPhi(stack, i)
RenameAt(p, r, i) == RenameInstr(r, i)
FillAt(p, g, i) == FillPhi(g, p[1], p[2], i)

Skipping == INSTANCE Folding WITH Op <- SkipAt
Deleting == INSTANCE Folding WITH Op <- DeleteAt
Placing  == INSTANCE Folding WITH Op <- PlaceAt
Pushing  == INSTANCE Folding WITH Op <- PushAt
Renaming == INSTANCE Folding WITH Op <- RenameAt
Filling  == INSTANCE Folding WITH Op <- FillAt
Popping  == INSTANCE Folding WITH Op <- PoppedBy
Running  == INSTANCE Folding WITH Op <- Perform

DeleteAll(g, b, s) == FoldLeft(LAMBDA x, i : DeleteInstr(x, b, i), g, s)
PlaceAll(g, v, s) == FoldLeft(LAMBDA x, b : AddPhi(x, b, v), g, s)
PushAll(stack, s) == FoldLeft(PushPhi, stack, s)
RenameAll(r, s) == FoldLeft(RenameInstr, r, s)
FillAll(g, stack, b, s) == FoldLeft(LAMBDA x, i : FillPhi(x, stack, b, i), g, s)
PopAll(g, stack, s) == FoldLeft(LAMBDA x, i : PoppedBy(g, x, i), stack, s)
PerformAll(g, x, s) == FoldLeft(LAMBDA t, i : Perform(g, t, i), x, s)
-----------------------------------------------------------------------------
(***************************************************************************)
(* Each fold as the sequence h of what it has made.                        *)
(***************************************************************************)
Skips(i, s, n) ==
    \E h : /\ h[0] = <<>>
           /\ \A k \in 1..n : h[k] = IF s[k] = i THEN h[k - 1] ELSE Append(h[k - 1], s[k])
           /\ h[n] = Without(s, i)

\* The fold of Without.
LEMMA SkipSteps ==
    ASSUME NEW i, NEW s, NEW n \in Nat, DOMAIN s = 1..n
    PROVE  Skips(i, s, n)
<1> DEFINE I == CHOOSE iter : Skipping!IsIter(i, <<>>, s, n, iter)
           top(t) == CHOOSE x \in t : \A y \in t : x >= y
           J(T) == CHOOSE iter : iter = [t \in SUBSET T |->
                     IF t = {} THEN <<>>
                     ELSE IF s[top(t)] = i THEN iter[t \ {top(t)}]
                     ELSE Append(iter[t \ {top(t)}], s[top(t)])]
<1>1. Without(s, i) = J(DOMAIN s)[DOMAIN s]
    BY DEF Without, FoldLeft, MapThenFoldSet, Max
<1>2. J(1..n) = I
    BY DEF Skipping!IsIter, Skipping!Top, SkipAt
<1>3. Skipping!IsIter(i, <<>>, s, n, I)
    BY Skipping!FoldExists, LeastNumber DEF Skipping!HasLeast
<1> HIDE DEF I, J
<1>4. PICK h : Skipping!IsSteps(i, <<>>, s, n, h) /\ h[n] = I[1..n]
    BY <1>3, Skipping!FoldSteps, LeastNumber DEF Skipping!HasLeast
<1>5. \A k \in 0..n : h[k] = IF k = 0 THEN <<>>
                           ELSE IF s[k] = i THEN h[k - 1] ELSE Append(h[k - 1], s[k])
    BY <1>4 DEF Skipping!IsSteps, SkipAt
<1>6. 0 \in 0..n /\ \A k \in 1..n : k \in 0..n /\ k # 0
    OBVIOUS
<1>7. h[n] = Without(s, i)
    BY <1>1, <1>2, <1>4, Zenon
<1>8. h[0] = <<>> /\ \A k \in 1..n : h[k] = IF s[k] = i THEN h[k - 1] ELSE Append(h[k - 1], s[k])
    BY <1>5, <1>6
<1> QED
    BY <1>7, <1>8 DEF Skips

Deletes(b, base, s, n) ==
    \E h : /\ h[0] = base
           /\ \A k \in 1..n : h[k] = DeleteInstr(h[k - 1], b, s[k])
           /\ h[n] = DeleteAll(base, b, s)

\* The deletions of step 7.
LEMMA DeleteSteps ==
    ASSUME NEW b, NEW base, NEW s, NEW n \in Nat, DOMAIN s = 1..n
    PROVE  Deletes(b, base, s, n)
<1> DEFINE I == CHOOSE iter : Deleting!IsIter(b, base, s, n, iter)
           top(t) == CHOOSE x \in t : \A y \in t : x >= y
           J(T) == CHOOSE iter : iter = [t \in SUBSET T |->
                     IF t = {} THEN base
                     ELSE DeleteInstr(iter[t \ {top(t)}], b, s[top(t)])]
<1>1. DeleteAll(base, b, s) = J(DOMAIN s)[DOMAIN s]
    BY DEF DeleteAll, FoldLeft, MapThenFoldSet, Max
<1>2. J(1..n) = I
    BY DEF Deleting!IsIter, Deleting!Top, DeleteAt
<1>3. Deleting!IsIter(b, base, s, n, I)
    BY Deleting!FoldExists, LeastNumber DEF Deleting!HasLeast
<1> HIDE DEF I, J
<1>4. PICK h : Deleting!IsSteps(b, base, s, n, h) /\ h[n] = I[1..n]
    BY <1>3, Deleting!FoldSteps, LeastNumber DEF Deleting!HasLeast
<1>5. \A k \in 0..n : h[k] = IF k = 0 THEN base ELSE DeleteInstr(h[k - 1], b, s[k])
    BY <1>4 DEF Deleting!IsSteps, DeleteAt
<1>6. 0 \in 0..n /\ \A k \in 1..n : k \in 0..n /\ k # 0
    OBVIOUS
<1>7. h[n] = DeleteAll(base, b, s)
    BY <1>1, <1>2, <1>4, Zenon
<1>8. h[0] = base /\ \A k \in 1..n : h[k] = DeleteInstr(h[k - 1], b, s[k])
    BY <1>5, <1>6
<1> QED
    BY <1>7, <1>8 DEF Deletes

Places(v, base, s, n) ==
    \E h : /\ h[0] = base
           /\ \A k \in 1..n : h[k] = AddPhi(h[k - 1], s[k], v)
           /\ h[n] = PlaceAll(base, v, s)

\* The phis placed in a frontier.
LEMMA PlaceSteps ==
    ASSUME NEW v, NEW base, NEW s, NEW n \in Nat, DOMAIN s = 1..n
    PROVE  Places(v, base, s, n)
<1> DEFINE I == CHOOSE iter : Placing!IsIter(v, base, s, n, iter)
           top(t) == CHOOSE x \in t : \A y \in t : x >= y
           J(T) == CHOOSE iter : iter = [t \in SUBSET T |->
                     IF t = {} THEN base
                     ELSE AddPhi(iter[t \ {top(t)}], s[top(t)], v)]
<1>1. PlaceAll(base, v, s) = J(DOMAIN s)[DOMAIN s]
    BY DEF PlaceAll, FoldLeft, MapThenFoldSet, Max
<1>2. J(1..n) = I
    BY DEF Placing!IsIter, Placing!Top, PlaceAt
<1>3. Placing!IsIter(v, base, s, n, I)
    BY Placing!FoldExists, LeastNumber DEF Placing!HasLeast
<1> HIDE DEF I, J
<1>4. PICK h : Placing!IsSteps(v, base, s, n, h) /\ h[n] = I[1..n]
    BY <1>3, Placing!FoldSteps, LeastNumber DEF Placing!HasLeast
<1>5. \A k \in 0..n : h[k] = IF k = 0 THEN base ELSE AddPhi(h[k - 1], s[k], v)
    BY <1>4 DEF Placing!IsSteps, PlaceAt
<1>6. 0 \in 0..n /\ \A k \in 1..n : k \in 0..n /\ k # 0
    OBVIOUS
<1>7. h[n] = PlaceAll(base, v, s)
    BY <1>1, <1>2, <1>4, Zenon
<1>8. h[0] = base /\ \A k \in 1..n : h[k] = AddPhi(h[k - 1], s[k], v)
    BY <1>5, <1>6
<1> QED
    BY <1>7, <1>8 DEF Places

Pushes(base, s, n) ==
    \E h : /\ h[0] = base
           /\ \A k \in 1..n : h[k] = PushPhi(h[k - 1], s[k])
           /\ h[n] = PushAll(base, s)

\* Step 3.
LEMMA PushSteps ==
    ASSUME NEW base, NEW s, NEW n \in Nat, DOMAIN s = 1..n
    PROVE  Pushes(base, s, n)
<1> DEFINE p == <<>>
           I == CHOOSE iter : Pushing!IsIter(p, base, s, n, iter)
           top(t) == CHOOSE x \in t : \A y \in t : x >= y
           J(T) == CHOOSE iter : iter = [t \in SUBSET T |->
                     IF t = {} THEN base
                     ELSE PushPhi(iter[t \ {top(t)}], s[top(t)])]
<1>1. PushAll(base, s) = J(DOMAIN s)[DOMAIN s]
    BY DEF PushAll, FoldLeft, MapThenFoldSet, Max
<1>2. J(1..n) = I
    BY DEF Pushing!IsIter, Pushing!Top, PushAt
<1>3. Pushing!IsIter(p, base, s, n, I)
    BY Pushing!FoldExists, LeastNumber DEF Pushing!HasLeast
<1> HIDE DEF I, J
<1>4. PICK h : Pushing!IsSteps(p, base, s, n, h) /\ h[n] = I[1..n]
    BY <1>3, Pushing!FoldSteps, LeastNumber DEF Pushing!HasLeast
<1>5. \A k \in 0..n : h[k] = IF k = 0 THEN base ELSE PushPhi(h[k - 1], s[k])
    BY <1>4 DEF Pushing!IsSteps, PushAt
<1>6. 0 \in 0..n /\ \A k \in 1..n : k \in 0..n /\ k # 0
    OBVIOUS
<1>7. h[n] = PushAll(base, s)
    BY <1>1, <1>2, <1>4, Zenon
<1>8. h[0] = base /\ \A k \in 1..n : h[k] = PushPhi(h[k - 1], s[k])
    BY <1>5, <1>6
<1> QED
    BY <1>7, <1>8 DEF Pushes

Renames(base, s, n) ==
    \E h : /\ h[0] = base
           /\ \A k \in 1..n : h[k] = RenameInstr(h[k - 1], s[k])
           /\ h[n] = RenameAll(base, s)

\* Steps 4 and 5.
LEMMA RenameSteps ==
    ASSUME NEW base, NEW s, NEW n \in Nat, DOMAIN s = 1..n
    PROVE  Renames(base, s, n)
<1> DEFINE p == <<>>
           I == CHOOSE iter : Renaming!IsIter(p, base, s, n, iter)
           top(t) == CHOOSE x \in t : \A y \in t : x >= y
           J(T) == CHOOSE iter : iter = [t \in SUBSET T |->
                     IF t = {} THEN base
                     ELSE RenameInstr(iter[t \ {top(t)}], s[top(t)])]
<1>1. RenameAll(base, s) = J(DOMAIN s)[DOMAIN s]
    BY DEF RenameAll, FoldLeft, MapThenFoldSet, Max
<1>2. J(1..n) = I
    BY DEF Renaming!IsIter, Renaming!Top, RenameAt
<1>3. Renaming!IsIter(p, base, s, n, I)
    BY Renaming!FoldExists, LeastNumber DEF Renaming!HasLeast
<1> HIDE DEF I, J
<1>4. PICK h : Renaming!IsSteps(p, base, s, n, h) /\ h[n] = I[1..n]
    BY <1>3, Renaming!FoldSteps, LeastNumber DEF Renaming!HasLeast
<1>5. \A k \in 0..n : h[k] = IF k = 0 THEN base ELSE RenameInstr(h[k - 1], s[k])
    BY <1>4 DEF Renaming!IsSteps, RenameAt
<1>6. 0 \in 0..n /\ \A k \in 1..n : k \in 0..n /\ k # 0
    OBVIOUS
<1>7. h[n] = RenameAll(base, s)
    BY <1>1, <1>2, <1>4, Zenon
<1>8. h[0] = base /\ \A k \in 1..n : h[k] = RenameInstr(h[k - 1], s[k])
    BY <1>5, <1>6
<1> QED
    BY <1>7, <1>8 DEF Renames

Fills(p, base, s, n) ==
    \E h : /\ h[0] = base
           /\ \A k \in 1..n : h[k] = FillPhi(h[k - 1], p[1], p[2], s[k])
           /\ h[n] = FillAll(base, p[1], p[2], s)

\* Step 6.
LEMMA FillSteps ==
    ASSUME NEW p, NEW base, NEW s, NEW n \in Nat, DOMAIN s = 1..n
    PROVE  Fills(p, base, s, n)
<1> DEFINE I == CHOOSE iter : Filling!IsIter(p, base, s, n, iter)
           top(t) == CHOOSE x \in t : \A y \in t : x >= y
           J(T) == CHOOSE iter : iter = [t \in SUBSET T |->
                     IF t = {} THEN base
                     ELSE FillPhi(iter[t \ {top(t)}], p[1], p[2], s[top(t)])]
<1>1. FillAll(base, p[1], p[2], s) = J(DOMAIN s)[DOMAIN s]
    BY DEF FillAll, FoldLeft, MapThenFoldSet, Max
<1>2. J(1..n) = I
    BY DEF Filling!IsIter, Filling!Top, FillAt
<1>3. Filling!IsIter(p, base, s, n, I)
    BY Filling!FoldExists, LeastNumber DEF Filling!HasLeast
<1> HIDE DEF I, J
<1>4. PICK h : Filling!IsSteps(p, base, s, n, h) /\ h[n] = I[1..n]
    BY <1>3, Filling!FoldSteps, LeastNumber DEF Filling!HasLeast
<1>5. \A k \in 0..n : h[k] = IF k = 0 THEN base ELSE FillPhi(h[k - 1], p[1], p[2], s[k])
    BY <1>4 DEF Filling!IsSteps, FillAt
<1>6. 0 \in 0..n /\ \A k \in 1..n : k \in 0..n /\ k # 0
    OBVIOUS
<1>7. h[n] = FillAll(base, p[1], p[2], s)
    BY <1>1, <1>2, <1>4, Zenon
<1>8. h[0] = base /\ \A k \in 1..n : h[k] = FillPhi(h[k - 1], p[1], p[2], s[k])
    BY <1>5, <1>6
<1> QED
    BY <1>7, <1>8 DEF Fills

Pops(g, base, s, n) ==
    \E h : /\ h[0] = base
           /\ \A k \in 1..n : h[k] = PoppedBy(g, h[k - 1], s[k])
           /\ h[n] = PopAll(g, base, s)

\* The pops of step 7.
LEMMA PopSteps ==
    ASSUME NEW g, NEW base, NEW s, NEW n \in Nat, DOMAIN s = 1..n
    PROVE  Pops(g, base, s, n)
<1> DEFINE I == CHOOSE iter : Popping!IsIter(g, base, s, n, iter)
           top(t) == CHOOSE x \in t : \A y \in t : x >= y
           J(T) == CHOOSE iter : iter = [t \in SUBSET T |->
                     IF t = {} THEN base
                     ELSE PoppedBy(g, iter[t \ {top(t)}], s[top(t)])]
<1>1. PopAll(g, base, s) = J(DOMAIN s)[DOMAIN s]
    BY DEF PopAll, FoldLeft, MapThenFoldSet, Max
<1>2. J(1..n) = I
    BY DEF Popping!IsIter, Popping!Top
<1>3. Popping!IsIter(g, base, s, n, I)
    BY Popping!FoldExists, LeastNumber DEF Popping!HasLeast
<1> HIDE DEF I, J
<1>4. PICK h : Popping!IsSteps(g, base, s, n, h) /\ h[n] = I[1..n]
    BY <1>3, Popping!FoldSteps, LeastNumber DEF Popping!HasLeast
<1>5. \A k \in 0..n : h[k] = IF k = 0 THEN base ELSE PoppedBy(g, h[k - 1], s[k])
    BY <1>4 DEF Popping!IsSteps
<1>6. 0 \in 0..n /\ \A k \in 1..n : k \in 0..n /\ k # 0
    OBVIOUS
<1>7. h[n] = PopAll(g, base, s)
    BY <1>1, <1>2, <1>4, Zenon
<1>8. h[0] = base /\ \A k \in 1..n : h[k] = PoppedBy(g, h[k - 1], s[k])
    BY <1>5, <1>6
<1> QED
    BY <1>7, <1>8 DEF Pops

Runs(g, base, s, n) ==
    \E h : /\ h[0] = base
           /\ \A k \in 1..n : h[k] = Perform(g, h[k - 1], s[k])
           /\ h[n] = PerformAll(g, base, s)

\* A block that runs.
LEMMA RunSteps ==
    ASSUME NEW g, NEW base, NEW s, NEW n \in Nat, DOMAIN s = 1..n
    PROVE  Runs(g, base, s, n)
<1> DEFINE I == CHOOSE iter : Running!IsIter(g, base, s, n, iter)
           top(t) == CHOOSE x \in t : \A y \in t : x >= y
           J(T) == CHOOSE iter : iter = [t \in SUBSET T |->
                     IF t = {} THEN base
                     ELSE Perform(g, iter[t \ {top(t)}], s[top(t)])]
<1>1. PerformAll(g, base, s) = J(DOMAIN s)[DOMAIN s]
    BY DEF PerformAll, FoldLeft, MapThenFoldSet, Max
<1>2. J(1..n) = I
    BY DEF Running!IsIter, Running!Top
<1>3. Running!IsIter(g, base, s, n, I)
    BY Running!FoldExists, LeastNumber DEF Running!HasLeast
<1> HIDE DEF I, J
<1>4. PICK h : Running!IsSteps(g, base, s, n, h) /\ h[n] = I[1..n]
    BY <1>3, Running!FoldSteps, LeastNumber DEF Running!HasLeast
<1>5. \A k \in 0..n : h[k] = IF k = 0 THEN base ELSE Perform(g, h[k - 1], s[k])
    BY <1>4 DEF Running!IsSteps
<1>6. 0 \in 0..n /\ \A k \in 1..n : k \in 0..n /\ k # 0
    OBVIOUS
<1>7. h[n] = PerformAll(g, base, s)
    BY <1>1, <1>2, <1>4, Zenon
<1>8. h[0] = base /\ \A k \in 1..n : h[k] = Perform(g, h[k - 1], s[k])
    BY <1>5, <1>6
<1> QED
    BY <1>7, <1>8 DEF Runs

-----------------------------------------------------------------------------
(***************************************************************************)
(* Lists and sets.                                                         *)
(***************************************************************************)
\* SetToSeq lists a finite set, each element once.
LEMMA SetToSeqOf ==
    ASSUME NEW S, IsFiniteSet(S)
    PROVE  /\ SetToSeq(S) \in Seq(S)
           /\ IsInjective(SetToSeq(S))
           /\ ToSet(SetToSeq(S)) = S
<1> DEFINE n == Cardinality(S)
<1>1. n \in Nat /\ ExistsBijection(1..n, S)
    BY FS_CardinalityType
<1>2. PICK e \in Bijection(1..n, S) : TRUE
    BY <1>1 DEF ExistsBijection
<1>3. e \in [1..n -> S] /\ IsInjective(e)
  <2>1. e \in [1..n -> S] /\ \A a, b \in 1..n : e[a] = e[b] => a = b
      BY <1>2, Zenon DEF Bijection, Injection, IsInjective
  <2> QED
      BY <2>1 DEF IsInjective
<1>4. SetToSeq(S) \in [1..n -> S] /\ IsInjective(SetToSeq(S))
    BY <1>3 DEF SetToSeq
<1> DEFINE s == SetToSeq(S)
<1> HIDE DEF s
<1>5. s \in [1..n -> S] /\ \A a, b \in 1..n : s[a] = s[b] => a = b
    BY <1>4 DEF s, IsInjective
<1>6. s \in Injection(1..n, S)
    BY <1>5 DEF Injection, IsInjective
<1>7. IsFiniteSet(1..n) /\ Cardinality(1..n) = n
  <2>1. IsFiniteSet(1..n) /\ Cardinality(1..n) = IF 1 > n THEN 0 ELSE n - 1 + 1
      BY <1>1, FS_Interval
  <2> QED
      BY <2>1, <1>1
<1>8. s \in Surjection(1..n, S)
    BY <1>6, <1>7, FS_Injection
<1>9. \A x \in S : \E a \in 1..n : s[a] = x
    BY <1>8 DEF Surjection
<1>10. s \in Seq(S)
    BY <1>1, <1>5
<1>11. ToSet(s) = S
    BY <1>5, <1>9 DEF ToSet
<1> QED
    BY <1>4, <1>10, <1>11 DEF s

\* The elements of a list are finitely many.
LEMMA ToSetFinite ==
    ASSUME NEW S, NEW s \in Seq(S)
    PROVE  IsFiniteSet(ToSet(s)) /\ ToSet(s) \subseteq S
<1>1. DOMAIN s = 1..Len(s) /\ Len(s) \in Nat /\ \A k \in 1..Len(s) : s[k] \in S
    OBVIOUS
<1>2. s \in Surjection(1..Len(s), ToSet(s))
    BY <1>1 DEF Surjection, ToSet
<1>3. IsFiniteSet(1..Len(s))
    BY <1>1, FS_Interval
<1> QED
    BY <1>1, <1>2, <1>3, FS_Surjection DEF ToSet

\* Without(s, i) is s but for i, and repeats nothing that s does not.
LEMMA WithoutEffect ==
    ASSUME NEW S, NEW s \in Seq(S), NEW i
    PROVE  /\ Without(s, i) \in Seq(S)
           /\ IsInjective(s) => IsInjective(Without(s, i))
           /\ ToSet(Without(s, i)) = ToSet(s) \ {i}
<1> DEFINE n == Len(s)
<1>1. n \in Nat /\ DOMAIN s = 1..n /\ \A k \in 1..n : s[k] \in S
    OBVIOUS
<1>2. PICK h : /\ h[0] = <<>>
               /\ \A k \in 1..n : h[k] = IF s[k] = i THEN h[k - 1] ELSE Append(h[k - 1], s[k])
               /\ h[n] = Without(s, i)
  <2> HIDE DEF n
  <2>1. Skips(i, s, n)
      BY <1>1, SkipSteps
  <2> QED
      BY <2>1 DEF Skips
<1>3. IsInjective(s) => \A a, b \in 1..n : s[a] = s[b] => a = b
    BY <1>1 DEF IsInjective
<1> DEFINE Good(k) ==
             /\ h[k] \in Seq(S)
             /\ IsInjective(s) => \A a, b \in 1..Len(h[k]) : h[k][a] = h[k][b] => a = b
             /\ \A a \in 1..Len(h[k]) : \E m \in 1..k : h[k][a] = s[m] /\ s[m] # i
             /\ \A m \in 1..k : s[m] # i => \E a \in 1..Len(h[k]) : h[k][a] = s[m]
           T == {k \in 0..n : Good(k)}
<1>4. 0 \in T
  <2>1. Len(<<>>) = 0 /\ <<>> \in Seq(S) /\ 1..0 = {} /\ 0 \in 0..n
      BY <1>1
  <2>2. Good(0)
      BY <1>2, <2>1
  <2> QED
      BY <2>1, <2>2
<1>5. ASSUME NEW k \in 1..n, k - 1 \in T PROVE k \in T
  <2>1. Good(k - 1) /\ k \in Nat /\ k - 1 \in Nat
    <3>1. k - 1 \in {m \in 0..n : Good(m)}
        BY <1>5, Zenon
    <3>2. Good(k - 1)
      <4> HIDE DEF Good
      <4> QED
          BY <3>1
    <3>3. k \in Nat /\ k - 1 \in Nat
      <4> HIDE DEF T, n
      <4> QED
          BY <1>1
    <3> QED
        BY <3>2, <3>3, Zenon
  <2> DEFINE t == h[k - 1]
             u == h[k]
  <2>2. CASE s[k] = i
    <3>1. u = t
        BY <1>2, <2>2
    <3>2. /\ \A m \in 1..(k - 1) : m \in 1..k
          /\ \A m \in 1..k : m \in 1..(k - 1) \/ m = k
        BY <2>1
    <3> HIDE DEF t, u
    <3>3. /\ t \in Seq(S)
          /\ IsInjective(s) => \A a, b \in 1..Len(t) : t[a] = t[b] => a = b
          /\ \A a \in 1..Len(t) : \E m \in 1..(k - 1) : t[a] = s[m] /\ s[m] # i
          /\ \A m \in 1..(k - 1) : s[m] # i => \E a \in 1..Len(t) : t[a] = s[m]
        BY <2>1 DEF t
    <3>4. \A a \in 1..Len(t) : \E m \in 1..k : t[a] = s[m] /\ s[m] # i
        BY <3>2, <3>3
    <3>5. \A m \in 1..k : s[m] # i => \E a \in 1..Len(t) : t[a] = s[m]
        BY <2>2, <3>2, <3>3
    <3>6. /\ u \in Seq(S)
          /\ IsInjective(s) => \A a, b \in 1..Len(u) : u[a] = u[b] => a = b
          /\ \A a \in 1..Len(u) : \E m \in 1..k : u[a] = s[m] /\ s[m] # i
          /\ \A m \in 1..k : s[m] # i => \E a \in 1..Len(u) : u[a] = s[m]
        BY <3>1, <3>3, <3>4, <3>5, Zenon
    <3> QED
        BY <3>6 DEF u
  <2>3. CASE s[k] # i
    <3>1. u = Append(t, s[k]) /\ t \in Seq(S) /\ s[k] \in S
        BY <1>1, <1>2, <2>1, <2>3
    <3> HIDE DEF t, u
    <3>2. /\ u \in Seq(S) /\ Len(u) = Len(t) + 1 /\ Len(t) \in Nat
          /\ \A a \in 1..Len(t) : u[a] = t[a]
          /\ u[Len(t) + 1] = s[k]
        BY <3>1
    <3>3. \A a \in 1..Len(u) : a \in 1..Len(t) \/ a = Len(t) + 1
        BY <3>2
    <3>4. \A a \in 1..Len(t) : \E m \in 1..(k - 1) : t[a] = s[m] /\ s[m] # i
        BY <2>1 DEF t
    <3>5. IsInjective(s) => \A a, b \in 1..Len(t) : t[a] = t[b] => a = b
        BY <2>1 DEF t
    <3>6. /\ \A m \in 1..(k - 1) : m \in 1..n /\ m \in 1..k /\ m # k
          /\ \A m \in 1..k : m \in 1..(k - 1) \/ m = k
        BY <2>1
    <3>7. IsInjective(s) => \A a \in 1..Len(t) : t[a] # s[k]
        BY <3>4, <3>6, <1>3
    <3>8. \A a \in 1..Len(u) : \E m \in 1..k : u[a] = s[m] /\ s[m] # i
      <4>1. k \in 1..k
          BY <2>1
      <4> QED
          BY <4>1, <2>3, <3>2, <3>3, <3>4, <3>6
    <3>9. IsInjective(s) => \A a, b \in 1..Len(u) : u[a] = u[b] => a = b
        BY <3>2, <3>3, <3>5, <3>7
    <3>10. \A m \in 1..k : s[m] # i => \E a \in 1..Len(u) : u[a] = s[m]
      <4>1. \A m \in 1..(k - 1) : s[m] # i => \E a \in 1..Len(t) : t[a] = s[m]
          BY <2>1 DEF t
      <4>2. \A a \in 1..Len(t) : a \in 1..Len(u)
          BY <3>2
      <4>3. Len(t) + 1 \in 1..Len(u)
          BY <3>2
      <4> QED
          BY <4>1, <4>2, <4>3, <3>2, <3>6
    <3> QED
        BY <3>2, <3>8, <3>9, <3>10 DEF u
  <2> QED
      BY <2>2, <2>3
<1>6. Good(n)
  <2> HIDE DEF T, n
  <2>1. 0..n \subseteq T
      BY <1>1, <1>4, <1>5, UpTo
  <2> HIDE DEF Good
  <2>2. n \in {k \in 0..n : Good(k)}
      BY <1>1, <2>1 DEF T
  <2> QED
      BY <2>2
<1>7. DOMAIN h[n] = 1..Len(h[n])
    BY <1>6
<1>8. ToSet(Without(s, i)) = ToSet(s) \ {i}
  <2> DEFINE t == h[n]
  <2> HIDE DEF n
  <2>1. /\ \A a \in 1..Len(t) : \E m \in 1..n : t[a] = s[m] /\ s[m] # i
        /\ \A m \in 1..n : s[m] # i => \E a \in 1..Len(t) : t[a] = s[m]
      BY <1>6
  <2>2. DOMAIN t = 1..Len(t) /\ DOMAIN s = 1..n /\ t = Without(s, i)
      BY <1>1, <1>2, <1>7
  <2> HIDE DEF t
  <2>3. ToSet(t) = {t[a] : a \in 1..Len(t)} /\ ToSet(s) = {s[m] : m \in 1..n}
      BY <2>2 DEF ToSet
  <2>4. \A x \in ToSet(t) : x \in ToSet(s) \ {i}
      BY <2>1, <2>3
  <2>5. \A x \in ToSet(s) \ {i} : x \in ToSet(t)
      BY <2>1, <2>3
  <2> QED
      BY <2>2, <2>4, <2>5
<1>9. IsInjective(s) => IsInjective(Without(s, i))
  <2> HIDE DEF n
  <2> QED
      BY <1>2, <1>6, <1>7 DEF IsInjective
<1> QED
    BY <1>2, <1>6, <1>8, <1>9

\* A new element put before a list.
LEMMA Prepending ==
    ASSUME NEW S, NEW s \in Seq(S), IsInjective(s), NEW i \in S, i \notin ToSet(s)
    PROVE  /\ <<i>> \o s \in Seq(S)
           /\ IsInjective(<<i>> \o s)
           /\ ToSet(<<i>> \o s) = {i} \cup ToSet(s)
<1> DEFINE t == <<i>> \o s
           n == Len(s)
<1>1. n \in Nat /\ DOMAIN s = 1..n
    OBVIOUS
<1>2. t \in Seq(S) /\ Len(t) = n + 1 /\ t[1] = i /\ \A k \in 2..n + 1 : t[k] = s[k - 1]
    BY <1>1
<1>3. DOMAIN t = 1..n + 1
    BY <1>2
<1>4. \A k \in 1..n + 1 : k = 1 \/ (k \in 2..n + 1 /\ k - 1 \in 1..n)
    BY <1>1
<1>5. \A k \in 1..n : s[k] # i
    BY <1>1 DEF ToSet
<1>6. \A a, b \in 1..n : s[a] = s[b] => a = b
    BY <1>1 DEF IsInjective
<1>7. \A k \in 1..n : k + 1 \in 2..n + 1 /\ k + 1 - 1 = k /\ k + 1 \in 1..n + 1 /\ t[k + 1] = s[k]
    BY <1>1, <1>2
<1> HIDE DEF t, n
<1>8. \A a, b \in 1..n + 1 : t[a] = t[b] => a = b
  <2> SUFFICES ASSUME NEW a \in 1..n + 1, NEW b \in 1..n + 1, t[a] = t[b], a # b PROVE FALSE
      OBVIOUS
  <2>1. CASE a = 1
      BY <2>1, <1>2, <1>4, <1>5
  <2>2. CASE b = 1
      BY <2>2, <1>2, <1>4, <1>5
  <2>3. CASE a # 1 /\ b # 1
    <3>1. a - 1 \in 1..n /\ b - 1 \in 1..n /\ s[a - 1] = s[b - 1]
        BY <2>3, <1>2, <1>4
    <3> QED
        BY <3>1, <1>6, <1>1
  <2> QED
      BY <2>1, <2>2, <2>3
<1>9. IsInjective(t)
    BY <1>3, <1>8 DEF IsInjective
<1>10. 1 \in 1..n + 1
    BY <1>1
<1>11. ToSet(t) = {i} \cup ToSet(s)
  <2>1. ASSUME NEW k \in 1..n + 1 PROVE t[k] \in {i} \cup ToSet(s)
      BY <1>1, <1>2, <1>4 DEF ToSet
  <2>2. ASSUME NEW k \in 1..n PROVE s[k] \in ToSet(t)
      BY <1>3, <1>7 DEF ToSet
  <2>3. \A x \in ToSet(t) : x \in {i} \cup ToSet(s)
      BY <2>1, <1>3 DEF ToSet
  <2>4. \A x \in ToSet(s) : x \in ToSet(t)
      BY <2>2, <1>1 DEF ToSet
  <2>5. i \in ToSet(t)
      BY <1>2, <1>3, <1>10 DEF ToSet
  <2> QED
      BY <2>3, <2>4, <2>5
<1> QED
    BY <1>2, <1>9, <1>11 DEF t

\* How many places up to k are in T.
Count(T, k) == Cardinality(T \cap 1..k)

\* Going on to place k, the count rises if k is in T.
LEMMA CountSteps ==
    ASSUME NEW T, NEW k \in Nat
    PROVE  /\ Count(T, k) \in Nat
           /\ Count(T, 0) = 0
           /\ k # 0 => Count(T, k) = Count(T, k - 1) + IF k \in T THEN 1 ELSE 0
<1>1. \A m \in Nat : IsFiniteSet(T \cap 1..m)
  <2>1. \A m \in Nat : IsFiniteSet(1..m)
      BY FS_Interval
  <2> QED
      BY <2>1, FS_Subset
<1>2. Count(T, k) \in Nat
    BY <1>1, FS_CardinalityType DEF Count
<1>3. Count(T, 0) = 0
  <2>1. T \cap 1..0 = {}
      OBVIOUS
  <2> QED
      BY <2>1, FS_EmptySet DEF Count
<1>4. ASSUME k # 0
      PROVE  Count(T, k) = Count(T, k - 1) + IF k \in T THEN 1 ELSE 0
  <2>0. k - 1 \in Nat
      BY <1>4
  <2>1. CASE k \in T
    <3>1. T \cap 1..k = (T \cap 1..(k - 1)) \cup {k} /\ k \notin T \cap 1..(k - 1)
        BY <2>0, <2>1
    <3>2. Cardinality(T \cap 1..k) = Cardinality(T \cap 1..(k - 1)) + 1
        BY <2>0, <3>1, <1>1, FS_AddElement
    <3> QED
        BY <3>2, <2>1 DEF Count
  <2>2. CASE k \notin T
    <3>1. T \cap 1..k = T \cap 1..(k - 1)
        BY <2>0, <2>2
    <3>2. Count(T, k - 1) \in Nat
        BY <2>0, <1>1, FS_CardinalityType DEF Count
    <3> QED
      <4>1. Count(T, k) = Count(T, k - 1)
          BY <3>1 DEF Count
      <4> QED
          BY <4>1, <3>2, <2>2
  <2> QED
      BY <2>1, <2>2
<1> QED
    BY <1>2, <1>3, <1>4
\* No count up to k is above the number of all places of T.
LEMMA CountMost ==
    ASSUME NEW T, NEW n \in Nat, NEW k \in 0..n
    PROVE  Count(T, k) <= Count(T, n)
<1>1. T \cap 1..k \subseteq T \cap 1..n /\ IsFiniteSet(1..n)
    BY FS_Interval
<1>2. IsFiniteSet(T \cap 1..n)
    BY <1>1, FS_Subset
<1> QED
    BY <1>1, <1>2, FS_Subset DEF Count

\* The elements of M in a list, counted along the list.
LEMMA CountOf ==
    ASSUME NEW S, NEW s \in Seq(S), IsInjective(s), NEW M \in SUBSET ToSet(s)
    PROVE  /\ IsFiniteSet(M) /\ Cardinality(M) \in Nat
           /\ Count({k \in 1..Len(s) : s[k] \in M}, Len(s)) = Cardinality(M)
<1> DEFINE n == Len(s)
           T == {k \in 1..n : s[k] \in M}
           h == [k \in T |-> s[k]]
<1>1. n \in Nat /\ DOMAIN s = 1..n
    OBVIOUS
<1>2. IsFiniteSet(M) /\ Cardinality(M) \in Nat
    BY ToSetFinite, FS_Subset, FS_CardinalityType
<1>3. IsFiniteSet(T)
  <2>1. IsFiniteSet(1..n) /\ T \subseteq 1..n
      BY <1>1, FS_Interval
  <2> QED
      BY <2>1, FS_Subset
<1>4. h \in Bijection(T, M)
  <2>1. h \in [T -> M]
      OBVIOUS
  <2>2. \A a, b \in T : h[a] = h[b] => a = b
      BY <1>1 DEF IsInjective
  <2>3. \A x \in M : \E a \in T : h[a] = x
      BY <1>1 DEF ToSet
  <2> QED
      BY <2>1, <2>2, <2>3 DEF Bijection, Injection, Surjection, IsInjective
<1>5. Cardinality(T) = Cardinality(M)
    BY <1>2, <1>3, <1>4, FS_Bijection DEF ExistsBijection
<1>6. T \cap 1..n = T
    OBVIOUS
<1> QED
    BY <1>2, <1>5, <1>6 DEF Count
-----------------------------------------------------------------------------
(***************************************************************************)
(* What the pass leaves of the function src it is given.                   *)
(***************************************************************************)
Instructions(src) ==
    DOMAIN src.op \cup {PhiOf(b, v) : b \in Blocks, v \in StoredVariables(src)}

IsFunction(g) == DOMAIN g = {"code", "op", "args", "uses", "blocks", "succ", "pre"}

\* Blocks hold instructions of src that were there, and phis.
HoldsInstructions(src, code) ==
    /\ code \in [Blocks -> Seq(Instructions(src))]
    /\ \A b \in Blocks : IsInjective(code[b])
    /\ \A b \in Blocks : \A i \in ToSet(code[b]) :
         i \in ToSet(src.code[b]) \/ \E v \in StoredVariables(src) : i = PhiOf(b, v)

\* A load or a store of src is still one, and of the same variable.
KeepsAccesses(src, op, args) ==
    /\ DOMAIN op = DOMAIN args /\ DOMAIN src.op \subseteq DOMAIN op
    /\ \A i \in DOMAIN op : IsPhi(i) => op[i] = "phi"
    /\ \A i \in DOMAIN src.op :
         /\ op[i] = src.op[i]
         /\ op[i] = "load" => args[i] = <<src.args[i][1]>>
         /\ op[i] = "store" => args[i] = <<args[i][1], src.args[i][2]>>

\* No use list but that of its variable has the variable's use by an access.
KeepsUses(src, uses) ==
    \A u \in uses :
        u[2] \in DOMAIN src.op =>
            /\ src.op[u[2]] = "load" /\ u[3] = 1 => u[1] = src.args[u[2]][1]
            /\ src.op[u[2]] = "store" /\ u[3] = 2 => u[1] = src.args[u[2]][2]

\* A branch of src is still one to the same blocks, but for its condition.
KeepsBranches(src, args) ==
    \A i \in DOMAIN src.op : src.op[i] = "br" =>
        IF Len(src.args[i]) = 1 THEN args[i] = <<src.args[i][1]>>
        ELSE args[i] = <<args[i][1], src.args[i][2], src.args[i][3]>>

\* And no use list but that of the label has the label's use.
KeepsLabels(src, uses) ==
    \A u \in uses :
        u[2] \in DOMAIN src.op /\ src.op[u[2]] = "br" =>
            IF Len(src.args[u[2]]) = 1 THEN u[3] = 1 => u[1] = src.args[u[2]][1]
            ELSE u[3] \in {2, 3} => u[1] = src.args[u[2]][u[3]]

KeepsOperands(src, g) ==
    /\ KeepsAccesses(src, g.op, g.args) /\ KeepsUses(src, g.uses)
    /\ KeepsBranches(src, g.args) /\ KeepsLabels(src, g.uses)

Derived(src, g) ==
    /\ IsFunction(g)
    /\ g.blocks = src.blocks /\ g.succ = src.succ /\ g.pre = src.pre
    /\ HoldsInstructions(src, g.code)
    /\ \A b \in Blocks : ToSet(g.code[b]) \subseteq DOMAIN g.op
    /\ KeepsOperands(src, g)

\* The branches of the source: one label, or two behind a condition.
LEMMA BranchShape ==
    ASSUME NEW src, BuiltByIRBuilder(src), NEW i \in DOMAIN src.op, src.op[i] = "br"
    PROVE  IF Len(src.args[i]) = 1
           THEN src.args[i] = <<src.args[i][1]>> /\ src.args[i][1][1] = "block"
           ELSE /\ src.args[i] = <<src.args[i][1], src.args[i][2], src.args[i][3]>>
                /\ Len(src.args[i]) = 3
                /\ src.args[i][2] \in {Label(b) : b \in Blocks}
                /\ src.args[i][3] \in {Label(b) : b \in Blocks}
                /\ src.args[i][2][1] = "block" /\ src.args[i][3][1] = "block"
<1>1. \A b : Label(b)[1] = "block"
    BY DEF Label
<1>2. CASE \E b \in Blocks : src.args[i] = <<Label(b)>>
  <2>1. PICK b \in Blocks : src.args[i] = <<Label(b)>>
      BY <1>2
  <2>2. Len(src.args[i]) = 1 /\ src.args[i][1] = Label(b)
      BY <2>1
  <2> QED
      BY <1>1, <2>1, <2>2
<1>3. CASE \E b, c \in Blocks : src.args[i] = <<src.args[i][1], Label(b), Label(c)>>
  <2>1. PICK b \in Blocks, c \in Blocks : src.args[i] = <<src.args[i][1], Label(b), Label(c)>>
      BY <1>3
  <2>2. Len(src.args[i]) = 3 /\ src.args[i][2] = Label(b) /\ src.args[i][3] = Label(c)
      BY <2>1
  <2> QED
      BY <1>1, <2>1, <2>2
<1> QED
    BY <1>2, <1>3 DEF BuiltByIRBuilder

\* Instructions of the source are no phis, and neither are variables instructions.
LEMMA InstructionKinds ==
    ASSUME NEW src, BuiltByIRBuilder(src)
    PROVE  /\ \A i \in DOMAIN src.op : ~IsPhi(i) /\ i \notin Memory
           /\ \A b, v : IsPhi(PhiOf(b, v)) /\ PhiOf(b, v)[3] = v
           /\ \A b \in Blocks : \A i \in ToSet(src.code[b]) : i \in DOMAIN src.op
<1>1. \A i \in DOMAIN src.op : i[1] = "i"
    BY DEF BuiltByIRBuilder
<1>2. \A v \in Memory : v[1] = "var"
    BY DEF Memory, Scalars, Variable
<1>3. \A i \in DOMAIN src.op : ~IsPhi(i) /\ i \notin Memory
    BY <1>1, <1>2 DEF IsPhi
<1>4. \A b, v : IsPhi(PhiOf(b, v)) /\ PhiOf(b, v)[3] = v
    BY DEF IsPhi, PhiOf
<1>5. \A b \in Blocks : \A i \in ToSet(src.code[b]) : i \in DOMAIN src.op
  <2>1. \A b \in Blocks : src.code[b] \in Seq(DOMAIN src.op)
      BY DEF BuiltByIRBuilder
  <2> QED
      BY <2>1, ToSetFinite
<1> QED
    BY <1>3, <1>4, <1>5

\* The function given is the first that the pass has of it.
LEMMA SourceDerived ==
    ASSUME NEW src, BuiltByIRBuilder(src)
    PROVE  Derived(src, src)
<1>1. \A i \in DOMAIN src.op : ~IsPhi(i)
    BY InstructionKinds
<1>2. IsFunction(src)
    BY DEF BuiltByIRBuilder, IsFunction
<1>3. KeepsAccesses(src, src.op, src.args)
    BY <1>1 DEF BuiltByIRBuilder, KeepsAccesses
<1>4. HoldsInstructions(src, src.code)
  <2>1. src.code \in [Blocks -> Seq(DOMAIN src.op)] /\ \A b \in Blocks : IsInjective(src.code[b])
      BY DEF BuiltByIRBuilder
  <2>2. Seq(DOMAIN src.op) \subseteq Seq(Instructions(src))
      BY DEF Instructions
  <2> QED
      BY <2>1, <2>2 DEF HoldsInstructions
<1>8. ASSUME NEW u \in src.uses
      PROVE  u[2] \in DOMAIN src.args /\ u[1] = src.args[u[2]][u[3]]
  <2>1. src.uses =
           UNION {{<<src.args[i][n], i, n>> : n \in DOMAIN src.args[i]} : i \in DOMAIN src.args}
      BY DEF BuiltByIRBuilder, UsesOf
  <2>2. PICK i \in DOMAIN src.args : u \in {<<src.args[i][n], i, n>> : n \in DOMAIN src.args[i]}
      BY <2>1, Zenon
  <2>3. PICK n \in DOMAIN src.args[i] : u = <<src.args[i][n], i, n>>
      BY <2>2
  <2> QED
      BY <2>3
<1>5. KeepsUses(src, src.uses)
    BY <1>8 DEF KeepsUses
<1>6. KeepsBranches(src, src.args)
    BY BranchShape DEF KeepsBranches
<1>7. KeepsLabels(src, src.uses)
    BY <1>8 DEF KeepsLabels
<1>9. KeepsOperands(src, src)
    BY <1>3, <1>5, <1>6, <1>7 DEF KeepsOperands
<1> QED
    BY <1>2, <1>4, <1>9, InstructionKinds DEF Derived

\* Replacing an instruction leaves variables, labels and everything but operands
\* and uses as they are.
LEMMA ReplaceEffect ==
    ASSUME NEW src, BuiltByIRBuilder(src), NEW g, IsFunction(g), KeepsOperands(src, g),
           NEW v \in Instructions(src), NEW w
    PROVE  /\ IsFunction(ReplaceAllUseWith(g, v, w))
           /\ KeepsOperands(src, ReplaceAllUseWith(g, v, w))
           /\ ReplaceAllUseWith(g, v, w).code = g.code
           /\ ReplaceAllUseWith(g, v, w).op = g.op
           /\ ReplaceAllUseWith(g, v, w).blocks = g.blocks
           /\ ReplaceAllUseWith(g, v, w).succ = g.succ
           /\ ReplaceAllUseWith(g, v, w).pre = g.pre
<1> DEFINE used == {u \in g.uses : u[1] = v}
           new == {<<w, u[2], u[3]>> : u \in used}
           args == [i \in DOMAIN g.args |->
                      [n \in DOMAIN g.args[i] |->
                          IF <<v, i, n>> \in used THEN w ELSE g.args[i][n]]]
           r == ReplaceAllUseWith(g, v, w)
<1>1. r = [g EXCEPT !.args = args, !.uses = @ \cup new]
    BY DEF ReplaceAllUseWith
<1>2. /\ IsFunction(r) /\ r.code = g.code /\ r.op = g.op /\ r.args = args
      /\ r.blocks = g.blocks /\ r.succ = g.succ /\ r.pre = g.pre /\ r.uses = g.uses \cup new
  <2> HIDE DEF args, new, r
  <2> QED
      BY <1>1, SMTT(30) DEF IsFunction
<1>3. KeepsAccesses(src, g.op, g.args) /\ KeepsUses(src, g.uses)
      /\ KeepsBranches(src, g.args) /\ KeepsLabels(src, g.uses)
    BY DEF KeepsOperands
<1>0. v \notin Memory /\ v[1] # "block"
  <2>1. v[1] \in {"i", "phi"}
      BY DEF Instructions, PhiOf, BuiltByIRBuilder
  <2>2. \A m \in Memory : m[1] = "var"
      BY DEF Memory, Scalars, Variable
  <2> QED
      BY <2>1, <2>2
<1>4. \A i \in DOMAIN src.op :
         /\ src.op[i] = "load" => src.args[i][1] \in Memory
         /\ src.op[i] = "store" => src.args[i][2] \in Memory
    BY DEF BuiltByIRBuilder
<1>5. KeepsUses(src, g.uses \cup new)
  <2>1. ASSUME NEW u \in new, u[2] \in DOMAIN src.op
        PROVE  /\ src.op[u[2]] = "load" => u[3] # 1
               /\ src.op[u[2]] = "store" => u[3] # 2
    <3>1. PICK t \in used : u = <<w, t[2], t[3]>>
        OBVIOUS
    <3>2. t \in g.uses /\ t[1] = v /\ u[2] = t[2] /\ u[3] = t[3]
        BY <3>1
    <3> QED
        BY <2>1, <3>2, <1>0, <1>3, <1>4 DEF KeepsUses
  <2> HIDE DEF new
  <2> QED
      BY <2>1, <1>3 DEF KeepsUses
<1>6. KeepsAccesses(src, g.op, args)
  <2>1. DOMAIN args = DOMAIN g.args
      OBVIOUS
  <2>2. ASSUME NEW i \in DOMAIN src.op, src.op[i] = "load"
        PROVE  args[i] = <<src.args[i][1]>>
    <3>1. i \in DOMAIN g.args /\ g.args[i] = <<src.args[i][1]>>
        BY <2>2, <1>3 DEF KeepsAccesses
    <3>2. <<v, i, 1>> \notin used
      <4>1. ASSUME <<v, i, 1>> \in g.uses PROVE FALSE
        <5>1. <<v, i, 1>>[1] = src.args[i][1]
            BY <2>2, <4>1, <1>3 DEF KeepsUses
        <5> QED
            BY <5>1, <2>2, <1>0, <1>4
      <4> QED
          BY <4>1
    <3>3. args[i] = [n \in {1} |-> IF <<v, i, n>> \in used THEN w ELSE g.args[i][n]]
        BY <3>1
    <3> HIDE DEF args, used
    <3> QED
        BY <3>1, <3>2, <3>3
  <2>3. ASSUME NEW i \in DOMAIN src.op, src.op[i] = "store"
        PROVE  args[i] = <<args[i][1], src.args[i][2]>>
    <3>1. i \in DOMAIN g.args /\ g.args[i] = <<g.args[i][1], src.args[i][2]>>
        BY <2>3, <1>3 DEF KeepsAccesses
    <3>2. <<v, i, 2>> \notin used
      <4>1. ASSUME <<v, i, 2>> \in g.uses PROVE FALSE
        <5>1. <<v, i, 2>>[1] = src.args[i][2]
            BY <2>3, <4>1, <1>3 DEF KeepsUses
        <5> QED
            BY <5>1, <2>3, <1>0, <1>4
      <4> QED
          BY <4>1
    <3>3. args[i] = [n \in {1, 2} |-> IF <<v, i, n>> \in used THEN w ELSE g.args[i][n]]
        BY <3>1
    <3> HIDE DEF args, used
    <3> QED
        BY <3>1, <3>2, <3>3
  <2> HIDE DEF args
  <2> QED
      BY <1>3, <2>1, <2>2, <2>3 DEF KeepsAccesses
<1>8. KeepsLabels(src, g.uses \cup new)
  <2>1. ASSUME NEW u \in new, u[2] \in DOMAIN src.op, src.op[u[2]] = "br"
        PROVE  IF Len(src.args[u[2]]) = 1 THEN u[3] # 1 ELSE u[3] \notin {2, 3}
    <3>1. PICK t \in used : u = <<w, t[2], t[3]>>
        OBVIOUS
    <3>2. t \in g.uses /\ t[1] = v /\ u[2] = t[2] /\ u[3] = t[3]
        BY <3>1
    <3> HIDE DEF new, used
    <3> QED
        BY <2>1, <3>2, <1>0, <1>3, BranchShape DEF KeepsLabels
  <2> HIDE DEF new
  <2> QED
      BY <2>1, <1>3 DEF KeepsLabels
<1>9. KeepsBranches(src, args)
  <2> SUFFICES ASSUME NEW i \in DOMAIN src.op, src.op[i] = "br"
               PROVE  IF Len(src.args[i]) = 1 THEN args[i] = <<src.args[i][1]>>
                      ELSE args[i] = <<args[i][1], src.args[i][2], src.args[i][3]>>
      BY DEF KeepsBranches
  <2>1. /\ i \in DOMAIN g.args
        /\ IF Len(src.args[i]) = 1 THEN g.args[i] = <<src.args[i][1]>>
           ELSE g.args[i] = <<g.args[i][1], src.args[i][2], src.args[i][3]>>
      BY <1>3 DEF KeepsBranches, KeepsAccesses
  <2>2. ASSUME NEW n, IF Len(src.args[i]) = 1 THEN n = 1 ELSE n \in {2, 3}
        PROVE  <<v, i, n>> \notin used
    <3> SUFFICES ASSUME <<v, i, n>> \in g.uses PROVE FALSE
        OBVIOUS
    <3>1. v = src.args[i][n]
      <4> DEFINE u == <<v, i, n>>
      <4>1. u \in g.uses /\ u[1] = v /\ u[2] = i /\ u[3] = n
          OBVIOUS
      <4> HIDE DEF u
      <4> QED
          BY <4>1, <2>2, <1>3 DEF KeepsLabels
    <3>2. src.args[i][n][1] = "block"
        BY <2>2, BranchShape
    <3> QED
        BY <3>1, <3>2, <1>0
  <2>3. args[i] = [n \in DOMAIN g.args[i] |-> IF <<v, i, n>> \in used THEN w ELSE g.args[i][n]]
      BY <2>1
  <2> HIDE DEF args, used
  <2>4. CASE Len(src.args[i]) = 1
    <3>1. g.args[i] = <<src.args[i][1]>> /\ <<v, i, 1>> \notin used
        BY <2>1, <2>2, <2>4
    <3>2. DOMAIN args[i] = {1} /\ args[i][1] = src.args[i][1]
        BY <3>1, <2>3
    <3>3. args[i] = [n \in {1} |-> args[i][n]]
        BY <2>3, <3>2
    <3> QED
        BY <2>4, <3>2, <3>3
  <2>5. CASE Len(src.args[i]) # 1
    <3>1. /\ g.args[i] = <<g.args[i][1], src.args[i][2], src.args[i][3]>>
          /\ <<v, i, 2>> \notin used /\ <<v, i, 3>> \notin used
        BY <2>1, <2>2, <2>5
    <3>2. /\ DOMAIN args[i] = {1, 2, 3}
          /\ args[i][2] = src.args[i][2] /\ args[i][3] = src.args[i][3]
        BY <3>1, <2>3
    <3>3. args[i] = [n \in {1, 2, 3} |-> args[i][n]]
        BY <2>3, <3>2
    <3> QED
        BY <2>5, <3>2, <3>3
  <2> QED
      BY <2>4, <2>5
<1> HIDE DEF args, new, r
<1>7. KeepsOperands(src, r)
    BY <1>2, <1>5, <1>6, <1>8, <1>9 DEF KeepsOperands
<1> QED
    BY <1>2, <1>7 DEF r

\* Replacing a load with the value on its variable's stack.
LEMMA ReplaceDerived ==
    ASSUME NEW src, BuiltByIRBuilder(src), NEW g, Derived(src, g),
           NEW v \in Instructions(src), NEW w
    PROVE  /\ Derived(src, ReplaceAllUseWith(g, v, w))
           /\ ReplaceAllUseWith(g, v, w).code = g.code
<1> DEFINE r == ReplaceAllUseWith(g, v, w)
<1>1. IsFunction(g) /\ KeepsOperands(src, g)
    BY DEF Derived
<1>2. /\ IsFunction(r) /\ KeepsOperands(src, r) /\ r.code = g.code /\ r.op = g.op
      /\ r.blocks = g.blocks /\ r.succ = g.succ /\ r.pre = g.pre
    BY <1>1, ReplaceEffect
<1> HIDE DEF r
<1>3. Derived(src, r)
    BY <1>2 DEF Derived
<1> QED
    BY <1>2, <1>3 DEF r

\* Deleting an instruction.
LEMMA DeleteDerived ==
    ASSUME NEW src, NEW g, Derived(src, g), NEW b \in Blocks, NEW i
    PROVE  /\ Derived(src, DeleteInstr(g, b, i))
           /\ \A c \in Blocks : c # b => DeleteInstr(g, b, i).code[c] = g.code[c]
           /\ ToSet(DeleteInstr(g, b, i).code[b]) = ToSet(g.code[b]) \ {i}
<1> DEFINE left == {u \in g.uses : ~(u[2] = i /\ u[1] \in OperandsOf(g, i))}
           code == [g.code EXCEPT ![b] = Without(@, i)]
           r == DeleteInstr(g, b, i)
<1>1. r = [g EXCEPT !.code = code, !.uses = left]
    BY SMTT(30) DEF DeleteInstr, Derived, IsFunction
<1>2. /\ IsFunction(r) /\ r.code = code /\ r.op = g.op /\ r.args = g.args
      /\ r.blocks = g.blocks /\ r.succ = g.succ /\ r.pre = g.pre /\ r.uses = left
  <2> HIDE DEF left, code, r
  <2> QED
      BY <1>1, SMTT(30) DEF Derived, IsFunction
<1>3. HoldsInstructions(src, g.code) /\ KeepsOperands(src, g)
    BY DEF Derived
<1>4. KeepsOperands(src, r)
    BY <1>2, <1>3 DEF KeepsOperands, KeepsUses, KeepsLabels
<1>5. g.code[b] \in Seq(Instructions(src)) /\ IsInjective(g.code[b])
    BY <1>3 DEF HoldsInstructions
<1>6. /\ Without(g.code[b], i) \in Seq(Instructions(src))
      /\ IsInjective(Without(g.code[b], i))
      /\ ToSet(Without(g.code[b], i)) = ToSet(g.code[b]) \ {i}
    BY <1>5, WithoutEffect
<1>7. \A c \in Blocks : code[c] = IF c = b THEN Without(g.code[b], i) ELSE g.code[c]
    BY <1>3 DEF HoldsInstructions
<1>8. code \in [Blocks -> Seq(Instructions(src))]
    BY <1>3, <1>6 DEF HoldsInstructions
<1> HIDE DEF left, code, r
<1>9. HoldsInstructions(src, code)
    BY <1>3, <1>6, <1>7, <1>8 DEF HoldsInstructions
<1>10. \A c \in Blocks : ToSet(code[c]) \subseteq DOMAIN g.op
    BY <1>6, <1>7 DEF Derived
<1>11. Derived(src, r)
    BY <1>2, <1>4, <1>9, <1>10 DEF Derived
<1> QED
    BY <1>2, <1>6, <1>7, <1>11 DEF r

\* Placing a phi for a stored variable in a block that has none for it.
LEMMA AddPhiDerived ==
    ASSUME NEW src, BuiltByIRBuilder(src), NEW g, Derived(src, g),
           NEW b \in Blocks, NEW v \in StoredVariables(src),
           PhiOf(b, v) \notin ToSet(g.code[b])
    PROVE  /\ Derived(src, AddPhi(g, b, v))
           /\ \A c \in Blocks : c # b => AddPhi(g, b, v).code[c] = g.code[c]
           /\ ToSet(AddPhi(g, b, v).code[b]) = {PhiOf(b, v)} \cup ToSet(g.code[b])
<1> DEFINE i == PhiOf(b, v)
           op == [j \in DOMAIN g.op \cup {i} |-> IF j = i THEN "phi" ELSE g.op[j]]
           args == [j \in DOMAIN g.args \cup {i} |-> IF j = i THEN <<>> ELSE g.args[j]]
           k == [g EXCEPT !.op = op, !.args = args]
           code == [g.code EXCEPT ![b] = <<i>> \o @]
           r == AddPhi(g, b, v)
<1>1. r = [k EXCEPT !.code[b] = <<i>> \o @]
    BY DEF AddPhi, AddInstrBegin
<1>2. /\ IsFunction(k) /\ k.code = g.code /\ k.op = op /\ k.args = args
      /\ k.blocks = g.blocks /\ k.succ = g.succ /\ k.pre = g.pre /\ k.uses = g.uses
  <2>1. IsFunction(g)
      BY DEF Derived
  <2>2. k = [g EXCEPT !.op = op, !.args = args]
      OBVIOUS
  <2> HIDE DEF op, args, k
  <2> QED
      BY <2>1, <2>2, SMTT(30) DEF IsFunction
<1> HIDE DEF i, op, args, k, r
<1>3. r = [k EXCEPT !.code = code]
    BY <1>1, <1>2
<1> HIDE DEF code
<1>4. /\ IsFunction(r) /\ r.code = code /\ r.op = op /\ r.args = args
      /\ r.blocks = g.blocks /\ r.succ = g.succ /\ r.pre = g.pre /\ r.uses = g.uses
    BY <1>2, <1>3, SMTT(30) DEF IsFunction
<1>5. HoldsInstructions(src, g.code) /\ KeepsAccesses(src, g.op, g.args) /\ KeepsOperands(src, g)
    BY DEF Derived, KeepsOperands
<1>6. IsPhi(i) /\ i \notin DOMAIN src.op /\ i \in Instructions(src)
    BY InstructionKinds DEF i, Instructions
<1>7. g.code[b] \in Seq(Instructions(src)) /\ IsInjective(g.code[b])
    BY <1>5 DEF HoldsInstructions
<1>8. /\ <<i>> \o g.code[b] \in Seq(Instructions(src))
      /\ IsInjective(<<i>> \o g.code[b])
      /\ ToSet(<<i>> \o g.code[b]) = {i} \cup ToSet(g.code[b])
    BY <1>6, <1>7, Prepending DEF i
<1>9. \A c \in Blocks : code[c] = IF c = b THEN <<i>> \o g.code[b] ELSE g.code[c]
    BY <1>5 DEF HoldsInstructions, code
<1>10. code \in [Blocks -> Seq(Instructions(src))]
    BY <1>5, <1>8 DEF HoldsInstructions, code
<1>11. HoldsInstructions(src, code)
    BY <1>5, <1>8, <1>9, <1>10 DEF HoldsInstructions, i
<1>12. DOMAIN op = DOMAIN g.op \cup {i} /\ DOMAIN args = DOMAIN g.args \cup {i}
       /\ op[i] = "phi" /\ \A j \in DOMAIN g.op : j # i => op[j] = g.op[j] /\ args[j] = g.args[j]
    BY <1>5 DEF op, args, KeepsAccesses
<1>13. \A c \in Blocks : ToSet(code[c]) \subseteq DOMAIN op
    BY <1>8, <1>9, <1>12 DEF Derived
<1>14. KeepsAccesses(src, op, args)
    BY <1>5, <1>6, <1>12 DEF KeepsAccesses
<1>17. KeepsBranches(src, args)
  <2>1. \A j \in DOMAIN src.op : args[j] = g.args[j]
      BY <1>5, <1>6, <1>12 DEF KeepsAccesses
  <2> QED
      BY <2>1, <1>5 DEF KeepsOperands, KeepsBranches
<1>18. KeepsOperands(src, r)
    BY <1>4, <1>5, <1>14, <1>17 DEF KeepsOperands
<1>15. Derived(src, r)
    BY <1>4, <1>11, <1>13, <1>18 DEF Derived
<1>16. r.code[b] = <<i>> \o g.code[b] /\ \A c \in Blocks : c # b => r.code[c] = g.code[c]
    BY <1>4, <1>9
<1> QED
    BY <1>8, <1>15, <1>16 DEF r, i

\* Operands for a phi.
LEMMA AddOperandDerived ==
    ASSUME NEW src, NEW g, Derived(src, g), NEW i, i \notin DOMAIN src.op, NEW v
    PROVE  /\ Derived(src, AddOperand(g, i, v))
           /\ AddOperand(g, i, v).code = g.code
<1> DEFINE args == [g.args EXCEPT ![i] = Append(@, v)]
           uses == g.uses \cup {<<v, i, Len(g.args[i]) + 1>>}
           r == AddOperand(g, i, v)
<1>1. r = [g EXCEPT !.args = args, !.uses = uses]
    BY SMTT(30) DEF AddOperand, Derived, IsFunction
<1>2. /\ IsFunction(r) /\ r.code = g.code /\ r.op = g.op /\ r.args = args
      /\ r.blocks = g.blocks /\ r.succ = g.succ /\ r.pre = g.pre /\ r.uses = uses
  <2> HIDE DEF args, uses, r
  <2> QED
      BY <1>1, SMTT(30) DEF Derived, IsFunction
<1>0. KeepsOperands(src, g)
    BY DEF Derived
<1>3. KeepsAccesses(src, g.op, args) /\ KeepsBranches(src, args)
  <2>1. /\ DOMAIN args = DOMAIN g.args
        /\ \A j \in DOMAIN src.op : j \in DOMAIN g.args => args[j] = g.args[j]
      OBVIOUS
  <2> HIDE DEF args
  <2> QED
      BY <2>1, <1>0 DEF KeepsOperands, KeepsAccesses, KeepsBranches
<1>4. KeepsUses(src, uses) /\ KeepsLabels(src, uses)
    BY <1>0 DEF KeepsOperands, KeepsUses, KeepsLabels
<1> HIDE DEF args, uses, r
<1>5. KeepsOperands(src, r)
    BY <1>2, <1>3, <1>4 DEF KeepsOperands
<1>6. Derived(src, r)
    BY <1>2, <1>5 DEF Derived
<1> QED
    BY <1>2, <1>6 DEF r

\* The two operands that step 6 gives a phi.
LEMMA FillDerived ==
    ASSUME NEW src, NEW g, Derived(src, g), NEW stack, NEW b,
           NEW i, i \notin DOMAIN src.op
    PROVE  /\ Derived(src, FillPhi(g, stack, b, i))
           /\ FillPhi(g, stack, b, i).code = g.code
    BY AddOperandDerived DEF FillPhi
-----------------------------------------------------------------------------
(***************************************************************************)
(* The stacks of the variables.                                            *)
(***************************************************************************)
AreStacks(src, stack) ==
    /\ DOMAIN stack \subseteq StoredVariables(src)
    /\ \A v \in DOMAIN stack : stack[v] \in Seq(ToSet(stack[v]))

Depth(stack, v) == IF v \in DOMAIN stack THEN Len(stack[v]) ELSE 0

\* A variable without a stack counts as one with an empty stack.
LEMMA DepthType ==
    ASSUME NEW src, NEW stack, AreStacks(src, stack), NEW v
    PROVE  /\ Depth(stack, v) \in Nat
           /\ v \in DOMAIN stack => (stack[v] = <<>> <=> Depth(stack, v) = 0)
<1>1. CASE v \in DOMAIN stack
  <2> DEFINE s == stack[v]
  <2>1. s \in Seq(ToSet(s))
      BY <1>1 DEF AreStacks
  <2> HIDE DEF s
  <2>2. Len(s) \in Nat /\ (s = <<>> <=> Len(s) = 0)
      BY <2>1, EmptySeq
  <2> QED
      BY <1>1, <2>2 DEF Depth, s
<1>2. CASE v \notin DOMAIN stack
    BY <1>2 DEF Depth
<1> QED
    BY <1>1, <1>2

\* A list is a list of its elements.
LEMMA OwnElements ==
    ASSUME NEW S, NEW s \in Seq(S)
    PROVE  s \in Seq(ToSet(s))
<1>1. s \in [1..Len(s) -> ToSet(s)] /\ Len(s) \in Nat
    BY DEF ToSet
<1> QED
    BY <1>1

\* A push makes one stack one deeper.
LEMMA PushEffect ==
    ASSUME NEW src, NEW stack, AreStacks(src, stack),
           NEW v \in StoredVariables(src), NEW x
    PROVE  /\ AreStacks(src, Push(stack, v, x))
           /\ \A w : Depth(Push(stack, v, x), w) = Depth(stack, w) + IF w = v THEN 1 ELSE 0
<1> DEFINE r == Push(stack, v, x)
           own == IF v \in DOMAIN stack THEN Append(stack[v], x) ELSE <<x>>
<1>1. /\ DOMAIN r = DOMAIN stack \cup {v}
      /\ r[v] = own
      /\ \A w \in DOMAIN stack : w # v => r[w] = stack[w]
    BY DEF Push
<1>2. own \in Seq(ToSet(own)) /\ Len(own) = Depth(stack, v) + 1
  <2>1. CASE v \in DOMAIN stack
    <3>1. stack[v] \in Seq(ToSet(stack[v]))
        BY <2>1 DEF AreStacks
    <3>2. Append(stack[v], x) \in Seq(ToSet(stack[v]) \cup {x})
        BY <3>1
    <3>3. Len(Append(stack[v], x)) = Len(stack[v]) + 1
        BY <3>1
    <3> QED
        BY <2>1, <3>2, <3>3, OwnElements DEF Depth
  <2>2. CASE v \notin DOMAIN stack
    <3>1. own = <<x>> /\ Depth(stack, v) = 0
        BY <2>2 DEF Depth
    <3>2. <<x>> \in Seq({x}) /\ Len(<<x>>) = 1
        OBVIOUS
    <3>3. <<x>> \in Seq(ToSet(<<x>>))
        BY <3>2, OwnElements
    <3> HIDE DEF own
    <3> QED
        BY <3>1, <3>2, <3>3
  <2> QED
      BY <2>1, <2>2
<1> HIDE DEF r, own
<1>3. AreStacks(src, r)
    BY <1>1, <1>2 DEF AreStacks
<1>4. \A w : Depth(stack, w) \in Nat
    BY DepthType
<1>5. ASSUME NEW w PROVE Depth(r, w) = Depth(stack, w) + IF w = v THEN 1 ELSE 0
  <2>1. CASE w = v
      BY <2>1, <1>1, <1>2 DEF Depth
  <2>2. CASE w # v
    <3>1. Depth(r, w) = Depth(stack, w)
        BY <2>2, <1>1 DEF Depth
    <3> QED
        BY <2>2, <3>1, <1>4
  <2> QED
      BY <2>1, <2>2
<1> QED
    BY <1>3, <1>5 DEF r

\* A pop of a stack that is not empty makes it one less deep.
LEMMA PopEffect ==
    ASSUME NEW src, NEW stack, AreStacks(src, stack),
           NEW v \in DOMAIN stack, stack[v] # <<>>
    PROVE  /\ AreStacks(src, Pop(stack, v))
           /\ \A w : Depth(Pop(stack, v), w) = Depth(stack, w) - IF w = v THEN 1 ELSE 0
<1> DEFINE r == Pop(stack, v)
           own == Front(stack[v])
<1>1. /\ DOMAIN r = DOMAIN stack
      /\ r[v] = own
      /\ \A w \in DOMAIN stack : w # v => r[w] = stack[w]
    BY DEF Pop
<1>2. own \in Seq(ToSet(own)) /\ Len(own) = Depth(stack, v) - 1
  <2>1. stack[v] \in Seq(ToSet(stack[v]))
      BY DEF AreStacks
  <2>2. own \in Seq(ToSet(stack[v])) /\ Len(own) = Len(stack[v]) - 1
      BY <2>1, FrontLast
  <2> QED
      BY <2>2, OwnElements DEF Depth
<1> HIDE DEF r, own
<1>3. AreStacks(src, r)
    BY <1>1, <1>2 DEF AreStacks
<1>4. \A w : Depth(stack, w) \in Nat
    BY DepthType
<1>5. ASSUME NEW w PROVE Depth(r, w) = Depth(stack, w) - IF w = v THEN 1 ELSE 0
  <2>1. CASE w = v
      BY <2>1, <1>1, <1>2 DEF Depth
  <2>2. CASE w # v
    <3>1. Depth(r, w) = Depth(stack, w)
        BY <2>2, <1>1 DEF Depth
    <3> QED
        BY <2>2, <3>1, <1>4
  <2> QED
      BY <2>1, <2>2
<1> QED
    BY <1>3, <1>5 DEF r
-----------------------------------------------------------------------------
(***************************************************************************)
(* What the folds of re_name do to the stacks.                             *)
(***************************************************************************)
PhisOf(s, v) == {i \in ToSet(s) : IsPhi(i) /\ i[3] = v}

StoresOf(src, s, v) ==
    {i \in ToSet(s) : ~IsPhi(i) /\ src.op[i] = "store" /\ src.args[i][2] = v}

Makes(src, s, v) ==
    {i \in ToSet(s) : IF IsPhi(i) THEN i[3] = v ELSE src.op[i] = "store" /\ src.args[i][2] = v}

\* An instruction in a block is a phi for a stored variable or one of the source.
LEMMA CodeKinds ==
    ASSUME NEW src, BuiltByIRBuilder(src), NEW g, Derived(src, g), NEW b \in Blocks,
           NEW i \in ToSet(g.code[b])
    PROVE  /\ i \in DOMAIN g.op
           /\ \/ /\ IsPhi(i) /\ i \notin DOMAIN src.op /\ g.op[i] = "phi"
                 /\ i[3] \in StoredVariables(src)
              \/ /\ ~IsPhi(i) /\ i \in DOMAIN src.op /\ i \notin Memory
                 /\ g.op[i] = src.op[i]
                 /\ src.op[i] = "load" =>
                      Last(g.args[i]) = src.args[i][1]
                 /\ src.op[i] = "store" =>
                      /\ Last(g.args[i]) = src.args[i][2] /\ g.args[i][2] = src.args[i][2]
                      /\ Promoted(src.args[i][2]) <=> src.args[i][2] \in StoredVariables(src)
<1>1. i \in DOMAIN g.op /\ KeepsAccesses(src, g.op, g.args)
    BY DEF Derived, KeepsOperands
<1>2. CASE i \in ToSet(src.code[b])
  <2>1. i \in DOMAIN src.op /\ ~IsPhi(i) /\ i \notin Memory
      BY <1>2, InstructionKinds
  <2>2. g.op[i] = src.op[i]
      BY <1>1, <2>1 DEF KeepsAccesses
  <2>3. ASSUME src.op[i] = "load" PROVE Last(g.args[i]) = src.args[i][1]
    <3>1. g.args[i] = <<src.args[i][1]>>
        BY <1>1, <2>1, <2>2, <2>3 DEF KeepsAccesses
    <3> QED
        BY <3>1 DEF Last
  <2>4. ASSUME src.op[i] = "store"
        PROVE  /\ Last(g.args[i]) = src.args[i][2] /\ g.args[i][2] = src.args[i][2]
               /\ Promoted(src.args[i][2]) <=> src.args[i][2] \in StoredVariables(src)
    <3>1. g.args[i] = <<g.args[i][1], src.args[i][2]>>
        BY <1>1, <2>1, <2>2, <2>4 DEF KeepsAccesses
    <3>2. src.args[i][2] \in Memory
        BY <2>1, <2>4 DEF BuiltByIRBuilder
    <3>3. Promoted(src.args[i][2]) <=> src.args[i][2] \in StoredVariables(src)
        BY <3>2, <2>4, <1>2 DEF StoredVariables, Stores
    <3>4. Len(g.args[i]) = 2 /\ g.args[i][2] = src.args[i][2]
        BY <3>1
    <3> QED
        BY <3>3, <3>4 DEF Last
  <2> QED
      BY <1>1, <2>1, <2>2, <2>3, <2>4
<1>3. CASE i \notin ToSet(src.code[b])
  <2>1. PICK v \in StoredVariables(src) : i = PhiOf(b, v)
      BY <1>3 DEF Derived, HoldsInstructions
  <2>2. IsPhi(i) /\ i[3] = v /\ i \notin DOMAIN src.op
      BY <2>1, InstructionKinds
  <2> QED
      BY <1>1, <2>1, <2>2 DEF KeepsAccesses
<1> QED
    BY <1>2, <1>3

\* The list of a block, and the places in it of what a set holds.
LEMMA CodeList ==
    ASSUME NEW src, NEW g, Derived(src, g), NEW b \in Blocks
    PROVE  /\ g.code[b] \in Seq(Instructions(src)) /\ IsInjective(g.code[b])
           /\ Len(g.code[b]) \in Nat /\ DOMAIN g.code[b] = 1..Len(g.code[b])
           /\ \A k \in 1..Len(g.code[b]) : g.code[b][k] \in ToSet(g.code[b])
<1>1. g.code[b] \in Seq(Instructions(src)) /\ IsInjective(g.code[b])
    BY DEF Derived, HoldsInstructions
<1>2. Len(g.code[b]) \in Nat /\ DOMAIN g.code[b] = 1..Len(g.code[b])
    BY <1>1
<1> QED
    BY <1>1, <1>2 DEF ToSet

\* Step 3 puts on the stack of each variable its phis.
LEMMA PushAllEffect ==
    ASSUME NEW src, BuiltByIRBuilder(src), NEW g, Derived(src, g), NEW b \in Blocks,
           NEW stack, AreStacks(src, stack)
    PROVE  /\ AreStacks(src, PushAll(stack, g.code[b]))
           /\ \A v : Depth(PushAll(stack, g.code[b]), v) =
                        Depth(stack, v) + Cardinality(PhisOf(g.code[b], v))
<1> DEFINE s == g.code[b]
           n == Len(s)
           T(v) == {k \in 1..n : s[k] \in PhisOf(s, v)}
<1>1. /\ n \in Nat /\ DOMAIN s = 1..n /\ \A k \in 1..n : s[k] \in ToSet(s)
      /\ s \in Seq(Instructions(src)) /\ IsInjective(s)
    BY CodeList
<1>2. \A i \in ToSet(s) : IsPhi(i) => i[3] \in StoredVariables(src)
    BY CodeKinds
<1> HIDE DEF s, n
<1>3. PICK h : /\ h[0] = stack
               /\ \A k \in 1..n : h[k] = PushPhi(h[k - 1], s[k])
               /\ h[n] = PushAll(stack, s)
  <2>1. Pushes(stack, s, n)
      BY <1>1, PushSteps
  <2> QED
      BY <2>1 DEF Pushes
<1> DEFINE Good(k) == /\ AreStacks(src, h[k])
                      /\ \A v : Depth(h[k], v) = Depth(stack, v) + Count(T(v), k)
           Z == {k \in 0..n : Good(k)}
<1>4. \A v : Depth(stack, v) \in Nat
    BY DepthType
<1>5. 0 \in Z
  <2> HIDE DEF T
  <2>1. \A v : Count(T(v), 0) = 0
      BY CountSteps
  <2>2. Good(0)
      BY <2>1, <1>3, <1>4
  <2> QED
      BY <2>2, <1>1
<1>6. ASSUME NEW k \in 1..n, k - 1 \in Z PROVE k \in Z
  <2>1. AreStacks(src, h[k - 1]) /\ \A v : Depth(h[k - 1], v) = Depth(stack, v) + Count(T(v), k - 1)
      BY <1>6
  <2>2. h[k] = PushPhi(h[k - 1], s[k]) /\ s[k] \in ToSet(s) 
        /\ k \in Nat /\ k # 0 /\ k - 1 \in Nat
      BY <1>1, <1>3, <1>6
  <2>3. \A v : k \in T(v) <=> IsPhi(s[k]) /\ s[k][3] = v
      BY <2>2 DEF PhisOf
  <2> HIDE DEF T
  <2>4. \A v : /\ Count(T(v), k) = Count(T(v), k - 1) + IF k \in T(v) THEN 1 ELSE 0
               /\ Count(T(v), k - 1) \in Nat
      BY <2>2, CountSteps
  <2>5. CASE IsPhi(s[k])
    <3>1. h[k] = Push(h[k - 1], s[k][3], s[k]) /\ s[k][3] \in StoredVariables(src)
        BY <2>2, <2>5, <1>2 DEF PushPhi
    <3>2. /\ AreStacks(src, h[k])
          /\ \A v : Depth(h[k], v) = Depth(h[k - 1], v) + IF v = s[k][3] THEN 1 ELSE 0
        BY <3>1, <2>1, PushEffect
    <3>3. \A v : Depth(h[k], v) = Depth(stack, v) + Count(T(v), k)
      <4> SUFFICES ASSUME NEW v PROVE Depth(h[k], v) = Depth(stack, v) + Count(T(v), k)
          OBVIOUS
      <4>1. (v = s[k][3]) <=> k \in T(v)
          BY <2>3, <2>5
      <4> QED
          BY <4>1, <3>2, <2>1, <2>4, <1>4
    <3> QED
        BY <3>2, <3>3
  <2>6. CASE ~IsPhi(s[k])
    <3>1. h[k] = h[k - 1]
        BY <2>2, <2>6 DEF PushPhi
    <3>2. \A v : Count(T(v), k) = Count(T(v), k - 1)
        BY <2>3, <2>4, <2>6
    <3> QED
        BY <3>1, <3>2, <2>1
  <2> QED
      BY <2>5, <2>6
<1>7. Good(n)
  <2> HIDE DEF Good
  <2>1. 0..n \subseteq Z
    <3> HIDE DEF Z
    <3> QED
        BY <1>1, <1>5, <1>6, UpTo
  <2> QED
      BY <1>1, <2>1
<1>8. \A v : Count(T(v), n) = Cardinality(PhisOf(s, v))
  <2>1. \A v : PhisOf(s, v) \in SUBSET ToSet(s)
      BY DEF PhisOf
  <2> QED
      BY <1>1, <2>1, CountOf DEF n
<1> QED
    BY <1>3, <1>7, <1>8 DEF s

\* What re_name has made of the function, the stacks and its wait_delete.
IsRenaming(src, g, r) ==
    /\ DOMAIN r = {"f", "stack", "delete"}
    /\ Derived(src, r.f) /\ r.f.code = g.code
    /\ AreStacks(src, r.stack)
    /\ r.delete \in Seq(Instructions(src))

\* Steps 4 and 5 for one instruction.
LEMMA RenameStep ==
    ASSUME NEW src, BuiltByIRBuilder(src), NEW g, NEW r, IsRenaming(src, g, r),
           NEW b \in Blocks, NEW i \in ToSet(g.code[b])
    PROVE  /\ IsRenaming(src, g, RenameInstr(r, i))
           /\ \A v \in StoredVariables(src) :
                Depth(RenameInstr(r, i).stack, v) =
                    Depth(r.stack, v) + IF i \in StoresOf(src, g.code[b], v) THEN 1 ELSE 0
<1> DEFINE v == Last(r.f.args[i])
           q == RenameInstr(r, i)
<1>1. DOMAIN r = {"f", "stack", "delete"} /\ Derived(src, r.f) /\ r.f.code = g.code
      /\ AreStacks(src, r.stack) /\ r.delete \in Seq(Instructions(src))
    BY DEF IsRenaming
<1>2. i \in DOMAIN r.f.op /\ i \in Instructions(src)
  <2>1. i \in ToSet(r.f.code[b])
      BY <1>1
  <2>2. r.f.code[b] \in Seq(Instructions(src))
      BY <1>1, CodeList
  <2> QED
      BY <2>1, <2>2, <1>1, CodeKinds, ToSetFinite
<1>3. \/ /\ IsPhi(i) /\ i \notin DOMAIN src.op /\ r.f.op[i] = "phi"
      \/ /\ ~IsPhi(i) /\ i \in DOMAIN src.op /\ i \notin Memory
         /\ r.f.op[i] = src.op[i]
         /\ src.op[i] = "store" =>
              /\ v = src.args[i][2]
              /\ Promoted(v) <=> v \in StoredVariables(src)
  <2>1. i \in ToSet(r.f.code[b])
      BY <1>1
  <2> QED
      BY <2>1, <1>1, CodeKinds
<1>4. Append(r.delete, i) \in Seq(Instructions(src))
    BY <1>1, <1>2
<1>5. \A w : Depth(r.stack, w) \in Nat
    BY <1>1, DepthType
<1>6. \A w : i \in StoresOf(src, g.code[b], w) <=>
                ~IsPhi(i) /\ src.op[i] = "store" /\ src.args[i][2] = w
    BY DEF StoresOf
<1>7. CASE r.f.op[i] = "load" /\ Promoted(v) /\ v \in DOMAIN r.stack
  <2> DEFINE x == Back(r.stack, v)
             p == ReplaceAllUseWith(r.f, i, x)
  <2>1. q = [r EXCEPT !.f = p, !.delete = Append(r.delete, i)]
      BY <1>1, <1>7, SMTT(30) DEF RenameInstr
  <2>2. i \notin Memory /\ ~(src.op[i] = "store" /\ ~IsPhi(i))
      BY <1>3, <1>7
  <2>3. Derived(src, p) /\ p.code = g.code
      BY <1>1, <1>2, ReplaceDerived
  <2> HIDE DEF x, p, q
  <2>4. /\ DOMAIN q = {"f", "stack", "delete"}
        /\ q.f = p /\ q.stack = r.stack /\ q.delete = Append(r.delete, i)
      BY <2>1, <1>1, SMTT(30)
  <2>5. IsRenaming(src, g, q)
      BY <2>3, <2>4, <1>1, <1>4 DEF IsRenaming
  <2>6. \A w : Depth(q.stack, w) =
                 Depth(r.stack, w) + IF i \in StoresOf(src, g.code[b], w) THEN 1 ELSE 0
      BY <2>2, <2>4, <1>5, <1>6
  <2> QED
      BY <2>5, <2>6 DEF q
<1>8. CASE r.f.op[i] = "store" /\ Promoted(v)
  <2> DEFINE x == r.f.args[i][1]
             p == Push(r.stack, v, x)
  <2>1. q = [r EXCEPT !.stack = p, !.delete = Append(r.delete, i)]
      BY <1>1, <1>8, SMTT(30) DEF RenameInstr
  <2>2. ~IsPhi(i) /\ src.op[i] = "store" /\ v = src.args[i][2] /\ v \in StoredVariables(src)
      BY <1>3, <1>8
  <2> HIDE DEF x, q, v
  <2>3. /\ AreStacks(src, p)
        /\ \A w : Depth(p, w) = Depth(r.stack, w) + IF w = v THEN 1 ELSE 0
      BY <2>2, <1>1, PushEffect
  <2> HIDE DEF p
  <2>4. /\ DOMAIN q = {"f", "stack", "delete"}
        /\ q.f = r.f /\ q.stack = p /\ q.delete = Append(r.delete, i)
      BY <2>1, <1>1, SMTT(30)
  <2>5. IsRenaming(src, g, q)
      BY <2>3, <2>4, <1>1, <1>4 DEF IsRenaming
  <2>6. \A w : Depth(q.stack, w) =
                 Depth(r.stack, w) + IF i \in StoresOf(src, g.code[b], w) THEN 1 ELSE 0
      BY <2>2, <2>3, <2>4, <1>5, <1>6
  <2> QED
      BY <2>5, <2>6 DEF q
<1>9. CASE /\ ~(r.f.op[i] = "load" /\ Promoted(v) /\ v \in DOMAIN r.stack)
           /\ ~(r.f.op[i] = "store" /\ Promoted(v))
  <2>1. q = r
      BY <1>9 DEF RenameInstr
  <2>2. ASSUME NEW w \in StoredVariables(src) PROVE i \notin StoresOf(src, g.code[b], w)
      BY <1>3, <1>6, <1>9
  <2>3. \A w \in StoredVariables(src) :
            Depth(q.stack, w) = Depth(r.stack, w) + IF i \in StoresOf(src, g.code[b], w) THEN 1 ELSE 0
      BY <2>1, <2>2, <1>5
  <2> QED
      BY <2>1, <2>3
<1> QED
    BY <1>7, <1>8, <1>9

\* Steps 4 and 5 put on the stack of each variable what its stores store.
LEMMA RenameAllEffect ==
    ASSUME NEW src, BuiltByIRBuilder(src), NEW g, Derived(src, g), NEW b \in Blocks,
           NEW stack, AreStacks(src, stack)
    PROVE  LET r == RenameAll([f |-> g, stack |-> stack, delete |-> <<>>], g.code[b])
           IN  /\ IsRenaming(src, g, r)
               /\ \A v \in StoredVariables(src) :
                    Depth(r.stack, v) = Depth(stack, v) + Cardinality(StoresOf(src, g.code[b], v))
<1> DEFINE base == [f |-> g, stack |-> stack, delete |-> <<>>]
           s == g.code[b]
           n == Len(s)
           T(v) == {k \in 1..n : s[k] \in StoresOf(src, s, v)}
<1>1. /\ n \in Nat /\ DOMAIN s = 1..n /\ \A k \in 1..n : s[k] \in ToSet(s)
      /\ s \in Seq(Instructions(src)) /\ IsInjective(s)
    BY CodeList
<1>2. IsRenaming(src, g, base) /\ base.stack = stack
    BY DEF IsRenaming
<1>3. PICK h : /\ h[0] = base
               /\ \A k \in 1..n : h[k] = RenameInstr(h[k - 1], s[k])
               /\ h[n] = RenameAll(base, s)
  <2> HIDE DEF s, n, base
  <2>1. Renames(base, s, n)
      BY <1>1, RenameSteps
  <2> QED
      BY <2>1 DEF Renames
<1> DEFINE Good(k) == /\ IsRenaming(src, g, h[k])
                      /\ \A v \in StoredVariables(src) :
                            Depth(h[k].stack, v) = Depth(stack, v) + Count(T(v), k)
           Z == {k \in 0..n : Good(k)}
<1>4. \A v : Depth(stack, v) \in Nat
    BY DepthType
<1> HIDE DEF base
<1>5. 0 \in Z
  <2> HIDE DEF T
  <2>1. \A v : Count(T(v), 0) = 0
      BY CountSteps
  <2>2. Good(0)
      BY <2>1, <1>2, <1>3, <1>4
  <2> QED
      BY <2>2, <1>1
<1>6. ASSUME NEW k \in 1..n, k - 1 \in Z PROVE k \in Z
  <2>1. /\ IsRenaming(src, g, h[k - 1])
        /\ \A v \in StoredVariables(src) :
              Depth(h[k - 1].stack, v) = Depth(stack, v) + Count(T(v), k - 1)
      BY <1>6
  <2>2. /\ h[k] = RenameInstr(h[k - 1], s[k]) /\ s[k] \in ToSet(g.code[b])
        /\ k \in Nat /\ k # 0 /\ k - 1 \in Nat
      BY <1>1, <1>3, <1>6
  <2>3. \A v : k \in T(v) <=> s[k] \in StoresOf(src, s, v)
      OBVIOUS
  <2> HIDE DEF T, s, n
  <2>4. \A v : /\ Count(T(v), k) = Count(T(v), k - 1) + IF k \in T(v) THEN 1 ELSE 0
               /\ Count(T(v), k - 1) \in Nat
      BY <2>2, CountSteps
  <2>5. /\ IsRenaming(src, g, h[k])
        /\ \A v \in StoredVariables(src) :
             Depth(h[k].stack, v) =
                 Depth(h[k - 1].stack, v) + IF s[k] \in StoresOf(src, s, v) THEN 1 ELSE 0
      BY <2>1, <2>2, RenameStep DEF s
  <2>6. \A v \in StoredVariables(src) : Depth(h[k].stack, v) = Depth(stack, v) + Count(T(v), k)
      BY <2>1, <2>3, <2>4, <2>5, <1>4
  <2> QED
      BY <2>5, <2>6
<1>7. Good(n)
  <2> HIDE DEF Good, s, n
  <2>1. 0..n \subseteq Z
    <3> HIDE DEF Z
    <3> QED
        BY <1>1, <1>5, <1>6, UpTo
  <2> QED
      BY <1>1, <2>1
<1>8. \A v : Count(T(v), n) = Cardinality(StoresOf(src, s, v))
  <2>1. \A v : StoresOf(src, s, v) \in SUBSET ToSet(s)
      BY DEF StoresOf
  <2> HIDE DEF s
  <2> QED
      BY <1>1, <2>1, CountOf
<1> HIDE DEF s, n, T
<1>9. /\ IsRenaming(src, g, RenameAll(base, s))
      /\ \A v \in StoredVariables(src) :
            Depth(RenameAll(base, s).stack, v) = Depth(stack, v) + Cardinality(StoresOf(src, s, v))
    BY <1>3, <1>7, <1>8
<1> QED
    BY <1>9 DEF s, base

\* A definition of a variable is a phi for it or a store to it.
LEMMA MakesCount ==
    ASSUME NEW src, NEW S, NEW s \in Seq(S), NEW v
    PROVE  /\ IsFiniteSet(Makes(src, s, v)) /\ Cardinality(Makes(src, s, v)) \in Nat
           /\ Cardinality(PhisOf(s, v)) \in Nat /\ Cardinality(StoresOf(src, s, v)) \in Nat
           /\ Cardinality(Makes(src, s, v)) =
                  Cardinality(PhisOf(s, v)) + Cardinality(StoresOf(src, s, v))
<1> DEFINE P == PhisOf(s, v)
           Q == StoresOf(src, s, v)
<1>1. Makes(src, s, v) = P \cup Q /\ P \cap Q = {} /\ P \subseteq ToSet(s) /\ Q \subseteq ToSet(s)
    BY DEF Makes, PhisOf, StoresOf
<1> HIDE DEF P, Q
<1>2. IsFiniteSet(P) /\ IsFiniteSet(Q)
    BY <1>1, ToSetFinite, FS_Subset
<1>3. Cardinality(P) \in Nat /\ Cardinality(Q) \in Nat /\ Cardinality({}) = 0
    BY <1>2, FS_CardinalityType, FS_EmptySet
<1>4. /\ IsFiniteSet(P \cup Q)
      /\ Cardinality(P \cup Q) = Cardinality(P) + Cardinality(Q) - Cardinality(P \cap Q)
    BY <1>2, FS_Union
<1>5. Cardinality(P \cap Q) = 0
    BY <1>1, <1>3
<1> QED
    BY <1>1, <1>3, <1>4, <1>5 DEF P, Q

\* Step 7 takes off the stacks what the block has put there, if it is there.
LEMMA PopAllEffect ==
    ASSUME NEW src, BuiltByIRBuilder(src), NEW g, Derived(src, g), NEW b \in Blocks,
           NEW stack, AreStacks(src, stack),
           \A v \in StoredVariables(src) :
               Depth(stack, v) >= Cardinality(Makes(src, g.code[b], v))
    PROVE  /\ AreStacks(src, PopAll(g, stack, g.code[b]))
           /\ \A v \in StoredVariables(src) :
                Depth(PopAll(g, stack, g.code[b]), v) =
                    Depth(stack, v) - Cardinality(Makes(src, g.code[b], v))
<1> DEFINE s == g.code[b]
           n == Len(s)
           T(v) == {k \in 1..n : s[k] \in Makes(src, s, v)}
<1>1. /\ n \in Nat /\ DOMAIN s = 1..n /\ \A k \in 1..n : s[k] \in ToSet(s)
      /\ s \in Seq(Instructions(src)) /\ IsInjective(s)
    BY CodeList
<1>2. ASSUME NEW i \in ToSet(s)
      PROVE  \/ /\ IsPhi(i) /\ g.op[i] = "phi" /\ i[3] \in StoredVariables(src)
             \/ /\ ~IsPhi(i) /\ g.op[i] = src.op[i]
                /\ src.op[i] = "store" =>
                     /\ g.args[i][2] = src.args[i][2]
                     /\ Promoted(src.args[i][2]) <=> src.args[i][2] \in StoredVariables(src)
    BY CodeKinds
<1>3. \A v : Count(T(v), n) = Cardinality(Makes(src, s, v))
  <2>1. \A v : Makes(src, s, v) \in SUBSET ToSet(s)
      BY DEF Makes
  <2> HIDE DEF s
  <2> QED
      BY <1>1, <2>1, CountOf
<1>4. \A v \in StoredVariables(src) : Depth(stack, v) >= Count(T(v), n)
  <2> HIDE DEF T, n
  <2> QED
      BY <1>3
<1> HIDE DEF s, n
<1>5. PICK h : /\ h[0] = stack
               /\ \A k \in 1..n : h[k] = PoppedBy(g, h[k - 1], s[k])
               /\ h[n] = PopAll(g, stack, s)
  <2>1. Pops(g, stack, s, n)
      BY <1>1, PopSteps
  <2> QED
      BY <2>1 DEF Pops
<1> DEFINE Good(k) == /\ AreStacks(src, h[k])
                      /\ \A v \in StoredVariables(src) :
                            Depth(h[k], v) = Depth(stack, v) - Count(T(v), k)
           Z == {k \in 0..n : Good(k)}
<1>6. \A v : Depth(stack, v) \in Nat
    BY DepthType
<1>7. 0 \in Z
  <2> HIDE DEF T
  <2>1. \A v : Count(T(v), 0) = 0
      BY CountSteps
  <2>2. Good(0)
      BY <2>1, <1>5, <1>6
  <2> QED
      BY <2>2, <1>1
<1>8. ASSUME NEW k \in 1..n, k - 1 \in Z PROVE k \in Z
  <2>1. AreStacks(src, h[k - 1])
        /\ \A v \in StoredVariables(src) : Depth(h[k - 1], v) = Depth(stack, v) - Count(T(v), k - 1)
      BY <1>8
  <2>2. /\ h[k] = PoppedBy(g, h[k - 1], s[k]) /\ s[k] \in ToSet(s)
        /\ k \in Nat /\ k # 0 /\ k - 1 \in Nat
      BY <1>1, <1>5, <1>8
  <2> DEFINE i == s[k]
  <2>3. \A v : k \in T(v) <=> IF IsPhi(i) THEN i[3] = v
                             ELSE src.op[i] = "store" /\ src.args[i][2] = v
      BY <2>2 DEF Makes
  <2> HIDE DEF T, i
  <2>4. \A v : /\ Count(T(v), k) = Count(T(v), k - 1) + IF k \in T(v) THEN 1 ELSE 0
               /\ Count(T(v), k - 1) \in Nat /\ Count(T(v), k) \in Nat
               /\ Count(T(v), k) <= Count(T(v), n)
    <3>1. k \in 0..n
        BY <2>2
    <3> SUFFICES ASSUME NEW v
                 PROVE  /\ Count(T(v), k) = Count(T(v), k - 1) + IF k \in T(v) THEN 1 ELSE 0
                        /\ Count(T(v), k - 1) \in Nat /\ Count(T(v), k) \in Nat
                        /\ Count(T(v), k) <= Count(T(v), n)
        OBVIOUS
    <3>2. Count(T(v), k) <= Count(T(v), n)
        BY <3>1, <1>1, CountMost
    <3> QED
        BY <3>2, <2>2, CountSteps
  <2>5. ASSUME NEW v \in StoredVariables(src), k \in T(v), h[k] = Pop(h[k - 1], v),
               \A w \in StoredVariables(src) : w # v => k \notin T(w)
        PROVE  k \in Z
    <3>1. Count(T(v), n) \in Nat
        BY <1>1, CountSteps
    <3>2. Depth(h[k - 1], v) # 0
      <4>1. /\ Depth(h[k - 1], v) = Depth(stack, v) - Count(T(v), k - 1)
            /\ Count(T(v), k) = Count(T(v), k - 1) + 1
            /\ Count(T(v), k) <= Count(T(v), n) /\ Depth(stack, v) >= Count(T(v), n)
            /\ Count(T(v), k - 1) \in Nat /\ Depth(stack, v) \in Nat
          BY <2>1, <2>4, <2>5, <1>4, <1>6
      <4> QED
          BY <4>1, <3>1
    <3>3. v \in DOMAIN h[k - 1] /\ h[k - 1][v] # <<>>
        BY <3>2, <2>1, DepthType DEF Depth
    <3>4. /\ AreStacks(src, h[k])
          /\ \A w : Depth(h[k], w) = Depth(h[k - 1], w) - IF w = v THEN 1 ELSE 0
        BY <3>3, <2>1, <2>5, PopEffect
    <3>5. ASSUME NEW w \in StoredVariables(src)
          PROVE  Depth(h[k], w) = Depth(stack, w) - Count(T(w), k)
      <4>1. (w = v) <=> k \in T(w)
          BY <2>5
      <4> QED
          BY <4>1, <3>4, <2>1, <2>4, <1>6
    <3> QED
        BY <3>4, <3>5
  <2>6. CASE IsPhi(i)
    <3>1. i[3] \in StoredVariables(src) /\ g.op[i] = "phi"
        BY <2>2, <2>6, <1>2 DEF i
    <3>2. k \in T(i[3]) /\ \A w \in StoredVariables(src) : w # i[3] => k \notin T(w)
        BY <2>3, <2>6
    <3>3. Depth(h[k - 1], i[3]) # 0
      <4>1. /\ Depth(h[k - 1], i[3]) = Depth(stack, i[3]) - Count(T(i[3]), k - 1)
            /\ Count(T(i[3]), k) = Count(T(i[3]), k - 1) + 1
            /\ Count(T(i[3]), k) <= Count(T(i[3]), n) /\ Depth(stack, i[3]) >= Count(T(i[3]), n)
            /\ Count(T(i[3]), k - 1) \in Nat /\ Depth(stack, i[3]) \in Nat
          BY <3>1, <3>2, <2>1, <2>4, <1>4, <1>6
      <4>2. Count(T(i[3]), n) \in Nat
          BY <1>1, CountSteps
      <4> QED
          BY <4>1, <4>2
    <3>4. i[3] \in DOMAIN h[k - 1]
        BY <3>3 DEF Depth
    <3>5. h[k] = Pop(h[k - 1], i[3])
        BY <3>1, <3>4, <2>2, <2>6 DEF PoppedBy, i
    <3> QED
        BY <3>1, <3>2, <3>5, <2>5
  <2>7. CASE ~IsPhi(i) /\ src.op[i] = "store" /\ src.args[i][2] \in StoredVariables(src)
    <3>1. g.op[i] = "store" /\ Promoted(g.args[i][2]) /\ g.args[i][2] = src.args[i][2]
        BY <2>2, <2>7, <1>2 DEF i
    <3>2. h[k] = Pop(h[k - 1], src.args[i][2])
        BY <3>1, <2>2, <2>7 DEF PoppedBy, i
    <3> QED
        BY <3>2, <2>3, <2>5, <2>7
  <2>8. CASE ~IsPhi(i) /\ ~(src.op[i] = "store" /\ src.args[i][2] \in StoredVariables(src))
    <3>1. ~(g.op[i] = "store" /\ Promoted(g.args[i][2]))
        BY <2>2, <2>8, <1>2 DEF i
    <3>2. h[k] = h[k - 1]
        BY <3>1, <2>2, <2>8 DEF PoppedBy, i
    <3>3. ASSUME NEW w \in StoredVariables(src)
          PROVE  Depth(h[k], w) = Depth(stack, w) - Count(T(w), k)
      <4>1. k \notin T(w)
          BY <2>3, <2>8
      <4> QED
          BY <4>1, <3>2, <2>1, <2>4, <1>6
    <3> QED
        BY <3>2, <3>3, <2>1
  <2> QED
      BY <2>6, <2>7, <2>8
<1>9. Good(n)
  <2> HIDE DEF Good
  <2>1. 0..n \subseteq Z
    <3> HIDE DEF Z
    <3> QED
        BY <1>1, <1>7, <1>8, UpTo
  <2> QED
      BY <1>1, <2>1
<1> HIDE DEF T
<1> QED
    BY <1>3, <1>5, <1>9 DEF s
-----------------------------------------------------------------------------
(***************************************************************************)
(* What the folds of the pass leave of the function.                       *)
(***************************************************************************)
\* The deletions of step 7 touch the block left only.
LEMMA DeleteAllDerived ==
    ASSUME NEW src, NEW g, Derived(src, g), NEW b \in Blocks,
           NEW s, NEW n \in Nat, DOMAIN s = 1..n
    PROVE  /\ Derived(src, DeleteAll(g, b, s))
           /\ \A c \in Blocks : c # b => DeleteAll(g, b, s).code[c] = g.code[c]
<1>1. n \in Nat
    OBVIOUS
<1>2. PICK h : /\ h[0] = g
               /\ \A k \in 1..n : h[k] = DeleteInstr(h[k - 1], b, s[k])
               /\ h[n] = DeleteAll(g, b, s)
  <2>1. Deletes(b, g, s, n)
      BY DeleteSteps
  <2> QED
      BY <2>1 DEF Deletes
<1> DEFINE Good(k) == /\ Derived(src, h[k])
                      /\ \A c \in Blocks : c # b => h[k].code[c] = g.code[c]
           Z == {k \in 0..n : Good(k)}
<1>3. 0 \in Z
    BY <1>1, <1>2
<1>4. ASSUME NEW k \in 1..n, k - 1 \in Z PROVE k \in Z
  <2>1. /\ Derived(src, h[k - 1])
        /\ \A c \in Blocks : c # b => h[k - 1].code[c] = g.code[c]
        /\ h[k] = DeleteInstr(h[k - 1], b, s[k])
      BY <1>2, <1>4
  <2>2. /\ Derived(src, h[k])
        /\ \A c \in Blocks : c # b => h[k].code[c] = h[k - 1].code[c]
      BY <2>1, DeleteDerived
  <2> QED
      BY <2>1, <2>2, <1>4
<1>5. Good(n)
  <2> HIDE DEF Good
  <2>1. 0..n \subseteq Z
    <3> HIDE DEF Z
    <3> QED
        BY <1>1, <1>3, <1>4, UpTo
  <2> QED
      BY <1>1, <2>1
<1> QED
    BY <1>2, <1>5

\* Placing phis takes no instruction away.
LEMMA PlaceAllDerived ==
    ASSUME NEW src, BuiltByIRBuilder(src), NEW g, Derived(src, g),
           NEW v \in StoredVariables(src), NEW s \in Seq(Blocks), IsInjective(s),
           \A b \in ToSet(s) : PhiOf(b, v) \notin ToSet(g.code[b])
    PROVE  /\ Derived(src, PlaceAll(g, v, s))
           /\ \A c \in Blocks : ToSet(g.code[c]) \subseteq ToSet(PlaceAll(g, v, s).code[c])
<1> DEFINE n == Len(s)
<1>1. n \in Nat /\ DOMAIN s = 1..n /\ \A k \in 1..n : s[k] \in Blocks
    OBVIOUS
<1>2. \A k \in 1..n : PhiOf(s[k], v) \notin ToSet(g.code[s[k]])
    BY <1>1 DEF ToSet
<1>3. \A k, m \in 1..n : s[k] = s[m] => k = m
    BY <1>1 DEF IsInjective
<1> HIDE DEF n
<1>4. PICK h : /\ h[0] = g
               /\ \A k \in 1..n : h[k] = AddPhi(h[k - 1], s[k], v)
               /\ h[n] = PlaceAll(g, v, s)
  <2>1. Places(v, g, s, n)
      BY <1>1, PlaceSteps
  <2> QED
      BY <2>1 DEF Places
<1> DEFINE Good(k) ==
             /\ Derived(src, h[k])
             /\ \A c \in Blocks : ToSet(g.code[c]) \subseteq ToSet(h[k].code[c])
             /\ \A m \in 1..n : m > k => h[k].code[s[m]] = g.code[s[m]]
           Z == {k \in 0..n : Good(k)}
<1>5. 0 \in Z
    BY <1>1, <1>4
<1>6. ASSUME NEW k \in 1..n, k - 1 \in Z PROVE k \in Z
  <2>1. Good(k - 1) /\ h[k] = AddPhi(h[k - 1], s[k], v) /\ s[k] \in Blocks
      BY <1>1, <1>4, <1>6
  <2>2. h[k - 1].code[s[k]] = g.code[s[k]]
      BY <2>1, <1>1
  <2>3. PhiOf(s[k], v) \notin ToSet(h[k - 1].code[s[k]])
      BY <2>2, <1>2
  <2>4. /\ Derived(src, h[k])
        /\ \A c \in Blocks : c # s[k] => h[k].code[c] = h[k - 1].code[c]
        /\ ToSet(h[k].code[s[k]]) = {PhiOf(s[k], v)} \cup ToSet(h[k - 1].code[s[k]])
    <3> DEFINE x == h[k - 1]
               b == s[k]
    <3>1. Derived(src, x) /\ b \in Blocks /\ h[k] = AddPhi(x, b, v)
        BY <2>1
    <3>2. PhiOf(b, v) \notin ToSet(x.code[b])
        BY <2>3
    <3> HIDE DEF x, b
    <3>3. /\ Derived(src, AddPhi(x, b, v))
          /\ \A c \in Blocks : c # b => AddPhi(x, b, v).code[c] = x.code[c]
          /\ ToSet(AddPhi(x, b, v).code[b]) = {PhiOf(b, v)} \cup ToSet(x.code[b])
        BY <3>1, <3>2, AddPhiDerived
    <3> QED
        BY <3>1, <3>3 DEF x, b
  <2>5. \A c \in Blocks : ToSet(g.code[c]) \subseteq ToSet(h[k].code[c])
    <3> SUFFICES ASSUME NEW c \in Blocks
                 PROVE  ToSet(g.code[c]) \subseteq ToSet(h[k].code[c])
        OBVIOUS
    <3>1. ToSet(g.code[c]) \subseteq ToSet(h[k - 1].code[c])
        BY <2>1
    <3> QED
        BY <3>1, <2>4
  <2>6. \A m \in 1..n : m > k => h[k].code[s[m]] = g.code[s[m]]
    <3> SUFFICES ASSUME NEW m \in 1..n, m > k PROVE h[k].code[s[m]] = g.code[s[m]]
        OBVIOUS
    <3>1. s[m] # s[k] /\ m > k - 1 /\ s[m] \in Blocks
        BY <1>1, <1>3
    <3>2. h[k - 1].code[s[m]] = g.code[s[m]]
        BY <3>1, <2>1
    <3> QED
        BY <3>1, <3>2, <2>4
  <2> QED
      BY <2>4, <2>5, <2>6
<1>7. Good(n)
  <2> HIDE DEF Good
  <2>1. 0..n \subseteq Z
    <3> HIDE DEF Z
    <3> QED
        BY <1>1, <1>5, <1>6, UpTo
  <2> QED
      BY <1>1, <2>1
<1> QED
    BY <1>4, <1>7

\* Filling phis leaves the blocks as they are.
LEMMA FillAllDerived ==
    ASSUME NEW src, NEW g, Derived(src, g), NEW stack, NEW b,
           NEW s, NEW n \in Nat, DOMAIN s = 1..n,
           \A k \in 1..n : s[k] \notin DOMAIN src.op
    PROVE  Derived(src, FillAll(g, stack, b, s)) /\ FillAll(g, stack, b, s).code = g.code
<1> DEFINE p == <<stack, b>>
<1>1. n \in Nat /\ p[1] = stack /\ p[2] = b
    OBVIOUS
<1> HIDE DEF p
<1>2. \A k \in 1..n : s[k] \notin DOMAIN src.op
    OBVIOUS
<1>3. PICK h : /\ h[0] = g
               /\ \A k \in 1..n : h[k] = FillPhi(h[k - 1], p[1], p[2], s[k])
               /\ h[n] = FillAll(g, p[1], p[2], s)
  <2>1. Fills(p, g, s, n)
      BY FillSteps
  <2> QED
      BY <2>1 DEF Fills
<1> DEFINE Good(k) == Derived(src, h[k]) /\ h[k].code = g.code
           Z == {k \in 0..n : Good(k)}
<1>4. 0 \in Z
    BY <1>1, <1>3
<1>5. ASSUME NEW k \in 1..n, k - 1 \in Z PROVE k \in Z
  <2>1. Good(k - 1) /\ h[k] = FillPhi(h[k - 1], p[1], p[2], s[k])
      BY <1>3, <1>5
  <2>2. Derived(src, h[k]) /\ h[k].code = h[k - 1].code
      BY <2>1, <1>2, FillDerived
  <2> QED
      BY <2>1, <2>2, <1>5
<1>6. Good(n)
  <2> HIDE DEF Good
  <2>1. 0..n \subseteq Z
    <3> HIDE DEF Z
    <3> QED
        BY <1>1, <1>4, <1>5, UpTo
  <2> QED
      BY <1>1, <2>1
<1> QED
    BY <1>1, <1>3, <1>6

\* No instruction but the branch at its end moves the machine.
LEMMA PerformAt ==
    ASSUME NEW g, NEW x, "at" \in DOMAIN x, NEW i
    PROVE  "at" \in DOMAIN Perform(g, x, i) /\ Perform(g, x, i).at = x.at
<1>1. ASSUME NEW e, NEW m
      PROVE  /\ "at" \in DOMAIN [x EXCEPT !.env = e] /\ [x EXCEPT !.env = e].at = x.at
             /\ "at" \in DOMAIN [x EXCEPT !.mem = m] /\ [x EXCEPT !.mem = m].at = x.at
             /\ "at" \in DOMAIN [x EXCEPT !.out = m] /\ [x EXCEPT !.out = m].at = x.at
    OBVIOUS
<1>2. ASSUME NEW y PROVE "at" \in DOMAIN Bind(x, i, y) /\ Bind(x, i, y).at = x.at
    BY <1>1 DEF Bind
<1>3. ASSUME NEW y, "at" \in DOMAIN y, y.at = x.at, NEW o
      PROVE  "at" \in DOMAIN [y EXCEPT !.out = o] /\ [y EXCEPT !.out = o].at = x.at
    BY <1>3
<1>4. ASSUME NEW y, NEW o
      PROVE  /\ "at" \in DOMAIN [Bind(x, i, y) EXCEPT !.out = o]
             /\ [Bind(x, i, y) EXCEPT !.out = o].at = x.at
    BY <1>2, <1>3
<1> QED
    BY <1>1, <1>2, <1>4 DEF Perform

\* Nor does a list of instructions.
LEMMA PerformAllAt ==
    ASSUME NEW g, NEW x, "at" \in DOMAIN x, NEW S, NEW s \in Seq(S)
    PROVE  "at" \in DOMAIN PerformAll(g, x, s) /\ PerformAll(g, x, s).at = x.at
<1> DEFINE n == Len(s)
<1>1. n \in Nat /\ DOMAIN s = 1..n
    OBVIOUS
<1> HIDE DEF n
<1>2. PICK h : /\ h[0] = x
               /\ \A k \in 1..n : h[k] = Perform(g, h[k - 1], s[k])
               /\ h[n] = PerformAll(g, x, s)
  <2>1. Runs(g, x, s, n)
      BY <1>1, RunSteps
  <2> QED
      BY <2>1 DEF Runs
<1> DEFINE Good(k) == "at" \in DOMAIN h[k] /\ h[k].at = x.at
           Z == {k \in 0..n : Good(k)}
<1>3. 0 \in Z
    BY <1>1, <1>2
<1>4. ASSUME NEW k \in 1..n, k - 1 \in Z PROVE k \in Z
  <2>1. Good(k - 1) /\ h[k] = Perform(g, h[k - 1], s[k])
      BY <1>2, <1>4
  <2>2. "at" \in DOMAIN h[k] /\ h[k].at = h[k - 1].at
      BY <2>1, PerformAt
  <2> QED
      BY <2>1, <2>2, <1>4
<1>5. Good(n)
  <2> HIDE DEF Good
  <2>1. 0..n \subseteq Z
    <3> HIDE DEF Z
    <3> QED
        BY <1>1, <1>3, <1>4, UpTo
  <2> QED
      BY <1>1, <2>1
<1> QED
    BY <1>2, <1>5
-----------------------------------------------------------------------------
(***************************************************************************)
(* The definitions on the path of the dominator tree.                      *)
(***************************************************************************)
\* What the blocks of the frames F define of v, as StacksFollowTheTree counts it.
Definitions(src, code, F, v) == UNION {{k} \X Makes(src, code[F[k].bb], v) : k \in DOMAIN F}

\* They are finitely many.
LEMMA DefinitionsFinite ==
    ASSUME NEW src, NEW g, Derived(src, g), NEW F, NEW n \in Nat, DOMAIN F = 1..n,
           \A k \in 1..n : F[k].bb \in Blocks, NEW v
    PROVE  /\ IsFiniteSet(Definitions(src, g.code, F, v))
           /\ Cardinality(Definitions(src, g.code, F, v)) \in Nat
<1> DEFINE D(k) == {k} \X Makes(src, g.code[F[k].bb], v)
           all == {D(k) : k \in 1..n}
<1>1. \A k \in 1..n : IsFiniteSet(Makes(src, g.code[F[k].bb], v))
    BY CodeList, MakesCount
<1>2. \A k \in 1..n : IsFiniteSet(D(k))
    BY <1>1, FS_Singleton, FS_Product
<1>3. IsFiniteSet(1..n)
    BY FS_Interval
<1>4. [k \in 1..n |-> D(k)] \in Surjection(1..n, all)
  <2> HIDE DEF D
  <2> QED
      BY DEF Surjection
<1> HIDE DEF D
<1>5. IsFiniteSet(all)
    BY <1>3, <1>4, FS_Surjection
<1>6. IsFiniteSet(UNION all)
    BY <1>2, <1>5, FS_UNION
<1>7. Definitions(src, g.code, F, v) = UNION all
    BY DEF Definitions, D
<1> QED
    BY <1>6, <1>7, FS_CardinalityType

\* G has the blocks of the frames F, n of them, and b on top.
OneMore(F, G, n, b) ==
    /\ n \in Nat /\ DOMAIN F = 1..n /\ DOMAIN G = 1..n + 1
    /\ \A k \in 1..n : G[k].bb = F[k].bb
    /\ \A k \in 1..n + 1 : G[k].bb \in Blocks
    /\ G[n + 1].bb = b

\* What G defines of v is what F defines and what block b makes.
AddsUp(src, code, F, G, b, v) ==
    Cardinality(Definitions(src, code, G, v)) =
        Cardinality(Definitions(src, code, F, v)) + Cardinality(Makes(src, code[b], v))

\* One more frame adds what its block defines.
LEMMA DefinitionsMore ==
    ASSUME NEW src, NEW g, Derived(src, g), NEW F, NEW G, NEW n, NEW b, OneMore(F, G, n, b), NEW v
    PROVE  AddsUp(src, g.code, F, G, b, v)
<1> USE DEF OneMore
<1> DEFINE A == Definitions(src, g.code, F, v)
           M == Makes(src, g.code[G[n + 1].bb], v)
           B == {n + 1} \X M
<1>1. n + 1 \in 1..n + 1 /\ \A k \in 1..n : k \in 1..n + 1 /\ k # n + 1
    OBVIOUS
<1>2. \A k \in 1..n : F[k].bb \in Blocks
    BY <1>1
<1>3. IsFiniteSet(A) /\ Cardinality(A) \in Nat
    BY <1>2, DefinitionsFinite
<1>4. IsFiniteSet(M) /\ Cardinality(M) \in Nat
    BY <1>1, CodeList, MakesCount
<1>5. IsFiniteSet(B) /\ Cardinality(B) = Cardinality(M)
  <2>1. IsFiniteSet({n + 1}) /\ Cardinality({n + 1}) = 1
      BY FS_Singleton
  <2>2. IsFiniteSet(B) /\ Cardinality(B) = 1 * Cardinality(M)
    <3> HIDE DEF M
    <3> QED
        BY <2>1, <1>4, FS_Product
  <2> QED
      BY <2>2, <1>4
<1>6. \A p : p \in A <=> \E k \in 1..n : p \in {k} \X Makes(src, g.code[F[k].bb], v)
    BY DEF Definitions
<1>7. \A p : p \in Definitions(src, g.code, G, v) <=>
                \E k \in 1..n + 1 : p \in {k} \X Makes(src, g.code[G[k].bb], v)
    BY DEF Definitions
<1>8. \A k \in 1..n + 1 : k \in 1..n \/ k = n + 1
    OBVIOUS
<1>9. Definitions(src, g.code, G, v) = A \cup B
  <2> HIDE DEF A
  <2>1. ASSUME NEW p \in A PROVE p \in Definitions(src, g.code, G, v)
      BY <1>1, <1>6, <1>7
  <2>2. ASSUME NEW p \in B PROVE p \in Definitions(src, g.code, G, v)
      BY <1>1, <1>7
  <2>3. ASSUME NEW p \in Definitions(src, g.code, G, v) PROVE p \in A \/ p \in B
      BY <1>6, <1>7, <1>8
  <2> QED
      BY <2>1, <2>2, <2>3
<1>10. A \cap B = {}
  <2> SUFFICES ASSUME NEW p \in A, p \in B PROVE FALSE
      OBVIOUS
  <2>1. PICK k \in 1..n : p \in {k} \X Makes(src, g.code[F[k].bb], v)
      BY <1>6
  <2>2. p[1] = k /\ p[1] = n + 1
      BY <2>1
  <2> QED
      BY <2>2, <1>1
<1> HIDE DEF A, B, M
<1>11. Cardinality(A \cap B) = 0
    BY <1>10, FS_EmptySet
<1>12. Cardinality(A \cup B) = Cardinality(A) + Cardinality(B) - Cardinality(A \cap B)
    BY <1>3, <1>5, FS_Union
<1> QED
    BY <1>3, <1>4, <1>5, <1>9, <1>11, <1>12 DEF A, M, AddsUp

\* A variable that one of the blocks defines has a definition.
LEMMA SomeDefinition ==
    ASSUME NEW src, NEW g, Derived(src, g), NEW F, NEW n \in Nat, DOMAIN F = 1..n,
           \A k \in 1..n : F[k].bb \in Blocks, NEW v,
           NEW k \in 1..n, NEW i \in Makes(src, g.code[F[k].bb], v)
    PROVE  Cardinality(Definitions(src, g.code, F, v)) # 0
<1>1. IsFiniteSet(Definitions(src, g.code, F, v))
    BY DefinitionsFinite
<1>2. <<k, i>> \in Definitions(src, g.code, F, v)
    BY DEF Definitions
<1> QED
    BY <1>1, <1>2, FS_EmptySet

\* Dominance is transitive.
LEMMA DominatesTrans ==
    ASSUME NEW g \in CFGs, NEW a \in Blocks, NEW b \in Blocks, NEW c \in Blocks,
           Dominates(g, a, b), Dominates(g, b, c)
    PROVE  Dominates(g, a, c)
<1> SUFFICES ASSUME a # b, b # c, a # c, a # Entry PROVE Dominates(g, a, c)
    BY DEF Dominates
<1>1. b # Entry
    BY DominatesEntry
<1>2. PICK S \in SUBSET (Blocks \ {a, b}) :
         Entry \in S /\ \A s \in S : g[s] \subseteq S \cup {a}
    BY DEF Dominates
<1>3. PICK T \in SUBSET (Blocks \ {b, c}) :
         Entry \in T /\ \A s \in T : g[s] \subseteq T \cup {b}
    BY <1>1 DEF Dominates
<1>4. /\ S \cap T \in SUBSET (Blocks \ {a, c}) /\ Entry \in S \cap T
      /\ \A s \in S \cap T : g[s] \subseteq (S \cap T) \cup {a}
    BY <1>2, <1>3
<1> QED
    BY <1>4 DEF Dominates

\* Strict dominance of reachable blocks is transitive.
LEMMA StrictlyDominatesTrans ==
    ASSUME NEW g \in CFGs, NEW a \in Blocks, NEW b \in Blocks, NEW c \in Blocks,
           StrictlyDominates(g, a, b), StrictlyDominates(g, b, c), IsReachable(g, b)
    PROVE  StrictlyDominates(g, a, c)
<1>1. Dominates(g, a, c)
    BY DominatesTrans DEF StrictlyDominates
<1>2. a # c
    BY DominatesBoth DEF StrictlyDominates
<1> QED
    BY <1>1, <1>2 DEF StrictlyDominates
-----------------------------------------------------------------------------
(***************************************************************************)
(* Renaming a block.                                                       *)
(***************************************************************************)
\* re_name(b) with its folds named.
LEMMA RenameFolds ==
    ASSUME NEW b, NEW below, Rename(b, below)
    PROVE  LET pushed == PushAll(var_val_stack, f.code[b])
               renamed == RenameAll([f |-> f, stack |-> pushed, delete |-> <<>>], f.code[b])
               fill == PhisToFill(renamed.f, renamed.stack, b)
               fails == \E i \in fill : renamed.stack[i[3]] = <<>>
           IN  /\ var_val_stack' = renamed.stack
               /\ frames' = Append(below, [bb |-> b, todo |-> Children(Graph(f), b),
                                           wait_delete |-> renamed.delete])
               /\ DOMAIN names' = DOMAIN names \cup {b}
               /\ control' = IF fails THEN "aborted" ELSE "rename"
               /\ f' = IF fails THEN renamed.f
                       ELSE FillAll(renamed.f, renamed.stack, b, SetToSeq(fill))
               /\ UNCHANGED <<source, to_place, work_list, machine>>
    BY DEF Rename, PushAll, RenameAll, FillAll

\* The pass changes no edge.
LEMMA GraphDerived ==
    ASSUME NEW src, BuiltByIRBuilder(src), NEW g, Derived(src, g)
    PROVE  /\ Graph(g) = Graph(src) /\ Graph(src) \in CFGs
           /\ \A b \in Blocks : Graph(g)[b] \subseteq Blocks /\ Graph(g)[b] \subseteq ToSet(g.blocks)
<1>1. g.succ = src.succ /\ g.blocks = src.blocks
    BY DEF Derived
<1>2. Graph(g) = Graph(src) /\ Graph(src) \in CFGs
    BY <1>1 DEF Graph, BuiltByIRBuilder
<1> QED
    BY <1>1, <1>2, GraphType DEF BuiltByIRBuilder

\* The phis that step 6 fills are finitely many, and none is of the source.
LEMMA PhisToFillType ==
    ASSUME NEW src, BuiltByIRBuilder(src), NEW g, Derived(src, g), NEW b \in Blocks,
           NEW stack
    PROVE  /\ IsFiniteSet(PhisToFill(g, stack, b))
           /\ \A i \in PhisToFill(g, stack, b) : i \notin DOMAIN src.op /\ i[3] \in DOMAIN stack
<1> DEFINE next == Graph(g)[b]
           all == {PhisIn(g, c) : c \in next}
<1>1. next \subseteq Blocks /\ IsFiniteSet(next)
    BY GraphDerived, FS_Subset, BlocksAssumption DEF BlocksAssumption
<1>2. \A c \in next : IsFiniteSet(PhisIn(g, c))
  <2> SUFFICES ASSUME NEW c \in next PROVE IsFiniteSet(PhisIn(g, c))
      OBVIOUS
  <2>1. g.code[c] \in Seq(Instructions(src))
      BY <1>1, CodeList
  <2>2. IsFiniteSet(ToSet(g.code[c])) /\ PhisIn(g, c) \in SUBSET ToSet(g.code[c])
      BY <2>1, ToSetFinite DEF PhisIn
  <2> QED
      BY <2>2, FS_Subset
<1>3. \A c \in next : \A i \in PhisIn(g, c) : i \notin DOMAIN src.op
    BY <1>1, CodeKinds DEF PhisIn
<1> HIDE DEF next
<1>4. [c \in next |-> PhisIn(g, c)] \in Surjection(next, all)
    BY DEF Surjection
<1>5. IsFiniteSet(UNION all)
  <2>1. IsFiniteSet(all)
      BY <1>1, <1>4, FS_Surjection
  <2> QED
      BY <2>1, <1>2, FS_UNION
<1>6. PhisToFill(g, stack, b) = {i \in UNION all : i[3] \in DOMAIN stack}
    BY DEF PhisToFill, next
<1>7. \A i \in UNION all : i \notin DOMAIN src.op
    BY <1>3
<1> HIDE DEF all
<1>8. PhisToFill(g, stack, b) \in SUBSET (UNION all)
    BY <1>6
<1> QED
    BY <1>5, <1>6, <1>7, <1>8, FS_Subset

\* Renaming b puts on each stack what b defines, and leaves the blocks as they are.
LEMMA RenameEffect ==
    ASSUME BuiltByIRBuilder(source), Derived(source, f), AreStacks(source, var_val_stack),
           NEW b \in Blocks, NEW below, Rename(b, below)
    PROVE  /\ Derived(source, f') /\ f'.code = f.code
           /\ AreStacks(source, var_val_stack')
           /\ \A v \in StoredVariables(source) :
                Depth(var_val_stack', v) =
                    Depth(var_val_stack, v) + Cardinality(Makes(source, f.code[b], v))
           /\ \E w \in Seq(Instructions(source)) :
                frames' = Append(below, [bb |-> b, todo |-> Children(Graph(source), b),
                                         wait_delete |-> w])
           /\ DOMAIN names' = DOMAIN names \cup {b}
           /\ control' \in {"rename", "aborted"}
           /\ control' = "aborted" =>
                \E v \in StoredVariables(source) : Depth(var_val_stack', v) = 0
           /\ UNCHANGED <<source, to_place, work_list, machine>>
<1> DEFINE pushed == PushAll(var_val_stack, f.code[b])
           renamed == RenameAll([f |-> f, stack |-> pushed, delete |-> <<>>], f.code[b])
           fill == PhisToFill(renamed.f, renamed.stack, b)
           fails == \E i \in fill : renamed.stack[i[3]] = <<>>
<1>1. /\ var_val_stack' = renamed.stack
      /\ frames' = Append(below, [bb |-> b, todo |-> Children(Graph(f), b),
                                  wait_delete |-> renamed.delete])
      /\ DOMAIN names' = DOMAIN names \cup {b}
      /\ control' = IF fails THEN "aborted" ELSE "rename"
      /\ f' = IF fails THEN renamed.f
              ELSE FillAll(renamed.f, renamed.stack, b, SetToSeq(fill))
      /\ UNCHANGED <<source, to_place, work_list, machine>>
    BY RenameFolds
<1>2. /\ AreStacks(source, pushed)
      /\ \A v : Depth(pushed, v) = Depth(var_val_stack, v) + Cardinality(PhisOf(f.code[b], v))
    BY PushAllEffect
<1> HIDE DEF pushed
<1>3. /\ IsRenaming(source, f, renamed)
      /\ \A v \in StoredVariables(source) :
           Depth(renamed.stack, v) = Depth(pushed, v) + Cardinality(StoresOf(source, f.code[b], v))
    BY <1>2, RenameAllEffect
<1> HIDE DEF renamed
<1>4. /\ Derived(source, renamed.f) /\ renamed.f.code = f.code
      /\ AreStacks(source, renamed.stack) /\ renamed.delete \in Seq(Instructions(source))
    BY <1>3 DEF IsRenaming
<1>5. IsFiniteSet(fill) /\ \A i \in fill : i \notin DOMAIN source.op /\ i[3] \in DOMAIN renamed.stack
    BY <1>4, PhisToFillType
<1>6. Derived(source, f') /\ f'.code = f.code
  <2> DEFINE s == SetToSeq(fill)
             n == Len(s)
             x == renamed.f
  <2> HIDE DEF fill
  <2>1. s \in Seq(fill) /\ ToSet(s) = fill
      BY <1>5, SetToSeqOf
  <2> HIDE DEF s
  <2>2. n \in Nat /\ DOMAIN s = 1..n /\ \A k \in 1..n : s[k] \in fill
      BY <2>1
  <2> HIDE DEF n
  <2>3. \A k \in 1..n : s[k] \notin DOMAIN source.op
      BY <2>2, <1>5
  <2>4. Derived(source, x) /\ x.code = f.code
      BY <1>4
  <2> HIDE DEF x
  <2>5. /\ Derived(source, FillAll(x, renamed.stack, b, s))
        /\ FillAll(x, renamed.stack, b, s).code = x.code
      BY <2>2, <2>3, <2>4, FillAllDerived
  <2>6. f' = x \/ f' = FillAll(x, renamed.stack, b, s)
      BY <1>1 DEF s, x
  <2> QED
      BY <2>4, <2>5, <2>6
<1>7. ASSUME NEW v \in StoredVariables(source)
      PROVE  Depth(var_val_stack', v) =
                 Depth(var_val_stack, v) + Cardinality(Makes(source, f.code[b], v))
  <2>1. f.code[b] \in Seq(Instructions(source))
      BY CodeList
  <2>2. /\ Cardinality(PhisOf(f.code[b], v)) \in Nat
        /\ Cardinality(StoresOf(source, f.code[b], v)) \in Nat
        /\ Cardinality(Makes(source, f.code[b], v)) =
               Cardinality(PhisOf(f.code[b], v)) + Cardinality(StoresOf(source, f.code[b], v))
      BY <2>1, MakesCount
  <2>3. Depth(var_val_stack, v) \in Nat
      BY DepthType
  <2>4. /\ Depth(renamed.stack, v) = Depth(pushed, v) + Cardinality(StoresOf(source, f.code[b], v))
        /\ Depth(pushed, v) = Depth(var_val_stack, v) + Cardinality(PhisOf(f.code[b], v))
      BY <1>2, <1>3
  <2> QED
      BY <2>2, <2>3, <2>4, <1>1
<1>8. ASSUME control' = "aborted"
      PROVE  \E v \in StoredVariables(source) : Depth(var_val_stack', v) = 0
  <2>1. PICK i \in fill : renamed.stack[i[3]] = <<>>
      BY <1>1, <1>8
  <2>2. i[3] \in DOMAIN renamed.stack /\ i[3] \in StoredVariables(source)
      BY <1>4, <1>5 DEF AreStacks
  <2>3. Depth(renamed.stack, i[3]) = 0
      BY <2>1, <2>2, <1>4, DepthType
  <2> QED
      BY <2>2, <2>3, <1>1
<1>9. \E w \in Seq(Instructions(source)) :
         frames' = Append(below, [bb |-> b, todo |-> Children(Graph(source), b), wait_delete |-> w])
  <2>1. Graph(f) = Graph(source)
      BY GraphDerived
  <2> QED
      BY <2>1, <1>1, <1>4
<1>10. control' \in {"rename", "aborted"}
    BY <1>1
<1> QED
    BY <1>1, <1>4, <1>6, <1>7, <1>8, <1>9, <1>10
-----------------------------------------------------------------------------
(***************************************************************************)
(* The inductive invariant.                                                *)
(***************************************************************************)
Frame(src) == [bb : Blocks, todo : SUBSET Blocks, wait_delete : Seq(Instructions(src))]

\* What the variables hold at any time.
TypeInv ==
    /\ control \in {"phi", "rename", "alloca", "run", "aborted"}
    /\ source \in Functions /\ Derived(source, f)
    /\ to_place \subseteq StoredVariables(source)
    /\ work_list \in Seq(Blocks \X StoredVariables(source))
    /\ AreStacks(source, var_val_stack)
    /\ frames \in Seq(Frame(source))
    /\ DOMAIN names \subseteq Blocks
    /\ "at" \in DOMAIN machine /\ machine.at \in Blocks \cup {Null}

\* The frames are a path of the dominator tree, from the entry down.
IsTreePath(g, F) ==
    /\ F # <<>> /\ F[1].bb = Entry
    /\ \A k \in 1..Len(F) :
         /\ F[k].bb \in Blocks /\ IsReachable(g, F[k].bb)
         /\ F[k].todo \subseteq Children(g, F[k].bb)
    /\ \A j, k \in 1..Len(F) : j < k => StrictlyDominates(g, F[j].bb, F[k].bb)

\* b can be entered below the frames F.
IsPathTo(src, F, b) ==
    \A w : IsTreePath(Graph(src),
                      Append(F, [bb |-> b, todo |-> Children(Graph(src), b), wait_delete |-> w]))

\* The stacks hold what the blocks of the frames F define.
StacksHold(src, code, stack, F) ==
    \A v \in StoredVariables(src) : Depth(stack, v) = Cardinality(Definitions(src, code, F, v))

\* While the blocks are renamed the stacks hold what the path defines.
PathInv ==
    control = "rename" =>
        /\ IsTreePath(Graph(source), frames)
        /\ StacksHold(source, f.code, var_val_stack, frames)

\* Before there is none, and the entry keeps its instructions until it is left.
PhaseInv ==
    /\ control = "phi" => var_val_stack = <<>> /\ frames = <<>>
    /\ control \in {"phi", "rename"} =>
         ToSet(source.code[Entry]) \subseteq ToSet(f.code[Entry])

Inv == TypeInv /\ PathInv /\ PhaseInv
-----------------------------------------------------------------------------
\* The assumption on Functions, for the one given.
LEMMA SourceBuilt ==
    ASSUME source \in Functions
    PROVE  BuiltByIRBuilder(source)
    BY FunctionsAssumption

\* A variable that is stored and not global is a scalar.
LEMMA StoredScalars ==
    ASSUME NEW src
    PROVE  StoredVariables(src) \subseteq Scalars /\ StoredVariables(src) \subseteq Memory
    BY DEF StoredVariables, Promoted, Memory

\* A path of the tree with a child of its last block is one.
LEMMA TreePathMore ==
    ASSUME NEW g \in CFGs, NEW F, IsTreePath(g, F), Len(F) \in Nat,
           NEW c, c \in F[Len(F)].todo,
           NEW G, Len(G) = Len(F) + 1, G # <<>>,
           \A k \in 1..Len(F) : G[k].bb = F[k].bb /\ G[k].todo \subseteq F[k].todo,
           G[Len(F) + 1].bb = c, G[Len(F) + 1].todo = Children(g, c), Len(F) # 0
    PROVE  IsTreePath(g, G)
<1> DEFINE n == Len(F)
<1>1. n \in Nat \ {0} /\ n \in 1..n /\ 1 \in 1..n /\ \A k \in 1..n + 1 : k \in 1..n \/ k = n + 1
    OBVIOUS
<1>2. /\ F[1].bb = Entry
      /\ \A k \in 1..n : /\ F[k].bb \in Blocks /\ IsReachable(g, F[k].bb)
                         /\ F[k].todo \subseteq Children(g, F[k].bb)
      /\ \A j, k \in 1..n : j < k => StrictlyDominates(g, F[j].bb, F[k].bb)
    BY DEF IsTreePath
<1>3. /\ \A k \in 1..n : G[k].bb = F[k].bb /\ G[k].todo \subseteq F[k].todo
      /\ G[n + 1].bb = c /\ G[n + 1].todo = Children(g, c) /\ c \in F[n].todo /\ Len(G) = n + 1
    OBVIOUS
<1> HIDE DEF n
<1>4. c \in Blocks /\ StrictlyDominates(g, F[n].bb, c) /\ IsReachable(g, c)
    BY <1>1, <1>2, <1>3 DEF Children
<1>5. \A k \in 1..n : StrictlyDominates(g, F[k].bb, c)
  <2> SUFFICES ASSUME NEW k \in 1..n PROVE StrictlyDominates(g, F[k].bb, c)
      OBVIOUS
  <2>1. CASE k = n
      BY <2>1, <1>4
  <2>2. CASE k # n
    <3>1. k < n
        BY <2>2, <1>1
    <3>2. StrictlyDominates(g, F[k].bb, F[n].bb)
        BY <3>1, <1>1, <1>2
    <3> QED
        BY <3>2, <1>1, <1>2, <1>4, StrictlyDominatesTrans
  <2> QED
      BY <2>1, <2>2
<1>6. \A k \in 1..n + 1 :
         /\ G[k].bb \in Blocks /\ IsReachable(g, G[k].bb)
         /\ G[k].todo \subseteq Children(g, G[k].bb)
  <2> SUFFICES ASSUME NEW k \in 1..n + 1
               PROVE  /\ G[k].bb \in Blocks /\ IsReachable(g, G[k].bb)
                      /\ G[k].todo \subseteq Children(g, G[k].bb)
      OBVIOUS
  <2>1. CASE k \in 1..n
      BY <2>1, <1>2, <1>3
  <2>2. CASE k = n + 1
      BY <2>2, <1>3, <1>4
  <2> QED
      BY <2>1, <2>2, <1>1
<1>7. \A j, k \in 1..n + 1 : j < k => StrictlyDominates(g, G[j].bb, G[k].bb)
  <2> SUFFICES ASSUME NEW j \in 1..n + 1, NEW k \in 1..n + 1, j < k
               PROVE  StrictlyDominates(g, G[j].bb, G[k].bb)
      OBVIOUS
  <2>1. j \in 1..n
      BY <1>1
  <2>2. CASE k \in 1..n
      BY <2>1, <2>2, <1>2, <1>3
  <2>3. CASE k = n + 1
      BY <2>1, <2>3, <1>3, <1>5
  <2> QED
      BY <2>2, <2>3, <1>1
<1>8. G[1].bb = Entry
    BY <1>1, <1>2, <1>3
<1> QED
    BY <1>3, <1>6, <1>7, <1>8 DEF IsTreePath
-----------------------------------------------------------------------------
(***************************************************************************)
(* Each action keeps the invariant.                                        *)
(***************************************************************************)
\* At the start f is the source, and nothing is on a stack.
LEMMA InitInv ==
    ASSUME Init
    PROVE  Inv
<1>1. Derived(source, source)
    BY FunctionsAssumption, SourceDerived DEF Init
<1>2. AreStacks(source, <<>>)
    BY DEF AreStacks
<1>3. /\ <<>> \in Seq(Blocks \X StoredVariables(source)) /\ <<>> \in Seq(Frame(source))
      /\ DOMAIN <<>> \subseteq Blocks
    OBVIOUS
<1>4. "at" \in DOMAIN machine /\ machine.at \in Blocks \cup {Null}
    BY DEF Init
<1>5. TypeInv
    BY <1>1, <1>2, <1>3, <1>4 DEF Init, TypeInv
<1> QED
    BY <1>5 DEF Init, Inv, PathInv, PhaseInv

\* The next variable: its work list has blocks of the function.
LEMMA NextVariableInv ==
    ASSUME Inv, NextVariable
    PROVE  Inv'
<1>1. TypeInv /\ control = "phi" /\ source \in Functions
    BY DEF Inv, TypeInv, NextVariable
<1>2. PICK v \in to_place :
         /\ work_list' = SetToSeq({<<b, v>> : b \in {c \in Blocks : Stores(f, v, c)}})
         /\ to_place' = to_place \ {v}
    BY DEF NextVariable
<1>3. UNCHANGED <<source, f, control, var_val_stack, frames, names, machine>>
    BY DEF NextVariable
<1>4. v \in StoredVariables(source)
    BY <1>1 DEF TypeInv
<1> DEFINE stored == {c \in Blocks : Stores(f, v, c)}
           pairs == {<<b, v>> : b \in stored}
<1>5. IsFiniteSet(stored)
    BY FS_Subset, BlocksAssumption DEF BlocksAssumption
<1> HIDE DEF stored
<1>6. [b \in stored |-> <<b, v>>] \in Surjection(stored, pairs)
    BY DEF Surjection
<1>7. IsFiniteSet(pairs)
    BY <1>5, <1>6, FS_Surjection
<1>8. pairs \subseteq Blocks \X StoredVariables(source)
    BY <1>4 DEF stored
<1> HIDE DEF pairs
<1>9. SetToSeq(pairs) \in Seq(Blocks \X StoredVariables(source))
  <2>1. SetToSeq(pairs) \in Seq(pairs)
      BY <1>7, SetToSeqOf
  <2> QED
      BY <2>1, <1>8
<1>10. work_list' \in Seq(Blocks \X StoredVariables(source'))
    BY <1>2, <1>3, <1>9 DEF pairs, stored
<1>11. to_place' \subseteq StoredVariables(source')
    BY <1>1, <1>2, <1>3 DEF TypeInv
<1>12. TypeInv'
    BY <1>1, <1>3, <1>10, <1>11 DEF TypeInv
<1>13. PathInv' /\ PhaseInv'
    BY <1>1, <1>3 DEF Inv, PathInv, PhaseInv
<1> QED
    BY <1>12, <1>13 DEF Inv

\* Placing phis: a block of the frontier that has no phi for the variable gets one.
LEMMA PlacePhisInv ==
    ASSUME Inv, PlacePhis
    PROVE  Inv'
<1> DEFINE b0 == Head(work_list)[1]
           v == Head(work_list)[2]
           missing == {b \in Frontier(Graph(f), b0) : PhiOf(b, v) \notin Placed(f)}
           pairs == {<<b, v>> : b \in missing}
<1>1. TypeInv /\ control = "phi" /\ work_list # <<>>
    BY DEF Inv, PlacePhis
<1>2. f' = PlaceAll(f, v, SetToSeq(missing)) /\ work_list' = Tail(work_list) \o SetToSeq(pairs)
    BY DEF PlacePhis, PlaceAll
<1>3. UNCHANGED <<source, control, to_place, var_val_stack, frames, names, machine>>
    BY DEF PlacePhis
<1>4. BuiltByIRBuilder(source) /\ Derived(source, f)
    BY <1>1, SourceBuilt DEF TypeInv
<1>5. /\ v \in StoredVariables(source)
      /\ Tail(work_list) \in Seq(Blocks \X StoredVariables(source))
  <2>1. work_list \in Seq(Blocks \X StoredVariables(source)) /\ work_list # <<>>
      BY <1>1 DEF TypeInv
  <2>2. Head(work_list) \in Blocks \X StoredVariables(source)
      BY <2>1
  <2> QED
      BY <2>1, <2>2
<1>6. \A b \in missing : b \in Blocks /\ PhiOf(b, v) \notin ToSet(f.code[b])
  <2> SUFFICES ASSUME NEW b \in missing
               PROVE  b \in Blocks /\ PhiOf(b, v) \notin ToSet(f.code[b])
      OBVIOUS
  <2>1. b \in Blocks /\ PhiOf(b, v) \notin Placed(f)
      BY DEF Frontier
  <2>2. PICK p \in PreBlocks(Graph(f), b) : TRUE
      BY DEF Frontier
  <2>3. b \in ToSet(f.blocks)
      BY <2>2, <1>4, GraphDerived DEF PreBlocks
  <2> QED
      BY <2>1, <2>3 DEF Placed
<1> HIDE DEF v, missing
<1>7. IsFiniteSet(missing) /\ missing \subseteq Blocks
  <2>1. missing \in SUBSET Blocks
      BY <1>6
  <2> QED
      BY <2>1, FS_Subset, BlocksAssumption DEF BlocksAssumption
<1>8. [b \in missing |-> <<b, v>>] \in Surjection(missing, pairs)
    BY DEF Surjection
<1>9. IsFiniteSet(pairs)
    BY <1>7, <1>8, FS_Surjection
<1>10. pairs \subseteq Blocks \X StoredVariables(source)
    BY <1>5, <1>7
<1> HIDE DEF pairs
<1>11. SetToSeq(pairs) \in Seq(Blocks \X StoredVariables(source))
  <2>1. SetToSeq(pairs) \in Seq(pairs)
      BY <1>9, SetToSeqOf
  <2> QED
      BY <2>1, <1>10
<1>12. work_list' \in Seq(Blocks \X StoredVariables(source))
    BY <1>2, <1>5, <1>11
<1> DEFINE s == SetToSeq(missing)
<1>13. s \in Seq(missing) /\ IsInjective(s) /\ ToSet(s) = missing
    BY <1>7, SetToSeqOf
<1> HIDE DEF s
<1>14. s \in Seq(Blocks) /\ \A b \in ToSet(s) : PhiOf(b, v) \notin ToSet(f.code[b])
    BY <1>6, <1>7, <1>13
<1>15. /\ Derived(source, f')
       /\ \A c \in Blocks : ToSet(f.code[c]) \subseteq ToSet(f'.code[c])
  <2>1. /\ Derived(source, PlaceAll(f, v, s))
        /\ \A c \in Blocks : ToSet(f.code[c]) \subseteq ToSet(PlaceAll(f, v, s).code[c])
      BY <1>4, <1>5, <1>13, <1>14, PlaceAllDerived
  <2> QED
      BY <2>1, <1>2 DEF s
<1>16. TypeInv'
    BY <1>1, <1>3, <1>12, <1>15 DEF TypeInv
<1>17. ToSet(source.code[Entry]) \subseteq ToSet(f'.code[Entry])
    BY <1>1, <1>15, BlocksAssumption DEF Inv, PhaseInv, BlocksAssumption
<1>18. PathInv' /\ PhaseInv'
    BY <1>1, <1>3, <1>17 DEF Inv, PathInv, PhaseInv
<1> QED
    BY <1>16, <1>18 DEF Inv

\* Renaming b below a path that the stacks follow: the stacks follow the longer
\* one, and the assertion fails only for a variable that the entry does not store.
LEMMA RenameInv ==
    ASSUME TypeInv, ToSet(source.code[Entry]) \subseteq ToSet(f.code[Entry]),
           NEW b \in Blocks, NEW below \in Seq(Frame(source)), Rename(b, below),
           StacksHold(source, f.code, var_val_stack, below), IsPathTo(source, below, b)
    PROVE  /\ Inv'
           /\ control' = "aborted" =>
                \E v \in StoredVariables(source) : ~Stores(source, v, Entry)
<1> DEFINE n == Len(below)
<1>1. /\ BuiltByIRBuilder(source) /\ Derived(source, f) /\ AreStacks(source, var_val_stack)
      /\ source \in Functions
    BY SourceBuilt DEF TypeInv
<1>2. /\ Derived(source, f') /\ f'.code = f.code
      /\ AreStacks(source, var_val_stack')
      /\ \A v \in StoredVariables(source) :
           Depth(var_val_stack', v) =
               Depth(var_val_stack, v) + Cardinality(Makes(source, f.code[b], v))
      /\ \E w \in Seq(Instructions(source)) :
           frames' = Append(below, [bb |-> b, todo |-> Children(Graph(source), b),
                                    wait_delete |-> w])
      /\ DOMAIN names' = DOMAIN names \cup {b}
      /\ control' \in {"rename", "aborted"}
      /\ control' = "aborted" =>
           \E v \in StoredVariables(source) : Depth(var_val_stack', v) = 0
      /\ UNCHANGED <<source, to_place, work_list, machine>>
    BY <1>1, RenameEffect
<1>3. PICK w \in Seq(Instructions(source)) :
         frames' = Append(below, [bb |-> b, todo |-> Children(Graph(source), b),
                                  wait_delete |-> w])
    BY <1>2
<1> DEFINE fr == [bb |-> b, todo |-> Children(Graph(source), b), wait_delete |-> w]
<1>4. fr \in Frame(source) /\ fr.bb = b
    BY DEF Frame, Children
<1>5. frames' = Append(below, fr) /\ IsTreePath(Graph(source), frames')
    BY <1>3 DEF IsPathTo
<1> HIDE DEF fr
<1>6. frames' \in Seq(Frame(source))
    BY <1>4, <1>5
<1>7. TypeInv'
    BY <1>1, <1>2, <1>6 DEF TypeInv
<1>8. /\ n \in Nat /\ DOMAIN below = 1..n /\ DOMAIN frames' = 1..n + 1
      /\ \A k \in 1..n : frames'[k] = below[k]
      /\ frames'[n + 1] = fr
    BY <1>4, <1>5
<1>9. \A k \in 1..n + 1 : frames'[k].bb \in Blocks
  <2>1. \A k \in 1..n + 1 : frames'[k] \in Frame(source)
      BY <1>6, <1>8
  <2> QED
      BY <2>1 DEF Frame
<1> HIDE DEF n
<1>10. ASSUME NEW v \in StoredVariables(source)
       PROVE  Depth(var_val_stack', v) = Cardinality(Definitions(source, f.code, frames', v))
  <2>1. AddsUp(source, f.code, below, frames', b, v)
    <3> DEFINE G == frames'
    <3>1. OneMore(below, G, n, b)
        BY <1>4, <1>8, <1>9 DEF OneMore
    <3> HIDE DEF G
    <3>2. AddsUp(source, f.code, below, G, b, v)
        BY <3>1, <1>1, DefinitionsMore
    <3> QED
        BY <3>2 DEF G
  <2>2. Depth(var_val_stack, v) = Cardinality(Definitions(source, f.code, below, v))
      BY DEF StacksHold
  <2> QED
      BY <2>1, <2>2, <1>2 DEF AddsUp
<1>11. PathInv'
    BY <1>2, <1>5, <1>10 DEF PathInv, StacksHold
<1>12. PhaseInv'
    BY <1>2 DEF PhaseInv
<1>13. ASSUME control' = "aborted"
       PROVE  \E v \in StoredVariables(source) : ~Stores(source, v, Entry)
  <2>1. PICK v \in StoredVariables(source) : Depth(var_val_stack', v) = 0
      BY <1>2, <1>13
  <2> SUFFICES ASSUME Stores(source, v, Entry) PROVE FALSE
      BY <2>1
  <2>2. PICK i \in ToSet(source.code[Entry]) : source.op[i] = "store" /\ source.args[i][2] = v
      BY DEF Stores
  <2>3. ~IsPhi(i)
      BY <1>1, InstructionKinds, BlocksAssumption DEF BlocksAssumption
  <2>4. frames'[1].bb = Entry /\ 1 \in 1..n + 1 /\ n + 1 \in Nat
      BY <1>5, <1>8 DEF IsTreePath
  <2>5. i \in Makes(source, f.code[frames'[1].bb], v)
      BY <2>2, <2>3, <2>4 DEF Makes
  <2>6. Cardinality(Definitions(source, f.code, frames', v)) # 0
    <3> DEFINE G == frames'
               m == n + 1
    <3>1. /\ DOMAIN G = 1..m /\ m \in Nat /\ \A k \in 1..m : G[k].bb \in Blocks
          /\ 1 \in 1..m /\ i \in Makes(source, f.code[G[1].bb], v)
        BY <1>8, <1>9, <2>4, <2>5
    <3> HIDE DEF G, m
    <3>2. Cardinality(Definitions(source, f.code, G, v)) # 0
        BY <3>1, <1>1, SomeDefinition
    <3> QED
        BY <3>2 DEF G
  <2> QED
      BY <2>1, <2>6, <1>10
<1> QED
    BY <1>7, <1>11, <1>12, <1>13 DEF Inv

\* Renaming starts at the entry, with empty stacks.
LEMMA StartRenamingInv ==
    ASSUME Inv, StartRenaming
    PROVE  /\ Inv'
           /\ control' = "aborted" =>
                \E v \in StoredVariables(source) : ~Stores(source, v, Entry)
<1>1. TypeInv /\ ToSet(source.code[Entry]) \subseteq ToSet(f.code[Entry]) /\ var_val_stack = <<>>
    BY DEF Inv, PhaseInv, StartRenaming
<1>2. Rename(Entry, <<>>) /\ Entry \in Blocks /\ <<>> \in Seq(Frame(source))
    BY BlocksAssumption DEF StartRenaming, BlocksAssumption
<1>3. Graph(source) \in CFGs
    BY <1>1, SourceBuilt, GraphDerived DEF TypeInv
<1>4. StacksHold(source, f.code, var_val_stack, <<>>)
  <2>1. ASSUME NEW v PROVE Depth(var_val_stack, v) = 0
      BY <1>1 DEF Depth
  <2>2. ASSUME NEW v PROVE Definitions(source, f.code, <<>>, v) = {}
      BY DEF Definitions
  <2> QED
      BY <2>1, <2>2, FS_EmptySet DEF StacksHold
<1>5. ASSUME NEW w
      PROVE  IsTreePath(Graph(source),
                        Append(<<>>, [bb |-> Entry, todo |-> Children(Graph(source), Entry),
                                      wait_delete |-> w]))
  <2> DEFINE fr == [bb |-> Entry, todo |-> Children(Graph(source), Entry), wait_delete |-> w]
             F == Append(<<>>, fr)
  <2>1. fr.bb = Entry /\ fr.todo = Children(Graph(source), Entry)
      OBVIOUS
  <2> HIDE DEF fr
  <2>2. F # <<>> /\ Len(F) = 1 /\ F[1] = fr
      OBVIOUS
  <2> HIDE DEF F
  <2>3. IsReachable(Graph(source), Entry)
      BY <1>3, ReachableEntry
  <2>4. \A k \in 1..1 : k = 1
      OBVIOUS
  <2>5. IsTreePath(Graph(source), F)
      BY <2>1, <2>2, <2>3, <2>4, <1>2 DEF IsTreePath
  <2> QED
      BY <2>5 DEF F, fr
<1>6. IsPathTo(source, <<>>, Entry)
    BY <1>5 DEF IsPathTo
<1> QED
    BY <1>1, <1>2, <1>4, <1>6, RenameInv

\* The path grows by a child of its last block.
LEMMA RenameChildInv ==
    ASSUME Inv, RenameChild
    PROVE  /\ Inv'
           /\ control' = "aborted" =>
                \E v \in StoredVariables(source) : ~Stores(source, v, Entry)
<1> DEFINE n == Len(frames)
<1>1. /\ TypeInv /\ ToSet(source.code[Entry]) \subseteq ToSet(f.code[Entry])
      /\ IsTreePath(Graph(source), frames)
      /\ StacksHold(source, f.code, var_val_stack, frames)
    BY DEF Inv, PhaseInv, PathInv, RenameChild
<1>2. PICK c \in Last(frames).todo : Rename(c, [frames EXCEPT ![Len(frames)].todo = @ \ {c}])
    BY DEF RenameChild
<1> DEFINE below == [frames EXCEPT ![Len(frames)].todo = @ \ {c}]
<1>3. frames \in Seq(Frame(source)) /\ frames # <<>>
    BY <1>1 DEF TypeInv, RenameChild
<1>4. /\ n \in Nat /\ n # 0 /\ DOMAIN frames = 1..n /\ n \in 1..n /\ Last(frames) = frames[n]
      /\ \A k \in 1..n : frames[k] \in Frame(source)
    BY <1>3 DEF Last
<1>5. Graph(source) \in CFGs
    BY <1>1, SourceBuilt, GraphDerived DEF TypeInv
<1>6. c \in frames[n].todo /\ frames[n].todo \subseteq Children(Graph(source), frames[n].bb)
    BY <1>1, <1>2, <1>4 DEF IsTreePath
<1>7. c \in Blocks
    BY <1>6 DEF Children
<1>8. /\ below \in Seq(Frame(source)) /\ Len(below) = n /\ DOMAIN below = 1..n
      /\ \A k \in 1..n : below[k].bb = frames[k].bb /\ below[k].todo \subseteq frames[k].todo
  <2> DEFINE top == [frames[n] EXCEPT !.todo = @ \ {c}]
  <2>1. top \in Frame(source) /\ top.bb = frames[n].bb /\ top.todo \subseteq frames[n].todo
      BY <1>4 DEF Frame
  <2>2. below = [frames EXCEPT ![n] = top]
      OBVIOUS
  <2> HIDE DEF top, n
  <2>3. /\ below \in [1..n -> Frame(source)]
        /\ \A k \in 1..n : below[k] = IF k = n THEN top ELSE frames[k]
      BY <2>1, <2>2, <1>3, <1>4
  <2>4. below \in Seq(Frame(source)) /\ Len(below) = n /\ DOMAIN below = 1..n
      BY <2>3, <1>4
  <2> QED
      BY <2>1, <2>3, <2>4
<1> HIDE DEF below
<1>9. StacksHold(source, f.code, var_val_stack, below)
  <2>1. ASSUME NEW v
        PROVE  Definitions(source, f.code, below, v) = Definitions(source, f.code, frames, v)
      BY <1>4, <1>8 DEF Definitions
  <2> QED
      BY <2>1, <1>1 DEF StacksHold
<1>10. ASSUME NEW w
       PROVE  IsTreePath(Graph(source),
                         Append(below, [bb |-> c, todo |-> Children(Graph(source), c),
                                        wait_delete |-> w]))
  <2> DEFINE fr == [bb |-> c, todo |-> Children(Graph(source), c), wait_delete |-> w]
             G == Append(below, fr)
  <2>1. fr.bb = c /\ fr.todo = Children(Graph(source), c)
      OBVIOUS
  <2> HIDE DEF fr
  <2>2. Len(G) = n + 1 /\ G # <<>> /\ (\A k \in 1..n : G[k] = below[k]) /\ G[n + 1] = fr
      BY <1>4, <1>8
  <2> HIDE DEF G
  <2>3. IsTreePath(Graph(source), G)
      BY <2>1, <2>2, <1>1, <1>4, <1>5, <1>6, <1>8, TreePathMore
  <2> QED
      BY <2>3 DEF G, fr
<1>11. Rename(c, below) /\ IsPathTo(source, below, c)
    BY <1>2, <1>10 DEF below, IsPathTo
<1> HIDE DEF n
<1> QED
    BY <1>1, <1>7, <1>8, <1>9, <1>10, <1>11, RenameInv

\* Leaving a block takes off the stacks what it put there, which its frame shows
\* to be there; no block above it is touched.
LEMMA LeaveBlockInv ==
    ASSUME Inv, LeaveBlock
    PROVE  Inv' /\ control' # "aborted"
<1> DEFINE n == Len(frames)
           G == frames
           F == Front(frames)
           b == frames[n].bb
           popped == PopAll(f, var_val_stack, f.code[b])
           left == DeleteAll(f, b, frames[n].wait_delete)
<1>1. /\ TypeInv /\ ToSet(source.code[Entry]) \subseteq ToSet(f.code[Entry])
      /\ IsTreePath(Graph(source), frames)
      /\ StacksHold(source, f.code, var_val_stack, frames)
      /\ control = "rename"
    BY DEF Inv, PhaseInv, PathInv, LeaveBlock
<1>2. frames \in Seq(Frame(source)) /\ frames # <<>>
    BY <1>1 DEF TypeInv, LeaveBlock
<1>3. /\ n \in Nat /\ n # 0 /\ DOMAIN G = 1..n /\ n \in 1..n /\ Last(frames) = G[n]
      /\ \A k \in 1..n : G[k] \in Frame(source)
  <2>1. n \in Nat \ {0} /\ Last(frames) = frames[n]
      BY <1>2, FrontLast
  <2> QED
      BY <2>1, <1>2
<1>4. /\ F \in Seq(Frame(source)) /\ Len(F) = n - 1 /\ DOMAIN F = 1..n - 1
      /\ \A k \in 1..n - 1 : F[k] = G[k]
  <2>1. /\ F \in Seq(Frame(source)) /\ Len(F) = n - 1
        /\ \A k \in 1..n - 1 : F[k] = frames[k]
      BY <1>2, FrontLast
  <2> QED
      BY <2>1
<1>5. /\ var_val_stack' = popped /\ f' = left /\ frames' = F
      /\ control' = IF n = 1 THEN "alloca" ELSE "rename"
      /\ UNCHANGED <<source, to_place, work_list, names, machine>>
  <2>1. /\ var_val_stack' = PopAll(f, var_val_stack, f.code[Last(frames).bb])
        /\ f' = DeleteAll(f, Last(frames).bb, Last(frames).wait_delete)
      BY DEF LeaveBlock, PopAll, DeleteAll
  <2>2. popped = PopAll(f, var_val_stack, f.code[Last(frames).bb])
      BY <1>3
  <2>3. left = DeleteAll(f, Last(frames).bb, Last(frames).wait_delete)
      BY <1>3
  <2>4. /\ frames' = F /\ control' = IF n = 1 THEN "alloca" ELSE "rename"
        /\ UNCHANGED <<source, to_place, work_list, names, machine>>
      BY <1>1 DEF LeaveBlock
  <2> QED
      BY <2>1, <2>2, <2>3, <2>4
<1>6. /\ BuiltByIRBuilder(source) /\ Derived(source, f) /\ AreStacks(source, var_val_stack)
    BY <1>1, SourceBuilt DEF TypeInv
<1>7. /\ \A k \in 1..n : G[k].bb \in Blocks
      /\ \A j, k \in 1..n : j < k => StrictlyDominates(Graph(source), G[j].bb, G[k].bb)
      /\ G[1].bb = Entry
    BY <1>1, <1>3 DEF IsTreePath
<1>8. /\ b \in Blocks /\ b = G[n].bb
    BY <1>3, <1>7
<1>9. PICK m \in Nat : DOMAIN frames[n].wait_delete = 1..m
  <2>1. frames[n].wait_delete \in Seq(Instructions(source))
      BY <1>3 DEF Frame
  <2> QED
      BY <2>1
<1> HIDE DEF n, G, F, popped, left
<1>10. OneMore(F, G, n - 1, b)
    BY <1>3, <1>4, <1>7, <1>8 DEF OneMore
<1>11. ASSUME NEW v \in StoredVariables(source)
       PROVE  /\ Depth(var_val_stack, v) =
                     Cardinality(Definitions(source, f.code, F, v))
                         + Cardinality(Makes(source, f.code[b], v))
              /\ Cardinality(Definitions(source, f.code, F, v)) \in Nat
              /\ Cardinality(Makes(source, f.code[b], v)) \in Nat
  <2>1. AddsUp(source, f.code, F, G, b, v)
      BY <1>6, <1>10, DefinitionsMore
  <2>2. Depth(var_val_stack, v) = Cardinality(Definitions(source, f.code, G, v))
      BY <1>1 DEF StacksHold, G
  <2>3. Cardinality(Definitions(source, f.code, F, v)) \in Nat
    <3> DEFINE m0 == n - 1
    <3>1. m0 \in Nat /\ DOMAIN F = 1..m0 /\ \A k \in 1..m0 : F[k].bb \in Blocks
        BY <1>3, <1>4, <1>7
    <3> HIDE DEF m0
    <3> QED
        BY <3>1, <1>6, DefinitionsFinite
  <2>4. Cardinality(Makes(source, f.code[b], v)) \in Nat
    <3>1. f.code[b] \in Seq(Instructions(source))
        BY <1>6, <1>8, CodeList
    <3> QED
        BY <3>1, MakesCount
  <2> QED
      BY <2>1, <2>2, <2>3, <2>4 DEF AddsUp
<1>12. /\ AreStacks(source, popped)
       /\ \A v \in StoredVariables(source) :
            Depth(popped, v) = Depth(var_val_stack, v) - Cardinality(Makes(source, f.code[b], v))
  <2>1. \A v \in StoredVariables(source) :
           Depth(var_val_stack, v) >= Cardinality(Makes(source, f.code[b], v))
      BY <1>11
  <2> HIDE DEF b
  <2> QED
      BY <2>1, <1>6, <1>8, PopAllEffect DEF popped
<1>13. /\ Derived(source, left)
       /\ \A c \in Blocks : c # b => left.code[c] = f.code[c]
  <2> DEFINE s == frames[n].wait_delete
  <2>1. DOMAIN s = 1..m
      BY <1>9
  <2> HIDE DEF s, b
  <2> QED
      BY <2>1, <1>6, <1>8, <1>9, DeleteAllDerived DEF left, s
<1> HIDE DEF b
<1>14. TypeInv'
    BY <1>1, <1>4, <1>5, <1>12, <1>13 DEF TypeInv
<1>15. \A k \in 1..n - 1 : F[k].bb = G[k].bb /\ F[k].bb # b /\ F[k].bb \in Blocks
  <2> SUFFICES ASSUME NEW k \in 1..n - 1
               PROVE  F[k].bb = G[k].bb /\ F[k].bb # b /\ F[k].bb \in Blocks
      OBVIOUS
  <2>1. k \in 1..n /\ k < n
      BY <1>3
  <2>2. StrictlyDominates(Graph(source), G[k].bb, b)
      BY <2>1, <1>3, <1>7, <1>8
  <2> QED
      BY <2>1, <2>2, <1>4, <1>7 DEF StrictlyDominates
<1>16. CASE n = 1
    BY <1>14, <1>5, <1>16 DEF Inv, PathInv, PhaseInv
<1>17. CASE n # 1
  <2>1. control' = "rename" /\ 1 \in 1..n - 1 /\ 1 \in 1..n
      BY <1>17, <1>3, <1>5
  <2>2. IsTreePath(Graph(source), F)
    <3>1. F # <<>> /\ Len(F) = n - 1 /\ F[1].bb = Entry
        BY <2>1, <1>4, <1>7
    <3>2. \A k \in 1..n : /\ G[k].bb \in Blocks /\ IsReachable(Graph(source), G[k].bb)
                          /\ G[k].todo \subseteq Children(Graph(source), G[k].bb)
        BY <1>1 DEF IsTreePath, G, n
    <3>3. \A k \in 1..n - 1 : k \in 1..n /\ F[k] = G[k]
        BY <1>3, <1>4
    <3> QED
        BY <3>1, <3>2, <3>3, <1>7 DEF IsTreePath
  <2>3. StacksHold(source, left.code, popped, F)
    <3> SUFFICES ASSUME NEW v \in StoredVariables(source)
                 PROVE  Depth(popped, v) = Cardinality(Definitions(source, left.code, F, v))
        BY DEF StacksHold
    <3>1. Definitions(source, left.code, F, v) = Definitions(source, f.code, F, v)
      <4>1. \A k \in DOMAIN F : left.code[F[k].bb] = f.code[F[k].bb]
          BY <1>4, <1>13, <1>15
      <4> QED
          BY <4>1 DEF Definitions
    <3> QED
        BY <3>1, <1>11, <1>12
  <2>4. b # Entry
      BY <2>1, <1>15, <1>7
  <2>5. ToSet(source.code[Entry]) \subseteq ToSet(left.code[Entry])
      BY <2>4, <1>1, <1>13, BlocksAssumption DEF BlocksAssumption
  <2> QED
      BY <2>1, <2>2, <2>3, <2>5, <1>5, <1>14 DEF Inv, PathInv, PhaseInv
<1> QED
    BY <1>5, <1>16, <1>17

\* A machine that runs a block ends in it.
LEMMA RunBlockAt ==
    ASSUME NEW src, NEW g, Derived(src, g), NEW x, NEW b \in Blocks
    PROVE  "at" \in DOMAIN RunBlock(g, x, b) /\ RunBlock(g, x, b).at = b
<1> DEFINE phis == {i \in ToSet(g.code[b]) : IsPhi(i)}
           y == [at |-> b, mem |-> x.mem, out |-> <<>>,
                 env |-> [i \in DOMAIN x.env \cup phis |->
                            IF i \in phis THEN PhiValue(g, x, i) ELSE x.env[i]]]
<1>1. RunBlock(g, x, b) = PerformAll(g, y, g.code[b])
    BY DEF RunBlock, PerformAll
<1>2. "at" \in DOMAIN y /\ y.at = b
    OBVIOUS
<1> HIDE DEF y
<1>3. g.code[b] \in Seq(Instructions(src))
    BY CodeList
<1> QED
    BY <1>1, <1>2, <1>3, PerformAllAt

\* Removing the allocas changes the machine's cells only.
LEMMA RemoveAllocaInv ==
    ASSUME Inv, RemoveAlloca
    PROVE  Inv' /\ control' # "aborted"
<1>1. "at" \in DOMAIN machine' /\ machine'.at = machine.at
  <2>1. \A m : /\ "at" \in DOMAIN [machine EXCEPT !.mem = m]
               /\ [machine EXCEPT !.mem = m].at = machine.at
      BY DEF Inv, TypeInv
  <2> QED
      BY <2>1 DEF RemoveAlloca
<1> QED
    BY <1>1 DEF RemoveAlloca, Inv, TypeInv, PathInv, PhaseInv

\* The function runs on to a block of the graph.
LEMMA RunNextBlockInv ==
    ASSUME Inv, RunNextBlock
    PROVE  Inv' /\ control' # "aborted"
<1>1. TypeInv /\ control = "run"
    BY DEF Inv, RunNextBlock
<1>2. PICK b \in IF machine.at = Null THEN {Entry} ELSE Graph(f)[machine.at] :
         machine' = RunBlock(f, machine, b)
    BY DEF RunNextBlock
<1>3. b \in Blocks
  <2>1. CASE machine.at = Null
      BY <2>1, <1>2, BlocksAssumption DEF BlocksAssumption
  <2>2. CASE machine.at # Null
    <3>1. machine.at \in Blocks
        BY <2>2, <1>1 DEF TypeInv
    <3>2. Graph(f)[machine.at] \subseteq Blocks
        BY <3>1, <1>1, SourceBuilt, GraphDerived DEF TypeInv
    <3> QED
        BY <2>2, <3>2, <1>2
  <2> QED
      BY <2>1, <2>2
<1>4. "at" \in DOMAIN machine' /\ machine'.at = b
    BY <1>1, <1>2, <1>3, RunBlockAt DEF TypeInv
<1>5. UNCHANGED <<source, f, passVars>>
    BY DEF RunNextBlock
<1> QED
    BY <1>1, <1>3, <1>4, <1>5 DEF Inv, TypeInv, PathInv, PhaseInv, passVars

\* So every step keeps the invariant, and only a variable the entry does not store
\* lets the assertion fail.
LEMMA NextInv ==
    ASSUME Inv, [Next]_vars
    PROVE  /\ Inv'
           /\ control # "aborted" /\ control' = "aborted" =>
                \E v \in StoredVariables(source) : ~Stores(source, v, Entry)
<1>1. CASE NextVariable
    BY <1>1, NextVariableInv DEF NextVariable
<1>2. CASE PlacePhis
    BY <1>2, PlacePhisInv DEF PlacePhis
<1>3. CASE StartRenaming
    BY <1>3, StartRenamingInv
<1>4. CASE RenameChild
    BY <1>4, RenameChildInv
<1>5. CASE LeaveBlock
    BY <1>5, LeaveBlockInv
<1>6. CASE RemoveAlloca
    BY <1>6, RemoveAllocaInv
<1>7. CASE RunNextBlock
    BY <1>7, RunNextBlockInv
<1>8. CASE UNCHANGED vars
    BY <1>8 DEF vars, passVars, Inv, TypeInv, PathInv, PhaseInv
<1> QED
    BY <1>1, <1>2, <1>3, <1>4, <1>5, <1>6, <1>7, <1>8 DEF Next

\* The invariant holds in every reachable state.
LEMMA InvAlways == Spec => []Inv
<1>1. Init => Inv
    BY InitInv
<1>2. Inv /\ [Next]_vars => Inv'
    BY NextInv
<1> QED
    BY <1>1, <1>2, PTL DEF Spec

\* The function given stays what it is.
LEMMA SourceStays ==
    ASSUME [Next]_vars
    PROVE  source' = source
BY DEF Next, NextVariable, PlacePhis, StartRenaming, RenameChild, Rename, LeaveBlock,
       RemoveAlloca, RunNextBlock, vars
-----------------------------------------------------------------------------
(***************************************************************************)
(* The theorems.                                                           *)
(***************************************************************************)
\* The pass keeps its types: the stacks and the variables to place are scalars,
\* the call stack has blocks, and the function it leaves runs from block to block.
THEOREM TypeCorrect == Spec => []TypeOK
<1>1. Inv => TypeOK
  <2> SUFFICES ASSUME TypeInv PROVE TypeOK
      BY DEF Inv
  <2>1. StoredVariables(source) \subseteq Scalars
      BY StoredScalars
  <2>2. ToSet(work_list) \subseteq Blocks \X Scalars
    <3>1. work_list \in Seq(Blocks \X StoredVariables(source))
        BY DEF TypeInv
    <3>2. ToSet(work_list) \subseteq Blocks \X StoredVariables(source)
        BY <3>1, ToSetFinite
    <3> QED
        BY <3>2, <2>1
  <2>3. \A k \in DOMAIN frames : frames[k].bb \in Blocks /\ frames[k].todo \subseteq Blocks
    <3>1. \A k \in DOMAIN frames : frames[k] \in Frame(source)
        BY DEF TypeInv
    <3> QED
        BY <3>1 DEF Frame
  <2> QED
      BY <2>1, <2>2, <2>3 DEF TypeInv, TypeOK, AreStacks
<1> QED
    BY <1>1, InvAlways, PTL

\* Between two calls of re_name the stack of a variable has one entry for each
\* definition of it in the blocks on the path to the block being renamed: what
\* step 7 pops is what steps 3 and 5 have pushed, for every function.
THEOREM StacksAlwaysFollowTheTree == Spec => []StacksFollowTheTree
<1>1. Inv => StacksFollowTheTree
  <2> SUFFICES ASSUME Inv, control = "rename", NEW v \in DOMAIN var_val_stack
               PROVE  Len(var_val_stack[v]) =
                        Cardinality(UNION {{k} \X PushedBy(frames[k].bb, v) : k \in DOMAIN frames})
      BY DEF StacksFollowTheTree
  <2>1. /\ BuiltByIRBuilder(source) /\ Derived(source, f) /\ v \in StoredVariables(source)
        /\ \A k \in DOMAIN frames : frames[k].bb \in Blocks
    <3>1. TypeInv
        BY DEF Inv
    <3>2. \A k \in DOMAIN frames : frames[k] \in Frame(source)
        BY <3>1 DEF TypeInv
    <3> QED
        BY <3>1, <3>2, SourceBuilt DEF TypeInv, AreStacks, Frame
  <2>2. Len(var_val_stack[v]) = Cardinality(Definitions(source, f.code, frames, v))
      BY <2>1 DEF Inv, PathInv, StacksHold, Depth
  <2>3. ASSUME NEW b \in Blocks
        PROVE  PushedBy(b, v) = Makes(source, f.code[b], v)
    <3>1. ASSUME NEW i \in ToSet(f.code[b])
          PROVE  \/ IsPhi(i)
                 \/ /\ ~IsPhi(i) /\ f.op[i] = source.op[i]
                    /\ source.op[i] = "store" => f.args[i][2] = source.args[i][2]
        BY <2>1, CodeKinds
    <3> QED
        BY <3>1 DEF PushedBy, Makes
  <2>4. UNION {{k} \X PushedBy(frames[k].bb, v) : k \in DOMAIN frames}
            = Definitions(source, f.code, frames, v)
      BY <2>1, <2>3 DEF Definitions
  <2> QED
      BY <2>2, <2>4
<1> QED
    BY <1>1, InvAlways, PTL

\* A variable that the first block does not store.
SomeNotInEntry == \E v \in StoredVariables(source) : ~Stores(source, v, Entry)

AbortInv == Inv /\ (control = "aborted" => SomeNotInEntry)

\* The assertion of step 6 fails only for a function that stores a variable
\* somewhere but not in its first block: a stack is empty only when no block on
\* the path defines its variable, and the entry is on every path.
THEOREM AbortsOnlyWithoutFirstStore == Spec => [](control = "aborted" => SomeNotInEntry)
<1>1. Init => AbortInv
    BY InitInv DEF Init, AbortInv
<1>2. AbortInv /\ [Next]_vars => AbortInv'
  <2> SUFFICES ASSUME AbortInv, [Next]_vars PROVE AbortInv'
      OBVIOUS
  <2>1. Inv' /\ source' = source
      BY NextInv, SourceStays DEF AbortInv
  <2>2. control' = "aborted" => SomeNotInEntry
    <3>1. CASE control = "aborted"
        BY <3>1 DEF AbortInv
    <3>2. CASE control # "aborted"
        BY <3>2, NextInv DEF AbortInv, SomeNotInEntry
    <3> QED
        BY <3>1, <3>2
  <2>3. SomeNotInEntry' <=> SomeNotInEntry
      BY <2>1 DEF SomeNotInEntry
  <2> QED
      BY <2>1, <2>2, <2>3 DEF AbortInv
<1>3. AbortInv => (control = "aborted" => SomeNotInEntry)
    BY DEF AbortInv
<1> QED
    BY <1>1, <1>2, <1>3, PTL DEF Spec

\* So it holds for every function that stores its variables in its first block,
\* as it does its parameters.
THEOREM AssertAlwaysHolds ==
    ASSUME \A g \in Functions : \A v \in StoredVariables(g) : Stores(g, v, Entry)
    PROVE  Spec => []AssertHolds
<1>1. Inv => ~SomeNotInEntry
    BY DEF Inv, TypeInv, SomeNotInEntry
<1>2. (control = "aborted" => SomeNotInEntry) /\ Inv => AssertHolds
    BY <1>1 DEF AssertHolds
<1> QED
    BY <1>2, InvAlways, AbortsOnlyWithoutFirstStore, PTL
-----------------------------------------------------------------------------
(***************************************************************************)
(* The dominator tree spans what can be reached.                           *)
(***************************************************************************)
\* A strict dominator of a reachable block is reachable.
LEMMA DominatorReachable ==
    ASSUME NEW g \in CFGs, NEW a \in Blocks, NEW b, Dominates(g, a, b), IsReachable(g, b)
    PROVE  IsReachable(g, a)
<1> SUFFICES ASSUME ~IsReachable(g, a) PROVE FALSE
    OBVIOUS
<1> DEFINE S == {x \in Blocks : IsReachable(g, x)}
<1>1. Entry \in S /\ a \notin S /\ \A s \in S : g[s] \subseteq S
  <2>1. Entry \in Blocks
      BY BlocksAssumption DEF BlocksAssumption
  <2>2. \A s \in S : g[s] \subseteq Blocks
      BY GraphType
  <2> QED
      BY <2>1, <2>2, ReachableEntry, ReachableStep
<1>2. a # Entry /\ a # b
    BY <1>1
<1>3. PICK T \in SUBSET (Blocks \ {a, b}) :
         Entry \in T /\ \A s \in T : g[s] \subseteq T \cup {a}
    BY <1>2 DEF Dominates
<1> HIDE DEF S
<1>4. S \cap T \in SUBSET Blocks /\ Entry \in S \cap T
      /\ \A s \in S \cap T : g[s] \subseteq S \cap T
    BY <1>1, <1>3
<1>5. b \in S \cap T
    BY <1>4, ReachableInClosed
<1> QED
    BY <1>3, <1>5

\* Two dominators of a reachable block: one dominates the other.
LEMMA DominatorsOrdered ==
    ASSUME NEW g \in CFGs, NEW a \in Blocks, NEW c \in Blocks, NEW b \in Blocks,
           Dominates(g, a, b), Dominates(g, c, b), IsReachable(g, b)
    PROVE  Dominates(g, a, c) \/ Dominates(g, c, a)
<1> SUFFICES ASSUME ~Dominates(g, a, c), ~Dominates(g, c, a) PROVE FALSE
    OBVIOUS
<1> DEFINE U == {x \in Blocks : ~Dominates(g, a, x) \/ ~Dominates(g, c, x)}
<1>1. Entry \in U
  <2>1. a # Entry /\ Entry \in Blocks
      BY BlocksAssumption DEF Dominates, BlocksAssumption
  <2> QED
      BY <2>1, DominatesEntry
<1>2. ASSUME NEW x \in U, NEW y \in g[x] PROVE y \in U
  <2>1. y \in Blocks /\ x \in PreBlocks(g, y)
      BY GraphType DEF PreBlocks
  <2>2. CASE y = a \/ y = c
      BY <2>1, <2>2
  <2>3. CASE y # a /\ y # c
      BY <2>1, <2>3, DominatesPred DEF StrictlyDominates
  <2> QED
      BY <2>2, <2>3
<1>3. b \in U
    BY <1>1, <1>2, ReachableInClosed
<1> QED
    BY <1>3

\* The dominators of a block, which are finitely many.
Dominators(g, b) == {d \in Blocks : Dominates(g, d, b)}

LEMMA DominatorsFewer ==
    ASSUME NEW g \in CFGs, NEW a \in Blocks, NEW b \in Blocks,
           StrictlyDominates(g, a, b), IsReachable(g, b)
    PROVE  /\ Cardinality(Dominators(g, a)) \in Nat /\ Cardinality(Dominators(g, b)) \in Nat
           /\ Cardinality(Dominators(g, a)) < Cardinality(Dominators(g, b))
<1>1. \A x : IsFiniteSet(Dominators(g, x)) /\ Cardinality(Dominators(g, x)) \in Nat
  <2> SUFFICES ASSUME NEW x PROVE IsFiniteSet(Dominators(g, x))
      BY FS_CardinalityType
  <2> QED
      BY FS_Subset, BlocksAssumption DEF BlocksAssumption, Dominators
<1>2. Dominators(g, a) \subseteq Dominators(g, b)
  <2> SUFFICES ASSUME NEW d \in Blocks, Dominates(g, d, a) PROVE Dominates(g, d, b)
      BY DEF Dominators
  <2> QED
      BY DominatesTrans DEF StrictlyDominates
<1>3. Dominators(g, a) # Dominators(g, b)
  <2>1. ~Dominates(g, b, a)
      BY DominatesBoth DEF StrictlyDominates
  <2>2. Dominates(g, b, b)
      BY DEF Dominates
  <2> QED
      BY <2>1, <2>2 DEF Dominators
<1>4. Cardinality(Dominators(g, a)) < Cardinality(Dominators(g, b))
    BY <1>1, <1>2, <1>3, FS_Subset
<1> QED
    BY <1>1, <1>4

\* Every reachable block but the entry is a child of the tree.
LEMMA EveryBlockHasParent ==
    ASSUME NEW g \in CFGs, NEW b \in Blocks \ {Entry}, IsReachable(g, b)
    PROVE  \E p \in Blocks : StrictlyDominates(g, p, b) /\ b \in Children(g, p)
<1> DEFINE D == {d \in Blocks : StrictlyDominates(g, d, b)}
           above(p) == {d \in D : Dominates(g, p, d)}
           N == {Cardinality(above(p)) : p \in D}
<1>1. Entry \in D
    BY BlocksAssumption DEF BlocksAssumption, Dominates, StrictlyDominates
<1>2. \A p : IsFiniteSet(above(p)) /\ Cardinality(above(p)) \in Nat
  <2> SUFFICES ASSUME NEW p PROVE IsFiniteSet(above(p))
      BY FS_CardinalityType
  <2> QED
      BY FS_Subset, BlocksAssumption DEF BlocksAssumption
<1>3. PICK n \in N : \A m \in N : n <= m
  <2>1. N \in SUBSET Nat /\ N # {}
    <3> HIDE DEF above, D
    <3> QED
        BY <1>1, <1>2
  <2> HIDE DEF N
  <2> QED
      BY <2>1, LeastNumber
<1>4. PICK p \in D : n = Cardinality(above(p))
    OBVIOUS
<1>5. ASSUME NEW d \in D PROVE Dominates(g, d, p)
  <2> SUFFICES ASSUME ~Dominates(g, d, p) PROVE FALSE
      OBVIOUS
  <2>1. Dominates(g, p, d)
      BY DominatorsOrdered DEF StrictlyDominates
  <2>2. above(d) \subseteq above(p)
    <3> SUFFICES ASSUME NEW x \in D, Dominates(g, d, x) PROVE Dominates(g, p, x)
        OBVIOUS
    <3> QED
        BY <2>1, DominatesTrans
  <2>3. p \in above(p) /\ p \notin above(d)
      BY DEF Dominates
  <2>4. Cardinality(above(d)) < Cardinality(above(p))
    <3>1. above(d) # above(p)
        BY <2>3, Zenon
    <3> HIDE DEF above
    <3> QED
        BY <1>2, <2>2, <3>1, FS_Subset
  <2>5. Cardinality(above(d)) \in N
      OBVIOUS
  <2> HIDE DEF above, N
  <2> QED
      BY <1>2, <1>3, <1>4, <2>4, <2>5
<1>6. p # b /\ StrictlyDominates(g, p, b)
    BY DEF StrictlyDominates
<1>7. \A d \in Blocks : StrictlyDominates(g, d, b) => Dominates(g, d, p)
    BY <1>5
<1> QED
    BY <1>6, <1>7 DEF Children

\* And of one block only.
LEMMA OneParent ==
    ASSUME NEW g \in CFGs, NEW p \in Blocks, NEW q \in Blocks, NEW b \in Blocks,
           b \in Children(g, p), b \in Children(g, q)
    PROVE  p = q
<1>1. /\ StrictlyDominates(g, p, b) /\ StrictlyDominates(g, q, b) /\ IsReachable(g, b)
      /\ Dominates(g, p, q) /\ Dominates(g, q, p)
    BY DEF Children
<1>2. IsReachable(g, p)
    BY <1>1, DominatorReachable DEF StrictlyDominates
<1> QED
    BY <1>1, <1>2, DominatesBoth

\* So a set of blocks that has the entry and the children of its blocks has every
\* reachable block.
LEMMA TreeSpans ==
    ASSUME NEW g \in CFGs, NEW R, Entry \in R,
           \A p \in R : Children(g, p) \subseteq R,
           NEW b \in Blocks, IsReachable(g, b)
    PROVE  b \in R
<1> DEFINE M == {x \in Blocks : IsReachable(g, x) /\ x \notin R}
           N == {Cardinality(Dominators(g, x)) : x \in M}
<1> SUFFICES ASSUME b \notin R PROVE FALSE
    OBVIOUS
<1>1. \A x \in M : \E p \in Blocks :
         /\ p \in M
         /\ Cardinality(Dominators(g, p)) \in Nat /\ Cardinality(Dominators(g, x)) \in Nat
         /\ Cardinality(Dominators(g, p)) < Cardinality(Dominators(g, x))
  <2> SUFFICES ASSUME NEW x \in M
               PROVE  \E p \in Blocks :
                        /\ p \in M
                        /\ Cardinality(Dominators(g, p)) \in Nat
                        /\ Cardinality(Dominators(g, x)) \in Nat
                        /\ Cardinality(Dominators(g, p)) < Cardinality(Dominators(g, x))
      OBVIOUS
  <2>1. PICK p \in Blocks : StrictlyDominates(g, p, x) /\ x \in Children(g, p)
      BY EveryBlockHasParent
  <2>2. IsReachable(g, p)
      BY <2>1, DominatorReachable DEF StrictlyDominates
  <2>3. p \in M
      BY <2>1, <2>2
  <2> QED
      BY <2>1, <2>3, DominatorsFewer
<1>2. N \in SUBSET Nat /\ N # {}
  <2>1. b \in M
      OBVIOUS
  <2> HIDE DEF M
  <2> QED
      BY <1>1, <2>1
<1>3. PICK n \in N : \A m \in N : n <= m
  <2> HIDE DEF N
  <2> QED
      BY <1>2, LeastNumber
<1>4. PICK x \in M : n = Cardinality(Dominators(g, x))
    OBVIOUS
<1>5. PICK p \in M : /\ Cardinality(Dominators(g, p)) \in Nat /\ Cardinality(Dominators(g, x)) \in Nat
                     /\ Cardinality(Dominators(g, p)) < Cardinality(Dominators(g, x))
    BY <1>1, Zenon
<1>6. Cardinality(Dominators(g, p)) \in N
    BY Zenon
<1> HIDE DEF N, M
<1> QED
    BY <1>3, <1>4, <1>5, <1>6
-----------------------------------------------------------------------------
(***************************************************************************)
(* Use lists, the operands of phis and the addresses, operation by         *)
(* operation.                                                              *)
(***************************************************************************)
IsList(s) == s \in Seq(ToSet(s))

\* The use lists know the operands of what is in a block.
KnownUses(g) ==
    \A b \in Blocks : \A i \in ToSet(g.code[b]) : \A n \in DOMAIN g.args[i] :
        <<g.args[i][n], i, n>> \in g.uses

\* The operands of a phi come in pairs.
PhiPairs(g) ==
    \A b \in Blocks : \A i \in PhisIn(g, b) :
        IsList(g.args[i]) /\ \E m \in Nat : Len(g.args[i]) = 2 * m

\* No use list but that of a block has the second of a pair.
PhiLabels(g) == \A u \in g.uses : IsPhi(u[2]) /\ u[3] % 2 = 0 => u[1][1] = "block"

Tidy(g) == KnownUses(g) /\ PhiPairs(g) /\ PhiLabels(g)

SecondsOf(s) == {s[n] : n \in {k \in DOMAIN s : k % 2 = 0}}

LabelsOf(S) == {Label(p) : p \in S}

\* Every phi stands in a reachable block, and has a pair for each of the block's
\* predecessors in R.
Filled(src, g, R) ==
    \A b \in Blocks : \A i \in PhisIn(g, b) :
        /\ IsReachable(Graph(src), b)
        /\ Len(g.args[i]) = 2 * Cardinality(PreBlocks(Graph(src), b) \cap R)
        /\ SecondsOf(g.args[i]) = LabelsOf(PreBlocks(Graph(src), b) \cap R)

\* A scalar is an operand only as the address of a load or a store.
AddressesOnly(src, g) ==
    \A b \in Blocks : \A i \in ToSet(g.code[b]) : \A n \in DOMAIN g.args[i] :
        g.args[i][n] \in Scalars => IsAddress(src, i, n)

\* What is in a block of g is an instruction of src from there, or its phi.
LEMMA CodeHome ==
    ASSUME NEW src, BuiltByIRBuilder(src), NEW g, Derived(src, g), NEW b \in Blocks,
           NEW i \in ToSet(g.code[b])
    PROVE  /\ i \in DOMAIN g.op /\ i \in DOMAIN g.args /\ i \in Instructions(src)
           /\ IsPhi(i) => i \notin DOMAIN src.op /\ \E v \in StoredVariables(src) : i = PhiOf(b, v)
           /\ ~IsPhi(i) => i \in DOMAIN src.op /\ i \in ToSet(src.code[b])
           /\ \A c \in Blocks : i \in ToSet(g.code[c]) => c = b
<1>1. i \in DOMAIN g.op /\ DOMAIN g.op = DOMAIN g.args
    BY DEF Derived, KeepsOperands, KeepsAccesses
<1>2. ASSUME NEW c \in Blocks, i \in ToSet(g.code[c])
      PROVE  \/ i \in ToSet(src.code[c]) /\ i \in DOMAIN src.op /\ ~IsPhi(i)
             \/ /\ IsPhi(i) /\ i \notin DOMAIN src.op /\ i[2] = c
                /\ \E v \in StoredVariables(src) : i = PhiOf(c, v)
  <2>1. i \in ToSet(src.code[c]) \/ \E v \in StoredVariables(src) : i = PhiOf(c, v)
      BY <1>2 DEF Derived, HoldsInstructions
  <2>2. \A v : PhiOf(c, v)[2] = c
      BY DEF PhiOf
  <2> QED
      BY <2>1, <2>2, InstructionKinds
<1>3. \A c, d \in Blocks : c # d => ToSet(src.code[c]) \cap ToSet(src.code[d]) = {}
    BY DEF BuiltByIRBuilder
<1>4. i \in Instructions(src)
    BY <1>2 DEF Instructions
<1> QED
    BY <1>1, <1>2, <1>3, <1>4

\* The function given: its use lists are complete, and it has no phi.
LEMMA SourceTidy ==
    ASSUME NEW src, BuiltByIRBuilder(src)
    PROVE  Tidy(src) /\ \A b \in Blocks : PhisIn(src, b) = {}
<1>1. \A b \in Blocks : \A i \in ToSet(src.code[b]) : i \in DOMAIN src.args /\ ~IsPhi(i)
    BY InstructionKinds DEF BuiltByIRBuilder
<1>2. src.uses =
         UNION {{<<src.args[i][n], i, n>> : n \in DOMAIN src.args[i]} : i \in DOMAIN src.args}
    BY DEF BuiltByIRBuilder, UsesOf
<1>3. \A b \in Blocks : PhisIn(src, b) = {}
    BY <1>1 DEF PhisIn
<1>4. KnownUses(src)
  <2> SUFFICES ASSUME NEW b \in Blocks, NEW i \in ToSet(src.code[b]), NEW n \in DOMAIN src.args[i]
               PROVE  <<src.args[i][n], i, n>> \in src.uses
      BY DEF KnownUses
  <2>1. i \in DOMAIN src.args
      BY <1>1
  <2> DEFINE U(j) == {<<src.args[j][k], j, k>> : k \in DOMAIN src.args[j]}
  <2>2. <<src.args[i][n], i, n>> \in U(i)
      OBVIOUS
  <2>3. src.uses = UNION {U(j) : j \in DOMAIN src.args}
      BY <1>2
  <2> HIDE DEF U
  <2> QED
      BY <2>1, <2>2, <2>3
<1>5. PhiLabels(src)
  <2> SUFFICES ASSUME NEW u \in src.uses PROVE ~IsPhi(u[2])
      BY DEF PhiLabels
  <2>1. PICK i \in DOMAIN src.args : u \in {<<src.args[i][n], i, n>> : n \in DOMAIN src.args[i]}
      BY <1>2, Zenon
  <2>2. PICK n \in DOMAIN src.args[i] : u = <<src.args[i][n], i, n>>
      BY <2>1
  <2>3. i[1] = "i"
      BY DEF BuiltByIRBuilder
  <2> QED
      BY <2>2, <2>3 DEF IsPhi
<1> QED
    BY <1>3, <1>4, <1>5 DEF Tidy, PhiPairs

\* A replaced instruction leaves the labels of phis and the addresses.
LEMMA ReplaceTidy ==
    ASSUME NEW src, BuiltByIRBuilder(src), NEW g, Derived(src, g), Tidy(g),
           NEW v \in Instructions(src), NEW w
    PROVE  /\ Tidy(ReplaceAllUseWith(g, v, w))
           /\ \A R : Filled(src, g, R) => Filled(src, ReplaceAllUseWith(g, v, w), R)
           /\ w \notin Scalars /\ AddressesOnly(src, g)
                => AddressesOnly(src, ReplaceAllUseWith(g, v, w))
<1> DEFINE used == {u \in g.uses : u[1] = v}
           new == {<<w, u[2], u[3]>> : u \in used}
           args == [i \in DOMAIN g.args |->
                      [n \in DOMAIN g.args[i] |->
                          IF <<v, i, n>> \in used THEN w ELSE g.args[i][n]]]
           r == ReplaceAllUseWith(g, v, w)
<1>1. r = [g EXCEPT !.args = args, !.uses = @ \cup new]
    BY DEF ReplaceAllUseWith
<1>2. r.code = g.code /\ r.args = args /\ r.uses = g.uses \cup new
  <2> HIDE DEF args, new, r
  <2> QED
      BY <1>1, SMTT(30) DEF Derived, IsFunction
<1>3. KnownUses(g) /\ PhiPairs(g) /\ PhiLabels(g)
    BY DEF Tidy
<1>4. v[1] # "block"
    BY DEF Instructions, PhiOf, BuiltByIRBuilder
<1>5. \A b \in Blocks : \A i \in ToSet(g.code[b]) : i \in DOMAIN g.args
    BY CodeHome
<1>6. ASSUME NEW i \in DOMAIN g.args
      PROVE  /\ DOMAIN args[i] = DOMAIN g.args[i]
             /\ args[i] = [n \in DOMAIN g.args[i] |-> args[i][n]]
             /\ \A n \in DOMAIN g.args[i] :
                  /\ args[i][n] = w \/ args[i][n] = g.args[i][n]
                  /\ args[i][n] # g.args[i][n] => <<v, i, n>> \in g.uses
                  /\ <<g.args[i][n], i, n>> \in g.uses => <<args[i][n], i, n>> \in g.uses \cup new
  <2>1. args[i] = [n \in DOMAIN g.args[i] |-> IF <<v, i, n>> \in used THEN w ELSE g.args[i][n]]
      OBVIOUS
  <2>2. \A n \in DOMAIN g.args[i] :
           <<v, i, n>> \in used => <<v, i, n>> \in g.uses /\ <<w, i, n>> \in new
    <3> SUFFICES ASSUME NEW n \in DOMAIN g.args[i], <<v, i, n>> \in used
                 PROVE  <<v, i, n>> \in g.uses /\ <<w, i, n>> \in new
        OBVIOUS
    <3> DEFINE u == <<v, i, n>>
    <3>1. u \in used /\ u[2] = i /\ u[3] = n
        OBVIOUS
    <3>2. <<w, u[2], u[3]>> \in new
        BY <3>1
    <3> QED
        BY <3>1, <3>2
  <2> HIDE DEF args, used, new
  <2> QED
      BY <2>1, <2>2
<1> HIDE DEF args
<1>7. KnownUses(r)
  <2> SUFFICES ASSUME NEW b \in Blocks, NEW i \in ToSet(g.code[b]), NEW n \in DOMAIN args[i]
               PROVE  <<args[i][n], i, n>> \in g.uses \cup new
      BY <1>2 DEF KnownUses
  <2>1. i \in DOMAIN g.args /\ n \in DOMAIN g.args[i]
      BY <1>5, <1>6
  <2>2. <<g.args[i][n], i, n>> \in g.uses
      BY <2>1, <1>3 DEF KnownUses
  <2> QED
      BY <2>1, <2>2, <1>6
<1>8. PhiLabels(r)
  <2>1. ASSUME NEW u \in new PROVE IsPhi(u[2]) => u[3] % 2 # 0
    <3>1. PICK t \in used : u = <<w, t[2], t[3]>>
        OBVIOUS
    <3>2. t \in g.uses /\ t[1] = v /\ u[2] = t[2] /\ u[3] = t[3]
        BY <3>1
    <3> HIDE DEF new, used
    <3> QED
        BY <3>2, <1>3, <1>4 DEF PhiLabels
  <2> HIDE DEF new
  <2> QED
      BY <2>1, <1>2, <1>3 DEF PhiLabels
<1>9. ASSUME NEW b \in Blocks, NEW i \in PhisIn(g, b)
      PROVE  /\ IsList(args[i]) /\ Len(args[i]) = Len(g.args[i])
             /\ DOMAIN args[i] = DOMAIN g.args[i]
             /\ \A n \in DOMAIN g.args[i] : n % 2 = 0 => args[i][n] = g.args[i][n]
  <2>1. i \in ToSet(g.code[b]) /\ IsPhi(i) /\ i \in DOMAIN g.args
      BY <1>5 DEF PhisIn
  <2>2. g.args[i] \in Seq(ToSet(g.args[i]))
      BY <1>3 DEF PhiPairs, IsList
  <2>3. Len(g.args[i]) \in Nat /\ DOMAIN g.args[i] = 1..Len(g.args[i])
      BY <2>2
  <2>4. args[i] \in [1..Len(g.args[i]) -> ToSet(args[i])]
      BY <2>1, <2>3, <1>6 DEF ToSet
  <2>5. IsList(args[i]) /\ Len(args[i]) = Len(g.args[i])
      BY <2>3, <2>4 DEF IsList
  <2>6. ASSUME NEW n \in DOMAIN g.args[i], n % 2 = 0
        PROVE  args[i][n] = g.args[i][n]
    <3> SUFFICES ASSUME <<v, i, n>> \in g.uses PROVE FALSE
        BY <2>1, <1>6
    <3> DEFINE u == <<v, i, n>>
    <3>1. u \in g.uses /\ u[1] = v /\ u[2] = i /\ u[3] = n
        OBVIOUS
    <3> HIDE DEF u
    <3> QED
        BY <3>1, <2>1, <2>6, <1>3, <1>4 DEF PhiLabels
  <2> QED
      BY <2>1, <2>5, <2>6, <1>6
<1>10. \A b \in Blocks : PhisIn(r, b) = PhisIn(g, b)
    BY <1>2 DEF PhisIn
<1>11. PhiPairs(r)
    BY <1>2, <1>3, <1>9, <1>10 DEF PhiPairs
<1>12. ASSUME NEW R, Filled(src, g, R) PROVE Filled(src, r, R)
  <2> SUFFICES ASSUME NEW b \in Blocks, NEW i \in PhisIn(g, b)
               PROVE  /\ IsReachable(Graph(src), b)
                      /\ Len(args[i]) = 2 * Cardinality(PreBlocks(Graph(src), b) \cap R)
                      /\ SecondsOf(args[i]) = LabelsOf(PreBlocks(Graph(src), b) \cap R)
      BY <1>2, <1>10 DEF Filled
  <2>1. /\ Len(args[i]) = Len(g.args[i]) /\ DOMAIN args[i] = DOMAIN g.args[i]
        /\ \A n \in DOMAIN g.args[i] : n % 2 = 0 => args[i][n] = g.args[i][n]
      BY <1>9
  <2>2. SecondsOf(args[i]) = SecondsOf(g.args[i])
      BY <2>1 DEF SecondsOf
  <2>3. /\ IsReachable(Graph(src), b)
        /\ Len(g.args[i]) = 2 * Cardinality(PreBlocks(Graph(src), b) \cap R)
        /\ SecondsOf(g.args[i]) = LabelsOf(PreBlocks(Graph(src), b) \cap R)
      BY <1>12 DEF Filled
  <2> QED
      BY <2>1, <2>2, <2>3
<1>13. ASSUME w \notin Scalars, AddressesOnly(src, g) PROVE AddressesOnly(src, r)
  <2> SUFFICES ASSUME NEW b \in Blocks, NEW i \in ToSet(g.code[b]), NEW n \in DOMAIN args[i],
                      args[i][n] \in Scalars
               PROVE  IsAddress(src, i, n)
      BY <1>2 DEF AddressesOnly
  <2>1. i \in DOMAIN g.args /\ n \in DOMAIN g.args[i] /\ args[i][n] = g.args[i][n]
      BY <1>5, <1>6, <1>13
  <2> QED
      BY <2>1, <1>13 DEF AddressesOnly
<1> HIDE DEF r
<1> QED
    BY <1>7, <1>8, <1>11, <1>12, <1>13 DEF Tidy, r

\* A phi is placed without operands.
LEMMA AddPhiTidy ==
    ASSUME NEW src, BuiltByIRBuilder(src), NEW g, Derived(src, g), Tidy(g),
           NEW b \in Blocks, NEW v \in StoredVariables(src), PhiOf(b, v) \notin ToSet(g.code[b])
    PROVE  /\ Tidy(AddPhi(g, b, v))
           /\ Filled(src, g, {}) /\ IsReachable(Graph(src), b) => Filled(src, AddPhi(g, b, v), {})
           /\ AddressesOnly(src, g) => AddressesOnly(src, AddPhi(g, b, v))
<1> DEFINE i == PhiOf(b, v)
           op == [j \in DOMAIN g.op \cup {i} |-> IF j = i THEN "phi" ELSE g.op[j]]
           args == [j \in DOMAIN g.args \cup {i} |-> IF j = i THEN <<>> ELSE g.args[j]]
           k == [g EXCEPT !.op = op, !.args = args]
           r == AddPhi(g, b, v)
<1>1. r = [k EXCEPT !.code[b] = <<i>> \o @]
    BY DEF AddPhi, AddInstrBegin
<1>2. r.args = args /\ r.uses = g.uses
  <2>1. IsFunction(g) /\ k = [g EXCEPT !.op = op, !.args = args]
      BY DEF Derived
  <2> HIDE DEF op, args, k, r, i
  <2>2. IsFunction(k) /\ k.args = args /\ k.uses = g.uses
      BY <2>1, SMTT(30) DEF IsFunction
  <2> DEFINE code == [k.code EXCEPT ![b] = <<i>> \o @]
  <2>3. r = [k EXCEPT !.code = code]
      BY <1>1
  <2> HIDE DEF code
  <2> QED
      BY <2>2, <2>3, SMTT(30) DEF IsFunction
<1>3. /\ \A c \in Blocks : c # b => r.code[c] = g.code[c]
      /\ ToSet(r.code[b]) = {i} \cup ToSet(g.code[b])
    BY AddPhiDerived
<1>4. IsPhi(i)
    BY InstructionKinds
<1> HIDE DEF r
<1>5. ASSUME NEW c \in Blocks, NEW j \in ToSet(r.code[c])
      PROVE  \/ j = i /\ c = b /\ r.args[j] = <<>>
             \/ j \in ToSet(g.code[c]) /\ r.args[j] = g.args[j] /\ j # i
  <2>1. CASE j = i
    <3>1. c = b
      <4> SUFFICES ASSUME c # b PROVE FALSE
          OBVIOUS
      <4>1. i \in ToSet(g.code[c])
          BY <2>1, <1>3
      <4>2. PICK w \in StoredVariables(src) : i = PhiOf(c, w)
          BY <4>1, <1>4, CodeHome
      <4> QED
          BY <4>2 DEF PhiOf
    <3> QED
        BY <2>1, <3>1, <1>2
  <2>2. CASE j # i
    <3>1. j \in ToSet(g.code[c])
        BY <2>2, <1>3
    <3>2. j \in DOMAIN g.args
        BY <3>1, CodeHome
    <3> QED
        BY <2>2, <3>1, <3>2, <1>2
  <2> QED
      BY <2>1, <2>2
<1> HIDE DEF args, i, op, k
<1>6. KnownUses(g) /\ PhiPairs(g) /\ PhiLabels(g)
    BY DEF Tidy
<1>7. KnownUses(r)
    BY <1>2, <1>5, <1>6 DEF KnownUses
<1>8. \A c \in Blocks : \A j \in PhisIn(r, c) :
         \/ j = i /\ c = b /\ r.args[j] = <<>>
         \/ j \in PhisIn(g, c) /\ r.args[j] = g.args[j]
    BY <1>5 DEF PhisIn
<1>9. IsList(<<>>) /\ Len(<<>>) = 2 * 0 /\ SecondsOf(<<>>) = {}
    BY DEF IsList, ToSet, SecondsOf
<1>10. PhiPairs(r)
  <2> SUFFICES ASSUME NEW c \in Blocks, NEW j \in PhisIn(r, c)
               PROVE  IsList(r.args[j]) /\ \E m \in Nat : Len(r.args[j]) = 2 * m
      BY DEF PhiPairs
  <2>1. CASE r.args[j] = <<>>
      BY <2>1, <1>9
  <2>2. CASE j \in PhisIn(g, c) /\ r.args[j] = g.args[j]
      BY <2>2, <1>6 DEF PhiPairs
  <2> QED
      BY <2>1, <2>2, <1>8
<1>11. PhiLabels(r)
    BY <1>2, <1>6 DEF PhiLabels
<1>12. ASSUME Filled(src, g, {}), IsReachable(Graph(src), b) PROVE Filled(src, r, {})
  <2> SUFFICES ASSUME NEW c \in Blocks, NEW j \in PhisIn(r, c)
               PROVE  /\ IsReachable(Graph(src), c)
                      /\ Len(r.args[j]) = 2 * Cardinality(PreBlocks(Graph(src), c) \cap {})
                      /\ SecondsOf(r.args[j]) = LabelsOf(PreBlocks(Graph(src), c) \cap {})
      BY DEF Filled
  <2>1. CASE j = i /\ c = b /\ r.args[j] = <<>>
    <3>1. PreBlocks(Graph(src), c) \cap {} = {} /\ Cardinality({}) = 0 /\ LabelsOf({}) = {}
        BY FS_EmptySet DEF LabelsOf
    <3> QED
        BY <2>1, <3>1, <1>9, <1>12
  <2>2. CASE j \in PhisIn(g, c) /\ r.args[j] = g.args[j]
      BY <2>2, <1>12 DEF Filled
  <2> QED
      BY <2>1, <2>2, <1>8
<1>13. ASSUME AddressesOnly(src, g) PROVE AddressesOnly(src, r)
    BY <1>5, <1>13 DEF AddressesOnly
<1> QED
    BY <1>7, <1>10, <1>11, <1>12, <1>13 DEF Tidy, r

\* Deleting an instruction of the source from its block takes only its own uses.
LEMMA DeleteTidy ==
    ASSUME NEW src, BuiltByIRBuilder(src), NEW g, Derived(src, g), Tidy(g),
           NEW b \in Blocks, NEW i \in ToSet(src.code[b])
    PROVE  /\ Tidy(DeleteInstr(g, b, i))
           /\ \A R : Filled(src, g, R) => Filled(src, DeleteInstr(g, b, i), R)
           /\ AddressesOnly(src, g) => AddressesOnly(src, DeleteInstr(g, b, i))
<1> DEFINE left == {u \in g.uses : ~(u[2] = i /\ u[1] \in OperandsOf(g, i))}
           code == [g.code EXCEPT ![b] = Without(@, i)]
           r == DeleteInstr(g, b, i)
<1>1. r = [g EXCEPT !.code = code, !.uses = left]
    BY SMTT(30) DEF DeleteInstr, Derived, IsFunction
<1>2. r.args = g.args /\ r.uses = left
  <2> HIDE DEF left, code, r
  <2> QED
      BY <1>1, SMTT(30) DEF Derived, IsFunction
<1>3. /\ \A c \in Blocks : c # b => r.code[c] = g.code[c]
      /\ ToSet(r.code[b]) = ToSet(g.code[b]) \ {i}
    BY DeleteDerived
<1> HIDE DEF r
<1>4. ASSUME NEW c \in Blocks, NEW j \in ToSet(r.code[c])
      PROVE  j \in ToSet(g.code[c]) /\ j # i
  <2>1. j \in ToSet(g.code[c])
      BY <1>3
  <2>2. CASE c = b
      BY <2>1, <2>2, <1>3
  <2>3. CASE c # b
    <3>1. ~IsPhi(i)
        BY InstructionKinds
    <3>2. ToSet(src.code[b]) \cap ToSet(src.code[c]) = {}
        BY <2>3 DEF BuiltByIRBuilder
    <3> QED
        BY <2>1, <3>1, <3>2, CodeHome
  <2> QED
      BY <2>1, <2>2, <2>3
<1>5. KnownUses(g) /\ PhiPairs(g) /\ PhiLabels(g)
    BY DEF Tidy
<1>6. KnownUses(r)
  <2> SUFFICES ASSUME NEW c \in Blocks, NEW j \in ToSet(r.code[c]), NEW n \in DOMAIN g.args[j]
               PROVE  <<g.args[j][n], j, n>> \in left
      BY <1>2 DEF KnownUses
  <2>1. <<g.args[j][n], j, n>> \in g.uses /\ j # i
      BY <1>4, <1>5 DEF KnownUses
  <2> QED
      BY <2>1
<1>7. PhiLabels(r)
    BY <1>2, <1>5 DEF PhiLabels
<1> HIDE DEF left, code
<1>8. \A c \in Blocks : \A j \in PhisIn(r, c) : j \in PhisIn(g, c)
    BY <1>4 DEF PhisIn
<1>9. PhiPairs(r)
    BY <1>2, <1>5, <1>8 DEF PhiPairs
<1>10. \A R : Filled(src, g, R) => Filled(src, r, R)
    BY <1>2, <1>8 DEF Filled
<1>11. AddressesOnly(src, g) => AddressesOnly(src, r)
    BY <1>2, <1>4 DEF AddressesOnly
<1> QED
    BY <1>6, <1>7, <1>9, <1>10, <1>11 DEF Tidy, r

\* One operand more.
LEMMA Appending ==
    ASSUME NEW s, IsList(s), NEW v
    PROVE  /\ IsList(Append(s, v)) /\ Len(s) \in Nat /\ Len(Append(s, v)) = Len(s) + 1
           /\ DOMAIN s = 1..Len(s) /\ DOMAIN Append(s, v) = 1..(Len(s) + 1)
           /\ Append(s, v)[Len(s) + 1] = v
           /\ \A n \in 1..Len(s) : Append(s, v)[n] = s[n]
<1>1. s \in Seq(ToSet(s) \cup {v})
    BY DEF IsList
<1> DEFINE t == Append(s, v)
<1>2. /\ t \in Seq(ToSet(s) \cup {v}) /\ Len(s) \in Nat /\ Len(t) = Len(s) + 1
      /\ DOMAIN s = 1..Len(s) /\ t[Len(s) + 1] = v /\ \A n \in 1..Len(s) : t[n] = s[n]
    BY <1>1
<1> HIDE DEF t
<1>3. IsList(t) /\ DOMAIN t = 1..(Len(s) + 1)
    BY <1>2, OwnElements DEF IsList
<1> QED
    BY <1>2, <1>3 DEF t

\* One operand for an instruction that has a list of them.
LEMMA AddOperandEffect ==
    ASSUME NEW g, IsFunction(g), NEW i \in DOMAIN g.args, NEW v
    PROVE  /\ IsFunction(AddOperand(g, i, v)) /\ AddOperand(g, i, v).code = g.code
           /\ DOMAIN AddOperand(g, i, v).args = DOMAIN g.args
           /\ AddOperand(g, i, v).args[i] = Append(g.args[i], v)
           /\ \A j \in DOMAIN g.args : j # i => AddOperand(g, i, v).args[j] = g.args[j]
           /\ AddOperand(g, i, v).uses = g.uses \cup {<<v, i, Len(g.args[i]) + 1>>}
<1> DEFINE args == [g.args EXCEPT ![i] = Append(@, v)]
           uses == g.uses \cup {<<v, i, Len(g.args[i]) + 1>>}
           r == AddOperand(g, i, v)
<1>1. r = [g EXCEPT !.args = args, !.uses = uses]
    BY SMTT(30) DEF AddOperand, IsFunction
<1>2. IsFunction(r) /\ r.code = g.code /\ r.args = args /\ r.uses = uses
  <2> HIDE DEF args, uses, r
  <2> QED
      BY <1>1, SMTT(30) DEF IsFunction
<1>3. /\ DOMAIN args = DOMAIN g.args /\ args[i] = Append(g.args[i], v)
      /\ \A j \in DOMAIN g.args : j # i => args[j] = g.args[j]
    OBVIOUS
<1> HIDE DEF args, r
<1> QED
    BY <1>2, <1>3 DEF r

\* Step 6 gives phi i a pair for block b, and changes no other instruction.
LEMMA FillTidy ==
    ASSUME NEW src, BuiltByIRBuilder(src), NEW g, Derived(src, g), Tidy(g),
           NEW c \in Blocks, NEW i \in PhisIn(g, c), NEW stack, NEW b
    PROVE  LET r == FillPhi(g, stack, b, i)
           IN  /\ Tidy(r) /\ r.code = g.code
               /\ \A j \in DOMAIN g.args : j # i => r.args[j] = g.args[j]
               /\ Len(r.args[i]) = Len(g.args[i]) + 2
               /\ SecondsOf(r.args[i]) = SecondsOf(g.args[i]) \cup {Label(b)}
               /\ Back(stack, i[3]) \notin Scalars /\ AddressesOnly(src, g) => AddressesOnly(src, r)
<1> DEFINE x == Back(stack, i[3])
           y == Label(b)
           s == g.args[i]
           n == Len(s)
           h == AddOperand(g, i, x)
           r == AddOperand(h, i, y)
           t == Append(Append(s, x), y)
<1>1. r = FillPhi(g, stack, b, i)
    BY DEF FillPhi
<1>2. IsFunction(g) /\ i \in DOMAIN g.args /\ i \in ToSet(g.code[c]) /\ IsPhi(i)
    BY CodeHome DEF PhisIn, Derived
<1>3. KnownUses(g) /\ PhiPairs(g) /\ PhiLabels(g)
    BY DEF Tidy
<1>4. PICK m \in Nat : IsList(s) /\ n = 2 * m
    BY <1>3 DEF PhiPairs
<1> HIDE DEF x, s, n
<1>5. /\ IsFunction(h) /\ h.code = g.code /\ DOMAIN h.args = DOMAIN g.args
      /\ h.args[i] = Append(s, x) /\ h.uses = g.uses \cup {<<x, i, n + 1>>}
      /\ \A j \in DOMAIN g.args : j # i => h.args[j] = g.args[j]
    BY <1>2, AddOperandEffect DEF s, n
<1>6. /\ IsList(Append(s, x)) /\ n \in Nat /\ Len(Append(s, x)) = n + 1
      /\ DOMAIN s = 1..n /\ DOMAIN Append(s, x) = 1..(n + 1)
      /\ Append(s, x)[n + 1] = x /\ \A l \in 1..n : Append(s, x)[l] = s[l]
    BY <1>4, Appending DEF n
<1> DEFINE q == Append(s, x)
<1>7. /\ IsList(Append(q, y)) /\ Len(Append(q, y)) = Len(q) + 1
      /\ DOMAIN Append(q, y) = 1..(Len(q) + 1)
      /\ Append(q, y)[Len(q) + 1] = y /\ \A l \in 1..Len(q) : Append(q, y)[l] = q[l]
  <2> HIDE DEF q, y
  <2> QED
      BY <1>6, Appending DEF q
<1>8. /\ IsList(t) /\ Len(t) = n + 2 /\ DOMAIN t = 1..(n + 2)
      /\ t[n + 1] = x /\ t[n + 2] = y /\ \A l \in 1..n : t[l] = s[l]
  <2>1. Len(q) = n + 1 /\ (n + 1) + 1 = n + 2 /\ n + 1 \in 1..(n + 1) /\ \A l \in 1..n : l \in 1..(n + 1)
      BY <1>6
  <2> HIDE DEF y, q
  <2> QED
      BY <2>1, <1>6, <1>7 DEF q
<1> HIDE DEF h
<1>9. /\ r.code = g.code /\ r.args[i] = t
      /\ \A j \in DOMAIN g.args : j # i => r.args[j] = g.args[j]
      /\ r.uses = g.uses \cup {<<x, i, n + 1>>, <<y, i, n + 2>>}
  <2> HIDE DEF y
  <2>1. /\ r.code = h.code /\ r.args[i] = Append(h.args[i], y)
        /\ \A j \in DOMAIN h.args : j # i => r.args[j] = h.args[j]
        /\ r.uses = h.uses \cup {<<y, i, Len(h.args[i]) + 1>>}
      BY <1>2, <1>5, AddOperandEffect
  <2>2. Len(h.args[i]) + 1 = n + 2
      BY <1>5, <1>6
  <2> QED
      BY <2>1, <2>2, <1>5
<1> HIDE DEF r, t, q
<1>10. n + 1 \in Nat /\ (n + 1) % 2 # 0 /\ (n + 2) % 2 = 0 /\ n + 2 = 2 * (m + 1) /\ m + 1 \in Nat
    BY <1>4
<1>11. y[1] = "block" /\ y \notin Scalars
    BY DEF Label, Scalars, Variable
<1>12. \A d \in Blocks : \A j \in ToSet(g.code[d]) : j \in DOMAIN g.args
    BY CodeHome
<1>13. KnownUses(r)
  <2> SUFFICES ASSUME NEW d \in Blocks, NEW j \in ToSet(g.code[d]), NEW l \in DOMAIN r.args[j]
               PROVE  <<r.args[j][l], j, l>> \in r.uses
      BY <1>9 DEF KnownUses
  <2>1. CASE j # i
      BY <2>1, <1>3, <1>9, <1>12 DEF KnownUses
  <2>2. CASE j = i
    <3>1. l \in 1..(n + 2)
        BY <2>2, <1>8, <1>9
    <3>2. CASE l \in 1..n
      <4>1. <<s[l], i, l>> \in g.uses
          BY <2>2, <3>2, <1>3, <1>6 DEF KnownUses, s
      <4> QED
          BY <2>2, <3>2, <4>1, <1>8, <1>9
    <3>3. CASE l = n + 1 \/ l = n + 2
        BY <2>2, <3>3, <1>8, <1>9
    <3> QED
        BY <3>1, <3>2, <3>3, <1>6
  <2> QED
      BY <2>1, <2>2
<1>14. PhiPairs(r)
  <2> SUFFICES ASSUME NEW d \in Blocks, NEW j \in PhisIn(g, d)
               PROVE  IsList(r.args[j]) /\ \E k \in Nat : Len(r.args[j]) = 2 * k
      BY <1>9 DEF PhiPairs, PhisIn
  <2>1. CASE j = i
      BY <2>1, <1>8, <1>9, <1>10
  <2>2. CASE j # i
    <3>1. r.args[j] = g.args[j]
        BY <2>2, <1>9, <1>12 DEF PhisIn
    <3> QED
        BY <3>1, <1>3 DEF PhiPairs
  <2> QED
      BY <2>1, <2>2
<1>15. PhiLabels(r)
  <2>1. ASSUME NEW u \in {<<x, i, n + 1>>, <<y, i, n + 2>>}, u[3] % 2 = 0
        PROVE  u[1][1] = "block"
      BY <2>1, <1>10, <1>11
  <2> QED
      BY <2>1, <1>3, <1>9 DEF PhiLabels
<1>16. SecondsOf(t) = SecondsOf(s) \cup {y}
  <2>1. \A l \in 1..(n + 2) : l \in 1..n \/ l = n + 1 \/ l = n + 2
      BY <1>6
  <2>2. \A l \in 1..n : l \in 1..(n + 2)
      BY <1>6
  <2>3. n + 2 \in 1..(n + 2)
      BY <1>6
  <2>4. ASSUME NEW z \in SecondsOf(t) PROVE z \in SecondsOf(s) \cup {y}
    <3>1. PICK l \in DOMAIN t : l % 2 = 0 /\ z = t[l]
        BY DEF SecondsOf
    <3>2. l \in 1..n \/ l = n + 2
        BY <3>1, <2>1, <1>8, <1>10
    <3> QED
        BY <3>1, <3>2, <1>6, <1>8 DEF SecondsOf
  <2>5. ASSUME NEW z \in SecondsOf(s) PROVE z \in SecondsOf(t)
    <3>1. PICK l \in DOMAIN s : l % 2 = 0 /\ z = s[l]
        BY DEF SecondsOf
    <3>2. l \in DOMAIN t /\ t[l] = z
        BY <3>1, <2>2, <1>6, <1>8
    <3> QED
        BY <3>1, <3>2 DEF SecondsOf
  <2>6. y \in SecondsOf(t)
      BY <2>3, <1>8, <1>10 DEF SecondsOf
  <2> QED
      BY <2>4, <2>5, <2>6
<1>17. ASSUME x \notin Scalars, AddressesOnly(src, g) PROVE AddressesOnly(src, r)
  <2> SUFFICES ASSUME NEW d \in Blocks, NEW j \in ToSet(g.code[d]), NEW l \in DOMAIN r.args[j],
                      r.args[j][l] \in Scalars
               PROVE  IsAddress(src, j, l)
      BY <1>9 DEF AddressesOnly
  <2>1. CASE j # i
      BY <2>1, <1>9, <1>12, <1>17 DEF AddressesOnly
  <2>2. CASE j = i
    <3>1. l \in 1..(n + 2) /\ t[l] \in Scalars
        BY <2>2, <1>8, <1>9
    <3>2. l \in 1..n
        BY <3>1, <1>6, <1>8, <1>11, <1>17
    <3>3. l \in DOMAIN g.args[i] /\ g.args[i][l] \in Scalars
        BY <3>1, <3>2, <1>6, <1>8 DEF s
    <3> QED
        BY <2>2, <3>3, <1>17 DEF AddressesOnly
  <2> QED
      BY <2>1, <2>2
<1> HIDE DEF y
<1> QED
    BY <1>1, <1>8, <1>9, <1>13, <1>14, <1>15, <1>16, <1>17 DEF Tidy, s, x, y, n
-----------------------------------------------------------------------------
(***************************************************************************)
(* What is on the stacks.                                                  *)
(***************************************************************************)
\* No stack has a scalar variable itself.
ValuesOnly(stack) == \A v \in DOMAIN stack : ToSet(stack[v]) \cap Scalars = {}

\* One element more.
LEMMA AppendSet ==
    ASSUME NEW S, NEW s \in Seq(S), NEW x
    PROVE  ToSet(Append(s, x)) = ToSet(s) \cup {x}
<1>1. s \in Seq(S \cup {x})
    OBVIOUS
<1> DEFINE t == Append(s, x)
           n == Len(s)
<1>2. n \in Nat /\ DOMAIN s = 1..n /\ DOMAIN t = 1..(n + 1) /\ t[n + 1] = x
      /\ \A k \in 1..n : t[k] = s[k]
    BY <1>1
<1> HIDE DEF t, n
<1>3. \A k \in 1..(n + 1) : k \in 1..n \/ k = n + 1
    BY <1>2
<1>4. n + 1 \in 1..(n + 1) /\ \A k \in 1..n : k \in 1..(n + 1)
    BY <1>2
<1>5. ToSet(t) = {t[k] : k \in 1..(n + 1)} /\ ToSet(s) = {s[k] : k \in 1..n}
    BY <1>2 DEF ToSet
<1>6. \A y \in ToSet(t) : y \in ToSet(s) \cup {x}
    BY <1>2, <1>3, <1>5
<1>7. \A y \in ToSet(s) : y \in ToSet(t)
    BY <1>2, <1>4, <1>5
<1>8. x \in ToSet(t)
    BY <1>2, <1>4, <1>5
<1> QED
    BY <1>6, <1>7, <1>8 DEF t

\* The top of a stack, or no value.
LEMMA BackValue ==
    ASSUME NEW src, NEW stack, AreStacks(src, stack), ValuesOnly(stack), NEW v
    PROVE  Back(stack, v) \notin Scalars
<1>1. Undef \notin Scalars
    BY DEF Undef, Scalars, Variable
<1>2. CASE v \in DOMAIN stack /\ stack[v] # <<>>
  <2> DEFINE s == stack[v]
  <2>1. s \in Seq(ToSet(s)) /\ s # <<>>
      BY <1>2 DEF AreStacks
  <2> HIDE DEF s
  <2>2. Last(s) \in ToSet(s)
      BY <2>1, FrontLast
  <2> QED
      BY <2>2, <1>2 DEF Back, ValuesOnly, s
<1>3. CASE ~(v \in DOMAIN stack /\ stack[v] # <<>>)
    BY <1>1, <1>3 DEF Back
<1> QED
    BY <1>2, <1>3

\* A value pushed.
LEMMA PushValues ==
    ASSUME NEW src, NEW stack, AreStacks(src, stack), NEW v, NEW x
    PROVE  /\ DOMAIN Push(stack, v, x) = DOMAIN stack \cup {v}
           /\ ValuesOnly(stack) /\ x \notin Scalars => ValuesOnly(Push(stack, v, x))
<1> DEFINE r == Push(stack, v, x)
           own == IF v \in DOMAIN stack THEN Append(stack[v], x) ELSE <<x>>
<1>1. /\ DOMAIN r = DOMAIN stack \cup {v}
      /\ r[v] = own
      /\ \A w \in DOMAIN stack : w # v => r[w] = stack[w]
    BY DEF Push
<1>2. ASSUME ValuesOnly(stack), x \notin Scalars PROVE ToSet(own) \cap Scalars = {}
  <2>1. CASE v \in DOMAIN stack
    <3>1. stack[v] \in Seq(ToSet(stack[v]))
        BY <2>1 DEF AreStacks
    <3>2. ToSet(own) = ToSet(stack[v]) \cup {x}
        BY <2>1, <3>1, AppendSet
    <3> QED
        BY <3>2, <2>1, <1>2 DEF ValuesOnly
  <2>2. CASE v \notin DOMAIN stack
    <3>1. ToSet(<<x>>) = {x}
        BY DEF ToSet
    <3> QED
        BY <3>1, <2>2, <1>2
  <2> QED
      BY <2>1, <2>2
<1> HIDE DEF own, r
<1>3. ASSUME ValuesOnly(stack), x \notin Scalars PROVE ValuesOnly(r)
    BY <1>1, <1>2, <1>3 DEF ValuesOnly
<1> QED
    BY <1>1, <1>3 DEF r

\* A pop, of an empty stack too.
LEMMA PopValues ==
    ASSUME NEW src, NEW stack, AreStacks(src, stack), NEW v
    PROVE  /\ AreStacks(src, Pop(stack, v)) /\ DOMAIN Pop(stack, v) = DOMAIN stack
           /\ ValuesOnly(stack) => ValuesOnly(Pop(stack, v))
<1> DEFINE r == Pop(stack, v)
<1>1. DOMAIN r = DOMAIN stack /\ \A w \in DOMAIN stack : r[w] = stack[w] \/ r[w] = Front(stack[w])
    BY DEF Pop
<1>2. ASSUME NEW w \in DOMAIN stack
      PROVE  /\ Front(stack[w]) \in Seq(ToSet(Front(stack[w])))
             /\ ToSet(Front(stack[w])) \subseteq ToSet(stack[w])
  <2> DEFINE s == stack[w]
             t == Front(s)
  <2>1. s \in Seq(ToSet(s))
      BY DEF AreStacks
  <2> HIDE DEF s
  <2>2. t \in Seq(ToSet(s))
    <3>1. CASE s # <<>>
        BY <2>1, <3>1, FrontLast
    <3>2. CASE s = <<>>
      <4>1. t = SubSeq(<<>>, 1, -1)
          BY <3>2 DEF Front
      <4>2. SubSeq(<<>>, 1, -1) = <<>>
          OBVIOUS
      <4> QED
          BY <4>1, <4>2
    <3> QED
        BY <3>1, <3>2
  <2> HIDE DEF t
  <2>3. t \in Seq(ToSet(t)) /\ ToSet(t) \subseteq ToSet(s)
      BY <2>2, OwnElements, ToSetFinite
  <2> QED
      BY <2>3 DEF s, t
<1> HIDE DEF r
<1>3. AreStacks(src, r)
    BY <1>1, <1>2 DEF AreStacks
<1>4. ValuesOnly(stack) => ValuesOnly(r)
    BY <1>1, <1>2 DEF ValuesOnly
<1> QED
    BY <1>1, <1>3, <1>4 DEF r

\* Step 3 pushes phis.
LEMMA PushAllValues ==
    ASSUME NEW src, BuiltByIRBuilder(src), NEW g, Derived(src, g), NEW b \in Blocks,
           NEW stack, AreStacks(src, stack)
    PROVE  /\ DOMAIN stack \subseteq DOMAIN PushAll(stack, g.code[b])
           /\ ValuesOnly(stack) => ValuesOnly(PushAll(stack, g.code[b]))
<1> DEFINE s == g.code[b]
           n == Len(s)
<1>1. n \in Nat /\ DOMAIN s = 1..n /\ \A k \in 1..n : s[k] \in ToSet(s)
    BY CodeList
<1>2. \A i \in ToSet(s) : IsPhi(i) => i[3] \in StoredVariables(src)
    BY CodeKinds
<1> HIDE DEF s, n
<1>3. PICK h : /\ h[0] = stack
               /\ \A k \in 1..n : h[k] = PushPhi(h[k - 1], s[k])
               /\ h[n] = PushAll(stack, s)
  <2>1. Pushes(stack, s, n)
      BY <1>1, PushSteps
  <2> QED
      BY <2>1 DEF Pushes
<1> DEFINE Good(k) == /\ AreStacks(src, h[k]) /\ DOMAIN stack \subseteq DOMAIN h[k]
                      /\ ValuesOnly(stack) => ValuesOnly(h[k])
           Z == {k \in 0..n : Good(k)}
<1>4. 0 \in Z
    BY <1>1, <1>3
<1>5. ASSUME NEW k \in 1..n, k - 1 \in Z PROVE k \in Z
  <2>1. Good(k - 1) /\ h[k] = PushPhi(h[k - 1], s[k]) /\ s[k] \in ToSet(s)
      BY <1>1, <1>3, <1>5
  <2>2. CASE IsPhi(s[k])
    <3>1. h[k] = Push(h[k - 1], s[k][3], s[k]) /\ s[k][3] \in StoredVariables(src)
        BY <2>1, <2>2, <1>2 DEF PushPhi
    <3>2. s[k] \notin Scalars
        BY <2>2 DEF IsPhi, Scalars, Variable
    <3>3. AreStacks(src, h[k])
        BY <2>1, <3>1, PushEffect
    <3>4. /\ DOMAIN h[k] = DOMAIN h[k - 1] \cup {s[k][3]}
          /\ ValuesOnly(h[k - 1]) => ValuesOnly(h[k])
      <4> DEFINE x == h[k - 1]
                 v == s[k][3]
                 i == s[k]
      <4>1. AreStacks(src, x) /\ h[k] = Push(x, v, i) /\ i \notin Scalars
          BY <2>1, <3>1, <3>2
      <4> HIDE DEF x, v, i
      <4>2. /\ DOMAIN Push(x, v, i) = DOMAIN x \cup {v}
            /\ ValuesOnly(x) /\ i \notin Scalars => ValuesOnly(Push(x, v, i))
          BY <4>1, PushValues
      <4> QED
          BY <4>1, <4>2 DEF x, v
    <3> QED
        BY <2>1, <3>3, <3>4, <1>5
  <2>3. CASE ~IsPhi(s[k])
    <3>1. h[k] = h[k - 1]
        BY <2>1, <2>3 DEF PushPhi
    <3> QED
        BY <2>1, <3>1, <1>5
  <2> QED
      BY <2>2, <2>3
<1>6. Good(n)
  <2> HIDE DEF Good
  <2>1. 0..n \subseteq Z
    <3> HIDE DEF Z
    <3> QED
        BY <1>1, <1>4, <1>5, UpTo
  <2> QED
      BY <1>1, <2>1
<1> QED
    BY <1>3, <1>6 DEF s

\* Step 7 pops.
LEMMA PopAllValues ==
    ASSUME NEW src, NEW g, NEW stack, AreStacks(src, stack), NEW S, NEW s \in Seq(S)
    PROVE  ValuesOnly(stack) => ValuesOnly(PopAll(g, stack, s))
<1> DEFINE n == Len(s)
<1>1. n \in Nat /\ DOMAIN s = 1..n
    OBVIOUS
<1> HIDE DEF n
<1>2. PICK h : /\ h[0] = stack
               /\ \A k \in 1..n : h[k] = PoppedBy(g, h[k - 1], s[k])
               /\ h[n] = PopAll(g, stack, s)
  <2>1. Pops(g, stack, s, n)
      BY <1>1, PopSteps
  <2> QED
      BY <2>1 DEF Pops
<1> DEFINE Good(k) == AreStacks(src, h[k]) /\ (ValuesOnly(stack) => ValuesOnly(h[k]))
           Z == {k \in 0..n : Good(k)}
<1>3. 0 \in Z
    BY <1>1, <1>2
<1>4. ASSUME NEW k \in 1..n, k - 1 \in Z PROVE k \in Z
  <2>1. Good(k - 1) /\ h[k] = PoppedBy(g, h[k - 1], s[k])
      BY <1>2, <1>4
  <2>2. h[k] = h[k - 1] \/ \E v : h[k] = Pop(h[k - 1], v)
    <3> DEFINE x == h[k - 1]
               i == s[k]
    <3>1. h[k] = PoppedBy(g, x, i)
        BY <2>1
    <3> HIDE DEF x, i
    <3>2. PoppedBy(g, x, i) \in {x, Pop(x, g.args[i][2]), Pop(x, i[3])}
        BY DEF PoppedBy
    <3> QED
        BY <3>1, <3>2 DEF x
  <2>3. CASE h[k] = h[k - 1]
      BY <2>1, <2>3, <1>4
  <2>4. CASE \E v : h[k] = Pop(h[k - 1], v)
    <3>1. PICK v : h[k] = Pop(h[k - 1], v)
        BY <2>4
    <3>2. /\ AreStacks(src, h[k])
          /\ ValuesOnly(h[k - 1]) => ValuesOnly(h[k])
        BY <2>1, <3>1, PopValues
    <3> QED
        BY <2>1, <3>2, <1>4
  <2> QED
      BY <2>2, <2>3, <2>4
<1>5. Good(n)
  <2> HIDE DEF Good
  <2>1. 0..n \subseteq Z
    <3> HIDE DEF Z
    <3> QED
        BY <1>1, <1>3, <1>4, UpTo
  <2> QED
      BY <1>1, <2>1
<1> QED
    BY <1>2, <1>5
-----------------------------------------------------------------------------
(***************************************************************************)
(* What the folds of the pass do to the operands.                          *)
(***************************************************************************)
\* A load or store of a local.
ScalarAccess(src, i) ==
    /\ i \in DOMAIN src.op
    /\ \/ src.op[i] = "load" /\ src.args[i][1] \in Scalars
       \/ src.op[i] = "store" /\ src.args[i][2] \in Scalars

\* Placing phis in reachable blocks.
LEMMA PlaceAllTidy ==
    ASSUME NEW src, BuiltByIRBuilder(src), NEW g, Derived(src, g), Tidy(g),
           NEW v \in StoredVariables(src), NEW s \in Seq(Blocks), IsInjective(s),
           \A b \in ToSet(s) :
               PhiOf(b, v) \notin ToSet(g.code[b]) /\ IsReachable(Graph(src), b)
    PROVE  /\ Tidy(PlaceAll(g, v, s))
           /\ Filled(src, g, {}) => Filled(src, PlaceAll(g, v, s), {})
           /\ AddressesOnly(src, g) => AddressesOnly(src, PlaceAll(g, v, s))
           /\ \A c \in Blocks : c \notin ToSet(s) => PlaceAll(g, v, s).code[c] = g.code[c]
<1> DEFINE n == Len(s)
<1>1. n \in Nat /\ DOMAIN s = 1..n /\ \A k \in 1..n : s[k] \in Blocks /\ s[k] \in ToSet(s)
    BY DEF ToSet
<1>2. \A k \in 1..n : PhiOf(s[k], v) \notin ToSet(g.code[s[k]]) /\ IsReachable(Graph(src), s[k])
    BY <1>1
<1>3. \A k, m \in 1..n : s[k] = s[m] => k = m
    BY <1>1 DEF IsInjective
<1> HIDE DEF n
<1>4. PICK h : /\ h[0] = g
               /\ \A k \in 1..n : h[k] = AddPhi(h[k - 1], s[k], v)
               /\ h[n] = PlaceAll(g, v, s)
  <2>1. Places(v, g, s, n)
      BY <1>1, PlaceSteps
  <2> QED
      BY <2>1 DEF Places
<1> DEFINE Good(k) ==
             /\ Derived(src, h[k]) /\ Tidy(h[k])
             /\ Filled(src, g, {}) => Filled(src, h[k], {})
             /\ AddressesOnly(src, g) => AddressesOnly(src, h[k])
             /\ \A c \in Blocks : c \notin ToSet(s) => h[k].code[c] = g.code[c]
             /\ \A m \in 1..n : m > k => h[k].code[s[m]] = g.code[s[m]]
           Z == {k \in 0..n : Good(k)}
<1>5. 0 \in Z
    BY <1>1, <1>4
<1>6. ASSUME NEW k \in 1..n, k - 1 \in Z PROVE k \in Z
  <2>1. Good(k - 1) /\ h[k] = AddPhi(h[k - 1], s[k], v) /\ s[k] \in Blocks /\ s[k] \in ToSet(s)
      BY <1>1, <1>4, <1>6
  <2>2. h[k - 1].code[s[k]] = g.code[s[k]]
      BY <2>1, <1>1
  <2>3. PhiOf(s[k], v) \notin ToSet(h[k - 1].code[s[k]]) /\ IsReachable(Graph(src), s[k])
      BY <2>2, <1>2
  <2>4. /\ Derived(src, h[k]) /\ Tidy(h[k])
        /\ Filled(src, h[k - 1], {}) => Filled(src, h[k], {})
        /\ AddressesOnly(src, h[k - 1]) => AddressesOnly(src, h[k])
        /\ \A c \in Blocks : c # s[k] => h[k].code[c] = h[k - 1].code[c]
    <3> DEFINE x == h[k - 1]
               b == s[k]
    <3>1. Derived(src, x) /\ Tidy(x) /\ b \in Blocks /\ h[k] = AddPhi(x, b, v)
        BY <2>1
    <3>2. PhiOf(b, v) \notin ToSet(x.code[b]) /\ IsReachable(Graph(src), b)
        BY <2>3
    <3> HIDE DEF x, b
    <3>3. /\ Derived(src, AddPhi(x, b, v))
          /\ \A c \in Blocks : c # b => AddPhi(x, b, v).code[c] = x.code[c]
        BY <3>1, <3>2, AddPhiDerived
    <3>4. /\ Tidy(AddPhi(x, b, v))
          /\ Filled(src, x, {}) => Filled(src, AddPhi(x, b, v), {})
          /\ AddressesOnly(src, x) => AddressesOnly(src, AddPhi(x, b, v))
        BY <3>1, <3>2, AddPhiTidy
    <3> QED
        BY <3>1, <3>3, <3>4 DEF x, b
  <2>5. \A c \in Blocks : c \notin ToSet(s) => h[k].code[c] = g.code[c]
      BY <2>1, <2>4
  <2>6. \A m \in 1..n : m > k => h[k].code[s[m]] = g.code[s[m]]
    <3> SUFFICES ASSUME NEW m \in 1..n, m > k PROVE h[k].code[s[m]] = g.code[s[m]]
        OBVIOUS
    <3>1. s[m] # s[k] /\ m > k - 1 /\ s[m] \in Blocks
        BY <1>1, <1>3
    <3>2. h[k - 1].code[s[m]] = g.code[s[m]]
        BY <3>1, <2>1
    <3> QED
        BY <3>1, <3>2, <2>4
  <2> QED
      BY <2>1, <2>4, <2>5, <2>6
<1>7. Good(n)
  <2> HIDE DEF Good
  <2>1. 0..n \subseteq Z
    <3> HIDE DEF Z
    <3> QED
        BY <1>1, <1>5, <1>6, UpTo
  <2> QED
      BY <1>1, <2>1
<1> QED
    BY <1>4, <1>7

\* The deletions of step 7, of instructions of the source.
LEMMA DeleteAllTidy ==
    ASSUME NEW src, BuiltByIRBuilder(src), NEW g, Derived(src, g), Tidy(g), NEW b \in Blocks,
           NEW S, NEW s \in Seq(S), ToSet(s) \subseteq ToSet(src.code[b])
    PROVE  /\ Tidy(DeleteAll(g, b, s))
           /\ \A R : Filled(src, g, R) => Filled(src, DeleteAll(g, b, s), R)
           /\ AddressesOnly(src, g) => AddressesOnly(src, DeleteAll(g, b, s))
           /\ ToSet(DeleteAll(g, b, s).code[b]) = ToSet(g.code[b]) \ ToSet(s)
<1> DEFINE n == Len(s)
<1>1. n \in Nat /\ DOMAIN s = 1..n /\ \A k \in 1..n : s[k] \in ToSet(src.code[b])
    BY DEF ToSet
<1> HIDE DEF n
<1>2. PICK h : /\ h[0] = g
               /\ \A k \in 1..n : h[k] = DeleteInstr(h[k - 1], b, s[k])
               /\ h[n] = DeleteAll(g, b, s)
  <2>1. Deletes(b, g, s, n)
      BY <1>1, DeleteSteps
  <2> QED
      BY <2>1 DEF Deletes
<1> DEFINE gone(k) == {s[m] : m \in 1..k}
           Good(k) == /\ Derived(src, h[k]) /\ Tidy(h[k])
                      /\ \A R : Filled(src, g, R) => Filled(src, h[k], R)
                      /\ AddressesOnly(src, g) => AddressesOnly(src, h[k])
                      /\ ToSet(h[k].code[b]) = ToSet(g.code[b]) \ gone(k)
           Z == {k \in 0..n : Good(k)}
<1>3. 0 \in Z
  <2>1. gone(0) = {}
      OBVIOUS
  <2> HIDE DEF gone
  <2> QED
      BY <2>1, <1>1, <1>2
<1>4. ASSUME NEW k \in 1..n, k - 1 \in Z PROVE k \in Z
  <2>1. Good(k - 1) /\ h[k] = DeleteInstr(h[k - 1], b, s[k]) /\ s[k] \in ToSet(src.code[b])
    <3> HIDE DEF Good
    <3> QED
        BY <1>1, <1>2, <1>4
  <2>2. gone(k) = gone(k - 1) \cup {s[k]}
    <3>1. \A m \in 1..k : m \in 1..(k - 1) \/ m = k
        BY <1>1
    <3>2. k \in 1..k /\ \A m \in 1..(k - 1) : m \in 1..k
        BY <1>1
    <3> QED
        BY <3>1, <3>2
  <2> DEFINE x == h[k - 1]
             i == s[k]
  <2>3. /\ Derived(src, x) /\ Tidy(x) /\ i \in ToSet(src.code[b]) /\ h[k] = DeleteInstr(x, b, i)
        /\ \A R : Filled(src, g, R) => Filled(src, x, R)
        /\ AddressesOnly(src, g) => AddressesOnly(src, x)
        /\ ToSet(x.code[b]) = ToSet(g.code[b]) \ gone(k - 1)
      BY <2>1
  <2> HIDE DEF x, i, gone
  <2>4. Derived(src, h[k]) /\ ToSet(h[k].code[b]) = ToSet(x.code[b]) \ {i}
      BY <2>3, DeleteDerived
  <2>5. /\ Tidy(h[k]) /\ \A R : Filled(src, x, R) => Filled(src, h[k], R)
        /\ AddressesOnly(src, x) => AddressesOnly(src, h[k])
      BY <2>3, DeleteTidy
  <2>6. ToSet(h[k].code[b]) = ToSet(g.code[b]) \ gone(k)
      BY <2>2, <2>3, <2>4 DEF i
  <2>7. Good(k)
      BY <2>3, <2>4, <2>5, <2>6
  <2> HIDE DEF Good
  <2> QED
      BY <2>7
<1>5. Good(n)
  <2> HIDE DEF Good
  <2>1. 0..n \subseteq Z
    <3> HIDE DEF Z
    <3> QED
        BY <1>1, <1>3, <1>4, UpTo
  <2> QED
      BY <1>1, <2>1
<1>6. gone(n) = ToSet(s)
    BY <1>1 DEF ToSet
<1> QED
    BY <1>2, <1>5, <1>6

\* Steps 4 and 5 for one instruction.
LEMMA RenameStepTidy ==
    ASSUME NEW src, BuiltByIRBuilder(src), NEW g, NEW r, IsRenaming(src, g, r), Tidy(r.f),
           NEW b \in Blocks, NEW i \in ToSet(g.code[b])
    PROVE  LET q == RenameInstr(r, i)
           IN  /\ Tidy(q.f)
               /\ \A R : Filled(src, r.f, R) => Filled(src, q.f, R)
               /\ AddressesOnly(src, r.f) /\ ValuesOnly(r.stack)
                    => AddressesOnly(src, q.f) /\ ValuesOnly(q.stack)
               /\ DOMAIN r.stack \subseteq DOMAIN q.stack
               /\ \/ ToSet(q.delete) = ToSet(r.delete)
                  \/ ToSet(q.delete) = ToSet(r.delete) \cup {i} /\ i \in ToSet(src.code[b])
               /\ i \in DOMAIN src.op /\ src.op[i] = "store" /\ Promoted(src.args[i][2])
                    => src.args[i][2] \in DOMAIN q.stack /\ i \in ToSet(q.delete)
               /\ i \in DOMAIN src.op /\ src.op[i] = "load" /\ Promoted(src.args[i][1])
                    => (src.args[i][1] \in DOMAIN r.stack => i \in ToSet(q.delete))
<1> DEFINE v == Last(r.f.args[i])
           q == RenameInstr(r, i)
<1>0. q = RenameInstr(r, i)
    OBVIOUS
<1>1. DOMAIN r = {"f", "stack", "delete"} /\ Derived(src, r.f) /\ r.f.code = g.code
      /\ AreStacks(src, r.stack) /\ r.delete \in Seq(Instructions(src))
    BY DEF IsRenaming
<1>2. i \in ToSet(r.f.code[b])
    BY <1>1
<1>3. /\ i \in DOMAIN r.f.op /\ i \in DOMAIN r.f.args /\ i \in Instructions(src)
      /\ IsPhi(i) => i \notin DOMAIN src.op /\ r.f.op[i] = "phi"
      /\ ~IsPhi(i) => /\ i \in DOMAIN src.op /\ i \in ToSet(src.code[b]) /\ r.f.op[i] = src.op[i]
                      /\ src.op[i] = "load" => v = src.args[i][1]
                      /\ src.op[i] = "store" => v = src.args[i][2]
    BY <1>1, <1>2, CodeHome, CodeKinds
<1>4. /\ Append(r.delete, i) \in Seq(Instructions(src))
      /\ ToSet(Append(r.delete, i)) = ToSet(r.delete) \cup {i}
    BY <1>1, <1>3, AppendSet
<1>5. CASE r.f.op[i] = "load" /\ Promoted(v) /\ v \in DOMAIN r.stack
  <2> DEFINE x == Back(r.stack, v)
             p == ReplaceAllUseWith(r.f, i, x)
  <2>1. q = [r EXCEPT !.f = p, !.delete = Append(r.delete, i)]
      BY <1>1, <1>5, SMTT(30) DEF RenameInstr
  <2>2. /\ Tidy(p) /\ \A R : Filled(src, r.f, R) => Filled(src, p, R)
        /\ x \notin Scalars /\ AddressesOnly(src, r.f) => AddressesOnly(src, p)
    <3> HIDE DEF x
    <3> QED
        BY <1>1, <1>3, ReplaceTidy
  <2>3. ValuesOnly(r.stack) => x \notin Scalars
      BY <1>1, BackValue
  <2>4. ~IsPhi(i) /\ i \in ToSet(src.code[b]) /\ src.op[i] # "store"
      BY <1>3, <1>5
  <2> HIDE DEF x, p, q
  <2>5. q.f = p /\ q.stack = r.stack /\ q.delete = Append(r.delete, i)
      BY <2>1, <1>1, SMTT(30)
  <2>6. AddressesOnly(src, r.f) /\ ValuesOnly(r.stack) => AddressesOnly(src, p)
      BY <2>2, <2>3
  <2>7. ToSet(q.delete) = ToSet(r.delete) \cup {i} /\ i \in ToSet(src.code[b])
      BY <2>4, <2>5, <1>4
  <2>8. Tidy(q.f) /\ \A R : Filled(src, r.f, R) => Filled(src, q.f, R)
      BY <2>2, <2>5
  <2>9. /\ AddressesOnly(src, r.f) /\ ValuesOnly(r.stack)
             => AddressesOnly(src, q.f) /\ ValuesOnly(q.stack)
        /\ DOMAIN r.stack \subseteq DOMAIN q.stack
      BY <2>5, <2>6
  <2> HIDE DEF v
  <2> QED
      BY <2>4, <2>7, <2>8, <2>9, <1>0
<1>6. CASE r.f.op[i] = "store" /\ Promoted(v)
  <2> DEFINE x == r.f.args[i][1]
             p == Push(r.stack, v, x)
  <2>1. q = [r EXCEPT !.stack = p, !.delete = Append(r.delete, i)]
      BY <1>1, <1>6, SMTT(30) DEF RenameInstr
  <2>2. /\ ~IsPhi(i) /\ i \in ToSet(src.code[b]) /\ i \in DOMAIN src.op /\ src.op[i] = "store"
        /\ v = src.args[i][2]
      BY <1>3, <1>6
  <2>3. AddressesOnly(src, r.f) => x \notin Scalars
    <3>1. r.f.args[i] = <<r.f.args[i][1], src.args[i][2]>>
        BY <2>2, <1>1, <1>6 DEF Derived, KeepsOperands, KeepsAccesses
    <3>2. 1 \in DOMAIN r.f.args[i]
      <4> DEFINE y == r.f.args[i][1]
                 z == src.args[i][2]
      <4>1. r.f.args[i] = <<y, z>>
          BY <3>1
      <4> HIDE DEF y, z
      <4> QED
          BY <4>1
    <3>3. ~IsAddress(src, i, 1)
        BY <2>2 DEF IsAddress
    <3> QED
        BY <3>2, <3>3, <1>2 DEF AddressesOnly
  <2> HIDE DEF x, q, v
  <2>4. /\ DOMAIN p = DOMAIN r.stack \cup {v}
        /\ ValuesOnly(r.stack) /\ x \notin Scalars => ValuesOnly(p)
      BY <1>1, PushValues
  <2> HIDE DEF p
  <2>5. q.f = r.f /\ q.stack = p /\ q.delete = Append(r.delete, i)
      BY <2>1, <1>1, SMTT(30)
  <2>7. ToSet(q.delete) = ToSet(r.delete) \cup {i} /\ i \in ToSet(src.code[b])
      BY <2>2, <2>5, <1>4
  <2>8. Tidy(q.f) /\ \A R : Filled(src, r.f, R) => Filled(src, q.f, R)
      BY <2>5
  <2>9. /\ AddressesOnly(src, r.f) /\ ValuesOnly(r.stack)
             => AddressesOnly(src, q.f) /\ ValuesOnly(q.stack)
        /\ DOMAIN r.stack \subseteq DOMAIN q.stack /\ src.args[i][2] \in DOMAIN q.stack
      BY <2>2, <2>3, <2>4, <2>5
  <2> QED
      BY <2>2, <2>7, <2>8, <2>9, <1>0
<1>7. CASE /\ ~(r.f.op[i] = "load" /\ Promoted(v) /\ v \in DOMAIN r.stack)
           /\ ~(r.f.op[i] = "store" /\ Promoted(v))
  <2>1. q = r
      BY <1>7 DEF RenameInstr
  <2>2. i \in DOMAIN src.op => ~IsPhi(i)
      BY InstructionKinds
  <2>3. /\ ~(i \in DOMAIN src.op /\ src.op[i] = "store" /\ Promoted(src.args[i][2]))
        /\ ~(i \in DOMAIN src.op /\ src.op[i] = "load" /\ Promoted(src.args[i][1])
               /\ src.args[i][1] \in DOMAIN r.stack)
      BY <2>2, <1>3, <1>7
  <2> HIDE DEF v, q
  <2>4. Tidy(q.f) /\ \A R : Filled(src, r.f, R) => Filled(src, q.f, R)
      BY <2>1
  <2>5. /\ AddressesOnly(src, r.f) /\ ValuesOnly(r.stack)
             => AddressesOnly(src, q.f) /\ ValuesOnly(q.stack)
        /\ DOMAIN r.stack \subseteq DOMAIN q.stack /\ ToSet(q.delete) = ToSet(r.delete)
      BY <2>1
  <2> QED
      BY <2>3, <2>4, <2>5, <1>0
<1> QED
    BY <1>5, <1>6, <1>7

\* Every access to a local in the list s finds a stack: one there already, or one
\* that a store ahead of it makes.
ReadyFor(src, stack, s) ==
    \A k \in DOMAIN s : ScalarAccess(src, s[k]) =>
        IF src.op[s[k]] = "store" THEN Promoted(src.args[s[k]][2])
        ELSE /\ Promoted(src.args[s[k]][1])
             /\ \/ src.args[s[k]][1] \in DOMAIN stack
                \/ \E j \in DOMAIN s :
                     /\ j < k /\ s[j] \in DOMAIN src.op /\ src.op[s[j]] = "store"
                     /\ src.args[s[j]][2] = src.args[s[k]][1]

\* Steps 4 and 5 for a block: each access to a local waits for its deletion.
LEMMA RenameAllTidy ==
    ASSUME NEW src, BuiltByIRBuilder(src), NEW g, Derived(src, g), Tidy(g), NEW b \in Blocks,
           NEW stack, AreStacks(src, stack)
    PROVE  LET r == RenameAll([f |-> g, stack |-> stack, delete |-> <<>>], g.code[b])
           IN  /\ Tidy(r.f) /\ \A R : Filled(src, g, R) => Filled(src, r.f, R)
               /\ AddressesOnly(src, g) /\ ValuesOnly(stack)
                    => AddressesOnly(src, r.f) /\ ValuesOnly(r.stack)
               /\ ToSet(r.delete) \subseteq ToSet(src.code[b])
               /\ DOMAIN stack \subseteq DOMAIN r.stack
               /\ ReadyFor(src, stack, g.code[b])
                    => \A i \in ToSet(g.code[b]) : ScalarAccess(src, i) => i \in ToSet(r.delete)
<1> DEFINE base == [f |-> g, stack |-> stack, delete |-> <<>>]
           s == g.code[b]
           n == Len(s)
<1>1. /\ n \in Nat /\ DOMAIN s = 1..n /\ \A k \in 1..n : s[k] \in ToSet(g.code[b])
    BY CodeList
<1>2. IsRenaming(src, g, base) /\ base.stack = stack /\ base.f = g /\ base.delete = <<>>
    BY DEF IsRenaming
<1>3. PICK h : /\ h[0] = base
               /\ \A k \in 1..n : h[k] = RenameInstr(h[k - 1], s[k])
               /\ h[n] = RenameAll(base, s)
  <2> HIDE DEF s, n, base
  <2>1. Renames(base, s, n)
      BY <1>1, RenameSteps
  <2> QED
      BY <2>1 DEF Renames
<1> DEFINE Kept(x) ==
             /\ IsRenaming(src, g, x) /\ Tidy(x.f)
             /\ \A R : Filled(src, g, R) => Filled(src, x.f, R)
             /\ AddressesOnly(src, g) /\ ValuesOnly(stack)
                  => AddressesOnly(src, x.f) /\ ValuesOnly(x.stack)
             /\ ToSet(x.delete) \subseteq ToSet(src.code[b])
             /\ DOMAIN stack \subseteq DOMAIN x.stack
           Stored(k) ==
             \A j \in 1..k :
                s[j] \in DOMAIN src.op /\ src.op[s[j]] = "store" /\ Promoted(src.args[s[j]][2])
                  => src.args[s[j]][2] \in DOMAIN h[k].stack
           Waits(k) ==
             ReadyFor(src, stack, s) =>
                \A j \in 1..k : ScalarAccess(src, s[j]) => s[j] \in ToSet(h[k].delete)
           Z == {k \in 0..n : Kept(h[k]) /\ Stored(k) /\ Waits(k)}
<1> HIDE DEF base
<1>4. 0 \in Z
  <2>1. ToSet(<<>>) = {} /\ 1..0 = {} /\ 0 \in 0..n
      BY <1>1 DEF ToSet
  <2>2. Kept(h[0])
      BY <2>1, <1>2, <1>3
  <2> HIDE DEF Kept
  <2> QED
      BY <2>1, <2>2
<1>5. ASSUME NEW k \in 1..n, k - 1 \in Z PROVE k \in Z
  <2> DEFINE x == h[k - 1]
             y == h[k]
             i == s[k]
  <2>1. /\ Kept(x) /\ Stored(k - 1) /\ Waits(k - 1)
    <3> HIDE DEF Kept, Stored, Waits
    <3> QED
        BY <1>5
  <2>2. y = RenameInstr(x, i) /\ i \in ToSet(g.code[b])
      BY <1>1, <1>3
  <2>3. k \in Nat /\ k - 1 \in Nat /\ k \in 1..k /\ \A j \in 1..k : j \in 1..(k - 1) \/ j = k
      BY <1>1
  <2>4. IsRenaming(src, g, x) /\ Tidy(x.f)
      BY <2>1
  <2> HIDE DEF x, y, i, s, n
  <2>5. IsRenaming(src, g, y)
      BY <2>2, <2>4, RenameStep
  <2>6. /\ Tidy(y.f)
        /\ \A R : Filled(src, x.f, R) => Filled(src, y.f, R)
        /\ AddressesOnly(src, x.f) /\ ValuesOnly(x.stack)
             => AddressesOnly(src, y.f) /\ ValuesOnly(y.stack)
        /\ DOMAIN x.stack \subseteq DOMAIN y.stack
        /\ \/ ToSet(y.delete) = ToSet(x.delete)
           \/ ToSet(y.delete) = ToSet(x.delete) \cup {i} /\ i \in ToSet(src.code[b])
        /\ i \in DOMAIN src.op /\ src.op[i] = "store" /\ Promoted(src.args[i][2])
             => src.args[i][2] \in DOMAIN y.stack /\ i \in ToSet(y.delete)
        /\ i \in DOMAIN src.op /\ src.op[i] = "load" /\ Promoted(src.args[i][1])
             => (src.args[i][1] \in DOMAIN x.stack => i \in ToSet(y.delete))
      BY <2>2, <2>4, RenameStepTidy
  <2>7. Kept(y)
    <3>1. \A R : Filled(src, g, R) => Filled(src, y.f, R)
        BY <2>1, <2>6
    <3>2. ToSet(y.delete) \subseteq ToSet(src.code[b]) /\ DOMAIN stack \subseteq DOMAIN y.stack
        BY <2>1, <2>6
    <3>3. AddressesOnly(src, g) /\ ValuesOnly(stack)
             => AddressesOnly(src, y.f) /\ ValuesOnly(y.stack)
        BY <2>1, <2>6
    <3> QED
        BY <2>5, <2>6, <3>1, <3>2, <3>3
  <2>8. Stored(k)
    <3> SUFFICES ASSUME NEW j \in 1..k, s[j] \in DOMAIN src.op, src.op[s[j]] = "store",
                        Promoted(src.args[s[j]][2])
                 PROVE  src.args[s[j]][2] \in DOMAIN y.stack
        BY DEF y
    <3>1. CASE j = k
        BY <3>1, <2>6 DEF i
    <3>2. CASE j \in 1..(k - 1)
      <4>1. src.args[s[j]][2] \in DOMAIN x.stack
          BY <3>2, <2>1 DEF x
      <4> QED
          BY <4>1, <2>6
    <3> QED
        BY <3>1, <3>2, <2>3
  <2>9. Waits(k)
    <3> SUFFICES ASSUME ReadyFor(src, stack, s), NEW j \in 1..k, ScalarAccess(src, s[j])
                 PROVE  s[j] \in ToSet(y.delete)
        BY DEF y
    <3>1. CASE j \in 1..(k - 1)
      <4>1. s[j] \in ToSet(x.delete)
          BY <3>1, <2>1 DEF x
      <4> QED
          BY <4>1, <2>6
    <3>2. CASE j = k
      <4>1. i \in DOMAIN src.op /\ src.op[i] \in {"load", "store"} /\ k \in DOMAIN s
          BY <3>2, <1>1 DEF ScalarAccess, i
      <4>2. CASE src.op[i] = "store"
        <5>1. Promoted(src.args[i][2])
            BY <3>2, <4>1, <4>2 DEF ReadyFor, i
        <5> QED
            BY <3>2, <4>1, <4>2, <5>1, <2>6 DEF i
      <4>3. CASE src.op[i] = "load"
        <5>1. /\ Promoted(src.args[i][1])
              /\ \/ src.args[i][1] \in DOMAIN stack
                 \/ \E m \in DOMAIN s :
                      /\ m < k /\ s[m] \in DOMAIN src.op /\ src.op[s[m]] = "store"
                      /\ src.args[s[m]][2] = src.args[i][1]
            BY <3>2, <4>1, <4>3 DEF ReadyFor, i
        <5>2. src.args[i][1] \in DOMAIN x.stack
          <6>1. CASE src.args[i][1] \in DOMAIN stack
              BY <6>1, <2>1
          <6>2. CASE \E m \in DOMAIN s :
                       /\ m < k /\ s[m] \in DOMAIN src.op /\ src.op[s[m]] = "store"
                       /\ src.args[s[m]][2] = src.args[i][1]
            <7>1. PICK m \in 1..n : /\ m < k /\ s[m] \in DOMAIN src.op /\ src.op[s[m]] = "store"
                                    /\ src.args[s[m]][2] = src.args[i][1]
                BY <6>2, <1>1
            <7>2. m \in 1..(k - 1)
                BY <7>1, <2>3, <1>1
            <7>3. src.args[s[m]][2] \in DOMAIN x.stack
                BY <5>1, <7>1, <7>2, <2>1 DEF x
            <7> QED
                BY <7>1, <7>3
          <6> QED
              BY <5>1, <6>1, <6>2
        <5> QED
            BY <3>2, <4>1, <4>3, <5>1, <5>2, <2>6 DEF i
      <4> QED
          BY <4>1, <4>2, <4>3
    <3> QED
        BY <3>1, <3>2, <2>3
  <2> HIDE DEF Kept, Stored, Waits
  <2>10. k \in 0..n
      BY <1>1
  <2> QED
      BY <2>7, <2>8, <2>9, <2>10 DEF y
<1>6. Kept(h[n]) /\ Waits(n)
  <2> HIDE DEF Kept, Stored, Waits, s, n
  <2>1. 0..n \subseteq Z
    <3> HIDE DEF Z
    <3> QED
        BY <1>1, <1>4, <1>5, UpTo
  <2> QED
      BY <1>1, <2>1
<1>7. ReadyFor(src, stack, s) =>
         \A i \in ToSet(s) : ScalarAccess(src, i) => i \in ToSet(h[n].delete)
  <2> SUFFICES ASSUME ReadyFor(src, stack, s), NEW i \in ToSet(s), ScalarAccess(src, i)
               PROVE  i \in ToSet(h[n].delete)
      OBVIOUS
  <2>1. PICK j \in 1..n : i = s[j]
      BY <1>1 DEF ToSet
  <2> HIDE DEF s, n
  <2> QED
      BY <2>1, <1>6
<1> DEFINE r == RenameAll(base, s)
<1> HIDE DEF s, n
<1>8. /\ Tidy(r.f) /\ \A R : Filled(src, g, R) => Filled(src, r.f, R)
      /\ AddressesOnly(src, g) /\ ValuesOnly(stack)
           => AddressesOnly(src, r.f) /\ ValuesOnly(r.stack)
      /\ ToSet(r.delete) \subseteq ToSet(src.code[b])
      /\ DOMAIN stack \subseteq DOMAIN r.stack
    BY <1>3, <1>6
<1>9. ReadyFor(src, stack, s) =>
         \A i \in ToSet(s) : ScalarAccess(src, i) => i \in ToSet(r.delete)
    BY <1>3, <1>7
<1> QED
    BY <1>8, <1>9 DEF s, base

\* Step 6 for a block: each phi behind it whose variable has a stack gets a pair
\* for the block.
LEMMA FillAllFilled ==
    ASSUME NEW src, BuiltByIRBuilder(src), NEW g, Derived(src, g), Tidy(g), NEW b \in Blocks,
           NEW stack,
           NEW s \in Seq(PhisToFill(g, stack, b)), IsInjective(s),
           ToSet(s) = PhisToFill(g, stack, b)
    PROVE  LET r == FillAll(g, stack, b, s)
           IN  /\ Tidy(r)
               /\ AddressesOnly(src, g) /\ (\A v : Back(stack, v) \notin Scalars)
                    => AddressesOnly(src, r)
               /\ \A R : Filled(src, g, R) /\ b \notin R /\ StoredVariables(src) \subseteq DOMAIN stack
                    => Filled(src, r, R \cup {b})
<1> DEFINE p == <<stack, b>>
           n == Len(s)
           fill == PhisToFill(g, stack, b)
<1>1. p[1] = stack /\ p[2] = b
    OBVIOUS
<1>2. /\ n \in Nat /\ DOMAIN s = 1..n /\ \A k \in 1..n : s[k] \in fill
      /\ \A k, m \in 1..n : s[k] = s[m] => k = m
      /\ \A i \in fill : \E k \in 1..n : s[k] = i
    BY DEF IsInjective, ToSet
<1> HIDE DEF p, n, fill
<1>3. \A k \in 1..n : s[k] \notin DOMAIN src.op /\ \E c \in Blocks : s[k] \in PhisIn(g, c)
  <2>1. \A i \in fill : i \notin DOMAIN src.op
      BY PhisToFillType DEF fill
  <2>2. \A i \in fill : \E c \in Graph(g)[b] : i \in PhisIn(g, c)
      BY DEF fill, PhisToFill
  <2>3. Graph(g)[b] \subseteq Blocks
      BY GraphDerived
  <2> QED
      BY <2>1, <2>2, <2>3, <1>2
<1>4. PICK h : /\ h[0] = g
               /\ \A k \in 1..n : h[k] = FillPhi(h[k - 1], p[1], p[2], s[k])
               /\ h[n] = FillAll(g, p[1], p[2], s)
  <2>1. Fills(p, g, s, n)
      BY <1>2, FillSteps
  <2> QED
      BY <2>1 DEF Fills
<1> DEFINE done(k) == {s[m] : m \in 1..k}
           Grown(k) ==
             \A c \in Blocks : \A j \in PhisIn(g, c) :
                IF j \in done(k)
                THEN /\ Len(h[k].args[j]) = Len(g.args[j]) + 2
                     /\ SecondsOf(h[k].args[j]) = SecondsOf(g.args[j]) \cup {Label(b)}
                ELSE h[k].args[j] = g.args[j]
           Clean(x) == AddressesOnly(src, g) /\ (\A v : Back(stack, v) \notin Scalars)
                         => AddressesOnly(src, x)
           Good(x) == Derived(src, x) /\ Tidy(x) /\ x.code = g.code /\ Clean(x)
           Z == {k \in 0..n : Good(h[k]) /\ Grown(k)}
<1>5. 0 \in Z
  <2>1. done(0) = {} /\ 0 \in 0..n
      BY <1>2
  <2> HIDE DEF done
  <2>2. Good(h[0]) /\ Grown(0)
      BY <1>4, <2>1
  <2> HIDE DEF Good, Grown
  <2> QED
      BY <2>1, <2>2
<1>6. ASSUME NEW k \in 1..n, k - 1 \in Z PROVE k \in Z
  <2> DEFINE x == h[k - 1]
             y == h[k]
             i == s[k]
  <2>1. Good(x) /\ Grown(k - 1)
    <3> HIDE DEF Good, Grown
    <3> QED
        BY <1>6
  <2>2. y = FillPhi(x, stack, b, i)
      BY <1>1, <1>4
  <2>3. PICK c \in Blocks : i \in PhisIn(g, c)
      BY <1>3
  <2>4. i \notin DOMAIN src.op
      BY <1>3
  <2>5. /\ k \in 0..n /\ k - 1 \in Nat /\ i \notin done(k - 1)
        /\ done(k) = done(k - 1) \cup {i}
    <3>1. k \in 0..n /\ k - 1 \in Nat /\ \A m \in 1..k : m \in 1..n /\ (m \in 1..(k - 1) \/ m = k)
        BY <1>2
    <3>2. \A m \in 1..(k - 1) : m \in 1..k /\ m # k /\ m \in 1..n
        BY <1>2
    <3>3. i \notin done(k - 1)
        BY <3>2, <1>2
    <3>4. k \in 1..k
        BY <1>2
    <3>5. done(k) = done(k - 1) \cup {i}
        BY <3>1, <3>2, <3>4
    <3> QED
        BY <3>1, <3>3, <3>5
  <2>6. /\ Derived(src, x) /\ Tidy(x) /\ x.code = g.code /\ Clean(x)
      BY <2>1
  <2> HIDE DEF x, y, i, done
  <2>7. i \in PhisIn(x, c)
      BY <2>3, <2>6 DEF PhisIn
  <2>8. /\ Tidy(y) /\ y.code = x.code
        /\ \A j \in DOMAIN x.args : j # i => y.args[j] = x.args[j]
        /\ Len(y.args[i]) = Len(x.args[i]) + 2
        /\ SecondsOf(y.args[i]) = SecondsOf(x.args[i]) \cup {Label(b)}
        /\ Back(stack, i[3]) \notin Scalars /\ AddressesOnly(src, x) => AddressesOnly(src, y)
    <3> DEFINE q == FillPhi(x, stack, b, i)
    <3>1. /\ Tidy(q) /\ q.code = x.code
          /\ \A j \in DOMAIN x.args : j # i => q.args[j] = x.args[j]
          /\ Len(q.args[i]) = Len(x.args[i]) + 2
          /\ SecondsOf(q.args[i]) = SecondsOf(x.args[i]) \cup {Label(b)}
          /\ Back(stack, i[3]) \notin Scalars /\ AddressesOnly(src, x) => AddressesOnly(src, q)
        BY <2>3, <2>6, <2>7, FillTidy
    <3> HIDE DEF q
    <3>2. y = q
        BY <2>2 DEF q
    <3> QED
        BY <3>1, <3>2
  <2>9. Derived(src, y)
      BY <2>2, <2>4, <2>6, FillDerived
  <2>10. Clean(y)
      BY <2>6, <2>8
  <2>11. Good(y)
      BY <2>6, <2>8, <2>9, <2>10
  <2>12. \A d \in Blocks : \A j \in PhisIn(g, d) : j \in DOMAIN x.args
    <3> SUFFICES ASSUME NEW d \in Blocks, NEW j \in PhisIn(g, d) PROVE j \in DOMAIN x.args
        OBVIOUS
    <3>1. j \in ToSet(x.code[d])
        BY <2>6 DEF PhisIn
    <3> QED
        BY <3>1, <2>6, CodeHome
  <2>13. Grown(k)
    <3> SUFFICES ASSUME NEW d \in Blocks, NEW j \in PhisIn(g, d)
                 PROVE  IF j \in done(k)
                        THEN /\ Len(y.args[j]) = Len(g.args[j]) + 2
                             /\ SecondsOf(y.args[j]) = SecondsOf(g.args[j]) \cup {Label(b)}
                        ELSE y.args[j] = g.args[j]
        BY DEF y
    <3>1. IF j \in done(k - 1)
          THEN /\ Len(x.args[j]) = Len(g.args[j]) + 2
               /\ SecondsOf(x.args[j]) = SecondsOf(g.args[j]) \cup {Label(b)}
          ELSE x.args[j] = g.args[j]
        BY <2>1 DEF x
    <3>2. CASE j = i
        BY <3>1, <3>2, <2>5, <2>8
    <3>3. CASE j # i
      <4>1. y.args[j] = x.args[j]
          BY <3>3, <2>8, <2>12
      <4> QED
          BY <4>1, <3>1, <3>3, <2>5
    <3> QED
        BY <3>2, <3>3
  <2> HIDE DEF Good, Grown
  <2> QED
      BY <2>5, <2>11, <2>13 DEF y
<1>7. Good(h[n]) /\ Grown(n)
  <2> HIDE DEF Good, Grown
  <2>1. 0..n \subseteq Z
    <3> HIDE DEF Z
    <3> QED
        BY <1>2, <1>5, <1>6, UpTo
  <2> QED
      BY <1>2, <2>1
<1>8. done(n) = fill
    BY <1>2
<1> DEFINE r == h[n]
<1>9. /\ Tidy(r) /\ Clean(r) /\ r.code = g.code
      /\ \A c \in Blocks : \A j \in PhisIn(g, c) :
            IF j \in fill
            THEN /\ Len(r.args[j]) = Len(g.args[j]) + 2
                 /\ SecondsOf(r.args[j]) = SecondsOf(g.args[j]) \cup {Label(b)}
            ELSE r.args[j] = g.args[j]
  <2> HIDE DEF done
  <2> QED
      BY <1>7, <1>8
<1> HIDE DEF r, done
<1>10. ASSUME NEW R, Filled(src, g, R), b \notin R, StoredVariables(src) \subseteq DOMAIN stack
       PROVE  Filled(src, r, R \cup {b})
  <2> DEFINE G == Graph(src)
             Q == R \cup {b}
  <2>1. G = Graph(g) /\ G \in CFGs /\ \A c \in Blocks : G[c] \subseteq Blocks
      BY GraphDerived
  <2> HIDE DEF Q, G
  <2> SUFFICES ASSUME NEW c \in Blocks, NEW i \in PhisIn(g, c)
               PROVE  /\ IsReachable(G, c)
                      /\ Len(r.args[i]) = 2 * Cardinality(PreBlocks(G, c) \cap Q)
                      /\ SecondsOf(r.args[i]) = LabelsOf(PreBlocks(G, c) \cap Q)
    <3>1. \A c \in Blocks : PhisIn(r, c) = PhisIn(g, c)
        BY <1>9 DEF PhisIn
    <3> QED
        BY <3>1 DEF Filled, Q, G
  <2> DEFINE old == PreBlocks(G, c) \cap R
             new == PreBlocks(G, c) \cap Q
  <2>2. /\ IsReachable(G, c) /\ Len(g.args[i]) = 2 * Cardinality(old)
        /\ SecondsOf(g.args[i]) = LabelsOf(old)
      BY <1>10 DEF Filled, G
  <2>3. i \in ToSet(g.code[c]) /\ IsPhi(i)
      BY DEF PhisIn
  <2>4. IsFiniteSet(old) /\ Cardinality(old) \in Nat
    <3>1. old \in SUBSET Blocks
        BY DEF PreBlocks
    <3>2. IsFiniteSet(old)
        BY <3>1, FS_Subset, BlocksAssumption DEF BlocksAssumption
    <3> QED
        BY <3>2, FS_CardinalityType
  <2>5. i \in fill <=> c \in G[b]
    <3>1. ASSUME c \in G[b] PROVE i \in fill
      <4>1. PICK v \in StoredVariables(src) : i = PhiOf(c, v) \/ \E d : i = PhiOf(d, v)
          BY <2>3, CodeHome
      <4>2. i[3] = v
          BY <4>1, InstructionKinds
      <4>3. i[3] \in DOMAIN stack
          BY <4>1, <4>2, <1>10
      <4> QED
          BY <3>1, <4>3, <2>1 DEF fill, PhisToFill
    <3>2. ASSUME i \in fill PROVE c \in G[b]
      <4>1. PICK d \in G[b] : i \in PhisIn(g, d)
          BY <3>2, <2>1 DEF fill, PhisToFill
      <4>2. d \in Blocks /\ i \in ToSet(g.code[d])
          BY <4>1, <2>1 DEF PhisIn
      <4>3. d = c
          BY <4>2, <2>3, CodeHome
      <4> QED
          BY <4>1, <4>3
    <3> QED
        BY <3>1, <3>2
  <2>6. CASE c \in G[b]
    <3>1. b \in PreBlocks(G, c) /\ new = old \cup {b} /\ b \notin old
        BY <2>6, <1>10 DEF PreBlocks, Q
    <3>2. Cardinality(new) = Cardinality(old) + 1
        BY <3>1, <2>4, FS_AddElement
    <3>3. LabelsOf(new) = LabelsOf(old) \cup {Label(b)}
        BY <3>1 DEF LabelsOf
    <3>4. /\ Len(r.args[i]) = Len(g.args[i]) + 2
          /\ SecondsOf(r.args[i]) = SecondsOf(g.args[i]) \cup {Label(b)}
        BY <2>5, <2>6, <1>9
    <3> HIDE DEF new, old
    <3>5. 2 * (Cardinality(old) + 1) = 2 * Cardinality(old) + 2
        BY <2>4
    <3>6. Len(r.args[i]) = 2 * Cardinality(new)
        BY <3>2, <3>4, <3>5, <2>2
    <3>7. SecondsOf(r.args[i]) = LabelsOf(new)
        BY <3>3, <3>4, <2>2
    <3> QED
        BY <3>6, <3>7, <2>2 DEF new
  <2>7. CASE c \notin G[b]
    <3>1. new = old
        BY <2>7 DEF PreBlocks, Q
    <3>2. r.args[i] = g.args[i]
        BY <2>5, <2>7, <1>9
    <3> QED
        BY <3>1, <3>2, <2>2
  <2> QED
      BY <2>6, <2>7
<1>11. r = FillAll(g, stack, b, s)
    BY <1>1, <1>4 DEF r
<1> QED
    BY <1>9, <1>10, <1>11

\* re_name(b) for the operands: a pair for each phi behind b, and each access to a
\* local of b waits for its deletion.
LEMMA RenameTidyEffect ==
    ASSUME BuiltByIRBuilder(source), Derived(source, f), Tidy(f),
           AreStacks(source, var_val_stack),
           NEW b \in Blocks, NEW below, Rename(b, below)
    PROVE  /\ Tidy(f') /\ f'.code = f.code
           /\ \E w \in Seq(Instructions(source)) :
                /\ frames' = Append(below, [bb |-> b, todo |-> Children(Graph(source), b),
                                            wait_delete |-> w])
                /\ ToSet(w) \subseteq ToSet(source.code[b])
                /\ ReadyFor(source, var_val_stack, f.code[b])
                     => \A i \in ToSet(f.code[b]) : ScalarAccess(source, i) => i \in ToSet(w)
           /\ AddressesOnly(source, f) /\ ValuesOnly(var_val_stack)
                => AddressesOnly(source, f') /\ ValuesOnly(var_val_stack')
           /\ \A R : /\ Filled(source, f, R) /\ b \notin R /\ control' = "rename"
                     /\ StoredVariables(source) \subseteq DOMAIN var_val_stack'
                     => Filled(source, f', R \cup {b})
<1> DEFINE pushed == PushAll(var_val_stack, f.code[b])
           renamed == RenameAll([f |-> f, stack |-> pushed, delete |-> <<>>], f.code[b])
           fill == PhisToFill(renamed.f, renamed.stack, b)
           fails == \E i \in fill : renamed.stack[i[3]] = <<>>
<1>1. /\ var_val_stack' = renamed.stack
      /\ frames' = Append(below, [bb |-> b, todo |-> Children(Graph(f), b),
                                  wait_delete |-> renamed.delete])
      /\ control' = IF fails THEN "aborted" ELSE "rename"
      /\ f' = IF fails THEN renamed.f
              ELSE FillAll(renamed.f, renamed.stack, b, SetToSeq(fill))
    BY RenameFolds
<1>2. /\ AreStacks(source, pushed) /\ DOMAIN var_val_stack \subseteq DOMAIN pushed
      /\ ValuesOnly(var_val_stack) => ValuesOnly(pushed)
    BY PushAllEffect, PushAllValues
<1> HIDE DEF pushed
<1>3. IsRenaming(source, f, renamed)
    BY <1>2, RenameAllEffect
<1>4. /\ Tidy(renamed.f) /\ \A R : Filled(source, f, R) => Filled(source, renamed.f, R)
      /\ AddressesOnly(source, f) /\ ValuesOnly(pushed)
           => AddressesOnly(source, renamed.f) /\ ValuesOnly(renamed.stack)
      /\ ToSet(renamed.delete) \subseteq ToSet(source.code[b])
      /\ ReadyFor(source, pushed, f.code[b])
           => \A i \in ToSet(f.code[b]) : ScalarAccess(source, i) => i \in ToSet(renamed.delete)
    BY <1>2, RenameAllTidy
<1>5. ReadyFor(source, var_val_stack, f.code[b]) => ReadyFor(source, pushed, f.code[b])
    BY <1>2 DEF ReadyFor
<1> HIDE DEF renamed
<1>6. /\ Derived(source, renamed.f) /\ renamed.f.code = f.code
      /\ AreStacks(source, renamed.stack) /\ renamed.delete \in Seq(Instructions(source))
    BY <1>3 DEF IsRenaming
<1> DEFINE s == SetToSeq(fill)
           x == renamed.f
           z == FillAll(x, renamed.stack, b, s)
<1>7. s \in Seq(fill) /\ IsInjective(s) /\ ToSet(s) = fill
  <2>1. IsFiniteSet(fill)
      BY <1>6, PhisToFillType
  <2> HIDE DEF fill
  <2> QED
      BY <2>1, SetToSeqOf
<1>8. /\ Tidy(z)
      /\ AddressesOnly(source, x) /\ (\A v : Back(renamed.stack, v) \notin Scalars)
           => AddressesOnly(source, z)
      /\ \A R : /\ Filled(source, x, R) /\ b \notin R
                /\ StoredVariables(source) \subseteq DOMAIN renamed.stack
                => Filled(source, z, R \cup {b})
  <2>1. Derived(source, x) /\ Tidy(x)
      BY <1>4, <1>6
  <2> HIDE DEF x, s
  <2>2. s \in Seq(PhisToFill(x, renamed.stack, b)) /\ ToSet(s) = PhisToFill(x, renamed.stack, b)
      BY <1>7 DEF x
  <2> QED
      BY <2>1, <2>2, <1>7, FillAllFilled
<1>9. f' = (IF fails THEN x ELSE z) /\ control' = IF fails THEN "aborted" ELSE "rename"
    BY <1>1
<1> HIDE DEF z, fails
<1>10. Tidy(f')
    BY <1>4, <1>8, <1>9
<1>11. f'.code = f.code
    BY RenameEffect
<1>12. ASSUME AddressesOnly(source, f), ValuesOnly(var_val_stack)
       PROVE  AddressesOnly(source, f') /\ ValuesOnly(var_val_stack')
  <2>1. AddressesOnly(source, x) /\ ValuesOnly(renamed.stack)
      BY <1>2, <1>4, <1>12
  <2>2. \A v : Back(renamed.stack, v) \notin Scalars
      BY <2>1, <1>6, BackValue
  <2> QED
      BY <2>1, <2>2, <1>1, <1>8, <1>9
<1>13. ASSUME NEW R, Filled(source, f, R), b \notin R, control' = "rename",
              StoredVariables(source) \subseteq DOMAIN var_val_stack'
       PROVE  Filled(source, f', R \cup {b})
  <2>1. Filled(source, x, R) /\ StoredVariables(source) \subseteq DOMAIN renamed.stack
      BY <1>1, <1>4, <1>13
  <2>2. Filled(source, z, R \cup {b})
      BY <2>1, <1>8, <1>13
  <2>3. ~fails
      BY <1>9, <1>13
  <2> QED
      BY <2>2, <2>3, <1>9
<1>14. Graph(f) = Graph(source)
    BY GraphDerived
<1> DEFINE w == renamed.delete
<1>15. /\ w \in Seq(Instructions(source))
       /\ frames' = Append(below, [bb |-> b, todo |-> Children(Graph(source), b),
                                   wait_delete |-> w])
       /\ ToSet(w) \subseteq ToSet(source.code[b])
       /\ ReadyFor(source, var_val_stack, f.code[b])
            => \A i \in ToSet(f.code[b]) : ScalarAccess(source, i) => i \in ToSet(w)
    BY <1>1, <1>4, <1>5, <1>6, <1>14
<1> HIDE DEF w
<1> QED
    BY <1>10, <1>11, <1>12, <1>13, <1>15
-----------------------------------------------------------------------------
(***************************************************************************)
(* The walk of re_name along the dominator tree.                           *)
(***************************************************************************)
\* The blocks of R have been entered, the calls F are active: what an active
\* call still has to do is not entered yet, and everything else is.
Walked(g, F, R) ==
    /\ Entry \in R
    /\ \A k \in DOMAIN F : /\ F[k].bb \in R /\ F[k].todo \cap R = {}
                           /\ Children(g, F[k].bb) \ F[k].todo \subseteq R
    /\ \A b \in R : Children(g, b) \subseteq R \/ \E k \in DOMAIN F : F[k].bb = b
    /\ \A c \in R \ {Entry} : \E p \in R : c \in Children(g, p)

\* A child is none of its own, and the entry is nobody's.
LEMMA ChildOfNone ==
    ASSUME NEW g \in CFGs, NEW b \in Blocks
    PROVE  b \notin Children(g, b) /\ Entry \notin Children(g, b) /\ Children(g, b) \subseteq Blocks
<1>1. Entry \in Blocks
    BY BlocksAssumption DEF BlocksAssumption
<1>2. \A a \in Blocks \ {Entry} : ~Dominates(g, a, Entry)
    BY <1>1, DominatesEntry
<1> QED
    BY <1>1, <1>2 DEF Children, StrictlyDominates

\* The first call is that of the entry.
LEMMA WalkStart ==
    ASSUME NEW g \in CFGs, NEW F, DOMAIN F = 1..1, F[1].bb = Entry, F[1].todo = Children(g, Entry)
    PROVE  Walked(g, F, {Entry})
<1>1. Entry \notin Children(g, Entry)
    BY ChildOfNone, BlocksAssumption DEF BlocksAssumption
<1>2. 1 \in DOMAIN F /\ \A k \in DOMAIN F : k = 1
    OBVIOUS
<1> QED
    BY <1>1, <1>2 DEF Walked

\* G is what the calls F become when the last of them, the n-th, calls its child c.
GoesOn(g, F, n, c, G) ==
    /\ DOMAIN G = 1..(n + 1)
    /\ \A k \in 1..n : /\ G[k].bb = F[k].bb
                       /\ G[k].todo = IF k = n THEN F[n].todo \ {c} ELSE F[k].todo
    /\ G[n + 1].bb = c /\ G[n + 1].todo = Children(g, c)

\* A call goes on to a child, which is not entered yet, and neither are its children.
LEMMA WalkChild ==
    ASSUME NEW g \in CFGs, NEW R \in SUBSET Blocks, NEW n \in Nat, NEW F, DOMAIN F = 1..n,
           n # 0, Len(F) = n, IsTreePath(g, F), Walked(g, F, R),
           NEW c \in F[n].todo, NEW G, GoesOn(g, F, n, c, G)
    PROVE  c \notin R /\ Walked(g, G, R \cup {c})
<1>0. /\ DOMAIN G = 1..(n + 1)
      /\ \A k \in 1..n : /\ G[k].bb = F[k].bb
                         /\ G[k].todo = IF k = n THEN F[n].todo \ {c} ELSE F[k].todo
      /\ G[n + 1].bb = c /\ G[n + 1].todo = Children(g, c)
    BY DEF GoesOn
<1>1. n \in 1..n /\ n + 1 \in 1..(n + 1) /\ (\A k \in 1..n : k \in 1..(n + 1))
      /\ \A k \in 1..(n + 1) : k \in 1..n \/ k = n + 1
    OBVIOUS
<1>2. /\ \A k \in 1..n : F[k].bb \in Blocks /\ F[k].todo \subseteq Children(g, F[k].bb)
      /\ \A k \in 1..n : k < n => StrictlyDominates(g, F[k].bb, F[n].bb)
    BY <1>1 DEF IsTreePath
<1>3. c \in Children(g, F[n].bb) /\ c \in Blocks /\ c \notin R
    BY <1>1, <1>2, ChildOfNone DEF Walked
<1>4. \A k \in 1..n : k # n => c \notin F[k].todo
  <2> SUFFICES ASSUME NEW k \in 1..n, k # n, c \in F[k].todo PROVE FALSE
      OBVIOUS
  <2>1. k < n /\ c \in Children(g, F[k].bb)
      BY <1>2
  <2>2. F[k].bb = F[n].bb
      BY <2>1, <1>1, <1>2, <1>3, OneParent
  <2> QED
      BY <2>1, <2>2, <1>2 DEF StrictlyDominates
<1>5. Children(g, c) \cap (R \cup {c}) = {}
  <2> SUFFICES ASSUME NEW d \in Children(g, c), d \in R \cup {c} PROVE FALSE
      OBVIOUS
  <2>1. d # c /\ d # Entry /\ d \in Blocks /\ d \in R
      BY <1>3, ChildOfNone
  <2>2. PICK p \in R : d \in Children(g, p)
      BY <2>1 DEF Walked
  <2>3. p = c
      BY <2>1, <2>2, <1>3, OneParent
  <2> QED
      BY <2>2, <2>3, <1>3
<1>6. ASSUME NEW k \in 1..(n + 1)
      PROVE  /\ G[k].bb \in R \cup {c} /\ G[k].todo \cap (R \cup {c}) = {}
             /\ Children(g, G[k].bb) \ G[k].todo \subseteq R \cup {c}
  <2>1. CASE k = n + 1
      BY <2>1, <1>0, <1>5
  <2>2. CASE k \in 1..n
    <3>1. /\ F[k].bb \in R /\ F[k].todo \cap R = {} /\ Children(g, F[k].bb) \ F[k].todo \subseteq R
        BY <2>2 DEF Walked
    <3> QED
        BY <3>1, <2>2, <1>0, <1>4
  <2> QED
      BY <2>1, <2>2, <1>1
<1>7. ASSUME NEW b \in R \cup {c}
      PROVE  Children(g, b) \subseteq R \cup {c} \/ \E k \in 1..(n + 1) : G[k].bb = b
  <2>1. CASE b = c
      BY <2>1, <1>0, <1>1
  <2>2. CASE b \in R
    <3>1. Children(g, b) \subseteq R \/ \E k \in 1..n : F[k].bb = b
        BY <2>2 DEF Walked
    <3> QED
        BY <3>1, <1>0, <1>1
  <2> QED
      BY <2>1, <2>2
<1>8. ASSUME NEW d \in (R \cup {c}) \ {Entry}
      PROVE  \E p \in R \cup {c} : d \in Children(g, p)
  <2>1. CASE d = c
    <3>1. F[n].bb \in R
        BY <1>1 DEF Walked
    <3> QED
        BY <2>1, <3>1, <1>3
  <2>2. CASE d \in R
      BY <2>2 DEF Walked
  <2> QED
      BY <2>1, <2>2
<1>9. Entry \in R \cup {c}
    BY DEF Walked
<1> QED
    BY <1>0, <1>3, <1>6, <1>7, <1>8, <1>9 DEF Walked

\* A call without a child left returns.
LEMMA WalkLeave ==
    ASSUME NEW g, NEW R, NEW n \in Nat, NEW F, DOMAIN F = 1..n, n # 0, Walked(g, F, R),
           F[n].todo = {}, NEW G, DOMAIN G = 1..(n - 1), \A k \in 1..(n - 1) : G[k] = F[k]
    PROVE  Walked(g, G, R)
<1>1. n \in 1..n /\ (\A k \in 1..(n - 1) : k \in 1..n) /\ \A k \in 1..n : k \in 1..(n - 1) \/ k = n
    OBVIOUS
<1>2. Children(g, F[n].bb) \subseteq R
    BY <1>1 DEF Walked
<1>3. ASSUME NEW b \in R
      PROVE  Children(g, b) \subseteq R \/ \E k \in 1..(n - 1) : G[k].bb = b
  <2>1. Children(g, b) \subseteq R \/ \E k \in 1..n : F[k].bb = b
      BY DEF Walked
  <2> QED
      BY <2>1, <1>1, <1>2
<1> QED
    BY <1>1, <1>3 DEF Walked

\* When the first call has returned, every reachable block has been entered.
LEMMA WalkEnd ==
    ASSUME NEW g \in CFGs, NEW R, NEW F, DOMAIN F = {}, Walked(g, F, R), NEW b \in Blocks,
           IsReachable(g, b)
    PROVE  b \in R
<1>1. Entry \in R /\ \A p \in R : Children(g, p) \subseteq R
    BY DEF Walked
<1> QED
    BY <1>1, TreeSpans
-----------------------------------------------------------------------------
(***************************************************************************)
(* What holds while the pass works on a function that StartsWithStores.    *)
(***************************************************************************)
\* The use lists and the phis are in order, and what waits for its deletion is of
\* its block.
UseInv ==
    /\ Tidy(f)
    /\ \A k \in DOMAIN frames : ToSet(frames[k].wait_delete) \subseteq ToSet(source.code[frames[k].bb])

\* The entry gets no phi, the blocks are entered along the dominator tree, and at
\* the end each reachable one has been.
WalkInv ==
    /\ control = "phi" => names = <<>> /\ f.code[Entry] = source.code[Entry]
    /\ control = "rename" => Walked(Graph(source), frames, DOMAIN names)
    /\ control \in {"alloca", "run"} =>
         /\ frames = <<>>
         /\ \A b \in Blocks : IsReachable(Graph(source), b) => b \in DOMAIN names

\* A phi has a pair for each predecessor that has been entered, and in those an
\* access to a local only waits for its deletion.
CompleteInv ==
    /\ control # "aborted"
    /\ Filled(source, f, DOMAIN names)
    /\ AddressesOnly(source, f) /\ ValuesOnly(var_val_stack)
    /\ \A b \in DOMAIN names : \A i \in ToSet(f.code[b]) :
         ScalarAccess(source, i) =>
            \E k \in DOMAIN frames : frames[k].bb = b /\ i \in ToSet(frames[k].wait_delete)

SSAInv == Inv /\ UseInv /\ WalkInv /\ CompleteInv

\* What StartsWithStores says of a place in a block.
LEMMA FirstStore ==
    ASSUME NEW src, BuiltByIRBuilder(src), StartsWithStores(src), NEW b \in Blocks,
           NEW k \in DOMAIN src.code[b], NEW n \in DOMAIN src.args[src.code[b][k]],
           src.args[src.code[b][k]][n] \in Scalars
    PROVE  LET i == src.code[b][k]
               v == src.args[i][n]
           IN  /\ IsAddress(src, i, n) /\ Promoted(v)
               /\ v \in StoredVariables(src) /\ Stores(src, v, Entry)
               /\ \E j \in DOMAIN src.code[Entry] :
                    /\ src.code[Entry][j] \in DOMAIN src.op
                    /\ src.op[src.code[Entry][j]] = "store" /\ src.args[src.code[Entry][j]][2] = v
                    /\ b = Entry /\ src.op[i] = "load" => j < k
<1> DEFINE i == src.code[b][k]
           v == src.args[i][n]
           first == src.code[Entry]
<1>0. Entry \in Blocks
    BY BlocksAssumption DEF BlocksAssumption
<1>1. IsAddress(src, i, n) /\ Promoted(v)
    BY DEF StartsWithStores
<1>2. PICK j \in DOMAIN first : /\ src.op[first[j]] = "store" /\ src.args[first[j]][2] = v
                                /\ b = Entry /\ src.op[i] = "load" => j < k
    BY DEF StartsWithStores
<1>3. first[j] \in ToSet(first) /\ first[j] \in DOMAIN src.op
  <2>1. first[j] \in ToSet(first)
      BY DEF ToSet
  <2> QED
      BY <2>1, <1>0, InstructionKinds
<1>4. v \in Memory
    BY DEF Memory
<1>5. Stores(src, v, Entry)
    BY <1>2, <1>3 DEF Stores
<1>6. v \in StoredVariables(src)
    BY <1>0, <1>1, <1>4, <1>5 DEF StoredVariables
<1> QED
    BY <1>1, <1>2, <1>3, <1>5, <1>6

\* Every variable that gets a stack is stored in the entry.
LEMMA StoredFirst ==
    ASSUME NEW src, BuiltByIRBuilder(src), StartsWithStores(src), NEW v \in StoredVariables(src)
    PROVE  Stores(src, v, Entry)
<1>1. PICK b \in Blocks : Stores(src, v, b)
    BY DEF StoredVariables
<1>2. PICK i \in ToSet(src.code[b]) : src.op[i] = "store" /\ src.args[i][2] = v
    BY <1>1 DEF Stores
<1>3. PICK k \in DOMAIN src.code[b] : src.code[b][k] = i
    BY <1>2 DEF ToSet
<1>4. v \in Scalars /\ i \in DOMAIN src.op
    BY <1>2, StoredScalars, InstructionKinds
<1>5. 2 \in DOMAIN src.args[i]
  <2>1. src.args[i] = <<src.args[i][1], src.args[i][2]>>
      BY <1>2, <1>4 DEF BuiltByIRBuilder
  <2>2. \A x, y : 2 \in DOMAIN <<x, y>>
      OBVIOUS
  <2> QED
      BY <2>1, <2>2, Zenon
<1> QED
    BY <1>2, <1>3, <1>4, <1>5, FirstStore

\* The operand a scalar access has for its variable.
LEMMA AccessOperand ==
    ASSUME NEW src, BuiltByIRBuilder(src), NEW i, ScalarAccess(src, i)
    PROVE  \E n \in DOMAIN src.args[i] :
             /\ src.args[i][n] \in Scalars
             /\ n = IF src.op[i] = "store" THEN 2 ELSE 1
<1>1. i \in DOMAIN src.op
    BY DEF ScalarAccess
<1>2. CASE src.op[i] = "store"
  <2>1. src.args[i] = <<src.args[i][1], src.args[i][2]>> /\ src.args[i][2] \in Scalars
      BY <1>1, <1>2 DEF BuiltByIRBuilder, ScalarAccess
  <2>2. \A x, y : 2 \in DOMAIN <<x, y>>
      OBVIOUS
  <2>3. 2 \in DOMAIN src.args[i]
      BY <2>1, <2>2, Zenon
  <2> QED
      BY <2>1, <2>3, <1>2
<1>3. CASE src.op[i] # "store"
  <2>1. src.op[i] = "load" /\ src.args[i] = <<src.args[i][1]>> /\ src.args[i][1] \in Scalars
      BY <1>1, <1>3 DEF BuiltByIRBuilder, ScalarAccess
  <2>2. \A x : 1 \in DOMAIN <<x>>
      OBVIOUS
  <2>3. 1 \in DOMAIN src.args[i]
      BY <2>1, <2>2, Zenon
  <2> QED
      BY <2>1, <2>3, <1>3
<1> QED
    BY <1>2, <1>3

\* So the accesses of a block find their stacks.
LEMMA AccessesReady ==
    ASSUME NEW src, BuiltByIRBuilder(src), StartsWithStores(src), NEW g, Derived(src, g),
           NEW b \in Blocks, NEW stack,
           \/ StoredVariables(src) \subseteq DOMAIN stack
           \/ b = Entry /\ g.code[Entry] = src.code[Entry]
    PROVE  ReadyFor(src, stack, g.code[b])
<1> DEFINE s == g.code[b]
<1> SUFFICES ASSUME NEW k \in DOMAIN s, ScalarAccess(src, s[k])
             PROVE  IF src.op[s[k]] = "store" THEN Promoted(src.args[s[k]][2])
                    ELSE /\ Promoted(src.args[s[k]][1])
                         /\ \/ src.args[s[k]][1] \in DOMAIN stack
                            \/ \E j \in DOMAIN s :
                                 /\ j < k /\ s[j] \in DOMAIN src.op /\ src.op[s[j]] = "store"
                                 /\ src.args[s[j]][2] = src.args[s[k]][1]
    BY DEF ReadyFor
<1> DEFINE i == s[k]
<1>1. i \in ToSet(s) /\ i \in DOMAIN src.op
    BY DEF ToSet, ScalarAccess
<1> HIDE DEF i
<1>2. i \in ToSet(src.code[b])
    BY <1>1, CodeHome DEF s
<1>3. PICK m \in DOMAIN src.code[b] : /\ src.code[b][m] = i
                                      /\ b = Entry /\ s = src.code[b] => m = k
  <2>1. CASE b = Entry /\ s = src.code[b]
      BY <2>1 DEF i
  <2>2. CASE ~(b = Entry /\ s = src.code[b])
      BY <1>2, <2>2 DEF ToSet
  <2> QED
      BY <2>1, <2>2
<1>4. PICK n \in DOMAIN src.args[i] : /\ src.args[i][n] \in Scalars
                                      /\ n = IF src.op[i] = "store" THEN 2 ELSE 1
    BY AccessOperand DEF i
<1> DEFINE v == src.args[i][n]
<1>5. /\ IsAddress(src, i, n) /\ Promoted(v) /\ v \in StoredVariables(src)
      /\ \E j \in DOMAIN src.code[Entry] :
           /\ src.code[Entry][j] \in DOMAIN src.op
           /\ src.op[src.code[Entry][j]] = "store" /\ src.args[src.code[Entry][j]][2] = v
           /\ b = Entry /\ src.op[i] = "load" => j < m
    BY <1>3, <1>4, FirstStore
<1>6. CASE src.op[i] = "store"
    BY <1>4, <1>5, <1>6 DEF i
<1>7. CASE src.op[i] # "store"
  <2>1. n = 1 /\ src.op[i] = "load"
      BY <1>4, <1>5, <1>7 DEF IsAddress
  <2>2. CASE StoredVariables(src) \subseteq DOMAIN stack
      BY <2>1, <2>2, <1>5, <1>7 DEF i
  <2>3. CASE b = Entry /\ g.code[Entry] = src.code[Entry]
    <3>1. m = k /\ s = src.code[Entry]
        BY <2>3, <1>3
    <3>2. PICK j \in DOMAIN src.code[Entry] :
             /\ src.code[Entry][j] \in DOMAIN src.op
             /\ src.op[src.code[Entry][j]] = "store" /\ src.args[src.code[Entry][j]][2] = v
             /\ j < m
        BY <2>1, <2>3, <1>5
    <3>3. j \in DOMAIN s /\ s[j] = src.code[Entry][j]
        BY <3>1
    <3> HIDE DEF s
    <3> QED
        BY <2>1, <3>1, <3>2, <3>3, <1>5, <1>7 DEF i
  <2> QED
      BY <2>2, <2>3
<1> QED
    BY <1>6, <1>7

\* While blocks are renamed every variable has a stack: the entry is on the path.
LEMMA StacksThere ==
    ASSUME NEW src, BuiltByIRBuilder(src), StartsWithStores(src), NEW g, Derived(src, g),
           ToSet(src.code[Entry]) \subseteq ToSet(g.code[Entry]),
           NEW F \in Seq(Frame(src)), IsTreePath(Graph(src), F),
           NEW stack, StacksHold(src, g.code, stack, F)
    PROVE  StoredVariables(src) \subseteq DOMAIN stack
<1> SUFFICES ASSUME NEW v \in StoredVariables(src), v \notin DOMAIN stack PROVE FALSE
    OBVIOUS
<1>1. PICK i \in ToSet(src.code[Entry]) : src.op[i] = "store" /\ src.args[i][2] = v
    BY StoredFirst DEF Stores
<1>2. ~IsPhi(i)
    BY InstructionKinds, BlocksAssumption DEF BlocksAssumption
<1> DEFINE n == Len(F)
<1>3. n \in Nat /\ DOMAIN F = 1..n /\ 1 \in 1..n
    BY DEF IsTreePath
<1>4. F[1].bb = Entry /\ \A k \in 1..n : F[k].bb \in Blocks
    BY DEF IsTreePath
<1>5. i \in Makes(src, g.code[F[1].bb], v)
    BY <1>1, <1>2, <1>4 DEF Makes
<1> HIDE DEF n
<1>6. Cardinality(Definitions(src, g.code, F, v)) # 0
    BY <1>3, <1>4, <1>5, SomeDefinition
<1>7. Depth(stack, v) = 0
    BY DEF Depth
<1> QED
    BY <1>6, <1>7 DEF StacksHold
-----------------------------------------------------------------------------
(***************************************************************************)
(* Each action keeps it.                                                   *)
(***************************************************************************)
\* The function given is of use, and has no phi.
LEMMA SSAInit ==
    ASSUME Init, StartsWithStores(source)
    PROVE  SSAInv
<1>1. Inv /\ BuiltByIRBuilder(source)
    BY InitInv, SourceBuilt DEF Init
<1>2. /\ f = source /\ control = "phi" /\ names = <<>> /\ frames = <<>> /\ var_val_stack = <<>>
    BY DEF Init
<1>3. Tidy(f) /\ \A b \in Blocks : PhisIn(f, b) = {}
    BY <1>1, <1>2, SourceTidy
<1>4. UseInv
    BY <1>2, <1>3 DEF UseInv
<1>5. WalkInv
    BY <1>2 DEF WalkInv
<1>6. AddressesOnly(source, f)
  <2> SUFFICES ASSUME NEW b \in Blocks, NEW i \in ToSet(source.code[b]), NEW n \in DOMAIN source.args[i],
                      source.args[i][n] \in Scalars
               PROVE  IsAddress(source, i, n)
      BY <1>2 DEF AddressesOnly
  <2>1. PICK k \in DOMAIN source.code[b] : source.code[b][k] = i
      BY DEF ToSet
  <2> QED
      BY <2>1, <1>1, FirstStore
<1>7. Filled(source, f, DOMAIN names)
    BY <1>3 DEF Filled
<1>8. CompleteInv
    BY <1>2, <1>6, <1>7 DEF CompleteInv, ValuesOnly
<1> QED
    BY <1>1, <1>4, <1>5, <1>8 DEF SSAInv

\* The next variable: the function stays as it is.
LEMMA SSANextVariable ==
    ASSUME SSAInv, NextVariable
    PROVE  UseInv' /\ WalkInv' /\ CompleteInv'
<1>1. UNCHANGED <<source, f, control, var_val_stack, frames, names>>
    BY DEF NextVariable
<1> QED
    BY <1>1 DEF SSAInv, UseInv, WalkInv, CompleteInv

\* A phi is placed in a reachable block that is not the entry.
LEMMA SSAPlacePhis ==
    ASSUME SSAInv, PlacePhis
    PROVE  UseInv' /\ WalkInv' /\ CompleteInv'
<1> DEFINE b0 == Head(work_list)[1]
           v == Head(work_list)[2]
           missing == {b \in Frontier(Graph(f), b0) : PhiOf(b, v) \notin Placed(f)}
           s == SetToSeq(missing)
<1>1. /\ TypeInv /\ control = "phi" /\ work_list # <<>> /\ names = <<>> /\ frames = <<>>
      /\ UseInv /\ CompleteInv /\ f.code[Entry] = source.code[Entry]
    BY DEF SSAInv, Inv, PhaseInv, WalkInv, PlacePhis
<1>2. f' = PlaceAll(f, v, s)
    BY DEF PlacePhis, PlaceAll
<1>3. UNCHANGED <<source, control, to_place, var_val_stack, frames, names, machine>>
    BY DEF PlacePhis
<1>4. BuiltByIRBuilder(source) /\ Derived(source, f)
    BY <1>1, SourceBuilt DEF TypeInv
<1>5. v \in StoredVariables(source)
  <2>1. work_list \in Seq(Blocks \X StoredVariables(source)) /\ work_list # <<>>
      BY <1>1 DEF TypeInv
  <2>2. Head(work_list) \in Blocks \X StoredVariables(source)
      BY <2>1
  <2> QED
      BY <2>2
<1>6. \A b \in missing : /\ b \in Blocks /\ PhiOf(b, v) \notin ToSet(f.code[b])
                         /\ b # Entry /\ IsReachable(Graph(source), b)
  <2> SUFFICES ASSUME NEW b \in missing
               PROVE  /\ b \in Blocks /\ PhiOf(b, v) \notin ToSet(f.code[b])
                      /\ b # Entry /\ IsReachable(Graph(source), b)
      OBVIOUS
  <2>1. b \in Blocks /\ PhiOf(b, v) \notin Placed(f) /\ IsReachable(Graph(f), b)
      BY DEF Frontier
  <2>2. PICK p \in PreBlocks(Graph(f), b) : TRUE
      BY DEF Frontier
  <2>3. b \in ToSet(f.blocks)
      BY <2>2, <1>4, GraphDerived DEF PreBlocks
  <2>4. b # Entry
    <3>1. Graph(f) \in CFGs
        BY <1>4, GraphDerived
    <3> QED
        BY <2>2, <3>1, BlocksAssumption DEF BlocksAssumption, PreBlocks
  <2>5. Graph(f) = Graph(source)
      BY <1>4, GraphDerived
  <2> QED
      BY <2>1, <2>3, <2>4, <2>5 DEF Placed
<1> HIDE DEF v, missing, s
<1>7. s \in Seq(missing) /\ IsInjective(s) /\ ToSet(s) = missing
  <2>1. missing \in SUBSET Blocks
      BY <1>6
  <2>2. IsFiniteSet(missing)
      BY <2>1, FS_Subset, BlocksAssumption DEF BlocksAssumption
  <2> QED
      BY <2>2, SetToSeqOf DEF s
<1>8. /\ s \in Seq(Blocks)
      /\ \A b \in ToSet(s) : PhiOf(b, v) \notin ToSet(f.code[b]) /\ IsReachable(Graph(source), b)
    BY <1>6, <1>7
<1>9. /\ Tidy(f) /\ Filled(source, f, {}) /\ AddressesOnly(source, f)
  <2>1. DOMAIN names = {}
      BY <1>1
  <2> QED
      BY <1>1, <2>1 DEF UseInv, CompleteInv
<1>10. /\ Tidy(f') /\ Filled(source, f', {}) /\ AddressesOnly(source, f')
       /\ \A c \in Blocks : c \notin ToSet(s) => f'.code[c] = f.code[c]
    BY <1>2, <1>4, <1>5, <1>7, <1>8, <1>9, PlaceAllTidy
<1>11. UseInv'
    BY <1>1, <1>3, <1>10 DEF UseInv
<1>12. WalkInv'
  <2>1. f'.code[Entry] = source.code[Entry]
      BY <1>1, <1>6, <1>7, <1>10, BlocksAssumption DEF BlocksAssumption
  <2> QED
      BY <2>1, <1>1, <1>3 DEF WalkInv
<1>13. CompleteInv'
  <2>1. names' = <<>> /\ DOMAIN names' = {}
      BY <1>1, <1>3
  <2> QED
      BY <2>1, <1>1, <1>3, <1>10 DEF CompleteInv
<1> QED
    BY <1>11, <1>12, <1>13

\* re_name(b) on a block that has not been entered: a pair for it in each phi
\* behind it, and its own accesses wait.
LEMMA SSARename ==
    ASSUME SSAInv, StartsWithStores(source),
           NEW b \in Blocks \ DOMAIN names, NEW below \in Seq(Frame(source)), Rename(b, below),
           DOMAIN below = DOMAIN frames,
           \A k \in DOMAIN frames : /\ below[k].bb = frames[k].bb
                                    /\ below[k].wait_delete = frames[k].wait_delete,
           \/ StoredVariables(source) \subseteq DOMAIN var_val_stack
           \/ b = Entry /\ f.code[Entry] = source.code[Entry],
           Inv', control' = "rename"
    PROVE  UseInv' /\ CompleteInv'
<1> DEFINE n == Len(below)
<1>1. /\ BuiltByIRBuilder(source) /\ Derived(source, f) /\ AreStacks(source, var_val_stack)
      /\ source \in Functions /\ Tidy(f) /\ CompleteInv
    BY SourceBuilt DEF SSAInv, Inv, TypeInv, UseInv
<1>2. UNCHANGED source /\ DOMAIN names' = DOMAIN names \cup {b}
    BY RenameFolds
<1>3. /\ Tidy(f') /\ f'.code = f.code
      /\ AddressesOnly(source, f) /\ ValuesOnly(var_val_stack)
           => AddressesOnly(source, f') /\ ValuesOnly(var_val_stack')
      /\ \A R : /\ Filled(source, f, R) /\ b \notin R /\ control' = "rename"
                /\ StoredVariables(source) \subseteq DOMAIN var_val_stack'
                => Filled(source, f', R \cup {b})
    BY <1>1, RenameTidyEffect
<1>4. PICK w \in Seq(Instructions(source)) :
        /\ frames' = Append(below, [bb |-> b, todo |-> Children(Graph(source), b),
                                    wait_delete |-> w])
        /\ ToSet(w) \subseteq ToSet(source.code[b])
        /\ ReadyFor(source, var_val_stack, f.code[b])
             => \A i \in ToSet(f.code[b]) : ScalarAccess(source, i) => i \in ToSet(w)
    BY <1>1, RenameTidyEffect
<1> DEFINE fr == [bb |-> b, todo |-> Children(Graph(source), b), wait_delete |-> w]
<1>5. fr.bb = b /\ fr.wait_delete = w /\ frames' = Append(below, fr)
    BY <1>4
<1> HIDE DEF fr
<1>6. /\ n \in Nat /\ DOMAIN below = 1..n /\ DOMAIN frames' = 1..(n + 1) /\ n + 1 \in 1..(n + 1)
      /\ \A k \in 1..n : frames'[k] = below[k] /\ k \in 1..(n + 1)
      /\ frames'[n + 1] = fr /\ \A k \in 1..(n + 1) : k \in 1..n \/ k = n + 1
  <2>1. frames' \in Seq(Frame(source) \cup {fr})
      BY <1>5
  <2> QED
      BY <2>1, <1>5
<1> HIDE DEF n
<1>7. UseInv'
  <2> SUFFICES ASSUME NEW k \in 1..(n + 1)
               PROVE  ToSet(frames'[k].wait_delete) \subseteq ToSet(source.code[frames'[k].bb])
      BY <1>2, <1>3, <1>6 DEF UseInv
  <2>1. CASE k = n + 1
      BY <2>1, <1>4, <1>5, <1>6
  <2>2. CASE k \in 1..n
      BY <2>2, <1>6 DEF SSAInv, UseInv
  <2> QED
      BY <2>1, <2>2, <1>6
<1>8. StoredVariables(source) \subseteq DOMAIN var_val_stack'
  <2>1. /\ Derived(source, f') /\ frames' \in Seq(Frame(source))
        /\ IsTreePath(Graph(source), frames')
        /\ StacksHold(source, f'.code, var_val_stack', frames')
        /\ ToSet(source.code[Entry]) \subseteq ToSet(f'.code[Entry])
      BY <1>2 DEF Inv, TypeInv, PathInv, PhaseInv
  <2> QED
      BY <2>1, <1>1, StacksThere
<1>9. /\ Filled(source, f', DOMAIN names') /\ AddressesOnly(source, f') /\ ValuesOnly(var_val_stack')
  <2>1. Filled(source, f, DOMAIN names) /\ b \notin DOMAIN names
      BY <1>1 DEF CompleteInv
  <2>2. Filled(source, f', DOMAIN names \cup {b})
      BY <2>1, <1>3, <1>8
  <2> QED
      BY <2>2, <1>1, <1>2, <1>3 DEF CompleteInv
<1>10. ReadyFor(source, var_val_stack, f.code[b])
    BY <1>1, AccessesReady
<1>11. ASSUME NEW c \in DOMAIN names', NEW i \in ToSet(f'.code[c]), ScalarAccess(source, i)
       PROVE  \E k \in DOMAIN frames' : frames'[k].bb = c /\ i \in ToSet(frames'[k].wait_delete)
  <2>1. CASE c = b
    <3>1. i \in ToSet(w)
        BY <2>1, <1>3, <1>4, <1>10, <1>11
    <3> QED
        BY <2>1, <3>1, <1>5, <1>6
  <2>2. CASE c \in DOMAIN names
    <3>1. i \in ToSet(f.code[c])
        BY <1>3
    <3>2. PICK k \in DOMAIN frames : frames[k].bb = c /\ i \in ToSet(frames[k].wait_delete)
        BY <2>2, <3>1, <1>1, <1>11 DEF CompleteInv
    <3>3. k \in 1..n
        BY <1>6
    <3> QED
        BY <3>2, <3>3, <1>6
  <2> QED
      BY <2>1, <2>2, <1>2
<1>12. CompleteInv'
    BY <1>2, <1>9, <1>11 DEF CompleteInv
<1> QED
    BY <1>7, <1>12

\* No function that StartsWithStores lets the assertion fail.
LEMMA NeverAborts ==
    ASSUME Inv, [Next]_vars, StartsWithStores(source), control # "aborted"
    PROVE  control' # "aborted"
<1>1. control' = "aborted" => \E v \in StoredVariables(source) : ~Stores(source, v, Entry)
    BY NextInv
<1>2. \A v \in StoredVariables(source) : Stores(source, v, Entry)
    BY SourceBuilt, StoredFirst DEF Inv, TypeInv
<1> QED
    BY <1>1, <1>2

\* The first call.
LEMMA SSAStartRenaming ==
    ASSUME SSAInv, StartsWithStores(source), StartRenaming
    PROVE  UseInv' /\ WalkInv' /\ CompleteInv'
<1>1. /\ names = <<>> /\ frames = <<>> /\ f.code[Entry] = source.code[Entry]
      /\ control = "phi" /\ TypeInv
    BY DEF SSAInv, Inv, PhaseInv, WalkInv, StartRenaming
<1>2. Rename(Entry, <<>>) /\ Entry \in Blocks /\ DOMAIN names = {}
    BY <1>1, BlocksAssumption DEF StartRenaming, BlocksAssumption
<1>3. Inv'
    BY StartRenamingInv DEF SSAInv
<1>4. control' = "rename" /\ UNCHANGED source /\ DOMAIN names' = {Entry}
  <2>1. control' # "aborted"
      BY <1>1, NeverAborts DEF SSAInv, Next
  <2> QED
      BY <2>1, <1>2, RenameFolds
<1>5. UseInv' /\ CompleteInv'
  <2>1. Entry \in Blocks \ DOMAIN names /\ <<>> \in Seq(Frame(source)) /\ DOMAIN <<>> = DOMAIN frames
      BY <1>1, <1>2
  <2>2. \A k \in DOMAIN frames : FALSE
      BY <1>1
  <2> QED
      BY <2>1, <2>2, <1>1, <1>2, <1>3, <1>4, SSARename
<1>6. Graph(source) \in CFGs
    BY <1>1, SourceBuilt, GraphDerived DEF TypeInv
<1>7. Walked(Graph(source), frames', {Entry})
  <2>1. PICK w \in Seq(Instructions(source)) :
           frames' = Append(<<>>, [bb |-> Entry, todo |-> Children(Graph(source), Entry),
                                   wait_delete |-> w])
      BY <1>1, <1>2, SourceBuilt, RenameEffect DEF TypeInv
  <2> DEFINE fr == [bb |-> Entry, todo |-> Children(Graph(source), Entry), wait_delete |-> w]
  <2>2. fr.bb = Entry /\ fr.todo = Children(Graph(source), Entry) /\ frames' = Append(<<>>, fr)
      BY <2>1
  <2> HIDE DEF fr
  <2>3. DOMAIN frames' = 1..1 /\ frames'[1] = fr
      BY <2>2
  <2> QED
      BY <2>2, <2>3, <1>6, WalkStart
<1>8. WalkInv'
    BY <1>4, <1>7 DEF WalkInv
<1> QED
    BY <1>5, <1>8

\* A call that goes on to a child.
LEMMA SSARenameChild ==
    ASSUME SSAInv, StartsWithStores(source), RenameChild
    PROVE  UseInv' /\ WalkInv' /\ CompleteInv'
<1> DEFINE n == Len(frames)
           g == Graph(source)
           R == DOMAIN names
<1>1. /\ TypeInv /\ IsTreePath(g, frames) /\ Walked(g, frames, R) /\ control = "rename"
      /\ StacksHold(source, f.code, var_val_stack, frames)
      /\ ToSet(source.code[Entry]) \subseteq ToSet(f.code[Entry])
    BY DEF SSAInv, Inv, PhaseInv, PathInv, WalkInv, RenameChild
<1>2. PICK c \in Last(frames).todo : Rename(c, [frames EXCEPT ![Len(frames)].todo = @ \ {c}])
    BY DEF RenameChild
<1> DEFINE below == [frames EXCEPT ![Len(frames)].todo = @ \ {c}]
<1>3. frames \in Seq(Frame(source)) /\ frames # <<>> /\ R \in SUBSET Blocks
    BY <1>1 DEF TypeInv, RenameChild
<1>4. /\ n \in Nat /\ n # 0 /\ DOMAIN frames = 1..n /\ n \in 1..n /\ Last(frames) = frames[n]
      /\ \A k \in 1..n : frames[k] \in Frame(source)
    BY <1>3 DEF Last
<1>5. /\ BuiltByIRBuilder(source) /\ Derived(source, f) /\ AreStacks(source, var_val_stack)
      /\ g \in CFGs
    BY <1>1, SourceBuilt, GraphDerived DEF TypeInv
<1>6. c \in frames[n].todo /\ c \in Blocks
  <2>1. frames[n].todo \subseteq Children(g, frames[n].bb)
      BY <1>1, <1>4 DEF IsTreePath
  <2> QED
      BY <2>1, <1>2, <1>4 DEF Children
<1>7. /\ below \in Seq(Frame(source)) /\ Len(below) = n /\ DOMAIN below = 1..n
      /\ \A k \in 1..n : /\ below[k].bb = frames[k].bb
                         /\ below[k].wait_delete = frames[k].wait_delete
                         /\ below[k].todo = IF k = n THEN frames[n].todo \ {c} ELSE frames[k].todo
  <2> DEFINE top == [frames[n] EXCEPT !.todo = @ \ {c}]
  <2>1. /\ top \in Frame(source) /\ top.bb = frames[n].bb /\ top.todo = frames[n].todo \ {c}
        /\ top.wait_delete = frames[n].wait_delete
      BY <1>4 DEF Frame
  <2>2. below = [frames EXCEPT ![n] = top]
      OBVIOUS
  <2> HIDE DEF top, n, below
  <2>3. /\ below \in [1..n -> Frame(source)]
        /\ \A k \in 1..n : below[k] = IF k = n THEN top ELSE frames[k]
      BY <2>1, <2>2, <1>3, <1>4
  <2>4. below \in Seq(Frame(source)) /\ Len(below) = n /\ DOMAIN below = 1..n
      BY <2>3, <1>4
  <2>5. ASSUME NEW k \in 1..n
        PROVE  /\ below[k].bb = frames[k].bb
               /\ below[k].wait_delete = frames[k].wait_delete
               /\ below[k].todo = IF k = n THEN frames[n].todo \ {c} ELSE frames[k].todo
    <3>1. below[k] = IF k = n THEN top ELSE frames[k]
        BY <2>3
    <3>2. CASE k = n
        BY <2>1, <3>1, <3>2
    <3>3. CASE k # n
        BY <3>1, <3>3
    <3> QED
        BY <3>2, <3>3
  <2> QED
      BY <2>4, <2>5
<1>8. Rename(c, below)
    BY <1>2
<1> HIDE DEF below
<1>9. Inv'
    BY RenameChildInv DEF SSAInv
<1>10. control' = "rename" /\ UNCHANGED source /\ DOMAIN names' = R \cup {c}
  <2>1. control' # "aborted"
      BY <1>1, NeverAborts DEF SSAInv, Next
  <2> QED
      BY <2>1, <1>8, RenameFolds
<1>11. PICK w \in Seq(Instructions(source)) :
         frames' = Append(below, [bb |-> c, todo |-> Children(g, c), wait_delete |-> w])
    BY <1>5, <1>6, <1>8, RenameEffect
<1>12. c \notin R /\ Walked(g, frames', R \cup {c})
  <2> DEFINE fr == [bb |-> c, todo |-> Children(g, c), wait_delete |-> w]
  <2>1. fr.bb = c /\ fr.todo = Children(g, c) /\ frames' = Append(below, fr)
      BY <1>11
  <2> HIDE DEF fr, n, g, R
  <2>2. DOMAIN frames' = 1..(n + 1) /\ (\A k \in 1..n : frames'[k] = below[k]) /\ frames'[n + 1] = fr
      BY <2>1, <1>4, <1>7
  <2> DEFINE F == frames
             G == frames'
  <2>3. /\ DOMAIN F = 1..n /\ Len(F) = n /\ IsTreePath(g, F) /\ Walked(g, F, R) /\ c \in F[n].todo
      BY <1>1, <1>4, <1>6 DEF n
  <2>5. GoesOn(g, F, n, c, G)
      BY <2>1, <2>2, <1>4, <1>7 DEF GoesOn
  <2> HIDE DEF F, G
  <2>4. c \notin R /\ Walked(g, G, R \cup {c})
      BY <2>3, <2>5, <1>3, <1>4, <1>5, WalkChild
  <2> QED
      BY <2>4 DEF G
<1>13. StoredVariables(source) \subseteq DOMAIN var_val_stack
    BY <1>1, <1>3, <1>5, StacksThere
<1>14. UseInv' /\ CompleteInv'
  <2>1. c \in Blocks \ DOMAIN names
      BY <1>6, <1>12
  <2> HIDE DEF n, R
  <2> QED
      BY <2>1, <1>4, <1>7, <1>8, <1>9, <1>10, <1>13, SSARename
<1>15. WalkInv'
    BY <1>10, <1>12 DEF WalkInv
<1> QED
    BY <1>14, <1>15

\* A call that returns: what waited in its block is gone.
LEMMA SSALeaveBlock ==
    ASSUME SSAInv, LeaveBlock
    PROVE  UseInv' /\ WalkInv' /\ CompleteInv'
<1> DEFINE n == Len(frames)
           G == frames
           F == Front(frames)
           b == frames[n].bb
           s == frames[n].wait_delete
           popped == PopAll(f, var_val_stack, f.code[b])
           left == DeleteAll(f, b, s)
           R == DOMAIN names
<1>1. /\ TypeInv /\ IsTreePath(Graph(source), frames) /\ control = "rename"
      /\ Walked(Graph(source), frames, R) /\ UseInv /\ CompleteInv
    BY DEF SSAInv, Inv, PathInv, WalkInv, LeaveBlock
<1>2. frames \in Seq(Frame(source)) /\ frames # <<>> /\ R \in SUBSET Blocks
    BY <1>1 DEF TypeInv, LeaveBlock
<1>3. /\ n \in Nat /\ n # 0 /\ DOMAIN G = 1..n /\ n \in 1..n /\ Last(frames) = G[n]
      /\ \A k \in 1..n : G[k] \in Frame(source)
  <2>1. n \in Nat \ {0} /\ Last(frames) = frames[n]
      BY <1>2, FrontLast
  <2> QED
      BY <2>1, <1>2
<1>4. /\ F \in Seq(Frame(source)) /\ Len(F) = n - 1 /\ DOMAIN F = 1..(n - 1)
      /\ \A k \in 1..(n - 1) : F[k] = G[k]
  <2>1. /\ F \in Seq(Frame(source)) /\ Len(F) = n - 1
        /\ \A k \in 1..(n - 1) : F[k] = frames[k]
      BY <1>2, FrontLast
  <2> QED
      BY <2>1
<1>5. /\ var_val_stack' = popped /\ f' = left /\ frames' = F /\ G[n].todo = {}
      /\ control' = IF n = 1 THEN "alloca" ELSE "rename"
      /\ UNCHANGED <<source, to_place, work_list, names, machine>>
  <2>1. /\ var_val_stack' = PopAll(f, var_val_stack, f.code[Last(frames).bb])
        /\ f' = DeleteAll(f, Last(frames).bb, Last(frames).wait_delete)
        /\ Last(frames).todo = {}
      BY DEF LeaveBlock, PopAll, DeleteAll
  <2>2. popped = PopAll(f, var_val_stack, f.code[Last(frames).bb])
      BY <1>3
  <2>3. left = DeleteAll(f, Last(frames).bb, Last(frames).wait_delete)
      BY <1>3
  <2>4. /\ frames' = F /\ control' = IF n = 1 THEN "alloca" ELSE "rename"
        /\ UNCHANGED <<source, to_place, work_list, names, machine>>
      BY <1>1 DEF LeaveBlock
  <2> QED
      BY <2>1, <2>2, <2>3, <2>4, <1>3
<1>6. /\ BuiltByIRBuilder(source) /\ Derived(source, f) /\ AreStacks(source, var_val_stack)
      /\ Graph(source) \in CFGs
    BY <1>1, SourceBuilt, GraphDerived DEF TypeInv
<1>7. /\ \A k \in 1..n : G[k].bb \in Blocks
      /\ \A k \in 1..n : k < n => G[k].bb # b
      /\ b \in Blocks
  <2>1. \A j, k \in 1..n : j < k => StrictlyDominates(Graph(source), G[j].bb, G[k].bb)
      BY <1>1, <1>3 DEF IsTreePath
  <2> QED
      BY <2>1, <1>1, <1>3 DEF IsTreePath, StrictlyDominates
<1>8. PICK m \in Nat : DOMAIN s = 1..m
  <2>1. frames[n].wait_delete \in Seq(Instructions(source))
      BY <1>3 DEF Frame
  <2> QED
      BY <2>1
<1>9. /\ Tidy(f) /\ ToSet(s) \subseteq ToSet(source.code[b])
      /\ s \in Seq(Instructions(source))
    BY <1>1, <1>3 DEF UseInv, Frame
<1>10. f.code[b] \in Seq(Instructions(source))
    BY <1>6, <1>7, CodeList
<1> HIDE DEF n, G, F, popped, left, s, R
<1>11. /\ Tidy(left)
       /\ \A Q : Filled(source, f, Q) => Filled(source, left, Q)
       /\ AddressesOnly(source, f) => AddressesOnly(source, left)
       /\ ToSet(left.code[b]) = ToSet(f.code[b]) \ ToSet(s)
       /\ \A c \in Blocks : c # b => left.code[c] = f.code[c]
  <2> HIDE DEF b
  <2>1. \A c \in Blocks : c # b => left.code[c] = f.code[c]
      BY <1>6, <1>7, <1>8, DeleteAllDerived DEF left
  <2>2. /\ Tidy(DeleteAll(f, b, s))
        /\ \A Q : Filled(source, f, Q) => Filled(source, DeleteAll(f, b, s), Q)
        /\ AddressesOnly(source, f) => AddressesOnly(source, DeleteAll(f, b, s))
        /\ ToSet(DeleteAll(f, b, s).code[b]) = ToSet(f.code[b]) \ ToSet(s)
    <3>1. /\ BuiltByIRBuilder(source) /\ Derived(source, f) /\ Tidy(f) /\ b \in Blocks
          /\ ToSet(s) \subseteq ToSet(source.code[b]) /\ s \in Seq(Instructions(source))
        BY <1>6, <1>7, <1>9
    <3> QED
        BY <3>1, DeleteAllTidy
  <2>3. left = DeleteAll(f, b, s)
      BY DEF left
  <2> HIDE DEF left
  <2> QED
      BY <2>1, <2>2, <2>3
<1>12. ValuesOnly(var_val_stack) => ValuesOnly(popped)
  <2> HIDE DEF b
  <2> QED
      BY <1>6, <1>10, PopAllValues DEF popped
<1> HIDE DEF b
<1>13. \A k \in 1..(n - 1) : k \in 1..n /\ k < n /\ k \in DOMAIN F /\ F[k] = G[k]
    BY <1>3, <1>4
<1>14. \A k \in 1..n : k \in 1..(n - 1) \/ k = n
    BY <1>3
<1>15. UseInv'
  <2>1. \A k \in 1..(n - 1) : ToSet(F[k].wait_delete) \subseteq ToSet(source.code[F[k].bb])
      BY <1>1, <1>3, <1>13 DEF UseInv, G
  <2> QED
      BY <2>1, <1>4, <1>5, <1>11 DEF UseInv
<1>16. CompleteInv'
  <2>1. ASSUME NEW c \in R, NEW i \in ToSet(left.code[c]), ScalarAccess(source, i)
        PROVE  \E k \in DOMAIN F : F[k].bb = c /\ i \in ToSet(F[k].wait_delete)
    <3>1. c \in Blocks
        BY <1>2
    <3>2. i \in ToSet(f.code[c]) /\ (c = b => i \notin ToSet(s))
        BY <3>1, <1>11
    <3>3. PICK k \in 1..n : G[k].bb = c /\ i \in ToSet(G[k].wait_delete)
        BY <3>2, <2>1, <1>1, <1>3 DEF CompleteInv, G, R
    <3>4. k # n
        BY <3>2, <3>3, <1>3 DEF b, s, G
    <3> QED
        BY <3>3, <3>4, <1>13, <1>14
  <2>2. Filled(source, left, R) /\ AddressesOnly(source, left) /\ ValuesOnly(popped)
      BY <1>1, <1>11, <1>12 DEF CompleteInv, R
  <2>3. control' # "aborted" /\ DOMAIN names' = R /\ source' = source
      BY <1>5 DEF R
  <2> QED
      BY <2>1, <2>2, <2>3, <1>5 DEF CompleteInv
<1>17. Walked(Graph(source), F, R)
  <2>1. /\ DOMAIN G = 1..n /\ Walked(Graph(source), G, R) /\ G[n].todo = {}
        /\ DOMAIN F = 1..(n - 1) /\ \A k \in 1..(n - 1) : F[k] = G[k]
      BY <1>1, <1>3, <1>4, <1>5 DEF G
  <2> QED
      BY <2>1, <1>3, WalkLeave
<1>18. WalkInv'
  <2>1. CASE n = 1
    <3>1. F = <<>> /\ DOMAIN F = {}
        BY <2>1, <1>4
    <3>2. \A c \in Blocks : IsReachable(Graph(source), c) => c \in R
        BY <3>1, <1>6, <1>17, WalkEnd
    <3> QED
        BY <2>1, <3>1, <3>2, <1>5 DEF WalkInv, R
  <2>2. CASE n # 1
      BY <2>2, <1>5, <1>17 DEF WalkInv, R
  <2> QED
      BY <2>1, <2>2
<1> QED
    BY <1>15, <1>16, <1>18

\* The allocas go, and the function runs: it stays what it is.
LEMMA SSARest ==
    ASSUME SSAInv, RemoveAlloca \/ RunNextBlock \/ UNCHANGED vars
    PROVE  UseInv' /\ WalkInv' /\ CompleteInv'
<1>1. /\ UNCHANGED <<source, f, frames, names, var_val_stack>>
      /\ control' = control \/ (control = "alloca" /\ control' = "run")
    BY DEF RemoveAlloca, RunNextBlock, vars, passVars
<1> QED
    BY <1>1 DEF SSAInv, UseInv, WalkInv, CompleteInv

\* So every step keeps it.
LEMMA SSANext ==
    ASSUME SSAInv, StartsWithStores(source), [Next]_vars
    PROVE  SSAInv' /\ source' = source
<1>1. Inv' /\ source' = source
    BY NextInv, SourceStays DEF SSAInv
<1>2. UseInv' /\ WalkInv' /\ CompleteInv'
    BY SSANextVariable, SSAPlacePhis, SSAStartRenaming, SSARenameChild, SSALeaveBlock, SSARest
       DEF Next
<1> QED
    BY <1>1, <1>2 DEF SSAInv

\* No operand of an instruction in a block of the function is a local.
LEMMA NoLocalsLeft ==
    ASSUME SSAInv, StartsWithStores(source), KeepsDeadCodeApart(source), control = "alloca",
           NEW b \in Blocks, NEW i \in ToSet(f.code[b])
    PROVE  OperandsOf(f, i) \cap Scalars = {}
<1>1. /\ BuiltByIRBuilder(source) /\ Derived(source, f)
      /\ CompleteInv /\ frames = <<>> /\ AddressesOnly(source, f)
      /\ IsReachable(Graph(source), b) => b \in DOMAIN names
    BY SourceBuilt DEF SSAInv, Inv, TypeInv, WalkInv, CompleteInv
<1> SUFFICES ASSUME NEW n \in DOMAIN f.args[i], f.args[i][n] \in Scalars PROVE FALSE
    BY DEF OperandsOf, ToSet
<1>2. IsAddress(source, i, n)
    BY <1>1 DEF AddressesOnly
<1>3. i \in DOMAIN source.op /\ i \in ToSet(source.code[b])
    BY <1>1, <1>2, CodeHome, InstructionKinds DEF IsAddress
<1>4. /\ source.op[i] = "load" => f.args[i] = <<source.args[i][1]>>
      /\ source.op[i] = "store" => f.args[i] = <<f.args[i][1], source.args[i][2]>>
  <2>1. KeepsAccesses(source, f.op, f.args)
      BY <1>1 DEF Derived, KeepsOperands
  <2> QED
      BY <2>1, <1>3 DEF KeepsAccesses
<1>5. f.args[i][n] = source.args[i][n] /\ ScalarAccess(source, i)
  <2>1. CASE source.op[i] = "load" /\ n = 1
    <3>1. f.args[i][1] = source.args[i][1]
        BY <2>1, <1>4
    <3> QED
        BY <2>1, <3>1, <1>3 DEF ScalarAccess
  <2>2. CASE source.op[i] = "store" /\ n = 2
    <3>1. f.args[i][2] = source.args[i][2]
        BY <2>2, <1>4
    <3> QED
        BY <2>2, <3>1, <1>3 DEF ScalarAccess
  <2> QED
      BY <2>1, <2>2, <1>2 DEF IsAddress
<1>6. CASE IsReachable(Graph(source), b)
  <2>1. \E k \in DOMAIN frames : i \in ToSet(frames[k].wait_delete)
      BY <1>1, <1>5, <1>6 DEF CompleteInv
  <2> QED
      BY <2>1, <1>1
<1>7. CASE ~IsReachable(Graph(source), b)
  <2>1. OperandsOf(source, i) \cap Scalars = {}
      BY <1>3, <1>7 DEF KeepsDeadCodeApart
  <2>2. PICK k \in DOMAIN source.args[i] : source.args[i][k] \in Scalars
      BY <1>1, <1>5, AccessOperand
  <2> QED
      BY <2>1, <2>2 DEF OperandsOf, ToSet
<1> QED
    BY <1>6, <1>7

\* When re_name is done the function is in SSA form, if its entry stores each local
\* before it is loaded and no dead block is a predecessor of a live one: each phi
\* has one pair for each predecessor, no load and no store of a local is left, and
\* the use lists are complete.
THEOREM SSAIsComplete ==
    ASSUME \A g \in Functions : StartsWithStores(g) /\ KeepsDeadCodeApart(g)
    PROVE  Spec => []LeavesCompleteSSA
<1>1. Init => SSAInv
  <2> SUFFICES ASSUME Init PROVE SSAInv
      OBVIOUS
  <2>1. StartsWithStores(source)
      BY DEF Init
  <2> QED
      BY <2>1, SSAInit
<1>2. SSAInv /\ [Next]_vars => SSAInv'
  <2> SUFFICES ASSUME SSAInv, [Next]_vars PROVE SSAInv'
      OBVIOUS
  <2>1. StartsWithStores(source)
      BY DEF SSAInv, Inv, TypeInv
  <2> QED
      BY <2>1, SSANext
<1>3. SSAInv => LeavesCompleteSSA
  <2> SUFFICES ASSUME SSAInv, control = "alloca"
               PROVE  /\ \A b \in Blocks : \A i \in PhisIn(f, b) :
                           /\ Len(f.args[i]) = 2 * Cardinality(PreBlocks(Graph(f), b))
                           /\ {f.args[i][n] : n \in {k \in DOMAIN f.args[i] : k % 2 = 0}}
                                  = {Label(p) : p \in PreBlocks(Graph(f), b)}
                      /\ \A i \in Placed(f) : OperandsOf(f, i) \cap Scalars = {}
                      /\ UsesKnown(f)
      BY DEF LeavesCompleteSSA
  <2> DEFINE g == Graph(source)
             R == DOMAIN names
  <2>1. /\ source \in Functions /\ BuiltByIRBuilder(source) /\ Derived(source, f) /\ Tidy(f)
        /\ Filled(source, f, R) /\ \A b \in Blocks : IsReachable(g, b) => b \in R
      BY SourceBuilt DEF SSAInv, Inv, TypeInv, UseInv, WalkInv, CompleteInv
  <2>2. StartsWithStores(source) /\ KeepsDeadCodeApart(source) /\ Graph(f) = g
      BY <2>1, GraphDerived
  <2>3. \A b \in ToSet(f.blocks) : b \in Blocks
    <3>1. source.blocks \in Seq(Blocks) /\ f.blocks = source.blocks
        BY <2>1 DEF BuiltByIRBuilder, Derived
    <3> QED
        BY <3>1, ToSetFinite
  <2>4. ASSUME NEW b \in Blocks, NEW i \in PhisIn(f, b)
        PROVE  /\ Len(f.args[i]) = 2 * Cardinality(PreBlocks(g, b))
               /\ SecondsOf(f.args[i]) = LabelsOf(PreBlocks(g, b))
    <3>1. /\ IsReachable(g, b) /\ Len(f.args[i]) = 2 * Cardinality(PreBlocks(g, b) \cap R)
          /\ SecondsOf(f.args[i]) = LabelsOf(PreBlocks(g, b) \cap R)
        BY <2>1 DEF Filled
    <3>2. PreBlocks(g, b) \cap R = PreBlocks(g, b)
      <4>1. \A p \in PreBlocks(g, b) : p \in Blocks /\ b \in g[p]
          BY DEF PreBlocks
      <4>2. \A p \in Blocks : ~IsReachable(g, p) => \A c \in g[p] : ~IsReachable(g, c)
          BY <2>2 DEF KeepsDeadCodeApart
      <4> HIDE DEF g, R
      <4> QED
          BY <3>1, <4>1, <4>2, <2>1
    <3> QED
        BY <3>1, <3>2
  <2>5. \A i \in Placed(f) : \E b \in Blocks : i \in ToSet(f.code[b])
      BY <2>3 DEF Placed
  <2>6. \A i \in Placed(f) : OperandsOf(f, i) \cap Scalars = {}
      BY <2>2, <2>5, NoLocalsLeft
  <2>7. UsesKnown(f)
      BY <2>1, <2>5 DEF UsesKnown, Tidy, KnownUses
  <2> QED
      BY <2>2, <2>4, <2>6, <2>7 DEF SecondsOf, LabelsOf
<1> QED
    BY <1>1, <1>2, <1>3, PTL DEF Spec
=============================================================================
